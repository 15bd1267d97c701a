----------------------- MODULE KnowtfolioClientProofs -----------------------
(***************************************************************************)
(* What is proved of the whole client: the page that registers a wallet,   *)
(* and then every page's invariant under ClientSpec, whichever page is     *)
(* mounted.                                                                *)
(***************************************************************************)
EXTENDS KnowtfolioClient, ClientSessionProofs, ClientFormsProofs, PostWalletAddressProofs

-----------------------------------------------------------------------------
(* RegisterWalletPage.  The inductive invariant: a press that the function *)
(* has accepted has put the account that is still on the page.             *)

Accepted == {"accepted", "success"}

WalletFormShape ==
    /\ me \in Members
    /\ context \in {{}} \cup {{w} : w \in AddressText \cup {NoAddress}}
    /\ contextLoads \in Nat
    /\ press \in [Presses -> Steps]
    /\ \A p \in Presses : press[p] # "idle" => context # {} /\ IsConnectedToMetamask

\* Only one press is accepted, and only a success loads the context again.
AcceptedOnce ==
    /\ \A p \in Presses : press[p] \in Accepted =>
        /\ walletOf[me] = String(account)
        /\ userOf[String(account)] = me
        /\ \A q \in Presses \ {p} : press[q] \notin Accepted
    /\ contextLoads <= 2
    /\ (\A p \in Presses : press[p] # "success") => contextLoads <= 1

WalletFormInv == WalletFormShape /\ AcceptedOnce

\* The page has just been opened.
LEMMA InitialWalletPage ==
    ASSUME WalletPageInit
    PROVE  RegistrationInv /\ Web3TypeOK /\ WalletFormInv
<1>1. RegistrationInv
    BY InitialRegistration DEF WalletPageInit
<1>2. Web3TypeOK
    BY DEF WalletPageInit, Web3Init, Web3TypeOK
<1>3. WalletFormInv
    BY DEF WalletPageInit, WalletFormInv, WalletFormShape, AcceptedOnce, Steps, Accepted
<1> QED
    BY <1>1, <1>2, <1>3

\* A page on which nothing was pressed keeps its invariant whatever happens to
\* the table and to the account.
LEMMA UnpressedKeeps ==
    ASSUME WalletFormInv, UNCHANGED walletFormVars, \A p \in Presses : press[p] = "idle"
    PROVE  WalletFormInv'
BY DEF walletFormVars, WalletFormInv, WalletFormShape, AcceptedOnce, Accepted

\* A press that goes on is of a user and an account that there are.
LEMMA PressedByMember ==
    ASSUME WalletFormInv, Web3TypeOK, NEW p \in Presses, press[p] # "idle"
    PROVE  me \in Users /\ account \in Accounts /\ String(account) \in AddressText
BY MemberAssumption, MetamaskAssumption, StringType
   DEF WalletFormInv, WalletFormShape, IsConnectedToMetamask, Web3TypeOK

\* What is put for somebody else leaves an accepted press alone.
LEMMA OthersPutKeeps ==
    ASSUME RegistryInv, WalletFormInv, Web3TypeOK, UNCHANGED <<account, walletFormVars>>,
           \/ UNCHANGED <<walletOf, userOf>>
           \/ \E u \in Users, text \in AddressText : PutUserWallet(u, text)
    PROVE  WalletFormInv'
<1> USE DEF WalletFormInv
<1>1. WalletFormShape'
    BY DEF WalletFormShape, walletFormVars, IsConnectedToMetamask
<1>2. ASSUME NEW p \in Presses, press[p] \in Accepted
      PROVE  walletOf'[me] = String(account) /\ userOf'[String(account)] = me
    <2>1. /\ walletOf[me] = String(account) /\ userOf[String(account)] = me
        BY <1>2 DEF AcceptedOnce
    <2>2. me \in Users /\ String(account) \in AddressText
        BY <1>2, PressedByMember DEF Accepted
    <2>3. ASSUME NEW u \in Users, NEW text \in AddressText, PutUserWallet(u, text)
          PROVE  walletOf'[me] = String(account) /\ userOf'[String(account)] = me
        <3>1. u # me /\ text # String(account)
            BY <2>1, <2>2, <2>3, PutUserWalletItems, UserAssumption, AddressAssumption
               DEF RegistryInv
        <3> QED
            BY <2>1, <2>2, <2>3, <3>1, PutUserWalletItems DEF RegistryInv, WalletTypeOK
    <2> QED
        BY <2>1, <2>3
<1> QED
    BY <1>1, <1>2 DEF AcceptedOnce, walletFormVars

\* The page is connected, reads its context, or is loaded again.
LEMMA AroundTheFormKeeps ==
    ASSUME RegistryInv, WalletFormInv, Web3TypeOK, ConnectWallet \/ LoadContext \/ ReloadPage
    PROVE  WalletFormInv' /\ Web3TypeOK'
<1> USE DEF WalletFormInv
<1>1. CASE ConnectWallet
    <2>1. Web3TypeOK' /\ UNCHANGED <<walletFormVars, registrationVars>>
        BY <1>1 DEF ConnectWallet, Web3Next, DetectProvider, ConnectMetamask, Web3TypeOK
    <2>2. CASE UNCHANGED account
        BY <2>1, <2>2, OthersPutKeeps DEF registrationVars, walletVars
    <2>3. CASE ~IsConnectedToMetamask
        BY <2>1, <2>3, UnpressedKeeps DEF WalletFormShape
    <2> QED
        BY <1>1, <2>1, <2>2, <2>3 DEF ConnectWallet, Web3Next, DetectProvider, ConnectMetamask
<1>2. CASE LoadContext
    <2>1. /\ contextLoads > 0 /\ contextLoads' = contextLoads - 1
          /\ context' \in {{NoAddress}, {walletOf[me]}, context}
          /\ UNCHANGED <<registrationVars, web3Vars, me, press>>
        BY <1>2 DEF LoadContext
    <2>2. walletOf[me] \in AddressText \cup {NoAddress}
        BY MemberAssumption DEF WalletFormShape, RegistryInv, WalletTypeOK
    <2>3. WalletFormShape'
        BY <2>1, <2>2 DEF WalletFormShape, IsConnectedToMetamask, web3Vars
    <2>4. AcceptedOnce'
        BY <2>1 DEF AcceptedOnce, WalletFormShape, registrationVars, walletVars, web3Vars
    <2> QED
        BY <2>1, <2>3, <2>4 DEF web3Vars, Web3TypeOK
<1>3. CASE ReloadPage
    <2>1. /\ canConnect' = FALSE /\ account' = NoAddress
          /\ context' = {} /\ contextLoads' = 1 /\ me' = me
          /\ press' = [p \in Presses |-> "idle"]
        BY <1>3 DEF ReloadPage
    <2>2. press' \in [Presses -> Steps] /\ \A p \in Presses : press'[p] = "idle"
        BY <2>1 DEF Steps
    <2>3. WalletFormShape'
        BY <2>1, <2>2 DEF WalletFormShape
    <2>4. AcceptedOnce'
        BY <2>1, <2>2 DEF AcceptedOnce, Accepted
    <2> QED
        BY <2>1, <2>3, <2>4 DEF Web3TypeOK
<1> QED
    BY <1>1, <1>2, <1>3

\* One press moves, and no other is accepted.
LEMMA OnePressMoves ==
    ASSUME WalletFormInv, NEW p \in Presses, NEW from \in Steps, NEW to \in Steps,
           MovesTo(p, from, to)
    PROVE  /\ press' \in [Presses -> Steps] /\ press[p] = from /\ press'[p] = to
           /\ \A q \in Presses \ {p} : press'[q] = press[q]
BY DEF MovesTo, WalletFormInv, WalletFormShape

\* Up to the post, and after a refusal, nothing of the table and of the other
\* presses is touched.
LEMMA UnacceptedMoveKeeps ==
    ASSUME WalletFormInv, NEW p \in Presses, NEW from \in Steps \ {"success"},
           NEW to \in Steps \ Accepted, MovesTo(p, from, to),
           from = "idle" => context # {} /\ IsConnectedToMetamask,
           UNCHANGED <<walletOf, userOf, web3Vars, me, context, contextLoads>>
    PROVE  WalletFormInv'
<1> USE DEF WalletFormInv
<1>1. /\ press' \in [Presses -> Steps] /\ press[p] = from /\ press'[p] = to
      /\ \A q \in Presses \ {p} : press'[q] = press[q]
    BY OnePressMoves
<1>2. WalletFormShape'
    BY <1>1 DEF WalletFormShape, IsConnectedToMetamask, web3Vars
<1>3. AcceptedOnce'
    BY <1>1 DEF AcceptedOnce, Accepted, web3Vars
<1> QED
    BY <1>2, <1>3

\* The function puts the account for the user, or answers with an error.
LEMMA PostWalletKeeps ==
    ASSUME RegistrationInv, WalletFormInv, Web3TypeOK, NEW p \in Presses, PostWallet(p)
    PROVE  RegistrationInv' /\ WalletFormInv'
<1> USE DEF WalletFormInv
<1>1. /\ press[p] = "post" /\ UNCHANGED <<web3Vars, me, context, contextLoads>>
      /\ MovesTo(p, "post", IF reply'.code = "ok" THEN "accepted" ELSE "refused")
    BY DEF PostWallet
<1>2. me \in Users /\ account \in Accounts /\ String(account) \in AddressText
    BY <1>1, PressedByMember
<1>3. PICK tokenUser \in {me, NoUser} : Post(tokenUser, me, String(account))
    BY DEF PostWallet
<1>4. RegistrationInv'
    BY <1>2, <1>3, PostRegistration
<1>5. CASE reply'.code # "ok"
    <2>1. CASE UNCHANGED walletVars
        BY <1>1, <1>4, <1>5, <2>1, UnacceptedMoveKeeps DEF walletVars, Steps, Accepted
    <2>2. CASE PutUserWallet(me, String(account))
        <3>1. walletOf[me] = NoAddress
            BY <2>2 DEF PutUserWallet, HasItems
        <3>2. \A q \in Presses : press[q] \notin Accepted
            BY <1>2, <3>1, AddressAssumption DEF AcceptedOnce
        <3>3. /\ press' \in [Presses -> Steps] /\ press'[p] = "refused"
              /\ \A q \in Presses \ {p} : press'[q] = press[q]
            BY <1>1, <1>5, OnePressMoves DEF Steps
        <3>4. WalletFormShape'
            BY <1>1, <3>3 DEF WalletFormShape, IsConnectedToMetamask, web3Vars
        <3>5. AcceptedOnce'
            BY <1>1, <3>2, <3>3 DEF AcceptedOnce, Accepted
        <3> QED
            BY <1>4, <3>4, <3>5
    <2> QED
        BY <1>3, <2>1, <2>2 DEF Post
<1>6. CASE reply'.code = "ok"
    <2>0. Refusal(me, String(account)) # "ok"
        BY DEF Refusal
    <2>1. PutUserWallet(me, String(account))
        BY <1>3, <1>6, <2>0 DEF Post
    <2>2. /\ walletOf[me] = NoAddress
          /\ walletOf'[me] = String(account) /\ userOf'[String(account)] = me
        BY <1>2, <2>1, PutUserWalletItems DEF RegistrationInv, RegistryInv, WalletTypeOK
    <2>3. \A q \in Presses : press[q] \notin Accepted
        BY <1>2, <2>2, AddressAssumption DEF AcceptedOnce
    <2>4. /\ press' \in [Presses -> Steps] /\ press'[p] = "accepted"
          /\ \A q \in Presses \ {p} : press'[q] = press[q]
        BY <1>1, <1>6, OnePressMoves DEF Steps
    <2>5. WalletFormShape'
        BY <1>1, <2>4 DEF WalletFormShape, IsConnectedToMetamask, web3Vars
    <2>6. AcceptedOnce'
        BY <1>1, <2>2, <2>3, <2>4 DEF AcceptedOnce, Accepted, web3Vars
    <2> QED
        BY <1>4, <2>5, <2>6
<1> QED
    BY <1>5, <1>6

\* The success toast, which loads the context again, or the failure toast.
LEMMA PostAnsweredKeeps ==
    ASSUME WalletFormInv, NEW p \in Presses, PostAnswered(p)
    PROVE  WalletFormInv'
<1> USE DEF WalletFormInv
<1>1. UNCHANGED <<registrationVars, web3Vars, me, context>>
    BY DEF PostAnswered
<1>2. ASSUME NEW from \in {"post", "accepted", "refused"}, MovesTo(p, from, "failure"),
             UNCHANGED contextLoads
      PROVE  WalletFormInv'
    BY <1>1, <1>2, UnacceptedMoveKeeps DEF Steps, Accepted, registrationVars, walletVars
<1>3. CASE ToldRegistered(p, "accepted")
    <2>1. /\ press' \in [Presses -> Steps] /\ press[p] = "accepted" /\ press'[p] = "success"
          /\ \A q \in Presses \ {p} : press'[q] = press[q]
          /\ contextLoads' = contextLoads + 1
        BY <1>3, OnePressMoves DEF ToldRegistered, Steps
    <2>2. \A q \in Presses : press[q] # "success"
        BY <2>1 DEF AcceptedOnce, Accepted
    <2>3. WalletFormShape'
        BY <1>1, <2>1 DEF WalletFormShape, IsConnectedToMetamask, web3Vars
    <2>4. AcceptedOnce'
        BY <1>1, <2>1, <2>2 DEF AcceptedOnce, Accepted, WalletFormShape, registrationVars,
                                walletVars, web3Vars
    <2> QED
        BY <2>3, <2>4
<1> QED
    BY <1>2, <1>3 DEF PostAnswered

\* A registration at another browser.
LEMMA RegisterElsewhereKeeps ==
    ASSUME RegistrationInv, WalletFormInv, Web3TypeOK,
           NEW u \in Users, NEW acct \in Accounts, RegisterElsewhere(u, acct)
    PROVE  RegistrationInv' /\ WalletFormInv'
<1>1. /\ PutUserWallet(u, String(acct)) /\ String(acct) \in AddressText
      /\ UNCHANGED <<reply, web3Vars, walletFormVars>>
    BY StringType DEF RegisterElsewhere
<1>2. RegistryInv'
    BY <1>1, PutKeepsRegistry DEF RegistrationInv
<1>3. RegistrationInv'
    BY <1>1, <1>2 DEF RegistrationInv, RegistrationTypeOK, RegistryInv
<1> QED
    BY <1>1, <1>3, OthersPutKeeps DEF RegistrationInv, web3Vars

\* Every step of the page keeps the invariants of the table, of MetaMask and of
\* the form.
LEMMA WalletPageStepKeeps ==
    ASSUME RegistrationInv, Web3TypeOK, WalletFormInv, WalletPageNext
    PROVE  RegistrationInv' /\ Web3TypeOK' /\ WalletFormInv'
<1>1. CASE ConnectWallet \/ LoadContext \/ ReloadPage
    <2>1. UNCHANGED registrationVars
        BY <1>1 DEF ConnectWallet, LoadContext, ReloadPage
    <2>2. RegistrationInv'
        BY <2>1, StepRegistration
    <2> QED
        BY <1>1, <2>2, AroundTheFormKeeps DEF RegistrationInv
<1>2. ASSUME NEW u \in Users, NEW acct \in Accounts, RegisterElsewhere(u, acct)
      PROVE  RegistrationInv' /\ Web3TypeOK' /\ WalletFormInv'
    BY <1>2, RegisterElsewhereKeeps DEF RegisterElsewhere, web3Vars, Web3TypeOK
<1>3. ASSUME NEW p \in Presses, RegisterWalletAddress(p) \/ SignRegistration(p)
      PROVE  RegistrationInv' /\ Web3TypeOK' /\ WalletFormInv'
    <2>1. UNCHANGED <<registrationVars, web3Vars, me, context, contextLoads>>
        BY <1>3 DEF RegisterWalletAddress, SignRegistration
    <2>2. RegistrationInv' /\ Web3TypeOK'
        BY <2>1, StepRegistration DEF web3Vars, Web3TypeOK
    <2>3. PICK from \in {"idle", "sign"}, to \in {"idle", "sign", "post"} :
                /\ MovesTo(p, from, to)
                /\ from = "idle" => context # {} /\ IsConnectedToMetamask
        BY <1>3 DEF RegisterWalletAddress, SignRegistration
    <2>4. WalletFormInv'
        BY <2>1, <2>3, UnacceptedMoveKeeps DEF Steps, Accepted, registrationVars, walletVars
    <2> QED
        BY <2>2, <2>4
<1>4. ASSUME NEW p \in Presses, PostWallet(p)
      PROVE  RegistrationInv' /\ Web3TypeOK' /\ WalletFormInv'
    BY <1>4, PostWalletKeeps DEF PostWallet, web3Vars, Web3TypeOK
<1>5. ASSUME NEW p \in Presses, PostAnswered(p)
      PROVE  RegistrationInv' /\ Web3TypeOK' /\ WalletFormInv'
    <2>1. UNCHANGED <<registrationVars, web3Vars>>
        BY <1>5 DEF PostAnswered
    <2> QED
        BY <1>5, <2>1, PostAnsweredKeeps, StepRegistration DEF web3Vars, Web3TypeOK
<1> QED
    BY <1>1, <1>2, <1>3, <1>4, <1>5 DEF WalletPageNext

\* An accepted press has put the account, and the table agrees both ways.
LEMMA WalletPromise ==
    RegistrationInv /\ Web3TypeOK /\ WalletFormInv => WalletPageTypeOK /\ RegisteredAsShown
<1> SUFFICES ASSUME RegistrationInv, Web3TypeOK, WalletFormInv
             PROVE  WalletPageTypeOK /\ RegisteredAsShown
    OBVIOUS
<1> USE DEF WalletFormInv
<1>1. contextLoads \in 0..(1 + MaxPending)
    <2>1. contextLoads \in Nat /\ contextLoads <= 2 /\ MaxPending \in Nat
        BY PendingAssumption DEF WalletFormShape, AcceptedOnce
    <2>2. CASE \A p \in Presses : press[p] # "success"
        BY <2>1, <2>2 DEF AcceptedOnce
    <2>3. CASE \E p \in Presses : press[p] = "success"
        BY <2>1, <2>3 DEF Presses
    <2> QED
        BY <2>2, <2>3
<1>2. WalletPageTypeOK
    BY <1>1 DEF WalletPageTypeOK, WalletFormShape, RegistrationInv
<1>3. ASSUME NEW p \in Presses, press[p] = "success"
      PROVE  /\ GetIDByAddress(account) = me
             /\ GetAddressByID(me) = account
             /\ \A q \in Presses \ {p} : press[q] # "success"
    <2>1. me \in Users /\ account \in Accounts /\ String(account) \in AddressText
        BY <1>3, PressedByMember
    <2>2. /\ walletOf[me] = String(account) /\ userOf[String(account)] = me
          /\ \A q \in Presses \ {p} : press[q] \notin Accepted
        BY <1>3 DEF AcceptedOnce, Accepted
    <2> QED
        BY <2>1, <2>2, StringType, AddressAssumption
           DEF GetIDByAddress, GetAddressByID, Accepted
<1> QED
    BY <1>2, <1>3 DEF RegisteredAsShown

-----------------------------------------------------------------------------
(* The client.  Every page keeps its own invariant, and what the pages     *)
(* share is harmless to the others: a page of articles connects MetaMask   *)
(* too, and the function is called by others, but then nothing is pressed  *)
(* on the page that registers wallets.                                     *)

ClientInv ==
    /\ route \in Routes
    /\ SessionInv
    /\ ArticleFormsInv
    /\ AccountInv
    /\ RegistrationInv
    /\ Web3TypeOK
    /\ WalletFormInv
    /\ ProfileInv
    /\ SearchInv
    /\ route # "wallet" => \A p \in Presses : press[p] = "idle"

\* Whichever page is opened.
LEMMA InitialClient == ClientInit => ClientInv
<1> SUFFICES ASSUME ClientInit PROVE ClientInv
    OBVIOUS
<1>1. SessionInv /\ ArticleFormsInv /\ AccountInv /\ ProfileInv /\ SearchInv
    BY InitialSession, InitialArticles, InitialAccount, InitialProfile, InitialSearch
       DEF ClientInit
<1>2. RegistrationInv /\ Web3TypeOK /\ WalletFormInv
    BY InitialWalletPage DEF ClientInit
<1>3. route \in Routes /\ \A p \in Presses : press[p] = "idle"
    BY DEF ClientInit, WalletPageInit
<1> QED
    BY <1>1, <1>2, <1>3 DEF ClientInv

\* The variables of the pages that are not mounted.
LEMMA StillPages ==
    ASSUME ClientInv
    PROVE  /\ UNCHANGED sessionVars => SessionInv'
           /\ UNCHANGED articleVars => ArticleFormsInv'
           /\ UNCHANGED accountVars => AccountInv'
           /\ UNCHANGED registrationVars => RegistrationInv'
           /\ UNCHANGED web3Vars => Web3TypeOK'
           /\ UNCHANGED profileVars => ProfileInv'
           /\ UNCHANGED searchVars => SearchInv'
<1> USE DEF ClientInv
<1>1. UNCHANGED sessionVars => SessionInv'
    BY SessionStepKeeps
<1>2. UNCHANGED articleVars => ArticleFormsInv'
    BY ArticleStepKeeps
<1>3. UNCHANGED accountVars => AccountInv'
    BY AccountStepKeeps
<1>4. UNCHANGED registrationVars => RegistrationInv'
    BY StepRegistration
<1>5. UNCHANGED web3Vars => Web3TypeOK'
    BY DEF web3Vars, Web3TypeOK
<1>6. UNCHANGED profileVars => ProfileInv'
    BY ProfileStepKeeps
<1>7. UNCHANGED searchVars => SearchInv'
    BY SearchStepKeeps
<1> QED
    BY <1>1, <1>2, <1>3, <1>4, <1>5, <1>6, <1>7

\* The form that registers a wallet is still while another page is mounted.
LEMMA StillWalletForm ==
    ASSUME ClientInv, UNCHANGED <<route, walletFormVars>>,
           route # "wallet" \/ UNCHANGED <<registrationVars, web3Vars>>
    PROVE  /\ route' \in Routes
           /\ WalletFormInv'
           /\ route' # "wallet" => \A p \in Presses : press'[p] = "idle"
<1>1. WalletFormInv'
    <2>1. CASE route # "wallet"
        BY <2>1, UnpressedKeeps DEF ClientInv
    <2>2. CASE UNCHANGED <<registrationVars, web3Vars>>
        BY <2>2, OthersPutKeeps DEF ClientInv, RegistrationInv, registrationVars, walletVars, web3Vars
    <2> QED
        BY <2>1, <2>2
<1> QED
    BY <1>1 DEF ClientInv, walletFormVars

\* The provider of the session, and its forms.
LEMMA SessionRouteKeeps ==
    ASSUME ClientInv, SessionRoute(SessionNext)
    PROVE  ClientInv'
<1>1. SessionInv'
    BY SessionStepKeeps DEF ClientInv, SessionRoute
<1> QED
    BY <1>1, StillPages, StillWalletForm DEF ClientInv, SessionRoute

\* The forms of an article, which connect MetaMask.
LEMMA ArticleRouteKeeps ==
    ASSUME ClientInv, ArticleRoute(ArticleNext)
    PROVE  ClientInv'
<1>1. ArticleFormsInv' /\ Web3TypeOK'
    BY ArticleStepKeeps, ArticleStepConnects DEF ClientInv, ArticleRoute
<1>2. /\ UNCHANGED <<route, sessionVars, accountVars, registrationVars, walletFormVars,
                     profileVars, searchVars>>
      /\ route # "wallet"
    BY DEF ArticleRoute
<1> QED
    BY <1>1, <1>2, StillPages, StillWalletForm DEF ClientInv

\* Signing up, and the forms of passwords and codes.
LEMMA AccountRouteKeeps ==
    ASSUME ClientInv, AccountRoute
    PROVE  ClientInv'
<1>1. AccountInv'
    BY AccountStepKeeps DEF ClientInv, AccountRoute
<1> QED
    BY <1>1, StillPages, StillWalletForm DEF ClientInv, AccountRoute

\* The page that registers a wallet.
LEMMA WalletRouteKeeps ==
    ASSUME ClientInv, WalletRoute
    PROVE  ClientInv'
<1>1. RegistrationInv' /\ Web3TypeOK' /\ WalletFormInv'
    BY WalletPageStepKeeps DEF ClientInv, WalletRoute
<1>2. /\ route = "wallet"
      /\ UNCHANGED <<route, sessionVars, articleVars, accountVars, profileVars, searchVars>>
    BY DEF WalletRoute
<1> QED
    BY <1>1, <1>2, StillPages DEF ClientInv

\* The form of the profile.
LEMMA ProfileRouteKeeps ==
    ASSUME ClientInv, ProfileRoute
    PROVE  ClientInv'
<1>1. ProfileInv'
    BY ProfileStepKeeps DEF ClientInv, ProfileRoute
<1> QED
    BY <1>1, StillPages, StillWalletForm DEF ClientInv, ProfileRoute

\* The tables of articles.
LEMMA SearchRouteKeeps ==
    ASSUME ClientInv, SearchRoute
    PROVE  ClientInv'
<1>1. SearchInv'
    BY SearchStepKeeps DEF ClientInv, SearchRoute
<1> QED
    BY <1>1, StillPages, StillWalletForm DEF ClientInv, SearchRoute

\* The function, called by anybody.
LEMMA FunctionCallsKeep ==
    ASSUME ClientInv, FunctionCalls
    PROVE  ClientInv'
<1>1. RegistrationInv'
    BY StepRegistration DEF ClientInv, FunctionCalls
<1> QED
    BY <1>1, StillPages, StillWalletForm DEF ClientInv, FunctionCalls

\* Nothing at all.
LEMMA StillClient ==
    ASSUME ClientInv, UNCHANGED clientVars
    PROVE  ClientInv'
<1>1. UNCHANGED <<route, sessionVars, articleVars, accountVars, registrationVars, web3Vars,
                  walletFormVars, profileVars, searchVars>>
    BY DEF clientVars
<1> QED
    BY <1>1, StillPages, StillWalletForm DEF ClientInv

\* Every page's invariant holds, whatever page is mounted and whatever goes on.
THEOREM ClientKept == ClientSpec => []ClientInv
<1>1. ClientInv /\ [ClientNext]_clientVars => ClientInv'
    BY SessionRouteKeeps, ArticleRouteKeeps, AccountRouteKeeps, WalletRouteKeeps,
       ProfileRouteKeeps, SearchRouteKeeps, FunctionCallsKeep, StillClient DEF ClientNext
<1> QED
    BY <1>1, InitialClient, PTL DEF ClientSpec

-----------------------------------------------------------------------------
(* What follows from it, page by page.                                     *)

\* All that the pages promise is in their invariants.
LEMMA ClientPromises ==
    ClientInv =>
        /\ ClientTypeOK
        /\ RegistrationTypeOK /\ NoncesFollowWallets
        /\ QuietProvidersAgree /\ LandingIsOwn
        /\ SuccessMeansDone /\ FailuresLeaveNothing /\ BlankOnlyBeforeLoad
        /\ ButtonTellsTheForm /\ PasswordsWereConfirmed
        /\ AccountsPassedTheRules /\ CodeIsForThisUser
        /\ RegisteredAsShown
        /\ PictureExists /\ StoredProfilesAreValid
        /\ ListIsOfTheUrl /\ PageIsThere
<1> SUFFICES ASSUME ClientInv
             PROVE  /\ ClientTypeOK
                    /\ RegistrationTypeOK /\ NoncesFollowWallets
                    /\ QuietProvidersAgree /\ LandingIsOwn
                    /\ SuccessMeansDone /\ FailuresLeaveNothing /\ BlankOnlyBeforeLoad
                    /\ ButtonTellsTheForm /\ PasswordsWereConfirmed
                    /\ AccountsPassedTheRules /\ CodeIsForThisUser
                    /\ RegisteredAsShown
                    /\ PictureExists /\ StoredProfilesAreValid
                    /\ ListIsOfTheUrl /\ PageIsThere
    OBVIOUS
<1> USE DEF ClientInv
<1>1. SessionTypeOK /\ QuietProvidersAgree /\ LandingIsOwn
    BY SessionPromise
<1>2. /\ ArticleFormsTypeOK
      /\ SuccessMeansDone /\ FailuresLeaveNothing /\ BlankOnlyBeforeLoad
    BY ArticleFormsPromise
<1>3. /\ AccountTypeOK /\ ButtonTellsTheForm /\ PasswordsWereConfirmed
      /\ AccountsPassedTheRules /\ CodeIsForThisUser
    BY AccountPromise
<1>4. WalletPageTypeOK /\ RegisteredAsShown
    BY WalletPromise
<1>5. ProfileTypeOK /\ PictureExists /\ StoredProfilesAreValid
    BY ProfilePromise DEF ProfileInv
<1>6. SearchTypeOK /\ ListIsOfTheUrl /\ PageIsThere
    BY SearchPromise
<1>7. RegistrationTypeOK /\ NoncesFollowWallets
    BY DEF RegistrationInv, RegistryInv
<1>8. ClientTypeOK
    BY <1>1, <1>2, <1>3, <1>4, <1>5, <1>6 DEF ClientTypeOK
<1> QED
    BY <1>1, <1>2, <1>3, <1>4, <1>5, <1>6, <1>7, <1>8

\* Every page keeps its shape, mounted or not.
THEOREM ClientTypeCorrect == ClientSpec => []ClientTypeOK
<1>1. ClientInv => ClientTypeOK
    BY ClientPromises
<1> QED
    BY <1>1, ClientKept, PTL

\* A quiet provider shows who is signed in, in the whole client.
THEOREM QuietProvidersAgreeInClient == ClientSpec => []QuietProvidersAgree
<1>1. ClientInv => QuietProvidersAgree
    BY ClientPromises
<1> QED
    BY <1>1, ClientKept, PTL

\* A sign-in leads to one's own account page, in the whole client.
THEOREM LandingIsOwnInClient == ClientSpec => []LandingIsOwn
<1>1. ClientInv => LandingIsOwn
    BY ClientPromises
<1> QED
    BY <1>1, ClientKept, PTL

\* The toast of success: the article is stored and, if asked for, its mint has been
\* sent to the chain, for any number of presses.
THEOREM SuccessMeansDoneAlways == ClientSpec => []SuccessMeansDone
<1>1. ClientInv => SuccessMeansDone
    BY ClientPromises
<1> QED
    BY <1>1, ClientKept, PTL

\* The toast of failure without the mint switch: nothing was created, unless the
\* answer was lost.
THEOREM FailuresLeaveNothingAlways == ClientSpec => []FailuresLeaveNothing
<1>1. ClientInv => FailuresLeaveNothing
    BY ClientPromises
<1> QED
    BY <1>1, ClientKept, PTL

\* An article is emptied only by a press on a form that was never filled.
THEOREM BlankOnlyBeforeLoadAlways == ClientSpec => []BlankOnlyBeforeLoad
<1>1. ClientInv => BlankOnlyBeforeLoad
    BY ClientPromises
<1> QED
    BY <1>1, ClientKept, PTL

\* A button enabled by the verdict of the form as it is means a complete form.
THEOREM ButtonTellsTheFormAlways == ClientSpec => []ButtonTellsTheForm
<1>1. ClientInv => ButtonTellsTheForm
    BY ClientPromises
<1> QED
    BY <1>1, ClientKept, PTL

\* A sign-up or a reset sets no password that was not typed twice, in whatever
\* order the verdicts arrive.
THEOREM PasswordsWereConfirmedAlways == ClientSpec => []PasswordsWereConfirmed
<1>1. ClientInv => PasswordsWereConfirmed
    BY ClientPromises
<1> QED
    BY <1>1, ClientKept, PTL

\* An account has a strong password, and shares its e-mail address only with one
\* whose sign-up was judged at the same time.
THEOREM AccountsPassedTheRulesAlways == ClientSpec => []AccountsPassedTheRules
<1>1. ClientInv => AccountsPassedTheRules
    BY ClientPromises
<1> QED
    BY <1>1, ClientKept, PTL

\* The code asked for was sent for the user name shown, unless that was changed
\* while it was being sent.
THEOREM CodeIsForThisUserAlways == ClientSpec => []CodeIsForThisUser
<1>1. ClientInv => CodeIsForThisUser
    BY ClientPromises
<1> QED
    BY <1>1, ClientKept, PTL

\* "Registered" is true of the account on the page, however presses, loads of
\* the context, reloads and other browsers interleave.
THEOREM RegisteredAsShownAlways == ClientSpec => []RegisteredAsShown
<1>1. ClientInv => RegisteredAsShown
    BY ClientPromises
<1> QED
    BY <1>1, ClientKept, PTL

\* No profile names a picture whose upload failed, if the URL is that of its name.
THEOREM PictureExistsAlways == ClientSpec => []PictureExists
<1>1. ClientInv => PictureExists
    BY ClientPromises
<1> QED
    BY <1>1, ClientKept, PTL

\* What the form calls wrong is never stored.
THEOREM StoredProfilesAreValidAlways == ClientSpec => []StoredProfilesAreValid
<1>1. ClientInv => StoredProfilesAreValid
    BY ClientPromises
<1> QED
    BY <1>1, ClientKept, PTL

\* When the answer that came last is the one asked for last, the articles are those
\* of the URL, in whatever order earlier answers came.
THEOREM ListIsOfTheUrlAlways == ClientSpec => []ListIsOfTheUrl
<1>1. ClientInv => ListIsOfTheUrl
    BY ClientPromises
<1> QED
    BY <1>1, ClientKept, PTL

\* Only a pager of another query leads past the last page of a search.
THEOREM PageIsThereAlways == ClientSpec => []PageIsThere
<1>1. ClientInv => PageIsThere
    BY ClientPromises
<1> QED
    BY <1>1, ClientKept, PTL

\* The two directions of the table agree beside the pages that write to it.
THEOREM LookupsAgreeInClient ==
    ASSUME OnlyChecksums PROVE ClientSpec => []LookupsAgree
<1>1. ClientInv => LookupsAgree
    BY LookupsInverse DEF ClientInv, RegistrationInv
<1> QED
    BY <1>1, ClientKept, PTL

-----------------------------------------------------------------------------
(* The client implements the abstract binding of users to wallets: only    *)
(* the page that registers wallets, browsers elsewhere and callers of the  *)
(* function write to the table, and all of them by PutUserWallet.          *)

\* What the page that registers wallets does to the table.
LEMMA WalletPagePuts ==
    ASSUME ClientInv, WalletPageNext
    PROVE  \/ UNCHANGED walletOf
           \/ \E u \in Users, text \in AddressText : PutUserWallet(u, text)
<1> USE DEF registrationVars, walletVars
<1>1. ASSUME NEW u \in Users, NEW acct \in Accounts, RegisterElsewhere(u, acct)
      PROVE  \E v \in Users, text \in AddressText : PutUserWallet(v, text)
    BY <1>1, StringType DEF RegisterElsewhere
<1>2. ASSUME NEW p \in Presses, PostWallet(p)
      PROVE  \/ UNCHANGED walletOf
             \/ \E u \in Users, text \in AddressText : PutUserWallet(u, text)
    <2>1. me \in Users /\ String(account) \in AddressText
        BY <1>2, PressedByMember DEF PostWallet, ClientInv
    <2>2. UNCHANGED walletVars \/ PutUserWallet(me, String(account))
        BY <1>2 DEF PostWallet, Post
    <2> QED
        BY <2>1, <2>2
<1>3. ASSUME NEW p \in Presses,
             RegisterWalletAddress(p) \/ SignRegistration(p) \/ PostAnswered(p)
      PROVE  UNCHANGED walletOf
    BY <1>3 DEF RegisterWalletAddress, SignRegistration, PostAnswered
<1>4. ConnectWallet \/ LoadContext \/ ReloadPage => UNCHANGED walletOf
    BY DEF ConnectWallet, LoadContext, ReloadPage
<1> QED
    BY <1>1, <1>2, <1>3, <1>4 DEF WalletPageNext

\* A step of the client is a step of the binding, or none.
LEMMA ClientBinds ==
    ASSUME ClientInv, [ClientNext]_clientVars
    PROVE  [Binding!Next]_BoundPairs
<1>1. CASE WalletRoute
    BY <1>1, WalletPagePuts, WalletsBind DEF WalletRoute, ClientInv, RegistrationInv
<1>2. CASE FunctionCalls
    BY <1>2, StepBinds DEF FunctionCalls, ClientInv, RegistrationInv
<1>3. CASE ~WalletRoute /\ ~FunctionCalls
    <2>1. UNCHANGED registrationVars
        BY <1>3 DEF ClientNext, SessionRoute, ArticleRoute, AccountRoute, ProfileRoute,
                    SearchRoute, clientVars
    <2> QED
        BY <2>1, WalletsBind DEF ClientInv, RegistrationInv, registrationVars, walletVars
<1> QED
    BY <1>1, <1>2, <1>3

\* However pages, browsers and callers register, and in whatever spelling, a user
\* is bound to one address text, a text to one user, and a binding is never
\* changed.  Of the accounts behind the texts this is LookupsAgreeInClient, which
\* needs one spelling.
THEOREM ClientImplementsWalletBinding == ClientSpec => ImplementsWalletBinding
<1>1. ClientInit => Binding!Init
    BY InitialBinding DEF ClientInit, WalletPageInit, RegistrationInit
<1>2. ClientInv /\ [ClientNext]_clientVars
      => [Binding!Next]_BoundPairs
    BY ClientBinds
<1> QED
    BY <1>1, <1>2, ClientKept, PTL DEF ClientSpec, ImplementsWalletBinding, Binding!Spec
=============================================================================
