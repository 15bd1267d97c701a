------------------------- MODULE RegisterWalletPage -------------------------
(***************************************************************************)
(* RegisterWalletForm: a user registers the account MetaMask handed over.  *)
(* Between the press and the toast come a signature, the function's        *)
(* transaction and its answer, and the same user may register elsewhere.   *)
(* The form goes away when the context has the wallet, and a context that  *)
(* was read too early keeps it.                                            *)
(***************************************************************************)
EXTENDS PostWalletAddress, Web3Connection, Browser

VARIABLES
    me,           \* the user signed in
    context,      \* {userWalletAddress} as loaded last, {} before
    contextLoads, \* the loads of the context under way, counted
    press         \* press of the button -> how far registerWalletAddress is

walletFormVars == <<me, context, contextLoads, press>>
walletPageVars == <<registrationVars, web3Vars, walletFormVars>>

Presses == 1..MaxPending

Steps == {"idle", "sign", "post", "accepted", "refused", "success", "failure"}

WalletPageInit ==
    /\ RegistrationInit
    /\ Web3Init
    /\ me \in Members
    /\ context = {}
    /\ contextLoads = 1
    /\ press = [p \in Presses |-> "idle"]

-----------------------------------------------------------------------------
(* What goes on around the form.                                           *)

ConnectWallet ==
    /\ Web3Next
    /\ UNCHANGED <<registrationVars, walletFormVars>>

\* The session is taken from a token, so the answer names the user.  The read
\* of the wallet is not consistent, and may miss one that was just put.
LoadContext ==
    /\ contextLoads > 0
    /\ contextLoads' = contextLoads - 1
    /\ context' \in {{NoAddress}, {walletOf[me]}, context}
    /\ UNCHANGED <<registrationVars, web3Vars, me, press>>

\* Somebody registers at another browser, or this user does, or what this page
\* posted before it was loaded again is carried out only now.
RegisterElsewhere(u, acct) ==
    /\ PutUserWallet(u, String(acct))
    /\ UNCHANGED <<reply, web3Vars, walletFormVars>>

\* The provider is asked for another account or chain: window.location.reload.
ReloadPage ==
    /\ canConnect
    /\ canConnect' = FALSE
    /\ account' = NoAddress
    /\ context' = {}
    /\ contextLoads' = 1
    /\ press' = [p \in Presses |-> "idle"]
    /\ UNCHANGED <<registrationVars, me>>

-----------------------------------------------------------------------------
(* registerWalletAddress.                                                  *)

MovesTo(p, from, to) == press[p] = from /\ press' = [press EXCEPT ![p] = to]

\* The button, which stays enabled while an earlier press is under way.
RegisterWalletAddress(p) ==
    /\ context = {NoAddress}
    /\ IsConnectedToMetamask
    /\ MovesTo(p, "idle", "sign")
    /\ UNCHANGED <<registrationVars, web3Vars, me, context, contextLoads>>

\* The user signs; one who declines is told nothing and may press again.
SignRegistration(p) ==
    /\ MovesTo(p, "sign", "post") \/ MovesTo(p, "sign", "idle")
    /\ UNCHANGED <<registrationVars, web3Vars, me, context, contextLoads>>

\* The function is called with the session's token, which may have expired.
PostWallet(p) ==
    /\ press[p] = "post"
    /\ \E tokenUser \in {me, NoUser} : Post(tokenUser, me, String(account))
    /\ MovesTo(p, "post", IF reply'.code = "ok" THEN "accepted" ELSE "refused")
    /\ UNCHANGED <<web3Vars, me, context, contextLoads>>

ToldRegistered(p, from) ==
    /\ MovesTo(p, from, "success")
    /\ contextLoads' = contextLoads + 1

\* Mutant of PostAnswered: the status of the answer is not looked at.
PostAnsweredAnyhow(p) ==
    /\ ToldRegistered(p, "accepted") \/ ToldRegistered(p, "refused")
    /\ UNCHANGED <<registrationVars, web3Vars, me, context>>

\* The success toast, and the context is loaded anew; or the failure toast, also
\* when the answer, or the request, is lost.
PostAnswered(p) ==
    /\ \/ ToldRegistered(p, "accepted")
       \/ \E from \in {"post", "accepted", "refused"} :
            MovesTo(p, from, "failure") /\ UNCHANGED contextLoads
    /\ UNCHANGED <<registrationVars, web3Vars, me, context>>

WalletPageNext ==
    \/ ConnectWallet
    \/ LoadContext
    \/ \E u \in Users, acct \in Accounts : RegisterElsewhere(u, acct)
    \/ ReloadPage
    \/ \E p \in Presses :
        \/ RegisterWalletAddress(p)
        \/ SignRegistration(p)
        \/ PostWallet(p)
        \/ PostAnswered(p)

-----------------------------------------------------------------------------
\* A press is of a user who is shown the form and has an account connected.
WalletPageTypeOK ==
    /\ RegistrationTypeOK
    /\ Web3TypeOK
    /\ me \in Members
    /\ context \in {{}} \cup {{w} : w \in AddressText \cup {NoAddress}}
    /\ contextLoads \in 0..(1 + MaxPending)
    /\ press \in [Presses -> Steps]
    /\ \A p \in Presses : press[p] # "idle" => context # {} /\ IsConnectedToMetamask

\* "Registered": the account on the page is this user's from then on, no other
\* registration of the two came in between, and only one press is told so.
RegisteredAsShown ==
    \A p \in Presses : press[p] = "success" =>
        /\ GetIDByAddress(account) = me
        /\ GetAddressByID(me) = account
        /\ \A q \in Presses \ {p} : press[q] # "success"
=============================================================================
