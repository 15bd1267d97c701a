-------------------------- MODULE KnowtfolioClient --------------------------
(***************************************************************************)
(* The client: App mounts the page of the route, and a page keeps nothing  *)
(* once another is opened.  So a behaviour here is one page's, from the    *)
(* mount on, with Cognito, DynamoDB, S3, MetaMask and the server around    *)
(* it.  Only Web3Provider stays: a page opened when an account has been    *)
(* connected is in a state that it also reaches by connecting first.       *)
(* The route "function" is no page: anybody may call                       *)
(* post_wallet_address, in any order.                                      *)
(***************************************************************************)
EXTENDS ClientSession, ArticleForms, AccountForms, RegisterWalletPage, ProfileForm, SearchPage

VARIABLE route   \* which page is mounted

Routes == {"session", "articles", "account", "wallet", "profile", "search", "function"}

clientVars ==
    <<route, sessionVars, articleVars, accountVars, registrationVars, web3Vars,
      walletFormVars, profileVars, searchVars>>

\* A page that is not mounted is in one of its initial states, always the same.
Unmounted(page) ==
    CASE page = "session" -> lastUser = NoUser
      [] page = "articles" -> kind = "new" /\ wallet = NoAddress
      [] page = "account" -> openForm = "sign up"
      [] page = "wallet" -> me = CHOOSE u \in Members : TRUE
      [] page = "profile" -> attributes.text = "blank"
      [] page = "search" -> table = "mine" /\ params.page = 1
      [] page = "function" -> TRUE

ClientInit ==
    /\ SessionInit
    /\ ArticleInit
    /\ AccountInit
    /\ WalletPageInit
    /\ ProfileInit
    /\ SearchInit
    /\ route \in Routes
    /\ \A page \in Routes \ {route} : Unmounted(page)

-----------------------------------------------------------------------------
SessionRoute(Step) ==
    /\ route = "session"
    /\ Step
    /\ UNCHANGED <<route, articleVars, accountVars, registrationVars, web3Vars,
                   walletFormVars, profileVars, searchVars>>

ArticleRoute(Step) ==
    /\ route = "articles"
    /\ Step
    /\ UNCHANGED <<route, sessionVars, accountVars, registrationVars, walletFormVars,
                   profileVars, searchVars>>

AccountRoute ==
    /\ route = "account"
    /\ AccountNext
    /\ UNCHANGED <<route, sessionVars, articleVars, registrationVars, web3Vars,
                   walletFormVars, profileVars, searchVars>>

WalletRoute ==
    /\ route = "wallet"
    /\ WalletPageNext
    /\ UNCHANGED <<route, sessionVars, articleVars, accountVars, profileVars, searchVars>>

ProfileRoute ==
    /\ route = "profile"
    /\ ProfileNext
    /\ UNCHANGED <<route, sessionVars, articleVars, accountVars, registrationVars, web3Vars,
                   walletFormVars, searchVars>>

SearchRoute ==
    /\ route = "search"
    /\ SearchNext
    /\ UNCHANGED <<route, sessionVars, articleVars, accountVars, registrationVars, web3Vars,
                   walletFormVars, profileVars>>

FunctionCalls ==
    /\ route = "function"
    /\ RegistrationNext
    /\ UNCHANGED <<route, sessionVars, articleVars, accountVars, web3Vars, walletFormVars,
                   profileVars, searchVars>>

ClientNext ==
    \/ SessionRoute(SessionNext)
    \/ ArticleRoute(ArticleNext)
    \/ AccountRoute
    \/ WalletRoute
    \/ ProfileRoute
    \/ SearchRoute
    \/ FunctionCalls

\* What a page awaits comes, or fails, in the end: the SDKs and axios settle the
\* promises they return.  Nothing says that people, MetaMask or other tabs act.
\* They are steps of the provider or of a press.
AwaitedComes ==
    \/ SessionRoute(LoadStep)
    \/ ArticleRoute(\E c \in Clicks : Answer(c))

ClientSpec == ClientInit /\ [][ClientNext]_clientVars /\ WF_<<provider, click>>(AwaitedComes)

-----------------------------------------------------------------------------
\* Every page has the shape that its module states, and the pages that are not
\* mounted have stayed where they begin.
ClientTypeOK ==
    /\ route \in Routes
    /\ SessionTypeOK
    /\ ArticleFormsTypeOK
    /\ AccountTypeOK
    /\ WalletPageTypeOK
    /\ ProfileTypeOK
    /\ SearchTypeOK
=============================================================================
