--------------------------- MODULE Web3Connection ---------------------------
(***************************************************************************)
(* The client's Web3Provider: what the pages of one browser tab know of    *)
(* MetaMask.  MetaMask itself decides whether it is there and which        *)
(* account it hands over.                                                  *)
(***************************************************************************)
EXTENDS Principals

CONSTANT MetamaskAccounts   \* the accounts MetaMask may hand over

ASSUME MetamaskAssumption == MetamaskAccounts \subseteq Accounts

VARIABLES
    canConnect,   \* connectMetamask is in the context
    account       \* the account connected; NoAddress while there is none

web3Vars == <<canConnect, account>>

Web3TypeOK ==
    /\ canConnect \in BOOLEAN
    /\ account \in MetamaskAccounts \cup {NoAddress}

Web3Init == canConnect = FALSE /\ account = NoAddress

\* RequireWeb3Wrapper shows its children, and assertMetamask does not throw.
IsConnectedToMetamask == account # NoAddress

\* The effect at the start: the provider is found, connectMetamask becomes
\* available and is called...
DetectProvider ==
    /\ ~canConnect
    /\ canConnect' = TRUE
    /\ UNCHANGED account

\* ...and, then or after the button is pressed, returns the first account.
ConnectMetamask(acct) ==
    /\ canConnect
    /\ ~IsConnectedToMetamask
    /\ account' = acct
    /\ UNCHANGED canConnect

Web3Next == DetectProvider \/ \E acct \in MetamaskAccounts : ConnectMetamask(acct)
=============================================================================
