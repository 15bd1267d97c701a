----------------------------- MODULE Principals -----------------------------
(***************************************************************************)
(* Who and what the system talks about: Cognito users, Ethereum accounts,  *)
(* article ids, and the text an account is written as.                     *)
(***************************************************************************)

CONSTANTS
    Users,        \* Cognito user names
    Accounts,     \* Ethereum accounts, as 20-byte values
    Articles,     \* ids nanoid can generate
    TextForms,    \* the ways a request may spell an account
    NoUser,       \* no DynamoDB item: ItemNotFound from a lookup of a user
    NoAddress,    \* no DynamoDB item: ItemNotFound from a lookup of an address
    ZeroAddress   \* address(0), what the contract returns for "no owner"

ASSUME UserAssumption == NoUser \notin Users
ASSUME AccountAssumption == ZeroAddress \notin Accounts
ASSUME FormAssumption == "checksum" \in TextForms /\ TextForms \subseteq {"checksum", "lower"}

\* An account as the text of a request or of a DynamoDB item.
AddressText == [account: Accounts, form: TextForms]

ASSUME AddressAssumption == NoAddress \notin AddressText

\* common.Address.String(): always the EIP-55 checksummed spelling.
String(acct) == [account |-> acct, form |-> "checksum"]

\* common.HexToAddress(): any spelling of an account gives the account.
HexToAddress(text) == text.account
=============================================================================
