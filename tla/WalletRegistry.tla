--------------------------- MODULE WalletRegistry ---------------------------
(***************************************************************************)
(* The DynamoDB table that binds users to wallets, and the nonce each user *)
(* must sign to mint: server/gateways/aws/dynamodb.go, written to by the   *)
(* post_wallet_address function and by the nfts service.                   *)
(*                                                                         *)
(* One variable per KeyValueType.  Each action is one DynamoDB request,    *)
(* which DynamoDB executes atomically (TransactWriteItems included).       *)
(***************************************************************************)
EXTENDS Naturals, Principals

VARIABLES
    walletOf,   \* user_id_to_wallet_address items
    userOf,     \* wallet_address_to_user_id items, keyed by the text stored
    nonceOf,    \* user_id_to_nonce items; 0 when there is none
    issued      \* how many nonces GenerateNonce has returned, all different

walletVars == <<walletOf, userOf, nonceOf, issued>>

WalletTypeOK ==
    /\ walletOf \in [Users -> AddressText \cup {NoAddress}]
    /\ userOf \in [AddressText -> Users \cup {NoUser}]
    /\ nonceOf \in [Users -> Nat]
    /\ issued \in Nat

WalletInit ==
    /\ walletOf = [u \in Users |-> NoAddress]
    /\ userOf = [t \in AddressText |-> NoUser]
    /\ nonceOf = [u \in Users |-> 0]
    /\ issued = 0

-----------------------------------------------------------------------------
(* Lookups.  A lookup for an address always spells it with String.         *)

GetIDByAddress(acct) ==
    IF acct \in Accounts THEN userOf[String(acct)] ELSE NoUser

GetAddressByID(u) ==
    IF u \in Users /\ walletOf[u] # NoAddress
    THEN HexToAddress(walletOf[u])
    ELSE ZeroAddress

-----------------------------------------------------------------------------
(* PutUserWallet is three puts in one transaction, each on the condition   *)
(* that its item does not exist.  The address is stored as the request     *)
(* spelled it.                                                             *)
HasItems(u) == walletOf[u] # NoAddress \/ nonceOf[u] # 0

IsUsed(text) == userOf[text] # NoUser

PutItems(u, text) ==
    /\ walletOf' = [walletOf EXCEPT ![u] = text]
    /\ userOf' = [userOf EXCEPT ![text] = u]
    /\ issued' = issued + 1
    /\ nonceOf' = [nonceOf EXCEPT ![u] = issued + 1]

\* Mutant of PutUserWallet: the reverse item is put without its condition.
PutUserWalletOverAddress(u, text) == ~HasItems(u) /\ PutItems(u, text)

PutUserWallet(u, text) ==
    /\ ~HasItems(u)
    /\ ~IsUsed(text)
    /\ PutItems(u, text)

\* Mutants of GetAndReplaceNonceByID: the nonce stays;
GetNonceOnly(u) == UNCHANGED walletVars

\* it is taken and none is put in its place.
TakeNonceAway(u) ==
    /\ nonceOf' = [nonceOf EXCEPT ![u] = 0]
    /\ UNCHANGED <<walletOf, userOf, issued>>

(* An unconditional put that returns the old item, so that the read and    *)
(* the replacement are one step.  The nonce returned is nonceOf[u] before  *)
(* the step.                                                               *)
GetAndReplaceNonceByID(u) ==
    /\ issued' = issued + 1
    /\ nonceOf' = [nonceOf EXCEPT ![u] = issued + 1]
    /\ UNCHANGED <<walletOf, userOf>>

-----------------------------------------------------------------------------
(* What the table promises to those who use it.                            *)

\* The two directions of the table agree for every user and account, so that
\* "who holds this wallet" and "which wallet has this user" are one relation.
LookupsAgree ==
    \A u \in Users, acct \in Accounts :
        GetAddressByID(u) = acct <=> GetIDByAddress(acct) = u

\* A user can be asked to sign a nonce exactly when a wallet could have signed
\* it, and no two users are ever asked to sign the same one.
NoncesFollowWallets ==
    /\ \A u \in Users : walletOf[u] # NoAddress <=> nonceOf[u] # 0
    /\ \A u, v \in Users : u # v /\ nonceOf[u] # 0 => nonceOf[u] # nonceOf[v]

\* The table implements WalletBinding, for each of the systems that write to it
\* and in whatever spelling: users and the address texts posted for them are
\* bound one-to-one and for good.  (That accounts are needs one spelling.)
BoundPairs == {<<u, walletOf[u]>> : u \in {v \in Users : walletOf[v] # NoAddress}}

Binding == INSTANCE WalletBinding WITH Addresses <- AddressText, bound <- BoundPairs

ImplementsWalletBinding == Binding!Spec
=============================================================================
