------------------------- MODULE PostWalletAddress -------------------------
(***************************************************************************)
(* The post_wallet_address function over the wallet table, with the nonce  *)
(* replacements of the nfts service going on beside it.  An invocation     *)
(* makes one DynamoDB call, so it is one step.                             *)
(***************************************************************************)
EXTENDS WalletRegistry

CONSTANT MaxNonces   \* bounds the nonces the nfts service replaces

VARIABLE reply   \* the last answer of the function, and whom it was for

registrationVars == <<walletVars, reply>>

Codes == {"ok", "unauthorized", "malformed", "forbidden", "has wallet", "used", "error"}

NoReply == [user |-> NoUser, code |-> "ok"]

RegistrationInit == WalletInit /\ reply = NoReply

\* The first condition that failed decides the message, in the order of the
\* transaction's puts: the user's two items, then the address's.
Refusal(u, text) == IF HasItems(u) THEN "has wallet" ELSE "used"

\* A request with a token for tokenUser, and a body that does not validate: the
\* body is looked at before its user is compared with the token's.
PostMalformed(tokenUser) ==
    /\ tokenUser # NoUser
    /\ reply' = [user |-> NoUser, code |-> "malformed"]
    /\ UNCHANGED walletVars

\* A request with a token for tokenUser (NoUser: none, or one that does not
\* verify) to register `text` for u.  The last case is any other error of
\* PutUserWallet: the transaction has been carried out by then, or not.
Post(tokenUser, u, text) ==
    \/ /\ tokenUser = NoUser
       /\ reply' = [user |-> u, code |-> "unauthorized"]
       /\ UNCHANGED walletVars
    \/ /\ tokenUser # NoUser
       /\ tokenUser # u
       /\ reply' = [user |-> u, code |-> "forbidden"]
       /\ UNCHANGED walletVars
    \/ /\ tokenUser = u
       /\ PutUserWallet(u, text)
       /\ reply' = [user |-> u, code |-> "ok"]
    \/ /\ tokenUser = u
       /\ HasItems(u) \/ IsUsed(text)
       /\ reply' = [user |-> u, code |-> Refusal(u, text)]
       /\ UNCHANGED walletVars
    \/ /\ tokenUser = u
       /\ PutUserWallet(u, text) \/ UNCHANGED walletVars
       /\ reply' = [user |-> u, code |-> "error"]

\* CreateForArticle finds a user by an account, then replaces the nonce.
ReplaceNonce(acct) ==
    /\ GetIDByAddress(acct) # NoUser
    /\ issued < MaxNonces
    /\ GetAndReplaceNonceByID(GetIDByAddress(acct))
    /\ UNCHANGED reply

RegistrationNext ==
    \/ \E tokenUser \in Users \cup {NoUser}, u \in Users, text \in AddressText :
            Post(tokenUser, u, text)
    \/ \E tokenUser \in Users : PostMalformed(tokenUser)
    \/ \E acct \in Accounts : ReplaceNonce(acct)

RegistrationSpec == RegistrationInit /\ [][RegistrationNext]_registrationVars

-----------------------------------------------------------------------------
\* The table holds address texts as they were sent, and the function answers
\* with one of its codes.
RegistrationTypeOK == WalletTypeOK /\ reply \in [user: Users \cup {NoUser}, code: Codes]

\* "wallet address is already used": an account serves one user.
AccountServesOneUser ==
    \A u, v \in Users :
        u # v /\ GetAddressByID(u) # ZeroAddress => GetAddressByID(u) # GetAddressByID(v)
=============================================================================
