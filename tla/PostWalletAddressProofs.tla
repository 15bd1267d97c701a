----------------------- MODULE PostWalletAddressProofs -----------------------
(* What is proved of PostWalletAddress for every value of its constants. *)
EXTENDS PostWalletAddress, WalletRegistryProofs

USE UserAssumption, AccountAssumption, FormAssumption, AddressAssumption

-----------------------------------------------------------------------------
(* The function's answers, and the table under the function and the nonce  *)
(* replacements.                                                           *)

RegistrationInv == RegistrationTypeOK /\ RegistryInv

\* The empty table has nothing to pair, and nothing has been answered.
LEMMA InitialRegistration == RegistrationInit => RegistrationInv
BY InitialRegistry DEF RegistrationInit, NoReply, RegistrationInv, RegistrationTypeOK,
                       RegistryInv, Codes

\* An answer is for the user of the request, with one of the codes.
LEMMA PostAnswers ==
    ASSUME NEW tokenUser \in Users \cup {NoUser}, NEW u \in Users,
           NEW text \in AddressText, Post(tokenUser, u, text)
    PROVE  /\ reply' \in [user: Users \cup {NoUser}, code: Codes]
           /\ UNCHANGED walletVars \/ PutUserWallet(u, text)
<1>1. Refusal(u, text) \in Codes
    BY DEF Refusal, Codes
<1>2. PICK code \in Codes : reply' = [user |-> u, code |-> code]
    BY <1>1 DEF Post, Codes
<1> QED
    BY <1>2 DEF Post

\* A registration adds one pair of items, or none.
LEMMA PostRegistration ==
    ASSUME RegistrationInv, NEW tokenUser \in Users \cup {NoUser}, NEW u \in Users,
           NEW text \in AddressText, Post(tokenUser, u, text)
    PROVE  RegistrationInv'
<1>1. RegistryInv'
    BY PostAnswers, PutKeepsRegistry, UnchangedRegistry DEF RegistrationInv
<1> QED
    BY <1>1, PostAnswers DEF RegistrationInv, RegistrationTypeOK, RegistryInv

\* A nonce is replaced for a user who was found by the account.
LEMMA ReplaceNonceRegistration ==
    ASSUME RegistrationInv, NEW acct \in Accounts, ReplaceNonce(acct)
    PROVE  RegistrationInv'
<1>1. RegistryInv /\ GetIDByAddress(acct) # NoUser /\ UNCHANGED reply
      /\ GetAndReplaceNonceByID(GetIDByAddress(acct))
    BY DEF ReplaceNonce, RegistrationInv
<1>2. /\ GetIDByAddress(acct) \in Users
      /\ walletOf[GetIDByAddress(acct)] # NoAddress
    BY <1>1, FoundUserHasTheWallet, StringType
<1>3. RegistryInv'
    BY <1>1, <1>2, ReplaceKeepsRegistry
<1> QED
    BY <1>1, <1>3 DEF RegistrationInv, RegistrationTypeOK, RegistryInv

\* One step of anybody keeps the invariant.
LEMMA StepRegistration ==
    ASSUME RegistrationInv, [RegistrationNext]_registrationVars
    PROVE  RegistrationInv'
<1>1. CASE UNCHANGED registrationVars
    BY <1>1, UnchangedRegistry DEF registrationVars, RegistrationInv, RegistrationTypeOK, RegistryInv
<1>2. CASE RegistrationNext
    <2>1. ASSUME NEW tokenUser \in Users, PostMalformed(tokenUser)
          PROVE  RegistrationInv'
        BY <2>1, UnchangedRegistry DEF PostMalformed, RegistrationInv, RegistrationTypeOK,
                                       RegistryInv, Codes
    <2> QED
        BY <1>2, <2>1, PostRegistration, ReplaceNonceRegistration DEF RegistrationNext
<1> QED
    BY <1>1, <1>2

\* However registrations and nonce replacements interleave, the invariant holds.
THEOREM RegistryKept == RegistrationSpec => []RegistrationInv
BY InitialRegistration, StepRegistration, PTL DEF RegistrationSpec

\* The items of the table and the function's answers keep their types.
THEOREM RegistrationTypeCorrect == RegistrationSpec => []RegistrationTypeOK
<1>1. RegistrationInv => RegistrationTypeOK
    BY DEF RegistrationInv
<1> QED
    BY <1>1, RegistryKept, PTL

\* A user has a nonce exactly when there is a wallet to sign it with, and no two
\* users are asked to sign the same one.
THEOREM NoncesFollowWalletsAlways == RegistrationSpec => []NoncesFollowWallets
<1>1. RegistrationInv => NoncesFollowWallets
    BY DEF RegistrationInv, RegistryInv
<1> QED
    BY <1>1, RegistryKept, PTL

\* As long as accounts are spelled in one way, the account that is the user's is
\* the account whose user it is.
THEOREM LookupsAgreeAlways ==
    ASSUME OnlyChecksums PROVE RegistrationSpec => []LookupsAgree
<1>1. RegistrationInv => LookupsAgree
    BY LookupsInverse DEF RegistrationInv
<1> QED
    BY <1>1, RegistryKept, PTL

-----------------------------------------------------------------------------
(* The refinement. *)

\* Refusals and nonce replacements put no wallet.
LEMMA StepBinds ==
    ASSUME RegistryInv, [RegistrationNext]_registrationVars
    PROVE  [Binding!Next]_BoundPairs
<1>1. \/ UNCHANGED walletOf
      \/ \E u \in Users, text \in AddressText : PutUserWallet(u, text)
    BY DEF RegistrationNext, Post, PostMalformed, ReplaceNonce, GetAndReplaceNonceByID, registrationVars,
           walletVars
<1> QED
    BY <1>1, WalletsBind

\* Whatever is posted, in whatever spelling, the table implements the abstract
\* binding of users to address texts: it only grows, one-to-one.
THEOREM WalletBindingImplemented == RegistrationSpec => ImplementsWalletBinding
<1>1. RegistrationInit => Binding!Init
    BY InitialBinding DEF RegistrationInit
<1>2. RegistrationInv /\ [RegistrationNext]_registrationVars
      => [Binding!Next]_BoundPairs
    BY StepBinds DEF RegistrationInv
<1>3. QED
    BY <1>1, <1>2, RegistryKept, PTL DEF RegistrationSpec, ImplementsWalletBinding, Binding!Spec
=============================================================================
