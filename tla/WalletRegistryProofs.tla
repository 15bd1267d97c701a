------------------------ MODULE WalletRegistryProofs ------------------------
(* What is proved of the wallet table's requests, for everybody who makes   *)
(* them: the registration function, the nfts service, the sign-in functions *)
(* and the client's page.                                                   *)
EXTENDS WalletRegistry, TLAPS

USE UserAssumption, AccountAssumption, FormAssumption, AddressAssumption

\* Requests spell accounts with their checksum: eth_addr accepts more, the
\* client sends no other.
OnlyChecksums == TextForms = {"checksum"}

\* Every item of one direction has its counterpart, with the same spelling.
ItemsPaired ==
    /\ \A u \in Users : walletOf[u] # NoAddress => userOf[walletOf[u]] = u
    /\ \A t \in AddressText : userOf[t] # NoUser => walletOf[userOf[t]] = t

\* No nonce in the table is still to be issued.
NoncesWereIssued == \A u \in Users : nonceOf[u] <= issued

\* The two directions of the table and the nonces, as one inductive invariant: a
\* registration relies on the nonce item's condition as well as on the wallet
\* item's.
RegistryInv == WalletTypeOK /\ ItemsPaired /\ NoncesWereIssued /\ NoncesFollowWallets

-----------------------------------------------------------------------------
(* Lookups. *)

\* The text a lookup spells an account with is one of the table's keys, and
\* parses to the account.
LEMMA StringType ==
    ASSUME NEW acct \in Accounts
    PROVE  String(acct) \in AddressText /\ HexToAddress(String(acct)) = acct
BY DEF String, AddressText, HexToAddress

\* A user id found for an account is a user.
LEMMA GetIDByAddressType ==
    ASSUME WalletTypeOK, NEW acct \in Accounts \cup {ZeroAddress}
    PROVE  GetIDByAddress(acct) \in Users \cup {NoUser}
BY DEF WalletTypeOK, GetIDByAddress, AddressText, String

\* A wallet found for a user is an account.
LEMMA GetAddressByIDType ==
    ASSUME WalletTypeOK, NEW u
    PROVE  GetAddressByID(u) \in Accounts \cup {ZeroAddress}
BY DEF WalletTypeOK, GetAddressByID, AddressText, HexToAddress

\* Whoever is found for an account has it as wallet, in any spelling of requests.
LEMMA FoundUserHasTheWallet ==
    ASSUME RegistryInv, NEW acct \in Accounts \cup {ZeroAddress},
           GetIDByAddress(acct) # NoUser
    PROVE  /\ acct \in Accounts
           /\ GetIDByAddress(acct) \in Users
           /\ walletOf[GetIDByAddress(acct)] = String(acct)
           /\ GetAddressByID(GetIDByAddress(acct)) = acct
<1>1. acct \in Accounts /\ GetIDByAddress(acct) = userOf[String(acct)]
    BY DEF GetIDByAddress
<1>2. userOf[String(acct)] \in Users
    BY <1>1, StringType DEF RegistryInv, WalletTypeOK
<1>3. walletOf[userOf[String(acct)]] = String(acct)
    BY <1>1, <1>2, StringType DEF RegistryInv, ItemsPaired
<1> QED
    BY <1>1, <1>2, <1>3, StringType DEF GetAddressByID

\* Spelled in one way, a text is determined by its account.
LEMMA OneSpelling ==
    ASSUME OnlyChecksums, NEW text \in AddressText
    PROVE  String(HexToAddress(text)) = text /\ HexToAddress(text) \in Accounts
BY DEF OnlyChecksums, AddressText, String, HexToAddress

\* Then the account that is the user's is the account whose user it is.
LEMMA LookupsInverse ==
    ASSUME OnlyChecksums, RegistryInv
    PROVE  LookupsAgree
<1> SUFFICES ASSUME NEW u \in Users, NEW acct \in Accounts
             PROVE  GetAddressByID(u) = acct <=> GetIDByAddress(acct) = u
    BY DEF LookupsAgree
<1>1. ASSUME GetAddressByID(u) = acct PROVE GetIDByAddress(acct) = u
    <2>1. walletOf[u] # NoAddress /\ HexToAddress(walletOf[u]) = acct
        BY <1>1 DEF GetAddressByID
    <2>2. walletOf[u] = String(acct)
        BY <2>1, OneSpelling DEF RegistryInv, WalletTypeOK
    <2> QED
        BY <2>1, <2>2 DEF RegistryInv, ItemsPaired, GetIDByAddress
<1>2. ASSUME GetIDByAddress(acct) = u PROVE GetAddressByID(u) = acct
    BY <1>2, FoundUserHasTheWallet
<1> QED
    BY <1>1, <1>2

-----------------------------------------------------------------------------
(* Requests that write. *)

\* A registration adds one pair of items for a user and a text that had none.
LEMMA PutUserWalletItems ==
    ASSUME WalletTypeOK, NEW u \in Users, NEW text \in AddressText, PutUserWallet(u, text)
    PROVE  /\ walletOf[u] = NoAddress /\ nonceOf[u] = 0 /\ userOf[text] = NoUser
           /\ walletOf' = [walletOf EXCEPT ![u] = text]
           /\ userOf' = [userOf EXCEPT ![text] = u]
           /\ issued' = issued + 1
           /\ nonceOf' = [nonceOf EXCEPT ![u] = issued + 1]
BY DEF PutUserWallet, PutItems, HasItems, IsUsed

\* The table stays well typed.
LEMMA PutUserWalletType ==
    ASSUME WalletTypeOK, NEW u \in Users, NEW text \in AddressText, PutUserWallet(u, text)
    PROVE  WalletTypeOK'
BY DEF WalletTypeOK, PutUserWallet, PutItems

\* The replacement of a nonce keeps the types.
LEMMA ReplaceNonceType ==
    ASSUME WalletTypeOK, NEW u \in Users, GetAndReplaceNonceByID(u)
    PROVE  WalletTypeOK'
BY DEF WalletTypeOK, GetAndReplaceNonceByID

\* A wallet that is registered is never replaced.
LEMMA WalletStays ==
    ASSUME WalletTypeOK, NEW u \in Users, NEW text \in AddressText, PutUserWallet(u, text),
           NEW v \in Users, walletOf[v] # NoAddress
    PROVE  walletOf'[v] = walletOf[v]
BY DEF WalletTypeOK, PutUserWallet, PutItems, HasItems

\* So an account found for a user is found for that user ever after.
LEMMA AddressStays ==
    ASSUME WalletTypeOK, NEW u \in Users, NEW text \in AddressText, PutUserWallet(u, text),
           NEW v, GetAddressByID(v) # ZeroAddress
    PROVE  GetAddressByID(v)' = GetAddressByID(v)
<1>1. v \in Users /\ walletOf[v] # NoAddress
    BY DEF GetAddressByID
<1>2. walletOf'[v] = walletOf[v]
    BY <1>1, WalletStays
<1> QED
    BY <1>1, <1>2 DEF GetAddressByID

\* And a user found for an account is found for it ever after.
LEMMA UserStays ==
    ASSUME WalletTypeOK, NEW u \in Users, NEW text \in AddressText, PutUserWallet(u, text),
           NEW acct \in Accounts, GetIDByAddress(acct) # NoUser
    PROVE  GetIDByAddress(acct)' = GetIDByAddress(acct)
BY StringType, PutUserWalletItems DEF WalletTypeOK, GetIDByAddress

\* The empty table has nothing to pair.
LEMMA InitialRegistry == WalletInit => RegistryInv
BY DEF WalletInit, RegistryInv, WalletTypeOK, ItemsPaired, NoncesWereIssued, NoncesFollowWallets

\* A registration puts a nonce above all others.
LEMMA PutKeepsRegistry ==
    ASSUME RegistryInv, NEW u \in Users, NEW text \in AddressText, PutUserWallet(u, text)
    PROVE  RegistryInv'
<1> USE DEF RegistryInv
<1>1. /\ walletOf[u] = NoAddress /\ nonceOf[u] = 0 /\ userOf[text] = NoUser
      /\ walletOf' = [walletOf EXCEPT ![u] = text]
      /\ userOf' = [userOf EXCEPT ![text] = u]
      /\ issued' = issued + 1
      /\ nonceOf' = [nonceOf EXCEPT ![u] = issued + 1]
    BY PutUserWalletItems
<1>2. WalletTypeOK'
    BY PutUserWalletType
<1>3. ItemsPaired'
    BY <1>1 DEF ItemsPaired, WalletTypeOK
<1>4. NoncesWereIssued'
    BY <1>1 DEF NoncesWereIssued, WalletTypeOK
<1>5. NoncesFollowWallets'
    BY <1>1 DEF NoncesFollowWallets, NoncesWereIssued, WalletTypeOK
<1> QED
    BY <1>2, <1>3, <1>4, <1>5

\* A nonce is replaced for a user who has a wallet.
LEMMA ReplaceKeepsRegistry ==
    ASSUME RegistryInv, NEW u \in Users, walletOf[u] # NoAddress, GetAndReplaceNonceByID(u)
    PROVE  RegistryInv'
<1> USE DEF RegistryInv
<1>1. /\ UNCHANGED <<walletOf, userOf>>
      /\ issued' = issued + 1
      /\ nonceOf' = [nonceOf EXCEPT ![u] = issued + 1]
    BY DEF GetAndReplaceNonceByID
<1>2. WalletTypeOK'
    BY ReplaceNonceType
<1>3. ItemsPaired'
    BY <1>1 DEF ItemsPaired
<1>4. NoncesWereIssued'
    BY <1>1 DEF NoncesWereIssued, WalletTypeOK
<1>5. NoncesFollowWallets'
    BY <1>1 DEF NoncesFollowWallets, NoncesWereIssued, WalletTypeOK
<1> QED
    BY <1>2, <1>3, <1>4, <1>5

\* Whoever leaves the table alone keeps the invariant.
LEMMA UnchangedRegistry ==
    ASSUME RegistryInv, UNCHANGED walletVars
    PROVE  RegistryInv'
BY DEF walletVars, RegistryInv, WalletTypeOK, ItemsPaired, NoncesWereIssued, NoncesFollowWallets

-----------------------------------------------------------------------------
(* The refinement of WalletBinding, for everybody who writes to the table. *)

\* At the start nobody is bound.
LEMMA InitialBinding == WalletInit => Binding!Init
BY DEF WalletInit, BoundPairs, Binding!Init

\* A registration binds a user and a text that are both unbound.
LEMMA PutBinds ==
    ASSUME RegistryInv, NEW u \in Users, NEW text \in AddressText, PutUserWallet(u, text)
    PROVE  Binding!Bind(u, text)
<1> USE DEF RegistryInv, WalletTypeOK
<1>1. /\ walletOf[u] = NoAddress /\ userOf[text] = NoUser
      /\ walletOf' = [walletOf EXCEPT ![u] = text]
    BY DEF PutUserWallet, PutItems, HasItems, IsUsed
<1>2. ASSUME NEW v \in Users, walletOf[v] # NoAddress
      PROVE  v # u /\ walletOf[v] # text
    BY <1>1, <1>2 DEF ItemsPaired
<1>3. \A p \in BoundPairs : p[1] # u /\ p[2] # text
    BY <1>2 DEF BoundPairs
<1>4. \A v \in Users : walletOf'[v] # NoAddress <=> walletOf[v] # NoAddress \/ v = u
    BY <1>1
<1>5. walletOf'[u] = text /\ \A v \in Users : v # u => walletOf'[v] = walletOf[v]
    BY <1>1
<1>6. BoundPairs' = BoundPairs \cup {<<u, text>>}
    BY <1>1, <1>4, <1>5 DEF BoundPairs
<1>7. QED
    BY <1>3, <1>6 DEF Binding!Bind

\* A step that puts no wallet is a stutter of the abstract binding.
LEMMA WalletsBind ==
    ASSUME RegistryInv,
           \/ UNCHANGED walletOf
           \/ \E u \in Users, text \in AddressText : PutUserWallet(u, text)
    PROVE  [Binding!Next]_BoundPairs
<1>1. CASE walletOf' = walletOf
    BY <1>1 DEF BoundPairs
<1>2. ASSUME NEW u \in Users, NEW text \in AddressText, PutUserWallet(u, text)
      PROVE  Binding!Next
    BY <1>2, PutBinds DEF Binding!Next
<1>3. QED
    BY <1>1, <1>2
=============================================================================
