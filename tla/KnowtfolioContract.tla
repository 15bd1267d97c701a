------------------------- MODULE KnowtfolioContract -------------------------
(***************************************************************************)
(* The Knowtfolio ERC-721 contract: blockchain/contracts/Knowtfolio.sol.   *)
(* Token ids count up from 1, so a token's number is also its age, and 0   *)
(* in tokenIdOf says that an article has no token.                         *)
(***************************************************************************)
EXTENDS Naturals, Principals

VARIABLES
    tokenIds,    \* the _tokenIds counter
    tokenIdOf,   \* article id -> token id, 0 when there is none
    tokenURI,    \* token id -> the article its metadata names
    ownerOf      \* token id -> the account that holds it

contractVars == <<tokenIds, tokenIdOf, tokenURI, ownerOf>>

Tokens == 1..tokenIds

ContractTypeOK ==
    /\ tokenIds \in Nat
    /\ tokenIdOf \in [Articles -> 0..tokenIds]
    /\ tokenURI \in [Tokens -> Articles]
    /\ ownerOf \in [Tokens -> Accounts]

ContractInit ==
    /\ tokenIds = 0
    /\ tokenIdOf = [a \in Articles |-> 0]
    /\ tokenURI = [t \in Tokens |-> ZeroAddress]
    /\ ownerOf = [t \in Tokens |-> ZeroAddress]

-----------------------------------------------------------------------------
getOwnerOfArticle(a) ==
    IF tokenIdOf[a] = 0 THEN ZeroAddress ELSE ownerOf[tokenIdOf[a]]

getArticleIdsOwnedBy(acct) ==
    {tokenURI[t] : t \in {k \in Tokens : ownerOf[k] = acct}}

\* The require of mintNFT.  An article id is never empty.
MintReverts(a) == tokenIdOf[a] # 0

MintToken(recipient, a) ==
    LET newItemId == tokenIds + 1
    IN  /\ tokenIds' = newItemId
        /\ tokenIdOf' = [tokenIdOf EXCEPT ![a] = newItemId]
        /\ tokenURI' = [t \in 1..newItemId |-> IF t = newItemId THEN a ELSE tokenURI[t]]
        /\ ownerOf' = [t \in 1..newItemId |-> IF t = newItemId THEN recipient ELSE ownerOf[t]]

\* mintNFT, called by the contract's owner, when it does not revert.
mintNFT(recipient, a) == ~MintReverts(a) /\ MintToken(recipient, a)

\* ERC-721 transfer by a token's holder, on a marketplace or from a wallet.
TransferToken(t, to) ==
    /\ t \in Tokens
    /\ ownerOf[t] # to
    /\ ownerOf' = [ownerOf EXCEPT ![t] = to]
    /\ UNCHANGED <<tokenIds, tokenIdOf, tokenURI>>
=============================================================================
