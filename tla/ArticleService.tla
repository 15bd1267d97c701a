--------------------------- MODULE ArticleService ---------------------------
(***************************************************************************)
(* The articles and nfts services of the server: services/articles.go and  *)
(* services/nfts.go, with the stores they write.                           *)
(*                                                                         *)
(* A request is a member of Requests and is handled once.  Each action is  *)
(* one call a handler makes to a store, together with the local code that  *)
(* follows it up to the next call, so that the handlers interleave exactly *)
(* where the code waits.  The database transaction of Update and of        *)
(* CreateForArticle is a snapshot taken by its first SELECT (MySQL's       *)
(* REPEATABLE READ) and writes that take effect when it commits.           *)
(***************************************************************************)
EXTENDS WalletRegistry, AdminTransactor

CONSTANTS
    Requests,    \* the update, delete and mint requests the server receives
    Operations,  \* the kinds of request in this instance
    Faults,      \* the failures that may happen in this instance
    Titles, Contents,
    Absent,      \* an optional field that a request leaves out
    NoRequest, NoRow, NoDocument

VARIABLES
    creator,     \* the user who had an id generated, NoUser for an unused id
    articles,    \* rows of the articles table
    documents,   \* rows of the documents table, by their owner's id
    metadata,    \* the articles with an nfts/<id>.json object in S3
    pc,          \* how far the handler of a request has come
    arg,         \* what the request asks for
    caller,      \* the user the handler acts for
    row,         \* the article row the handler has loaded
    document,    \* the document row the handler has loaded
    holder,      \* the token holder the handler has been told
    slot         \* the admin account's nonce the handler has been told

storeVars == <<creator, articles, documents, metadata>>
requestVars == <<pc, arg, caller, row, document, holder, slot>>
vars == <<walletVars, contractVars, transactorVars, storeVars, requestVars>>

Row == [author: Users, tokenized: BOOLEAN]
Document == [title: Titles, content: Contents]

\* ArticleUpdateRequest and ArticleDeleteRequest carry the user of their token
\* beside them (caller).  A mint names an account and is signed by one over a
\* nonce; an address text that is not checksummed fails the comparison with
\* the signer as a foreign signer does, so an account stands for it.
UpdateRequest == [op: {"update"}, article: Articles,
                  title: Titles \cup {Absent}, content: Contents \cup {Absent}]
DeleteRequest == [op: {"delete"}, article: Articles]
MintRequest == [op: {"mint"}, article: Articles,
                address: Accounts, signer: Accounts, nonce: Nat]

ASSUME OperationAssumption == Operations \subseteq {"update", "delete", "mint"}
ASSUME FaultAssumption == Faults \subseteq {"call", "lostReply", "drop"}
ASSUME RowAssumption == NoRow \notin Row /\ NoDocument \notin Document
ASSUME RequestAssumption ==
    NoRequest \notin UpdateRequest \cup DeleteRequest \cup MintRequest
ASSUME AbsentAssumption == Absent \notin Titles /\ Absent \notin Contents

EditStages == {"loaded", "holderRead", "authorized"}
MintStages == {"identified", "verified", "found", "checked", "estimated",
               "numbered", "sent", "uploaded"}
InFlight == EditStages \cup MintStages
Finished == {"done", "failed"}

Init ==
    /\ WalletInit
    /\ ContractInit
    /\ TransactorInit
    /\ creator = [a \in Articles |-> NoUser]
    /\ articles = [a \in Articles |-> NoRow]
    /\ documents = [a \in Articles |-> NoDocument]
    /\ metadata = {}
    /\ pc = [r \in Requests |-> "idle"]
    /\ arg = [r \in Requests |-> NoRequest]
    /\ caller = [r \in Requests |-> NoUser]
    /\ row = [r \in Requests |-> NoRow]
    /\ document = [r \in Requests |-> NoDocument]
    /\ holder = [r \in Requests |-> ZeroAddress]
    /\ slot = [r \in Requests |-> 0]

GoTo(r, stage) == pc' = [pc EXCEPT ![r] = stage]

\* A call has been carried out; its reply may be lost, and then the handler fails.
Replied(r, stage) ==
    \/ GoTo(r, stage)
    \/ "lostReply" \in Faults /\ GoTo(r, "failed")

-----------------------------------------------------------------------------
(* What changes around the requests.                                       *)

\* post_wallet_address.
RegisterWallet(u, text) ==
    /\ PutUserWallet(u, text)
    /\ UNCHANGED <<contractVars, transactorVars, storeVars, requestVars>>

\* Create inserts the article and its document in one transaction.
Create(u, a, d) ==
    /\ creator[a] = NoUser
    /\ creator' = [creator EXCEPT ![a] = u]
    /\ articles' = [articles EXCEPT ![a] = [author |-> u, tokenized |-> FALSE]]
    /\ documents' = [documents EXCEPT ![a] = d]
    /\ UNCHANGED <<walletVars, contractVars, transactorVars, metadata, requestVars>>

ChainStep ==
    /\ \/ MineNext
       \/ \E s \in Slots :
            "drop" \in Faults /\ DropTransaction(s) /\ UNCHANGED contractVars
       \/ \E t \in Tokens, to \in Accounts :
            TransferToken(t, to) /\ UNCHANGED transactorVars
    /\ UNCHANGED <<walletVars, storeVars, requestVars>>

-----------------------------------------------------------------------------
(* Update and Delete.                                                      *)

\* JWTAuth has given the user; the handler's first SELECT follows at once.
\* Update's transaction loads the document too.
BeginEdit(r, u, request) ==
    /\ pc[r] = "idle"
    /\ arg' = [arg EXCEPT ![r] = request]
    /\ caller' = [caller EXCEPT ![r] = u]
    /\ IF articles[request.article] = NoRow
       THEN /\ GoTo(r, "failed")
            /\ UNCHANGED <<row, document>>
       ELSE /\ GoTo(r, "loaded")
            /\ row' = [row EXCEPT ![r] = articles[request.article]]
            /\ document' = [document EXCEPT ![r] = documents[request.article]]
    /\ UNCHANGED <<walletVars, contractVars, transactorVars, storeVars, holder, slot>>

BeginUpdate(r, u, a, title, content) ==
    BeginEdit(r, u, [op |-> "update", article |-> a, title |-> title, content |-> content])

BeginDelete(r, u, a) ==
    BeginEdit(r, u, [op |-> "delete", article |-> a])

\* Mutant of AuthorizeAuthor: the author is let in whatever the flag says.
AuthorizeAuthorAlways(r) ==
    /\ pc[r] = "loaded"
    /\ GoTo(r, IF caller[r] = row[r].author THEN "authorized" ELSE "failed")
    /\ UNCHANGED <<walletVars, contractVars, transactorVars, storeVars,
                   arg, caller, row, document, holder, slot>>

\* AuthorizeEdit of an article that is not tokenized.
AuthorizeAuthor(r) ==
    /\ pc[r] = "loaded"
    /\ ~row[r].tokenized
    /\ GoTo(r, IF caller[r] = row[r].author THEN "authorized" ELSE "failed")
    /\ UNCHANGED <<walletVars, contractVars, transactorVars, storeVars,
                   arg, caller, row, document, holder, slot>>

\* AuthorizeEdit of a tokenized article: GetOwnerOfArticle on the chain...
ReadHolder(r) ==
    /\ pc[r] = "loaded"
    /\ row[r].tokenized
    /\ holder' = [holder EXCEPT ![r] = getOwnerOfArticle(arg[r].article)]
    /\ GoTo(r, "holderRead")
    /\ UNCHANGED <<walletVars, contractVars, transactorVars, storeVars,
                   arg, caller, row, document, slot>>

\* ...then GetIDByAddress, which fails for a holder who is not registered.
AuthorizeHolder(r) ==
    /\ pc[r] = "holderRead"
    /\ GoTo(r, IF caller[r] = GetIDByAddress(holder[r]) THEN "authorized" ELSE "failed")
    /\ UNCHANGED <<walletVars, contractVars, transactorVars, storeVars,
                   arg, caller, row, document, holder, slot>>

IfPresent(new, old) == IF new = Absent THEN old ELSE new

\* The document after SetTitleIfPresent and SetContentIfPresent.
Edited(r) ==
    [title |-> IfPresent(arg[r].title, document[r].title),
     content |-> IfPresent(arg[r].content, document[r].content)]

\* Mutant of WriteRow: a deleted row is inserted again.
UpsertRow(a, new) == articles' = [articles EXCEPT ![a] = new]

\* UPDATE articles: every column of the row the handler holds, and no row at
\* all when the article has been deleted since (Save then finds it in its own
\* snapshot, and does not insert it again).
WriteRow(a, new) ==
    articles' = IF articles[a] = NoRow THEN articles ELSE [articles EXCEPT ![a] = new]

\* tx.Save and commit: both tables, from what the snapshot held.
SaveEdited(r) ==
    /\ pc[r] = "authorized"
    /\ arg[r].op = "update"
    /\ WriteRow(arg[r].article, row[r])
    /\ documents' = [documents EXCEPT ![arg[r].article] = Edited(r)]
    /\ Replied(r, "done")
    /\ UNCHANGED <<walletVars, contractVars, transactorVars, creator, metadata,
                   arg, caller, row, document, holder, slot>>

\* DELETE FROM articles; the document, the token and its metadata stay.
DeleteRow(r) ==
    /\ pc[r] = "authorized"
    /\ arg[r].op = "delete"
    /\ articles' = [articles EXCEPT ![arg[r].article] = NoRow]
    /\ Replied(r, "done")
    /\ UNCHANGED <<walletVars, contractVars, transactorVars, creator, documents, metadata,
                   arg, caller, row, document, holder, slot>>

-----------------------------------------------------------------------------
(* CreateForArticle.                                                       *)

BeginMint(r, a, address, signer, nonce) ==
    /\ pc[r] = "idle"
    /\ arg' = [arg EXCEPT ![r] = [op |-> "mint", article |-> a, address |-> address,
                                  signer |-> signer, nonce |-> nonce]]
    /\ caller' = [caller EXCEPT ![r] = GetIDByAddress(address)]
    /\ GoTo(r, IF GetIDByAddress(address) = NoUser THEN "failed" ELSE "identified")
    /\ UNCHANGED <<walletVars, contractVars, transactorVars, storeVars,
                   row, document, holder, slot>>

\* VerifySignature: the signer is the address, over the nonce just replaced.
SignatureIsValid(r) ==
    /\ arg[r].signer = arg[r].address
    /\ arg[r].nonce = nonceOf[caller[r]]

\* GetAndReplaceNonceByID, then VerifySignature: a nonce is used up either way.
VerifyMint(r) ==
    /\ pc[r] = "identified"
    /\ GetAndReplaceNonceByID(caller[r])
    /\ Replied(r, IF SignatureIsValid(r) THEN "verified" ELSE "failed")
    /\ UNCHANGED <<contractVars, transactorVars, storeVars,
                   arg, caller, row, document, holder, slot>>

\* Mutant of FindArticle: a missing row is not noticed.
FindAnyArticle(r) ==
    /\ pc[r] = "verified"
    /\ GoTo(r, "found")
    /\ row' = [row EXCEPT ![r] = articles[arg[r].article]]
    /\ UNCHANGED <<walletVars, contractVars, transactorVars, storeVars,
                   arg, caller, document, holder, slot>>

\* The transaction's snapshot, without the document.
FindArticle(r) ==
    /\ pc[r] = "verified"
    /\ IF articles[arg[r].article] = NoRow
       THEN GoTo(r, "failed") /\ UNCHANGED row
       ELSE /\ GoTo(r, "found")
            /\ row' = [row EXCEPT ![r] = articles[arg[r].article]]
    /\ UNCHANGED <<walletVars, contractVars, transactorVars, storeVars,
                   arg, caller, document, holder, slot>>

\* Mutant of CheckAuthor: any registered caller may have an article minted.
CheckNothing(r) ==
    /\ pc[r] = "found"
    /\ GoTo(r, "checked")
    /\ UNCHANGED <<walletVars, contractVars, transactorVars, storeVars,
                   arg, caller, row, document, holder, slot>>

\* GetAddressByID of the article's author, against the request's address.
CheckAuthor(r) ==
    /\ pc[r] = "found"
    /\ GoTo(r, IF GetAddressByID(row[r].author) = arg[r].address THEN "checked" ELSE "failed")
    /\ UNCHANGED <<walletVars, contractVars, transactorVars, storeVars,
                   arg, caller, row, document, holder, slot>>

\* MintNFT of the binding makes three calls: EstimateGas,
EstimateGas(r) ==
    /\ pc[r] = "checked"
    /\ GoTo(r, IF EstimateFails(arg[r].article) THEN "failed" ELSE "estimated")
    /\ UNCHANGED <<walletVars, contractVars, transactorVars, storeVars,
                   arg, caller, row, document, holder, slot>>

\* PendingNonceAt,
TakeNonce(r) ==
    /\ pc[r] = "estimated"
    /\ \E s \in Slots :
        /\ IsPendingNonce(s)
        /\ slot' = [slot EXCEPT ![r] = s]
    /\ GoTo(r, "numbered")
    /\ UNCHANGED <<walletVars, contractVars, transactorVars, storeVars,
                   arg, caller, row, document, holder>>

\* and SendTransaction.
SendMint(r) ==
    /\ pc[r] = "numbered"
    /\ \/ /\ SendTransaction(slot[r], [to |-> arg[r].address, article |-> arg[r].article])
          /\ Replied(r, "sent")
       \/ /\ SendRefused(slot[r])
          /\ GoTo(r, "failed")
          /\ UNCHANGED transactorVars
    /\ UNCHANGED <<walletVars, contractVars, storeVars,
                   arg, caller, row, document, holder, slot>>

UploadMetadata(r) ==
    /\ pc[r] = "sent"
    /\ metadata' = metadata \cup {arg[r].article}
    /\ Replied(r, "uploaded")
    /\ UNCHANGED <<walletVars, contractVars, transactorVars, creator, articles, documents,
                   arg, caller, row, document, holder, slot>>

\* Mutants of SaveTokenized: the flag is saved before the upload; the flag is
\* not set on the row that is saved.
SaveTokenizedFirst(r) ==
    /\ pc[r] = "sent"
    /\ WriteRow(arg[r].article, [row[r] EXCEPT !.tokenized = TRUE])
    /\ Replied(r, "done")
    /\ UNCHANGED <<walletVars, contractVars, transactorVars, creator, documents, metadata,
                   arg, caller, row, document, holder, slot>>

SaveUntokenized(r) ==
    /\ pc[r] = "uploaded"
    /\ WriteRow(arg[r].article, row[r])
    /\ Replied(r, "done")
    /\ UNCHANGED <<walletVars, contractVars, transactorVars, creator, documents, metadata,
                   arg, caller, row, document, holder, slot>>

\* SetIsTokenized, Save of the row (Document is zero and left alone), commit.
SaveTokenized(r) ==
    /\ pc[r] = "uploaded"
    /\ WriteRow(arg[r].article, [row[r] EXCEPT !.tokenized = TRUE])
    /\ Replied(r, "done")
    /\ UNCHANGED <<walletVars, contractVars, transactorVars, creator, documents, metadata,
                   arg, caller, row, document, holder, slot>>

-----------------------------------------------------------------------------
(* A store, the node or the server itself fails the call a handler waits   *)
(* for: the handler returns and its database transaction is rolled back;   *)
(* what it did elsewhere stays.                                            *)
CallFails(r) ==
    /\ "call" \in Faults
    /\ pc[r] \in InFlight
    /\ GoTo(r, "failed")
    /\ UNCHANGED <<walletVars, contractVars, transactorVars, storeVars,
                   arg, caller, row, document, holder, slot>>

\* A request arrives.  A nonce to sign is one that has been handed out.
Begin(r) ==
    \E a \in Articles :
        \/ /\ "update" \in Operations
           /\ \E u \in Users, title \in Titles \cup {Absent}, content \in Contents \cup {Absent} :
                BeginUpdate(r, u, a, title, content)
        \/ /\ "delete" \in Operations
           /\ \E u \in Users : BeginDelete(r, u, a)
        \/ /\ "mint" \in Operations
           /\ \E address, signer \in Accounts, nonce \in 1..issued :
                BeginMint(r, a, address, signer, nonce)

\* The handler of a request goes on.
Handle(r) ==
    \/ AuthorizeAuthor(r) \/ ReadHolder(r) \/ AuthorizeHolder(r)
    \/ SaveEdited(r) \/ DeleteRow(r)
    \/ VerifyMint(r) \/ FindArticle(r) \/ CheckAuthor(r)
    \/ EstimateGas(r) \/ TakeNonce(r) \/ SendMint(r)
    \/ UploadMetadata(r) \/ SaveTokenized(r)

Next ==
    \/ \E u \in Users, text \in AddressText : RegisterWallet(u, text)
    \/ \E u \in Users, a \in Articles, d \in Document : Create(u, a, d)
    \/ ChainStep
    \/ \E r \in Requests : Begin(r) \/ Handle(r) \/ CallFails(r)

Spec == Init /\ [][Next]_vars

-----------------------------------------------------------------------------
(* Type correctness.  What a handler holds depends on how far it has come. *)
StoreTypeOK ==
    /\ creator \in [Articles -> Users \cup {NoUser}]
    /\ articles \in [Articles -> Row \cup {NoRow}]
    /\ documents \in [Articles -> Document \cup {NoDocument}]
    /\ metadata \subseteq Articles
    \* a row has a document: Create inserts both and documents are never deleted
    /\ \A a \in Articles : articles[a] # NoRow => documents[a] # NoDocument

RequestTypeOK ==
    /\ pc \in [Requests -> {"idle"} \cup InFlight \cup Finished]
    /\ arg \in [Requests -> UpdateRequest \cup DeleteRequest \cup MintRequest \cup {NoRequest}]
    /\ caller \in [Requests -> Users \cup {NoUser}]
    /\ row \in [Requests -> Row \cup {NoRow}]
    /\ document \in [Requests -> Document \cup {NoDocument}]
    /\ holder \in [Requests -> Accounts \cup {ZeroAddress}]
    /\ slot \in [Requests -> Slots \cup {0}]

StageOK(r) ==
    /\ pc[r] \in EditStages =>
        /\ arg[r] \in UpdateRequest \cup DeleteRequest
        /\ caller[r] \in Users
        /\ row[r] \in Row
        /\ document[r] \in Document
    /\ pc[r] \in MintStages => arg[r] \in MintRequest /\ caller[r] \in Users
    /\ pc[r] \in MintStages \ {"identified", "verified"} => row[r] \in Row
    /\ pc[r] \in {"numbered", "sent", "uploaded"} => slot[r] \in Slots

\* The state is well typed, and a handler never reads a row, a document, a
\* caller or a slot that it has not been given.
TypeOK ==
    /\ WalletTypeOK
    /\ ContractTypeOK
    /\ TransactorTypeOK
    /\ StoreTypeOK
    /\ RequestTypeOK
    /\ \A r \in Requests : StageOK(r)

-----------------------------------------------------------------------------
(* Safety.                                                                 *)

\* A mint request that got past the signature, and one that has ended after it
\* took a nonce of the chain; it may have failed if its last reply was lost.
Accepted(r) == arg[r] \in MintRequest /\ row[r] # NoRow
Completed(r) == arg[r] \in MintRequest /\ slot[r] # 0 /\ pc[r] \in Finished

\* Replay protection of CreateForArticle: two accepted mint requests never
\* show a signature over the same nonce, however they interleave.
NonceSpentOnce ==
    \A r, q \in Requests :
        Accepted(r) /\ Accepted(q) /\ r # q => arg[r].nonce # arg[q].nonce

\* Whatever happened to the article, the wallets and the other requests since
\* the author check of CreateForArticle, a mint transaction in the pool or on
\* the chain pays the registered wallet of the user who created the article.
MintsPayTheAuthor ==
    \A s \in Slots : txs[s] # NoTx =>
        /\ creator[txs[s].article] # NoUser
        /\ GetAddressByID(creator[txs[s].article]) = txs[s].to

\* One token for an article and one article for a token, numbered without gaps,
\* although several mint transactions for an article may reach the chain.
TokensMatchArticles ==
    /\ \A a \in Articles : tokenIdOf[a] # 0 => tokenURI[tokenIdOf[a]] = a
    /\ \A t \in Tokens : tokenIdOf[tokenURI[t]] = t

\* The is_tokenized flag is never raised early: a row that carries it, in the
\* table or in a snapshot, goes back to a mint request that has ended and to the
\* metadata it uploaded, although the reply to its COMMIT may have been lost.
FlagMeansCompletedMint ==
    \A a \in Articles :
        (\/ articles[a] # NoRow /\ articles[a].tokenized
         \/ \E r \in Requests :
              /\ row[r] # NoRow /\ arg[r].article = a /\ row[r].tokenized)
        => a \in metadata /\ \E r \in Requests : Completed(r) /\ arg[r].article = a

\* A request that reaches its write is entitled to it by what it was told: the
\* author while its row is not tokenized, and otherwise the user whose wallet,
\* looked up forwards, is the account the chain named.
EditorsAreEntitled ==
    \A r \in Requests :
        pc[r] \in {"authorized", "done"} /\ arg[r] \in UpdateRequest \cup DeleteRequest =>
            IF row[r].tokenized
            THEN holder[r] \in Accounts /\ GetAddressByID(caller[r]) = holder[r]
            ELSE caller[r] = creator[arg[r].article]

\* No write of a stale row brings a deleted article back or gives an article
\* another author, and an id is never used for two articles.
RowsKeepIdentity ==
    [][\A a \in Articles :
        /\ creator[a] # NoUser => creator'[a] = creator[a]
        /\ creator[a] # NoUser /\ articles[a] = NoRow => articles'[a] = NoRow
        /\ articles'[a] # NoRow => articles'[a].author = creator'[a]]_vars

\* The promise in the token's metadata: the user whose wallet holds the token
\* of an article may edit it.  Judged when no request is in flight.
MayEdit(u, a) ==
    IF articles[a].tokenized
    THEN GetIDByAddress(getOwnerOfArticle(a)) = u
    ELSE articles[a].author = u

HoldersMayEdit ==
    (\A r \in Requests : pc[r] \notin InFlight) =>
        \A a \in Articles, u \in Users :
            /\ articles[a] # NoRow
            /\ tokenIdOf[a] # 0
            /\ GetAddressByID(u) = getOwnerOfArticle(a)
            => MayEdit(u, a)

\* A field that an update request leaves out keeps the value it has in the table.
OnlyPresentFieldsChange ==
    [][\A r \in Requests :
        pc[r] = "authorized" /\ pc'[r] = "done" /\ arg[r] \in UpdateRequest =>
            LET before == documents[arg[r].article]
                after == documents'[arg[r].article]
            IN  /\ arg[r].title = Absent => after.title = before.title
                /\ arg[r].content = Absent => after.content = before.content]_vars

-----------------------------------------------------------------------------
(* What the promise needs.  The code does not see to either condition: a   *)
(* mint that fails behind its transaction and an update that saves a row   *)
(* which has changed since it was loaded both break HoldersMayEdit.        *)

\* A mint that fails has sent nothing: none is broken off between the node that
\* takes its transaction and the table.
SentMintsAreSaved ==
    \A r \in Requests : pc'[r] = "failed" =>
        /\ pc[r] \notin {"sent", "uploaded"}
        /\ pc[r] = "numbered" => txs' = txs

\* An update saves over the row that it loaded.
SavesAreFresh ==
    \A r \in Requests : SaveEdited(r) => articles[arg[r].article] \in {NoRow, row[r]}

CarefulNext == Next /\ SentMintsAreSaved /\ SavesAreFresh
CarefulSpec == Init /\ [][CarefulNext]_vars
=============================================================================
