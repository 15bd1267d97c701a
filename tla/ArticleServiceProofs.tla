------------------------ MODULE ArticleServiceProofs ------------------------
(* What is proved of ArticleService for every value of its constants. *)
EXTENDS ArticleService, WalletRegistryProofs

USE UserAssumption, AccountAssumption, FormAssumption, AddressAssumption,
    SlotAssumption, TransactionAssumption, RowAssumption, RequestAssumption,
    AbsentAssumption

-----------------------------------------------------------------------------
(* The components. *)

\* Minting keeps the contract's tables well typed.
LEMMA MintType ==
    ASSUME ContractTypeOK, NEW to \in Accounts, NEW a \in Articles, mintNFT(to, a)
    PROVE  ContractTypeOK'
BY DEF ContractTypeOK, mintNFT, MintToken, Tokens

\* So does a transfer.
LEMMA TransferType ==
    ASSUME ContractTypeOK, NEW t \in Tokens, NEW to \in Accounts, TransferToken(t, to)
    PROVE  ContractTypeOK'
BY DEF ContractTypeOK, TransferToken, Tokens

\* The owner of an article's token is an account, or nobody.
LEMMA OwnerType ==
    ASSUME ContractTypeOK, NEW a \in Articles
    PROVE  getOwnerOfArticle(a) \in Accounts \cup {ZeroAddress}
BY DEF ContractTypeOK, getOwnerOfArticle, Tokens

-----------------------------------------------------------------------------
(* Type correctness. *)

\* A step of one handler leaves the stage of the others alone.
LEMMA OtherStages ==
    ASSUME TypeOK, NEW r \in Requests, StageOK(r)', RequestTypeOK',
           \A q \in Requests \ {r} :
                /\ pc'[q] = pc[q] /\ arg'[q] = arg[q] /\ caller'[q] = caller[q]
                /\ row'[q] = row[q] /\ document'[q] = document[q] /\ slot'[q] = slot[q]
    PROVE  \A q \in Requests : StageOK(q)'
BY DEF TypeOK, StageOK

\* What the stores and the node hold stays well typed while nothing is written.
LEMMA NothingWritten ==
    ASSUME TypeOK, UNCHANGED <<walletVars, contractVars, transactorVars, storeVars>>
    PROVE  WalletTypeOK' /\ ContractTypeOK' /\ TransactorTypeOK' /\ StoreTypeOK'
BY DEF TypeOK, walletVars, contractVars, transactorVars, storeVars, WalletTypeOK,
       ContractTypeOK, Tokens, TransactorTypeOK, StoreTypeOK

\* A chain step, a registration and a creation touch no request.
LEMMA RequestsUntouched ==
    ASSUME TypeOK, UNCHANGED requestVars
    PROVE  RequestTypeOK' /\ \A r \in Requests : StageOK(r)'
BY DEF TypeOK, requestVars, RequestTypeOK, StageOK

\* The initial state is well typed.
LEMMA InitType == Init => TypeOK
<1> SUFFICES ASSUME Init PROVE TypeOK
    OBVIOUS
<1>1. WalletTypeOK
    BY DEF Init, WalletInit, WalletTypeOK
<1>2. ContractTypeOK
    BY DEF Init, ContractInit, ContractTypeOK, Tokens
<1>3. TransactorTypeOK
    BY DEF Init, TransactorInit, TransactorTypeOK
<1>4. StoreTypeOK
    BY DEF Init, StoreTypeOK
<1>5. RequestTypeOK
    BY DEF Init, RequestTypeOK
<1>6. \A r \in Requests : StageOK(r)
    BY DEF Init, StageOK, EditStages, MintStages
<1> QED
    BY <1>1, <1>2, <1>3, <1>4, <1>5, <1>6 DEF TypeOK

\* Registrations and creations.
LEMMA RegisterWalletType ==
    ASSUME TypeOK, NEW u \in Users, NEW text \in AddressText, RegisterWallet(u, text)
    PROVE  TypeOK'
<1>1. WalletTypeOK'
    BY PutUserWalletType DEF TypeOK, RegisterWallet
<1>2. ContractTypeOK' /\ TransactorTypeOK' /\ StoreTypeOK'
    BY DEF TypeOK, RegisterWallet, contractVars, transactorVars, storeVars,
           ContractTypeOK, Tokens, TransactorTypeOK, StoreTypeOK
<1> QED
    BY <1>1, <1>2, RequestsUntouched DEF TypeOK, RegisterWallet

\* The creation of an article keeps the types.
LEMMA CreateType ==
    ASSUME TypeOK, NEW u \in Users, NEW a \in Articles, NEW d \in Document, Create(u, a, d)
    PROVE  TypeOK'
<1>1. WalletTypeOK' /\ ContractTypeOK' /\ TransactorTypeOK'
    BY DEF TypeOK, Create, walletVars, contractVars, transactorVars, WalletTypeOK,
           ContractTypeOK, Tokens, TransactorTypeOK
<1>2. StoreTypeOK'
    BY DEF TypeOK, Create, StoreTypeOK, Row
<1> QED
    BY <1>1, <1>2, RequestsUntouched DEF TypeOK, Create

\* So do mined and dropped transactions and transfers.
LEMMA ChainStepType ==
    ASSUME TypeOK, ChainStep
    PROVE  TypeOK'
<1>1. WalletTypeOK' /\ StoreTypeOK'
    BY DEF TypeOK, ChainStep, walletVars, storeVars, WalletTypeOK, StoreTypeOK
<1>2. ContractTypeOK' /\ TransactorTypeOK'
    <2>1. CASE MineNext
        <3> PICK s \in Slots :
                /\ s = mined + 1 /\ txs[s] # NoTx /\ mined' = s /\ UNCHANGED txs
                /\ \/ mintNFT(txs[s].to, txs[s].article)
                   \/ MintReverts(txs[s].article) /\ UNCHANGED contractVars
            BY <2>1 DEF MineNext
        <3>1. TransactorTypeOK'
            BY DEF TypeOK, TransactorTypeOK, Slots
        <3>2. txs[s].to \in Accounts /\ txs[s].article \in Articles
            BY DEF TypeOK, TransactorTypeOK, Transaction
        <3>3. ContractTypeOK'
            BY <3>2, MintType DEF TypeOK, ContractTypeOK, contractVars, Tokens
        <3> QED
            BY <3>1, <3>3
    <2>2. ASSUME NEW s \in Slots, DropTransaction(s), UNCHANGED contractVars
          PROVE  ContractTypeOK' /\ TransactorTypeOK'
        BY <2>2 DEF TypeOK, DropTransaction, contractVars, ContractTypeOK, Tokens, TransactorTypeOK
    <2>3. ASSUME NEW t \in Tokens, NEW to \in Accounts, TransferToken(t, to),
                 UNCHANGED transactorVars
          PROVE  ContractTypeOK' /\ TransactorTypeOK'
        BY <2>3, TransferType DEF TypeOK, transactorVars, TransactorTypeOK
    <2> QED
        BY <2>1, <2>2, <2>3 DEF ChainStep
<1> QED
    BY <1>1, <1>2, RequestsUntouched DEF TypeOK, ChainStep

\* A request that arrives.
LEMMA BeginEditType ==
    ASSUME TypeOK, NEW r \in Requests, NEW u \in Users,
           NEW request \in UpdateRequest \cup DeleteRequest, BeginEdit(r, u, request)
    PROVE  TypeOK'
<1>1. request.article \in Articles
    BY DEF UpdateRequest, DeleteRequest
<1>2. RequestTypeOK'
    BY <1>1 DEF TypeOK, BeginEdit, GoTo, RequestTypeOK, StoreTypeOK, InFlight, EditStages, Finished
<1>3. StageOK(r)'
    BY <1>1, <1>2 DEF TypeOK, BeginEdit, GoTo, RequestTypeOK, StoreTypeOK, StageOK,
                      EditStages, MintStages
<1>4. \A q \in Requests : StageOK(q)'
    BY <1>2, <1>3, OtherStages DEF TypeOK, BeginEdit, GoTo, RequestTypeOK
<1> QED
    BY <1>2, <1>4, NothingWritten DEF TypeOK, BeginEdit

\* The start of a mint keeps the types.
LEMMA BeginMintType ==
    ASSUME TypeOK, NEW r \in Requests, NEW a \in Articles, NEW address \in Accounts,
           NEW signer \in Accounts, NEW nonce \in Nat, BeginMint(r, a, address, signer, nonce)
    PROVE  TypeOK'
<1>1. GetIDByAddress(address) \in Users \cup {NoUser}
    BY GetIDByAddressType DEF TypeOK
<1>2. RequestTypeOK'
    BY <1>1 DEF TypeOK, BeginMint, GoTo, RequestTypeOK, MintRequest, InFlight, MintStages, Finished
<1>3. StageOK(r)'
    BY <1>1, <1>2 DEF TypeOK, BeginMint, GoTo, RequestTypeOK, StageOK, MintRequest,
                      EditStages, MintStages
<1>4. \A q \in Requests : StageOK(q)'
    BY <1>2, <1>3, OtherStages DEF TypeOK, BeginMint, GoTo, RequestTypeOK
<1> QED
    BY <1>2, <1>4, NothingWritten DEF TypeOK, BeginMint

\* So does the start of any request.
LEMMA BeginType ==
    ASSUME TypeOK, NEW r \in Requests, Begin(r)
    PROVE  TypeOK'
<1> PICK a \in Articles :
        \/ \E u \in Users, title \in Titles \cup {Absent}, content \in Contents \cup {Absent} :
                BeginUpdate(r, u, a, title, content)
        \/ \E u \in Users : BeginDelete(r, u, a)
        \/ \E address, signer \in Accounts, nonce \in 1..issued :
                BeginMint(r, a, address, signer, nonce)
    BY DEF Begin
<1>1. ASSUME NEW u \in Users, NEW title \in Titles \cup {Absent},
             NEW content \in Contents \cup {Absent}, BeginUpdate(r, u, a, title, content)
      PROVE  TypeOK'
    <2> DEFINE request == [op |-> "update", article |-> a, title |-> title, content |-> content]
    <2>1. request \in UpdateRequest
        BY DEF UpdateRequest
    <2> QED
        BY <1>1, <2>1, BeginEditType DEF BeginUpdate
<1>2. ASSUME NEW u \in Users, BeginDelete(r, u, a)
      PROVE  TypeOK'
    <2>1. [op |-> "delete", article |-> a] \in DeleteRequest
        BY DEF DeleteRequest
    <2> QED
        BY <1>2, <2>1, BeginEditType DEF BeginDelete
<1>3. ASSUME NEW address \in Accounts, NEW signer \in Accounts, NEW nonce \in 1..issued,
             BeginMint(r, a, address, signer, nonce)
      PROVE  TypeOK'
    <2>1. nonce \in Nat
        BY DEF TypeOK, WalletTypeOK
    <2> QED
        BY <1>3, <2>1, BeginMintType
<1> QED
    BY <1>1, <1>2, <1>3

-----------------------------------------------------------------------------
(* The handlers. A handler's step moves its own pc forward, and most write  *)
(* one other variable.                                                      *)
\* Steps that write nothing but the handler's own stage, row, holder or slot.
LEMMA HandlerReads ==
    ASSUME TypeOK, NEW r \in Requests,
           \/ AuthorizeAuthor(r) \/ ReadHolder(r) \/ AuthorizeHolder(r)
           \/ FindArticle(r) \/ CheckAuthor(r) \/ EstimateGas(r) \/ TakeNonce(r)
           \/ CallFails(r)
    PROVE  TypeOK'
<1> USE DEF TypeOK, GoTo, Replied, RequestTypeOK, StageOK, InFlight, EditStages, MintStages, Finished
<1>1. CASE AuthorizeAuthor(r)
    <2>1. RequestTypeOK' /\ StageOK(r)'
        BY <1>1 DEF AuthorizeAuthor
    <2> QED
        BY <1>1, <2>1, NothingWritten, OtherStages DEF AuthorizeAuthor
<1>2. CASE ReadHolder(r)
    <2>1. arg[r].article \in Articles
        BY <1>2 DEF ReadHolder, UpdateRequest, DeleteRequest
    <2>2. RequestTypeOK' /\ StageOK(r)'
        BY <1>2, <2>1, OwnerType DEF ReadHolder
    <2> QED
        BY <1>2, <2>2, NothingWritten, OtherStages DEF ReadHolder
<1>3. CASE AuthorizeHolder(r)
    <2>1. RequestTypeOK' /\ StageOK(r)'
        BY <1>3 DEF AuthorizeHolder
    <2> QED
        BY <1>3, <2>1, NothingWritten, OtherStages DEF AuthorizeHolder
<1>4. CASE FindArticle(r)
    <2>1. arg[r].article \in Articles
        BY <1>4 DEF FindArticle, MintRequest
    <2>2. RequestTypeOK' /\ StageOK(r)'
        BY <1>4, <2>1 DEF FindArticle, StoreTypeOK
    <2> QED
        BY <1>4, <2>2, NothingWritten, OtherStages DEF FindArticle
<1>5. CASE CheckAuthor(r)
    <2>1. RequestTypeOK' /\ StageOK(r)'
        BY <1>5 DEF CheckAuthor
    <2> QED
        BY <1>5, <2>1, NothingWritten, OtherStages DEF CheckAuthor
<1>6. CASE EstimateGas(r)
    <2>1. RequestTypeOK' /\ StageOK(r)'
        BY <1>6 DEF EstimateGas
    <2> QED
        BY <1>6, <2>1, NothingWritten, OtherStages DEF EstimateGas
<1>7. CASE TakeNonce(r)
    <2>1. RequestTypeOK' /\ StageOK(r)'
        BY <1>7 DEF TakeNonce
    <2> QED
        BY <1>7, <2>1, NothingWritten, OtherStages DEF TakeNonce
<1>8. CASE CallFails(r)
    <2>1. RequestTypeOK' /\ StageOK(r)'
        BY <1>8 DEF CallFails
    <2> QED
        BY <1>8, <2>1, NothingWritten, OtherStages DEF CallFails
<1> QED
    BY <1>1, <1>2, <1>3, <1>4, <1>5, <1>6, <1>7, <1>8

\* Steps that write a store or send a transaction.
LEMMA HandlerWrites ==
    ASSUME TypeOK, NEW r \in Requests,
           \/ SaveEdited(r) \/ DeleteRow(r) \/ VerifyMint(r) \/ SendMint(r)
           \/ UploadMetadata(r) \/ SaveTokenized(r)
    PROVE  TypeOK'
<1> USE DEF TypeOK, GoTo, Replied, RequestTypeOK, StageOK, InFlight, EditStages, MintStages, Finished,
            walletVars, contractVars, transactorVars, storeVars
<1>1. CASE SaveEdited(r)
    <2>1. arg[r] \in UpdateRequest
        BY <1>1 DEF SaveEdited, DeleteRequest
    <2>2. arg[r].article \in Articles /\ Edited(r) \in Document
        BY <1>1, <2>1 DEF SaveEdited, UpdateRequest, Edited, IfPresent, Document
    <2>3. StoreTypeOK'
        BY <1>1, <2>2 DEF SaveEdited, StoreTypeOK, WriteRow
    <2>4. WalletTypeOK' /\ ContractTypeOK' /\ TransactorTypeOK'
        BY <1>1 DEF SaveEdited, WalletTypeOK, ContractTypeOK, Tokens, TransactorTypeOK
    <2>5. RequestTypeOK' /\ StageOK(r)'
        BY <1>1 DEF SaveEdited
    <2> QED
        BY <1>1, <2>3, <2>4, <2>5, OtherStages DEF SaveEdited
<1>2. CASE DeleteRow(r)
    <2>1. arg[r].article \in Articles
        BY <1>2 DEF DeleteRow, UpdateRequest, DeleteRequest
    <2>2. StoreTypeOK'
        BY <1>2, <2>1 DEF DeleteRow, StoreTypeOK
    <2>3. WalletTypeOK' /\ ContractTypeOK' /\ TransactorTypeOK'
        BY <1>2 DEF DeleteRow, WalletTypeOK, ContractTypeOK, Tokens, TransactorTypeOK
    <2>4. RequestTypeOK' /\ StageOK(r)'
        BY <1>2 DEF DeleteRow
    <2> QED
        BY <1>2, <2>2, <2>3, <2>4, OtherStages DEF DeleteRow
<1>3. CASE VerifyMint(r)
    <2>1. WalletTypeOK'
        BY <1>3, ReplaceNonceType DEF VerifyMint
    <2>2. StoreTypeOK' /\ ContractTypeOK' /\ TransactorTypeOK'
        BY <1>3 DEF VerifyMint, StoreTypeOK, ContractTypeOK, Tokens, TransactorTypeOK
    <2>3. RequestTypeOK' /\ StageOK(r)'
        BY <1>3 DEF VerifyMint
    <2> QED
        BY <1>3, <2>1, <2>2, <2>3, OtherStages DEF VerifyMint
<1>4. CASE SendMint(r)
    <2>1. [to |-> arg[r].address, article |-> arg[r].article] \in Transaction
        BY <1>4 DEF SendMint, MintRequest, Transaction
    <2>2. TransactorTypeOK'
        BY <1>4, <2>1 DEF SendMint, SendTransaction, TransactorTypeOK
    <2>3. WalletTypeOK' /\ ContractTypeOK' /\ StoreTypeOK'
        BY <1>4 DEF SendMint, WalletTypeOK, ContractTypeOK, Tokens, StoreTypeOK
    <2>4. RequestTypeOK' /\ StageOK(r)'
        BY <1>4 DEF SendMint
    <2> QED
        BY <1>4, <2>2, <2>3, <2>4, OtherStages DEF SendMint
<1>5. CASE UploadMetadata(r)
    <2>1. arg[r].article \in Articles
        BY <1>5 DEF UploadMetadata, MintRequest
    <2>2. StoreTypeOK'
        BY <1>5, <2>1 DEF UploadMetadata, StoreTypeOK
    <2>3. WalletTypeOK' /\ ContractTypeOK' /\ TransactorTypeOK'
        BY <1>5 DEF UploadMetadata, WalletTypeOK, ContractTypeOK, Tokens, TransactorTypeOK
    <2>4. RequestTypeOK' /\ StageOK(r)'
        BY <1>5 DEF UploadMetadata
    <2> QED
        BY <1>5, <2>2, <2>3, <2>4, OtherStages DEF UploadMetadata
<1>6. CASE SaveTokenized(r)
    <2>1. arg[r].article \in Articles /\ [row[r] EXCEPT !.tokenized = TRUE] \in Row
        <3>1. pc[r] = "uploaded"
            BY <1>6 DEF SaveTokenized
        <3>2. arg[r] \in MintRequest /\ row[r] \in Row
            BY <3>1
        <3> QED
            BY <3>2 DEF MintRequest, Row
    <2>2. StoreTypeOK'
        BY <1>6, <2>1 DEF SaveTokenized, StoreTypeOK, WriteRow
    <2>3. WalletTypeOK' /\ ContractTypeOK' /\ TransactorTypeOK'
        BY <1>6 DEF SaveTokenized, WalletTypeOK, ContractTypeOK, Tokens, TransactorTypeOK
    <2>4. RequestTypeOK' /\ StageOK(r)'
        <3>1. /\ pc' = [pc EXCEPT ![r] = "done"] \/ pc' = [pc EXCEPT ![r] = "failed"]
              /\ UNCHANGED <<arg, caller, row, document, holder, slot>>
            BY <1>6 DEF SaveTokenized, GoTo, Replied
        <3> QED
            BY <3>1 DEF RequestTypeOK
    <2> QED
        BY <1>6, <2>2, <2>3, <2>4, OtherStages DEF SaveTokenized
<1> QED
    BY <1>1, <1>2, <1>3, <1>4, <1>5, <1>6

\* Every reachable state is well typed, and no handler uses a row, a document,
\* a caller or a slot it does not hold.
THEOREM TypeCorrect == Spec => []TypeOK
<1>1. Init => TypeOK
    BY InitType
<1>2. TypeOK /\ [Next]_vars => TypeOK'
    <2> SUFFICES ASSUME TypeOK, [Next]_vars PROVE TypeOK'
        OBVIOUS
    <2>1. CASE \E u \in Users, text \in AddressText : RegisterWallet(u, text)
        BY <2>1, RegisterWalletType
    <2>2. CASE \E u \in Users, a \in Articles, d \in Document : Create(u, a, d)
        BY <2>2, CreateType
    <2>3. CASE ChainStep
        BY <2>3, ChainStepType
    <2>4. ASSUME NEW r \in Requests, Begin(r) \/ Handle(r) \/ CallFails(r)
          PROVE  TypeOK'
        BY <2>4, BeginType, HandlerReads, HandlerWrites DEF Handle
    <2>5. CASE UNCHANGED vars
        BY <2>5, NothingWritten, RequestsUntouched DEF TypeOK, vars
    <2> QED
        BY <2>1, <2>2, <2>3, <2>4, <2>5 DEF Next
<1> QED
    BY <1>1, <1>2, PTL DEF Spec
-----------------------------------------------------------------------------
(* Authorship.  MintsPayTheAuthor is not inductive by itself: a transaction *)
(* is sent from what a handler compared earlier, so the invariant follows   *)
(* the author from the id's creation through the table and the handlers'    *)
(* rows to the pool.                                                        *)

CheckedStages == {"checked", "estimated", "numbered", "sent", "uploaded"}

\* The author column of the table, and of every row a handler holds, is the
\* user who created the article.
RowsNameTheCreator ==
    /\ \A a \in Articles : articles[a] # NoRow => articles[a].author = creator[a]
    /\ \A r \in Requests : row[r] # NoRow =>
        arg[r] # NoRequest /\ row[r].author = creator[arg[r].article]

\* A handler that has not begun holds no row.
IdleHoldsNothing == \A r \in Requests : pc[r] = "idle" => row[r] = NoRow

\* Past the author check, the author's wallet is the address of the request.
CheckedPaysTheAuthor ==
    \A r \in Requests : pc[r] \in CheckedStages =>
        GetAddressByID(row[r].author) = arg[r].address

AuthorInv ==
    /\ RowsNameTheCreator
    /\ IdleHoldsNothing
    /\ CheckedPaysTheAuthor
    /\ MintsPayTheAuthor

\* The requests that hold a row, and the article their row belongs to.
LEMMA ArgumentType ==
    ASSUME TypeOK, NEW r \in Requests, arg[r] # NoRequest
    PROVE  arg[r].article \in Articles
BY DEF TypeOK, RequestTypeOK, UpdateRequest, DeleteRequest, MintRequest

\* At the start nothing has been created.
LEMMA InitAuthor == Init => AuthorInv
BY DEF Init, TransactorInit, AuthorInv, RowsNameTheCreator, IdleHoldsNothing,
       CheckedPaysTheAuthor, CheckedStages, MintsPayTheAuthor

\* A registration gives a wallet to a user who has none, so no mint is affected.
LEMMA RegisterWalletAuthor ==
    ASSUME TypeOK, AuthorInv, NEW u \in Users, NEW text \in AddressText, RegisterWallet(u, text)
    PROVE  AuthorInv'
<1> USE DEF RegisterWallet, transactorVars, storeVars, requestVars
<1>1. RowsNameTheCreator' /\ IdleHoldsNothing'
    BY DEF AuthorInv, RowsNameTheCreator, IdleHoldsNothing
<1>2. \A v \in Users : walletOf[v] # NoAddress => walletOf'[v] = walletOf[v]
    BY WalletStays DEF TypeOK
<1>3. CheckedPaysTheAuthor'
    <2> SUFFICES ASSUME NEW r \in Requests, pc[r] \in CheckedStages
                 PROVE  (GetAddressByID(row[r].author) = arg[r].address)'
        BY DEF CheckedPaysTheAuthor
    <2>1. row[r].author \in Users /\ arg[r].address \in Accounts
        BY DEF TypeOK, StageOK, CheckedStages, MintStages, Row, MintRequest
    <2>2. GetAddressByID(row[r].author) = arg[r].address
        BY DEF AuthorInv, CheckedPaysTheAuthor
    <2> QED
        BY <1>2, <2>1, <2>2, AccountAssumption DEF GetAddressByID
<1>4. MintsPayTheAuthor'
    <2> SUFFICES ASSUME NEW s \in Slots, txs[s] # NoTx
                 PROVE  /\ creator[txs[s].article] # NoUser
                        /\ (GetAddressByID(creator[txs[s].article]) = txs[s].to)'
        BY DEF MintsPayTheAuthor
    <2>1. txs[s].to \in Accounts /\ txs[s].article \in Articles
        BY DEF TypeOK, TransactorTypeOK, Transaction
    <2>2. /\ creator[txs[s].article] \in Users
          /\ GetAddressByID(creator[txs[s].article]) = txs[s].to
        BY <2>1 DEF AuthorInv, MintsPayTheAuthor, TypeOK, StoreTypeOK
    <2> QED
        BY <1>2, <2>1, <2>2, AccountAssumption DEF GetAddressByID
<1> QED
    BY <1>1, <1>3, <1>4 DEF AuthorInv

\* A new article names its author, and no handler has a copy of it yet.
LEMMA CreateAuthor ==
    ASSUME TypeOK, AuthorInv, NEW u \in Users, NEW a \in Articles, NEW d \in Document,
           Create(u, a, d)
    PROVE  AuthorInv'
<1> USE DEF Create, walletVars, transactorVars, requestVars
<1>1. RowsNameTheCreator'
    <2>1. ASSUME NEW b \in Articles, articles'[b] # NoRow
          PROVE  articles'[b].author = creator'[b]
        BY <2>1 DEF AuthorInv, RowsNameTheCreator, TypeOK, StoreTypeOK
    <2>2. ASSUME NEW r \in Requests, row'[r] # NoRow
          PROVE  arg'[r] # NoRequest /\ row'[r].author = creator'[arg'[r].article]
        <3>1. arg[r] # NoRequest /\ row[r].author = creator[arg[r].article]
            BY <2>2 DEF AuthorInv, RowsNameTheCreator
        <3>2. arg[r].article \in Articles
            BY <3>1, ArgumentType
        <3>3. row[r].author \in Users
            BY <2>2 DEF TypeOK, RequestTypeOK, Row
        <3> QED
            BY <3>1, <3>2, <3>3 DEF TypeOK, StoreTypeOK
    <2> QED
        BY <2>1, <2>2 DEF RowsNameTheCreator
<1>2. IdleHoldsNothing' /\ CheckedPaysTheAuthor'
    BY DEF AuthorInv, IdleHoldsNothing, CheckedPaysTheAuthor, GetAddressByID
<1>3. MintsPayTheAuthor'
    <2> SUFFICES ASSUME NEW s \in Slots, txs[s] # NoTx
                 PROVE  (/\ creator[txs[s].article] # NoUser
                         /\ GetAddressByID(creator[txs[s].article]) = txs[s].to)'
        BY DEF MintsPayTheAuthor
    <2>1. txs[s].article \in Articles
        BY DEF TypeOK, TransactorTypeOK, Transaction
    <2>2. creator'[txs[s].article] = creator[txs[s].article]
        BY <2>1 DEF AuthorInv, MintsPayTheAuthor, TypeOK, StoreTypeOK
    <2> QED
        BY <2>2 DEF AuthorInv, MintsPayTheAuthor, GetAddressByID
<1> QED
    BY <1>1, <1>2, <1>3 DEF AuthorInv

\* The chain knows nothing of authors: mined transactions pay whom they were sent for.
LEMMA ChainStepAuthor ==
    ASSUME TypeOK, AuthorInv, ChainStep
    PROVE  AuthorInv'
<1>1. \A s \in Slots : txs'[s] # NoTx => txs'[s] = txs[s]
    <2>1. CASE MineNext
        BY <2>1 DEF MineNext
    <2>2. ASSUME NEW s \in Slots, DropTransaction(s)
          PROVE  \A k \in Slots : txs'[k] # NoTx => txs'[k] = txs[k]
        BY <2>2 DEF DropTransaction, TypeOK, TransactorTypeOK
    <2>3. CASE UNCHANGED transactorVars
        BY <2>3 DEF transactorVars
    <2> QED
        BY <2>1, <2>2, <2>3 DEF ChainStep
<1> QED
    BY <1>1 DEF ChainStep, walletVars, storeVars, requestVars, AuthorInv, RowsNameTheCreator,
                IdleHoldsNothing, CheckedPaysTheAuthor, MintsPayTheAuthor, GetAddressByID

\* A handler's step that writes neither a row nor the pool.
LEMMA HandlerKeepsAuthor ==
    ASSUME TypeOK, AuthorInv, NEW r \in Requests,
           UNCHANGED <<walletOf, transactorVars, creator, articles, arg, row>>,
           \A q \in Requests \ {r} : pc'[q] = pc[q],
           pc'[r] # "idle",
           pc'[r] \in CheckedStages =>
                pc[r] \in CheckedStages \/ GetAddressByID(row[r].author) = arg[r].address
    PROVE  AuthorInv'
BY DEF AuthorInv, RowsNameTheCreator, IdleHoldsNothing, CheckedPaysTheAuthor,
       MintsPayTheAuthor, GetAddressByID, transactorVars

\* The row a handler loads is the table's.
LEMMA LoadKeepsAuthor ==
    ASSUME TypeOK, AuthorInv, NEW r \in Requests, NEW a \in Articles,
           UNCHANGED <<walletOf, transactorVars, creator, articles>>,
           arg'[r] # NoRequest, arg'[r].article = a,
           row'[r] = articles[a],
           \A q \in Requests \ {r} : pc'[q] = pc[q] /\ arg'[q] = arg[q] /\ row'[q] = row[q],
           pc'[r] # "idle", pc'[r] \notin CheckedStages
    PROVE  AuthorInv'
BY DEF AuthorInv, RowsNameTheCreator, IdleHoldsNothing, CheckedPaysTheAuthor,
       MintsPayTheAuthor, GetAddressByID, transactorVars

\* A request to edit takes a copy of the row, author and all.
LEMMA BeginEditAuthor ==
    ASSUME TypeOK, AuthorInv, NEW r \in Requests, NEW u \in Users,
           NEW request \in UpdateRequest \cup DeleteRequest, BeginEdit(r, u, request)
    PROVE  AuthorInv'
<1>1. request.article \in Articles /\ request # NoRequest
    BY DEF UpdateRequest, DeleteRequest
<1>2. row[r] = NoRow
    BY DEF BeginEdit, AuthorInv, IdleHoldsNothing
<1>3. row'[r] = articles[request.article]
    BY <1>1, <1>2 DEF BeginEdit, TypeOK, RequestTypeOK
<1>4. /\ arg'[r] = request
      /\ pc'[r] # "idle" /\ pc'[r] \notin CheckedStages
      /\ \A q \in Requests \ {r} : pc'[q] = pc[q] /\ arg'[q] = arg[q] /\ row'[q] = row[q]
    BY DEF BeginEdit, GoTo, TypeOK, RequestTypeOK, CheckedStages
<1> QED
    BY <1>1, <1>3, <1>4, LoadKeepsAuthor DEF BeginEdit, walletVars, storeVars

\* A mint starts without a copy.
LEMMA BeginMintAuthor ==
    ASSUME TypeOK, AuthorInv, NEW r \in Requests, NEW a \in Articles, NEW address \in Accounts,
           NEW signer \in Accounts, NEW nonce \in Nat, BeginMint(r, a, address, signer, nonce)
    PROVE  AuthorInv'
<1>1. row[r] = NoRow
    BY DEF BeginMint, AuthorInv, IdleHoldsNothing
<1>2. /\ pc'[r] # "idle" /\ pc'[r] \notin CheckedStages
      /\ \A q \in Requests \ {r} : pc'[q] = pc[q] /\ arg'[q] = arg[q]
      /\ UNCHANGED <<walletOf, transactorVars, creator, articles, row>>
    BY DEF BeginMint, GoTo, TypeOK, RequestTypeOK, CheckedStages, walletVars, storeVars
<1> QED
    BY <1>1, <1>2 DEF AuthorInv, RowsNameTheCreator, IdleHoldsNothing, CheckedPaysTheAuthor,
                      MintsPayTheAuthor, GetAddressByID, transactorVars

\* However a request starts.
LEMMA BeginAuthor ==
    ASSUME TypeOK, AuthorInv, NEW r \in Requests, Begin(r)
    PROVE  AuthorInv'
<1> PICK a \in Articles :
        \/ \E u \in Users, title \in Titles \cup {Absent}, content \in Contents \cup {Absent} :
                BeginUpdate(r, u, a, title, content)
        \/ \E u \in Users : BeginDelete(r, u, a)
        \/ \E address, signer \in Accounts, nonce \in 1..issued :
                BeginMint(r, a, address, signer, nonce)
    BY DEF Begin
<1>1. ASSUME NEW u \in Users, NEW title \in Titles \cup {Absent},
             NEW content \in Contents \cup {Absent}, BeginUpdate(r, u, a, title, content)
      PROVE  AuthorInv'
    <2>1. [op |-> "update", article |-> a, title |-> title, content |-> content] \in UpdateRequest
        BY DEF UpdateRequest
    <2> QED
        BY <1>1, <2>1, BeginEditAuthor DEF BeginUpdate
<1>2. ASSUME NEW u \in Users, BeginDelete(r, u, a)
      PROVE  AuthorInv'
    <2>1. [op |-> "delete", article |-> a] \in DeleteRequest
        BY DEF DeleteRequest
    <2> QED
        BY <1>2, <2>1, BeginEditAuthor DEF BeginDelete
<1>3. ASSUME NEW address \in Accounts, NEW signer \in Accounts, NEW nonce \in 1..issued,
             BeginMint(r, a, address, signer, nonce)
      PROVE  AuthorInv'
    <2>1. nonce \in Nat
        BY DEF TypeOK, WalletTypeOK
    <2> QED
        BY <1>3, <2>1, BeginMintAuthor
<1> QED
    BY <1>1, <1>2, <1>3

\* Steps that only read, and those that write what AuthorInv does not mention.
LEMMA QuietHandlerAuthor ==
    ASSUME TypeOK, AuthorInv, NEW r \in Requests,
           \/ AuthorizeAuthor(r) \/ ReadHolder(r) \/ AuthorizeHolder(r)
           \/ VerifyMint(r) \/ CheckAuthor(r) \/ EstimateGas(r) \/ TakeNonce(r)
           \/ UploadMetadata(r) \/ CallFails(r)
    PROVE  AuthorInv'
<1> USE DEF GoTo, Replied, CheckedStages, walletVars, storeVars
<1>1. \A q \in Requests \ {r} : pc'[q] = pc[q]
    BY DEF AuthorizeAuthor, ReadHolder, AuthorizeHolder, VerifyMint, CheckAuthor, EstimateGas,
           TakeNonce, UploadMetadata, CallFails, TypeOK, RequestTypeOK
<1>2. UNCHANGED <<walletOf, transactorVars, creator, articles, arg, row>>
    BY DEF AuthorizeAuthor, ReadHolder, AuthorizeHolder, VerifyMint, GetAndReplaceNonceByID,
           CheckAuthor, EstimateGas, TakeNonce, UploadMetadata, CallFails
<1>3. /\ pc'[r] # "idle"
      /\ pc'[r] \in CheckedStages =>
            pc[r] \in CheckedStages \/ GetAddressByID(row[r].author) = arg[r].address
    BY DEF AuthorizeAuthor, ReadHolder, AuthorizeHolder, VerifyMint, CheckAuthor, EstimateGas,
           TakeNonce, UploadMetadata, CallFails, TypeOK, RequestTypeOK
<1> QED
    BY <1>1, <1>2, <1>3, HandlerKeepsAuthor

\* The copy that a handler takes has the author of its row.
LEMMA FindArticleAuthor ==
    ASSUME TypeOK, AuthorInv, NEW r \in Requests, FindArticle(r)
    PROVE  AuthorInv'
<1> USE DEF FindArticle, GoTo, Replied, CheckedStages, walletVars, storeVars
<1>1. arg[r] # NoRequest /\ arg[r].article \in Articles
    BY DEF TypeOK, StageOK, MintStages, MintRequest
<1>2. CASE articles[arg[r].article] = NoRow
    <2>1. /\ pc'[r] = "failed"
          /\ \A q \in Requests \ {r} : pc'[q] = pc[q]
        BY <1>2 DEF TypeOK, RequestTypeOK
    <2> QED
        BY <1>2, <2>1, HandlerKeepsAuthor
<1>3. CASE articles[arg[r].article] # NoRow
    <2>1. /\ pc'[r] = "found" /\ row'[r] = articles[arg[r].article]
          /\ \A q \in Requests \ {r} : pc'[q] = pc[q] /\ row'[q] = row[q]
        BY <1>3 DEF TypeOK, RequestTypeOK
    <2> QED
        BY <1>1, <2>1, LoadKeepsAuthor
<1> QED
    BY <1>2, <1>3

\* Writes of the articles table keep every author.
LEMMA TableWriteAuthor ==
    ASSUME TypeOK, AuthorInv, NEW r \in Requests,
           \/ SaveEdited(r) \/ DeleteRow(r) \/ SaveTokenized(r)
    PROVE  AuthorInv'
<1> DEFINE a == arg[r].article
<1> USE DEF GoTo, Replied, WriteRow
<1>1. /\ arg[r] # NoRequest /\ row[r] \in Row
      /\ pc'[r] \in Finished /\ \A q \in Requests \ {r} : pc'[q] = pc[q]
      /\ UNCHANGED <<walletOf, transactorVars, creator, arg, row>>
    BY DEF SaveEdited, DeleteRow, Finished, SaveTokenized, TypeOK, RequestTypeOK, StageOK, EditStages,
           MintStages, walletVars
<1>2. row[r].author = creator[a] /\ a \in Articles
    BY <1>1, ArgumentType DEF AuthorInv, RowsNameTheCreator
<1>3. \A b \in Articles : articles'[b] # NoRow => articles'[b].author = creator[b]
    <2>1. CASE SaveEdited(r)
        BY <1>2, <2>1 DEF SaveEdited, AuthorInv, RowsNameTheCreator, TypeOK, StoreTypeOK
    <2>2. CASE DeleteRow(r)
        BY <1>2, <2>2 DEF DeleteRow, AuthorInv, RowsNameTheCreator, TypeOK, StoreTypeOK
    <2>3. CASE SaveTokenized(r)
        <3> DEFINE new == [row[r] EXCEPT !.tokenized = TRUE]
        <3>1. new.author = row[r].author
            BY <1>1 DEF Row
        <3>2. articles' = IF articles[a] = NoRow THEN articles ELSE [articles EXCEPT ![a] = new]
            BY <2>3 DEF SaveTokenized
        <3> HIDE DEF new
        <3> QED
            BY <1>2, <3>1, <3>2 DEF AuthorInv, RowsNameTheCreator, TypeOK, StoreTypeOK
    <2> QED
        BY <2>1, <2>2, <2>3
<1> QED
    BY <1>1, <1>3 DEF AuthorInv, RowsNameTheCreator, IdleHoldsNothing, CheckedPaysTheAuthor,
                      CheckedStages, MintsPayTheAuthor, GetAddressByID, transactorVars, Finished

\* What is sent to the pool was compared with the author's wallet.
LEMMA SendMintAuthor ==
    ASSUME TypeOK, AuthorInv, NEW r \in Requests, SendMint(r)
    PROVE  AuthorInv'
<1> DEFINE tx == [to |-> arg[r].address, article |-> arg[r].article]
<1>1. /\ row[r] \in Row /\ arg[r] # NoRequest /\ arg[r].article \in Articles
      /\ pc[r] \in CheckedStages
    BY DEF SendMint, TypeOK, StageOK, MintStages, MintRequest, CheckedStages
<1>2. /\ creator[arg[r].article] # NoUser
      /\ GetAddressByID(creator[arg[r].article]) = arg[r].address
    BY <1>1 DEF AuthorInv, RowsNameTheCreator, CheckedPaysTheAuthor, Row
<1>3. \A s \in Slots : txs'[s] # NoTx => txs'[s] = txs[s] \/ txs'[s] = tx
    BY DEF SendMint, SendTransaction, transactorVars, TypeOK, TransactorTypeOK
<1>4. /\ pc'[r] # "idle" /\ \A q \in Requests \ {r} : pc'[q] = pc[q]
      /\ UNCHANGED <<walletOf, creator, articles, arg, row>>
    BY DEF SendMint, GoTo, Replied, TypeOK, RequestTypeOK, walletVars, storeVars
<1>5. MintsPayTheAuthor'
    <2> SUFFICES ASSUME NEW s \in Slots, txs'[s] # NoTx
                 PROVE  (/\ creator[txs[s].article] # NoUser
                         /\ GetAddressByID(creator[txs[s].article]) = txs[s].to)'
        BY DEF MintsPayTheAuthor
    <2>1. CASE txs'[s] = txs[s]
        BY <1>4, <2>1 DEF AuthorInv, MintsPayTheAuthor, GetAddressByID
    <2>2. CASE txs'[s] = tx
        BY <1>2, <1>4, <2>2 DEF GetAddressByID
    <2> QED
        BY <1>3, <2>1, <2>2
<1>6. RowsNameTheCreator' /\ IdleHoldsNothing' /\ CheckedPaysTheAuthor'
    BY <1>1, <1>4 DEF AuthorInv, RowsNameTheCreator, IdleHoldsNothing, CheckedPaysTheAuthor,
                      GetAddressByID
<1> QED
    BY <1>5, <1>6 DEF AuthorInv

\* No step breaks the authorship invariant.
LEMMA NextAuthor ==
    ASSUME TypeOK, AuthorInv, [Next]_vars
    PROVE  AuthorInv'
<1>1. CASE \E u \in Users, text \in AddressText : RegisterWallet(u, text)
    BY <1>1, RegisterWalletAuthor
<1>2. CASE \E u \in Users, a \in Articles, d \in Document : Create(u, a, d)
    BY <1>2, CreateAuthor
<1>3. CASE ChainStep
    BY <1>3, ChainStepAuthor
<1>4. ASSUME NEW r \in Requests, Begin(r) \/ Handle(r) \/ CallFails(r)
      PROVE  AuthorInv'
    BY <1>4, BeginAuthor, QuietHandlerAuthor, FindArticleAuthor, TableWriteAuthor,
       SendMintAuthor DEF Handle
<1>5. CASE UNCHANGED vars
    BY <1>5 DEF vars, walletVars, transactorVars, storeVars, requestVars, AuthorInv,
                RowsNameTheCreator, IdleHoldsNothing, CheckedPaysTheAuthor, MintsPayTheAuthor,
                GetAddressByID
<1> QED
    BY <1>1, <1>2, <1>3, <1>4, <1>5 DEF Next

\* AuthorInv holds throughout.
THEOREM AuthorshipKept == Spec => []AuthorInv
<1>1. Init => AuthorInv
    BY InitAuthor
<1>2. TypeOK /\ AuthorInv /\ [Next]_vars => AuthorInv'
    BY NextAuthor
<1> QED
    BY <1>1, <1>2, TypeCorrect, PTL DEF Spec

\* For any number of users, articles and requests, and any failures: a mint
\* transaction always pays the wallet of the article's creator.
THEOREM MintsPayTheAuthorAlways == Spec => []MintsPayTheAuthor
<1>1. AuthorInv => MintsPayTheAuthor
    BY DEF AuthorInv
<1> QED
    BY <1>1, AuthorshipKept, PTL
-----------------------------------------------------------------------------
(* Rows keep their identity. *)

IdentityKept ==
    \A a \in Articles :
        /\ creator[a] # NoUser => creator'[a] = creator[a]
        /\ creator[a] # NoUser /\ articles[a] = NoRow => articles'[a] = NoRow
        /\ articles'[a] # NoRow => articles'[a].author = creator'[a]

\* A created id is never used again, and an update, a delete or a mint writes a
\* row only where there is one.
LEMMA NextKeepsIdentity ==
    ASSUME TypeOK, AuthorInv, AuthorInv', [Next]_vars
    PROVE  IdentityKept
<1>1. \A a \in Articles : articles'[a] # NoRow => articles'[a].author = creator'[a]
    BY DEF AuthorInv, RowsNameTheCreator
<1>2. \A a \in Articles :
        /\ creator[a] # NoUser => creator'[a] = creator[a]
        /\ creator[a] # NoUser /\ articles[a] = NoRow => articles'[a] = NoRow
    <2>1. CASE \E u \in Users, a \in Articles, d \in Document : Create(u, a, d)
        BY <2>1 DEF Create, TypeOK, StoreTypeOK
    <2>2. ASSUME NEW r \in Requests, SaveEdited(r) \/ DeleteRow(r) \/ SaveTokenized(r)
          PROVE  /\ creator' = creator
                 /\ \A a \in Articles : articles[a] = NoRow => articles'[a] = NoRow
        BY <2>2 DEF SaveEdited, DeleteRow, SaveTokenized, WriteRow, TypeOK, StoreTypeOK
    <2>3. ASSUME NEW r \in Requests,
                 \/ AuthorizeAuthor(r) \/ ReadHolder(r) \/ AuthorizeHolder(r)
                 \/ VerifyMint(r) \/ FindArticle(r) \/ CheckAuthor(r)
                 \/ EstimateGas(r) \/ TakeNonce(r) \/ SendMint(r)
                 \/ UploadMetadata(r) \/ CallFails(r) \/ Begin(r)
          PROVE  UNCHANGED <<creator, articles>>
        BY <2>3 DEF AuthorizeAuthor, ReadHolder, AuthorizeHolder, VerifyMint, FindArticle,
                    CheckAuthor, EstimateGas, TakeNonce, SendMint, UploadMetadata, CallFails,
                    Begin, BeginUpdate, BeginDelete, BeginEdit, BeginMint, storeVars
    <2>4. CASE UNCHANGED <<creator, articles>>
        BY <2>4
    <2>5. CASE \/ \E u \in Users, text \in AddressText : RegisterWallet(u, text)
               \/ ChainStep
               \/ UNCHANGED vars
        BY <2>4, <2>5 DEF RegisterWallet, ChainStep, vars, storeVars
    <2> QED
        BY <2>1, <2>2, <2>3, <2>4, <2>5 DEF Next, Handle
<1> QED
    BY <1>1, <1>2 DEF IdentityKept

\* For any number of requests and any interleaving: a stale write never revives
\* a deleted article or gives an article to another author.
THEOREM RowsKeepIdentityAlways == Spec => RowsKeepIdentity
<1>1. TypeOK /\ AuthorInv /\ AuthorInv' /\ [Next]_vars => [IdentityKept]_vars
    BY NextKeepsIdentity
<1>2. RowsKeepIdentity <=> [][IdentityKept]_vars
    BY DEF RowsKeepIdentity, IdentityKept
<1> QED
    BY <1>1, <1>2, TypeCorrect, AuthorshipKept, PTL DEF Spec
-----------------------------------------------------------------------------
(* What a step leaves alone. *)

\* A request whose handler the step is not of keeps all a handler holds.
Stays(q) ==
    /\ pc'[q] = pc[q] /\ arg'[q] = arg[q] /\ caller'[q] = caller[q]
    /\ row'[q] = row[q] /\ holder'[q] = holder[q] /\ slot'[q] = slot[q]

\* A step is of one handler at most.
LEMMA OthersStay ==
    ASSUME TypeOK, NEW r \in Requests, Begin(r) \/ Handle(r) \/ CallFails(r)
    PROVE  \A q \in Requests \ {r} : Stays(q)
<1> USE DEF Stays, GoTo, Replied, TypeOK, RequestTypeOK
<1>1. CASE Begin(r)
    BY <1>1 DEF Begin, BeginUpdate, BeginDelete, BeginEdit, BeginMint
<1>2. CASE Handle(r)
    BY <1>2 DEF Handle, AuthorizeAuthor, ReadHolder, AuthorizeHolder, SaveEdited, DeleteRow,
                VerifyMint, FindArticle, CheckAuthor, EstimateGas, TakeNonce, SendMint,
                UploadMetadata, SaveTokenized
<1>3. CASE CallFails(r)
    BY <1>3 DEF CallFails
<1> QED
    BY <1>1, <1>2, <1>3

\* What goes on around the requests is of none.
LEMMA AllStay ==
    ASSUME UNCHANGED requestVars
    PROVE  \A q \in Requests : Stays(q)
BY DEF requestVars, Stays

\* A mint request is neither an update nor a delete.
LEMMA RequestKinds ==
    ASSUME NEW request
    PROVE  ~ (request \in MintRequest /\ request \in UpdateRequest \cup DeleteRequest)
<1>1. request \in MintRequest => request.op = "mint"
    BY DEF MintRequest
<1>2. request \in UpdateRequest \cup DeleteRequest => request.op \in {"update", "delete"}
    BY DEF UpdateRequest, DeleteRequest
<1> QED
    BY <1>1, <1>2

-----------------------------------------------------------------------------
(* Nonces.  That two accepted requests differ in their nonces follows from  *)
(* where a nonce is: in the table, or spent, and never in both.             *)

\* The user a mint is for was found by the account of the request.
CallersHaveTheirWallets ==
    \A r \in Requests : pc[r] \in MintStages => walletOf[caller[r]] = String(arg[r].address)

\* A mint has no row before the transaction's snapshot.
NoRowBeforeTheSnapshot ==
    \A r \in Requests : pc[r] \in {"idle", "identified", "verified"} => row[r] = NoRow

\* A mint request whose signature was accepted.
Spent(r) ==
    /\ arg[r] \in MintRequest
    /\ pc[r] \in MintStages \ {"identified"} \/ row[r] # NoRow

\* A nonce that was spent has been issued, is no user's and nobody else's.
SpentNoncesAreGone ==
    \A r \in Requests : Spent(r) =>
        /\ arg[r].nonce \in 1..issued
        /\ \A u \in Users : nonceOf[u] # arg[r].nonce
        /\ \A q \in Requests \ {r} : Spent(q) => arg[r].nonce # arg[q].nonce

NonceInv ==
    /\ RegistryInv
    /\ CallersHaveTheirWallets
    /\ NoRowBeforeTheSnapshot
    /\ SpentNoncesAreGone

\* Nothing is spent at the start.
LEMMA InitNonce == Init => NonceInv
BY InitialRegistry DEF Init, NonceInv, CallersHaveTheirWallets, NoRowBeforeTheSnapshot,
       SpentNoncesAreGone, Spent, MintStages

\* A registration issues a nonce above all that were spent.
LEMMA RegisterWalletNonce ==
    ASSUME TypeOK, NonceInv, NEW u \in Users, NEW text \in AddressText, RegisterWallet(u, text)
    PROVE  NonceInv'
<1> USE DEF NonceInv, RegisterWallet, requestVars
<1>1. RegistryInv'
    BY PutKeepsRegistry
<1>2. CallersHaveTheirWallets'
    <2> SUFFICES ASSUME NEW r \in Requests, pc[r] \in MintStages
                 PROVE  walletOf'[caller[r]] = String(arg[r].address)
        BY DEF CallersHaveTheirWallets
    <2>1. caller[r] \in Users /\ arg[r].address \in Accounts
        BY DEF TypeOK, StageOK, MintRequest
    <2>2. walletOf[caller[r]] # NoAddress
        BY <2>1, StringType DEF CallersHaveTheirWallets
    <2> QED
        BY <2>1, <2>2, WalletStays DEF TypeOK, CallersHaveTheirWallets
<1>3. /\ issued' = issued + 1
      /\ nonceOf' = [nonceOf EXCEPT ![u] = issued + 1]
    BY PutUserWalletItems DEF TypeOK
<1>4. SpentNoncesAreGone'
    BY <1>3 DEF SpentNoncesAreGone, Spent, TypeOK, WalletTypeOK
<1> QED
    BY <1>1, <1>2, <1>4 DEF NoRowBeforeTheSnapshot

\* A step that leaves the table alone spends nothing.
LEMMA QuietNonce ==
    ASSUME TypeOK, NonceInv, UNCHANGED walletVars,
           \A r \in Requests :
                /\ pc'[r] \in MintStages => walletOf[caller'[r]] = String(arg'[r].address)
                /\ pc'[r] \in {"idle", "identified", "verified"} => row'[r] = NoRow
                /\ Spent(r)' => Spent(r) /\ arg'[r] = arg[r]
    PROVE  NonceInv'
<1>1. RegistryInv'
    BY UnchangedRegistry DEF NonceInv
<1>2. SpentNoncesAreGone'
    BY DEF NonceInv, SpentNoncesAreGone, walletVars
<1> QED
    BY <1>1, <1>2 DEF NonceInv, CallersHaveTheirWallets, NoRowBeforeTheSnapshot, walletVars

\* The nonce of the user's that the signature was compared with is spent by it.
LEMMA VerifyMintNonce ==
    ASSUME TypeOK, NonceInv, NEW r \in Requests, VerifyMint(r)
    PROVE  NonceInv'
<1> DEFINE u == caller[r]
<1> USE DEF NonceInv
<1>1. u \in Users /\ arg[r] \in MintRequest /\ arg[r].address \in Accounts /\ row[r] = NoRow
    BY DEF VerifyMint, TypeOK, StageOK, MintStages, MintRequest, NoRowBeforeTheSnapshot
<1>2. walletOf[u] # NoAddress
    BY <1>1, StringType DEF VerifyMint, MintStages, CallersHaveTheirWallets
<1>3. RegistryInv'
    BY <1>1, <1>2, ReplaceKeepsRegistry DEF VerifyMint
<1>4. /\ issued' = issued + 1
      /\ nonceOf' = [nonceOf EXCEPT ![u] = issued + 1]
      /\ UNCHANGED <<walletOf, arg, caller, row>>
      /\ pc'[r] = "failed" \/ (pc'[r] = "verified" /\ SignatureIsValid(r))
      /\ \A q \in Requests \ {r} : pc'[q] = pc[q]
    BY DEF VerifyMint, GetAndReplaceNonceByID, GoTo, Replied, TypeOK, RequestTypeOK
<1>5. CallersHaveTheirWallets' /\ NoRowBeforeTheSnapshot'
    BY <1>1, <1>4 DEF CallersHaveTheirWallets, NoRowBeforeTheSnapshot, VerifyMint, MintStages
<1>6. \A q \in Requests \ {r} : Spent(q)' <=> Spent(q)
    BY <1>4 DEF Spent
<1>7. /\ nonceOf[u] \in 1..issued
      /\ \A v \in Users : v # u => nonceOf[v] # nonceOf[u]
    BY <1>1, <1>2 DEF RegistryInv, NoncesWereIssued, NoncesFollowWallets, TypeOK, WalletTypeOK
<1>8. Spent(r)' => arg[r].nonce = nonceOf[u]
    BY <1>1, <1>4 DEF Spent, SignatureIsValid, MintStages
<1> HIDE DEF u
<1>9. SpentNoncesAreGone'
    BY <1>1, <1>4, <1>6, <1>7, <1>8 DEF SpentNoncesAreGone, TypeOK, WalletTypeOK
<1> QED
    BY <1>3, <1>5, <1>9

\* A mint that begins is for the user found by its account, and an edit is no mint.
LEMMA BeginNonce ==
    ASSUME TypeOK, NonceInv, NEW r \in Requests, Begin(r)
    PROVE  NonceInv'
<1> USE DEF Begin, BeginUpdate, BeginDelete, BeginEdit, BeginMint, GoTo, Replied
<1>1. row[r] = NoRow
    BY DEF NonceInv, NoRowBeforeTheSnapshot
<1>2. /\ UNCHANGED walletVars
      /\ \A q \in Requests \ {r} : Stays(q)
    BY OthersStay
<1>3. CASE arg'[r] \in MintRequest
    <2>1. PICK a \in Articles, address \in Accounts, signer \in Accounts, nonce \in 1..issued :
                BeginMint(r, a, address, signer, nonce)
        BY <1>3 DEF TypeOK, RequestTypeOK, MintRequest, UpdateRequest, DeleteRequest
    <2>2. /\ arg'[r].address = address /\ caller'[r] = GetIDByAddress(address)
          /\ pc'[r] = IF GetIDByAddress(address) = NoUser THEN "failed" ELSE "identified"
          /\ row'[r] = NoRow
        BY <1>1, <2>1 DEF TypeOK, RequestTypeOK
    <2>3. pc'[r] \in MintStages => walletOf[caller'[r]] = String(arg'[r].address)
        BY <2>2, FoundUserHasTheWallet DEF NonceInv, MintStages
    <2>4. ~ Spent(r)'
        BY <2>2 DEF Spent, MintStages
    <2> QED
        BY <1>2, <2>2, <2>3, <2>4, QuietNonce DEF NonceInv, Stays, CallersHaveTheirWallets,
           NoRowBeforeTheSnapshot, Spent
<1>4. CASE arg'[r] \notin MintRequest
    <2>1. pc'[r] \in {"loaded", "failed"}
        BY <1>4 DEF TypeOK, RequestTypeOK, WalletTypeOK, MintRequest
    <2> QED
        BY <1>2, <1>4, <2>1, QuietNonce DEF NonceInv, Stays, CallersHaveTheirWallets,
           NoRowBeforeTheSnapshot, Spent, MintStages
<1> QED
    BY <1>3, <1>4

\* The other steps of a handler: the row is loaded by a request that has spent.
LEMMA HandlerNonce ==
    ASSUME TypeOK, NonceInv, NEW r \in Requests, Handle(r) \/ CallFails(r), ~VerifyMint(r)
    PROVE  NonceInv'
<1>1. /\ UNCHANGED <<walletVars, arg, caller>>
      /\ \A q \in Requests \ {r} : Stays(q)
    BY OthersStay DEF Handle, AuthorizeAuthor, ReadHolder, AuthorizeHolder, SaveEdited, DeleteRow,
       FindArticle, CheckAuthor, EstimateGas, TakeNonce, SendMint, UploadMetadata,
       SaveTokenized, CallFails
<1>2. /\ pc'[r] \in MintStages => pc[r] \in MintStages /\ pc'[r] # "identified"
      /\ pc'[r] \notin {"idle", "identified", "verified"}
      /\ row'[r] # row[r] => pc[r] = "verified"
      /\ pc'[r] \in MintStages => pc[r] # "identified"
    BY DEF Handle, AuthorizeAuthor, ReadHolder, AuthorizeHolder, SaveEdited, DeleteRow,
       FindArticle, CheckAuthor, EstimateGas, TakeNonce, SendMint, UploadMetadata,
       SaveTokenized, CallFails, GoTo, Replied, TypeOK, RequestTypeOK, MintStages
<1>3. Spent(r)' => Spent(r)
    BY <1>1, <1>2 DEF Spent, MintStages
<1> QED
    BY <1>1, <1>2, <1>3, QuietNonce DEF NonceInv, Stays, CallersHaveTheirWallets,
       NoRowBeforeTheSnapshot, Spent

\* No step breaks the invariant.
LEMMA NextNonce ==
    ASSUME TypeOK, NonceInv, [Next]_vars
    PROVE  NonceInv'
<1>1. CASE \E u \in Users, text \in AddressText : RegisterWallet(u, text)
    BY <1>1, RegisterWalletNonce
<1>2. ASSUME NEW r \in Requests, Begin(r) \/ Handle(r) \/ CallFails(r)
      PROVE  NonceInv'
    BY <1>2, BeginNonce, HandlerNonce, VerifyMintNonce
<1>3. ASSUME UNCHANGED walletVars, UNCHANGED requestVars
      PROVE  NonceInv'
    BY <1>3, AllStay, QuietNonce DEF NonceInv, Stays, CallersHaveTheirWallets,
       NoRowBeforeTheSnapshot, Spent
<1> QED
    BY <1>1, <1>2, <1>3 DEF Next, Create, ChainStep, vars

\* The wallet table keeps its promises under the services, and a nonce is in the
\* table or spent, never both.
THEOREM NoncesKept == Spec => []NonceInv
<1>1. TypeOK /\ NonceInv /\ [Next]_vars => NonceInv'
    BY NextNonce
<1> QED
    BY InitNonce, <1>1, TypeCorrect, PTL DEF Spec

\* Replay protection, for any number of requests and any interleaving: one
\* signature lets one mint in.
THEOREM NonceSpentOnceAlways == Spec => []NonceSpentOnce
<1>1. TypeOK /\ NonceInv => NonceSpentOnce
    BY DEF NonceInv, SpentNoncesAreGone, Spent, NonceSpentOnce, Accepted
<1> QED
    BY <1>1, NoncesKept, TypeCorrect, PTL

-----------------------------------------------------------------------------
(* Who edits. *)

\* What was decided about an edit, from what its handler holds.
Entitled(r) ==
    IF row[r].tokenized
    THEN holder[r] \in Accounts /\ GetAddressByID(caller[r]) = holder[r]
    ELSE caller[r] = creator[arg[r].article]

\* An edit is a user's, and one whose holder was read has a tokenized row.
EditorInv ==
    /\ \A r \in Requests : arg[r] \in UpdateRequest \cup DeleteRequest => caller[r] \in Users
    /\ \A r \in Requests : pc[r] = "holderRead" => row[r].tokenized
    /\ EditorsAreEntitled

\* The steps of other requests and of the stores keep what was decided: a
\* registered wallet and the creator of an article never change.
LEMMA EntitledStays ==
    ASSUME TypeOK, AuthorInv, EditorInv, NEW q \in Requests, Stays(q),
           \A v : GetAddressByID(v) # ZeroAddress => GetAddressByID(v)' = GetAddressByID(v),
           \A a \in Articles : creator[a] # NoUser => creator'[a] = creator[a]
    PROVE  /\ arg'[q] \in UpdateRequest \cup DeleteRequest => caller'[q] \in Users
           /\ pc'[q] = "holderRead" => row'[q].tokenized
           /\ pc'[q] \in {"authorized", "done"} /\ arg'[q] \in UpdateRequest \cup DeleteRequest
                => Entitled(q)'
<1> USE DEF EditorInv, Stays
<1>1. ASSUME pc[q] \in {"authorized", "done"}, arg[q] \in UpdateRequest \cup DeleteRequest
      PROVE  Entitled(q)'
    <2>1. caller[q] \in Users /\ Entitled(q) /\ arg[q].article \in Articles
        BY <1>1, ArgumentType, RequestAssumption DEF EditorsAreEntitled, Entitled
    <2>2. CASE row[q].tokenized
        BY <2>1, <2>2, AccountAssumption DEF Entitled
    <2>3. CASE ~row[q].tokenized
        BY <2>1, <2>3, UserAssumption DEF Entitled
    <2> QED
        BY <2>2, <2>3
<1> QED
    BY <1>1

\* At the start nobody edits.
LEMMA InitEditor == Init => EditorInv
BY DEF Init, EditorInv, EditorsAreEntitled

\* Of the step of one handler, what it decides is what remains to be shown.
LEMMA HandlerEditor ==
    ASSUME TypeOK, AuthorInv, EditorInv, NEW r \in Requests,
           \A q \in Requests \ {r} : Stays(q),
           UNCHANGED <<walletOf, creator>>,
           arg'[r] \in UpdateRequest \cup DeleteRequest => caller'[r] \in Users,
           pc'[r] = "holderRead" => row'[r].tokenized,
           pc'[r] \in {"authorized", "done"} /\ arg'[r] \in UpdateRequest \cup DeleteRequest
                => Entitled(r)'
    PROVE  EditorInv'
<1>1. \A v : GetAddressByID(v)' = GetAddressByID(v)
    BY DEF GetAddressByID
<1>2. \A q \in Requests \ {r} :
        /\ arg'[q] \in UpdateRequest \cup DeleteRequest => caller'[q] \in Users
        /\ pc'[q] = "holderRead" => row'[q].tokenized
        /\ pc'[q] \in {"authorized", "done"} /\ arg'[q] \in UpdateRequest \cup DeleteRequest
                => Entitled(q)'
    BY <1>1, EntitledStays
<1> QED
    BY <1>2 DEF EditorInv, EditorsAreEntitled, Entitled

\* A request that begins has not been let in.
LEMMA BeginEditor ==
    ASSUME TypeOK, AuthorInv, EditorInv, NEW r \in Requests, Begin(r)
    PROVE  EditorInv'
<1>1. /\ \A q \in Requests \ {r} : Stays(q)
      /\ UNCHANGED <<walletOf, creator>>
    BY OthersStay DEF Begin, BeginUpdate, BeginDelete, BeginEdit, BeginMint, walletVars, storeVars
<1>2. pc'[r] \in {"loaded", "identified", "failed"}
    BY DEF Begin, BeginUpdate, BeginDelete, BeginEdit, BeginMint, GoTo, TypeOK, RequestTypeOK
<1>3. arg'[r] \in UpdateRequest \cup DeleteRequest => caller'[r] \in Users
    <2>1. ASSUME NEW a \in Articles, NEW address \in Accounts, NEW signer \in Accounts,
                 NEW nonce \in 1..issued, BeginMint(r, a, address, signer, nonce)
          PROVE  arg'[r] \in MintRequest
        BY <2>1 DEF BeginMint, TypeOK, RequestTypeOK, WalletTypeOK, MintRequest
    <2> QED
        BY <2>1, RequestKinds DEF Begin, BeginUpdate, BeginDelete, BeginEdit, TypeOK, RequestTypeOK
<1> QED
    BY <1>1, <1>2, <1>3, HandlerEditor

\* A handler lets the author in, or the user whose wallet is the account read.
LEMMA AuthorizeEditor ==
    ASSUME TypeOK, AuthorInv, EditorInv, RegistryInv, NEW r \in Requests,
           AuthorizeAuthor(r) \/ ReadHolder(r) \/ AuthorizeHolder(r)
    PROVE  EditorInv'
<1> USE DEF AuthorizeAuthor, ReadHolder, AuthorizeHolder, GoTo, Replied
<1>1. /\ \A q \in Requests \ {r} : Stays(q)
      /\ UNCHANGED <<walletOf, creator, arg, caller, row>>
    BY OthersStay DEF Handle, walletVars, storeVars
<1>2. /\ arg[r] \in UpdateRequest \cup DeleteRequest /\ caller[r] \in Users
      /\ row[r] \in Row /\ holder[r] \in Accounts \cup {ZeroAddress}
      /\ row[r].author = creator[arg[r].article]
    BY DEF TypeOK, StageOK, EditStages, RequestTypeOK, AuthorInv, RowsNameTheCreator
<1>3. CASE AuthorizeAuthor(r)
    BY <1>1, <1>2, <1>3, HandlerEditor DEF TypeOK, RequestTypeOK, Entitled
<1>4. CASE ReadHolder(r)
    <2>1. pc'[r] = "holderRead"
        BY <1>4 DEF TypeOK, RequestTypeOK
    <2> QED
        BY <1>1, <1>2, <1>4, <2>1, HandlerEditor
<1>5. CASE AuthorizeHolder(r)
    <2>1. /\ holder' = holder /\ row[r].tokenized
          /\ pc'[r] = IF caller[r] = GetIDByAddress(holder[r]) THEN "authorized" ELSE "failed"
        BY <1>5 DEF TypeOK, RequestTypeOK, EditorInv
    <2>2. pc'[r] = "authorized" => holder[r] \in Accounts /\ GetAddressByID(caller[r]) = holder[r]
        BY <1>2, <2>1, FoundUserHasTheWallet
    <2>3. GetAddressByID(caller[r])' = GetAddressByID(caller[r])
        BY <1>1 DEF GetAddressByID
    <2>4. pc'[r] = "authorized" => Entitled(r)'
        BY <1>1, <2>1, <2>2, <2>3 DEF Entitled
    <2> QED
        BY <1>1, <1>2, <2>1, <2>4, HandlerEditor
<1> QED
    BY <1>3, <1>4, <1>5

\* An edit is written by a request that was let in, and a mint edits nothing.
LEMMA WriteEditor ==
    ASSUME TypeOK, AuthorInv, EditorInv, NEW r \in Requests, Handle(r) \/ CallFails(r),
           ~ (AuthorizeAuthor(r) \/ ReadHolder(r) \/ AuthorizeHolder(r))
    PROVE  EditorInv'
<1> USE DEF Handle, SaveEdited, DeleteRow, VerifyMint, FindArticle, CheckAuthor, EstimateGas,
            TakeNonce, SendMint, UploadMetadata, SaveTokenized, CallFails, GoTo, Replied
<1>1. /\ \A q \in Requests \ {r} : Stays(q)
      /\ UNCHANGED <<walletOf, creator, arg, caller, holder>>
    BY OthersStay DEF GetAndReplaceNonceByID, walletVars, storeVars
<1>2. /\ pc'[r] # "holderRead" /\ pc'[r] # "authorized"
      /\ pc'[r] = "done" => \/ pc[r] = "authorized" /\ row' = row
                            \/ pc[r] = "uploaded"
    BY DEF TypeOK, RequestTypeOK
<1>3. pc[r] = "uploaded" => arg[r] \notin UpdateRequest \cup DeleteRequest
    BY RequestKinds DEF TypeOK, StageOK, MintStages
<1>4. arg[r] \in UpdateRequest \cup DeleteRequest => caller[r] \in Users
    BY DEF EditorInv
<1>5. ASSUME pc[r] = "authorized", row' = row, arg[r] \in UpdateRequest \cup DeleteRequest
      PROVE  Entitled(r)'
    <2>1. GetAddressByID(caller[r])' = GetAddressByID(caller[r])
        BY <1>1 DEF GetAddressByID
    <2> QED
        BY <1>1, <1>5, <2>1 DEF EditorInv, EditorsAreEntitled, Entitled
<1> HIDE DEF Handle, SaveEdited, DeleteRow, VerifyMint, FindArticle, CheckAuthor, EstimateGas,
            TakeNonce, SendMint, UploadMetadata, SaveTokenized, CallFails, GoTo, Replied
<1> QED
    BY <1>1, <1>2, <1>3, <1>4, <1>5, HandlerEditor

\* What goes on around the requests.
LEMMA SystemEditor ==
    ASSUME TypeOK, AuthorInv, EditorInv, UNCHANGED requestVars,
           \/ \E u \in Users, text \in AddressText : RegisterWallet(u, text)
           \/ \E u \in Users, a \in Articles, d \in Document : Create(u, a, d)
           \/ UNCHANGED <<walletOf, creator>>
    PROVE  EditorInv'
<1>1. \A v : GetAddressByID(v) # ZeroAddress => GetAddressByID(v)' = GetAddressByID(v)
    <2>1. CASE \E u \in Users, text \in AddressText : RegisterWallet(u, text)
        BY <2>1, AddressStays DEF RegisterWallet, TypeOK
    <2>2. CASE UNCHANGED walletOf
        BY <2>2 DEF GetAddressByID
    <2> QED
        BY <2>1, <2>2 DEF Create, walletVars
<1>2. \A a \in Articles : creator[a] # NoUser => creator'[a] = creator[a]
    BY DEF RegisterWallet, Create, storeVars, TypeOK, StoreTypeOK
<1> QED
    BY <1>1, <1>2, AllStay, EntitledStays DEF EditorInv, EditorsAreEntitled, Entitled

\* No step breaks the invariant.
LEMMA NextEditor ==
    ASSUME TypeOK, AuthorInv, RegistryInv, EditorInv, [Next]_vars
    PROVE  EditorInv'
<1>1. ASSUME NEW r \in Requests, Begin(r) \/ Handle(r) \/ CallFails(r)
      PROVE  EditorInv'
    BY <1>1, BeginEditor, AuthorizeEditor, WriteEditor
<1>2. ASSUME UNCHANGED requestVars,
             \/ \E u \in Users, text \in AddressText : RegisterWallet(u, text)
             \/ \E u \in Users, a \in Articles, d \in Document : Create(u, a, d)
             \/ UNCHANGED <<walletOf, creator>>
      PROVE  EditorInv'
    BY <1>2, SystemEditor
<1> QED
    BY <1>1, <1>2 DEF Next, RegisterWallet, Create, ChainStep, vars, walletVars, storeVars

\* For any interleaving with mints, transfers and registrations: an edit that is
\* written was entitled to it by what its handler was told.
THEOREM EditorsAreEntitledAlways == Spec => []EditorsAreEntitled
<1>1. TypeOK /\ AuthorInv /\ NonceInv /\ EditorInv /\ [Next]_vars => EditorInv'
    BY NextEditor DEF NonceInv
<1>2. EditorInv => EditorsAreEntitled
    BY DEF EditorInv
<1> QED
    BY InitEditor, <1>1, <1>2, TypeCorrect, AuthorshipKept, NoncesKept, PTL DEF Spec

-----------------------------------------------------------------------------
(* The contract and the flag. *)

\* A mint gives an article without a token the newest one.
LEMMA MintMatches ==
    ASSUME ContractTypeOK, TokensMatchArticles, NEW to, NEW a \in Articles, mintNFT(to, a)
    PROVE  TokensMatchArticles'
<1>1. /\ tokenIdOf[a] = 0
      /\ tokenIds' = tokenIds + 1
      /\ tokenIdOf' = [tokenIdOf EXCEPT ![a] = tokenIds + 1]
      /\ tokenURI' = [t \in 1..(tokenIds + 1) |-> IF t = tokenIds + 1 THEN a ELSE tokenURI[t]]
    BY DEF mintNFT, MintReverts, MintToken
<1>2. ASSUME NEW b \in Articles, tokenIdOf'[b] # 0
      PROVE  tokenURI'[tokenIdOf'[b]] = b
    BY <1>1, <1>2 DEF ContractTypeOK, TokensMatchArticles
<1>3. ASSUME NEW t \in 1..(tokenIds + 1)
      PROVE  tokenIdOf'[tokenURI'[t]] = t
    <2>1. CASE t = tokenIds + 1
        BY <1>1, <2>1 DEF ContractTypeOK
    <2>2. CASE t # tokenIds + 1
        <3>1. t \in Tokens /\ tokenURI'[t] = tokenURI[t]
            BY <1>1, <2>2 DEF Tokens, ContractTypeOK
        <3>2. tokenIdOf[tokenURI[t]] = t /\ tokenURI[t] \in Articles /\ t # 0
            BY <3>1 DEF ContractTypeOK, TokensMatchArticles, Tokens
        <3> QED
            BY <1>1, <3>1, <3>2 DEF ContractTypeOK
    <2> QED
        BY <2>1, <2>2
<1> QED
    BY <1>1, <1>2, <1>3 DEF TokensMatchArticles, Tokens

\* Nothing but a mint touches the tables that join tokens and articles.
LEMMA NextTokens ==
    ASSUME TypeOK, TokensMatchArticles, [Next]_vars
    PROVE  TokensMatchArticles'
<1>1. CASE UNCHANGED <<tokenIds, tokenIdOf, tokenURI>>
    BY <1>1 DEF TokensMatchArticles, Tokens
<1>2. CASE MineNext
    <2> PICK s \in Slots :
            /\ s = mined + 1 /\ txs[s] # NoTx
            /\ \/ mintNFT(txs[s].to, txs[s].article)
               \/ UNCHANGED contractVars
        BY <1>2 DEF MineNext
    <2>1. txs[s].article \in Articles
        BY DEF TypeOK, TransactorTypeOK, Transaction
    <2> QED
        BY <1>1, <2>1, MintMatches DEF TypeOK, contractVars
<1>3. ASSUME NEW t \in Tokens, NEW to \in Accounts, TransferToken(t, to)
      PROVE  UNCHANGED <<tokenIds, tokenIdOf, tokenURI>>
    BY <1>3 DEF TransferToken
<1>4. CASE ChainStep
    BY <1>1, <1>2, <1>3, <1>4 DEF ChainStep, contractVars
<1>5. ASSUME NEW r \in Requests, Begin(r) \/ Handle(r) \/ CallFails(r)
      PROVE  UNCHANGED <<tokenIds, tokenIdOf, tokenURI>>
    BY <1>5 DEF Begin, BeginUpdate, BeginDelete, BeginEdit, BeginMint, Handle, AuthorizeAuthor,
       ReadHolder, AuthorizeHolder, SaveEdited, DeleteRow, VerifyMint, FindArticle, CheckAuthor,
       EstimateGas, TakeNonce, SendMint, UploadMetadata, SaveTokenized, CallFails, contractVars
<1> QED
    BY <1>1, <1>4, <1>5 DEF Next, RegisterWallet, Create, vars, contractVars

\* One token for an article and one article for a token, however many mint
\* transactions for an article the server sends and the chain executes.
THEOREM TokensMatchArticlesAlways == Spec => []TokensMatchArticles
<1>1. Init => TokensMatchArticles
    BY DEF Init, ContractInit, TokensMatchArticles, Tokens
<1>2. TypeOK /\ TokensMatchArticles /\ [Next]_vars => TokensMatchArticles'
    BY NextTokens
<1> QED
    BY <1>1, <1>2, TypeCorrect, PTL DEF Spec

\* A token's article was created.
TokensNameCreated == \A a \in Articles : tokenIdOf[a] # 0 => creator[a] # NoUser

\* A request's handler touches neither the contract nor anyone's wallet.
LEMMA RequestsLeaveTheRest ==
    ASSUME NEW r \in Requests, Begin(r) \/ Handle(r) \/ CallFails(r)
    PROVE  UNCHANGED <<contractVars, walletOf>>
BY DEF Begin, BeginUpdate, BeginDelete, BeginEdit, BeginMint, Handle, AuthorizeAuthor,
   ReadHolder, AuthorizeHolder, SaveEdited, DeleteRow, VerifyMint, GetAndReplaceNonceByID,
   FindArticle, CheckAuthor, EstimateGas, TakeNonce, SendMint, UploadMetadata, SaveTokenized,
   CallFails, walletVars

\* The chain mints only what a handler that had the article's row sent.
LEMMA NextTokensNameCreated ==
    ASSUME TypeOK, AuthorInv, AuthorInv', TokensNameCreated, [Next]_vars
    PROVE  TokensNameCreated'
<1>1. \A a \in Articles : creator[a] # NoUser => creator'[a] # NoUser
    BY NextKeepsIdentity DEF IdentityKept
<1>2. ASSUME NEW a \in Articles, tokenIdOf'[a] # 0, tokenIdOf'[a] # tokenIdOf[a]
      PROVE  creator[a] # NoUser
    <2>1. MineNext
        BY <1>2, RequestsLeaveTheRest DEF Next, RegisterWallet, Create, ChainStep, TransferToken,
           vars, contractVars
    <2> PICK s \in Slots :
            /\ txs[s] # NoTx
            /\ mintNFT(txs[s].to, txs[s].article) \/ UNCHANGED contractVars
        BY <2>1 DEF MineNext
    <2>2. tokenIdOf' = [tokenIdOf EXCEPT ![txs[s].article] = tokenIds + 1]
        BY <1>2 DEF mintNFT, MintToken, contractVars
    <2>3. a = txs[s].article
        BY <1>2, <2>2 DEF TypeOK, ContractTypeOK
    <2> QED
        BY <2>3 DEF AuthorInv, MintsPayTheAuthor
<1> QED
    BY <1>1, <1>2 DEF TokensNameCreated

\* So only created articles ever have tokens.
THEOREM TokensNameCreatedAlways == Spec => []TokensNameCreated
<1>1. Init => TokensNameCreated
    BY DEF Init, ContractInit, TokensNameCreated
<1>2. TypeOK /\ AuthorInv /\ AuthorInv' /\ TokensNameCreated /\ [Next]_vars => TokensNameCreated'
    BY NextTokensNameCreated
<1> QED
    BY <1>1, <1>2, TypeCorrect, AuthorshipKept, PTL DEF Spec

\* Once a user has an account, every lookup finds that one.
LEMMA NextAddressStays ==
    ASSUME TypeOK, [Next]_vars, NEW v, GetAddressByID(v) # ZeroAddress
    PROVE  GetAddressByID(v)' = GetAddressByID(v)
<1>1. CASE \E u \in Users, text \in AddressText : RegisterWallet(u, text)
    BY <1>1, AddressStays DEF RegisterWallet, TypeOK
<1>2. CASE UNCHANGED walletOf
    BY <1>2 DEF GetAddressByID
<1> QED
    BY <1>1, <1>2, RequestsLeaveTheRest DEF Next, Create, ChainStep, vars, walletVars

-----------------------------------------------------------------------------
\* A mint of the article has run to its end, and left metadata.
MintCompleted(a) == a \in metadata /\ \E r \in Requests : Completed(r) /\ arg[r].article = a

\* The flag is only ever copied from a row that has it, or set after the upload.
FlagInv ==
    /\ FlagMeansCompletedMint
    /\ \A r \in Requests : pc[r] = "uploaded" => arg[r].article \in metadata

\* A row a step has written or loaded that is tokenized was tokenized before, or
\* its mint is complete with the step.
LEMMA FlagSpreads ==
    ASSUME TypeOK, FlagInv,
           metadata \subseteq metadata',
           \A r \in Requests : Completed(r) =>
                pc'[r] = pc[r] /\ arg'[r] = arg[r] /\ slot'[r] = slot[r],
           \A a \in Articles : articles'[a] # NoRow /\ articles'[a].tokenized =>
                \/ MintCompleted(a) \/ MintCompleted(a)',
           \A r \in Requests : row'[r] # NoRow /\ row'[r].tokenized /\ arg'[r].article \in Articles =>
                MintCompleted(arg'[r].article),
           \A r \in Requests : pc'[r] = "uploaded" => arg'[r].article \in metadata'
    PROVE  FlagInv'
<1>1. \A a \in Articles : MintCompleted(a) => MintCompleted(a)'
    BY DEF MintCompleted, Completed
<1> QED
    BY <1>1 DEF FlagInv, FlagMeansCompletedMint, MintCompleted

\* Every handler, request and store.
LEMMA NextFlag ==
    ASSUME TypeOK, AuthorInv, FlagInv, [Next]_vars
    PROVE  FlagInv'
<1>0. articles \in [Articles -> Row \cup {NoRow}]
    BY DEF TypeOK, StoreTypeOK
<1>1. \A a \in Articles : articles[a] # NoRow /\ articles[a].tokenized => MintCompleted(a)
    BY DEF FlagInv, FlagMeansCompletedMint, MintCompleted
<1>2. \A r \in Requests : row[r] # NoRow /\ row[r].tokenized /\ arg[r].article \in Articles =>
            MintCompleted(arg[r].article)
    BY DEF FlagInv, FlagMeansCompletedMint, MintCompleted
<1>3. ASSUME UNCHANGED <<requestVars, metadata>>,
             \A a \in Articles : articles'[a] = articles[a]
                                 \/ (articles'[a] # NoRow /\ ~articles'[a].tokenized)
      PROVE  FlagInv'
    BY <1>1, <1>2, <1>3, FlagSpreads DEF requestVars, Completed, FlagInv
<1>4. ASSUME NEW u \in Users, NEW a \in Articles, NEW d \in Document, Create(u, a, d)
      PROVE  FlagInv'
    <2> DEFINE new == [author |-> u, tokenized |-> FALSE]
    <2>1. new \in Row /\ ~new.tokenized
        BY DEF Row
    <2>2. UNCHANGED <<requestVars, metadata>> /\ articles' = [articles EXCEPT ![a] = new]
        BY <1>4 DEF Create
    <2> HIDE DEF new
    <2>3. \A b \in Articles : articles'[b] = articles[b]
                             \/ (articles'[b] # NoRow /\ ~articles'[b].tokenized)
        BY ONLY <1>0, <2>1, <2>2, RowAssumption, a \in Articles
    <2> QED
        BY <1>3, <2>2, <2>3
<1>5. ASSUME NEW r \in Requests, Begin(r) \/ Handle(r) \/ CallFails(r)
      PROVE  FlagInv'
    <2>1. \A q \in Requests \ {r} : Stays(q)
        BY <1>5, OthersStay
    <2>2. ~Completed(r)
        BY <1>5 DEF Completed, Begin, BeginUpdate, BeginDelete, BeginEdit, BeginMint, Handle,
           AuthorizeAuthor, ReadHolder, AuthorizeHolder, SaveEdited, DeleteRow, VerifyMint,
           FindArticle, CheckAuthor, EstimateGas, TakeNonce, SendMint, UploadMetadata,
           SaveTokenized, CallFails, InFlight, EditStages, MintStages, Finished
    <2>3. ASSUME metadata \subseteq metadata',
                 \A a \in Articles : articles'[a] # NoRow /\ articles'[a].tokenized =>
                        MintCompleted(a) \/ MintCompleted(a)',
                 row'[r] # NoRow /\ row'[r].tokenized /\ arg'[r].article \in Articles =>
                        MintCompleted(arg'[r].article),
                 pc'[r] = "uploaded" => arg'[r].article \in metadata'
          PROVE  FlagInv'
        <3>1. \A q \in Requests \ {r} : pc'[q] = "uploaded" => arg'[q].article \in metadata'
            BY <2>1, <2>3 DEF Stays, FlagInv
        <3>2. \A q \in Requests \ {r} :
                row'[q] # NoRow /\ row'[q].tokenized /\ arg'[q].article \in Articles =>
                    MintCompleted(arg'[q].article)
            BY <1>2, <2>1 DEF Stays
        <3>3. \A q \in Requests : Completed(q) =>
                    pc'[q] = pc[q] /\ arg'[q] = arg[q] /\ slot'[q] = slot[q]
            BY <2>1, <2>2 DEF Stays, Completed
        <3> QED
            BY <2>3, <3>1, <3>2, <3>3, FlagSpreads
    <2>4. ASSUME NEW u \in Users, NEW request \in UpdateRequest \cup DeleteRequest,
                 BeginEdit(r, u, request)
          PROVE  FlagInv'
        <3>1. request.article \in Articles /\ row[r] = NoRow
            BY <2>4 DEF UpdateRequest, DeleteRequest, BeginEdit, AuthorInv, IdleHoldsNothing
        <3>2. /\ UNCHANGED <<articles, metadata>> /\ arg'[r] = request
              /\ pc'[r] \in {"loaded", "failed"} /\ row'[r] = articles[request.article]
            BY <2>4, <3>1 DEF BeginEdit, GoTo, storeVars, TypeOK, RequestTypeOK
        <3> QED
            BY <1>1, <2>3, <3>1, <3>2
    <2>5. ASSUME NEW a \in Articles, NEW address \in Accounts, NEW signer \in Accounts,
                 NEW nonce \in 1..issued, BeginMint(r, a, address, signer, nonce)
          PROVE  FlagInv'
        <3>1. /\ UNCHANGED <<articles, metadata>> /\ row'[r] = NoRow
              /\ pc'[r] \in {"identified", "failed"}
            BY <2>5 DEF BeginMint, GoTo, storeVars, TypeOK, RequestTypeOK, AuthorInv,
                        IdleHoldsNothing
        <3> QED
            BY <1>1, <2>3, <3>1
    <2>6. CASE Begin(r)
        <3>1. ASSUME NEW a \in Articles, NEW u \in Users, NEW title \in Titles \cup {Absent},
                     NEW content \in Contents \cup {Absent}
              PROVE  /\ [op |-> "update", article |-> a, title |-> title, content |-> content]
                            \in UpdateRequest
                     /\ [op |-> "delete", article |-> a] \in DeleteRequest
            BY DEF UpdateRequest, DeleteRequest
        <3>2. ASSUME NEW a \in Articles
              PROVE  [op |-> "delete", article |-> a] \in DeleteRequest
            BY DEF DeleteRequest
        <3> QED
            BY <2>4, <2>5, <2>6, <3>1, <3>2 DEF Begin, BeginUpdate, BeginDelete
    <2>7. CASE \/ AuthorizeAuthor(r) \/ ReadHolder(r) \/ AuthorizeHolder(r) \/ VerifyMint(r)
               \/ CheckAuthor(r) \/ EstimateGas(r) \/ TakeNonce(r) \/ SendMint(r) \/ CallFails(r)
        <3>1. /\ UNCHANGED <<articles, metadata, arg, row>>
              /\ pc'[r] # "uploaded"
            BY <2>7 DEF AuthorizeAuthor, ReadHolder, AuthorizeHolder, VerifyMint, CheckAuthor,
               EstimateGas, TakeNonce, SendMint, CallFails, GoTo, Replied, storeVars, TypeOK, RequestTypeOK
        <3> QED
            BY <1>1, <1>2, <2>3, <3>1
    <2>8. CASE FindArticle(r)
        <3>1. arg[r].article \in Articles
            BY <2>8 DEF FindArticle, TypeOK, StageOK, MintStages, MintRequest
        <3>2. /\ UNCHANGED <<articles, metadata, arg>>
              /\ pc'[r] # "uploaded"
              /\ row'[r] = row[r] \/ row'[r] = articles[arg[r].article]
            BY <2>8 DEF FindArticle, GoTo, storeVars, TypeOK, RequestTypeOK
        <3> QED
            BY <1>1, <1>2, <2>3, <3>1, <3>2
    <2>9. CASE UploadMetadata(r)
        <3>1. /\ UNCHANGED <<articles, arg, row>> /\ metadata' = metadata \cup {arg[r].article}
            BY <2>9 DEF UploadMetadata
        <3> QED
            BY <1>1, <1>2, <2>3, <3>1
    <2>10. CASE SaveEdited(r) \/ DeleteRow(r)
        <3>1. /\ UNCHANGED <<metadata, arg, row>>
              /\ pc'[r] # "uploaded" /\ arg[r].article \in Articles
              /\ row[r] \in Row
            BY <2>10 DEF SaveEdited, DeleteRow, GoTo, Replied, TypeOK, RequestTypeOK, StageOK, EditStages,
               UpdateRequest, DeleteRequest
        <3>2. \A a \in Articles : articles'[a] # NoRow => articles'[a] = articles[a]
                                    \/ (a = arg[r].article /\ articles'[a] = row[r])
            <4>1. CASE SaveEdited(r)
                <5>1. articles' = IF articles[arg[r].article] = NoRow
                                  THEN articles
                                  ELSE [articles EXCEPT ![arg[r].article] = row[r]]
                    BY <4>1 DEF SaveEdited, WriteRow
                <5> QED
                    BY ONLY <1>0, <3>1, <5>1
            <4>2. CASE DeleteRow(r)
                <5>1. articles' = [articles EXCEPT ![arg[r].article] = NoRow]
                    BY <4>2 DEF DeleteRow
                <5> QED
                    BY ONLY <1>0, <3>1, <5>1
            <4> QED
                BY <2>10, <4>1, <4>2
        <3>3. row[r] # NoRow
            BY <3>1
        <3> QED
            BY <1>1, <1>2, <2>3, <3>1, <3>2, <3>3
    <2>11. CASE SaveTokenized(r)
        <3>0. slot[r] # 0
            BY <2>11 DEF SaveTokenized, TypeOK, StageOK, Slots
        <3>1. /\ UNCHANGED <<metadata, arg, row, slot>>
              /\ pc'[r] \in Finished
              /\ arg[r].article \in Articles /\ arg[r] \in MintRequest
              /\ arg[r].article \in metadata
            BY <2>11 DEF SaveTokenized, GoTo, Replied, TypeOK, RequestTypeOK, StageOK, MintStages,
               MintRequest, FlagInv, Finished
        <3>2. \A a \in Articles : a = arg[r].article => MintCompleted(a)'
            BY <3>0, <3>1 DEF MintCompleted, Completed
        <3>3. \A a \in Articles : a # arg[r].article => articles'[a] = articles[a]
            <4> DEFINE new == [row[r] EXCEPT !.tokenized = TRUE]
            <4>1. articles' = IF articles[arg[r].article] = NoRow
                              THEN articles
                              ELSE [articles EXCEPT ![arg[r].article] = new]
                BY <2>11 DEF SaveTokenized, WriteRow
            <4> HIDE DEF new
            <4> QED
                BY ONLY <1>0, <3>1, <4>1
        <3>4. \A a \in Articles : articles'[a] # NoRow /\ articles'[a].tokenized =>
                        MintCompleted(a) \/ MintCompleted(a)'
            BY <1>1, <3>2, <3>3
        <3> QED
            BY <1>2, <2>3, <3>1, <3>4 DEF Finished
    <2> QED
        BY <1>5, <2>6, <2>7, <2>8, <2>9, <2>10, <2>11 DEF Handle
<1>6. CASE UNCHANGED <<requestVars, articles, metadata>>
    BY <1>3, <1>6
<1>7. ASSUME NEW u \in Users, NEW text \in AddressText, RegisterWallet(u, text)
      PROVE  UNCHANGED <<requestVars, articles, metadata>>
    BY <1>7 DEF RegisterWallet, storeVars
<1>8. ChainStep \/ UNCHANGED vars => UNCHANGED <<requestVars, articles, metadata>>
    BY DEF ChainStep, vars, storeVars
<1> QED
    BY <1>4, <1>5, <1>6, <1>7, <1>8 DEF Next

\* The flag of a row, in the table or in any handler's copy, goes back to a mint
\* that has run to its end, whatever failed and whatever stale row was saved.
THEOREM FlagMeansCompletedMintAlways == Spec => []FlagMeansCompletedMint
<1>1. Init => FlagInv
    BY DEF Init, FlagInv, FlagMeansCompletedMint
<1>2. TypeOK /\ AuthorInv /\ FlagInv /\ [Next]_vars => FlagInv'
    BY NextFlag
<1>3. FlagInv => FlagMeansCompletedMint
    BY DEF FlagInv
<1> QED
    BY <1>1, <1>2, <1>3, TypeCorrect, AuthorshipKept, PTL DEF Spec

-----------------------------------------------------------------------------
(* Who may edit once everything is answered.                               *)

\* The article has a token, or a transaction that may give it one.
Asked(a) == tokenIdOf[a] # 0 \/ \E s \in Slots : txs[s] # NoTx /\ txs[s].article = a

\* The handler that asked is on its way to setting the flag.
Answering(a) ==
    \E r \in Requests :
        pc[r] \in {"sent", "uploaded"} /\ arg[r] \in MintRequest /\ arg[r].article = a

PromiseInv ==
    \A a \in Articles : Asked(a) =>
        /\ creator[a] # NoUser
        /\ articles[a] = NoRow \/ articles[a].tokenized \/ Answering(a)

\* A step keeps the invariant when whoever asks answers, and whoever stops
\* answering has set the flag.
LEMMA PromiseStays ==
    ASSUME PromiseInv,
           \A a \in Articles : Asked(a)' => Asked(a) \/ (creator'[a] # NoUser /\ Answering(a)'),
           \A a \in Articles : creator[a] # NoUser =>
                /\ creator'[a] # NoUser
                /\ articles'[a] = articles[a] \/ articles'[a] = NoRow \/ articles'[a].tokenized,
           \A a \in Articles : Answering(a) =>
                Answering(a)' \/ articles'[a] = NoRow \/ articles'[a].tokenized
    PROVE  PromiseInv'
BY DEF PromiseInv

\* The chain executes what was asked.
LEMMA ChainStepAsks ==
    ASSUME TypeOK, ChainStep, NEW a \in Articles, Asked(a)'
    PROVE  Asked(a)
<1>1. CASE MineNext
    <2> PICK s \in Slots :
            /\ txs[s] # NoTx /\ UNCHANGED txs
            /\ \/ mintNFT(txs[s].to, txs[s].article)
               \/ UNCHANGED contractVars
        BY <1>1 DEF MineNext
    <2>1. CASE mintNFT(txs[s].to, txs[s].article)
        <3>1. tokenIdOf' = [tokenIdOf EXCEPT ![txs[s].article] = tokenIds + 1]
            BY <2>1 DEF mintNFT, MintToken
        <3>2. a = txs[s].article \/ tokenIdOf'[a] = tokenIdOf[a]
            BY <3>1 DEF TypeOK, ContractTypeOK
        <3> QED
            BY <3>2 DEF Asked
    <2>2. CASE UNCHANGED contractVars
        BY <2>2 DEF Asked, contractVars
    <2> QED
        BY <2>1, <2>2
<1>2. ASSUME NEW s \in Slots, DropTransaction(s), UNCHANGED contractVars
      PROVE  Asked(a)
    BY <1>2 DEF DropTransaction, Asked, contractVars, TypeOK, TransactorTypeOK
<1>3. ASSUME NEW t \in Tokens, NEW to \in Accounts, TransferToken(t, to), UNCHANGED transactorVars
      PROVE  Asked(a)
    BY <1>3 DEF TransferToken, Asked, transactorVars
<1> QED
    BY <1>1, <1>2, <1>3 DEF ChainStep

\* Registrations, creations and the chain.
LEMMA SystemPromise ==
    ASSUME TypeOK, PromiseInv,
           \/ \E u \in Users, text \in AddressText : RegisterWallet(u, text)
           \/ \E u \in Users, a \in Articles, d \in Document : Create(u, a, d)
           \/ ChainStep
           \/ UNCHANGED vars
    PROVE  PromiseInv'
<1>1. UNCHANGED requestVars
    BY DEF RegisterWallet, Create, ChainStep, vars
<1>2. ASSUME NEW a \in Articles, Asked(a)' PROVE Asked(a)
    <2>1. CASE ChainStep
        BY <1>2, <2>1, ChainStepAsks
    <2>2. CASE UNCHANGED <<contractVars, transactorVars>>
        BY <1>2, <2>2 DEF Asked, contractVars, transactorVars
    <2> QED
        BY <2>1, <2>2 DEF RegisterWallet, Create, vars
<1>3. ASSUME NEW a \in Articles, creator[a] # NoUser
      PROVE  creator'[a] # NoUser /\ articles'[a] = articles[a]
    <2>1. ASSUME NEW u \in Users, NEW b \in Articles, NEW d \in Document, Create(u, b, d)
          PROVE  creator'[a] # NoUser /\ articles'[a] = articles[a]
        BY <1>3, <2>1 DEF Create, TypeOK, StoreTypeOK
    <2>2. CASE UNCHANGED storeVars
        BY <1>3, <2>2 DEF storeVars
    <2> QED
        BY <2>1, <2>2 DEF RegisterWallet, ChainStep, vars
<1> QED
    BY <1>1, <1>2, <1>3, PromiseStays DEF PromiseInv, Answering, requestVars

\* A request that begins is on its way to nothing yet.
LEMMA BeginPromise ==
    ASSUME TypeOK, PromiseInv, NEW r \in Requests, Begin(r)
    PROVE  PromiseInv'
<1>1. /\ UNCHANGED <<contractVars, transactorVars, storeVars>>
      /\ pc[r] = "idle"
      /\ \A q \in Requests \ {r} : Stays(q)
    BY OthersStay DEF Begin, BeginUpdate, BeginDelete, BeginEdit, BeginMint
<1>2. \A a \in Articles : Answering(a) => Answering(a)'
    BY <1>1 DEF Answering, Stays
<1>3. \A a \in Articles : Asked(a)' => Asked(a)
    BY <1>1 DEF Asked, contractVars, transactorVars
<1> QED
    BY <1>1, <1>2, <1>3, PromiseStays DEF storeVars

\* A handler's step that writes no row and sends nothing, and the failure of a
\* mint that has sent nothing.
LEMMA QuietPromise ==
    ASSUME TypeOK, PromiseInv, SentMintsAreSaved, NEW r \in Requests,
           \/ AuthorizeAuthor(r) \/ ReadHolder(r) \/ AuthorizeHolder(r)
           \/ VerifyMint(r) \/ FindArticle(r) \/ CheckAuthor(r)
           \/ EstimateGas(r) \/ TakeNonce(r) \/ UploadMetadata(r) \/ CallFails(r)
    PROVE  PromiseInv'
<1>1. /\ UNCHANGED <<contractVars, transactorVars, creator, articles, arg>>
      /\ pc[r] \in {"sent", "uploaded"} => pc'[r] \in {"sent", "uploaded", "failed"}
    BY DEF AuthorizeAuthor, ReadHolder, AuthorizeHolder, VerifyMint, FindArticle, CheckAuthor,
       EstimateGas, TakeNonce, UploadMetadata, CallFails, GoTo, Replied, storeVars, TypeOK,
       RequestTypeOK
<1>2. \A q \in Requests \ {r} : Stays(q)
    BY OthersStay DEF Handle
<1>3. \A a \in Articles : Answering(a) => Answering(a)'
    BY <1>1, <1>2 DEF Answering, Stays, SentMintsAreSaved
<1>4. \A a \in Articles : Asked(a)' => Asked(a)
    BY <1>1 DEF Asked, contractVars, transactorVars
<1> QED
    BY <1>1, <1>3, <1>4, PromiseStays

\* A mint that is sent is answered, if the reply comes back.
LEMMA SendPromise ==
    ASSUME TypeOK, AuthorInv, PromiseInv, SentMintsAreSaved, NEW r \in Requests, SendMint(r)
    PROVE  PromiseInv'
<1> DEFINE a == arg[r].article
           tx == [to |-> arg[r].address, article |-> a]
<1>1. /\ UNCHANGED <<contractVars, creator, articles, arg>>
      /\ pc[r] = "numbered" /\ pc'[r] \in {"sent", "failed"}
    BY DEF SendMint, GoTo, Replied, storeVars, TypeOK, RequestTypeOK
<1>2. \A q \in Requests \ {r} : Stays(q)
    BY OthersStay DEF Handle
<1>3. /\ arg[r] \in MintRequest /\ a \in Articles
      /\ creator[a] # NoUser
    <2>1. arg[r] \in MintRequest /\ row[r] \in Row
        BY <1>1 DEF TypeOK, StageOK, MintStages
    <2>2. row[r].author = creator[a] /\ row[r].author \in Users
        BY <2>1, RowAssumption DEF AuthorInv, RowsNameTheCreator, Row
    <2> QED
        BY <2>1, <2>2 DEF MintRequest
<1>4. \A b \in Articles : Answering(b) => Answering(b)'
    BY <1>1, <1>2 DEF Answering, Stays
<1>5. ASSUME NEW b \in Articles, Asked(b)'
      PROVE  Asked(b) \/ (creator'[b] # NoUser /\ Answering(b)')
    <2>1. CASE UNCHANGED txs
        BY <1>1, <1>5, <2>1 DEF Asked, contractVars
    <2>2. CASE txs' = [txs EXCEPT ![slot[r]] = tx] /\ pc'[r] = "sent"
        <3>1. b = a \/ Asked(b)
            BY <1>1, <1>5, <2>2 DEF Asked, contractVars, TypeOK, TransactorTypeOK
        <3>2. Answering(a)'
            BY <1>1, <1>3, <2>2 DEF Answering
        <3> QED
            BY <1>1, <1>3, <3>1, <3>2
    <2>3. txs' = [txs EXCEPT ![slot[r]] = tx] \/ UNCHANGED txs
        BY DEF SendMint, SendTransaction, transactorVars
    <2>4. pc'[r] = "failed" => UNCHANGED txs
        BY <1>1 DEF SentMintsAreSaved
    <2> QED
        BY <1>1, <2>1, <2>2, <2>3, <2>4
<1> HIDE DEF a, tx
<1> QED
    BY <1>1, <1>4, <1>5, PromiseStays

\* A write deletes the row, sets the flag, or leaves the row as it was loaded.
LEMMA WritePromise ==
    ASSUME TypeOK, PromiseInv, SavesAreFresh, NEW r \in Requests,
           SaveEdited(r) \/ DeleteRow(r) \/ SaveTokenized(r)
    PROVE  PromiseInv'
<1> DEFINE a == arg[r].article
           new == [row[r] EXCEPT !.tokenized = TRUE]
<1>0. articles \in [Articles -> Row \cup {NoRow}]
    BY DEF TypeOK, StoreTypeOK
<1>1. UNCHANGED <<contractVars, transactorVars, creator, arg>>
    BY DEF SaveEdited, DeleteRow, SaveTokenized
<1>2. \A q \in Requests \ {r} : Stays(q)
    BY OthersStay DEF Handle
<1>3. ASSUME SaveEdited(r)
      PROVE  articles' = articles /\ pc[r] = "authorized"
    <2>1. articles[a] = NoRow \/ articles[a] = row[r]
        BY <1>3 DEF SavesAreFresh
    <2>2. articles' = articles \/ articles' = [articles EXCEPT ![a] = row[r]]
        BY <1>3 DEF SaveEdited, WriteRow
    <2>3. articles[a] = NoRow => articles' = articles
        BY <1>3 DEF SaveEdited, WriteRow
    <2> HIDE DEF a
    <2>4. articles' = articles
        BY <1>0, <2>1, <2>2, <2>3
    <2> QED
        BY <1>3, <2>4 DEF SaveEdited
<1>4. ASSUME DeleteRow(r) \/ SaveTokenized(r)
      PROVE  /\ articles' = [articles EXCEPT ![a] = NoRow]
                \/ articles' = IF articles[a] = NoRow THEN articles ELSE [articles EXCEPT ![a] = new]
             /\ a \in Articles /\ new.tokenized
    <2>1. CASE DeleteRow(r)
        BY <2>1 DEF DeleteRow, TypeOK, StageOK, EditStages, UpdateRequest, DeleteRequest, Row
    <2>2. CASE SaveTokenized(r)
        BY <2>2 DEF SaveTokenized, WriteRow, TypeOK, StageOK, MintStages, MintRequest, Row
    <2> QED
        BY <1>4, <2>1, <2>2
<1> HIDE DEF new
<1>5. \A b \in Articles : \/ articles'[b] = articles[b] /\ (b # a \/ pc[r] = "authorized")
                          \/ articles'[b] = NoRow \/ articles'[b].tokenized
    <2>1. CASE SaveEdited(r)
        BY <1>3, <2>1
    <2>2. CASE DeleteRow(r) \/ SaveTokenized(r)
        <3> HIDE DEF a
        <3> QED
            BY <1>0, <1>4, <2>2
    <2> QED
        BY <2>1, <2>2
<1>6. ASSUME NEW b \in Articles, Answering(b)
      PROVE  Answering(b)' \/ articles'[b] = NoRow \/ articles'[b].tokenized
    <2> PICK q \in Requests :
            pc[q] \in {"sent", "uploaded"} /\ arg[q] \in MintRequest /\ arg[q].article = b
        BY <1>6 DEF Answering
    <2>1. CASE q = r
        BY <1>5, <2>1
    <2>2. CASE q # r
        BY <1>2, <2>2 DEF Stays, Answering
    <2> QED
        BY <2>1, <2>2
<1>7. \A b \in Articles : Asked(b)' => Asked(b)
    BY <1>1 DEF Asked, contractVars, transactorVars
<1> QED
    BY <1>1, <1>5, <1>6, <1>7, PromiseStays

\* Whoever asked the chain answers.
LEMMA NextPromise ==
    ASSUME TypeOK, AuthorInv, PromiseInv, [CarefulNext]_vars
    PROVE  PromiseInv'
<1>1. CASE UNCHANGED vars
    BY <1>1, SystemPromise
<1>2. CASE CarefulNext
    <2>1. Next /\ SentMintsAreSaved /\ SavesAreFresh
        BY <1>2 DEF CarefulNext
    <2>2. ASSUME NEW r \in Requests, Begin(r) \/ Handle(r) \/ CallFails(r)
          PROVE  PromiseInv'
        BY <2>1, <2>2, BeginPromise, QuietPromise, SendPromise, WritePromise DEF Handle
    <2> QED
        BY <2>1, <2>2, SystemPromise DEF Next
<1> QED
    BY <1>1, <1>2

\* The promise in the token's metadata, for requests that spell addresses with
\* their checksum, over updates, deletes and mints in any order and with any
\* failure, if no mint fails once its transaction is sent and no update saves
\* over a row that has changed since it was loaded: once nothing is in flight,
\* the user whose wallet holds an article's token may edit it.
THEOREM HoldersMayEditAlways ==
    ASSUME OnlyChecksums
    PROVE  CarefulSpec => []HoldersMayEdit
<1>1. Init => PromiseInv
    BY DEF Init, ContractInit, TransactorInit, PromiseInv, Asked
<1>2. TypeOK /\ AuthorInv /\ PromiseInv /\ [CarefulNext]_vars => PromiseInv'
    BY NextPromise
<1>3. TypeOK /\ NonceInv /\ PromiseInv => HoldersMayEdit
    <2> SUFFICES ASSUME TypeOK, NonceInv, PromiseInv,
                        \A r \in Requests : pc[r] \notin InFlight,
                        NEW a \in Articles, NEW u \in Users,
                        articles[a] # NoRow, tokenIdOf[a] # 0,
                        GetAddressByID(u) = getOwnerOfArticle(a)
                 PROVE  MayEdit(u, a)
        BY DEF HoldersMayEdit
    <2>1. articles[a].tokenized
        BY DEF PromiseInv, Asked, Answering, InFlight, MintStages
    <2>2. getOwnerOfArticle(a) \in Accounts
        BY DEF TypeOK, ContractTypeOK, getOwnerOfArticle, Tokens
    <2>3. GetIDByAddress(getOwnerOfArticle(a)) = u
        BY <2>2, LookupsInverse DEF NonceInv, LookupsAgree
    <2> QED
        BY <2>1, <2>3 DEF MayEdit
<1>4. [CarefulNext]_vars => [Next]_vars
    BY DEF CarefulNext
<1>5. CarefulSpec => Spec
    BY <1>4, PTL DEF CarefulSpec, Spec
<1> QED
    BY <1>1, <1>2, <1>3, <1>5, TypeCorrect, AuthorshipKept, NoncesKept, PTL DEF CarefulSpec

-----------------------------------------------------------------------------
(* The wallet table beside the services.                                   *)

\* Only a registration gives anybody a wallet; a mint replaces a nonce.
LEMMA OnlyRegistrationsPut ==
    ASSUME [Next]_vars
    PROVE  \/ UNCHANGED walletOf
           \/ \E u \in Users, text \in AddressText : PutUserWallet(u, text)
<1> USE DEF walletVars
<1>1. ASSUME NEW r \in Requests, Begin(r) \/ CallFails(r) PROVE UNCHANGED walletOf
    BY <1>1 DEF Begin, BeginUpdate, BeginDelete, BeginEdit, BeginMint, CallFails
<1>2. ASSUME NEW r \in Requests, Handle(r) PROVE UNCHANGED walletOf
    BY <1>2 DEF Handle, AuthorizeAuthor, ReadHolder, AuthorizeHolder, SaveEdited, DeleteRow,
                VerifyMint, GetAndReplaceNonceByID, FindArticle, CheckAuthor, EstimateGas,
                TakeNonce, SendMint, UploadMetadata, SaveTokenized
<1>3. ASSUME NEW u \in Users, NEW a \in Articles, NEW d \in Document, Create(u, a, d)
      PROVE  UNCHANGED walletOf
    BY <1>3 DEF Create
<1>4. ChainStep => UNCHANGED walletOf
    BY DEF ChainStep, MineNext, DropTransaction
<1>5. ASSUME NEW u \in Users, NEW text \in AddressText, RegisterWallet(u, text)
      PROVE  PutUserWallet(u, text)
    BY <1>5 DEF RegisterWallet
<1> QED
    BY <1>1, <1>2, <1>3, <1>4, <1>5 DEF Next, vars

\* The table that the services decide by implements the abstract binding: a wallet
\* found for a user is still that user's at the handler's next call.
THEOREM ServicesImplementWalletBinding == Spec => ImplementsWalletBinding
<1>1. Init => Binding!Init
    BY InitialBinding DEF Init
<1>2. NonceInv /\ [Next]_vars
      => [Binding!Next]_BoundPairs
    BY OnlyRegistrationsPut, WalletsBind DEF NonceInv
<1> QED
    BY <1>1, <1>2, NoncesKept, PTL DEF Spec, ImplementsWalletBinding, Binding!Spec
=============================================================================
