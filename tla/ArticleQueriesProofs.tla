------------------------ MODULE ArticleQueriesProofs ------------------------
(* What is proved of searches and reads, for any number of articles, users   *)
(* and accounts and whatever the services, the chain and the wallet table do *)
(* between the calls of a query.                                             *)
EXTENDS ArticleQueries, ArticleServiceProofs, FiniteSetTheorems, SequenceTheorems

USE UserAssumption, AccountAssumption, FormAssumption, AddressAssumption,
    SlotAssumption, TransactionAssumption, RowAssumption, RequestAssumption,
    AbsentAssumption, AnyoneAssumption, IdAssumption, PageAssumption

\* The calls of a search, and those that name the owners of entries.
Searching == {"address", "owned", "load", "count"}
Naming == {"entries", "holder"}

Created == {a \in Articles : creator[a] # NoUser}

\* No two articles were created at one time.
OrderInv ==
    /\ createdAt \in [Articles -> Nat]
    /\ \A a \in Created : createdAt[a] \in 1..Cardinality(Created)
    /\ \A a, b \in Created : createdAt[a] = createdAt[b] => a = b

\* What a query holds at each call.
StageInv ==
    /\ stage \in Searching => query \in SearchQuery
    /\ stage \in {"address", "owned"} => query.ownedBy # Anyone
    /\ stage = "row" => query \in ReadQuery
    /\ stage \in Naming => ~OwnerSearch /\ Len(results) < Len(targets)
    /\ stage \in {"idle", "row"} \cup Searching => results = <<>>
    /\ stage \in {"idle", "address", "owned"} => owned = {}
    /\ stage = "owned" => address = GetAddressByID(query.ownedBy) /\ address # ZeroAddress
    /\ stage \in {"load", "count"} /\ OwnerSearch =>
            address = ZeroAddress \/ address = GetAddressByID(query.ownedBy)

QueryInv == QueriesTypeOK /\ StageInv /\ OwnerInfoAgrees

TargetIds == {targets[i].id : i \in DOMAIN targets}

\* How the answer to a search by owner relates to the owner's claims: while the
\* calls are made the history brackets what the owner has, what the chain told
\* lies between the two, and so do the rows that were loaded.
HistoryInv ==
    OwnerSearch =>
        /\ stage \in Searching =>
            /\ kept.held \subseteq Claims(query.ownedBy).held
            /\ kept.written \subseteq Claims(query.ownedBy).written
            /\ Claims(query.ownedBy).held \subseteq ever.held
            /\ Claims(query.ownedBy).written \subseteq ever.written
        /\ stage = "load" => kept.held \subseteq owned /\ owned \subseteq ever.held
        /\ stage \in {"count", "done"} => TargetIds \subseteq ever.held \cup ever.written
        /\ stage \in {"count", "done"} /\ FirstPageHoldsAll /\ query.keywords = {} =>
            \A a \in kept.held \cup kept.written : articles[a] # NoRow => a \in TargetIds
        /\ stage # "idle" => kept.held \cup kept.written \subseteq Created
        /\ stage = "done" => Listed = TargetIds

-----------------------------------------------------------------------------
(* Sequences and sorting. *)

\* A function from 1 to a number is a sequence.
LEMMA FunctionIsSeq ==
    ASSUME NEW S, NEW n \in Nat, NEW f \in [1..n -> S]
    PROVE  f \in Seq(S) /\ Len(f) = n /\ DOMAIN f = 1..n
<1>1. f \in Seq(S)
    BY SeqDef
<1>2. Len(f) \in Nat /\ DOMAIN f = 1..Len(f)
    BY <1>1, LenProperties
<1>3. 1..n = 1..Len(f)
    BY <1>2
<1>4. n = Len(f)
    <2>1. n > 0 => n \in 1..Len(f)
        BY <1>3
    <2>2. Len(f) > 0 => Len(f) \in 1..n
        BY <1>2, <1>3
    <2> QED
        BY <1>2, <2>1, <2>2
<1> QED
    BY <1>1, <1>4

\* The elements of a sequence, mapped one by one, are a sequence.
LEMMA EntrySequence ==
    ASSUME NEW S, NEW T, NEW s \in Seq(S), NEW t, t = [i \in DOMAIN s |-> t[i]],
           \A i \in DOMAIN s : t[i] \in T
    PROVE  t \in Seq(T) /\ Len(t) = Len(s) /\ DOMAIN t = DOMAIN s
<1>1. Len(s) \in Nat /\ DOMAIN s = 1..Len(s)
    BY LenProperties
<1>2. t \in [1..Len(s) -> T]
    BY <1>1
<1> QED
    BY <1>1, <1>2, FunctionIsSeq

\* Articles that were created at different times can be put in order: an article's
\* place is the number of those that are not later.
LEMMA SortedRowsExist ==
    ASSUME NEW S, S \subseteq Articles, createdAt \in [Articles -> Nat],
           \A a, b \in S : createdAt[a] = createdAt[b] => a = b
    PROVE  /\ Cardinality(S) \in Nat
           /\ \E rows \in [1..Cardinality(S) -> S] : InOrder(rows)
<1> DEFINE n == Cardinality(S)
           Below(a) == {b \in S : createdAt[b] <= createdAt[a]}
           place == [a \in S |-> Cardinality(Below(a))]
<1>1. IsFiniteSet(S) /\ n \in Nat
    BY FS_Subset, FS_CardinalityType
<1>2. ASSUME NEW a \in S PROVE IsFiniteSet(Below(a)) /\ place[a] = Cardinality(Below(a)) /\ place[a] \in 1..n
    <2>1. Below(a) \in SUBSET S /\ a \in Below(a)
        OBVIOUS
    <2>2. IsFiniteSet(Below(a)) /\ Cardinality(Below(a)) \in Nat /\ Cardinality(Below(a)) <= n
        BY <1>1, <2>1, FS_Subset, FS_CardinalityType
    <2>3. Cardinality(Below(a)) # 0
        BY <2>1, <2>2, FS_EmptySet
    <2> QED
        BY <1>1, <2>2, <2>3
<1>3. ASSUME NEW a \in S, NEW b \in S, createdAt[a] < createdAt[b]
      PROVE  place[a] < place[b]
    <2>1. Below(a) \in SUBSET Below(b) /\ b \in Below(b) /\ b \notin Below(a)
        BY <1>3
    <2>2. Cardinality(Below(a)) <= Cardinality(Below(b)) /\ Cardinality(Below(a)) # Cardinality(Below(b))
        BY <1>2, <2>1, FS_Subset
    <2> HIDE DEF Below
    <2> QED
        BY <1>2, <2>2
<1> HIDE DEF Below
<1>4. place \in Injection(S, 1..n)
    <2>1. place \in [S -> 1..n]
        BY <1>2
    <2>2. ASSUME NEW a \in S, NEW b \in S, place[a] = place[b] PROVE a = b
        <3>1. createdAt[a] \in Nat /\ createdAt[b] \in Nat /\ place[a] \in Nat /\ place[b] \in Nat
            BY <1>2
        <3> HIDE DEF place
        <3>2. ~(createdAt[a] < createdAt[b]) /\ ~(createdAt[b] < createdAt[a])
            BY <1>3, <2>2, <3>1
        <3> QED
            BY <3>1, <3>2
    <2> HIDE DEF place
    <2> QED
        BY <2>1, <2>2 DEF Injection, IsInjective
<1>5. place \in Surjection(S, 1..n)
    <2>1. IsFiniteSet(1..n) /\ Cardinality(1..n) = n
        BY <1>1, FS_Interval
    <2> HIDE DEF place
    <2> QED
        BY <1>4, <2>1, FS_Injection
<1> HIDE DEF place
<1> DEFINE rows == [i \in 1..n |-> CHOOSE a \in S : place[a] = i]
<1>6. ASSUME NEW i \in 1..n PROVE rows[i] \in S /\ place[rows[i]] = i
    <2>1. \E a \in S : place[a] = i
        BY <1>5 DEF Surjection
    <2> QED
        BY <2>1
<1>7. rows \in [1..n -> S]
    BY <1>6
<1> HIDE DEF rows
<1>8. ASSUME NEW i \in 1..n, NEW j \in 1..n, i < j
      PROVE  createdAt[rows[i]] < createdAt[rows[j]]
    <2>1. createdAt[rows[i]] \in Nat /\ createdAt[rows[j]] \in Nat /\ rows[i] \in S /\ rows[j] \in S
        BY <1>6
    <2>2. place[rows[i]] = i /\ place[rows[j]] = j
        BY <1>6
    <2>3. createdAt[rows[i]] # createdAt[rows[j]]
        BY <1>8, <2>1, <2>2
    <2>4. ~(createdAt[rows[j]] < createdAt[rows[i]])
        BY <1>3, <1>8, <2>1, <2>2
    <2> QED
        BY <2>1, <2>3, <2>4
<1>9. InOrder(rows)
    BY <1>7, <1>8 DEF InOrder
<1> QED
    BY <1>1, <1>7, <1>9

\* Rows in order are all different, so as many rows as there are articles are all
\* the articles.
LEMMA SortedRowsAreAll ==
    ASSUME NEW S, S \subseteq Articles, createdAt \in [Articles -> Nat],
           Cardinality(S) \in Nat, NEW rows \in [1..Cardinality(S) -> S], InOrder(rows)
    PROVE  {rows[i] : i \in DOMAIN rows} = S
<1> DEFINE n == Cardinality(S)
<1>1. IsFiniteSet(S) /\ IsFiniteSet(1..n) /\ Cardinality(1..n) = n
    <2>1. IsFiniteSet(S) /\ n \in Nat
        BY FS_Subset
    <2> HIDE DEF n
    <2>2. 1 \in Int /\ n \in Int
        BY <2>1
    <2>3. IsFiniteSet(1..n) /\ Cardinality(1..n) = IF 1 > n THEN 0 ELSE n - 1 + 1
        BY <2>2, FS_Interval
    <2>4. (IF 1 > n THEN 0 ELSE n - 1 + 1) = n
        BY <2>1
    <2> QED
        BY <2>1, <2>3, <2>4
<1>2. ASSUME NEW i \in 1..n, NEW j \in 1..n, rows[i] = rows[j] PROVE i = j
    <2>1. createdAt[rows[i]] \in Nat /\ createdAt[rows[j]] = createdAt[rows[i]]
        BY <1>2
    <2>2. ~(i < j) /\ ~(j < i)
        BY <2>1 DEF InOrder
    <2> QED
        BY <2>2
<1>3. rows \in Injection(1..n, S)
    BY <1>2 DEF Injection, IsInjective
<1>4. rows \in Surjection(1..n, S)
    BY <1>1, <1>3, FS_Injection
<1>5. \A a \in S : \E i \in 1..n : rows[i] = a
    BY <1>4 DEF Surjection
<1>6. DOMAIN rows = 1..n /\ \A i \in 1..n : rows[i] \in S
    OBVIOUS
<1> HIDE DEF n
<1> QED
    BY <1>5, <1>6

-----------------------------------------------------------------------------
(* What the queries take from the services.                                *)
ServiceInv ==
    TypeOK /\ AuthorInv /\ RegistryInv /\ TokensMatchArticles /\ TokensNameCreated

\* The services go on as if no query were made.
LEMMA QueriesLetServicesGoOn == QueriesSpec => Spec
<1>1. QueriesInit => Init
    BY DEF QueriesInit
<1>2. [QueriesNext]_<<vars, queryVars, kept, ever>> => [Next]_vars
    BY DEF QueriesNext, SystemStep
<1> QED
    BY <1>1, <1>2, PTL DEF QueriesSpec, Spec

\* So what is proved of them holds.
LEMMA ServicesKept == QueriesSpec => []ServiceInv
<1>1. TypeOK /\ AuthorInv /\ NonceInv /\ TokensMatchArticles /\ TokensNameCreated => ServiceInv
    BY DEF ServiceInv, NonceInv
<1> QED
    BY <1>1, QueriesLetServicesGoOn, TypeCorrect, AuthorshipKept, NoncesKept,
       TokensMatchArticlesAlways, TokensNameCreatedAlways, PTL

\* A row in the table is of an article that was created.
LEMMA RowsAreCreated ==
    ASSUME ServiceInv, NEW a \in Articles, articles[a] # NoRow
    PROVE  a \in Created /\ articles[a] \in Row
BY DEF ServiceInv, AuthorInv, RowsNameTheCreator, TypeOK, StoreTypeOK, Row, Created

\* A step creates one article at most.
LEMMA NextCreates ==
    ASSUME TypeOK, [Next]_vars
    PROVE  \/ creator' = creator
           \/ \E u \in Users, a \in Articles :
                creator[a] = NoUser /\ creator' = [creator EXCEPT ![a] = u]
<1>1. ASSUME NEW r \in Requests, Begin(r) \/ Handle(r) \/ CallFails(r)
      PROVE  creator' = creator
    BY <1>1 DEF Begin, BeginUpdate, BeginDelete, BeginEdit, BeginMint, Handle, AuthorizeAuthor,
       ReadHolder, AuthorizeHolder, SaveEdited, DeleteRow, VerifyMint, FindArticle, CheckAuthor,
       EstimateGas, TakeNonce, SendMint, UploadMetadata, SaveTokenized, CallFails, storeVars
<1> QED
    BY <1>1 DEF Next, RegisterWallet, Create, ChainStep, vars, storeVars

-----------------------------------------------------------------------------
(* Times of creation. *)

\* A new article is later than all others.
LEMMA SystemOrder ==
    ASSUME TypeOK, OrderInv, SystemStep
    PROVE  OrderInv'
<1> DEFINE now == Cardinality({a \in Articles : creator'[a] # NoUser})
<1>1. creator \in [Articles -> Users \cup {NoUser}] /\ IsFiniteSet(Created)
    BY FS_Subset DEF TypeOK, StoreTypeOK, Created
<1>2. createdAt' = [a \in Articles |-> IF creator'[a] = creator[a] THEN createdAt[a] ELSE now]
    BY DEF SystemStep
<1>3. Created' = {a \in Articles : creator'[a] # NoUser}
    BY DEF Created
<1>4. CASE creator' = creator
    <2>1. createdAt' = createdAt
        BY <1>2, <1>4 DEF OrderInv
    <2> QED
        BY <1>3, <1>4, <2>1 DEF OrderInv, Created
<1>5. ASSUME NEW u \in Users, NEW c \in Articles, creator[c] = NoUser,
             creator' = [creator EXCEPT ![c] = u]
      PROVE  OrderInv'
    <2>1. Created' = Created \cup {c} /\ c \notin Created
        BY <1>1, <1>3, <1>5 DEF Created
    <2>2. /\ Cardinality(Created) \in Nat
          /\ Cardinality(Created') = Cardinality(Created) + 1
          /\ now = Cardinality(Created')
        BY <1>1, <1>3, <2>1, FS_AddElement, FS_CardinalityType
    <2> HIDE DEF now
    <2>3. /\ createdAt' \in [Articles -> Nat]
          /\ createdAt'[c] = now
          /\ \A a \in Articles : a # c => createdAt'[a] = createdAt[a]
        BY <1>1, <1>2, <1>5, <2>2 DEF OrderInv
    <2>4. \A a \in Created' : createdAt'[a] \in 1..Cardinality(Created')
        BY <2>1, <2>2, <2>3 DEF OrderInv, Created
    <2>5. \A a, b \in Created' : createdAt'[a] = createdAt'[b] => a = b
        BY <2>1, <2>2, <2>3 DEF OrderInv, Created
    <2> QED
        BY <2>3, <2>4, <2>5 DEF OrderInv
<1> QED
    BY <1>4, <1>5, NextCreates DEF SystemStep

\* Times of creation tell articles apart throughout.
LEMMA OrderKept == QueriesSpec => []OrderInv
<1>1. QueriesInit => OrderInv
    BY DEF QueriesInit, Init, OrderInv, Created
<1>2. TypeOK /\ OrderInv /\ [QueriesNext]_<<vars, queryVars, kept, ever>> => OrderInv'
    <2>1. QueryStep \/ UNCHANGED queryVars => UNCHANGED createdAt
        BY DEF QueryStep, BeginSearch, FindOwner, FindOwned, LoadPage, CountMatches, BeginRead,
           LoadRow, ReadTokenHolder, NameHolder, NameAuthor, Start, queryVars,
           queryVarsButResults
    <2>2. UNCHANGED <<vars, createdAt>> /\ OrderInv => OrderInv'
        BY DEF vars, storeVars, OrderInv, Created
    <2> QED
        BY <2>1, <2>2, SystemOrder DEF QueriesNext
<1> QED
    BY <1>1, <1>2, QueriesLetServicesGoOn, TypeCorrect, PTL DEF QueriesSpec

-----------------------------------------------------------------------------
(* The rows of a search. *)

TargetRow == [id: Articles, author: Users, tokenized: BOOLEAN]
EntryRow == [id: Articles, owner: Users, address: Accounts \cup {ZeroAddress}]

\* The rows that match are the selected ones, each once and in order.
LEMMA MatchingRows ==
    ASSUME ServiceInv, OrderInv
    PROVE  /\ Matching \in Seq(Selected)
           /\ {Matching[i] : i \in DOMAIN Matching} = Selected
           /\ Len(Matching) \in Nat /\ Len(Matching) <= Cardinality(Articles)
           /\ Cardinality(Articles) \in Nat
<1> DEFINE n == Cardinality(Selected)
<1>1. Selected \in SUBSET Articles
    BY DEF Selected
<1>2. \A a \in Selected : a \in Created
    BY RowsAreCreated DEF Selected
<1>3. \A a, b \in Selected : createdAt[a] = createdAt[b] => a = b
    BY <1>2 DEF OrderInv
<1>4. n \in Nat /\ \E rows \in [1..n -> Selected] : InOrder(rows)
    BY <1>1, <1>3, SortedRowsExist DEF OrderInv
<1>5. n <= Cardinality(Articles) /\ Cardinality(Articles) \in Nat
    BY <1>1, FS_Subset, FS_CardinalityType
<1>6. Matching \in [1..n -> Selected] /\ InOrder(Matching)
    BY <1>4 DEF Matching
<1> HIDE DEF n
<1>7. Matching \in Seq(Selected) /\ Len(Matching) = n
    BY <1>4, <1>6, FunctionIsSeq
<1>8. {Matching[i] : i \in DOMAIN Matching} = Selected
    BY <1>1, <1>4, <1>6, SortedRowsAreAll DEF OrderInv, n
<1> QED
    BY <1>4, <1>5, <1>7, <1>8

\* A product of numbers is one.
LEMMA ProductType ==
    ASSUME NEW m \in Nat, NEW n \in Nat
    PROVE  m * n \in Nat
OBVIOUS

\* A search asks for a page that there can be.
LEMMA PageType ==
    ASSUME query \in SearchQuery
    PROVE  query.num \in Nat /\ query.num >= 1 /\ query.size \in Nat /\ query.size >= 1
<1>1. query.num \in PageNums /\ query.size \in PageSizes
    BY DEF SearchQuery
<1>2. \A n \in PageNums \cup PageSizes : n \in Nat /\ n >= 1
    BY PageAssumption
<1> QED
    BY <1>1, <1>2

\* A page is made of rows, and a first page that is large enough is all of them.
LEMMA PageRows ==
    ASSUME query \in SearchQuery, NEW S, NEW rows \in Seq(S)
    PROVE  /\ Page(rows) \in Seq(S)
           /\ \A i \in DOMAIN Page(rows) : \E j \in DOMAIN rows : Page(rows)[i] = rows[j]
           /\ query.num = 1 /\ query.size >= Len(rows) => Page(rows) = rows
<1> DEFINE offset == (query.num - 1) * query.size
           last == IF offset + query.size < Len(rows) THEN offset + query.size ELSE Len(rows)
<1>1. query.num \in Nat /\ query.num >= 1 /\ query.size \in Nat /\ query.size >= 1
    BY PageType
<1>2. offset \in Nat
    BY <1>1, ProductType
<1>3. query.num = 1 => offset = 0
    BY <1>1
<1>4. Page(rows) = SubSeq(rows, offset + 1, last)
    BY DEF Page
<1>5. Len(rows) \in Nat /\ DOMAIN rows = 1..Len(rows)
    BY LenProperties
<1> HIDE DEF offset
<1>6. last \in Nat /\ last <= Len(rows)
    BY <1>1, <1>2, <1>5
<1>7. query.num = 1 /\ query.size >= Len(rows) => last = Len(rows)
    BY <1>1, <1>3, <1>5
<1> HIDE DEF last
<1>8. \A i \in (offset + 1)..last : i \in DOMAIN rows /\ rows[i] \in S
    BY <1>2, <1>5, <1>6, ElementOfSeq
<1>9. /\ SubSeq(rows, offset + 1, last) \in Seq(S)
      /\ Len(SubSeq(rows, offset + 1, last)) = IF offset + 1 <= last THEN last - (offset + 1) + 1 ELSE 0
      /\ \A i \in 1..(last - (offset + 1) + 1) :
            SubSeq(rows, offset + 1, last)[i] = rows[(offset + 1) + i - 1]
    <2>1. offset + 1 \in Int /\ last \in Int
        BY <1>2, <1>6
    <2> QED
        BY <1>8, <2>1, SubSeqProperties
<1>10. DOMAIN Page(rows) = 1..Len(Page(rows))
    BY <1>4, <1>9, LenProperties
<1>11. ASSUME NEW i \in DOMAIN Page(rows)
       PROVE  \E j \in DOMAIN rows : Page(rows)[i] = rows[j]
    <2>1. i \in 1..(last - (offset + 1) + 1) /\ (offset + 1) + i - 1 \in (offset + 1)..last
        BY <1>2, <1>4, <1>6, <1>9, <1>10
    <2> QED
        BY <1>4, <1>8, <1>9, <2>1
<1>12. query.num = 1 /\ query.size >= Len(rows) => Page(rows) = rows
    BY <1>3, <1>4, <1>7, SubSeqFull
<1> QED
    BY <1>4, <1>9, <1>11, <1>12

\* What is loaded are rows of selected articles, and all of them when the first
\* page holds all.
LEMMA LoadedRows ==
    ASSUME ServiceInv, OrderInv, query \in SearchQuery, LoadPage
    PROVE  /\ targets' \in Seq(TargetRow)
           /\ TargetIds' \subseteq Selected
           /\ FirstPageHoldsAll => TargetIds' = Selected
<1> DEFINE page == Page(Matching)
<1>1. page \in Seq(Selected) /\ \A i \in DOMAIN page : page[i] \in Selected
    BY MatchingRows, PageRows, ElementOfSeq, LenProperties
<1>2. targets' = [i \in DOMAIN page |-> Target(page[i])]
    BY DEF LoadPage
<1>3. FirstPageHoldsAll => page = Matching
    <2>1. query.size \in Nat /\ Len(Matching) \in Nat /\ Cardinality(Articles) \in Nat
          /\ Len(Matching) <= Cardinality(Articles)
        BY MatchingRows, PageType
    <2>2. FirstPageHoldsAll => query.num = 1 /\ query.size >= Len(Matching)
        BY <2>1 DEF FirstPageHoldsAll
    <2> QED
        BY <2>2, MatchingRows, PageRows
<1> HIDE DEF page
<1>4. \A a \in Selected : Target(a) \in TargetRow /\ Target(a).id = a
    BY RowsAreCreated DEF Selected, Target, TargetRow, Row
<1>5. targets' \in Seq(TargetRow)
    BY <1>1, <1>2, <1>4, EntrySequence
<1>6. TargetIds' = {page[i] : i \in DOMAIN page}
    BY <1>1, <1>2, <1>4 DEF TargetIds
<1> QED
    BY <1>1, <1>3, <1>5, <1>6, MatchingRows

-----------------------------------------------------------------------------
(* What a query holds at each call. *)

\* While a query's call is made the services stand still.
LEMMA LookupsStandStill ==
    ASSUME UNCHANGED vars
    PROVE  \A v : GetAddressByID(v)' = GetAddressByID(v)
BY DEF vars, walletVars, GetAddressByID

\* A search is not a read.
LEMMA QueryKinds ==
    ASSUME NEW request
    PROVE  ~ (request \in SearchQuery /\ request \in ReadQuery)
<1>1. request \in SearchQuery => request.op = "search"
    BY DEF SearchQuery
<1>2. request \in ReadQuery => request.op = "read"
    BY DEF ReadQuery
<1> QED
    BY <1>1, <1>2

\* A request arrives.
LEMMA BeginQuery ==
    ASSUME QueryInv, UNCHANGED vars, BeginSearch \/ BeginRead
    PROVE  QueryInv'
<1>1. /\ stage = "idle" /\ results = <<>>
      /\ UNCHANGED <<createdAt, address, owned, targets, total, results>>
      /\ \/ query' \in SearchQuery /\ stage' = IF query'.ownedBy = Anyone THEN "load" ELSE "address"
         \/ query' \in ReadQuery /\ stage' = "row"
    BY DEF BeginSearch, BeginRead, Start, QueryInv, StageInv
<1>2. QueriesTypeOK'
    BY <1>1 DEF QueryInv, QueriesTypeOK
<1>3. owned = {}
    BY <1>1 DEF QueryInv, StageInv
<1>4. stage' = "load" => ~OwnerSearch'
    BY <1>1 DEF OwnerSearch
<1>5. StageInv'
    BY <1>1, <1>3, <1>4 DEF StageInv, Searching, Naming
<1>6. OwnerInfoAgrees'
    BY <1>1, LookupsStandStill DEF QueryInv, OwnerInfoAgrees
<1> QED
    BY <1>2, <1>5, <1>6 DEF QueryInv

\* The owner's account and what the chain tells of it.
LEMMA FindQuery ==
    ASSUME ServiceInv, QueryInv, UNCHANGED vars, FindOwner \/ FindOwned
    PROVE  QueryInv'
<1> USE DEF QueryInv, FindOwner, FindOwned, queryVarsButResults
<1>1. UNCHANGED <<createdAt, query, targets, total, results>>
    OBVIOUS
<1>2. /\ stage \in {"address", "owned"}
      /\ query \in SearchQuery /\ query.ownedBy # Anyone
      /\ results = <<>>
    BY DEF StageInv, Searching
<1>3. GetAddressByID(query.ownedBy) \in Accounts \cup {ZeroAddress}
    BY GetAddressByIDType DEF ServiceInv, TypeOK
<1>4. getArticleIdsOwnedBy(address) \subseteq Articles
    BY DEF getArticleIdsOwnedBy, ServiceInv, TypeOK, ContractTypeOK
<1>5. QueriesTypeOK'
    BY <1>1, <1>3, <1>4 DEF QueriesTypeOK
<1>6. GetAddressByID(query.ownedBy)' = GetAddressByID(query.ownedBy)
    BY <1>1, LookupsStandStill
<1>7. StageInv'
    <2>1. CASE FindOwner
        BY <1>1, <1>2, <1>6, <2>1 DEF StageInv, Searching, Naming
    <2>2. CASE FindOwned
        BY <1>1, <1>2, <1>6, <2>2 DEF StageInv, Searching, Naming
    <2> QED
        BY <2>1, <2>2
<1>8. OwnerInfoAgrees'
    BY <1>1, LookupsStandStill DEF OwnerInfoAgrees
<1> QED
    BY <1>5, <1>7, <1>8

\* The page, the count and the entries of a search by owner.
LEMMA LoadQuery ==
    ASSUME ServiceInv, OrderInv, QueryInv, UNCHANGED vars, LoadPage
    PROVE  QueryInv'
<1> USE DEF QueryInv
<1>1. /\ stage = "load" /\ stage' = "count"
      /\ UNCHANGED <<createdAt, query, address, owned, total, results>>
    BY DEF LoadPage
<1>2. query \in SearchQuery /\ results = <<>>
    BY <1>1 DEF StageInv, Searching
<1>3. targets' \in Seq(TargetRow)
    BY <1>2, LoadedRows
<1>4. Len(targets') \in Nat /\ Len(results) = 0
    BY <1>2, <1>3, LenProperties, EmptySeq
<1>5. QueriesTypeOK'
    BY <1>1, <1>3, <1>4 DEF QueriesTypeOK, TargetRow
<1>6. GetAddressByID(query.ownedBy)' = GetAddressByID(query.ownedBy)
    BY <1>1, LookupsStandStill
<1>7. StageInv'
    BY <1>1, <1>2, <1>6 DEF StageInv, Searching, Naming, OwnerSearch
<1>8. OwnerInfoAgrees'
    BY <1>1, LookupsStandStill DEF OwnerInfoAgrees
<1> QED
    BY <1>5, <1>7, <1>8

\* The entries of a search by owner, one for each row.
LEMMA OwnerEntries ==
    ASSUME QueryInv, stage = "count", OwnerSearch, CountMatches
    PROVE  /\ results' \in Seq(EntryRow)
           /\ Len(results') = Len(targets)
           /\ DOMAIN results' = DOMAIN targets
           /\ \A i \in DOMAIN targets :
                results'[i] = Entry(targets[i].id, query.ownedBy, address)
<1>1. results' = [i \in DOMAIN targets |-> Entry(targets[i].id, query.ownedBy, address)]
    BY DEF CountMatches, OwnerSearch
<1>2. targets \in Seq(TargetRow) /\ query.ownedBy \in Users /\ address \in Accounts \cup {ZeroAddress}
    BY DEF QueryInv, QueriesTypeOK, OwnerSearch, SearchQuery, TargetRow
<1>3. \A i \in DOMAIN targets : targets[i] \in TargetRow
    BY <1>2, ElementOfSeq, LenProperties
<1>4. \A i \in DOMAIN targets : Entry(targets[i].id, query.ownedBy, address) \in EntryRow
    BY <1>2, <1>3 DEF Entry, EntryRow, TargetRow
<1> QED
    BY <1>1, <1>2, <1>4, EntrySequence

\* The second SELECT of a search only counts.
LEMMA CountQuery ==
    ASSUME ServiceInv, OrderInv, QueryInv, UNCHANGED vars, CountMatches
    PROVE  QueryInv'
<1> USE DEF QueryInv
<1>1. /\ stage = "count" /\ total' = Len(Matching)
      /\ UNCHANGED <<createdAt, query, address, owned, targets>>
    BY DEF CountMatches
<1>2. query \in SearchQuery /\ results = <<>> /\ total' \in Nat
    BY <1>1, MatchingRows DEF StageInv, Searching
<1>3. Len(targets) \in Nat /\ (targets # <<>> => Len(targets) > 0) /\ Len(results) = 0
    <2>1. targets \in Seq(TargetRow)
        BY DEF QueriesTypeOK, TargetRow
    <2> QED
        BY <1>2, <2>1, EmptySeq, LenProperties
<1>4. CASE ~OwnerSearch
    <2>1. results' = results /\ stage' = IF targets = <<>> THEN "done" ELSE "entries"
        BY <1>2, <1>4 DEF CountMatches, OwnerSearch
    <2>2. QueriesTypeOK'
        BY <1>1, <1>2, <2>1 DEF QueriesTypeOK
    <2>3. ~OwnerSearch'
        BY <1>1, <1>4 DEF OwnerSearch
    <2>4. StageInv'
        BY <1>1, <1>3, <2>1, <2>3 DEF StageInv, Searching, Naming
    <2>5. OwnerInfoAgrees'
        BY <2>1, LookupsStandStill DEF OwnerInfoAgrees
    <2> QED
        BY <2>2, <2>4, <2>5
<1>5. CASE OwnerSearch
    <2>1. stage' = "done"
        BY <1>5 DEF CountMatches, OwnerSearch
    <2>2. results' \in Seq(EntryRow) /\ Len(results') = Len(targets)
        BY <1>1, <1>5, OwnerEntries
    <2>3. QueriesTypeOK'
        BY <1>1, <1>2, <1>3, <2>1, <2>2 DEF QueriesTypeOK, EntryRow
    <2>4. StageInv'
        BY <2>1 DEF StageInv, Searching, Naming
    <2>5. ASSUME NEW i \in DOMAIN results', results'[i].address # ZeroAddress
          PROVE  GetAddressByID(results'[i].owner) = results'[i].address
        <3>1. results'[i].owner = query.ownedBy /\ results'[i].address = address
            BY <1>1, <1>5, OwnerEntries DEF Entry
        <3> QED
            BY <1>1, <1>5, <2>5, <3>1 DEF StageInv
    <2>6. OwnerInfoAgrees'
        BY <2>5, LookupsStandStill DEF OwnerInfoAgrees
    <2> QED
        BY <2>3, <2>4, <2>6
<1> QED
    BY <1>4, <1>5

\* The row of a read.
LEMMA ReadRowQuery ==
    ASSUME ServiceInv, QueryInv, UNCHANGED vars, LoadRow
    PROVE  QueryInv'
<1> USE DEF QueryInv
<1>1. /\ stage = "row"
      /\ UNCHANGED <<createdAt, query, address, owned, total, results>>
    BY DEF LoadRow
<1>2. query \in ReadQuery /\ query.id \in Articles /\ results = <<>> /\ Len(results) = 0
    BY <1>1, EmptySeq DEF StageInv, ReadQuery
<1>3. \/ stage' = "not found" /\ targets' = targets
      \/ stage' = "entries" /\ targets' \in Seq(TargetRow) /\ Len(targets') = 1
    <2>1. CASE articles[query.id] = NoRow
        BY <2>1 DEF LoadRow
    <2>2. CASE articles[query.id] # NoRow
        <3> DEFINE t == Target(query.id)
        <3>1. t \in TargetRow
            BY <1>2, <2>2, RowsAreCreated DEF Target, TargetRow, Row
        <3>2. targets' = <<t>> /\ stage' = "entries"
            BY <2>2 DEF LoadRow
        <3> HIDE DEF t
        <3> QED
            BY <3>1, <3>2
    <2> QED
        BY <2>1, <2>2
<1>4. /\ targets' \in Seq(TargetRow) /\ Len(results) <= Len(targets')
      /\ stage' \in {"not found", "entries"}
      /\ stage' = "entries" => Len(results) < Len(targets')
    <2>1. CASE stage' = "not found" /\ targets' = targets
        BY <2>1 DEF QueriesTypeOK, TargetRow
    <2>2. CASE stage' = "entries" /\ targets' \in Seq(TargetRow) /\ Len(targets') = 1
        BY <1>2, <2>2
    <2> QED
        BY <1>3, <2>1, <2>2
<1>5. ~OwnerSearch'
    BY <1>1, <1>2, QueryKinds DEF OwnerSearch
<1>6. StageInv'
    BY <1>1, <1>4, <1>5 DEF StageInv, Searching, Naming
<1>7. QueriesTypeOK'
    BY <1>1, <1>4 DEF QueriesTypeOK, TargetRow
<1>8. OwnerInfoAgrees'
    BY <1>1, LookupsStandStill DEF OwnerInfoAgrees
<1> QED
    BY <1>6, <1>7, <1>8

\* The row an owner is named for next.
LEMMA CurrentType ==
    ASSUME QueryInv, stage \in Naming
    PROVE  Current \in TargetRow /\ ~OwnerSearch /\ Len(results) < Len(targets)
<1>1. targets \in Seq(TargetRow) /\ results \in Seq(EntryRow) /\ Len(results) < Len(targets)
    BY DEF QueryInv, QueriesTypeOK, StageInv, TargetRow, EntryRow
<1>2. Len(results) + 1 \in 1..Len(targets)
    BY <1>1, LenProperties
<1>3. Current \in TargetRow
    BY <1>1, <1>2, ElementOfSeq DEF Current
<1> QED
    BY <1>1, <1>3 DEF QueryInv, StageInv

\* One more entry, of which owner and account belong together.
LEMMA EntryAdded ==
    ASSUME QueryInv, UNCHANGED vars, stage \in Naming,
           UNCHANGED <<queryVarsButResults, address>>,
           NEW entry \in EntryRow, AddEntry(entry),
           entry.address # ZeroAddress => GetAddressByID(entry.owner) = entry.address
    PROVE  QueryInv'
<1> USE DEF queryVarsButResults
<1>1. Len(results) < Len(targets) /\ ~OwnerSearch
    BY CurrentType
<1>2. results \in Seq(EntryRow) /\ targets \in Seq(TargetRow)
    BY DEF QueryInv, QueriesTypeOK, EntryRow, TargetRow
<1>3. /\ results' \in Seq(EntryRow)
      /\ Len(results') = Len(results) + 1
      /\ \A i \in 1..Len(results) : results'[i] = results[i]
      /\ results'[Len(results) + 1] = entry
    BY <1>2, AppendProperties DEF AddEntry
<1>4. /\ Len(results) \in Nat /\ Len(targets) \in Nat
      /\ DOMAIN results = 1..Len(results) /\ DOMAIN results' = 1..Len(results')
    BY <1>2, <1>3, LenProperties
<1>5. /\ stage' \in {"done", "entries"}
      /\ stage' = "entries" => Len(results') < Len(targets)
      /\ Len(results') <= Len(targets)
    BY <1>1, <1>3, <1>4 DEF AddEntry
<1>6. QueriesTypeOK'
    BY <1>3, <1>5 DEF QueryInv, QueriesTypeOK, EntryRow
<1>7. ~OwnerSearch'
    BY <1>1 DEF OwnerSearch
<1>8. StageInv'
    BY <1>5, <1>7 DEF StageInv, Searching, Naming
<1>9. ASSUME NEW i \in DOMAIN results', results'[i].address # ZeroAddress
      PROVE  GetAddressByID(results'[i].owner) = results'[i].address
    <2>1. CASE i = Len(results) + 1
        BY <1>3, <1>9, <2>1
    <2>2. CASE i # Len(results) + 1
        BY <1>3, <1>4, <1>9, <2>2 DEF QueryInv, OwnerInfoAgrees
    <2> QED
        BY <2>1, <2>2
<1>10. OwnerInfoAgrees'
    BY <1>9, LookupsStandStill DEF OwnerInfoAgrees
<1> QED
    BY <1>6, <1>8, <1>10 DEF QueryInv

\* A step that ends a query or asks the chain builds no entry.
LEMMA NothingAdded ==
    ASSUME QueryInv, UNCHANGED vars, stage \in Naming,
           UNCHANGED <<queryVarsButResults, results>>,
           address' \in Accounts \cup {ZeroAddress},
           stage' \in {"failed", "holder"}
    PROVE  QueryInv'
<1> USE DEF queryVarsButResults
<1>1. QueriesTypeOK'
    BY DEF QueryInv, QueriesTypeOK
<1>2. Len(results) < Len(targets) /\ ~OwnerSearch
    BY CurrentType
<1>3. ~OwnerSearch'
    BY <1>2 DEF OwnerSearch
<1>4. StageInv'
    BY <1>2, <1>3 DEF StageInv, Searching, Naming
<1>5. OwnerInfoAgrees'
    BY LookupsStandStill DEF QueryInv, OwnerInfoAgrees
<1> QED
    BY <1>1, <1>4, <1>5 DEF QueryInv

\* The owner of one entry after another.
LEMMA NameQuery ==
    ASSUME ServiceInv, QueryInv, UNCHANGED vars, ReadTokenHolder \/ NameHolder \/ NameAuthor
    PROVE  QueryInv'
<1>1. stage \in Naming
    BY DEF ReadTokenHolder, NameHolder, NameAuthor, Naming
<1>2. Current \in TargetRow /\ Current.id \in Articles /\ Current.author \in Users
    BY <1>1, CurrentType DEF TargetRow
<1>3. address \in Accounts \cup {ZeroAddress}
    BY DEF QueryInv, QueriesTypeOK
<1>4. CASE ReadTokenHolder
    <2>1. getOwnerOfArticle(Current.id) \in Accounts \cup {ZeroAddress}
        BY <1>2, OwnerType DEF ServiceInv, TypeOK
    <2>2. /\ address' \in Accounts \cup {ZeroAddress} /\ stage' \in {"failed", "holder"}
          /\ UNCHANGED <<queryVarsButResults, results>>
        BY <1>4, <2>1 DEF ReadTokenHolder
    <2> QED
        BY <1>1, <2>2, NothingAdded
<1>5. CASE NameHolder
    <2> DEFINE u == GetIDByAddress(address)
               entry == Entry(Current.id, u, address)
    <2>1. UNCHANGED <<queryVarsButResults, address>>
        BY <1>5 DEF NameHolder
    <2>2. CASE u = NoUser
        <3>1. stage' = "failed" /\ UNCHANGED results
            BY <1>5, <2>2 DEF NameHolder
        <3> QED
            BY <1>1, <1>3, <2>1, <3>1, NothingAdded
    <2>3. CASE u # NoUser
        <3>1. u \in Users /\ GetAddressByID(u) = address
            BY <1>3, <2>3, FoundUserHasTheWallet DEF ServiceInv
        <3>2. AddEntry(entry)
            BY <1>5, <2>3 DEF NameHolder
        <3> HIDE DEF u
        <3>3. entry \in EntryRow /\ entry.owner = u /\ entry.address = address
            BY <1>2, <1>3, <3>1 DEF Entry, EntryRow
        <3> HIDE DEF entry
        <3> QED
            BY <1>1, <2>1, <3>1, <3>2, <3>3, EntryAdded
    <2> QED
        BY <2>2, <2>3
<1>6. CASE NameAuthor
    <2> DEFINE u == Current.author
               entry == Entry(Current.id, u, GetAddressByID(u))
    <2>1. UNCHANGED <<queryVarsButResults, address>>
        BY <1>6 DEF NameAuthor
    <2>2. GetAddressByID(u) \in Accounts \cup {ZeroAddress}
        BY GetAddressByIDType DEF ServiceInv, TypeOK
    <2>3. (stage' = "failed" /\ UNCHANGED results) \/ AddEntry(entry)
        BY <1>6 DEF NameAuthor
    <2>4. entry \in EntryRow /\ entry.owner = u /\ entry.address = GetAddressByID(u)
        BY <1>2, <2>2 DEF Entry, EntryRow
    <2> HIDE DEF u, entry
    <2>5. CASE stage' = "failed" /\ UNCHANGED results
        BY <1>1, <1>3, <2>1, <2>5, NothingAdded
    <2>6. CASE AddEntry(entry)
        BY <1>1, <2>1, <2>4, <2>6, EntryAdded
    <2> QED
        BY <2>3, <2>5, <2>6
<1> QED
    BY <1>4, <1>5, <1>6

\* Whatever the services do, an account that was found stays the user's.
LEMMA SystemQuery ==
    ASSUME ServiceInv, QueryInv, OrderInv', SystemStep
    PROVE  QueryInv'
<1>1. UNCHANGED <<stage, query, address, owned, targets, total, results>>
    BY DEF SystemStep
<1>2. \A v : GetAddressByID(v) # ZeroAddress => GetAddressByID(v)' = GetAddressByID(v)
    BY NextAddressStays DEF SystemStep, ServiceInv
<1>3. QueriesTypeOK'
    BY <1>1 DEF QueryInv, QueriesTypeOK, OrderInv
<1>4. GetAddressByID(query.ownedBy) # ZeroAddress =>
            GetAddressByID(query.ownedBy)' = GetAddressByID(query.ownedBy)
    BY <1>1, <1>2 DEF GetAddressByID
<1>6. OwnerSearch' <=> OwnerSearch
    BY <1>1 DEF OwnerSearch
<1>7. StageInv'
    BY <1>1, <1>4, <1>6 DEF QueryInv, StageInv
<1>8. OwnerInfoAgrees'
    BY <1>1, <1>2 DEF QueryInv, OwnerInfoAgrees
<1> QED
    BY <1>3, <1>7, <1>8 DEF QueryInv

\* What a query holds is kept by every step.
LEMMA QueriesKept == QueriesSpec => []QueryInv
<1>1. QueriesInit => QueryInv
    <2> SUFFICES ASSUME QueriesInit PROVE QueryInv
        OBVIOUS
    <2>1. results = <<>> /\ targets = <<>> /\ stage = "idle" /\ owned = {}
        BY DEF QueriesInit
    <2>2. QueriesTypeOK
        BY <2>1 DEF QueriesInit, QueriesTypeOK
    <2>3. StageInv /\ OwnerInfoAgrees
        BY <2>1 DEF StageInv, OwnerInfoAgrees, Searching, Naming
    <2> QED
        BY <2>2, <2>3 DEF QueryInv
<1>2. ServiceInv /\ OrderInv /\ OrderInv' /\ QueryInv
        /\ [QueriesNext]_<<vars, queryVars, kept, ever>> => QueryInv'
    <2> SUFFICES ASSUME ServiceInv, OrderInv, OrderInv', QueryInv,
                        [QueriesNext]_<<vars, queryVars, kept, ever>>
                 PROVE  QueryInv'
        OBVIOUS
    <2>1. CASE QueryStep /\ UNCHANGED vars
        BY <2>1, BeginQuery, FindQuery, LoadQuery, CountQuery, ReadRowQuery, NameQuery
           DEF QueryStep
    <2>2. CASE SystemStep
        BY <2>2, SystemQuery
    <2>3. CASE UNCHANGED <<vars, queryVars>>
        <3>1. UNCHANGED <<createdAt, stage, query, address, owned, targets, total, results>>
            BY <2>3 DEF queryVars
        <3>2. \A v : GetAddressByID(v)' = GetAddressByID(v)
            BY <2>3, LookupsStandStill
        <3>3. QueriesTypeOK' /\ (OwnerSearch' <=> OwnerSearch)
            BY <3>1 DEF QueryInv, QueriesTypeOK, OwnerSearch
        <3>4. StageInv'
            BY <3>1, <3>2, <3>3 DEF QueryInv, StageInv
        <3>5. OwnerInfoAgrees'
            BY <3>1, <3>2 DEF QueryInv, OwnerInfoAgrees
        <3> QED
            BY <3>3, <3>4, <3>5 DEF QueryInv
    <2> QED
        BY <2>1, <2>2, <2>3 DEF QueriesNext
<1> QED
    BY <1>1, <1>2, ServicesKept, OrderKept, PTL DEF QueriesSpec

\* An answer is never made of what a lookup gives for nobody, whatever happens
\* between the calls of a query.
THEOREM QueriesTypeCorrect == QueriesSpec => []QueriesTypeOK
<1>1. QueryInv => QueriesTypeOK
    BY DEF QueryInv
<1> QED
    BY <1>1, QueriesKept, PTL

\* The owner and the address of an answer's entry belong together, then and ever
\* after.
THEOREM OwnerInfoAgreesAlways == QueriesSpec => []OwnerInfoAgrees
<1>1. QueryInv => OwnerInfoAgrees
    BY DEF QueryInv
<1> QED
    BY <1>1, QueriesKept, PTL

-----------------------------------------------------------------------------
(* What the answer to a search by owner has to do with the owner.  The calls *)
(* to the chain and to the database are made at different moments, so the    *)
(* invariant brackets what each of them tells by the history of the claims.  *)

\* The articles an account holds, asked article by article or all at once.
LEMMA HoldingsAgree ==
    ASSUME ServiceInv, NEW acct \in Accounts
    PROVE  getArticleIdsOwnedBy(acct) = {a \in Articles : getOwnerOfArticle(a) = acct}
<1>1. ASSUME NEW a \in getArticleIdsOwnedBy(acct)
      PROVE  a \in Articles /\ getOwnerOfArticle(a) = acct
    <2>1. PICK t \in Tokens : ownerOf[t] = acct /\ a = tokenURI[t]
        BY DEF getArticleIdsOwnedBy
    <2>2. a \in Articles /\ tokenIdOf[a] = t /\ t # 0
        BY <2>1 DEF ServiceInv, TokensMatchArticles, TypeOK, ContractTypeOK, Tokens
    <2> QED
        BY <2>1, <2>2 DEF getOwnerOfArticle
<1>2. ASSUME NEW a \in Articles, getOwnerOfArticle(a) = acct
      PROVE  a \in getArticleIdsOwnedBy(acct)
    <2>1. tokenIdOf[a] # 0 /\ ownerOf[tokenIdOf[a]] = acct
        BY <1>2 DEF getOwnerOfArticle
    <2>2. tokenIdOf[a] \in Tokens /\ tokenURI[tokenIdOf[a]] = a
        BY <2>1 DEF ServiceInv, TokensMatchArticles, TypeOK, ContractTypeOK, Tokens
    <2> QED
        BY <2>1, <2>2 DEF getArticleIdsOwnedBy
<1> QED
    BY <1>1, <1>2

OwnersOwnCreated ==
    Claims(query.ownedBy).held \cup Claims(query.ownedBy).written \subseteq Created

\* Only articles that were created are anyone's.
LEMMA ClaimsAreCreated == ServiceInv => OwnersOwnCreated
<1> SUFFICES ASSUME ServiceInv PROVE OwnersOwnCreated
    OBVIOUS
<1> DEFINE u == query.ownedBy
<1>1. ASSUME NEW a \in Claims(u).held PROVE a \in Created
    <2>1. a \in Articles /\ getOwnerOfArticle(a) # ZeroAddress
        BY <1>1 DEF Claims
    <2> QED
        BY <2>1 DEF getOwnerOfArticle, ServiceInv, TokensNameCreated, Created
<1>2. ASSUME NEW a \in Claims(u).written PROVE a \in Created
    BY <1>2, RowsAreCreated DEF Claims
<1> QED
    BY <1>1, <1>2 DEF OwnersOwnCreated

\* While a search is made, the history brackets what its owner has...
LEMMA ClaimsBracketed ==
    ASSUME TrackClaims, OwnerSearch', ~Answered
    PROVE  /\ kept'.held \subseteq Claims(query.ownedBy).held'
           /\ kept'.written \subseteq Claims(query.ownedBy).written'
           /\ Claims(query.ownedBy).held' \subseteq ever'.held
           /\ Claims(query.ownedBy).written' \subseteq ever'.written
<1> DEFINE now == Claims(query.ownedBy)'
<1>1. /\ kept' = IF stage = "idle" THEN now ELSE Both(kept, now)
      /\ ever' = IF stage = "idle" THEN now ELSE Either(ever, now)
    BY DEF TrackClaims
<1> HIDE DEF now
<1>2. /\ kept'.held \subseteq now.held /\ kept'.written \subseteq now.written
      /\ now.held \subseteq ever'.held /\ now.written \subseteq ever'.written
    BY <1>1 DEF Both, Either
<1> QED
    BY <1>2 DEF now

\* ...and what was kept only shrinks and what was ever had only grows.
LEMMA HistoryMonotonic ==
    ASSUME TrackClaims, stage # "idle"
    PROVE  /\ kept'.held \subseteq kept.held /\ kept'.written \subseteq kept.written
           /\ ever.held \subseteq ever'.held /\ ever.written \subseteq ever'.written
BY DEF TrackClaims, Both, Either

\* What is no search by owner has no history.
LEMMA OtherHistory ==
    ASSUME ~OwnerSearch'
    PROVE  HistoryInv'
BY DEF HistoryInv

\* The history begins with the request.
LEMMA BeginHistory ==
    ASSUME ServiceInv', QueryInv, TrackClaims, BeginSearch \/ BeginRead
    PROVE  HistoryInv'
<1> SUFFICES ASSUME OwnerSearch' PROVE HistoryInv'
    BY OtherHistory
<1>1. stage = "idle" /\ stage' = "address"
    BY QueryKinds DEF BeginSearch, BeginRead, Start, OwnerSearch
<1>2. ~Answered
    BY <1>1 DEF Answered
<1>3. OwnersOwnCreated'
    BY ClaimsAreCreated, PTL
<1> QED
    BY <1>1, <1>2, <1>3, ClaimsBracketed DEF HistoryInv, OwnersOwnCreated, Searching

\* While a query's call is made the claims stand still.
LEMMA ClaimsStandStill ==
    ASSUME UNCHANGED vars, UNCHANGED query
    PROVE  Claims(query.ownedBy)' = Claims(query.ownedBy)
BY DEF vars, walletVars, contractVars, storeVars, Claims, GetAddressByID, getOwnerOfArticle

\* The owner's account is found, and then all that it holds.
LEMMA FindHistory ==
    ASSUME ServiceInv, ServiceInv', QueryInv, HistoryInv, UNCHANGED vars, TrackClaims,
           FindOwner \/ FindOwned
    PROVE  HistoryInv'
<1> SUFFICES ASSUME OwnerSearch' PROVE HistoryInv'
    BY OtherHistory
<1>1. /\ UNCHANGED query
      /\ stage \in {"address", "owned"} /\ ~Answered /\ stage # "idle"
    BY DEF FindOwner, FindOwned, queryVarsButResults, Answered
<1>2. /\ kept'.held \subseteq Claims(query.ownedBy).held
      /\ kept'.written \subseteq Claims(query.ownedBy).written
      /\ Claims(query.ownedBy).held \subseteq ever'.held
      /\ Claims(query.ownedBy).written \subseteq ever'.written
      /\ Claims(query.ownedBy)' = Claims(query.ownedBy)
    BY <1>1, ClaimsBracketed, ClaimsStandStill
<1>3. OwnersOwnCreated'
    BY ClaimsAreCreated, PTL
<1>4. kept'.held \cup kept'.written \subseteq Created'
    BY <1>2, <1>3 DEF OwnersOwnCreated
<1>5. stage' \in {"owned", "load"}
    BY DEF FindOwner, FindOwned
<1>6. stage' = "load" => kept'.held \subseteq owned' /\ owned' \subseteq ever'.held
    <2>1. CASE FindOwner
        <3>1. owned' = {} /\ (stage' = "load" => GetAddressByID(query.ownedBy) = ZeroAddress)
            BY <2>1 DEF FindOwner, queryVarsButResults, QueryInv, StageInv
        <3>2. stage' = "load" => Claims(query.ownedBy).held = {}
            BY <3>1 DEF Claims
        <3> QED
            BY <1>2, <3>1, <3>2
    <2>2. CASE FindOwned
        <3>1. /\ owned' = getArticleIdsOwnedBy(address)
              /\ address = GetAddressByID(query.ownedBy) /\ address # ZeroAddress
              /\ address \in Accounts
            BY <2>2 DEF FindOwned, QueryInv, StageInv, QueriesTypeOK
        <3>2. owned' = Claims(query.ownedBy).held
            BY <3>1, HoldingsAgree DEF Claims
        <3> QED
            BY <1>2, <3>2
    <2> QED
        BY <2>1, <2>2
<1> QED
    BY <1>2, <1>4, <1>5, <1>6 DEF HistoryInv

\* The rows that are loaded are the account's tokens and what the owner wrote.
LEMMA LoadHistory ==
    ASSUME ServiceInv, ServiceInv', OrderInv, QueryInv, HistoryInv, UNCHANGED vars, TrackClaims,
           LoadPage
    PROVE  HistoryInv'
<1> SUFFICES ASSUME OwnerSearch' PROVE HistoryInv'
    BY OtherHistory
<1>1. /\ UNCHANGED <<query, owned, articles>>
      /\ stage = "load" /\ stage' = "count" /\ ~Answered /\ OwnerSearch
    BY DEF LoadPage, Answered, OwnerSearch, vars, storeVars
<1>2. /\ kept'.held \subseteq Claims(query.ownedBy).held
      /\ kept'.written \subseteq Claims(query.ownedBy).written
      /\ Claims(query.ownedBy).held \subseteq ever'.held
      /\ Claims(query.ownedBy).written \subseteq ever'.written
      /\ Claims(query.ownedBy)' = Claims(query.ownedBy)
    BY <1>1, ClaimsBracketed, ClaimsStandStill
<1>3. OwnersOwnCreated'
    BY ClaimsAreCreated, PTL
<1>4. kept'.held \cup kept'.written \subseteq Created'
    BY <1>2, <1>3 DEF OwnersOwnCreated
<1>5. /\ kept'.held \subseteq owned
      /\ owned \subseteq ever'.held
    BY <1>1, HistoryMonotonic DEF HistoryInv
<1>6. /\ TargetIds' \subseteq Selected
      /\ FirstPageHoldsAll => TargetIds' = Selected
    BY <1>1, LoadedRows DEF OwnerSearch
<1>7. \A a \in Articles :
        a \in Selected <=> /\ articles[a] # NoRow /\ HasKeywords(a)
                           /\ a \in owned \/ a \in Claims(query.ownedBy).written
    BY <1>1 DEF Selected, IsOwned, OwnerSearch, Claims
<1>8. TargetIds' \subseteq ever'.held \cup ever'.written
    BY <1>2, <1>5, <1>6, <1>7 DEF Selected
<1>9. ASSUME FirstPageHoldsAll, query.keywords = {},
             NEW a \in kept'.held \cup kept'.written, articles[a] # NoRow
      PROVE  a \in TargetIds'
    <2>1. a \in Articles
        BY <1>4 DEF Created
    <2>2. a \in owned \/ a \in Claims(query.ownedBy).written
        BY <1>2, <1>5
    <2>3. HasKeywords(a)
        BY <1>9 DEF HasKeywords
    <2> QED
        BY <1>6, <1>7, <1>9, <2>1, <2>2, <2>3
<1>10. FirstPageHoldsAll' <=> FirstPageHoldsAll
    BY <1>1 DEF FirstPageHoldsAll
<1> QED
    BY <1>1, <1>2, <1>4, <1>8, <1>9, <1>10 DEF HistoryInv

\* The entries of the answer are the rows.
LEMMA CountHistory ==
    ASSUME ServiceInv, ServiceInv', QueryInv, HistoryInv, UNCHANGED vars, TrackClaims,
           CountMatches
    PROVE  HistoryInv'
<1> SUFFICES ASSUME OwnerSearch' PROVE HistoryInv'
    BY OtherHistory
<1>1. /\ UNCHANGED <<query, targets, articles, creator>>
      /\ stage = "count" /\ stage' = "done" /\ OwnerSearch
    BY DEF CountMatches, OwnerSearch, vars, storeVars
<1>2. /\ kept'.held \subseteq kept.held /\ kept'.written \subseteq kept.written
      /\ ever.held \subseteq ever'.held /\ ever.written \subseteq ever'.written
    BY <1>1, HistoryMonotonic
<1>3. /\ TargetIds' = TargetIds /\ Created' = Created
      /\ FirstPageHoldsAll' <=> FirstPageHoldsAll
    BY <1>1 DEF TargetIds, Created, FirstPageHoldsAll
<1>4. Listed' = TargetIds
    <2>1. /\ DOMAIN results' = DOMAIN targets
          /\ \A i \in DOMAIN targets : results'[i].id = targets[i].id
        BY <1>1, OwnerEntries DEF Entry
    <2> QED
        BY <2>1 DEF Listed, TargetIds
<1> QED
    BY <1>1, <1>2, <1>3, <1>4 DEF HistoryInv, Searching

\* What the services do moves the claims, and the history with them.
LEMMA SystemHistory ==
    ASSUME ServiceInv, ServiceInv', QueryInv, HistoryInv, TrackClaims, SystemStep
    PROVE  HistoryInv'
<1> SUFFICES ASSUME OwnerSearch' PROVE HistoryInv'
    BY OtherHistory
<1>1. /\ UNCHANGED <<stage, query, address, owned, targets, total, results>>
      /\ OwnerSearch
    BY DEF SystemStep, OwnerSearch
<1>2. /\ \A a \in Created : a \in Created'
      /\ \A a \in Created : articles'[a] # NoRow => articles[a] # NoRow
    <2>1. IdentityKept
        BY NextKeepsIdentity DEF SystemStep, ServiceInv
    <2> QED
        BY <2>1 DEF IdentityKept, Created
<1>3. stage # "idle" =>
        /\ kept'.held \subseteq kept.held /\ kept'.written \subseteq kept.written
        /\ ever.held \subseteq ever'.held /\ ever.written \subseteq ever'.written
    BY HistoryMonotonic
<1>4. stage \in Searching =>
        /\ kept'.held \subseteq Claims(query.ownedBy).held'
        /\ kept'.written \subseteq Claims(query.ownedBy).written'
        /\ Claims(query.ownedBy).held' \subseteq ever'.held
        /\ Claims(query.ownedBy).written' \subseteq ever'.written
    BY ClaimsBracketed DEF Searching, Answered
<1>5. /\ TargetIds' = TargetIds /\ Listed' = Listed
      /\ FirstPageHoldsAll' <=> FirstPageHoldsAll
    BY <1>1 DEF TargetIds, Listed, FirstPageHoldsAll
<1>6. stage # "idle" => kept.held \cup kept.written \subseteq Created
    BY <1>1 DEF HistoryInv
<1>7. stage # "idle" => kept'.held \cup kept'.written \subseteq Created'
    BY <1>2, <1>3, <1>6
<1>8. stage = "load" => kept'.held \subseteq owned /\ owned \subseteq ever'.held
    BY <1>1, <1>3 DEF HistoryInv
<1>9. stage \in {"count", "done"} => TargetIds \subseteq ever'.held \cup ever'.written
    BY <1>1, <1>3 DEF HistoryInv
<1>10. stage \in {"count", "done"} /\ FirstPageHoldsAll /\ query.keywords = {} =>
            \A a \in kept'.held \cup kept'.written : articles'[a] # NoRow => a \in TargetIds
    BY <1>1, <1>2, <1>3, <1>6 DEF HistoryInv
<1>11. stage = "done" => Listed = TargetIds
    BY <1>1 DEF HistoryInv
<1> QED
    BY <1>1, <1>4, <1>5, <1>7, <1>8, <1>9, <1>10, <1>11 DEF HistoryInv

\* The history and what is known of it are kept by every step.
LEMMA HistoryKept == QueriesSpec => []HistoryInv
<1>1. QueriesInit => HistoryInv
    <2> SUFFICES ASSUME QueriesInit PROVE HistoryInv
        OBVIOUS
    <2>1. stage = "idle"
        BY DEF QueriesInit
    <2> QED
        BY <2>1 DEF HistoryInv, Searching
<1>2. ServiceInv /\ ServiceInv' /\ OrderInv /\ QueryInv /\ HistoryInv
        /\ [QueriesNext]_<<vars, queryVars, kept, ever>> => HistoryInv'
    <2> SUFFICES ASSUME ServiceInv, ServiceInv', OrderInv, QueryInv, HistoryInv,
                        [QueriesNext]_<<vars, queryVars, kept, ever>>
                 PROVE  HistoryInv'
        OBVIOUS
    <2>1. ASSUME QueryStep, UNCHANGED vars, TrackClaims
          PROVE  HistoryInv'
        <3>1. ASSUME LoadRow \/ ReadTokenHolder \/ NameHolder \/ NameAuthor
              PROVE  ~OwnerSearch'
            <4>1. UNCHANGED query /\ (stage = "row" \/ stage \in Naming)
                BY <3>1 DEF LoadRow, ReadTokenHolder, NameHolder, NameAuthor, queryVarsButResults,
                   Naming
            <4>2. ~OwnerSearch
                BY <4>1, QueryKinds DEF QueryInv, StageInv, OwnerSearch
            <4> QED
                BY <4>1, <4>2 DEF OwnerSearch
        <3> QED
            BY <2>1, <3>1, BeginHistory, FindHistory, LoadHistory, CountHistory, OtherHistory
               DEF QueryStep
    <2>2. ASSUME SystemStep, TrackClaims
          PROVE  HistoryInv'
        BY <2>2, SystemHistory
    <2>3. CASE UNCHANGED <<vars, queryVars, kept, ever>>
        <3>1. /\ UNCHANGED <<stage, query, owned, targets, results, kept, ever, articles, creator>>
              /\ UNCHANGED vars
            BY <2>3 DEF queryVars, vars, storeVars
        <3>2. Claims(query.ownedBy)' = Claims(query.ownedBy)
            BY <3>1, ClaimsStandStill
        <3>3. /\ TargetIds' = TargetIds /\ Listed' = Listed /\ Created' = Created
              /\ FirstPageHoldsAll' <=> FirstPageHoldsAll
              /\ OwnerSearch' <=> OwnerSearch
            BY <3>1 DEF TargetIds, Listed, Created, FirstPageHoldsAll, OwnerSearch
        <3> QED
            BY <3>1, <3>2, <3>3 DEF HistoryInv
    <2> QED
        BY <2>1, <2>2, <2>3 DEF QueriesNext
<1> QED
    BY <1>1, <1>2, ServicesKept, OrderKept, QueriesKept, PTL DEF QueriesSpec

\* A search by owner is answered with nothing that was at no moment of it the
\* owner's, whatever is minted, transferred, deleted or registered meanwhile.
THEOREM ListedArticlesWereOwnedAlways == QueriesSpec => []ListedArticlesWereOwned
<1>1. HistoryInv => ListedArticlesWereOwned
    BY DEF HistoryInv, ListedArticlesWereOwned
<1> QED
    BY <1>1, HistoryKept, PTL

\* And with everything that was the owner's in one way all along.
THEOREM KeptArticlesListedAlways == QueriesSpec => []KeptArticlesListed
<1>1. HistoryInv => KeptArticlesListed
    BY DEF HistoryInv, KeptArticlesListed
<1> QED
    BY <1>1, HistoryKept, PTL
=============================================================================
