--------------------------- MODULE ArticleQueries ---------------------------
(***************************************************************************)
(* SearchForArticles (services/search.go) and Read (services/articles.go)  *)
(* while the articles and nfts services, the chain and the wallet table go *)
(* on.  A query writes nothing, so one query at a time is enough; each of  *)
(* its calls is a step, and its two SELECTs are not in a transaction.      *)
(*                                                                         *)
(* A search is sorted by created_at, the default; two articles never have  *)
(* the same one.  A keyword is a title or a content, matched as a whole.   *)
(***************************************************************************)
EXTENDS ArticleService, Sequences, FiniteSets

CONSTANTS
    Anyone,      \* owned_by left out
    PageSizes, PageNums,
    KeywordSets  \* what a search may look for

ASSUME AnyoneAssumption == Anyone \notin Users
ASSUME IdAssumption == IsFiniteSet(Articles)
ASSUME PageAssumption == PageSizes \subseteq Nat \ {0} /\ PageNums \subseteq Nat \ {0}

VARIABLES
    createdAt,   \* the column of the articles created so far, 0 for an unused id
    stage,       \* the call the query makes next
    query,       \* the request
    address,     \* ownedByAddr, or the holder of the entry at hand
    owned,       \* ownedArticleIDs
    targets,     \* the rows loaded
    total,       \* totalCount
    results,     \* the entries built so far
    kept, ever   \* history: what the user asked about has had all along, at any time

queryVars == <<createdAt, stage, query, address, owned, targets, total, results>>
queryVarsButResults == <<createdAt, query, owned, targets, total>>

SearchQuery == [op: {"search"}, ownedBy: Users \cup {Anyone},
                keywords: KeywordSets, num: PageNums, size: PageSizes]
ReadQuery == [op: {"read"}, id: Articles]

Answered == stage \in {"done", "failed", "not found"}

NoClaims == [held |-> {}, written |-> {}]

QueriesInit ==
    /\ Init
    /\ createdAt = [a \in Articles |-> 0]
    /\ stage = "idle"
    /\ query = NoRequest
    /\ address = ZeroAddress
    /\ owned = {}
    /\ targets = <<>>
    /\ total = 0
    /\ results = <<>>
    /\ kept = NoClaims
    /\ ever = NoClaims

-----------------------------------------------------------------------------
(* The query that is built.                                                *)

\* Mutant of IsOwned: an article that is tokenized still counts for its author.
IsOwnedOrWritten(a) ==
    \/ query.ownedBy = Anyone
    \/ a \in owned
    \/ articles[a].author = query.ownedBy

IsOwned(a) ==
    \/ query.ownedBy = Anyone
    \/ a \in owned
    \/ ~articles[a].tokenized /\ articles[a].author = query.ownedBy

HasKeywords(a) == query.keywords \subseteq {documents[a].title, documents[a].content}

\* The rows baseQuery selects, in order.
Selected == {a \in Articles : articles[a] # NoRow /\ IsOwned(a) /\ HasKeywords(a)}

InOrder(rows) == \A i, j \in DOMAIN rows : i < j => createdAt[rows[i]] < createdAt[rows[j]]

Matching == CHOOSE rows \in [1..Cardinality(Selected) -> Selected] : InOrder(rows)

\* OFFSET and LIMIT.
Page(rows) ==
    LET offset == (query.num - 1) * query.size
    IN  SubSeq(rows, offset + 1, IF offset + query.size < Len(rows)
                                 THEN offset + query.size ELSE Len(rows))

Target(a) == [id |-> a, author |-> articles[a].author, tokenized |-> articles[a].tokenized]

Entry(a, u, acct) == [id |-> a, owner |-> u, address |-> acct]

-----------------------------------------------------------------------------
(* SearchForArticles.                                                      *)
Start(request, first) ==
    /\ stage = "idle"
    /\ query' = request
    /\ stage' = first
    /\ UNCHANGED <<createdAt, address, owned, targets, total, results>>

BeginSearch ==
    \E request \in SearchQuery :
        Start(request, IF request.ownedBy = Anyone THEN "load" ELSE "address")

\* GetAddressByID of owned_by; a user without a wallet owns no token.
FindOwner ==
    /\ stage = "address"
    /\ address' = GetAddressByID(query.ownedBy)
    /\ stage' = IF GetAddressByID(query.ownedBy) = ZeroAddress THEN "load" ELSE "owned"
    /\ UNCHANGED <<queryVarsButResults, results>>

\* Mutant of FindOwned: the chain is not asked.
FindNothing ==
    /\ stage = "owned"
    /\ stage' = "load"
    /\ UNCHANGED <<queryVarsButResults, address, results>>

FindOwned ==
    /\ stage = "owned"
    /\ owned' = getArticleIdsOwnedBy(address)
    /\ stage' = "load"
    /\ UNCHANGED <<createdAt, query, address, targets, total, results>>

LoadPage ==
    /\ stage = "load"
    /\ targets' = [i \in DOMAIN Page(Matching) |-> Target(Page(Matching)[i])]
    /\ stage' = "count"
    /\ UNCHANGED <<createdAt, query, address, owned, total, results>>

\* The entries of a search by owner need no further call.
CountMatches ==
    /\ stage = "count"
    /\ total' = Len(Matching)
    /\ IF query.ownedBy = Anyone
       THEN /\ stage' = IF targets = <<>> THEN "done" ELSE "entries"
            /\ UNCHANGED results
       ELSE /\ stage' = "done"
            /\ results' = [i \in DOMAIN targets |->
                              Entry(targets[i].id, query.ownedBy, address)]
    /\ UNCHANGED <<createdAt, query, address, owned, targets>>

-----------------------------------------------------------------------------
(* Read, and the owner of one entry after another.                         *)
BeginRead ==
    \E request \in ReadQuery : Start(request, "row")

LoadRow ==
    /\ stage = "row"
    /\ IF articles[query.id] = NoRow
       THEN /\ stage' = "not found"
            /\ UNCHANGED targets
       ELSE /\ targets' = <<Target(query.id)>>
            /\ stage' = "entries"
    /\ UNCHANGED <<createdAt, query, address, owned, total, results>>

Current == targets[Len(results) + 1]

AddEntry(entry) ==
    /\ results' = Append(results, entry)
    /\ stage' = IF Len(results) + 1 = Len(targets) THEN "done" ELSE "entries"

\* GetOwnerAddressOf: a tokenized article without a token is an error.
ReadTokenHolder ==
    /\ stage = "entries"
    /\ Current.tokenized
    /\ address' = getOwnerOfArticle(Current.id)
    /\ stage' = IF getOwnerOfArticle(Current.id) = ZeroAddress THEN "failed" ELSE "holder"
    /\ UNCHANGED <<queryVarsButResults, results>>

\* Mutants of NameHolder: a holder who is not registered is not noticed;
NameAnyHolder ==
    /\ stage = "holder"
    /\ AddEntry(Entry(Current.id, GetIDByAddress(address), address))
    /\ UNCHANGED <<queryVarsButResults, address>>

\* the author is named with the holder's address.
NameAuthorForHolder ==
    /\ stage = "holder"
    /\ IF GetIDByAddress(address) = NoUser
       THEN stage' = "failed" /\ UNCHANGED results
       ELSE AddEntry(Entry(Current.id, Current.author, address))
    /\ UNCHANGED <<queryVarsButResults, address>>

\* GetIDByAddress: so is a holder who has not registered the account.
NameHolder ==
    /\ stage = "holder"
    /\ IF GetIDByAddress(address) = NoUser
       THEN stage' = "failed" /\ UNCHANGED results
       ELSE AddEntry(Entry(Current.id, GetIDByAddress(address), address))
    /\ UNCHANGED <<queryVarsButResults, address>>

\* GetAddressByID: an author without a wallet fails a search, not a read.
NameAuthor ==
    /\ stage = "entries"
    /\ ~Current.tokenized
    /\ IF GetAddressByID(Current.author) = ZeroAddress /\ query.op = "search"
       THEN stage' = "failed" /\ UNCHANGED results
       ELSE AddEntry(Entry(Current.id, Current.author, GetAddressByID(Current.author)))
    /\ UNCHANGED <<queryVarsButResults, address>>

-----------------------------------------------------------------------------
QueryStep ==
    \/ BeginSearch \/ FindOwner \/ FindOwned \/ LoadPage \/ CountMatches
    \/ BeginRead \/ LoadRow
    \/ ReadTokenHolder \/ NameHolder \/ NameAuthor

\* The rest of the system moves on; a new article is later than all others.
SystemStep ==
    /\ Next
    /\ LET now == Cardinality({a \in Articles : creator'[a] # NoUser})
       IN  createdAt' = [a \in Articles |->
                            IF creator'[a] = creator[a] THEN createdAt[a] ELSE now]
    /\ UNCHANGED <<stage, query, address, owned, targets, total, results>>

\* What makes an article a user's: the user's wallet holds its token, or the
\* user wrote it and it is not tokenized.
Claims(u) ==
    [held |-> {a \in Articles : /\ GetAddressByID(u) # ZeroAddress
                                /\ getOwnerOfArticle(a) = GetAddressByID(u)},
     written |-> {a \in Articles : /\ articles[a] # NoRow
                                   /\ articles[a].author = u /\ ~articles[a].tokenized}]

OwnerSearch == query \in SearchQuery /\ query.ownedBy # Anyone

Both(c, d) == [held |-> c.held \cap d.held, written |-> c.written \cap d.written]
Either(c, d) == [held |-> c.held \cup d.held, written |-> c.written \cup d.written]

\* The history of the claims of the user asked about, from the request to the answer.
TrackClaims ==
    IF OwnerSearch' /\ ~Answered
    THEN LET now == Claims(query.ownedBy)'
         IN  /\ kept' = IF stage = "idle" THEN now ELSE Both(kept, now)
             /\ ever' = IF stage = "idle" THEN now ELSE Either(ever, now)
    ELSE UNCHANGED <<kept, ever>>

QueriesNext ==
    /\ \/ QueryStep /\ UNCHANGED vars
       \/ SystemStep
    /\ TrackClaims

QueriesSpec == QueriesInit /\ [][QueriesNext]_<<vars, queryVars, kept, ever>>

-----------------------------------------------------------------------------
\* A query's answer is made of users, accounts and rows that were found, never
\* of the value a lookup gives for nobody, and never has more entries than rows.
QueriesTypeOK ==
    /\ createdAt \in [Articles -> Nat]
    /\ stage \in {"idle", "address", "owned", "load", "count", "row", "entries", "holder"}
                \cup {"done", "failed", "not found"}
    /\ query \in SearchQuery \cup ReadQuery \cup {NoRequest}
    /\ address \in Accounts \cup {ZeroAddress}
    /\ owned \subseteq Articles
    /\ targets \in Seq([id: Articles, author: Users, tokenized: BOOLEAN])
    /\ total \in Nat
    /\ results \in Seq([id: Articles, owner: Users, address: Accounts \cup {ZeroAddress}])
    /\ Len(results) <= Len(targets)

Listed == {results[i].id : i \in DOMAIN results}

FirstPageHoldsAll == query.num = 1 /\ query.size >= Cardinality(Articles)

\* SearchForArticles asks the chain and the database at different moments.  An
\* article that has been the user's in one way throughout is in the answer...
KeptArticlesListed ==
    stage = "done" /\ OwnerSearch /\ FirstPageHoldsAll /\ query.keywords = {} =>
        \A a \in kept.held \cup kept.written : articles[a] # NoRow => a \in Listed

\* ...and an article that was at no moment the user's is not.
ListedArticlesWereOwned ==
    stage = "done" /\ OwnerSearch => Listed \subseteq ever.held \cup ever.written

\* Whichever way the owner of an article was found, from the account or from the
\* user, the id and the address of an answer belong together.
OwnerInfoAgrees ==
    \A i \in DOMAIN results :
        results[i].address # ZeroAddress =>
            GetAddressByID(results[i].owner) = results[i].address

\* A search without owned_by lists the articles of all owners.
SearchAnswers == query \in SearchQuery => stage # "failed"
=============================================================================
