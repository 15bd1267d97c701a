----------------------------- MODULE SearchPage -----------------------------
(***************************************************************************)
(* The tables of articles: SearchResultTable under its SearchForm, and the *)
(* two tables of a user's articles.  What they ask for is in the URL; an   *)
(* effect asks the server again when that changes, and nothing cancels     *)
(* what was asked before.  The pager keeps a page of its own, which is not *)
(* that of the URL.  ArticlePage, the information tables and the owned     *)
(* cards have the same effect, for a key that does not change.             *)
(***************************************************************************)
EXTENDS Browser

CONSTANTS
    Pages,      \* query -> how many pages of articles the server has for it
    AnyWords    \* the query without keywords

ASSUME PagesAssumption ==
    /\ AnyWords \in DOMAIN Pages
    /\ \A q \in DOMAIN Pages : Pages[q] \in Nat /\ Pages[q] <= Pages[AnyWords]

VARIABLES
    table,      \* which of the tables
    params,     \* the parameters of the URL: q, and page, 0 for none
    asked,      \* {what the effect asked for last}, while it is under way
    askedBefore, \* the earlier ones under way
    inTurn,     \* the answer that came last is the one asked for last
    listed,     \* what the articles shown were asked for
    count,      \* totalNumOfPage
    pager,      \* the page the pager takes itself to be at
    astray      \* a page was chosen at a pager of another query, or past its end

searchVars == <<table, params, asked, askedBefore, inTurn, listed, count, pager, astray>>

Words == DOMAIN Pages

PageNum(url) == IF url.page > 0 THEN url.page ELSE 1

Key(url) == [q |-> url.q, page |-> PageNum(url)]

\* The last page there may be; a table that lists nothing is at its first.
LastPage == IF Pages[AnyWords] = 0 THEN 1 ELSE Pages[AnyWords]

Keys == [q: Words, page: 1..LastPage]

NothingListed == [q |-> AnyWords, page |-> 0]

\* A URL may name a page, one that is there.
SearchInit ==
    /\ table \in {"search", "owned", "mine"}
    /\ params \in [q: IF table = "search" THEN Words ELSE {AnyWords}, page: 0..Pages[AnyWords]]
    /\ params.page <= Pages[params.q]
    /\ asked = {Key(params)}
    /\ askedBefore = {}
    /\ inTurn = FALSE
    /\ listed = NothingListed
    /\ count = 1
    /\ pager = 1
    /\ astray = FALSE

-----------------------------------------------------------------------------
CanAsk == Cardinality(askedBefore) < MaxPending

AskFor(key) ==
    /\ asked' = {key}
    /\ askedBefore' = askedBefore \cup asked
    /\ inTurn' = FALSE

\* Mutant of SetSearchParams: the effect does not name the page as a dependency.
SetSearchParamsByWords(url) ==
    /\ CanAsk
    /\ params' = url
    /\ IF url.q # params.q THEN AskFor(Key(url))
       ELSE UNCHANGED <<asked, askedBefore, inTurn>>

\* The search asks anew when the URL has changed, the others when the page has.
SetSearchParams(url) ==
    /\ CanAsk
    /\ params' = url
    /\ IF IF table = "search" THEN url # params ELSE Key(url) # Key(params)
       THEN AskFor(Key(url))
       ELSE UNCHANGED <<asked, askedBefore, inTurn>>

\* Mutant of UrlFor: the page stays when other words are typed.
UrlForKeepingPage(words) == [params EXCEPT !.q = words]

\* Words start at their first page; without any the page stays.
UrlFor(words) ==
    IF words = AnyWords THEN [params EXCEPT !.q = AnyWords] ELSE [q |-> words, page |-> 0]

OnChangeKeywords(words) ==
    /\ table = "search"
    /\ words # params.q
    /\ SetSearchParams(UrlFor(words))
    /\ astray' = (astray /\ words = AnyWords)
    /\ UNCHANGED <<table, listed, count, pager>>

\* The pager has its pages, and a step back and forth from where it is.
ChangePage(n) ==
    /\ \/ n \in 1..count
       \/ n = pager - 1 /\ n > 0
    /\ SetSearchParams([params EXCEPT !.page = n])
    /\ pager' = n
    /\ astray' = (n > count \/ listed.q # params.q)
    /\ UNCHANGED <<table, listed, count>>

\* A load of the session makes a new user object, and the effect runs again.
UserLoaded ==
    /\ table = "mine"
    /\ CanAsk
    /\ AskFor(Key(params))
    /\ UNCHANGED <<table, params, listed, count, pager, astray>>

Show(key) ==
    /\ listed' = key
    /\ count' = Pages[key.q]

\* searchArticles has answered what was asked last...
NewestListed ==
    /\ asked # {}
    /\ asked' = {}
    /\ \E key \in asked : Show(key)
    /\ inTurn' = TRUE
    /\ UNCHANGED <<table, params, askedBefore, pager, astray>>

\* ...or what was asked before; others for the same may follow.
OlderListed(key) ==
    /\ key \in askedBefore
    /\ askedBefore' \in {askedBefore, askedBefore \ {key}}
    /\ Show(key)
    /\ inTurn' = FALSE
    /\ UNCHANGED <<table, params, asked, pager, astray>>

\* It fails, and the page is told nothing.
NotAnswered ==
    /\ \/ asked # {} /\ asked' = {} /\ UNCHANGED askedBefore
       \/ /\ \E key \in askedBefore : askedBefore' = askedBefore \ {key}
          /\ UNCHANGED asked
    /\ UNCHANGED <<table, params, inTurn, listed, count, pager, astray>>

SearchNext ==
    \/ \E words \in Words : OnChangeKeywords(words)
    \/ \E n \in 1..LastPage : ChangePage(n)
    \/ UserLoaded
    \/ NewestListed
    \/ \E key \in Keys : OlderListed(key)
    \/ NotAnswered

-----------------------------------------------------------------------------
\* The pager counts the pages of what is listed, one before anything is.
SearchTypeOK ==
    /\ params \in [q: Words, page: 0..LastPage]
    /\ asked \cup askedBefore \subseteq Keys
    /\ Cardinality(asked) <= 1
    /\ {inTurn, astray} \subseteq BOOLEAN
    /\ listed \in Keys \cup {NothingListed}
    /\ pager \in 1..LastPage
    /\ count = IF listed = NothingListed THEN 1 ELSE Pages[listed.q]
    /\ table # "search" => params.q = AnyWords

\* When the answer that came last is the one asked for last, the articles shown
\* are those the URL names, whatever was typed and clicked meanwhile.
ListIsOfTheUrl == inTurn => listed = Key(params)

\* Nobody is led past the last page of a search, by words that have fewer pages
\* or by clearing them, except by a pager that is not that of the query.
PageIsThere ==
    PageNum(params) > 1 /\ ~astray => PageNum(params) <= Pages[params.q]
=============================================================================
