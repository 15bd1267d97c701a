-------------------------- MODULE MCArticleQueries --------------------------
(* Instances of ArticleQueries for TLC. *)
EXTENDS ArticleQueries, TLC

CONSTANTS alice, bob, walletA, walletB, art1, art2, req1, req2

OneUser == {alice}
TwoUsers == {alice, bob}
TwoAccounts == {walletA, walletB}
OneArticle == {art1}
TwoArticles == {art1, art2}
OneRequest == {req1}
TwoRequests == {req1, req2}

\* Nothing tells two users, accounts, articles or requests apart.
Symmetry ==
    Permutations(Users) \cup Permutations(Accounts)
        \cup Permutations(Articles) \cup Permutations(Requests)
=============================================================================
