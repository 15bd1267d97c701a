-------------------------- MODULE MCArticleService --------------------------
(* Instances of ArticleService for TLC. *)
EXTENDS ArticleService, TLC

CONSTANTS alice, bob, walletA, walletB, art1, art2, req1, req2, req3

OneUser == {alice}
TwoUsers == {alice, bob}
OneAccount == {walletA}
TwoAccounts == {walletA, walletB}
OneArticle == {art1}
TwoArticles == {art1, art2}
OneRequest == {req1}
TwoRequests == {req1, req2}
ThreeRequests == {req1, req2, req3}

\* Nothing tells two users, accounts, articles or requests apart.
Symmetry ==
    Permutations(Users) \cup Permutations(Accounts)
        \cup Permutations(Articles) \cup Permutations(Requests)
=============================================================================
