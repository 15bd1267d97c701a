------------------------- MODULE MCKnowtfolioClient -------------------------
EXTENDS KnowtfolioClient

\* Three pages of articles, two of them for some words, and no article for
\* others.
PagesOfWords == [q \in {"any", "some", "none"} |->
    CASE q = "any" -> 3 [] q = "some" -> 2 [] q = "none" -> 0]
=============================================================================
