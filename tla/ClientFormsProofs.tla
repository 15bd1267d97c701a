-------------------------- MODULE ClientFormsProofs --------------------------
(***************************************************************************)
(* What is proved of the client's forms and tables whose state is their    *)
(* own: each keeps an invariant, by each of its steps.  They are put       *)
(* together in KnowtfolioClientProofs.                                     *)
(***************************************************************************)
EXTENDS ArticleForms, AccountForms, ProfileForm, SearchPage, FiniteSetTheorems, TLAPS

-----------------------------------------------------------------------------
(* ArticleForms.  The inductive invariant says of each press what the      *)
(* server has by the stage it is at.                                       *)

PressState == [stage: Stages, text: Texts, mint: BOOLEAN,
               account: MetamaskAccounts \cup {NoAddress}, nonce: Nat, lost: BOOLEAN]

ArticleShape ==
    /\ kind \in {"new", "edit"}
    /\ articlePage \in {"checking", "form", "refused", "closed"}
    /\ fetches \in SUBSET Effects
    /\ loads \in SUBSET (Effects \cup {"token"})
    /\ form \in [text: Texts, mint: BOOLEAN, hasNFT: BOOLEAN]
    /\ loaded \in BOOLEAN /\ early \in BOOLEAN
    /\ click \in [Clicks -> PressState]
    /\ stored \in [Clicks \cup {Edited} -> Texts \cup {"none"}]
    /\ nonce \in Nat

\* Only an open form has text and loads, and only the edit form loads.
OpenFormOnly ==
    /\ articlePage # "form" => loads = {} /\ form = Blank
    /\ articlePage = "closed" => fetches = {}
    /\ kind = "new" => articlePage \in {"form", "closed"} /\ loads = {} /\ fetches = {}

\* The article that is edited is there; its text, and a text that was loaded, is
\* blank only if the button was pressed too early.
TextsFollow ==
    /\ stored[Edited] = "none" <=> kind = "new"
    /\ stored[Edited] = "blank" => early
    /\ loaded /\ form.text = "blank" => early

\* What the server has, by the stage of a press.
PressFollows(c) ==
    /\ click[c].nonce <= nonce
    /\ click[c].stage \in {"nonce", "sign", "mint"} =>
            click[c].mint /\ stored[Article(c)] # "none"
    /\ click[c].stage \in {"idle", "save"} /\ kind = "new" => stored[c] = "none"
    /\ click[c].stage = "save" /\ click[c].text = "blank" /\ kind = "edit" => early
    /\ click[c].stage = "success" =>
            stored[Article(c)] # "none" /\ (click[c].mint => Article(c) \in mintsSent)
    /\ kind = "new" /\ click[c].stage = "failure" /\ ~click[c].mint /\ ~click[c].lost =>
            stored[c] = "none"

TokensAreOfArticles ==
    /\ mintsSent \subseteq {a \in Clicks \cup {Edited} : stored[a] # "none"}
    /\ minted \subseteq mintsSent

ArticleFormsInv ==
    /\ ArticleShape
    /\ OpenFormOnly
    /\ TextsFollow
    /\ TokensAreOfArticles
    /\ \A c \in Clicks : PressFollows(c)

\* A press is of a new article of its own, or of the one that is edited.
LEMMA ArticleOf ==
    ASSUME NEW c \in Clicks
    PROVE  /\ c # Edited /\ Article(c) \in Clicks \cup {Edited}
           /\ kind = "new" => Article(c) = c
           /\ kind = "edit" => Article(c) = Edited
BY DEF Clicks, Edited, Article

\* Nothing has been pressed yet.
LEMMA InitialArticles == ArticleInit => ArticleFormsInv
<1> SUFFICES ASSUME ArticleInit PROVE ArticleFormsInv
    OBVIOUS
<1>1. ArticleShape
    BY DEF ArticleInit, ArticleShape, Blank, Idle, PressState, Stages, Texts, Effects, Clicks, Edited
<1>2. OpenFormOnly
    BY DEF ArticleInit, OpenFormOnly
<1>3. stored[Edited] = IF kind = "edit" THEN "old" ELSE "none"
    BY DEF ArticleInit
<1>4. TextsFollow /\ TokensAreOfArticles
    BY <1>3 DEF ArticleInit, TextsFollow, TokensAreOfArticles
<1>5. \A c \in Clicks : click[c] = Idle /\ (kind = "new" => stored[c] = "none")
    BY DEF ArticleInit
<1>6. \A c \in Clicks : PressFollows(c)
    BY <1>1, <1>5 DEF PressFollows, ArticleShape, Idle
<1> QED
    BY <1>1, <1>2, <1>4, <1>6 DEF ArticleFormsInv

\* What the server and the form have only grows for a press that does not move.
LEMMA PressStays ==
    ASSUME ArticleShape, nonce' \in Nat, nonce <= nonce',
           NEW c \in Clicks, PressFollows(c), click'[c] = click[c], UNCHANGED kind,
           stored[Article(c)] # "none" => stored'[Article(c)] # "none",
           kind = "new" => stored'[c] = stored[c],
           mintsSent \subseteq mintsSent', early => early'
    PROVE  PressFollows(c)'
<1>1. click[c].nonce \in Nat /\ nonce \in Nat
    BY DEF ArticleShape, PressState
<1>2. Article(c)' = Article(c)
    BY DEF Article
<1> QED
    BY <1>1, <1>2 DEF PressFollows

\* Opening the page, loading and typing leave presses and server alone.
LEMMA OpeningKeeps ==
    ASSUME ArticleFormsInv,
           \/ Detect
           \/ \E acct \in MetamaskAccounts : Connect(acct)
           \/ \E e \in Effects : FetchOwner(e) \/ LoadArticle(e)
           \/ LoadToken
           \/ \E e \in Effects \cup {"token"} : ArticleLoadFails(e)
           \/ Type \/ OnChangeNFTSwitch
           \/ UNCHANGED articleVars
    PROVE  ArticleFormsInv'
<1> USE DEF ArticleFormsInv
<1>1. UNCHANGED <<kind, wallet, early, click, serverVars>>
    BY DEF Detect, Connect, FetchOwner, LoadArticle, LoadToken, ArticleLoadFails, Type,
           OnChangeNFTSwitch, articleVars, pageVars
<1>2. /\ articlePage' \in {"checking", "form", "refused", "closed"}
      /\ fetches' \in SUBSET Effects
      /\ loads' \in SUBSET (Effects \cup {"token"})
      /\ OpenFormOnly'
    <2>1. CASE Detect \/ UNCHANGED articleVars
        BY <2>1 DEF Detect, articleVars, pageVars, ArticleShape, OpenFormOnly, Blank
    <2>2. CASE \E acct \in MetamaskAccounts : Connect(acct)
        BY <2>2 DEF Connect, ArticleShape, OpenFormOnly, Effects, Blank
    <2>3. CASE \E e \in Effects : FetchOwner(e)
        BY <2>3 DEF FetchOwner, ArticleShape, OpenFormOnly, Effects, Blank
    <2>4. CASE \E e \in Effects : LoadArticle(e)
        BY <2>4 DEF LoadArticle, ArticleShape, OpenFormOnly, Effects, Blank
    <2>5. CASE LoadToken
        BY <2>5 DEF LoadToken, ArticleShape, OpenFormOnly, Blank
    <2>6. CASE \E e \in Effects \cup {"token"} : ArticleLoadFails(e)
        BY <2>6 DEF ArticleLoadFails, ArticleShape, OpenFormOnly, Blank
    <2>7. CASE Type \/ OnChangeNFTSwitch
        BY <2>7 DEF Type, OnChangeNFTSwitch, ArticleShape, OpenFormOnly, Blank
    <2> QED
        BY <2>1, <2>2, <2>3, <2>4, <2>5, <2>6, <2>7
<1>3. /\ form' \in [text: Texts, mint: BOOLEAN, hasNFT: BOOLEAN]
      /\ loaded' \in BOOLEAN
      /\ loaded' /\ form'.text = "blank" => early
    <2>1. ASSUME NEW e \in Effects, LoadArticle(e)
          PROVE  /\ form' \in [text: Texts, mint: BOOLEAN, hasNFT: BOOLEAN] /\ loaded'
                 /\ form'.text = stored[Edited]
        <3>1. kind = "edit"
            BY <2>1 DEF LoadArticle, ArticleShape, OpenFormOnly
        <3>2. stored[Edited] \in Texts
            BY <3>1 DEF ArticleShape, TextsFollow
        <3> QED
            BY <2>1, <3>2 DEF LoadArticle, ArticleShape
    <2>2. CASE \E e \in Effects : LoadArticle(e)
        BY <2>1, <2>2 DEF TextsFollow
    <2>3. CASE LoadToken \/ OnChangeNFTSwitch
        <3>1. \E on \in BOOLEAN :
                    form' = [form EXCEPT !.hasNFT = on] \/ form' = [form EXCEPT !.mint = on]
            <4>1. CASE LoadToken
                <5> DEFINE on == Edited \in minted
                <5>1. form' = [form EXCEPT !.hasNFT = on]
                    BY <4>1, Zenon DEF LoadToken
                <5>2. on \in BOOLEAN
                    BY SMT
                <5> QED
                    BY <5>1, <5>2, Zenon
            <4>2. CASE OnChangeNFTSwitch
                <5>1. (~form.mint) \in BOOLEAN /\ form' = [form EXCEPT !.mint = ~form.mint]
                    BY <4>2, Zenon DEF OnChangeNFTSwitch
                <5> QED
                    BY <5>1, Zenon
            <4> QED
                BY <2>3, <4>1, <4>2
        <3>2. form' \in [text: Texts, mint: BOOLEAN, hasNFT: BOOLEAN] /\ form'.text = form.text
            BY <3>1 DEF ArticleShape
        <3> QED
            BY <2>3, <3>2 DEF LoadToken, OnChangeNFTSwitch, ArticleShape, TextsFollow
    <2>4. CASE Type
        BY <2>4 DEF Type, ArticleShape, TextsFollow, Texts
    <2>5. CASE UNCHANGED <<form, loaded>>
        BY <2>5 DEF ArticleShape, TextsFollow
    <2>6. CASE form' = Blank /\ loaded' = FALSE
        BY <2>6 DEF Blank, Texts
    <2> QED
        BY <2>2, <2>3, <2>4, <2>5, <2>6 DEF Detect, Connect, FetchOwner, ArticleLoadFails, articleVars,
                                      pageVars
<1>4. \A c \in Clicks : PressFollows(c)'
    BY <1>1, PressStays DEF serverVars, ArticleShape
<1> QED
    BY <1>1, <1>2, <1>3, <1>4 DEF ArticleShape, TextsFollow, TokensAreOfArticles, serverVars

\* The button: the press keeps what the form shows.
LEMMA PressKeeps ==
    ASSUME ArticleFormsInv, Web3TypeOK, NEW c \in Clicks, Press(c)
    PROVE  ArticleFormsInv'
<1> USE DEF ArticleFormsInv
<1> DEFINE pressed == [Idle EXCEPT !.stage = "save", !.text = form.text, !.mint = form.mint,
                                   !.account = IF form.mint THEN account ELSE NoAddress]
<1>1. /\ click[c].stage = "idle"
      /\ click' = [click EXCEPT ![c] = pressed]
      /\ early' = (early \/ ~loaded)
      /\ UNCHANGED <<kind, wallet, articlePage, fetches, loads, form, loaded, serverVars>>
    BY DEF Press
<1>2. /\ pressed \in PressState
      /\ pressed.stage = "save" /\ pressed.text = form.text /\ pressed.nonce = 0
    BY DEF Idle, PressState, Stages, ArticleShape, Web3TypeOK
<1> HIDE DEF pressed
<1>3. ArticleShape'
    BY <1>1, <1>2 DEF ArticleShape, serverVars
<1>4. PressFollows(c)'
    <2>1. click'[c] = pressed
        BY <1>1 DEF ArticleShape
    <2>2. PressFollows(c) /\ kind' = kind /\ stored' = stored /\ nonce' \in Nat
        BY <1>1, <1>3 DEF serverVars, ArticleShape
    <2>3. kind = "new" => stored[c] = "none"
        BY <1>1 DEF PressFollows
    <2>4. pressed.text = "blank" => early'
        BY <1>1, <1>2 DEF TextsFollow, ArticleShape
    <2> QED
        BY <1>2, <2>1, <2>2, <2>3, <2>4 DEF PressFollows
<1>5. ASSUME NEW d \in Clicks \ {c} PROVE PressFollows(d)'
    <2>1. click'[d] = click[d]
        BY <1>1 DEF ArticleShape
    <2> QED
        BY <1>1, <2>1, PressStays DEF serverVars, ArticleShape
<1> QED
    BY <1>1, <1>3, <1>4, <1>5 DEF OpenFormOnly, TextsFollow, TokensAreOfArticles, serverVars

\* A press moves on...
LEMMA GoesToShape ==
    ASSUME ArticleShape, NEW c \in Clicks, NEW stage \in Stages, GoesTo(c, stage)
    PROVE  /\ click' \in [Clicks -> PressState]
           /\ click'[c].stage = stage /\ click'[c].mint = click[c].mint
           /\ click'[c].nonce = click[c].nonce
           /\ \A d \in Clicks \ {c} : click'[d] = click[d]
BY DEF GoesTo, ArticleShape, PressState

\* ...or ends, and keeps only what it was pressed for and how it ended.
LEMMA EndsShape ==
    ASSUME ArticleShape, NEW c \in Clicks, NEW stage \in Stages, NEW lost \in BOOLEAN,
           Ends(c, stage, lost)
    PROVE  /\ click' \in [Clicks -> PressState]
           /\ click'[c].stage = stage /\ click'[c].mint = click[c].mint
           /\ click'[c].nonce = 0 /\ click'[c].lost = lost
           /\ \A d \in Clicks \ {c} : click'[d] = click[d]
<1> DEFINE ended == [Idle EXCEPT !.stage = stage, !.mint = click[c].mint, !.lost = lost]
<1>1. /\ ended \in PressState /\ ended.stage = stage /\ ended.mint = click[c].mint
      /\ ended.nonce = 0 /\ ended.lost = lost
    BY DEF ArticleShape, PressState, Idle, Texts
<1>2. click' = [click EXCEPT ![c] = ended]
    BY DEF Ends
<1> HIDE DEF ended
<1> QED
    BY <1>1, <1>2 DEF ArticleShape

\* The server's part of a step of press c: it creates or writes c's article, and
\* mints its token, and leaves the other articles and tokens as they are.
ServerMoves(c) ==
    /\ UNCHANGED <<kind, wallet>>
    /\ stored' \in [Clicks \cup {Edited} -> Texts \cup {"none"}]
    /\ \A a \in (Clicks \cup {Edited}) \ {Article(c)} : stored'[a] = stored[a]
    /\ stored[Article(c)] # "none" => stored'[Article(c)] # "none"
    /\ nonce' \in Nat /\ nonce <= nonce'
    /\ mintsSent \subseteq mintsSent'
    /\ TokensAreOfArticles'

\* If its answer is right and the form closes or stays, the invariant is kept.
LEMMA AnswerKeeps ==
    ASSUME ArticleFormsInv, NEW c \in Clicks, ServerMoves(c),
           click' \in [Clicks -> PressState],
           \A d \in Clicks \ {c} : click'[d] = click[d],
           PressFollows(c)',
           stored'[Edited] = "blank" => early,
           stored'[Edited] = "none" => stored[Edited] = "none",
           kind = "new" => stored'[Edited] = "none",
           \/ UNCHANGED pageVars
           \/ /\ articlePage' = "closed" /\ fetches' = {} /\ loads' = {}
              /\ form' = Blank /\ loaded' = FALSE /\ UNCHANGED early
    PROVE  ArticleFormsInv'
<1> USE DEF ArticleFormsInv
<1>1. UNCHANGED <<kind, early>>
    BY DEF ServerMoves, pageVars
<1>2. /\ articlePage' \in {"checking", "form", "refused", "closed"}
      /\ fetches' \in SUBSET Effects
      /\ loads' \in SUBSET (Effects \cup {"token"})
      /\ form' \in [text: Texts, mint: BOOLEAN, hasNFT: BOOLEAN]
      /\ loaded' \in BOOLEAN
    <2>1. CASE UNCHANGED pageVars
        BY <2>1 DEF ArticleShape, pageVars
    <2>2. CASE /\ articlePage' = "closed" /\ fetches' = {} /\ loads' = {}
               /\ form' = Blank /\ loaded' = FALSE
        BY <2>2 DEF Blank, Texts
    <2> QED
        BY <2>1, <2>2
<1>3. OpenFormOnly'
    BY <1>1 DEF OpenFormOnly, pageVars, Blank
<1>4. TextsFollow'
    BY <1>1 DEF TextsFollow, pageVars, Blank
<1>5. ASSUME NEW d \in Clicks \ {c} PROVE PressFollows(d)'
    <2>1. kind = "new" => Article(c) = c /\ d \in Clicks \cup {Edited}
        BY ArticleOf
    <2>2. stored[Article(d)] # "none" => stored'[Article(d)] # "none"
        BY ArticleOf DEF ServerMoves
    <2>3. kind = "new" => stored'[d] = stored[d]
        BY <2>1 DEF ServerMoves
    <2> QED
        BY <1>1, <2>2, <2>3, PressStays DEF ServerMoves
<1> QED
    BY <1>1, <1>2, <1>3, <1>4, <1>5 DEF ServerMoves, ArticleShape

\* A step that ends with a toast: success closes the form, failure leaves it.
LEMMA SucceedsClick ==
    ASSUME ArticleFormsInv, NEW c \in Clicks, Succeeds(c), ServerMoves(c),
           stored'[Article(c)] # "none",
           click[c].mint => Article(c) \in mintsSent'
    PROVE  /\ click' \in [Clicks -> PressState]
           /\ \A d \in Clicks \ {c} : click'[d] = click[d]
           /\ PressFollows(c)'
           /\ articlePage' = "closed" /\ fetches' = {} /\ loads' = {}
           /\ form' = Blank /\ loaded' = FALSE /\ UNCHANGED early
<1>1. Ends(c, "success", FALSE) /\ ArticleShape /\ "success" \in Stages
    BY DEF Succeeds, ArticleFormsInv, Stages
<1>2. /\ click' \in [Clicks -> PressState]
      /\ click'[c].stage = "success" /\ click'[c].mint = click[c].mint
      /\ click'[c].nonce = 0
      /\ \A d \in Clicks \ {c} : click'[d] = click[d]
    BY <1>1, EndsShape
<1>3. Article(c)' = Article(c)
    BY DEF ServerMoves, Article
<1>4. PressFollows(c)'
    BY <1>2, <1>3 DEF PressFollows, ServerMoves
<1> QED
    BY <1>2, <1>4 DEF Succeeds

\* A failure without the switch, and not for a lost answer, has saved nothing.
LEMMA FailsClick ==
    ASSUME ArticleFormsInv, NEW c \in Clicks, NEW lost \in BOOLEAN, Fails(c, lost), ServerMoves(c),
           click[c].mint \/ lost \/ (kind = "new" => stored'[c] = "none")
    PROVE  /\ click' \in [Clicks -> PressState]
           /\ \A d \in Clicks \ {c} : click'[d] = click[d]
           /\ PressFollows(c)'
           /\ UNCHANGED pageVars
<1>1. Ends(c, "failure", lost) /\ ArticleShape /\ "failure" \in Stages
    BY DEF Fails, ArticleFormsInv, Stages
<1>2. /\ click' \in [Clicks -> PressState]
      /\ click'[c].stage = "failure" /\ click'[c].mint = click[c].mint
      /\ click'[c].nonce = 0 /\ click'[c].lost = lost
      /\ \A d \in Clicks \ {c} : click'[d] = click[d]
    BY <1>1, EndsShape
<1>3. PressFollows(c)'
    BY <1>2 DEF PressFollows, ServerMoves
<1> QED
    BY <1>2, <1>3 DEF Fails

\* postArticle and putArticle.
LEMMA SaveKeeps ==
    ASSUME ArticleFormsInv, NEW c \in Clicks, Save(c)
    PROVE  ArticleFormsInv'
<1> USE DEF ArticleFormsInv
<1>1. /\ click[c].stage = "save" /\ UNCHANGED <<kind, wallet, mintsSent, minted, nonce>>
      /\ click[c].text \in Texts /\ click[c].mint \in BOOLEAN
      /\ nonce \in Nat /\ stored \in [Clicks \cup {Edited} -> Texts \cup {"none"}]
      /\ kind = "new" => stored[c] = "none"
      /\ kind = "edit" /\ click[c].text = "blank" => early
    BY DEF Save, ArticleShape, PressState, PressFollows
<1>2. CASE Fails(c, FALSE) /\ UNCHANGED stored
    <2>1. ServerMoves(c)
        BY <1>1, <1>2 DEF ServerMoves, ArticleShape, TokensAreOfArticles
    <2>2. /\ click' \in [Clicks -> PressState]
          /\ \A d \in Clicks \ {c} : click'[d] = click[d]
          /\ PressFollows(c)' /\ UNCHANGED pageVars
        BY <1>1, <1>2, <2>1, FailsClick
    <2> QED
        BY <1>2, <2>1, <2>2, AnswerKeeps DEF TextsFollow
<1>3. CASE stored' = [stored EXCEPT ![Article(c)] = click[c].text]
    <2>1. /\ stored' \in [Clicks \cup {Edited} -> Texts \cup {"none"}]
          /\ stored'[Article(c)] = click[c].text
          /\ \A a \in (Clicks \cup {Edited}) \ {Article(c)} : stored'[a] = stored[a]
          /\ click[c].text # "none"
        BY <1>1, <1>3, ArticleOf DEF Texts
    <2>2. ServerMoves(c)
        BY <1>1, <2>1 DEF ServerMoves, TokensAreOfArticles
    <2>3. /\ stored'[Edited] = "blank" => early
          /\ stored'[Edited] = "none" => stored[Edited] = "none"
          /\ kind = "new" => stored'[Edited] = "none"
        <3>1. CASE kind = "new"
            BY <2>1, <3>1, ArticleOf DEF TextsFollow
        <3>2. CASE kind = "edit"
            BY <1>1, <2>1, <3>2, ArticleOf
        <3> QED
            BY <3>1, <3>2 DEF ArticleShape
    <2>4. CASE Fails(c, TRUE)
        <3>1. /\ click' \in [Clicks -> PressState]
              /\ \A d \in Clicks \ {c} : click'[d] = click[d]
              /\ PressFollows(c)' /\ UNCHANGED pageVars
            BY <2>2, <2>4, FailsClick
        <3> QED
            BY <2>2, <2>3, <3>1, AnswerKeeps
    <2>5. CASE ~click[c].mint /\ Succeeds(c)
        <3>1. /\ click' \in [Clicks -> PressState]
              /\ \A d \in Clicks \ {c} : click'[d] = click[d]
              /\ PressFollows(c)'
              /\ articlePage' = "closed" /\ fetches' = {} /\ loads' = {}
              /\ form' = Blank /\ loaded' = FALSE /\ UNCHANGED early
            BY <2>1, <2>2, <2>5, SucceedsClick
        <3> QED
            BY <2>2, <2>3, <3>1, AnswerKeeps
    <2>6. CASE click[c].mint /\ Fails(c, FALSE)
        <3>1. /\ click' \in [Clicks -> PressState]
              /\ \A d \in Clicks \ {c} : click'[d] = click[d]
              /\ PressFollows(c)' /\ UNCHANGED pageVars
            BY <2>2, <2>6, FailsClick
        <3> QED
            BY <2>2, <2>3, <3>1, AnswerKeeps
    <2>7. CASE click[c].mint /\ GoesTo(c, "nonce") /\ UNCHANGED pageVars
        <3>1. /\ click' \in [Clicks -> PressState]
              /\ click'[c].stage = "nonce" /\ click'[c].mint = click[c].mint
              /\ click'[c].nonce = click[c].nonce
              /\ \A d \in Clicks \ {c} : click'[d] = click[d]
            BY <2>7, GoesToShape DEF Stages
        <3>2. Article(c)' = Article(c)
            BY <1>1 DEF Article
        <3>3. PressFollows(c)'
            BY <1>1, <2>1, <2>7, <3>1, <3>2 DEF PressFollows
        <3> QED
            BY <2>2, <2>3, <2>7, <3>1, <3>3, AnswerKeeps
    <2> QED
        BY <1>2, <1>3, <2>4, <2>5, <2>6, <2>7 DEF Save, AfterSave
<1> QED
    BY <1>2, <1>3 DEF Save

\* A step that leaves the server alone: of a press that fails...
LEMMA FailureKeeps ==
    ASSUME ArticleFormsInv, NEW c \in Clicks, click[c].stage \in {"nonce", "sign", "mint"},
           Fails(c, FALSE), UNCHANGED <<kind, wallet, serverVars>>
    PROVE  ArticleFormsInv'
<1> USE DEF ArticleFormsInv
<1>1. ServerMoves(c)
    BY DEF ServerMoves, ArticleShape, TokensAreOfArticles, serverVars
<1>2. click[c].mint
    BY DEF PressFollows
<1>3. /\ click' \in [Clicks -> PressState]
      /\ \A d \in Clicks \ {c} : click'[d] = click[d]
      /\ PressFollows(c)' /\ UNCHANGED pageVars
    BY <1>1, <1>2, FailsClick
<1> QED
    BY <1>1, <1>3, AnswerKeeps DEF TextsFollow, serverVars

\* ...or that goes on to sign or to mint.
LEMMA GoingOnKeeps ==
    ASSUME ArticleFormsInv, NEW c \in Clicks, click[c].stage \in {"nonce", "sign"},
           UNCHANGED <<kind, wallet, pageVars, serverVars>>,
           click' \in [Clicks -> PressState],
           click'[c].stage \in {"sign", "mint"}, click'[c].mint = click[c].mint,
           click'[c].nonce <= nonce,
           \A d \in Clicks \ {c} : click'[d] = click[d]
    PROVE  ArticleFormsInv'
<1> USE DEF ArticleFormsInv
<1>1. ServerMoves(c)
    BY DEF ServerMoves, ArticleShape, TokensAreOfArticles, serverVars
<1>2. Article(c)' = Article(c)
    BY DEF Article
<1>3. PressFollows(c)'
    BY <1>2 DEF PressFollows, serverVars
<1> QED
    BY <1>1, <1>3, AnswerKeeps DEF TextsFollow, serverVars

\* fetchNonce, MetaMask's signature, and a refusal of the nfts service.
LEMMA AskingKeeps ==
    ASSUME ArticleFormsInv, NEW c \in Clicks,
           FetchNonce(c) \/ Sign(c) \/ Decline(c) \/ MintRefused(c)
    PROVE  ArticleFormsInv'
<1> USE DEF ArticleFormsInv
<1>1. CASE \/ Decline(c) \/ MintRefused(c) 
           \/ FetchNonce(c) /\ Fails(c, FALSE)
    BY <1>1, FailureKeeps DEF Decline, MintRefused, FetchNonce
<1>2. CASE Sign(c)
    <2>1. /\ click' \in [Clicks -> PressState]
          /\ click'[c].stage = "mint" /\ click'[c].mint = click[c].mint
          /\ click'[c].nonce = click[c].nonce
          /\ \A d \in Clicks \ {c} : click'[d] = click[d]
        BY <1>2, GoesToShape DEF Sign, Stages
    <2> QED
        BY <1>2, <2>1, GoingOnKeeps DEF Sign, PressFollows
<1>3. ASSUME NEW n \in 1..nonce, click' = [click EXCEPT ![c].stage = "sign", ![c].nonce = n],
             UNCHANGED pageVars, FetchNonce(c)
      PROVE  ArticleFormsInv'
    <2>1. n \in Nat /\ n <= nonce
        BY DEF ArticleShape
    <2>2. /\ click' \in [Clicks -> PressState]
          /\ click'[c].stage = "sign" /\ click'[c].mint = click[c].mint
          /\ click'[c].nonce = n
          /\ \A d \in Clicks \ {c} : click'[d] = click[d]
        <3> DEFINE signing(d) == [click[d] EXCEPT !.stage = "sign", !.nonce = n]
        <3>1. click[c] \in PressState /\ click \in [Clicks -> PressState]
            BY DEF ArticleShape
        <3>2. /\ click'[c] = signing(c) /\ DOMAIN click' = Clicks
              /\ \A d \in Clicks : click'[d] = IF d = c THEN signing(c) ELSE click[d]
            BY <1>3, <3>1
        <3>3. /\ signing(c) \in PressState /\ signing(c).stage = "sign"
              /\ signing(c).mint = click[c].mint /\ signing(c).nonce = n
            BY <2>1, <3>1 DEF PressState, Stages
        <3>4. click' = [d \in Clicks |-> click'[d]]
            BY <1>3, <3>1
        <3> HIDE DEF signing
        <3> QED
            BY <3>1, <3>2, <3>3, <3>4
    <2>3. click'[c].nonce <= nonce
        BY <2>1, <2>2 DEF ArticleShape
    <2>4. click[c].stage = "nonce" /\ UNCHANGED <<kind, wallet, pageVars, serverVars>>
        BY <1>3 DEF FetchNonce
    <2> QED
        BY <2>2, <2>3, <2>4, GoingOnKeeps
<1> QED
    BY <1>1, <1>2, <1>3 DEF FetchNonce

\* The nfts service sends a mint, or has used the nonce up for nothing.
LEMMA MintKeeps ==
    ASSUME ArticleFormsInv, NEW c \in Clicks, MintArticleNft(c)
    PROVE  ArticleFormsInv'
<1> USE DEF ArticleFormsInv
<1>1. /\ click[c].stage = "mint" /\ UNCHANGED <<kind, wallet, stored, minted>>
      /\ nonce' = nonce + 1 /\ nonce \in Nat
      /\ click[c].mint /\ stored[Article(c)] # "none"
    BY DEF MintArticleNft, PressFollows, ArticleShape
<1>2. Article(c) \in Clicks \cup {Edited}
    BY ArticleOf
<1>3. CASE Fails(c, FALSE) /\ UNCHANGED mintsSent
    <2>1. ServerMoves(c)
        BY <1>1, <1>3 DEF ServerMoves, ArticleShape, TokensAreOfArticles
    <2>2. /\ click' \in [Clicks -> PressState]
          /\ \A d \in Clicks \ {c} : click'[d] = click[d]
          /\ PressFollows(c)' /\ UNCHANGED pageVars
        BY <1>1, <1>3, <2>1, FailsClick
    <2> QED
        BY <1>1, <2>1, <2>2, AnswerKeeps DEF TextsFollow
<1>4. CASE mintsSent' = mintsSent \cup {Article(c)}
    <2>1. ServerMoves(c) /\ Article(c) \in mintsSent'
        BY <1>1, <1>2, <1>4 DEF ServerMoves, ArticleShape, TokensAreOfArticles
    <2>2. CASE Succeeds(c)
        <3>1. /\ click' \in [Clicks -> PressState]
              /\ \A d \in Clicks \ {c} : click'[d] = click[d]
              /\ PressFollows(c)'
              /\ articlePage' = "closed" /\ fetches' = {} /\ loads' = {}
              /\ form' = Blank /\ loaded' = FALSE /\ UNCHANGED early
            BY <1>1, <2>1, <2>2, SucceedsClick
        <3> QED
            BY <1>1, <2>1, <3>1, AnswerKeeps DEF TextsFollow
    <2>3. CASE Fails(c, TRUE)
        <3>1. /\ click' \in [Clicks -> PressState]
              /\ \A d \in Clicks \ {c} : click'[d] = click[d]
              /\ PressFollows(c)' /\ UNCHANGED pageVars
            BY <1>1, <2>1, <2>3, FailsClick
        <3> QED
            BY <1>1, <2>1, <3>1, AnswerKeeps DEF TextsFollow
    <2>4. CASE Fails(c, FALSE) /\ UNCHANGED mintsSent
        BY <1>3, <2>4
    <2> QED
        BY <2>2, <2>3, <2>4 DEF MintArticleNft
<1> QED
    BY <1>3, <1>4 DEF MintArticleNft

\* The tab is loaded again: presses that were under way are gone.
LEMMA AccountsChangedKeeps ==
    ASSUME ArticleFormsInv, AccountsChanged
    PROVE  ArticleFormsInv'
<1> USE DEF ArticleFormsInv
<1> DEFINE gone == [Idle EXCEPT !.stage = "gone"]
           underWay(c) == click[c].stage \in {"save", "nonce", "sign", "mint"}
<1>1. gone \in PressState /\ gone.stage = "gone" /\ gone.nonce = 0
    BY DEF Idle, PressState, Stages, Texts
<1>2. /\ UNCHANGED <<kind, wallet, early, serverVars>>
      /\ articlePage' = "closed" /\ fetches' = {} /\ loads' = {} /\ form' = Blank
      /\ loaded' = FALSE
      /\ click' = [c \in Clicks |-> IF underWay(c) THEN gone ELSE click[c]]
    BY DEF AccountsChanged
<1> HIDE DEF gone
<1>3. ArticleShape'
    BY <1>1, <1>2 DEF ArticleShape, serverVars, Blank, Texts
<1>4. ASSUME NEW c \in Clicks PROVE PressFollows(c)'
    <2>1. CASE underWay(c)
        <3>1. click'[c] = gone /\ nonce' \in Nat
            BY <1>2, <1>3, <2>1 DEF ArticleShape
        <3> QED
            BY <1>1, <3>1 DEF PressFollows
    <2>2. CASE ~underWay(c)
        <3>1. click'[c] = click[c]
            BY <1>2, <2>2
        <3> QED
            BY <1>2, <3>1, PressStays DEF ArticleShape, serverVars
    <2> QED
        BY <2>1, <2>2
<1> QED
    BY <1>2, <1>3, <1>4 DEF OpenFormOnly, TextsFollow, TokensAreOfArticles, serverVars

\* The chain executes what the service has sent.
LEMMA MineMintKeeps ==
    ASSUME ArticleFormsInv, NEW a \in mintsSent, MineMint(a)
    PROVE  ArticleFormsInv'
<1> USE DEF ArticleFormsInv
<1>1. /\ UNCHANGED <<kind, wallet, pageVars, click, stored, mintsSent, nonce>>
      /\ minted' = minted \cup {a}
    BY DEF MineMint
<1>2. ArticleShape' /\ OpenFormOnly' /\ TextsFollow'
    BY <1>1 DEF ArticleShape, OpenFormOnly, TextsFollow, pageVars, Blank
<1>3. TokensAreOfArticles'
    BY <1>1 DEF TokensAreOfArticles
<1>4. \A c \in Clicks : PressFollows(c)'
    BY <1>1, PressStays DEF ArticleShape, pageVars
<1> QED
    BY <1>2, <1>3, <1>4

\* Every step of the two forms keeps the invariant.
LEMMA ArticleStepKeeps ==
    ASSUME ArticleFormsInv, Web3TypeOK, ArticleNext \/ UNCHANGED articleVars
    PROVE  ArticleFormsInv'
BY OpeningKeeps, PressKeeps, SaveKeeps, AskingKeeps, MintKeeps, MineMintKeeps,
   AccountsChangedKeeps
   DEF ArticleNext, Answer

\* They leave the account to MetaMask, which hands over one of its own.
LEMMA ArticleStepConnects ==
    ASSUME Web3TypeOK, ArticleNext
    PROVE  Web3TypeOK'
<1>1. CASE UNCHANGED web3Vars
    BY <1>1 DEF Web3TypeOK, web3Vars
<1>2. CASE Detect \/ \E acct \in MetamaskAccounts : Connect(acct)
    BY <1>2 DEF Detect, Connect, DetectProvider, ConnectMetamask, Web3TypeOK
<1> QED
    BY <1>1, <1>2 DEF ArticleNext, Answer, FetchOwner, LoadArticle, LoadToken, ArticleLoadFails,
                      Type, OnChangeNFTSwitch, Press, Save, FetchNonce, MintArticleNft,
                      MineMint, MintRefused, Sign, Decline, AccountsChanged

\* What the invariant says of the toasts, and of the shape of the page.
LEMMA ArticleFormsPromise ==
    ArticleFormsInv /\ Web3TypeOK =>
        ArticleFormsTypeOK /\ SuccessMeansDone /\ FailuresLeaveNothing /\ BlankOnlyBeforeLoad
<1> SUFFICES ASSUME ArticleFormsInv, Web3TypeOK
             PROVE  /\ ArticleFormsTypeOK
                    /\ SuccessMeansDone /\ FailuresLeaveNothing /\ BlankOnlyBeforeLoad
    OBVIOUS
<1> USE DEF ArticleFormsInv
<1>1. \A c \in Clicks : click[c] \in PressState /\ click[c].nonce \in 0..nonce
    BY DEF ArticleShape, PressState, PressFollows
<1>2. /\ mintsSent \subseteq {a \in DOMAIN stored : stored[a] # "none"}
      /\ minted \subseteq mintsSent
    BY DEF ArticleShape, TokensAreOfArticles
<1>3. {loaded, early} \subseteq BOOLEAN
    BY DEF ArticleShape
<1>4. ArticleFormsTypeOK
    BY <1>1, <1>2, <1>3 DEF ArticleFormsTypeOK, ArticleShape, OpenFormOnly, PressState
<1>5. SuccessMeansDone /\ FailuresLeaveNothing
    BY DEF PressFollows, SuccessMeansDone, FailuresLeaveNothing
<1> QED
    BY <1>4, <1>5 DEF TextsFollow, BlankOnlyBeforeLoad

-----------------------------------------------------------------------------
(* AccountForms.  The inductive invariant says what a verdict under way, a *)
(* call under way and a sign-up under way stand for.                       *)

AccountShape ==
    /\ openForm \in Kinds \cup {"closed"}
    /\ fields \in Fields
    /\ newest \in {{}, {TRUE}, {FALSE}}
    /\ older \in SUBSET BOOLEAN
    /\ fresh \in BOOLEAN /\ canSubmit \in BOOLEAN /\ sent \in BOOLEAN
    /\ strayed \in BOOLEAN /\ overlapped \in BOOLEAN
    /\ target \in Members \cup {NoUser}
    /\ call \in Calls
    /\ signUp \in [Members -> {"no", "judged", "created"}]
    /\ setBy \in Calls

\* What a form must be for its verdict to be good.
Complete(f) ==
    /\ f.password = "strong"
    /\ f.confirmation = f.password
    /\ openForm = "sign up" => f.username # NoUser
    /\ openForm = "reset" => f.username # NoUser /\ f.code

\* The verdict asked for last is about the form as it is.
VerdictsFollow ==
    /\ fresh => newest = {}
    /\ openForm = "retry" => newest \cup older = {} /\ ~canSubmit
    /\ TRUE \in newest => Complete(fields)
    /\ fresh /\ canSubmit => Complete(fields)

\* A password that is not repeated is only sent to change one, by a button that
\* was about another form; and a sign-up that was judged was judged by its form.
CallFollows ==
    /\ call.form.password # call.form.confirmation =>
            call.does \in {"send", "update"} /\ ~call.fresh
    /\ call.does = "sign up" =>
            /\ call.form.username \in Members
            /\ signUp[call.form.username] = "judged" => call.form.password = "strong"

\* The code that is on its way, or has come, is for the user in the form.
CodesFollow ==
    openForm # "closed" =>
        /\ call.does \in {"sign up", "send"} => call.form.username = fields.username \/ strayed
        /\ sent => fields.username = target \/ strayed

\* Where no two sign-ups were judged at a time there is one user at most.
PoolFollows ==
    \A u, v \in Members : signUp[u] # "no" /\ signUp[v] # "no" /\ u # v => overlapped

\* What set a password last.
SetByFollows ==
    /\ PasswordsWereConfirmed
    /\ setBy.does = "sign up" => setBy.form.password = "strong"

AccountInv ==
    /\ AccountShape
    /\ VerdictsFollow
    /\ CallFollows
    /\ CodesFollow
    /\ PoolFollows
    /\ SetByFollows

\* No call, and an empty form.
LEMMA NoCallIsACall ==
    /\ Empty \in Fields /\ Empty.password = Empty.confirmation
    /\ NoCall \in Calls /\ NoCall.does = "nothing"
    /\ NoCall.form.password = NoCall.form.confirmation
<1>1. Empty \in Fields /\ Empty.password = Empty.confirmation
    BY DEF Empty, Fields, Passwords
<1>2. NoCall \in Calls /\ NoCall.does = "nothing" /\ NoCall.form = Empty
    BY <1>1 DEF NoCall, Calls
<1> QED
    BY <1>1, <1>2

\* The page has just been opened.
LEMMA InitialAccount == AccountInit => AccountInv
<1> SUFFICES ASSUME AccountInit PROVE AccountInv
    OBVIOUS
<1>1. /\ signUp \in [Members -> {"no", "judged", "created"}]
      /\ PoolFollows
    <2>1. CASE signUp = [u \in Members |-> "no"]
        BY <2>1 DEF PoolFollows
    <2>2. ASSUME NEW v \in Members,
                 signUp = [u \in Members |-> IF u = v THEN "created" ELSE "no"]
          PROVE  /\ signUp \in [Members -> {"no", "judged", "created"}]
                 /\ PoolFollows
        BY <2>2 DEF PoolFollows
    <2> QED
        BY <2>1, <2>2 DEF AccountInit
<1>2. openForm \in {"sign up", "reset", "update"} => ~ValidateForm(Empty)
    <2>1. openForm \in {"sign up", "reset", "update"} => "password" \in Inputs
        BY DEF Inputs
    <2>2. "password" \in Unfilled(Empty)
        BY DEF Unfilled, Empty
    <2> QED
        BY <2>1, <2>2 DEF ValidateForm
<1>3. newest = {} \/ newest = {FALSE}
    <2> DEFINE verdict == ValidateForm(Empty)
    <2>1. openForm # "retry" => newest = {verdict} /\ ~verdict
        BY <1>2 DEF AccountInit, Kinds
    <2>2. verdict \in BOOLEAN
        BY DEF ValidateForm
    <2>3. openForm = "retry" => newest = {}
        BY DEF AccountInit
    <2> HIDE DEF verdict
    <2>4. ~verdict => verdict = FALSE
        BY <2>2
    <2> QED
        BY <2>1, <2>3, <2>4
<1>4. AccountShape
    BY <1>1, <1>3, NoCallIsACall DEF AccountInit, AccountShape
<1> QED
    BY <1>1, <1>3, <1>4, NoCallIsACall DEF AccountInit, AccountInv, VerdictsFollow, CallFollows,
                                     CodesFollow, SetByFollows, PasswordsWereConfirmed

\* A good verdict is of a complete form.
LEMMA VerdictOfComplete ==
    ASSUME openForm \in {"sign up", "reset", "update"}, NEW f \in Fields, ValidateForm(f)
    PROVE  Complete(f)
<1>1. Inputs \cap Unfilled(f) = {} /\ Inputs \cap Errors(f) = {}
    BY DEF ValidateForm
<1>2. {"password", "confirmation"} \subseteq Inputs
    BY DEF Inputs
<1>3. f.password = "strong"
    BY <1>1, <1>2 DEF Errors, FieldErrors
<1>4. f.confirmation = f.password
    BY <1>1, <1>2 DEF Errors
<1>5. ASSUME openForm \in {"sign up", "reset"} PROVE f.username # NoUser
    <2>1. "username" \in Inputs
        BY <1>5 DEF Inputs
    <2> QED
        BY <1>1, <2>1 DEF Unfilled
<1>6. ASSUME openForm = "reset" PROVE f.code
    <2>1. "code" \in Inputs
        BY <1>6 DEF Inputs
    <2> QED
        BY <1>1, <2>1 DEF Unfilled
<1> QED
    BY <1>3, <1>4, <1>5, <1>6 DEF Complete

\* What is typed changes one input, and the user name only where it is open.
LEMMA TypedFields ==
    ASSUME fields \in Fields, NEW typed \in Typed, Enabled(typed[1])
    PROVE  /\ typed[2] \in Fields
           /\ typed[2].username # fields.username => Enabled("username")
<1>1. ASSUME NEW u \in Members \cup {NoUser},
             typed = <<"username", [fields EXCEPT !.username = u]>>
      PROVE  typed[2] \in Fields /\ Enabled("username")
    <2>1. typed[1] = "username" /\ typed[2] = [fields EXCEPT !.username = u]
        BY <1>1
    <2> QED
        BY <2>1 DEF Fields
<1>2. ASSUME NEW p \in Passwords, typed = <<"password", [fields EXCEPT !.password = p]>>
      PROVE  typed[2] \in Fields /\ typed[2].username = fields.username
    <2>1. typed[2] = [fields EXCEPT !.password = p]
        BY <1>2
    <2> QED
        BY <2>1 DEF Fields
<1>3. ASSUME NEW p \in {"", "strong"},
             typed = <<"confirmation", [fields EXCEPT !.confirmation = p]>>
      PROVE  typed[2] \in Fields /\ typed[2].username = fields.username
    <2>1. typed[2] = [fields EXCEPT !.confirmation = p]
        BY <1>3
    <2> QED
        BY <2>1 DEF Fields
<1>4. CASE typed = <<"code", [fields EXCEPT !.code = TRUE]>>
    <2>1. typed[2] = [fields EXCEPT !.code = TRUE]
        BY <1>4
    <2> QED
        BY <2>1 DEF Fields
<1> QED
    BY <1>1, <1>2, <1>3, <1>4, Zenon DEF Typed

\* A change of the form makes every verdict an older one.
LEMMA OnChangeFormKeeps ==
    ASSUME AccountInv, OnChangeForm
    PROVE  AccountInv'
<1> USE DEF AccountInv
<1>1. PICK typed \in Typed : Enabled(typed[1]) /\ fields' = typed[2]
    BY DEF OnChangeForm
<1>2. fields' \in Fields /\ (fields'.username # fields.username => Enabled("username"))
    BY <1>1, TypedFields DEF AccountShape
<1>3. /\ UNCHANGED <<openForm, canSubmit, sent, target, call, poolVars>>
      /\ fresh' = FALSE
      /\ strayed' = (strayed \/ (call.does \in {"sign up", "send"}
                                 /\ fields'.username # fields.username))
    BY DEF OnChangeForm
<1>4. openForm # "closed"
    BY <1>1 DEF Enabled
<1>5. /\ newest' \in {{}, {TRUE}, {FALSE}} /\ older' \in SUBSET BOOLEAN
      /\ openForm = "retry" => UNCHANGED <<newest, older>>
      /\ TRUE \in newest' => openForm = "retry" \/ ValidateForm(fields')
    <2> DEFINE verdict == ValidateForm(fields')
    <2>1. verdict \in BOOLEAN
        BY DEF ValidateForm
    <2>2. CASE openForm = "retry" /\ UNCHANGED <<newest, older>>
        BY <2>2 DEF AccountShape
    <2>3. CASE openForm # "retry" /\ newest' = {verdict} /\ older' = older \cup newest
        <3> HIDE DEF verdict
        <3>1. newest' \in {{TRUE}, {FALSE}} /\ (TRUE \in newest' => verdict)
            BY <2>1, <2>3
        <3>2. older' \in SUBSET BOOLEAN
            BY <2>3 DEF AccountShape
        <3> QED
            BY <2>3, <3>1, <3>2 DEF verdict
    <2> QED
        BY <2>2, <2>3 DEF OnChangeForm
<1>6. VerdictsFollow'
    <2>1. CASE openForm = "retry"
        BY <1>3, <1>5, <2>1 DEF VerdictsFollow
    <2>2. CASE openForm # "retry"
        <3>1. openForm \in {"sign up", "reset", "update"}
            BY <1>4, <2>2 DEF AccountShape, Kinds
        <3>2. TRUE \in newest' => Complete(fields')
            BY <1>2, <1>5, <2>2, <3>1, VerdictOfComplete
        <3>3. TRUE \in newest' => Complete(fields)'
            BY <1>3, <3>2 DEF Complete
        <3> QED
            BY <1>3, <2>2, <3>3 DEF VerdictsFollow
    <2> QED
        BY <2>1, <2>2
<1>7. strayed' \in BOOLEAN
    BY <1>3 DEF AccountShape
<1>8. CodesFollow'
    <2>1. sent => fields'.username = fields.username
        BY <1>2 DEF Enabled, AccountShape
    <2> QED
        BY <1>3, <1>4, <2>1 DEF CodesFollow
<1>9. PoolFollows' /\ SetByFollows' /\ CallFollows'
    BY <1>3 DEF poolVars, PoolFollows, SetByFollows, PasswordsWereConfirmed, CallFollows
<1> QED
    BY <1>2, <1>3, <1>5, <1>6, <1>7, <1>8, <1>9 DEF AccountShape, poolVars

\* A verdict that arrives opens or closes the button.
LEMMA VerdictsArriveKeeps ==
    ASSUME AccountInv, NewestArrives \/ \E v \in BOOLEAN : OlderArrives(v)
    PROVE  AccountInv'
<1> USE DEF AccountInv
<1>1. UNCHANGED <<openForm, fields, codeVars, call, poolVars>>
    BY DEF NewestArrives, OlderArrives
<1>2. /\ newest' \in {{}, {TRUE}, {FALSE}} /\ older' \in SUBSET BOOLEAN
      /\ fresh' \in BOOLEAN /\ canSubmit' \in BOOLEAN
      /\ VerdictsFollow'
    <2>1. CASE NewestArrives
        <3>1. newest # {} /\ newest' = {} /\ UNCHANGED older /\ ~fresh /\ openForm # "retry"
            BY <2>1 DEF NewestArrives, VerdictsFollow, AccountShape
        <3>2. CASE canSubmit' \in newest /\ fresh' = TRUE
            <4>1. canSubmit' \in BOOLEAN /\ (canSubmit' => TRUE \in newest)
                <5>1. newest = {TRUE} \/ newest = {FALSE}
                    BY <3>1 DEF AccountShape
                <5>2. CASE newest = {TRUE}
                    BY <3>2, <5>2
                <5>3. CASE newest = {FALSE}
                    <6>1. canSubmit' = FALSE
                        BY <3>2, <5>3
                    <6> QED
                        BY <6>1
                <5> QED
                    BY <5>1, <5>2, <5>3
            <4> QED
                BY <1>1, <3>1, <3>2, <4>1 DEF VerdictsFollow, Complete, AccountShape
        <3>3. CASE UNCHANGED <<canSubmit, fresh>>
            BY <1>1, <3>1, <3>3 DEF VerdictsFollow, Complete, AccountShape
        <3> QED
            BY <2>1, <3>2, <3>3 DEF NewestArrives
    <2>2. ASSUME NEW v \in BOOLEAN, OlderArrives(v)
          PROVE  /\ newest' \in {{}, {TRUE}, {FALSE}} /\ older' \in SUBSET BOOLEAN
                 /\ fresh' \in BOOLEAN /\ canSubmit' \in BOOLEAN
                 /\ VerdictsFollow'
        <3>1. /\ v \in older /\ older' \in {older, older \ {v}} /\ canSubmit' = v /\ fresh' = FALSE
              /\ UNCHANGED newest /\ openForm # "retry"
            BY <2>2 DEF OlderArrives, VerdictsFollow
        <3> QED
            BY <1>1, <3>1 DEF VerdictsFollow, Complete, AccountShape
    <2> QED
        BY <2>1, <2>2
<1>3. CallFollows' /\ CodesFollow' /\ PoolFollows' /\ SetByFollows'
    BY <1>1 DEF codeVars, poolVars, CallFollows, CodesFollow, PoolFollows, SetByFollows,
                PasswordsWereConfirmed
<1> QED
    BY <1>1, <1>2, <1>3 DEF AccountShape, codeVars, poolVars

\* A call takes the form with it.
LEMMA CallingKeeps ==
    ASSUME AccountInv, NEW does \in {"sign up", "send", "reset", "update"}, Calling(does),
           does = "sign up" => /\ fields.username \in Members
                               /\ signUp[fields.username] # "judged",
           does \in {"sign up", "reset"} => fields.password = fields.confirmation,
           does = "send" => openForm # "update",
           does = "update" => canSubmit
    PROVE  AccountInv'
<1> USE DEF AccountInv
<1>1. /\ call'.does = does /\ call'.form = fields
      /\ call'.fresh = (fresh /\ openForm = "update")
      /\ call' \in Calls
      /\ UNCHANGED <<openForm, fields, newest, older, fresh, canSubmit, codeVars, poolVars>>
    BY DEF Calling, Calls, AccountShape
<1>2. CallFollows'
    <2>1. ASSUME fields.password # fields.confirmation
          PROVE  does \in {"send", "update"} /\ ~call'.fresh
        <3>1. does \in {"send", "update"}
            BY <2>1
        <3>2. CASE fresh /\ openForm = "update"
            BY <2>1, <3>1, <3>2 DEF VerdictsFollow, Complete
        <3> QED
            BY <1>1, <3>1, <3>2 DEF AccountShape
    <2> QED
        BY <1>1, <2>1 DEF CallFollows, poolVars
<1>3. CodesFollow'
    BY <1>1 DEF CodesFollow, codeVars
<1>4. VerdictsFollow' /\ PoolFollows' /\ SetByFollows'
    BY <1>1 DEF codeVars, poolVars, VerdictsFollow, Complete, PoolFollows, SetByFollows,
                PasswordsWereConfirmed
<1> QED
    BY <1>1, <1>2, <1>3, <1>4 DEF AccountShape, codeVars, poolVars

\* The buttons that call Cognito.
LEMMA SubmitKeeps ==
    ASSUME AccountInv, SubmitSignUp \/ SubmitUsername \/ SubmitPassword
    PROVE  AccountInv'
<1>1. CASE SubmitSignUp
    <2>1. fields.username \in Members
        BY <1>1 DEF SubmitSignUp, AccountInv, AccountShape, Fields
    <2> QED
        BY <1>1, <2>1, CallingKeeps DEF SubmitSignUp, AssertConfirmPassword
<1>2. CASE SubmitUsername
    BY <1>2, CallingKeeps DEF SubmitUsername
<1>3. CASE SubmitPassword
    BY <1>3, CallingKeeps DEF SubmitPassword, AssertConfirmPassword
<1> QED
    BY <1>1, <1>2, <1>3

\* A sign-up that is judged right begins where there is no account yet, and is
\* the only one unless two overlap.
LEMMA PreSignUpKeeps ==
    ASSUME AccountInv, NEW u \in Members, PreSignUp(u),
           UNCHANGED <<openForm, fields, newest, older, fresh, canSubmit, codeVars, call>>
    PROVE  AccountInv'
<1> USE DEF AccountInv
<1>1. /\ signUp[u] = "no" /\ signUp' = [signUp EXCEPT ![u] = "judged"]
      /\ overlapped' = (overlapped \/ \E v \in Members : signUp[v] = "judged")
      /\ UNCHANGED setBy
      /\ FieldErrors(FormOf(u)) = {}
    BY DEF PreSignUp
<1>2. signUp' \in [Members -> {"no", "judged", "created"}] /\ overlapped' \in BOOLEAN
    BY <1>1 DEF AccountShape
<1>3. /\ Registered = {}
      /\ FormOf(u).password = "strong"
    BY <1>1 DEF FieldErrors
<1>4. PoolFollows'
    <2>1. \A v \in Members : signUp[v] \in {"no", "judged"}
        BY <1>3 DEF Registered, AccountShape
    <2>2. ASSUME NEW v \in Members \ {u}, signUp[v] # "no" PROVE overlapped'
        BY <1>1, <2>1, <2>2
    <2>3. \A v \in Members \ {u} : signUp'[v] = signUp[v]
        BY <1>1 DEF AccountShape
    <2> QED
        BY <1>1, <2>2, <2>3 DEF PoolFollows
<1>5. CallFollows'
    <2>1. CASE Here(u)
        BY <1>1, <1>3, <2>1 DEF CallFollows, Here, FormOf
    <2>2. CASE call.does = "sign up" /\ call.form.username # u
        BY <1>1, <2>2 DEF CallFollows, AccountShape
    <2>3. CASE call.does # "sign up"
        BY <2>3 DEF CallFollows
    <2> QED
        BY <2>1, <2>2, <2>3 DEF Here
<1>6. VerdictsFollow' /\ CodesFollow' /\ SetByFollows'
    BY <1>1 DEF codeVars, VerdictsFollow, Complete, CodesFollow, SetByFollows, PasswordsWereConfirmed
<1> QED
    BY <1>1, <1>2, <1>4, <1>5, <1>6 DEF AccountShape, codeVars

\* Cognito carries it out, or does not.
LEMMA CreateUserKeeps ==
    ASSUME AccountInv, NEW u \in Members, CreateUser(u),
           UNCHANGED <<openForm, fields, newest, older, fresh, canSubmit, codeVars, call>>
    PROVE  AccountInv'
<1> USE DEF AccountInv
<1>1. /\ signUp[u] = "judged" /\ UNCHANGED overlapped
      /\ \E result \in {"no", "created"} : signUp' = [signUp EXCEPT ![u] = result]
      /\ setBy' = setBy \/ (Here(u) /\ setBy' = call)
    BY DEF CreateUser
<1>2. /\ signUp' \in [Members -> {"no", "judged", "created"}]
      /\ signUp'[u] # "judged"
      /\ \A v \in Members \ {u} : signUp'[v] = signUp[v]
    BY <1>1 DEF AccountShape
<1>3. PoolFollows'
    BY <1>1, <1>2 DEF PoolFollows
<1>4. CallFollows'
    BY <1>2 DEF CallFollows
<1>5. SetByFollows' /\ setBy' \in Calls
    <2>1. CASE setBy' = setBy
        BY <2>1 DEF SetByFollows, PasswordsWereConfirmed, AccountShape
    <2>2. CASE Here(u) /\ setBy' = call
        <3>1. call.does = "sign up" /\ call.form.password = "strong"
              /\ call.form.password = call.form.confirmation
            BY <1>1, <2>2 DEF Here, CallFollows
        <3> QED
            BY <2>2, <3>1 DEF SetByFollows, PasswordsWereConfirmed, AccountShape
    <2> QED
        BY <1>1, <2>1, <2>2
<1>6. VerdictsFollow' /\ CodesFollow'
    BY DEF codeVars, VerdictsFollow, Complete, CodesFollow
<1> QED
    BY <1>1, <1>2, <1>3, <1>4, <1>5, <1>6 DEF AccountShape, codeVars

\* A call of Cognito that sends a code is answered, or not.
LEMMA CodeAnsweredKeeps ==
    ASSUME AccountInv, SignUpAnswered \/ SendAnswered
    PROVE  AccountInv'
<1> USE DEF AccountInv
<1>1. /\ call.does \in {"sign up", "send"} /\ call' = NoCall
      /\ UNCHANGED <<openForm, fields, newest, older, fresh, canSubmit, strayed, poolVars>>
      /\ \/ sent' = TRUE /\ target' = call.form.username
         \/ UNCHANGED <<sent, target>>
    BY DEF SignUpAnswered, SendAnswered
<1>2. call.form.username \in Members \cup {NoUser}
    BY DEF AccountShape, Calls, Fields
<1>3. CodesFollow'
    BY <1>1, NoCallIsACall DEF CodesFollow
<1>4. CallFollows'
    BY <1>1, NoCallIsACall DEF CallFollows
<1>5. VerdictsFollow' /\ PoolFollows' /\ SetByFollows'
    BY <1>1 DEF poolVars, VerdictsFollow, Complete, PoolFollows, SetByFollows, PasswordsWereConfirmed
<1> QED
    BY <1>1, <1>2, <1>3, <1>4, <1>5, NoCallIsACall DEF AccountShape, poolVars

\* A form that is left promises nothing.
LEMMA CloseKeeps ==
    ASSUME AccountInv, Close
    PROVE  /\ VerdictsFollow' /\ CodesFollow' /\ PoolFollows'
           /\ openForm' \in Kinds \cup {"closed"} /\ fields' \in Fields
           /\ newest' \in {{}, {TRUE}, {FALSE}} /\ older' \in SUBSET BOOLEAN
           /\ canSubmit' \in BOOLEAN
           /\ UNCHANGED <<fresh, codeVars, signUp, overlapped>>
BY NoCallIsACall DEF Close, AccountInv, VerdictsFollow, CodesFollow, PoolFollows, Kinds

\* A change of the password is answered, or not.
LEMMA PasswordAnsweredKeeps ==
    ASSUME AccountInv, PasswordAnswered
    PROVE  AccountInv'
<1> USE DEF AccountInv
<1>1. /\ call.does \in {"reset", "update"} /\ call' = NoCall /\ setBy' \in {setBy, call}
      /\ \/ Close
         \/ UNCHANGED <<openForm, fields, newest, older, fresh, canSubmit, codeVars, signUp, overlapped>>
    BY DEF PasswordAnswered
<1>2. SetByFollows' /\ setBy' \in Calls
    BY <1>1 DEF SetByFollows, PasswordsWereConfirmed, CallFollows, AccountShape
<1>3. CallFollows' /\ call' \in Calls
    BY <1>1, NoCallIsACall DEF CallFollows
<1>4. CASE Close
    BY <1>2, <1>3, <1>4, CloseKeeps DEF AccountShape, codeVars
<1>5. CASE UNCHANGED <<openForm, fields, newest, older, fresh, canSubmit, codeVars, signUp, overlapped>>
    <2>1. VerdictsFollow' /\ CodesFollow' /\ PoolFollows'
        BY <1>1, <1>5, NoCallIsACall DEF codeVars, VerdictsFollow, Complete, CodesFollow, PoolFollows
    <2> QED
        BY <1>2, <1>3, <1>5, <2>1 DEF AccountShape, codeVars
<1> QED
    BY <1>1, <1>4, <1>5

\* A code that is right ends the form; a call under way goes on.
LEMMA VerifyCodeKeeps ==
    ASSUME AccountInv, VerifyCode
    PROVE  AccountInv'
<1> USE DEF AccountInv
<1>1. Close /\ UNCHANGED <<call, setBy>>
    BY DEF VerifyCode
<1>2. UNCHANGED signUp
    BY <1>1, CloseKeeps
<1>3. CallFollows' /\ SetByFollows'
    BY <1>1, <1>2 DEF CallFollows, SetByFollows, PasswordsWereConfirmed
<1> QED
    BY <1>1, <1>3, CloseKeeps DEF AccountShape, codeVars

\* Every step of the four forms keeps the invariant.
LEMMA AccountStepKeeps ==
    ASSUME AccountInv, AccountNext \/ UNCHANGED accountVars
    PROVE  AccountInv'
<1>1. CASE UNCHANGED accountVars
    <2>1. UNCHANGED <<openForm, fields, newest, older, fresh, canSubmit, sent, target, strayed,
                      call, signUp, overlapped, setBy>>
        BY <1>1 DEF accountVars, codeVars, poolVars
    <2>2. AccountShape' /\ VerdictsFollow'
        BY <2>1 DEF AccountInv, AccountShape, VerdictsFollow, Complete
    <2>3. CallFollows' /\ CodesFollow'
        BY <2>1 DEF AccountInv, CallFollows, CodesFollow
    <2>4. PoolFollows' /\ SetByFollows'
        BY <2>1 DEF AccountInv, PoolFollows, SetByFollows, PasswordsWereConfirmed
    <2> QED
        BY <2>2, <2>3, <2>4 DEF AccountInv
<1>2. CASE \E u \in Members : SignUpStep(u)
    BY <1>2, PreSignUpKeeps, CreateUserKeeps DEF SignUpStep
<1> QED
    BY <1>1, <1>2, OnChangeFormKeeps, VerdictsArriveKeeps, SubmitKeeps, CodeAnsweredKeeps,
       PasswordAnsweredKeeps, VerifyCodeKeeps DEF AccountNext

\* What the invariant says of the button, the passwords, the accounts and the code.
LEMMA AccountPromise ==
    AccountInv =>
        /\ AccountTypeOK /\ ButtonTellsTheForm /\ PasswordsWereConfirmed
        /\ AccountsPassedTheRules /\ CodeIsForThisUser
<1> SUFFICES ASSUME AccountInv
             PROVE  /\ AccountTypeOK /\ ButtonTellsTheForm /\ PasswordsWereConfirmed
                    /\ AccountsPassedTheRules /\ CodeIsForThisUser
    OBVIOUS
<1> USE DEF AccountInv
<1>1. {fresh, canSubmit, sent, strayed, overlapped} \subseteq BOOLEAN
    BY DEF AccountShape
<1>2. AccountTypeOK
    BY <1>1 DEF AccountTypeOK, AccountShape, VerdictsFollow
<1>3. ButtonTellsTheForm
    BY DEF VerdictsFollow, Complete, ButtonTellsTheForm
<1>4. AccountsPassedTheRules
    BY DEF PoolFollows, SetByFollows, AccountsPassedTheRules, Registered
<1> QED
    BY <1>2, <1>3, <1>4 DEF SetByFollows, CodesFollow, CodeIsForThisUser

-----------------------------------------------------------------------------
(* ProfileForm.  The inductive invariant: a picture that goes to Cognito is  *)
(* in S3 by then, and a press has a form that was right.                     *)

Pictures == Files \cup {CutUrl, NoFile}

UpdateState == [at: {"idle", "upload", "update"}, text: Profiles, picture: Pictures]

UpdateFollows(p) ==
    /\ IsValidForm(update[p].text)
    /\ update[p].at = "upload" => update[p].picture \in Files
    /\ update[p].at = "update" /\ update[p].picture \in Files => update[p].picture \in bucket

ProfileShape ==
    /\ profile \in Profiles
    /\ image \in Files \cup {NoFile}
    /\ reading \in SUBSET Files
    /\ bucket \in SUBSET Files
    /\ attributes \in [text: Profiles, picture: Pictures]
    /\ update \in [Updates -> UpdateState]

ProfileInv ==
    /\ ProfileShape
    /\ \A p \in Updates : UpdateFollows(p)
    /\ PictureExists
    /\ StoredProfilesAreValid

\* Nothing has been chosen yet.
LEMMA InitialProfile == ProfileInit => ProfileInv
<1> SUFFICES ASSUME ProfileInit PROVE ProfileInv
    OBVIOUS
<1>1. Waiting \in UpdateState /\ Waiting.at = "idle" /\ Waiting.text = "blank"
    BY DEF Waiting, UpdateState, Profiles, Pictures
<1>2. /\ attributes.text \in {"blank", "good"} /\ attributes.picture = NoFile
      /\ attributes \in [text: Profiles, picture: Pictures]
    BY DEF ProfileInit, Profiles, Pictures
<1>3. update = [p \in Updates |-> Waiting]
    BY DEF ProfileInit
<1>4. \A p \in Updates : UpdateFollows(p)
    BY <1>1, <1>3 DEF UpdateFollows, IsValidForm
<1>5. ProfileShape
    BY <1>1, <1>2, <1>3 DEF ProfileInit, ProfileShape, Profiles
<1> QED
    BY <1>2, <1>4, <1>5, FilesAssumption DEF ProfileInv, PictureExists, StoredProfilesAreValid, IsValidForm

\* Typing and choosing images touch no update under way.
LEMMA ProfileTypingKeeps ==
    ASSUME ProfileInv,
           HandleChangeForm \/ (\E f \in Files : HandleSetImage(f) \/ ImageRead(f))
           \/ UNCHANGED profileVars
    PROVE  ProfileInv'
<1>1. UNCHANGED <<update, bucket, attributes>>
    BY DEF HandleChangeForm, HandleSetImage, ImageRead, profileVars
<1>2. profile' \in Profiles /\ image' \in Files \cup {NoFile} /\ reading' \in SUBSET Files
    BY DEF HandleChangeForm, HandleSetImage, ImageRead, profileVars, ProfileInv, ProfileShape
<1> QED
    BY <1>1, <1>2 DEF ProfileInv, ProfileShape, UpdateFollows, PictureExists,
                      StoredProfilesAreValid, IsValidForm

\* One update moves, and the others keep what they had: images stay in S3.
LEMMA OneUpdateMoves ==
    ASSUME ProfileInv, NEW p \in Updates, NEW now \in UpdateState,
           update' = [update EXCEPT ![p] = now],
           IsValidForm(now.text),
           now.at = "upload" => now.picture \in Files,
           now.at = "update" /\ now.picture \in Files => now.picture \in bucket',
           bucket \subseteq bucket'
    PROVE  update' \in [Updates -> UpdateState] /\ \A q \in Updates : UpdateFollows(q)'
<1>1. /\ update' \in [Updates -> UpdateState] /\ update'[p] = now
      /\ \A q \in Updates \ {p} : update'[q] = update[q]
    BY DEF ProfileInv, ProfileShape
<1>2. UpdateFollows(p)'
    BY <1>1 DEF UpdateFollows, IsValidForm
<1>3. ASSUME NEW q \in Updates \ {p} PROVE UpdateFollows(q)'
    BY <1>1 DEF ProfileInv, UpdateFollows, IsValidForm
<1> QED
    BY <1>1, <1>2, <1>3

\* The button takes a form that is right.
LEMMA HandleSubmitFormKeeps ==
    ASSUME ProfileInv, NEW p \in Updates, HandleSubmitForm(p)
    PROVE  ProfileInv'
<1> DEFINE now == [at |-> IF image = NoFile THEN "update" ELSE "upload",
                   text |-> profile, picture |-> image]
<1>1. /\ now \in UpdateState /\ IsValidForm(now.text)
      /\ now.at = "upload" => now.picture \in Files
      /\ now.at = "update" => now.picture = NoFile
    BY DEF HandleSubmitForm, UpdateState, Pictures, ProfileInv, ProfileShape, IsValidForm
<1>2. update' = [update EXCEPT ![p] = now] /\ UNCHANGED <<profile, image, reading, bucket, attributes>>
    BY DEF HandleSubmitForm
<1> HIDE DEF now
<1>3. update' \in [Updates -> UpdateState] /\ \A q \in Updates : UpdateFollows(q)'
    BY <1>1, <1>2, OneUpdateMoves, FilesAssumption
<1> QED
    BY <1>2, <1>3 DEF ProfileInv, ProfileShape, PictureExists, StoredProfilesAreValid, IsValidForm

\* A picture goes on only when S3 has it.
LEMMA UploadImageKeeps ==
    ASSUME ProfileInv, NEW p \in Updates, UploadImage(p)
    PROVE  ProfileInv'
<1>1. /\ update[p] \in UpdateState /\ IsValidForm(update[p].text)
      /\ update[p].picture \in Files
    BY DEF UploadImage, ProfileInv, ProfileShape, UpdateFollows
<1>2. PICK picture \in {EncodeURI(update[p].picture), NoFile} :
            /\ Uploaded(p, picture)
            /\ picture # NoFile => update[p].picture \in bucket'
            /\ bucket' \in {bucket, bucket \cup {update[p].picture}}
    BY DEF UploadImage
<1>3. picture \in Pictures /\ (picture \in Files => picture \in bucket')
    BY <1>1, <1>2, FilesAssumption DEF EncodeURI, Pictures
<1> DEFINE now == [update[p] EXCEPT !.at = "update", !.picture = picture]
<1>4. /\ now \in UpdateState /\ now.at = "update" /\ now.picture = picture
      /\ now.text = update[p].text
    BY <1>1, <1>3 DEF UpdateState
<1>5. update' = [update EXCEPT ![p] = now]
    BY <1>2 DEF Uploaded, ProfileInv, ProfileShape
<1> HIDE DEF now
<1>6. bucket \subseteq bucket' /\ bucket' \in SUBSET Files
    BY <1>1, <1>2 DEF ProfileInv, ProfileShape
<1>7. update' \in [Updates -> UpdateState] /\ \A q \in Updates : UpdateFollows(q)'
    BY <1>1, <1>4, <1>5, <1>6, <1>3, OneUpdateMoves DEF IsValidForm
<1>8. UNCHANGED <<profile, image, reading, attributes>>
    BY DEF UploadImage
<1> QED
    BY <1>6, <1>7, <1>8 DEF ProfileInv, ProfileShape, PictureExists, StoredProfilesAreValid,
                            IsValidForm

\* Cognito takes what the update holds, or nothing.
LEMMA UpdateAttributesKeeps ==
    ASSUME ProfileInv, NEW p \in Updates, UpdateAttributes(p)
    PROVE  ProfileInv'
<1>1. /\ Waiting \in UpdateState /\ Waiting.at = "idle" /\ IsValidForm(Waiting.text)
    BY DEF Waiting, UpdateState, Profiles, Pictures, IsValidForm
<1>2. /\ update' = [update EXCEPT ![p] = Waiting]
      /\ UNCHANGED <<profile, image, reading, bucket>>
      /\ update[p].at = "update"
    BY DEF UpdateAttributes
<1>3. update' \in [Updates -> UpdateState] /\ \A q \in Updates : UpdateFollows(q)'
    BY <1>1, <1>2, OneUpdateMoves
<1>4. /\ attributes' \in [text: Profiles, picture: Pictures]
      /\ IsValidForm(attributes'.text)
      /\ attributes'.picture \in Files => attributes'.picture \in bucket
    <2>1. CASE UNCHANGED attributes
        BY <2>1 DEF ProfileInv, ProfileShape, PictureExists, StoredProfilesAreValid
    <2>2. CASE attributes' = [text |-> update[p].text,
                              picture |-> IF update[p].picture = NoFile
                                          THEN attributes.picture ELSE update[p].picture]
        <3>1. update[p] \in UpdateState /\ UpdateFollows(p)
            BY DEF ProfileInv, ProfileShape
        <3> QED
            BY <1>2, <2>2, <3>1 DEF UpdateState, UpdateFollows, ProfileInv, ProfileShape,
                                    PictureExists
    <2> QED
        BY <2>1, <2>2 DEF UpdateAttributes
<1> QED
    BY <1>2, <1>3, <1>4 DEF ProfileInv, ProfileShape, PictureExists, StoredProfilesAreValid,
                            IsValidForm

\* Every step of the form keeps the invariant.
LEMMA ProfileStepKeeps ==
    ASSUME ProfileInv, ProfileNext \/ UNCHANGED profileVars
    PROVE  ProfileInv'
BY ProfileTypingKeeps, HandleSubmitFormKeeps, UploadImageKeeps, UpdateAttributesKeeps
   DEF ProfileNext

\* The invariant has the shape of the form in it.
LEMMA ProfilePromise == ProfileInv => ProfileTypeOK
BY DEF ProfileInv, ProfileShape, UpdateState, Pictures, UpdateFollows, ProfileTypeOK

-----------------------------------------------------------------------------
(* SearchPage.  The inductive invariant adds that the request made last is *)
(* always for what the URL names now.                                      *)

SearchShape ==
    /\ params \in [q: Words, page: 0..LastPage]
    /\ asked \in SUBSET Keys /\ askedBefore \in SUBSET Keys
    /\ inTurn \in BOOLEAN /\ astray \in BOOLEAN
    /\ listed \in Keys \cup {NothingListed}
    /\ pager \in 1..LastPage
    /\ count = IF listed = NothingListed THEN 1 ELSE Pages[listed.q]
    /\ table # "search" => params.q = AnyWords

\* What is under way, or was listed in turn, is what the URL names.
AskedIsOfTheUrl ==
    /\ asked = {} \/ asked = {Key(params)}
    /\ inTurn => listed = Key(params)

SearchInv == SearchShape /\ AskedIsOfTheUrl /\ PageIsThere

\* The number of pages is a number.
LEMMA PagesAreCounted ==
    /\ Pages[AnyWords] \in Nat /\ LastPage \in Nat
    /\ LastPage > 0 /\ LastPage >= Pages[AnyWords]
    /\ AnyWords \in Words
    /\ \A q \in Words : Pages[q] \in Nat /\ Pages[q] <= Pages[AnyWords]
BY PagesAssumption DEF Words, LastPage

\* A URL with words of the server and such a page has a key.
LEMMA KeyIsAKey ==
    ASSUME NEW url \in [q: Words, page: 0..LastPage]
    PROVE  /\ Key(url) \in Keys /\ PageNum(url) \in 1..LastPage
           /\ Key(url).q = url.q /\ Key(url).page = PageNum(url)
<1>1. url.page \in 0..LastPage /\ url.q \in Words /\ LastPage \in Nat /\ LastPage > 0
    BY PagesAreCounted
<1>2. PageNum(url) \in 1..LastPage
    BY <1>1 DEF PageNum
<1> QED
    BY <1>1, <1>2 DEF Key, Keys

\* The page has just been opened.
LEMMA InitialSearch == SearchInit => SearchInv
<1> SUFFICES ASSUME SearchInit PROVE SearchInv
    OBVIOUS
<1>1. /\ params.q \in Words /\ params.page \in 0..Pages[AnyWords]
      /\ params = [q |-> params.q, page |-> params.page]
      /\ params.page <= Pages[params.q]
      /\ table # "search" => params.q = AnyWords
    BY PagesAreCounted DEF SearchInit
<1>2. params \in [q: Words, page: 0..LastPage]
    BY <1>1, PagesAreCounted
<1>3. Key(params) \in Keys
    BY <1>2, KeyIsAKey
<1>4. SearchShape
    <2>1. pager \in 1..LastPage
        BY PagesAreCounted DEF SearchInit
    <2>2. listed = NothingListed /\ count = 1
        BY DEF SearchInit
    <2> QED
        BY <1>1, <1>2, <1>3, <2>1, <2>2 DEF SearchInit, SearchShape
<1>5. PageIsThere
    BY <1>1, PagesAreCounted DEF PageIsThere, PageNum
<1> QED
    BY <1>4, <1>5 DEF SearchInit, SearchInv, AskedIsOfTheUrl

\* An effect asks for what the URL names, or the URL names what it did.
LEMMA SetSearchParamsAsks ==
    ASSUME SearchInv, NEW url \in [q: Words, page: 0..LastPage],
           SetSearchParams(url), UNCHANGED listed
    PROVE  /\ params' = url
           /\ asked' \in SUBSET Keys /\ askedBefore' \in SUBSET Keys /\ inTurn' \in BOOLEAN
           /\ AskedIsOfTheUrl'
<1> USE DEF SearchInv
<1>1. params' = url
    BY DEF SetSearchParams
<1>2. CASE AskFor(Key(url))
    <2>1. asked' = {Key(url)} /\ askedBefore' = askedBefore \cup asked /\ inTurn' = FALSE
        BY <1>2 DEF AskFor
    <2>2. Key(params)' = Key(url)
        BY <1>1 DEF Key, PageNum
    <2> QED
        BY <1>1, <2>1, <2>2, KeyIsAKey DEF SearchShape, AskedIsOfTheUrl
<1>3. CASE UNCHANGED <<asked, askedBefore, inTurn>> /\ Key(url) = Key(params)
    <2>1. Key(params)' = Key(params)
        BY <1>1, <1>3 DEF Key, PageNum
    <2> QED
        BY <1>1, <1>3, <2>1 DEF SearchShape, AskedIsOfTheUrl
<1> QED
    BY <1>2, <1>3 DEF SetSearchParams

\* Words that are typed have a first page, or all pages there are.
LEMMA OnChangeKeywordsKeeps ==
    ASSUME SearchInv, NEW words \in Words, OnChangeKeywords(words)
    PROVE  SearchInv'
<1> USE DEF SearchInv
<1> DEFINE url == UrlFor(words)
<1>1. /\ table = "search" /\ UNCHANGED <<table, listed, count, pager>>
      /\ SetSearchParams(url)
      /\ astray' = (astray /\ words = AnyWords)
    BY DEF OnChangeKeywords
<1>2. /\ params.page \in 0..LastPage /\ params.q \in Words /\ astray \in BOOLEAN
      /\ Pages[params.q] \in Nat /\ Pages[params.q] <= Pages[AnyWords]
      /\ Pages[AnyWords] \in Nat /\ LastPage \in Nat
    BY PagesAreCounted DEF SearchShape
<1>3. CASE words = AnyWords
    <2>1. /\ url \in [q: Words, page: 0..LastPage]
          /\ url.q = AnyWords /\ url.page = params.page
        BY <1>2, <1>3, PagesAreCounted DEF UrlFor, SearchShape
    <2> HIDE DEF url
    <2>2. /\ params' = url
          /\ asked' \in SUBSET Keys /\ askedBefore' \in SUBSET Keys /\ inTurn' \in BOOLEAN
          /\ AskedIsOfTheUrl'
        BY <1>1, <2>1, SetSearchParamsAsks
    <2>3. PageIsThere'
        BY <1>1, <1>2, <1>3, <2>1, <2>2 DEF PageIsThere, PageNum
    <2> QED
        BY <1>1, <1>2, <2>1, <2>2, <2>3 DEF SearchShape
<1>4. CASE words # AnyWords
    <2>1. /\ url \in [q: Words, page: 0..LastPage]
          /\ url.page = 0
        BY <1>2, <1>4 DEF UrlFor
    <2> HIDE DEF url
    <2>2. /\ params' = url
          /\ asked' \in SUBSET Keys /\ askedBefore' \in SUBSET Keys /\ inTurn' \in BOOLEAN
          /\ AskedIsOfTheUrl'
        BY <1>1, <2>1, SetSearchParamsAsks
    <2>3. PageIsThere'
        BY <2>1, <2>2 DEF PageIsThere, PageNum
    <2> QED
        BY <1>1, <1>2, <2>1, <2>2, <2>3 DEF SearchShape
<1> QED
    BY <1>3, <1>4

\* A page that is chosen is one of those listed, unless the pager has gone astray.
LEMMA ChangePageKeeps ==
    ASSUME SearchInv, NEW n \in 1..LastPage, ChangePage(n)
    PROVE  SearchInv'
<1> USE DEF SearchInv
<1> DEFINE url == [params EXCEPT !.page = n]
<1>1. /\ UNCHANGED <<table, listed, count>>
      /\ SetSearchParams(url)
      /\ pager' = n
      /\ astray' = (n > count \/ listed.q # params.q)
    BY DEF ChangePage
<1>2. /\ n \in Nat /\ n > 0
      /\ url \in [q: Words, page: 0..LastPage]
      /\ url.q = params.q /\ url.page = n
    BY PagesAreCounted DEF SearchShape
<1> HIDE DEF url
<1>3. /\ params' = url
      /\ asked' \in SUBSET Keys /\ askedBefore' \in SUBSET Keys /\ inTurn' \in BOOLEAN
      /\ AskedIsOfTheUrl'
    BY <1>1, <1>2, SetSearchParamsAsks
<1>4. PageIsThere'
    <2> SUFFICES ASSUME PageNum(params)' > 1, ~astray'
                 PROVE  PageNum(params)' <= Pages[params'.q]
        BY <1>1 DEF PageIsThere
    <2>1. PageNum(params)' = n /\ params'.q = params.q
        BY <1>2, <1>3 DEF PageNum
    <2>2. ~(n > count) /\ listed.q = params.q
        BY <1>1
    <2>3. CASE listed = NothingListed
        BY <1>2, <2>1, <2>2, <2>3 DEF SearchShape
    <2>4. CASE listed # NothingListed
        <3>1. count = Pages[params.q] /\ params.q \in Words
            BY <2>2, <2>4 DEF SearchShape
        <3> QED
            BY <1>2, <2>1, <2>2, <3>1, PagesAreCounted
    <2> QED
        BY <2>3, <2>4
<1> QED
    BY <1>1, <1>2, <1>3, <1>4 DEF SearchShape

\* A reload of the session asks again.
LEMMA UserLoadedKeeps ==
    ASSUME SearchInv, UserLoaded
    PROVE  SearchInv'
<1> USE DEF SearchInv
<1>1. /\ asked' = {Key(params)} /\ askedBefore' = askedBefore \cup asked /\ inTurn' = FALSE
      /\ UNCHANGED <<table, params, listed, count, pager, astray>>
    BY DEF UserLoaded, AskFor
<1>2. Key(params) \in Keys
    BY KeyIsAKey DEF SearchShape
<1> QED
    BY <1>1, <1>2 DEF SearchShape, AskedIsOfTheUrl, PageIsThere, PageNum, Key

\* What was asked for last arrives, or something older, or nothing.
LEMMA AnswersKeep ==
    ASSUME SearchInv, NewestListed \/ (\E key \in Keys : OlderListed(key)) \/ NotAnswered
    PROVE  SearchInv'
<1> USE DEF SearchInv
<1>1. UNCHANGED <<table, params, pager, astray>>
    BY DEF NewestListed, OlderListed, NotAnswered
<1>2. PageIsThere' /\ Key(params)' = Key(params)
    BY <1>1 DEF PageIsThere, PageNum, Key
<1>3. ASSUME NEW key \in Keys, Show(key)
      PROVE  /\ listed' \in Keys \cup {NothingListed}
             /\ count' = IF listed' = NothingListed THEN 1 ELSE Pages[listed'.q]
    BY <1>3 DEF Show, Keys, NothingListed
<1>4. CASE NewestListed
    <2>1. PICK key \in asked : Show(key)
        BY <1>4 DEF NewestListed
    <2>2. key = Key(params) /\ key \in Keys /\ listed' = key
        BY <2>1 DEF AskedIsOfTheUrl, SearchShape, Show
    <2> QED
        BY <1>1, <1>2, <1>3, <1>4, <2>1, <2>2 DEF NewestListed, SearchShape, AskedIsOfTheUrl
<1>5. ASSUME NEW key \in Keys, OlderListed(key)
      PROVE  SearchInv'
    BY <1>1, <1>2, <1>3, <1>5 DEF OlderListed, SearchShape, AskedIsOfTheUrl
<1>6. CASE NotAnswered
    BY <1>1, <1>2, <1>6 DEF NotAnswered, SearchShape, AskedIsOfTheUrl
<1> QED
    BY <1>4, <1>5, <1>6

\* Every step of the tables keeps the invariant.
LEMMA SearchStepKeeps ==
    ASSUME SearchInv, SearchNext \/ UNCHANGED searchVars
    PROVE  SearchInv'
<1>1. CASE UNCHANGED searchVars
    BY <1>1 DEF searchVars, SearchInv, SearchShape, AskedIsOfTheUrl, PageIsThere, PageNum, Key
<1> QED
    BY <1>1, OnChangeKeywordsKeeps, ChangePageKeeps, UserLoadedKeeps, AnswersKeep DEF SearchNext

\* The invariant has the shape of the tables in it, and one request is newest.
LEMMA SearchPromise == SearchInv => SearchTypeOK /\ ListIsOfTheUrl /\ PageIsThere
<1> SUFFICES ASSUME SearchInv PROVE SearchTypeOK /\ ListIsOfTheUrl /\ PageIsThere
    OBVIOUS
<1> USE DEF SearchInv
<1>1. Cardinality(asked) <= 1
    <2>1. asked = {} \/ asked = {Key(params)}
        BY DEF AskedIsOfTheUrl
    <2>2. Cardinality({}) = 0 /\ Cardinality({Key(params)}) = 1
        BY FS_EmptySet, FS_Singleton
    <2> QED
        BY <2>1, <2>2
<1>2. SearchTypeOK
    BY <1>1 DEF SearchShape, SearchTypeOK
<1>3. ListIsOfTheUrl
    BY DEF AskedIsOfTheUrl, ListIsOfTheUrl
<1> QED
    BY <1>2, <1>3
=============================================================================
