---------------------------- MODULE ArticleForms ----------------------------
(***************************************************************************)
(* NewArticleForm and EditArticleForm: an article is saved and, when the   *)
(* switch is on, minted, by calls of the server and of MetaMask that each  *)
(* may fail, or be carried out and answered too late.  The buttons stay    *)
(* enabled, so one press may overtake another.                             *)
(*                                                                         *)
(* Title and content are one text here: the handlers treat them alike.     *)
(***************************************************************************)
EXTENDS Naturals, Web3Connection

CONSTANTS
    MaxClicks,    \* bounds the presses of the button
    Wallets       \* the wallets the user may have registered

ASSUME WalletsAssumption == Wallets \subseteq Accounts

VARIABLES
    kind,         \* which of the two forms
    wallet,       \* the wallet the user has registered
    articlePage,  \* what the page shows
    fetches,      \* EditArticlePage: the fetches of the owner under way
    loads,        \* EditArticleForm: the loads under way
    form,         \* text, mint (the switch) and hasNFT
    loaded,       \* a load of the form has ended well
    early,        \* the button was pressed before
    click,        \* press -> how far handlePost or handleUpdate is
    stored,       \* article -> its text on the server, "none" for no article
    mintsSent,    \* the articles the server has sent a mint transaction for
    minted,       \* those whose transaction has been mined: they have a token
    nonce         \* the user's nonce, counted; 0 for none

pageVars == <<articlePage, fetches, loads, form, loaded, early>>
serverVars == <<stored, mintsSent, minted, nonce>>
articleVars == <<kind, wallet, pageVars, click, serverVars>>

\* The effects run at the start and once more when the contract is there.
Effects == {"mount", "contract"}

Texts == {"blank", "old", "typed"}

Idle == [stage |-> "idle", text |-> "blank", mint |-> FALSE, account |-> NoAddress,
         nonce |-> 0, lost |-> FALSE]

Stages == {"idle", "save", "nonce", "sign", "mint", "success", "failure", "gone"}

\* The presses in their order.  A new article is known by the press that posts
\* it; Edited is the one EditArticleForm is about.
Clicks == 1..MaxClicks
Edited == 0
Article(c) == IF kind = "new" THEN c ELSE Edited

Blank == [text |-> "blank", mint |-> FALSE, hasNFT |-> FALSE]

ArticleInit ==
    /\ Web3Init
    /\ kind \in {"new", "edit"}
    /\ wallet \in Wallets \cup {NoAddress}
    /\ articlePage = IF kind = "new" THEN "form" ELSE "checking"
    /\ fetches = IF kind = "new" THEN {} ELSE {"mount"}
    /\ loads = {}
    /\ form = Blank
    /\ loaded = FALSE
    /\ early = FALSE
    /\ click = [c \in Clicks |-> Idle]
    /\ stored = [a \in Clicks \cup {Edited} |->
                    IF kind = "edit" /\ a = Edited THEN "old" ELSE "none"]
    /\ mintsSent \in IF kind = "new" THEN {{}} ELSE {{}, {Edited}}
    /\ minted \in {{}, mintsSent}
    /\ nonce = IF wallet = NoAddress THEN 0 ELSE 1

-----------------------------------------------------------------------------
(* Opening the page, and MetaMask.                                         *)

Detect ==
    /\ articlePage # "closed"
    /\ DetectProvider
    /\ UNCHANGED articleVars

\* The contract comes with the account, and both effects run again.
Connect(acct) ==
    /\ articlePage # "closed"
    /\ ConnectMetamask(acct)
    /\ fetches' = IF kind = "edit" THEN fetches \cup {"contract"} ELSE fetches
    /\ loads' = IF kind = "edit" /\ articlePage = "form" THEN loads \cup {"contract"} ELSE loads
    /\ UNCHANGED <<kind, wallet, articlePage, form, loaded, early, click, serverVars>>

\* Each fetch of the owner ends.  It brings what the page knows, or nothing (an
\* error that nothing catches); or the verdict turns, as the token may have been
\* transferred or the owner be unknown, and the form goes away or opens anew.
FetchOwner(e) ==
    /\ e \in fetches
    /\ fetches' = fetches \ {e}
    /\ \/ UNCHANGED <<articlePage, loads, form, loaded>>
       \/ /\ articlePage' \in {"checking", "form", "refused"} \ {articlePage}
          /\ form' = Blank
          /\ loaded' = FALSE
          /\ loads' = IF articlePage' # "form" THEN {}
                      ELSE IF IsConnectedToMetamask THEN {"contract"} ELSE {"mount"}
    /\ UNCHANGED <<kind, wallet, early, click, serverVars, web3Vars>>

\* getArticle has answered: the form is filled, over what has been typed.  With
\* a contract getTokenId follows.
LoadArticle(e) ==
    /\ e \in loads \cap Effects
    /\ form' = [form EXCEPT !.text = stored[Edited]]
    /\ loaded' = TRUE
    /\ loads' = (loads \ {e}) \cup {l \in {"token"} : e = "contract"}
    /\ UNCHANGED <<kind, wallet, articlePage, fetches, early, click, serverVars, web3Vars>>

LoadToken ==
    /\ "token" \in loads
    /\ form' = [form EXCEPT !.hasNFT = Edited \in minted]
    /\ loads' = loads \ {"token"}
    /\ UNCHANGED <<kind, wallet, articlePage, fetches, loaded, early, click, serverVars, web3Vars>>

\* Mutant of ArticleLoadFails: the form is cleared when the article does not come.
LoadFailsClearing(e) ==
    /\ e \in loads
    /\ loads' = loads \ {e}
    /\ form' = Blank
    /\ UNCHANGED <<kind, wallet, articlePage, fetches, loaded, early, click, serverVars, web3Vars>>

\* A toast, and the form stays as it is.
ArticleLoadFails(e) ==
    /\ e \in loads
    /\ loads' = loads \ {e}
    /\ UNCHANGED <<kind, wallet, articlePage, fetches, form, loaded, early, click, serverVars, web3Vars>>

Type ==
    /\ articlePage = "form"
    /\ form' = [form EXCEPT !.text = "typed"]
    /\ UNCHANGED <<kind, wallet, articlePage, fetches, loads, loaded, early, click, serverVars, web3Vars>>

\* The switch is there for users with a wallet, or for articles without a token
\* as far as the form knows.
OnChangeNFTSwitch ==
    /\ articlePage = "form"
    /\ IF kind = "new" THEN IsConnectedToMetamask /\ wallet # NoAddress ELSE ~form.hasNFT
    /\ form' = [form EXCEPT !.mint = ~form.mint]
    /\ UNCHANGED <<kind, wallet, articlePage, fetches, loads, loaded, early, click, serverVars, web3Vars>>

-----------------------------------------------------------------------------
(* handlePost and handleUpdate.                                            *)

\* Behind the switch the button needs MetaMask.  The closure keeps the form.
Press(c) ==
    /\ articlePage = "form"
    /\ click[c].stage = "idle"
    /\ \A earlier \in 1..(c - 1) : click[earlier].stage # "idle"
    /\ form.mint => IsConnectedToMetamask
    /\ click' = [click EXCEPT ![c] =
            [Idle EXCEPT !.stage = "save", !.text = form.text, !.mint = form.mint,
                         !.account = IF form.mint THEN account ELSE NoAddress]]
    /\ early' = (early \/ ~loaded)
    /\ UNCHANGED <<kind, wallet, articlePage, fetches, loads, form, loaded, serverVars, web3Vars>>

GoesTo(c, stage) == click' = [click EXCEPT ![c].stage = stage]

\* The handler has come to its end.
Ends(c, stage, lost) ==
    click' = [click EXCEPT ![c] =
        [Idle EXCEPT !.stage = stage, !.mint = click[c].mint, !.lost = lost]]

\* The success toast, and the user's account page opens.
Succeeds(c) ==
    /\ Ends(c, "success", FALSE)
    /\ articlePage' = "closed"
    /\ fetches' = {}
    /\ loads' = {}
    /\ form' = Blank
    /\ loaded' = FALSE
    /\ UNCHANGED early

\* The failure toast; lost: the server has done what the form says has failed.
Fails(c, lost) == Ends(c, "failure", lost) /\ UNCHANGED pageVars

\* Mutants of AfterSave: the mint is started and not awaited;
AfterSaveUnawaited(c) == Succeeds(c)

\* MetaMask is asserted before the switch is looked at.
AfterSaveAsserted(c) ==
    IF ~IsConnectedToMetamask THEN Fails(c, FALSE)
    ELSE IF click[c].mint THEN GoesTo(c, "nonce") /\ UNCHANGED pageVars
    ELSE Succeeds(c)

AfterSave(c) ==
    IF ~click[c].mint THEN Succeeds(c)
    ELSE IF click[c].account = NoAddress THEN Fails(c, FALSE)
    ELSE GoesTo(c, "nonce") /\ UNCHANGED pageVars

\* postArticle and putArticle: saved and answered, or only saved, or neither.
Save(c) ==
    /\ click[c].stage = "save"
    /\ \/ /\ stored' = [stored EXCEPT ![Article(c)] = click[c].text]
          /\ AfterSave(c) \/ Fails(c, TRUE)
       \/ Fails(c, FALSE) /\ UNCHANGED stored
    /\ UNCHANGED <<kind, wallet, mintsSent, minted, nonce, web3Vars>>

\* fetchNonce: the nonce, or one it had before (the read is not consistent).  A
\* user without a nonce, or a failing call, ends the handler.
FetchNonce(c) ==
    /\ click[c].stage = "nonce"
    /\ \/ Fails(c, FALSE)
       \/ /\ \E n \in 1..nonce :
                click' = [click EXCEPT ![c].stage = "sign", ![c].nonce = n]
          /\ UNCHANGED pageVars
    /\ UNCHANGED <<kind, wallet, serverVars, web3Vars>>

\* The user signs in MetaMask, or declines to.
Sign(c) ==
    /\ click[c].stage = "sign"
    /\ GoesTo(c, "mint")
    /\ UNCHANGED <<kind, wallet, pageVars, serverVars, web3Vars>>

Decline(c) ==
    /\ click[c].stage = "sign"
    /\ Fails(c, FALSE)
    /\ UNCHANGED <<kind, wallet, serverVars, web3Vars>>

\* Mutant of MintRefused: the promise of the post is only ever resolved.
MintUnanswered(c) ==
    /\ click[c].stage = "mint"
    /\ UNCHANGED <<articleVars, web3Vars>>

MintRefused(c) ==
    /\ click[c].stage = "mint"
    /\ Fails(c, FALSE)
    /\ UNCHANGED <<kind, wallet, serverVars, web3Vars>>

\* The nfts service: a signature of the user's nonce by the user's wallet uses
\* the nonce up; for an article without a token a transaction is then sent.  The
\* service waits for no receipt, and may fail before or behind the transaction.
MintArticleNft(c) ==
    /\ click[c].stage = "mint"
    /\ wallet # NoAddress
    /\ click[c].account = wallet
    /\ click[c].nonce = nonce
    /\ nonce' = nonce + 1
    /\ \/ /\ Article(c) \notin minted
          /\ mintsSent' = mintsSent \cup {Article(c)}
          /\ Succeeds(c) \/ Fails(c, TRUE)
       \/ Fails(c, FALSE) /\ UNCHANGED mintsSent
    /\ UNCHANGED <<kind, wallet, stored, minted, web3Vars>>

\* The chain executes a transaction, at any time or never: it may be dropped,
\* replaced by another with its nonce, or revert.
MineMint(a) ==
    /\ a \in mintsSent \ minted
    /\ minted' = minted \cup {a}
    /\ UNCHANGED <<kind, wallet, pageVars, click, stored, mintsSent, nonce, web3Vars>>

\* Mutant of AccountsChanged: the loads under way go on without the form.
AccountsChangedInPlace ==
    /\ canConnect
    /\ articlePage # "closed"
    /\ articlePage' = "closed"
    /\ fetches' = {}
    /\ UNCHANGED <<kind, wallet, loads, form, loaded, early, click, serverVars, web3Vars>>

\* Another account is chosen in MetaMask: the tab is loaded again, nobody hears
\* of what was under way, and the page that opens then is another one.
AccountsChanged ==
    /\ canConnect
    /\ articlePage # "closed"
    /\ articlePage' = "closed"
    /\ fetches' = {}
    /\ loads' = {}
    /\ form' = Blank
    /\ loaded' = FALSE
    /\ click' = [c \in Clicks |->
            IF click[c].stage \in {"save", "nonce", "sign", "mint"}
            THEN [Idle EXCEPT !.stage = "gone"] ELSE click[c]]
    /\ UNCHANGED <<kind, wallet, early, serverVars, web3Vars>>

Answer(c) == Save(c) \/ FetchNonce(c) \/ MintArticleNft(c) \/ MintRefused(c)

ArticleNext ==
    \/ Detect
    \/ \E acct \in MetamaskAccounts : Connect(acct)
    \/ \E e \in Effects : FetchOwner(e) \/ LoadArticle(e)
    \/ LoadToken
    \/ \E e \in Effects \cup {"token"} : ArticleLoadFails(e)
    \/ Type \/ OnChangeNFTSwitch
    \/ \E c \in Clicks : Press(c) \/ Answer(c) \/ Sign(c) \/ Decline(c)
    \/ AccountsChanged
    \/ \E a \in mintsSent : MineMint(a)

\* axios settles what a press awaits of the server; MetaMask may wait forever.
ArticleSpec ==
    /\ ArticleInit
    /\ [][ArticleNext]_<<articleVars, web3Vars>>
    /\ WF_click(\E c \in Clicks : Answer(c))

-----------------------------------------------------------------------------
\* Only an open form loads and has text, only the edit form loads at all, and a
\* press that has read a nonce was made by a user who has one.
ArticleFormsTypeOK ==
    /\ Web3TypeOK
    /\ articlePage \in {"checking", "form", "refused", "closed"}
    /\ fetches \subseteq Effects
    /\ loads \subseteq Effects \cup {"token"}
    /\ form \in [text: Texts, mint: BOOLEAN, hasNFT: BOOLEAN]
    /\ {loaded, early} \subseteq BOOLEAN
    /\ stored \in [Clicks \cup {Edited} -> Texts \cup {"none"}]
    /\ mintsSent \subseteq {a \in DOMAIN stored : stored[a] # "none"}
    /\ minted \subseteq mintsSent
    /\ articlePage # "form" => loads = {} /\ form = Blank
    /\ articlePage = "closed" => fetches = {}
    /\ kind = "new" => loads = {} /\ fetches = {}
    /\ \A c \in Clicks :
        /\ click[c].stage \in Stages
        /\ click[c].text \in Texts
        /\ click[c].nonce \in 0..nonce

\* The success toast tells the truth: the article is on the server and, when the
\* switch was on at the press, its mint has been sent to the chain, whatever the
\* switch, the form and other presses did since.  Nobody awaits the receipt, so
\* the token comes after the toast, or never.
SuccessMeansDone ==
    \A c \in Clicks : click[c].stage = "success" =>
        /\ stored[Article(c)] # "none"
        /\ click[c].mint => Article(c) \in mintsSent

\* The failure toast tells the truth for a press without the switch, unless the
\* server's answer was lost: nothing was created, and pressing again creates
\* one article, not two.
FailuresLeaveNothing ==
    \A c \in Clicks :
        kind = "new" /\ click[c].stage = "failure" /\ ~click[c].mint /\ ~click[c].lost =>
            stored[c] = "none"

\* An article is overwritten by an empty text only when the button was pressed
\* before the form was ever filled: neither a load that fails nor a second one
\* empties it.
BlankOnlyBeforeLoad ==
    stored[Edited] = "blank" => early

\* Every press is answered by a toast, unless MetaMask waits for the user or the
\* tab was loaded again.
ClicksAreAnswered ==
    \A c \in Clicks : click[c].stage \in {"save", "nonce", "mint"} ~>
        click[c].stage \in {"success", "failure", "sign", "gone"}
=============================================================================
