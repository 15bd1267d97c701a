# Knowtfolio in TLA+

Knowtfolio is a site for publishing articles whose *editing right* can be moved
by transferring an NFT.  This directory holds TLA+ modules that model its server,
its contract, its Cognito and registration functions and the pages of its client, the TLC configurations that check them on
small instances, and theorems about them that TLAPS checks for every instance.

## 1. The system

| Part | State it keeps | Operations | Talks to |
|---|---|---|---|
| Articles service (`server/services/articles.go`) | `articles`, `documents` rows in MySQL | Create, Read, Update, Delete | contract (who holds the token), wallet table (which user that is) |
| NFT service (`server/services/nfts.go`) | `articles.is_tokenized`, `nfts/<id>.json` in S3 | CreateForArticle | wallet table, MySQL, admin transactor, S3 |
| Search service (`server/services/search.go`) | none | SearchForArticles | wallet table, contract, MySQL |
| Wallet table (`server/gateways/aws/dynamodb.go`) | user → address, address → user, user → nonce | register, look up, take-and-replace a nonce | DynamoDB |
| Contract (`blockchain/contracts/`) | token counter, article → token, token → holder and URI | mint, look up, ERC-721 transfer | |
| Admin transactor (`server/gateways/ethereum/client.go`) | the admin account's nonce and pooled transactions (in the node) | send a mint | the node |
| `post_wallet_address` function | none | register a wallet | wallet table |
| Challenge functions (`define_`, `create_`, `verify_auth_challenge`) | none; Cognito keeps the session | sign in with a wallet | Cognito, wallet table |
| Sign-up functions (`pre_sign_up`, `validate_sign_up_form`) | none; Cognito keeps users | validate and sign up | Cognito |
| `get_user` function | none | show a profile | Cognito, wallet table |
| Client session (`AuthProvider`, `SignInForm`, `MyAccountInfoTable`, `Header`) | user shown, loads under way; `localStorage`, shared by the tabs | sign in, sign out, load the current user, navigate | Cognito, wallet table, other tabs |
| Client wallet connection (`Web3Provider`) | provider, connected account | detect, connect, reload | MetaMask |
| Client article forms (`NewArticleForm`, `EditArticleForm`, `EditArticlePage`) | the form, presses under way | load, type, save, mint | articles and nfts services, wallet table, MetaMask |
| Client account forms (`SignUpForm`, `ResetPasswordForm`, `UpdatePasswordForm`, `RetryConfirmationForm`, `forms/helper.tsx`) | the form, the verdict on it, the code sent | validate, sign up, send a code, set a password, verify | Cognito, sign-up functions |
| Client wallet registration (`RegisterWalletForm`) | the wallet in the context, presses under way | sign, register | MetaMask, `post_wallet_address`, wallet table |
| Client profile form (`UpdateProfileForm`) | the form, the image chosen | upload, update | S3, Cognito |
| Client article tables (`SearchForm`, `SearchResultTable`, `OwnedArticlesTable`, `MyOwnedArticlesTable`) | URL, articles listed, pager | search, turn the page | search service |

Articles, users and wallets are joined by ids only: there is no transaction over
two stores.  Every handler is a goroutine that makes one remote call after
another, so what is hard is what happens between two calls:
a mint is a nonce swap in DynamoDB, a snapshot in MySQL, three calls to the
node, an upload to S3 and a commit; an update is a snapshot, two lookups and a
save of the whole row.

What makes each part correct:

* wallet table: users and accounts are bound one-to-one and for good; a nonce is
  handed to one user and accepted once;
* contract and transactor: one token per article, whatever number of mint
  transactions for it reaches the chain; a mint pays the author;
* articles and NFT services: who may edit an article is decided by its token once
  it has one; a stale copy of a row never brings it back or gives it another author; a
  partial update changes only what it names;
* search and read: an article that stays a user's is found by the user's search, one
  that never was is not; the id and the address in an answer belong together;
* sign-in with a wallet: tokens only for a signature by the registered wallet over
  this session's nonce, one signature for one session, a wrong answer is final;
* sign-up: whatever verdict a form shows, no account gets round the rules, and the
  button of a form means what the form says;
* client: what a page shows agrees with what was done and with what was asked for
  last, success is only told of what succeeded, and what a page awaits clears.

React gives the client's hazards their shape: effects start calls that nothing cancels, their
answers are applied in the order of arrival, a handler goes on with the state its
closure saw, buttons stay enabled while a press is under way, and a page that is left
goes away with its state while its calls go on.

## 2. Modules

| Module | Models | Built on |
|---|---|---|
| `Principals` | users, accounts, articles, and the two spellings of an address | |
| `WalletRegistry` | the DynamoDB table: one variable per `KeyValueType`, one action per request to DynamoDB | `Principals`; refines `WalletBinding` |
| `WalletBinding` | the abstract promise of that table: a growing one-to-one relation of users and address texts | |
| `PostWalletAddress` | the registration function, with nonce replacements beside it | `WalletRegistry` |
| `KnowtfolioContract` | `mintNFT`, the lookups, ERC-721 transfers | `Principals` |
| `AdminTransactor` | the node's pool for the one admin account: nonces, replacement, dropping, mining | `KnowtfolioContract` |
| `ArticleService` | Create, Update, Delete, CreateForArticle over MySQL, S3, the table and the chain | `WalletRegistry`, `AdminTransactor` |
| `ArticleQueries` | SearchForArticles and Read beside all of that | `ArticleService` |
| `WalletSignIn` | the three challenge functions, driven by Cognito and the client | `WalletRegistry` |
| `Browser` | the users at one browser, and the bound on calls under way | `Principals` |
| `Web3Connection` | `Web3Provider`: what a page knows of MetaMask | `Principals` |
| `ClientSession` | `AuthProvider` with its overlapping loads, sign-in, sign-out, navigation, other tabs | `Browser` |
| `ArticleForms` | `NewArticleForm`, `EditArticleForm` and its page | `Web3Connection` |
| `AccountForms` | the four account forms, `validate_sign_up_form` and `pre_sign_up` | `Browser` |
| `RegisterWalletPage` | `RegisterWalletForm`, over the real registration function and table | `PostWalletAddress`, `Web3Connection`, `Browser` |
| `ProfileForm` | `UpdateProfileForm` | `Browser` |
| `SearchPage` | the search form and the tables of articles | `Browser` |
| `KnowtfolioClient` | `App`: one of these pages mounted at a time, or the registration function called by anybody | all client modules |
| `WalletRegistryProofs` | lemmas about the table, its inductive invariant, and why a step refines `WalletBinding` | `WalletRegistry` |
| `PostWalletAddressProofs` | theorems about `PostWalletAddress` | `WalletRegistryProofs` |
| `ArticleServiceProofs` | theorems about `ArticleService` | `WalletRegistryProofs` |
| `ArticleQueriesProofs` | theorems about `ArticleQueries` | `ArticleServiceProofs` |
| `WalletSignInProofs` | theorems about `WalletSignIn` | `WalletRegistryProofs` |
| `ClientSessionProofs` | theorems about `ClientSession` | `ClientSession` |
| `ClientFormsProofs` | the inductive invariants of the article, account and profile forms and of the article tables | the modules of these pages |
| `KnowtfolioClientProofs` | the invariant of `RegisterWalletPage`, and the theorems about the whole client | the client's proofs, `PostWalletAddressProofs` |
| `MCArticleService`, `MCArticleQueries`, `MCKnowtfolioClient` | finite sets and symmetry for TLC | |

### How the code becomes actions

*A handler is cut where it waits.*  Each remote call, with the local code up to the
next one, is one action of `ArticleService`; `pc[r]` is the call that request `r` has
finished last.  `row[r]`, `document[r]`, `holder[r]` and `slot[r]` are the handler's local variables.

```
Update, Delete:   BeginUpdate/BeginDelete -> loaded --(not tokenized) AuthorizeAuthor--------> authorized
                                             loaded --ReadHolder--> holderRead --AuthorizeHolder--> authorized
                  authorized --SaveEdited / DeleteRow--> done
CreateForArticle: BeginMint -> identified -VerifyMint-> verified -FindArticle-> found -CheckAuthor-> checked
                  -EstimateGas-> estimated -TakeNonce-> numbered -SendMint-> sent
                  -UploadMetadata-> uploaded -SaveTokenized-> done
```

Every arrow may end in `failed` by the code's own early returns; `CallFails` adds the
failures of the environment.  A call that writes (the nonce swap, the sending, the upload, each COMMIT) may also
be carried out and its reply be lost (`Replied`): the store has changed, and the handler fails.

*A database transaction is a snapshot and a commit.*  MySQL runs at its default
REPEATABLE READ, so the first SELECT fixes what the transaction sees; nothing locks a row.
gorm's `Save` writes every column, so `WriteRow` writes the whole row the handler
holds.  When the row has been deleted meanwhile the UPDATE touches none, gorm looks
the row up in its own snapshot, finds it, and inserts nothing; hence `WriteRow` does
nothing then.

*A mint is three calls to the node.*  The generated binding estimates gas (a
simulated call on the pending state), asks for the pending nonce and sends.  Nobody waits for
the receipt: `SaveTokenized` follows the sending and the upload only.  The admin
account is shared by all requests, so two of them may get the same nonce.

*An address is a value or a text.*  `PutUserWallet` stores the text a request
carried, every lookup uses the checksummed spelling (`String`); `AddressText` keeps both.
Signatures are triples of signer, message and nonce; a nonce is the number of the
call of `GenerateNonce` that made it, which keeps what matters: all are different.

*Cognito's session* is the record `WalletSignIn` keeps per session; what is
external (which function Cognito calls next, repeating a call, sending another signature) is
marked so in the map.

*A page is an effect, a form and its presses.*  In every client module, a call that an effect or a
handler makes is cut in two: the step that starts it, with what its closure reads, and the step in which its
answer is applied.  Answers come in any order, or not at all.

* `ClientSession`: `LoadCurrentUser` is `loadCurrentUser` up to its first `await` (who is
  current is read then), `LoadSucceeds` and `LoadFails` its end.  Loads in flight are told apart only
  as the newest and the others.  `Navigate` keeps the provider between account pages
  and mounts a new one otherwise.
* `ArticleForms`: `click[c]` is how far press `c` of the button has come, with the form its closure
  kept: `save -> nonce -> sign -> mint -> success`, each arrow also to `failure`,
  and to `gone` when MetaMask's account change reloads the tab.  `lost` records that the server
  did what the form then called a failure.  `MintArticleNft` sends the mint, as the service does; the token comes with
  `MineMint`, at any time or never.
* `AccountForms`: `newest` and `older` are the verdicts under way, the first one asked for when the form mounts.  `FieldErrors` is
  `validate_sign_up_form`, `Errors` what `validateSignUpForm` adds, `ValidateForm` what `helper.tsx`
  makes of it.  `signUp[u]` passes from "no" over "judged" (`pre_sign_up` has answered) to
  "created" (Cognito has stored the user), so that two sign-ups can be judged before either is stored.
* `RegisterWalletPage`: `press[p]` goes `sign -> post -> accepted/refused -> success/failure`;
  `PostWallet` is `PostWalletAddress!Post` itself, and `RegisterElsewhere` is the table's own transaction.
* `ProfileForm`: `update[p]` is a press of the button: upload, then the attributes, with the
  form the closure kept.  `EncodeURI` is the URL that a file's name becomes.
* `SearchPage`: `params` is the URL, `asked` and `askedBefore` the requests under way, `pager` the
  page react-paginate takes itself to be at.

*`KnowtfolioClient` is a disjoint union.*  `App` mounts the page of the route, and a page keeps nothing when
another opens, so a behaviour is that of one page; `route` says which.  The variables of the
others stay at one initial state.  `Web3Provider` alone outlives a page: one that is opened with an account
already connected starts in a state that the model also reaches by connecting before anything else happens.

## 3. What is checked

Sizes are the distinct states TLC finds.  `Symmetry` is used for invariants and action
properties only, never for the liveness runs.

| Run | Instance | Shows |
|---|---|---|
| `two_articles` | 2 requests of any kind, 2 articles, 2 users, 2 wallets, 2 pool slots, every fault; 155k | `TypeOK`, `MintsPayTheAuthor`, `TokensMatchArticles`, `EditorsAreEntitled`, `NonceSpentOnce`, `FlagMeansCompletedMint`, `RowsKeepIdentity` |
| `promise` | 3 requests (update, delete, mint) with failing calls and lost replies, under `CarefulSpec`; 947k | `HoldersMayEdit`: the promise in a token's metadata holds if no mint is broken off behind its transaction and no update saves over a row that changed since it was loaded |
| `queries` | one query beside one request, 2 articles, pages of 1 and 2; 185k | `KeptArticlesListed`, `ListedArticlesWereOwned`, `OwnerInfoAgrees` |
| `sign_in` | 2 sessions, 2 users, 2 wallets, replayed signatures; 707k | `TokensNeedTheWallet`, `SignaturesOpenOneSession`, `WrongAnswersAreFinal`, `SignInsSettle` |
| `client` | every page of the client on its own route, and the registration function for 3 users and 3 accounts; one press on the article forms; 207k | below |
| `articles` | two presses on an article form of either kind, one user with two wallets; 435k | below |

The properties of `client`, and of `articles` for the article forms:

| Route | Properties |
|---|---|
| session | `QuietProvidersAgree`: once the load that began last has ended last and well, and no storage event waits, the provider shows who is signed in. `LandingIsOwn`: a sign-in leads to one's own account page. `LoadingClears`. |
| articles | `SuccessMeansDone`, `FailuresLeaveNothing`: the toasts tell the truth, apart from lost answers, from a mint that fails behind a saved article, and from a mint whose transaction is dropped, replaced or reverted: success means that it was *sent*, as nobody awaits the receipt. `BlankOnlyBeforeLoad`: an article is overwritten with a blank form only by a press made before it was loaded. `ClicksAreAnswered`: every press ends in a toast, unless the user leaves MetaMask unanswered. |
| account | `ButtonTellsTheForm`, `PasswordsWereConfirmed`, `AccountsPassedTheRules`, `CodeIsForThisUser`. |
| wallet | `RegisteredAsShown`: a success toast means that the account shown is bound to this user, and only one press is told so. |
| profile | `PictureExists`: the picture a profile names is in S3, if its URL is that of the file's name (`encodeURI` leaves `#` and `?` as they are). `StoredProfilesAreValid`. |
| search | `ListIsOfTheUrl`: when the answer that came last is the one asked for last, the list is that of the URL. `PageIsThere`: no search leads past its last page. |
| function (and wallet) | `LookupsAgree`, `NoncesFollowWallets`, `ImplementsWalletBinding` for the checksummed spelling. |

What the code does not keep, each against a sentence of the repository (TLC prints the
trace):

| Run | Trace |
|---|---|
| `partial_mint` | The mint transaction is sent, then the upload or the save fails.  The row is rolled back, the token stays: its holder may not edit, and the mint cannot be repeated because the contract reverts. |
| `stale_save` | An update loads the row, a mint of the same article completes, the update saves `is_tokenized = 0` over it. |
| `lost_update` | Two partial updates load one document; the second save reverts the field only the first one changed. |
| `registration_any_case` | `eth_addr` accepts any letter case and the item's key is the text: two spellings of an account are registered by two users. |
| `reset_password` | `ResetPasswordForm` asks for the verdict on a *new* user's form, so the name of every existing user is "already taken": the form of a user who could reset a password can never be submitted. |
| `walletless_author` | A search without `owned_by` fails as a whole when one author in the page has no wallet. |

`HoldersMayEdit` is thus checked three times.  `CarefulSpec` is `Spec` without two kinds of steps: a mint that
fails between the node that takes its transaction and the table (`SentMintsAreSaved`), and an update that saves
over a row that is no longer the one it loaded (`SavesAreFresh`).  Everything else may happen, updates, failures
and lost replies included.  `partial_mint` and `stale_save` let one of the two in each, and refute the property: these
two are exactly what breaks it.

Some properties leave out the case that a hazard is named for, because there the code does not keep anything that
could be stated, and say so by a history variable: `early` (a press before the article was loaded), `fresh` (a
verdict for an earlier form), `inTurn` (answers out of order), `strayed` (a user name changed while its code is
sent), `astray` (a pager of another search), `overlapped` (two sign-ups judged at once).  They state that nothing *else*
leads there.

**Bounds.**  Two requests are the smallest number in which a request meets another
one's half-done work, and two articles the smallest in which one's token could be
taken for the other's; `promise` goes to three, so that a mint races another mint and an update or a delete.
`MaxSlot` (pool slots) equals the number of requests, the most that can be sent; beyond it
`TakeNonce` waits, which never happens within the bound.  Nonces are bounded by what is
signed: one is issued per registration and per mint.  One title and one content are
enough except for `lost_update`, whose property compares them.  `PageSizes` 1 and 2 with two
articles give a full, a partial and a cut-off page; `PageNums` above 1 only move the window.
`MaxNonces` and `MaxIssued` bound repetitions that the code would go on with for ever;
`MaxPending` is 2: one call overtakes another, and a third adds no new order of the last two;
`MaxClicks` is 2 in `articles` for the same reason; in `client`, where the article forms are one route of seven, it is 1.  `MetamaskAccounts` has one account and `Wallets`
two, so that the account connected is the user's or another's.  `Pages` gives three pages of
articles to a search without words, two to some words and none to others, which lets a page be there for
one search and not for the next.  `Files` are two names, one of them plain and one that `encodeURI` does not keep whole.  The browser has two of the three users.
`MaxMints` is 1, since one signature made for another purpose is enough to be sent in place of the right one.

**Deadlock.**  A request is handled once, so a state in which all of them are
answered, wallets registered and articles created has no step left, and the cfg files
of these runs say `CHECK_DEADLOCK FALSE`.  That no handler of the services is *stuck* needs no run: it
holds no lock and waits for no other request, and each call it makes returns or fails.  Of a sign-in, whose steps are
several parties', `SignInsSettle` says it.  A page of the client stops when it is left,
which is why `client`, `articles` and `reset_password` say it too; that none is stuck waiting is `LoadingClears` and
`ClicksAreAnswered`.  `registration_any_case` never stops: the function
answers any number of requests.

**Fairness.**  `FairSignInSpec` asks for weak fairness of Cognito's calls of the functions, each of
which returns or fails, and nothing of the user who is asked to
sign: a declined signature leaves the client's promise pending for ever
(`customChallenge` rejects without calling `resolve` or `reject`), which `SignInsSettle` names as one
of its outcomes.

`ClientSpec` is fair to `AwaitedComes`: the ends of loads, and the answers of the server to a
press; `ArticleSpec` to the latter alone.  The SDKs and axios settle every promise they return, well or with an
error.  Nothing is assumed of people, MetaMask and other tabs.  The condition is
weak and names the variables the steps change, `provider` and `click`.

Each property of a passing run is paired with a mutated definition (kept next to the
original, named for what is wrong in it: `GetNonceOnly`, `CheckNothing`, `UpsertRow`, ...)
under which TLC refutes it.

## 4. What is proved

Every invariant and every action property that a passing run checks is also a theorem, for any sets of users,
accounts, articles, files, sessions and requests, any number of pool slots, nonces, presses and calls under
way, and any choice of faults.  The theorems rest on the named assumptions of the modules and on nothing else:
the "nothing there" constants differ from real values (`UserAssumption`, `AccountAssumption`,
`AddressAssumption`, ...), an address is spelled in checksum or lower case (`FormAssumption`), the
browser has a user (`MemberAssumption`), ids are finitely many (`IdAssumption`, for the order of a search), no
query has more pages than the one without words (`PagesAssumption`).  Two more are hypotheses of single theorems:

* `OnlyChecksums`: requests spell accounts in one way.  Only `LookupsAgree` and `HoldersMayEdit` need it, which speak of
  the accounts behind the texts; both are false without it, as `registration_any_case` shows.
* `SentMintsAreSaved` and `SavesAreFresh`, the two conditions of `CarefulSpec`, for `HoldersMayEdit`.
  `partial_mint` and `stale_save` refute it when one of them is dropped.

The properties of the run `articles` are proved of `ClientSpec`, whose route of articles takes the steps of
`ArticleNext`, for any number of presses.

Each argument is that of an inductive invariant; what it adds to the property is what the property by
itself lacks.

**The table** (`WalletRegistryProofs`, `PostWalletAddressProofs`).

* `RegistryInv` is kept by every request to the table: each `wallet_address_to_user_id` item has its counterpart
  (`ItemsPaired`), every nonce has been issued (`NoncesWereIssued`), and nonces follow wallets.
  `NoncesFollowWallets` alone is not inductive: that a replaced nonce belongs to somebody with a wallet needs
  the first, that a new nonce is nobody's needs the second.  The other proofs use this invariant too.
* `RegistrationTypeCorrect`, `NoncesFollowWalletsAlways`, and under `OnlyChecksums` `LookupsAgreeAlways`.
* `WalletBindingImplemented`, for addresses in any spelling: a registration maps to `Bind` of a user and a text, every
  other step to a stutter (`PutBinds`, `WalletsBind`).  `ItemsPaired` is what it rests on.  The same refinement is proved
  of every other specification that writes to the table: `ServicesImplementWalletBinding`,
  `SignInsImplementWalletBinding`, `ClientImplementsWalletBinding`.  What the code relies on between two of its calls is
  this: what a user has registered, once found, is that user's for good.  That one *account* is one user's is more,
  and is not so when callers spell it in two ways.

**Articles, tokens, mints** (`ArticleServiceProofs`).

* `TypeCorrect`: `TypeOK` is inductive by itself because `StageOK` ties what a handler holds
  to how far it has come.
* `AuthorshipKept`, for `MintsPayTheAuthorAlways` and `RowsKeepIdentityAlways`.  A transaction is sent from local
  copies, several steps after they were compared.  `AuthorInv` adds that every row, also every copy
  a handler holds of it, names the creator of its article, that a handler that has not begun holds no row, and that past
  the author check the request's address is the wallet of the row's author, which stays true because
  a registered wallet is never replaced (`WalletStays`).
* `NoncesKept`, for `NonceSpentOnceAlways`.  `NonceInv` says of a nonce that a handler has taken: it was issued, no
  user has it now, and no other handler took it.  That the swap returns the nonce of the user
  whose address is in the request needs `CallersHaveTheirWallets`; telling spent from unspent needs
  `NoRowBeforeTheSnapshot`.
* `EditorsAreEntitledAlways`: the decision is made in one step and used in a later one; between
  them the row may be flagged and the token transferred.  `EditorInv` remembers on what it was made.
* `TokensMatchArticlesAlways` and `TokensNameCreatedAlways` (a token names an article that
  somebody created).  The first is inductive with the types, since `mintNFT` reverts for an
  article that has a token and numbers the others upwards.
* `FlagMeansCompletedMintAlways`: `FlagInv` adds that a handler that saves the flag has uploaded the metadata.
* `HoldersMayEditAlways`, of `CarefulSpec` and under `OnlyChecksums`.  `PromiseInv`: an article for which a mint was
  sent has its flag, or was deleted, or some handler is between the sending and the save.  `SavesAreFresh` keeps a flag
  that is up, `SentMintsAreSaved` keeps that handler going.

**Search and read** (`ArticleQueriesProofs`), beside all of the above.

* `QueriesTypeCorrect`, `OwnerInfoAgreesAlways` from `QueryInv`, which ties what a query holds to the call it makes next.
* `ListedArticlesWereOwnedAlways`, `KeptArticlesListedAlways` from `HistoryInv`, which relates the token list,
  the rows loaded and the entries to what the user has had throughout and at any time of the search.  It needs the
  invariants of the services, and `OrderInv`: two articles are never created at one moment, so that a page is a
  window of one sequence.

**Sign-in with a wallet** (`WalletSignInProofs`).  `SignInInv`: a session with a right attempt was answered with the
one signature that its user's wallet makes of its nonce (`RightAnswer`), and the nonces of two sessions differ
(`ChallengesDiffer`).  `SignInTypeCorrect`, `TokensNeedTheWalletAlways`, `SignaturesOpenOneSessionAlways` and
`WrongAnswersAreFinalAlways` follow; the last is an action property.

**The client** (`ClientSessionProofs`, `ClientFormsProofs`, `KnowtfolioClientProofs`).  `ClientKept`: under
`ClientSpec` every page has its own invariant, whichever is mounted.  `ClientInv` is their conjunction and one thing
more: on any route but that of wallets nothing is pressed on the page that registers them, so that the account and
the table may change under it.

* `SessionInv`: unless a storage event waits, the newest load is about who is signed in, and a page a sign-in has led
  to is that of the user signed in.  The end of a load shows the user that load began with, so `QuietProvidersAgree`
  alone is not inductive.  The proof shows why `navigate` must pass `shouldLoadCurrentUser` after a
  sign-in and a sign-out: no storage event reaches the tab that made the change.
* `ArticleFormsInv`: what the closure of a press kept, and how far it has come, says what the server has saved and sent
  for it, whatever the chain makes of that.
* `AccountInv`: a verdict that says yes, once newest, is of a complete form; a call that sets a password carries what was
  typed twice, and one for a user whom `pre_sign_up` has judged a strong password (`CallFollows`); the user name of a call that
  sends a code is the form's (`CodesFollow`); two users are in the pool only when judged at the same time
  (`PoolFollows`).
* `WalletFormInv`: a press that the function has accepted has put the account that is still on the page, for this
  user, and no other press is accepted (`AcceptedOnce`).  `RegisteredAsShown` speaks of the toast, one
  answer later; that neither another browser nor a reload comes between is `OthersPutKeeps` and
  `AroundTheFormKeeps`, and that a second press is refused is the condition of `PutUserWallet`.
* `ProfileInv`: an update that has come to its attributes with a picture has uploaded it under the name in its URL.
* `SearchInv`: the request made last is always for what the URL names now.
* From these: `ClientTypeCorrect` and one theorem for each property of the table in section 3.
  `ClientImplementsWalletBinding`: the page, the browsers elsewhere and the callers of the function
  implement `WalletBinding` together, in whatever spelling anybody posts an address.  The run `client` checks the same refinement
  with checksummed addresses.

**Only model-checked.**

* Liveness under fairness is out of the prover's reach: `SignInsSettle`, `LoadingClears`,
  `ClicksAreAnswered`.
* The properties of the runs that expect a violation are false, and nothing is to be proved of them.
* `SearchPage`'s `Pages` is a constant: that the number of pages is what the server counts is not proved
  between `ArticleQueries` and the client.

Two definitions are written as they are for the proofs.  `SearchPage!LastPage` is 1 for a site without any article,
where `Pages[AnyWords]` is 0 and the tables still count one page.  `ArticleQueries` keeps the
column `createdAt`, over which the order of a search (`InOrder`) is unique, so that the rows a page is cut from are
determined by what is selected.

## 5. What is left out

* *In the modelled parts.*  The `signature` field of a registration is required and
  never compared, so it is not a parameter.  Time stamps are an order
  without ties, `updated_at` ordering is not modelled; keywords match whole fields.
  `GetNonceByID` only reads, and `GenerateAndPutNonce` and `DeleteUserWalletByID` are called by tests
  only.  A recipient contract's `onERC721Received` is not run.  Ids never
  collide.  An upgrade of the contract and a transfer of its
  ownership are deployment steps.
* *What the models show without a property.*  A read of an article whose token went to
  an account nobody registered fails until somebody does (`NameHolder`); a page and its total may
  disagree (`CountMatches` is a second SELECT); a search by owner may miss an article
  whose mint completes between its call to the chain and its SELECT, so
  `KeptArticlesListed` speaks of what stayed the user's in one way; a dropped, replaced or reverted transaction
  leaves an article tokenized without a token, which nobody can read or edit; a delete leaves the document, the
  token and its metadata.
* *In the client's pages.*  Title and content, website and biography are one text each.  `ClientSession`
  has the provider of the page; the header of an account page mounts a second one, with the same
  steps over the same storage.  Of an account form, one call to Cognito is under way at a
  time, although the buttons stay enabled while one is.  `ArticleForms` has the server as the forms see it (saved or
  not, answered or not, the nonce, the mint sent and, later or never, the token), since `ArticleService` has two of
  its own requests to check already.  While a table is open the articles listed do not change.
* *What the client's models show without a property.*  The second load of `EditArticleForm`, made when
  MetaMask connects, overwrites what was typed.  The pager is uncontrolled: a deep link to page 3, or new words,
  leave it at a page that is not the URL's.  Images are keyed by file name for all users, so a picture may be
  replaced by somebody else's of one name.  A user who declines to sign a registration is told
  nothing.  A sign-out that finds no session signs nobody out and leads to the sign-in page alike.  A press
  before the article has been loaded saves a blank one.  A mint that fails behind a posted article is told as a failure,
  and the next press posts a second article.  A load of the user that fails leaves the previous user shown.  A picture
  whose name has a `#` or a `?` gets a URL that is not its own.
* *Parts not modelled.*  Pages that only show (article page, account and NFT information, cards): one
  fetch and its answer, the effect of `SearchPage` for a key that does not change.  `get_user`, which
  reads and keeps nothing; a user without a wallet makes it panic, which its caller shows like any failure.
  Rendered pages, logging, the health check, the question API
  (a design without a service), the image upload page and the third-party editor, Terraform and deploy
  scripts keep no state of the running system.

## 6. Plan

1. Done: the wallet table, contract, transactor, articles and nfts services, queries, sign-in, sign-up, and the
   client's pages; every invariant and action property of the runs proved, and `WalletBinding` shown to be implemented by
   every specification that writes to the table.
2. An abstract specification of the tokens (an article gets one token, whose holder changes by transfers only),
   implemented by the contract behind the transactor.
3. `KnowtfolioEnumerable`: the per-owner token lists of the ERC-721 extension, shown to implement
   `getArticleIdsOwnedBy`.
