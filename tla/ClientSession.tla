--------------------------- MODULE ClientSession ----------------------------
(***************************************************************************)
(* Who is signed in, as one browser tab shows it: the AuthProvider of an   *)
(* account page, or of the sign-in page's header, signing in and out in    *)
(* this tab, and another tab that does the same to the localStorage they   *)
(* share.                                                                  *)
(*                                                                         *)
(* loadCurrentUser is cut in two: what it reads before it first waits, and *)
(* what it sets at the end.  The session is read in between, and may have  *)
(* been read while the tokens were still there, so a load can end well at  *)
(* any time after.  Calls of it overlap, and none is cancelled.            *)
(***************************************************************************)
EXTENDS Browser

VARIABLES
    lastUser,     \* the LastAuthUser item: userPool.getCurrentUser()
    provider,     \* the AuthProvider of the page
    location,     \* the page: "signin", or the user of /users/:userId
    landed,       \* a sign-in of this tab opened the page, the last change there was
    username,     \* the user name in the sign-in form
    signIns,      \* the sign-ins under way, by their users
    signOuts      \* the sign-outs under way, by their users

sessionVars == <<lastUser, provider, location, landed, username, signIns, signOuts>>

\* auth: the user shown, NoUser for null; hasLoaded: hasLoadedSession; newest:
\* the user of the load that began last, NoUser once it has ended; older: those
\* of the others under way; inOrder: the load that began last ended last, and
\* well; event: a storage event waits.
ProviderState ==
    [auth: Members \cup {NoUser}, hasLoaded: BOOLEAN, newest: Members \cup {NoUser},
     older: SUBSET Members, inOrder: BOOLEAN, event: BOOLEAN]

\* loadCurrentUser up to its first await.  Without a current user there is no
\* auth, and the load ends at once.
LoadCurrentUser(state, current) ==
    LET superseded == state.older \cup ({state.newest} \ {NoUser})
    IN  IF current = NoUser
        THEN [state EXCEPT !.older = superseded, !.newest = NoUser, !.auth = NoUser,
                           !.hasLoaded = TRUE, !.inOrder = TRUE]
        ELSE [state EXCEPT !.older = superseded, !.newest = current, !.inOrder = FALSE]

\* A provider just mounted has loaded once.
Mounted(current) ==
    LoadCurrentUser([auth |-> NoUser, hasLoaded |-> FALSE, newest |-> NoUser,
                     older |-> {}, inOrder |-> FALSE, event |-> FALSE], current)

\* What an account page shows: the table of one's own account, or another's.
Content ==
    IF ~provider.hasLoaded THEN "loading"
    ELSE IF provider.auth = NoUser THEN "unauthenticated"
    ELSE IF provider.auth = location THEN "mine" ELSE "other"

SessionInit ==
    /\ lastUser \in Members \cup {NoUser}
    /\ provider = Mounted(lastUser)
    /\ location = "signin"
    /\ landed = FALSE
    /\ username = NoUser
    /\ signIns = {}
    /\ signOuts = {}

-----------------------------------------------------------------------------
(* The end of a load.                                                      *)

\* If it is an older one, others of the same user may go on.
Ending(l, ok) ==
    {[provider EXCEPT !.newest = NoUser, !.inOrder = ok] : n \in {l} \cap {provider.newest}}
    \cup {[provider EXCEPT !.older = rest, !.inOrder = FALSE] :
            rest \in IF l \in provider.older
                     THEN {provider.older, provider.older \ {l}} ELSE {}}

\* loadSession, loadAttributes and fetchWalletAddress have returned: setAuth,
\* and the content is no longer loading.
LoadSucceeds(l) ==
    \E after \in Ending(l, TRUE) : provider' = [after EXCEPT !.auth = l, !.hasLoaded = TRUE]

\* Mutant of LoadFails: setHasLoadedSession is called inside the try only.
LoadFailsSilently(l) == provider' \in Ending(l, FALSE)

\* One of the calls fails: an alert, and auth stays as it was.
LoadFails(l) ==
    \E after \in Ending(l, FALSE) : provider' = [after EXCEPT !.hasLoaded = TRUE]

LoadStep ==
    /\ \E l \in Members : LoadSucceeds(l) \/ LoadFails(l)
    /\ UNCHANGED <<lastUser, location, landed, username, signIns, signOuts>>

-----------------------------------------------------------------------------
(* The storage, and what other tabs do to it.                              *)

\* Another tab signs a user in, or out (NoUser).  Storage events go to the tabs
\* that did not make the change.
ChangeElsewhere(user) ==
    /\ user # lastUser
    /\ lastUser' = user
    /\ provider' = [provider EXCEPT !.event = TRUE]
    /\ landed' = FALSE
    /\ UNCHANGED <<location, username, signIns, signOuts>>

\* Mutant of OnStorage: the event is heard, and nothing is loaded.
OnStorageIgnored ==
    /\ provider.event
    /\ provider' = [provider EXCEPT !.event = FALSE]
    /\ UNCHANGED <<lastUser, location, landed, username, signIns, signOuts>>

\* The listener.  A change of several items is several events: another may
\* follow this one.
OnStorage ==
    /\ provider.event
    /\ \E more \in BOOLEAN :
            provider' = [LoadCurrentUser(provider, lastUser) EXCEPT !.event = more]
    /\ UNCHANGED <<lastUser, location, landed, username, signIns, signOuts>>

-----------------------------------------------------------------------------
(* The sign-in form, the sign-out button and the links.                    *)

\* navigate(loc, {state: {shouldLoadCurrentUser: load}}).  From one account page
\* to another the provider stays, and loads when the new state asks for it; the
\* provider of another page is mounted, and loads again when asked to.
Navigate(loc, load, current) ==
    /\ location' = loc
    /\ LET stays == (location = "signin") = (loc = "signin")
           first == IF stays THEN provider ELSE Mounted(current)
       IN  /\ provider' = IF load THEN LoadCurrentUser(first, current) ELSE first
           /\ username' = IF stays THEN username ELSE NoUser

TypeUsername(u) ==
    /\ location = "signin"
    /\ username' = u
    /\ UNCHANGED <<lastUser, provider, location, landed, signIns, signOuts>>

CanBegin == Cardinality(signIns) + Cardinality(signOuts) < MaxPending

\* signInWithPassword or signInWithWallet is pressed, perhaps while another
\* sign-in goes on; the closure keeps the name.
SignIn ==
    /\ location = "signin"
    /\ username # NoUser
    /\ CanBegin
    /\ signIns' = signIns \cup {username}
    /\ UNCHANGED <<lastUser, provider, location, landed, username, signOuts>>

\* Mutant of SignedIn: the page opened is that of the name in the form now.
SignedInAsTyped(u) ==
    /\ lastUser' = u
    /\ Navigate(IF username = NoUser THEN u ELSE username, TRUE, u)
    /\ landed' = TRUE
    /\ signIns' = signIns \ {u}
    /\ UNCHANGED signOuts

\* Cognito's answer has been stored, and the user's page opens, wherever the
\* tab has gone meanwhile.
SignedIn(u) ==
    /\ lastUser' = u
    /\ Navigate(u, TRUE, u)
    /\ landed' = TRUE
    /\ signIns' = signIns \ {u}
    /\ UNCHANGED signOuts

SignInFails(u) ==
    /\ signIns' = signIns \ {u}
    /\ UNCHANGED <<lastUser, provider, location, landed, username, signOuts>>

\* The button of one's own account page.
SignOut ==
    /\ location # "signin"
    /\ Content = "mine"
    /\ CanBegin
    /\ signOuts' = signOuts \cup {provider.auth}
    /\ UNCHANGED <<lastUser, provider, location, landed, username, signIns>>

\* LastAuthUser is removed, whoever it names; but without a session of the user
\* nothing is, and the promise resolves alike.
SignedOut(u) ==
    /\ lastUser' \in {lastUser, NoUser}
    /\ Navigate("signin", TRUE, lastUser')
    /\ landed' = FALSE
    /\ signOuts' = signOuts \ {u}
    /\ UNCHANGED signIns

\* A link or a button: the header's to the user's own page, others.
Open(loc) ==
    /\ loc # location
    /\ Navigate(loc, FALSE, lastUser)
    /\ landed' = FALSE
    /\ UNCHANGED <<lastUser, signIns, signOuts>>

SessionNext ==
    \/ LoadStep
    \/ OnStorage
    \/ \E u \in Members \cup {NoUser} : ChangeElsewhere(u)
    \/ \E u \in Members : TypeUsername(u)
    \/ SignIn
    \/ \E u \in signIns : SignedIn(u) \/ SignInFails(u)
    \/ SignOut
    \/ \E u \in signOuts : SignedOut(u)
    \/ \E loc \in Members \cup {"signin"} : Open(loc)

SessionSpec == SessionInit /\ [][SessionNext]_sessionVars

-----------------------------------------------------------------------------
\* A provider that is not loading shows its user or nobody, one that is has a
\* load under way, and a name is typed on the sign-in page only.
SessionTypeOK ==
    /\ lastUser \in Members \cup {NoUser}
    /\ provider \in ProviderState
    /\ location \in Members \cup {"signin"}
    /\ landed \in BOOLEAN
    /\ username \in Members \cup {NoUser}
    /\ signIns \cup signOuts \subseteq Members
    /\ provider.auth # NoUser => provider.hasLoaded
    /\ ~provider.hasLoaded => provider.newest # NoUser \/ provider.older # {}
    /\ username # NoUser => location = "signin"

\* The load that began last has ended last, well, and no event waits.
Quiet == provider.inOrder /\ provider.older = {} /\ ~provider.event

\* A provider that is quiet shows who is signed in, whatever this tab and the
\* others have done in between: no change of the storage goes unnoticed.
QuietProvidersAgree == Quiet => provider.auth = lastUser

\* A sign-in leads to one's own account page, not to another's, whatever was
\* typed, opened or signed in while Cognito was asked.
LandingIsOwn == landed /\ Quiet => Content = "mine"

\* No page stays at "loading" for good, also when its calls fail.
LoadingClears == ~provider.hasLoaded ~> provider.hasLoaded
=============================================================================
