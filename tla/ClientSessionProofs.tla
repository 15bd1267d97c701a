------------------------- MODULE ClientSessionProofs -------------------------
(* What is proved of ClientSession for every value of its constants. *)
EXTENDS ClientSession, TLAPS

USE UserAssumption, MemberAssumption, PendingAssumption

-----------------------------------------------------------------------------
(* The provider.                                                           *)

\* A provider that is not loading shows its user or nobody, one that is has a
\* load under way.
ProviderOK(state) ==
    /\ state \in ProviderState
    /\ state.auth # NoUser => state.hasLoaded
    /\ ~state.hasLoaded => state.newest # NoUser \/ state.older # {}

\* The newest load is about the current user, and after it so is what is shown.
IsAbout(state, current) ==
    /\ state.newest # NoUser => state.newest = current
    /\ state.inOrder => state.auth = current

\* As it is, as long as no other tab has changed who is signed in unheard.
FollowsStorage(state, current) == ~state.event => IsAbout(state, current)

\* A load that begins is about who is signed in now.
LEMMA LoadCurrentUserFollows ==
    ASSUME NEW state, NEW current \in Members \cup {NoUser},
           state \in ProviderState, state.auth # NoUser => state.hasLoaded
    PROVE  /\ ProviderOK(LoadCurrentUser(state, current))
           /\ IsAbout(LoadCurrentUser(state, current), current)
<1> DEFINE superseded == state.older \cup ({state.newest} \ {NoUser})
<1>1. superseded \in SUBSET Members
    BY DEF ProviderState
<1>2. CASE current = NoUser
    BY <1>1, <1>2 DEF LoadCurrentUser, ProviderOK, ProviderState, IsAbout
<1>3. CASE current # NoUser
    BY <1>1, <1>3 DEF LoadCurrentUser, ProviderOK, ProviderState, IsAbout
<1>4. QED
    BY <1>2, <1>3

\* So is that of a provider just mounted.
LEMMA MountedFollows ==
    ASSUME NEW current \in Members \cup {NoUser}
    PROVE  ProviderOK(Mounted(current)) /\ FollowsStorage(Mounted(current), current)
<1> DEFINE first == [auth |-> NoUser, hasLoaded |-> FALSE, newest |-> NoUser,
                     older |-> {}, inOrder |-> FALSE, event |-> FALSE]
<1>1. first \in ProviderState /\ first.auth = NoUser
    BY DEF ProviderState
<1>2. QED
    BY <1>1, LoadCurrentUserFollows DEF Mounted, FollowsStorage

\* The end of a load changes what is under way, and puts the loads in order only
\* if it is the newest one's.
LEMMA EndingFollows ==
    ASSUME ProviderOK(provider), NEW l \in Members, NEW ok \in BOOLEAN,
           NEW after \in Ending(l, ok)
    PROVE  /\ after \in ProviderState
           /\ after.auth = provider.auth /\ after.hasLoaded = provider.hasLoaded
           /\ after.event = provider.event
           /\ after.newest # NoUser => after.newest = provider.newest
           /\ after.inOrder => ok /\ l = provider.newest
<1> USE DEF ProviderOK
<1>1. CASE /\ l = provider.newest
           /\ after = [provider EXCEPT !.newest = NoUser, !.inOrder = ok]
    BY <1>1 DEF ProviderState
<1>2. ASSUME NEW rest \in {provider.older, provider.older \ {l}},
             after = [provider EXCEPT !.older = rest, !.inOrder = FALSE]
      PROVE  /\ after \in ProviderState
             /\ after.auth = provider.auth /\ after.hasLoaded = provider.hasLoaded
             /\ after.event = provider.event
             /\ after.newest = provider.newest
             /\ ~after.inOrder
    BY <1>2 DEF ProviderState
<1>3. QED
    BY <1>1, <1>2 DEF Ending

-----------------------------------------------------------------------------
(* The inductive invariant: the end of the newest load tells who is signed *)
(* in only because that load was about nobody else when it began.          *)

LandedAtHome == landed => location = lastUser /\ lastUser # NoUser

SessionInv ==
    /\ SessionTypeOK
    /\ FollowsStorage(provider, lastUser)
    /\ LandedAtHome

\* The page has just been opened.
LEMMA InitialSession == SessionInit => SessionInv
<1> SUFFICES ASSUME SessionInit PROVE SessionInv
    OBVIOUS
<1>1. ProviderOK(provider) /\ FollowsStorage(provider, lastUser)
    BY MountedFollows DEF SessionInit
<1>2. QED
    BY <1>1 DEF SessionInit, SessionInv, SessionTypeOK, ProviderOK, LandedAtHome

\* A load that ends keeps it, well or not.
LEMMA LoadStepKeeps ==
    ASSUME SessionInv, LoadStep
    PROVE  SessionInv'
<1>1. ProviderOK(provider) /\ FollowsStorage(provider, lastUser)
    BY DEF SessionInv, SessionTypeOK, ProviderOK
<1>2. ASSUME NEW l \in Members, LoadSucceeds(l)
      PROVE  ProviderOK(provider') /\ FollowsStorage(provider', lastUser)
    <2>1. PICK after \in Ending(l, TRUE) :
                provider' = [after EXCEPT !.auth = l, !.hasLoaded = TRUE]
        BY <1>2 DEF LoadSucceeds
    <2>2. /\ after \in ProviderState
          /\ after.event = provider.event
          /\ after.newest # NoUser => after.newest = provider.newest
          /\ after.inOrder => l = provider.newest
        BY <1>1, EndingFollows
    <2>3. /\ provider' \in ProviderState
          /\ provider'.auth = l /\ provider'.hasLoaded
          /\ provider'.event = after.event /\ provider'.newest = after.newest
          /\ provider'.inOrder = after.inOrder
        BY <2>1, <2>2 DEF ProviderState
    <2>4. l # NoUser
        OBVIOUS
    <2>5. QED
        BY <1>1, <2>2, <2>3, <2>4 DEF ProviderOK, FollowsStorage, IsAbout
<1>3. ASSUME NEW l \in Members, LoadFails(l)
      PROVE  ProviderOK(provider') /\ FollowsStorage(provider', lastUser)
    <2>1. PICK after \in Ending(l, FALSE) : provider' = [after EXCEPT !.hasLoaded = TRUE]
        BY <1>3 DEF LoadFails
    <2>2. /\ after \in ProviderState
          /\ after.event = provider.event
          /\ after.newest # NoUser => after.newest = provider.newest
          /\ ~after.inOrder
        BY <1>1, EndingFollows
    <2>3. /\ provider' \in ProviderState
          /\ provider'.hasLoaded /\ ~provider'.inOrder
          /\ provider'.event = after.event /\ provider'.newest = after.newest
        BY <2>1, <2>2 DEF ProviderState
    <2>4. QED
        BY <1>1, <2>2, <2>3 DEF ProviderOK, FollowsStorage, IsAbout
<1>4. /\ ProviderOK(provider') /\ FollowsStorage(provider', lastUser)
      /\ UNCHANGED <<lastUser, location, landed, username, signIns, signOuts>>
    BY <1>2, <1>3 DEF LoadStep
<1>5. QED
    BY <1>4 DEF SessionInv, SessionTypeOK, ProviderOK, FollowsStorage, IsAbout, LandedAtHome

\* A page that is opened loads, or stays as true as it was.
LEMMA NavigateKeeps ==
    ASSUME SessionInv, NEW loc \in Members \cup {"signin"}, NEW load \in BOOLEAN,
           NEW current \in Members \cup {NoUser}, load \/ current = lastUser,
           Navigate(loc, load, current)
    PROVE  /\ ProviderOK(provider') /\ FollowsStorage(provider', current)
           /\ location' = loc
           /\ username' \in Members \cup {NoUser}
           /\ username' # NoUser => loc = "signin"
<1> DEFINE stays == (location = "signin") = (loc = "signin")
           first == IF stays THEN provider ELSE Mounted(current)
<1>1. ProviderOK(provider) /\ FollowsStorage(provider, lastUser)
    BY DEF SessionInv, SessionTypeOK, ProviderOK
<1>2. ProviderOK(first) /\ (stays \/ FollowsStorage(first, current))
    BY <1>1, MountedFollows
<1>3. /\ location' = loc
      /\ provider' = IF load THEN LoadCurrentUser(first, current) ELSE first
      /\ username' = IF stays THEN username ELSE NoUser
    BY DEF Navigate
<1>4. CASE load
    <2>1. first \in ProviderState /\ (first.auth # NoUser => first.hasLoaded)
        BY <1>2 DEF ProviderOK
    <2> HIDE DEF first
    <2>2. ProviderOK(provider') /\ FollowsStorage(provider', current)
        BY <1>3, <1>4, <2>1, LoadCurrentUserFollows DEF FollowsStorage
    <2>3. QED
        BY <1>3, <2>2 DEF SessionInv, SessionTypeOK
<1>5. CASE ~load
    <2>1. FollowsStorage(first, current)
        BY <1>1, <1>2, <1>5
    <2> HIDE DEF first
    <2>2. ProviderOK(provider') /\ FollowsStorage(provider', current)
        BY <1>2, <1>3, <1>5, <2>1
    <2>3. QED
        BY <1>3, <2>2 DEF SessionInv, SessionTypeOK
<1>6. QED
    BY <1>4, <1>5

\* Other tabs, and the listener.
LEMMA StorageKeeps ==
    ASSUME SessionInv,
           OnStorage \/ \E u \in Members \cup {NoUser} : ChangeElsewhere(u)
    PROVE  SessionInv'
<1>1. ProviderOK(provider)
    BY DEF SessionInv, SessionTypeOK, ProviderOK
<1>2. ASSUME NEW u \in Members \cup {NoUser}, ChangeElsewhere(u)
      PROVE  SessionInv'
    <2>1. /\ provider' \in ProviderState /\ provider'.event
          /\ provider'.auth = provider.auth /\ provider'.hasLoaded = provider.hasLoaded
          /\ provider'.newest = provider.newest /\ provider'.older = provider.older
        BY <1>1, <1>2 DEF ChangeElsewhere, ProviderOK, ProviderState
    <2>2. /\ lastUser' = u /\ landed' = FALSE
          /\ UNCHANGED <<location, username, signIns, signOuts>>
        BY <1>2 DEF ChangeElsewhere
    <2>3. QED
        BY <2>1, <2>2 DEF SessionInv, SessionTypeOK, FollowsStorage, IsAbout, LandedAtHome
<1>3. ASSUME OnStorage
      PROVE  SessionInv'
    <2> DEFINE loading == LoadCurrentUser(provider, lastUser)
    <2>1. ProviderOK(loading) /\ IsAbout(loading, lastUser)
        BY <1>1, LoadCurrentUserFollows DEF SessionInv, SessionTypeOK
    <2>2. PICK more \in BOOLEAN : provider' = [loading EXCEPT !.event = more]
        BY <1>3 DEF OnStorage
    <2>3. /\ loading \in ProviderState /\ provider' \in ProviderState
          /\ provider'.auth = loading.auth /\ provider'.hasLoaded = loading.hasLoaded
          /\ provider'.newest = loading.newest /\ provider'.older = loading.older
          /\ provider'.inOrder = loading.inOrder
        BY <2>1, <2>2 DEF ProviderOK, ProviderState
    <2> HIDE DEF loading
    <2>4. ProviderOK(provider') /\ IsAbout(provider', lastUser)
        BY <2>1, <2>3 DEF ProviderOK, IsAbout
    <2>5. UNCHANGED <<lastUser, location, landed, username, signIns, signOuts>>
        BY <1>3 DEF OnStorage
    <2>6. QED
        BY <2>4, <2>5 DEF SessionInv, SessionTypeOK, ProviderOK, FollowsStorage, IsAbout,
                          LandedAtHome
<1>4. QED
    BY <1>2, <1>3

\* A sign-in that ends, a sign-out that ends, and a link.
LEMMA PageKeeps ==
    ASSUME SessionInv,
           \/ \E u \in signIns : SignedIn(u)
           \/ \E u \in signOuts : SignedOut(u)
           \/ \E loc \in Members \cup {"signin"} : Open(loc)
    PROVE  SessionInv'
<1>1. signIns \in SUBSET Members /\ signOuts \in SUBSET Members
      /\ lastUser \in Members \cup {NoUser}
    BY DEF SessionInv, SessionTypeOK
<1>2. ASSUME NEW u \in signIns, SignedIn(u)
      PROVE  SessionInv'
    <2>1. /\ u \in Members /\ u # NoUser /\ lastUser' = u
          /\ signIns' \in SUBSET Members /\ signOuts' = signOuts
          /\ Navigate(u, TRUE, u) /\ landed' = TRUE
        BY <1>1, <1>2 DEF SignedIn
    <2>2. /\ ProviderOK(provider') /\ FollowsStorage(provider', u) /\ location' = u
          /\ username' \in Members \cup {NoUser}
          /\ username' # NoUser => u = "signin"
        BY <2>1, NavigateKeeps
    <2>3. QED
        BY <1>1, <2>1, <2>2 DEF SessionInv, SessionTypeOK, ProviderOK, FollowsStorage, IsAbout,
                                LandedAtHome
<1>3. ASSUME NEW u \in signOuts, SignedOut(u)
      PROVE  SessionInv'
    <2>1. /\ lastUser' \in Members \cup {NoUser} /\ landed' = FALSE
          /\ signOuts' \in SUBSET Members /\ signIns' = signIns
          /\ Navigate("signin", TRUE, lastUser')
        BY <1>1, <1>3 DEF SignedOut
    <2>2. PICK current \in Members \cup {NoUser} : current = lastUser'
        BY <2>1
    <2>3. /\ ProviderOK(provider') /\ FollowsStorage(provider', current) /\ location' = "signin"
          /\ username' \in Members \cup {NoUser}
        BY <2>1, <2>2, NavigateKeeps
    <2>4. QED
        BY <1>1, <2>1, <2>2, <2>3 DEF SessionInv, SessionTypeOK, ProviderOK, FollowsStorage,
                                      IsAbout, LandedAtHome
<1>4. ASSUME NEW loc \in Members \cup {"signin"}, Open(loc)
      PROVE  SessionInv'
    <2>1. /\ landed' = FALSE /\ UNCHANGED <<lastUser, signIns, signOuts>>
          /\ Navigate(loc, FALSE, lastUser)
        BY <1>4 DEF Open
    <2>2. /\ ProviderOK(provider') /\ FollowsStorage(provider', lastUser) /\ location' = loc
          /\ username' \in Members \cup {NoUser}
          /\ username' # NoUser => loc = "signin"
        BY <1>1, <2>1, NavigateKeeps
    <2>3. QED
        BY <1>1, <2>1, <2>2 DEF SessionInv, SessionTypeOK, ProviderOK, FollowsStorage, IsAbout,
                                LandedAtHome
<1>5. QED
    BY <1>2, <1>3, <1>4

\* Typing and pressing change nothing that is shown.
LEMMA FormKeeps ==
    ASSUME SessionInv,
           \/ \E u \in Members : TypeUsername(u)
           \/ SignIn
           \/ \E u \in signIns : SignInFails(u)
           \/ SignOut
           \/ UNCHANGED sessionVars
    PROVE  SessionInv'
<1>1. /\ UNCHANGED <<lastUser, provider, location, landed>>
      /\ username' \in Members \cup {NoUser}
      /\ username' # NoUser => location = "signin"
    BY DEF SessionInv, SessionTypeOK, TypeUsername, SignIn, SignInFails, SignOut, sessionVars
<1>2. signIns' \in SUBSET Members
    BY DEF SessionInv, SessionTypeOK, TypeUsername, SignIn, SignInFails, SignOut, sessionVars
<1>3. signOuts' \in SUBSET Members
    <2>1. CASE SignOut
        <3>1. provider.auth \in Members
            BY <2>1 DEF SignOut, Content, SessionInv, SessionTypeOK, ProviderState
        <3>2. QED
            BY <2>1, <3>1 DEF SignOut, SessionInv, SessionTypeOK
    <2>2. CASE UNCHANGED signOuts
        BY <2>2 DEF SessionInv, SessionTypeOK
    <2>3. QED
        BY <2>1, <2>2 DEF TypeUsername, SignIn, SignInFails, sessionVars
<1>4. QED
    BY <1>1, <1>2, <1>3 DEF SessionInv, SessionTypeOK, FollowsStorage, IsAbout, LandedAtHome

\* Every step of the tab and of the others keeps it.
LEMMA SessionStepKeeps ==
    ASSUME SessionInv, [SessionNext]_sessionVars
    PROVE  SessionInv'
BY LoadStepKeeps, StorageKeeps, PageKeeps, FormKeeps DEF SessionNext

\* However loads, tabs, sign-ins and links interleave, the invariant holds.
THEOREM SessionKept == SessionSpec => []SessionInv
<1>1. SessionInv /\ [SessionNext]_sessionVars => SessionInv'
    BY SessionStepKeeps
<1>2. QED
    BY <1>1, InitialSession, PTL DEF SessionSpec

-----------------------------------------------------------------------------
(* What follows from it.                                                   *)

\* A provider that is quiet follows the storage, which names who landed last.
LEMMA SessionPromise == SessionInv => SessionTypeOK /\ QuietProvidersAgree /\ LandingIsOwn
<1>1. SessionInv => SessionTypeOK
    BY DEF SessionInv
<1>2. SessionInv => QuietProvidersAgree
    BY DEF SessionInv, FollowsStorage, IsAbout, QuietProvidersAgree, Quiet
<1>3. SessionInv => LandingIsOwn
    BY DEF SessionInv, SessionTypeOK, FollowsStorage, IsAbout, LandedAtHome, LandingIsOwn, Quiet,
           Content
<1>4. QED
    BY <1>1, <1>2, <1>3

\* The provider, its loads and the forms keep their types.
THEOREM SessionTypeCorrect == SessionSpec => []SessionTypeOK
BY SessionPromise, SessionKept, PTL

\* A quiet provider shows who is signed in, for any number of loads under way.
THEOREM QuietProvidersAgreeAlways == SessionSpec => []QuietProvidersAgree
BY SessionPromise, SessionKept, PTL

\* A sign-in leads to one's own account page.
THEOREM LandingIsOwnAlways == SessionSpec => []LandingIsOwn
BY SessionPromise, SessionKept, PTL
=============================================================================
