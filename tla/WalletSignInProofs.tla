-------------------------- MODULE WalletSignInProofs --------------------------
(* What is proved of signing in with a wallet, for any number of sessions,   *)
(* users and accounts.                                                       *)
EXTENDS WalletSignIn, WalletRegistryProofs

USE UserAssumption, AccountAssumption, FormAssumption, AddressAssumption, SignatureAssumption

\* The attempts a session may have made.
None == <<>>
Right == <<TRUE>>
Wrong == <<FALSE>>

\* They differ, and none or the last of them is what DefineAuthChallenge looks at.
LEMMA AttemptsDiffer ==
    /\ None # Right /\ None # Wrong /\ Right # Wrong
    /\ Len(None) = 0 /\ Len(Right) = 1 /\ Len(Wrong) = 1
    /\ Right[1] = TRUE /\ Wrong[1] = FALSE
    /\ \A b \in BOOLEAN : Append(None, b) = IF b THEN Right ELSE Wrong
<1>1. None # Right /\ None # Wrong
    BY DEF None, Right, Wrong
<1>2. Right # Wrong
    BY DEF Right, Wrong
<1>3. Len(None) = 0
    BY DEF None
<1>4. Len(Right) = 1 /\ Len(Wrong) = 1
    BY DEF Right, Wrong
<1>5. Right[1] = TRUE
    BY DEF Right
<1>6. Wrong[1] = FALSE
    BY DEF Wrong
<1>7. ASSUME NEW b \in BOOLEAN
      PROVE  Append(None, b) = IF b THEN Right ELSE Wrong
    <2>1. Append(None, b) = <<b>>
        BY DEF None
    <2> QED
        BY <2>1 DEF Right, Wrong
<1> QED
    BY <1>1, <1>2, <1>3, <1>4, <1>5, <1>6, <1>7

\* What a session holds, whatever its stage.
SessionsOK ==
    /\ stage \in [Sessions -> {"idle", "define", "create", "challenged", "answered", "declined"}
                              \cup Settled]
    /\ userName \in [Sessions -> Users \cup {NoUser}]
    /\ account \in [Sessions -> Accounts \cup {ZeroAddress}]
    /\ nonce \in [Sessions -> 0..issued]
    /\ answer \in [Sessions -> Signature \cup {NoSignature}]
    /\ attempts \in [Sessions -> {None, Right, Wrong}]

\* The answer of a session that was let in.
RightAnswer(s) ==
    [signer |-> GetAddressByID(userName[s]), message |-> "Sign in to Knowtfolio.",
     nonce |-> nonce[s]]

\* How far a session has come, and what it has been given by then.
SessionInv(s) ==
    /\ stage[s] # "idle" => userName[s] \in Users /\ account[s] \in Accounts
    /\ stage[s] \in {"idle", "create", "challenged", "answered", "declined"} =>
            attempts[s] = None
    /\ stage[s] \in {"challenged", "answered"} \/ attempts[s] # None => nonce[s] # 0
    /\ stage[s] = "answered" \/ attempts[s] # None => answer[s] \in signed
    /\ attempts[s] = Right => answer[s] = RightAnswer(s)
    /\ stage[s] = "tokens" => attempts[s] = Right

\* Challenges of two sessions never carry the same nonce.
ChallengesDiffer ==
    \A s, q \in Sessions : s # q /\ nonce[s] # 0 => nonce[s] # nonce[q]

SignInInv ==
    /\ WalletTypeOK
    /\ signed \subseteq Signature
    /\ SessionsOK
    /\ \A s \in Sessions : SessionInv(s)
    /\ ChallengesDiffer

-----------------------------------------------------------------------------
\* Nobody has tried to sign in.
LEMMA InitSignIn == SignInInit => SignInInv
<1>1. SignInInit => \A s \in Sessions : attempts[s] = None
    BY DEF SignInInit, None
<1>2. SignInInit => attempts \in [Sessions -> {None, Right, Wrong}]
    BY DEF SignInInit, None
<1> QED
    BY <1>1, <1>2, AttemptsDiffer DEF SignInInit, WalletInit, SignInInv, WalletTypeOK, SessionsOK,
       SessionInv, ChallengesDiffer, Settled

\* What the invariant says of one session.
LEMMA OneSession ==
    ASSUME SignInInv, NEW s \in Sessions
    PROVE  /\ SessionInv(s)
           /\ nonce[s] \in 0..issued /\ issued \in Nat
           /\ answer[s] \in Signature \cup {NoSignature}
           /\ attempts[s] = None \/ attempts[s] = Right \/ attempts[s] = Wrong
BY DEF SignInInv, SessionsOK, WalletTypeOK

\* A session whose step it is not keeps its invariant, while signatures are only
\* added and no wallet that was found changes.
LEMMA OtherSessionStays ==
    ASSUME SignInInv, NEW s \in Sessions,
           stage'[s] = stage[s], userName'[s] = userName[s], account'[s] = account[s],
           nonce'[s] = nonce[s], answer'[s] = answer[s], attempts'[s] = attempts[s],
           signed \subseteq signed',
           \A u : GetAddressByID(u) # ZeroAddress => GetAddressByID(u)' = GetAddressByID(u)
    PROVE  SessionInv(s)'
<1>1. SessionInv(s)
    BY DEF SignInInv
<1>2. attempts[s] = Right => GetAddressByID(userName[s]) \in Accounts
    <2> SUFFICES ASSUME attempts[s] = Right PROVE GetAddressByID(userName[s]) \in Accounts
        OBVIOUS
    <2>1. answer[s] = RightAnswer(s) /\ answer[s] \in signed
        BY <1>1, AttemptsDiffer DEF SessionInv
    <2>2. RightAnswer(s) \in Signature
        BY <2>1 DEF SignInInv
    <2>3. RightAnswer(s).signer \in Accounts
        BY <2>2 DEF Signature
    <2> QED
        BY <2>3 DEF RightAnswer
<1>3. attempts[s] = Right => RightAnswer(s)' = RightAnswer(s)
    BY <1>2 DEF RightAnswer
<1> QED
    BY <1>1, <1>3 DEF SessionInv

\* Registrations and mint signatures touch no session.
LEMMA AroundSessions ==
    ASSUME SignInInv, UNCHANGED signInVars, WalletTypeOK', issued <= issued',
           signed \subseteq signed', signed' \subseteq Signature,
           \A u : GetAddressByID(u) # ZeroAddress => GetAddressByID(u)' = GetAddressByID(u)
    PROVE  SignInInv'
<1>1. \A s \in Sessions : SessionInv(s)'
    BY OtherSessionStays DEF signInVars
<1>2. SessionsOK' /\ ChallengesDiffer'
    BY DEF SignInInv, SessionsOK, ChallengesDiffer, signInVars, WalletTypeOK
<1> QED
    BY <1>1, <1>2 DEF SignInInv

\* A registration finds every wallet that was found before.
LEMMA RegistrationSignIn ==
    ASSUME SignInInv, NEW u \in Users, NEW text \in AddressText, PutUserWallet(u, text),
           UNCHANGED <<signed, signInVars>>
    PROVE  SignInInv'
<1>1. WalletTypeOK' /\ issued' = issued + 1 /\ issued \in Nat
    BY PutUserWalletType, PutUserWalletItems DEF SignInInv, WalletTypeOK
<1>2. \A v : GetAddressByID(v) # ZeroAddress => GetAddressByID(v)' = GetAddressByID(v)
    BY AddressStays DEF SignInInv
<1>3. signed \subseteq signed' /\ signed' \subseteq Signature
    BY DEF SignInInv
<1> QED
    BY <1>1, <1>2, <1>3, AroundSessions

\* A mint is signed over another message.
LEMMA SignMintSignIn ==
    ASSUME SignInInv, NEW u \in Users, NEW acct \in Accounts, SignMint(u, acct)
    PROVE  SignInInv'
<1>1. UNCHANGED <<walletVars, signInVars>>
    BY DEF SignMint
<1>2. signed \subseteq signed' /\ signed' \subseteq Signature
    <2> DEFINE sig == [signer |-> acct, message |-> "Mint NFT", nonce |-> nonceOf[u]]
    <2>1. signed' = signed \cup {sig}
        BY DEF SignMint
    <2>2. sig \in Signature
        BY DEF SignInInv, Signature, Messages, WalletTypeOK
    <2> HIDE DEF sig
    <2> QED
        BY <2>1, <2>2 DEF SignInInv
<1>3. WalletTypeOK' /\ issued <= issued'
    BY <1>1 DEF walletVars, SignInInv, WalletTypeOK
<1>4. \A v : GetAddressByID(v)' = GetAddressByID(v)
    BY <1>1 DEF walletVars, GetAddressByID
<1> QED
    BY <1>1, <1>2, <1>3, <1>4, AroundSessions

\* Of the step of one session, what it does to that session remains to be shown.
LEMMA OneSessionSteps ==
    ASSUME SignInInv, NEW s \in Sessions, UNCHANGED <<walletOf, userOf, nonceOf>>,
           issued' \in Nat, issued <= issued',
           signed \subseteq signed', signed' \subseteq Signature,
           SessionsOK',
           \A q \in Sessions \ {s} :
                /\ stage'[q] = stage[q] /\ userName'[q] = userName[q]
                /\ account'[q] = account[q] /\ nonce'[q] = nonce[q]
                /\ answer'[q] = answer[q] /\ attempts'[q] = attempts[q],
           nonce'[s] = nonce[s] \/ nonce'[s] > issued,
           SessionInv(s)'
    PROVE  SignInInv'
<1>1. \A u : GetAddressByID(u)' = GetAddressByID(u)
    BY DEF GetAddressByID
<1>2. \A q \in Sessions : SessionInv(q)'
    BY <1>1, OtherSessionStays
<1>3. WalletTypeOK'
    BY DEF SignInInv, WalletTypeOK
<1>4. ChallengesDiffer'
    BY DEF SignInInv, ChallengesDiffer, SessionsOK, WalletTypeOK
<1> QED
    BY <1>2, <1>3, <1>4 DEF SignInInv

\* Steps that leave the table and the signatures alone.
LEMMA InitiateSignIn ==
    ASSUME SignInInv, NEW s \in Sessions, NEW u \in Users, NEW acct \in Accounts,
           Initiate(s, u, acct)
    PROVE  SignInInv'
<1> USE DEF Initiate, GoTo, walletVars
<1>1. UNCHANGED <<walletVars, signed, nonce, answer, attempts>> /\ stage[s] = "idle"
    OBVIOUS
<1>2. stage'[s] = "define" /\ userName'[s] = u /\ account'[s] = acct
    BY DEF SignInInv, SessionsOK
<1>3. SessionInv(s) /\ issued \in Nat
    BY OneSession
<1>4. SessionInv(s)'
    BY <1>1, <1>2, <1>3, AttemptsDiffer DEF SessionInv
<1>5. SessionsOK'
    BY <1>1 DEF SignInInv, SessionsOK
<1> QED
    BY <1>1, <1>3, <1>4, <1>5, OneSessionSteps DEF SignInInv, SessionsOK

\* The function that decides goes by the last attempt.
LEMMA DefineSignIn ==
    ASSUME SignInInv, NEW s \in Sessions, DefineAuthChallenge(s)
    PROVE  SignInInv'
<1>1. /\ UNCHANGED <<walletVars, signed, userName, account, nonce, answer, attempts>>
      /\ stage[s] = "define"
      /\ stage' = [stage EXCEPT ![s] =
                            IF attempts[s] # None
                            THEN IF attempts[s][Len(attempts[s])] THEN "tokens" ELSE "failed"
                            ELSE IF GetAddressByID(userName[s]) = ZeroAddress
                                 THEN "failed" ELSE "create"]
    BY DEF DefineAuthChallenge, GoTo, None
<1>2. /\ SessionInv(s) /\ issued \in Nat
      /\ attempts[s] = None \/ attempts[s] = Right \/ attempts[s] = Wrong
    BY OneSession
<1>3. attempts[s] = Right => attempts[s][Len(attempts[s])] = TRUE
    BY AttemptsDiffer
<1>4. attempts[s] = Wrong => attempts[s][Len(attempts[s])] = FALSE
    BY AttemptsDiffer
<1>5. /\ stage'[s] \in {"tokens", "failed", "create"}
      /\ stage'[s] = "tokens" => attempts[s] = Right
      /\ stage'[s] = "create" => attempts[s] = None
    BY <1>1, <1>2, <1>3, <1>4, AttemptsDiffer DEF SignInInv, SessionsOK
<1>6. GetAddressByID(userName[s])' = GetAddressByID(userName[s])
    BY <1>1 DEF GetAddressByID, walletVars
<1>7. SessionInv(s)'
    BY <1>1, <1>2, <1>5, <1>6 DEF SessionInv, RightAnswer
<1>8. SessionsOK'
    BY <1>1, <1>5 DEF SignInInv, SessionsOK, Settled, walletVars
<1> QED
    BY <1>1, <1>2, <1>7, <1>8, OneSessionSteps DEF SignInInv, SessionsOK, walletVars

\* The function that verifies adds the session's only attempt.
LEMMA VerifySignIn ==
    ASSUME SignInInv, NEW s \in Sessions, VerifyAuthChallenge(s)
    PROVE  SignInInv'
<1>1. /\ UNCHANGED <<walletVars, signed, userName, account, nonce, answer>>
      /\ stage[s] = "answered" /\ stage' = [stage EXCEPT ![s] = "define"]
      /\ attempts' = [attempts EXCEPT ![s] = Append(attempts[s], AnswerCorrect(s))]
    BY DEF VerifyAuthChallenge, GoTo
<1>2. SessionInv(s) /\ issued \in Nat
    BY OneSession
<1>3. attempts[s] = None /\ AnswerCorrect(s) \in BOOLEAN
    BY <1>1, <1>2 DEF SessionInv, AnswerCorrect
<1>4. Append(attempts[s], AnswerCorrect(s)) = IF AnswerCorrect(s) THEN Right ELSE Wrong
    BY <1>3, AttemptsDiffer
<1>5. attempts' = [attempts EXCEPT ![s] = IF AnswerCorrect(s) THEN Right ELSE Wrong]
    BY <1>1, <1>4
<1>6. /\ stage'[s] = "define"
      /\ attempts'[s] = IF AnswerCorrect(s) THEN Right ELSE Wrong
    BY <1>1, <1>5 DEF SignInInv, SessionsOK
<1>7. RightAnswer(s)' = RightAnswer(s) /\ (AnswerCorrect(s) => answer[s] = RightAnswer(s))
    BY <1>1 DEF RightAnswer, GetAddressByID, walletVars, AnswerCorrect
<1>8. SessionInv(s)'
    BY <1>1, <1>2, <1>6, <1>7, AttemptsDiffer DEF SessionInv
<1>9. SessionsOK'
    BY <1>1, <1>5 DEF SignInInv, SessionsOK, Settled, walletVars
<1> QED
    <2> DEFINE outcome == IF AnswerCorrect(s) THEN Right ELSE Wrong
    <2>1. attempts' = [attempts EXCEPT ![s] = outcome]
        BY <1>5
    <2> HIDE DEF outcome
    <2>2. \A q \in Sessions \ {s} : stage'[q] = stage[q] /\ attempts'[q] = attempts[q]
        BY <1>1, <2>1 DEF SignInInv, SessionsOK
    <2>3. signed \subseteq signed' /\ signed' \subseteq Signature
        BY <1>1 DEF SignInInv
    <2> QED
        BY <1>1, <1>2, <1>8, <1>9, <2>2, <2>3, OneSessionSteps DEF walletVars

\* Any signature that was made may be sent.
LEMMA AnotherSignIn ==
    ASSUME SignInInv, NEW s \in Sessions, AnswerWithAnother(s)
    PROVE  SignInInv'
<1>1. PICK sig \in signed : answer' = [answer EXCEPT ![s] = sig]
    BY DEF AnswerWithAnother
<1>2. /\ UNCHANGED <<walletVars, signed, userName, account, nonce, attempts>>
      /\ stage[s] = "challenged" /\ stage' = [stage EXCEPT ![s] = "answered"]
    BY DEF AnswerWithAnother, GoTo
<1>3. SessionInv(s) /\ issued \in Nat
    BY OneSession
<1>4. stage'[s] = "answered" /\ answer'[s] = sig
    BY <1>1, <1>2 DEF SignInInv, SessionsOK
<1>5. SessionInv(s)'
    BY <1>1, <1>2, <1>3, <1>4, AttemptsDiffer DEF SessionInv
<1>6. SessionsOK'
    BY <1>1, <1>2 DEF SignInInv, SessionsOK, walletVars
<1> QED
    BY <1>1, <1>2, <1>3, <1>5, <1>6, OneSessionSteps DEF SignInInv, SessionsOK, walletVars

\* A session may be left, or fail.
LEMMA StoppedSignIn ==
    ASSUME SignInInv, NEW s \in Sessions, DeclineChallenge(s) \/ SessionFails(s)
    PROVE  SignInInv'
<1>1. PICK end \in {"declined", "failed"} :
            /\ stage' = [stage EXCEPT ![s] = end]
            /\ end = "declined" => stage[s] = "challenged"
    BY DEF DeclineChallenge, SessionFails, GoTo
<1>2. /\ UNCHANGED <<walletVars, signed, userName, account, nonce, answer, attempts>>
      /\ stage[s] # "idle"
    BY DEF DeclineChallenge, SessionFails
<1>3. SessionInv(s) /\ issued \in Nat
    BY OneSession
<1>4. stage'[s] = end
    BY <1>1 DEF SignInInv, SessionsOK
<1>5. RightAnswer(s)' = RightAnswer(s)
    BY <1>2 DEF RightAnswer, GetAddressByID, walletVars
<1>6. SessionInv(s)'
    BY <1>1, <1>2, <1>3, <1>4, <1>5 DEF SessionInv
<1>7. SessionsOK'
    BY <1>1, <1>2 DEF SignInInv, SessionsOK, Settled, walletVars
<1> QED
    BY <1>1, <1>2, <1>3, <1>6, <1>7, OneSessionSteps DEF SignInInv, SessionsOK, walletVars

\* A challenge has a nonce above all others.
LEMMA CreateSignIn ==
    ASSUME SignInInv, NEW s \in Sessions, CreateAuthChallenge(s)
    PROVE  SignInInv'
<1>1. /\ UNCHANGED <<walletOf, userOf, nonceOf, signed, userName, account, answer, attempts>>
      /\ issued' = issued + 1 /\ nonce' = [nonce EXCEPT ![s] = issued + 1]
      /\ stage[s] = "create" /\ stage' = [stage EXCEPT ![s] = "challenged"]
    BY DEF CreateAuthChallenge, GoTo
<1>2. SessionInv(s) /\ issued \in Nat
    BY OneSession
<1>3. stage'[s] = "challenged" /\ nonce'[s] = issued + 1
    BY <1>1 DEF SignInInv, SessionsOK
<1>4. SessionInv(s)'
    BY <1>1, <1>2, <1>3, AttemptsDiffer DEF SessionInv
<1>5. SessionsOK'
    <2>1. nonce' \in [Sessions -> 0..issued']
        BY <1>1, <1>2 DEF SignInInv, SessionsOK
    <2> QED
        BY <1>1, <2>1 DEF SignInInv, SessionsOK
<1> QED
    BY <1>1, <1>2, <1>3, <1>4, <1>5, OneSessionSteps DEF SignInInv, SessionsOK

\* One that was never used stays unused.
LEMMA CreateTwiceSignIn ==
    ASSUME SignInInv, NEW s \in Sessions, CreateTwice(s)
    PROVE  SignInInv'
<1>1. WalletTypeOK' /\ \A v : GetAddressByID(v)' = GetAddressByID(v)
    BY DEF CreateTwice, SignInInv, WalletTypeOK, GetAddressByID
<1>2. issued <= issued'
    BY DEF CreateTwice, SignInInv, WalletTypeOK
<1>3. signed' = signed /\ signed \subseteq Signature /\ UNCHANGED signInVars
    BY DEF CreateTwice, SignInInv
<1> QED
    BY <1>1, <1>2, <1>3, AroundSessions

\* The answer is a signature that exists.
LEMMA SignChallengeSignIn ==
    ASSUME SignInInv, NEW s \in Sessions, SignChallenge(s)
    PROVE  SignInInv'
<1> DEFINE sig == [signer |-> account[s], message |-> "Sign in to Knowtfolio.", nonce |-> nonce[s]]
<1>1. /\ UNCHANGED <<walletVars, userName, account, nonce, attempts>>
      /\ stage[s] = "challenged" /\ stage' = [stage EXCEPT ![s] = "answered"]
      /\ signed' = signed \cup {sig} /\ answer' = [answer EXCEPT ![s] = sig]
    BY DEF SignChallenge, GoTo
<1>2. SessionInv(s) /\ issued \in Nat /\ nonce[s] \in Nat
    BY OneSession
<1>3. sig \in Signature
    BY <1>1, <1>2 DEF Signature, Messages, SessionInv
<1> HIDE DEF sig
<1>4. stage'[s] = "answered" /\ answer'[s] = sig
    BY <1>1 DEF SignInInv, SessionsOK
<1>5. SessionInv(s)'
    BY <1>1, <1>2, <1>4, AttemptsDiffer DEF SessionInv
<1>6. SessionsOK'
    BY <1>1, <1>3 DEF SignInInv, SessionsOK, walletVars
<1> QED
    BY <1>1, <1>2, <1>3, <1>5, <1>6, OneSessionSteps DEF SignInInv, SessionsOK, walletVars

\* No step breaks the invariant.
LEMMA NextSignIn ==
    ASSUME SignInInv, [SignInNext]_<<walletVars, signed, signInVars>>
    PROVE  SignInInv'
<1>1. CASE UNCHANGED <<walletVars, signed, signInVars>>
    <2>1. \A v : GetAddressByID(v)' = GetAddressByID(v)
        BY <1>1 DEF walletVars, GetAddressByID
    <2>2. WalletTypeOK' /\ issued <= issued'
        BY <1>1 DEF walletVars, SignInInv, WalletTypeOK
    <2> QED
        BY <1>1, <2>1, <2>2, AroundSessions DEF SignInInv
<1> QED
    BY <1>1, InitiateSignIn, DefineSignIn, VerifySignIn, AnotherSignIn, StoppedSignIn,
       CreateSignIn, CreateTwiceSignIn, SignChallengeSignIn, RegistrationSignIn, SignMintSignIn
       DEF SignInNext, Function

-----------------------------------------------------------------------------
\* Nonces are handed out once, and a right answer is one the session's own nonce
\* and the user's own wallet go into.
THEOREM SignInsKept == SignInSpec => []SignInInv
<1>1. SignInInv /\ [SignInNext]_<<walletVars, signed, signInVars>> => SignInInv'
    BY NextSignIn
<1> QED
    BY InitSignIn, <1>1, PTL DEF SignInSpec

\* What a session holds fits its stage.
THEOREM SignInTypeCorrect == SignInSpec => []SignInTypeOK
<1>1. SignInInv => SignInTypeOK
    <2> SUFFICES ASSUME SignInInv PROVE SignInTypeOK
        OBVIOUS
    <2>1. ASSUME NEW s \in Sessions PROVE Len(attempts[s]) <= 1
        <3>1. attempts[s] = None \/ attempts[s] = Right \/ attempts[s] = Wrong
            BY OneSession
        <3>2. Len(None) <= 1 /\ Len(Right) <= 1 /\ Len(Wrong) <= 1
            BY AttemptsDiffer
        <3> QED
            BY <3>1, <3>2
    <2>2. \A s \in Sessions : SessionInv(s)
        BY DEF SignInInv
    <2>3. /\ WalletTypeOK /\ signed \subseteq Signature /\ issued \in Nat
          /\ SessionsOK
        BY DEF SignInInv, WalletTypeOK
    <2>4. ASSUME NEW s \in Sessions
          PROVE  /\ stage[s] = "answered" => nonce[s] \in 1..issued
                 /\ stage[s] = "tokens" => attempts[s] = <<TRUE>>
        <3>1. SessionInv(s) /\ nonce[s] \in 0..issued
            BY OneSession
        <3>2. stage[s] = "answered" => nonce[s] \in 1..issued
            BY <2>3, <3>1 DEF SessionInv
        <3>3. stage[s] = "tokens" => attempts[s] = Right
            BY <3>1 DEF SessionInv
        <3> QED
            BY <3>2, <3>3 DEF Right
    <2> QED
        BY <2>1, <2>2, <2>3, <2>4 DEF SignInTypeOK, SessionInv, SessionsOK
<1> QED
    BY <1>1, SignInsKept, PTL

\* Nobody gets another user's tokens, whatever was signed for whatever purpose
\* and whatever signature was sent in its place.
THEOREM TokensNeedTheWalletAlways == SignInSpec => []TokensNeedTheWallet
<1>1. SignInInv => TokensNeedTheWallet
    BY AttemptsDiffer DEF SignInInv, SessionInv, RightAnswer, TokensNeedTheWallet
<1> QED
    BY <1>1, SignInsKept, PTL

\* A signature that has opened a session opens no other.
THEOREM SignaturesOpenOneSessionAlways == SignInSpec => []SignaturesOpenOneSession
<1>1. SignInInv => SignaturesOpenOneSession
    <2> SUFFICES ASSUME SignInInv, NEW s \in Sessions, NEW q \in Sessions, s # q,
                        stage[s] = "tokens", stage[q] = "tokens"
                 PROVE  answer[s] # answer[q]
        BY DEF SignaturesOpenOneSession
    <2>1. /\ answer[s] = RightAnswer(s) /\ answer[q] = RightAnswer(q)
          /\ nonce[s] # 0
        BY AttemptsDiffer DEF SignInInv, SessionInv
    <2>2. nonce[s] # nonce[q]
        BY <2>1 DEF SignInInv, ChallengesDiffer
    <2>3. RightAnswer(s).nonce = nonce[s] /\ RightAnswer(q).nonce = nonce[q]
        BY DEF RightAnswer
    <2> QED
        BY <2>1, <2>2, <2>3
<1> QED
    BY <1>1, SignInsKept, PTL

\* Only DefineAuthChallenge gives tokens, and it goes by the attempt that was made.
THEOREM WrongAnswersAreFinalAlways == SignInSpec => WrongAnswersAreFinal
<1> DEFINE Final == \A s \in Sessions :
                attempts[s] # <<>> /\ ~attempts[s][1] => stage'[s] # "tokens"
<1>1. ASSUME SignInInv, SignInInv', SignInNext
      PROVE  Final
    <2> SUFFICES ASSUME NEW s \in Sessions, attempts[s] # <<>>, ~attempts[s][1],
                        stage'[s] = "tokens"
                 PROVE  FALSE
        OBVIOUS
    <2>1. attempts[s] = Wrong
        BY <1>1, AttemptsDiffer DEF SignInInv, SessionsOK, None
    <2>2. attempts'[s] = Right
        BY <1>1 DEF SignInInv, SessionInv
    <2>3. stage[s] # "answered"
        BY <1>1, <2>1, AttemptsDiffer DEF SignInInv, SessionInv
    <2>4. ASSUME NEW q \in Sessions, VerifyAuthChallenge(q)
          PROVE  attempts'[s] = attempts[s]
        BY <1>1, <2>3, <2>4 DEF VerifyAuthChallenge, SignInInv, SessionsOK
    <2>5. attempts'[s] = attempts[s]
        BY <1>1, <2>4 DEF SignInNext, Initiate, Function, DefineAuthChallenge,
           CreateAuthChallenge, CreateTwice, SignChallenge, AnswerWithAnother, DeclineChallenge,
           SessionFails, SignMint, signInVars
    <2> QED
        BY <2>1, <2>2, <2>5, AttemptsDiffer
<1>2. SignInInv /\ SignInInv' /\ [SignInNext]_<<walletVars, signed, signInVars>>
        => [Final]_signInVars
    BY <1>1
<1> QED
    BY <1>2, SignInsKept, PTL DEF SignInSpec, WrongAnswersAreFinal

\* The items of a table from which sign-ins are verified stay in pairs.
LEMMA SignInKeepsRegistry ==
    ASSUME RegistryInv, SignInInv, [SignInNext]_<<walletVars, signed, signInVars>>
    PROVE  RegistryInv'
<1>1. ASSUME NEW u \in Users, NEW text \in AddressText, PutUserWallet(u, text)
      PROVE  RegistryInv'
    BY <1>1, PutKeepsRegistry
<1>2. CASE UNCHANGED <<walletOf, userOf, nonceOf>> /\ issued' \in {issued, issued + 1}
    BY <1>2 DEF RegistryInv, WalletTypeOK, ItemsPaired, NoncesWereIssued, NoncesFollowWallets
<1>3. \/ UNCHANGED <<walletOf, userOf, nonceOf>> /\ issued' \in {issued, issued + 1}
      \/ \E u \in Users, text \in AddressText : PutUserWallet(u, text)
    BY DEF SignInNext, Function, Initiate, DefineAuthChallenge, CreateAuthChallenge, CreateTwice,
           SignChallenge, AnswerWithAnother, DeclineChallenge, VerifyAuthChallenge, SessionFails,
           SignMint, walletVars
<1> QED
    BY <1>1, <1>2, <1>3

\* Registrations beside sign-ins implement the abstract binding: the wallet that a
\* session is verified against is the user's for good.
THEOREM SignInsImplementWalletBinding == SignInSpec => ImplementsWalletBinding
<1>1. SignInInit => RegistryInv /\ Binding!Init
    BY InitialRegistry, InitialBinding DEF SignInInit
<1>2. RegistryInv /\ SignInInv /\ [SignInNext]_<<walletVars, signed, signInVars>> => RegistryInv'
    BY SignInKeepsRegistry
<1>3. RegistryInv /\ [SignInNext]_<<walletVars, signed, signInVars>>
      => [Binding!Next]_BoundPairs
    <2> SUFFICES ASSUME RegistryInv, [SignInNext]_<<walletVars, signed, signInVars>>
                 PROVE  [Binding!Next]_BoundPairs
        OBVIOUS
    <2>1. \/ UNCHANGED walletOf
          \/ \E u \in Users, text \in AddressText : PutUserWallet(u, text)
        BY DEF SignInNext, Function, Initiate, DefineAuthChallenge, CreateAuthChallenge,
               CreateTwice, SignChallenge, AnswerWithAnother, DeclineChallenge,
               VerifyAuthChallenge, SessionFails, SignMint, walletVars
    <2> QED
        BY <2>1, WalletsBind
<1> QED
    BY <1>1, <1>2, <1>3, SignInsKept, PTL
       DEF SignInSpec, ImplementsWalletBinding, Binding!Spec
=============================================================================
