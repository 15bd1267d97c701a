---------------------------- MODULE WalletSignIn ----------------------------
(***************************************************************************)
(* Signing in with a wallet: a Cognito CUSTOM_AUTH session that runs the   *)
(* define_auth_challenge, create_auth_challenge and                        *)
(* verify_auth_challenge_response functions, driven by the client's        *)
(* signInToCognitoWithWallet.  Wallets are registered and mints are signed *)
(* beside it, so every kind of signature the site asks for is around.      *)
(***************************************************************************)
EXTENDS WalletRegistry, Sequences, FiniteSets

CONSTANTS
    Sessions,     \* the sign-ins that are tried
    MaxIssued,    \* bounds the nonces generated
    MaxMints,     \* bounds the mints that are signed
    NoSignature

VARIABLES
    signed,       \* every signature made so far, by any wallet for any purpose
    stage,        \* session -> what happens to it next
    userName,     \* session -> the user it is for
    account,      \* session -> the account MetaMask has connected
    nonce,        \* session -> private challenge parameter
    answer,       \* session -> the signature sent
    attempts      \* session -> ChallengeResult of its attempts, in order

signInVars == <<stage, userName, account, nonce, answer, attempts>>

Messages == {"Sign in to Knowtfolio.", "Mint NFT"}

Signature == [signer: Accounts, message: Messages, nonce: Nat]

ASSUME SignatureAssumption == NoSignature \notin Signature

Settled == {"tokens", "failed"}

SignInInit ==
    /\ WalletInit
    /\ signed = {}
    /\ stage = [s \in Sessions |-> "idle"]
    /\ userName = [s \in Sessions |-> NoUser]
    /\ account = [s \in Sessions |-> ZeroAddress]
    /\ nonce = [s \in Sessions |-> 0]
    /\ answer = [s \in Sessions |-> NoSignature]
    /\ attempts = [s \in Sessions |-> <<>>]

GoTo(s, next) == stage' = [stage EXCEPT ![s] = next]

-----------------------------------------------------------------------------
\* initiateAuth, for the user typed in, with the account connected.
Initiate(s, u, acct) ==
    /\ stage[s] = "idle"
    /\ GoTo(s, "define")
    /\ userName' = [userName EXCEPT ![s] = u]
    /\ account' = [account EXCEPT ![s] = acct]
    /\ UNCHANGED <<walletVars, signed, nonce, answer, attempts>>

\* Mutants of DefineAuthChallenge: a wrong answer may be tried again;
DefineAgain(s) ==
    /\ stage[s] = "define"
    /\ GoTo(s, IF attempts[s] # <<>> /\ attempts[s][Len(attempts[s])]
               THEN "tokens" ELSE "create")
    /\ UNCHANGED <<walletVars, signed, userName, account, nonce, answer, attempts>>

\* a user without a wallet gets no answer.
DefineRegistered(s) ==
    /\ stage[s] = "define"
    /\ GetAddressByID(userName[s]) # ZeroAddress
    /\ GoTo(s, IF attempts[s] = <<>> THEN "create"
               ELSE IF attempts[s][Len(attempts[s])] THEN "tokens" ELSE "failed")
    /\ UNCHANGED <<walletVars, signed, userName, account, nonce, answer, attempts>>

\* The last attempt decides; the first call asks whether there is a wallet.
DefineAuthChallenge(s) ==
    /\ stage[s] = "define"
    /\ IF attempts[s] # <<>>
       THEN GoTo(s, IF attempts[s][Len(attempts[s])] THEN "tokens" ELSE "failed")
       ELSE GoTo(s, IF GetAddressByID(userName[s]) = ZeroAddress THEN "failed" ELSE "create")
    /\ UNCHANGED <<walletVars, signed, userName, account, nonce, answer, attempts>>

\* Mutant of CreateAuthChallenge: the last nonce generated is used again.
CreateFromLastNonce(s) ==
    /\ stage[s] = "create"
    /\ nonce' = [nonce EXCEPT ![s] = issued]
    /\ GoTo(s, "challenged")
    /\ UNCHANGED <<walletVars, signed, userName, account, answer, attempts>>

CreateAuthChallenge(s) ==
    /\ stage[s] = "create"
    /\ issued' = issued + 1
    /\ nonce' = [nonce EXCEPT ![s] = issued + 1]
    /\ GoTo(s, "challenged")
    /\ UNCHANGED <<walletOf, userOf, nonceOf, signed, userName, account, answer, attempts>>

\* Cognito calls a function again when it has had no answer in time.
CreateTwice(s) ==
    /\ stage[s] = "create"
    /\ issued < MaxIssued
    /\ issued' = issued + 1
    /\ UNCHANGED <<walletOf, userOf, nonceOf, signed, signInVars>>

\* customChallenge: the user signs in MetaMask and the answer is sent...
SignChallenge(s) ==
    /\ stage[s] = "challenged"
    /\ LET sig == [signer |-> account[s], message |-> "Sign in to Knowtfolio.",
                   nonce |-> nonce[s]]
       IN  /\ signed' = signed \cup {sig}
           /\ answer' = [answer EXCEPT ![s] = sig]
    /\ GoTo(s, "answered")
    /\ UNCHANGED <<walletVars, userName, account, nonce, attempts>>

\* ...or another signature reaches Cognito in its place...
AnswerWithAnother(s) ==
    /\ stage[s] = "challenged"
    /\ \E sig \in signed : answer' = [answer EXCEPT ![s] = sig]
    /\ GoTo(s, "answered")
    /\ UNCHANGED <<walletVars, signed, userName, account, nonce, attempts>>

\* ...or the user declines: sign rejects inside the callback, and neither
\* resolve nor reject is called.
DeclineChallenge(s) ==
    /\ stage[s] = "challenged"
    /\ GoTo(s, "declined")
    /\ UNCHANGED <<walletVars, signed, userName, account, nonce, answer, attempts>>

\* VerifySignature over the session's own message and nonce.
AnswerCorrect(s) ==
    answer[s] = [signer |-> GetAddressByID(userName[s]),
                 message |-> "Sign in to Knowtfolio.", nonce |-> nonce[s]]

\* Mutant of VerifyAuthChallenge: the nonce is not part of what is compared.
VerifyWithoutNonce(s) ==
    /\ stage[s] = "answered"
    /\ attempts' = [attempts EXCEPT ![s] = Append(@,
                        answer[s].signer = GetAddressByID(userName[s]))]
    /\ GoTo(s, "define")
    /\ UNCHANGED <<walletVars, signed, userName, account, nonce, answer>>

VerifyAuthChallenge(s) ==
    /\ stage[s] = "answered"
    /\ attempts' = [attempts EXCEPT ![s] = Append(@, AnswerCorrect(s))]
    /\ GoTo(s, "define")
    /\ UNCHANGED <<walletVars, signed, userName, account, nonce, answer>>

\* A function fails or times out, or the session expires: onFailure.
SessionFails(s) ==
    /\ stage[s] \in {"define", "create", "answered"}
    /\ GoTo(s, "failed")
    /\ UNCHANGED <<walletVars, signed, userName, account, nonce, answer, attempts>>

-----------------------------------------------------------------------------
\* What else asks a wallet to sign: a mint, over the nonce of the user signed
\* in, with the account connected.
SignMint(u, acct) ==
    /\ nonceOf[u] # 0
    /\ Cardinality({sig \in signed : sig.message = "Mint NFT"}) < MaxMints
    /\ LET sig == [signer |-> acct, message |-> "Mint NFT", nonce |-> nonceOf[u]]
       IN  sig \notin signed /\ signed' = signed \cup {sig}
    /\ UNCHANGED <<walletVars, signInVars>>

Function(s) ==
    DefineAuthChallenge(s) \/ CreateAuthChallenge(s) \/ VerifyAuthChallenge(s)

SignInNext ==
    \/ \E s \in Sessions :
        \/ \E u \in Users, acct \in Accounts : Initiate(s, u, acct)
        \/ Function(s)
        \/ CreateTwice(s)
        \/ SignChallenge(s) \/ AnswerWithAnother(s) \/ DeclineChallenge(s)
        \/ SessionFails(s)
    \/ \E u \in Users, text \in AddressText :
        /\ PutUserWallet(u, text)
        /\ UNCHANGED <<signed, signInVars>>
    \/ \E u \in Users, acct \in Accounts : SignMint(u, acct)

SignInSpec == SignInInit /\ [][SignInNext]_<<walletVars, signed, signInVars>>

\* Cognito calls the functions; nothing makes a user sign.
FairSignInSpec == SignInSpec /\ \A s \in Sessions : WF_<<walletVars, signed, signInVars>>(Function(s))

-----------------------------------------------------------------------------
\* A session is typed by its stage: a challenge has a nonce of its own, tokens
\* come after exactly one right answer, and nothing is answered twice.
SignInTypeOK ==
    /\ WalletTypeOK
    /\ signed \subseteq Signature
    /\ \A s \in Sessions :
        /\ stage[s] \in {"idle", "define", "create", "challenged", "answered", "declined"}
                        \cup Settled
        /\ stage[s] # "idle" => userName[s] \in Users /\ account[s] \in Accounts
        /\ stage[s] = "answered" => answer[s] \in signed /\ nonce[s] \in 1..issued
        /\ stage[s] = "tokens" => attempts[s] = <<TRUE>>
        /\ Len(attempts[s]) <= 1

\* Tokens are issued for a user only when the user's registered wallet has
\* signed this session's message, whatever else was signed and sent.
TokensNeedTheWallet ==
    \A s \in Sessions : stage[s] = "tokens" =>
        [signer |-> GetAddressByID(userName[s]), message |-> "Sign in to Knowtfolio.",
         nonce |-> nonce[s]] \in signed

\* One signature opens one session.
SignaturesOpenOneSession ==
    \A s, q \in Sessions :
        s # q /\ stage[s] = "tokens" /\ stage[q] = "tokens" => answer[s] # answer[q]

\* A session that was answered wrongly never gets tokens.
WrongAnswersAreFinal ==
    [][\A s \in Sessions :
        attempts[s] # <<>> /\ ~attempts[s][1] => stage'[s] # "tokens"]_signInVars

\* A sign-in comes to an end, unless it waits for the user to sign or the user
\* has declined to.
SignInsSettle ==
    \A s \in Sessions :
        stage[s] \in {"define", "create", "answered"} ~>
            stage[s] \in Settled \cup {"challenged", "declined"}
=============================================================================
