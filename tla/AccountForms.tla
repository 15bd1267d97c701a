---------------------------- MODULE AccountForms ----------------------------
(***************************************************************************)
(* The forms about a Cognito account: SignUpForm, ResetPasswordForm,       *)
(* UpdatePasswordForm and RetryConfirmationForm, with the functions that   *)
(* judge a sign-up, validate_sign_up_form and pre_sign_up.                 *)
(*                                                                         *)
(* Every change of a form asks the server for a verdict, and the button    *)
(* follows the verdict that arrives last, not the one asked for last.      *)
(* Everybody here signs up with one e-mail address, the case that the      *)
(* functions are there to refuse; it is typed with the user name.          *)
(***************************************************************************)
EXTENDS Browser

VARIABLES
    openForm,     \* the form that is open
    fields,       \* what has been typed
    newest,       \* the verdict asked for last, while it is under way
    older,        \* the earlier ones under way
    fresh,        \* the verdict that arrived last is that of the form as it is
    canSubmit,    \* canSubmitForm
    sent,         \* hasSignedUp or hasSentCode
    target,       \* whom the code was sent to
    strayed,      \* the user name was changed while the code was asked for
    call,         \* the call of Cognito under way, one at a time
    signUp,       \* user -> how far a sign-up is, from here or elsewhere
    overlapped,   \* two sign-ups were judged before either was carried out
    setBy         \* the last call that set a password

codeVars == <<sent, target, strayed>>
poolVars == <<signUp, overlapped, setBy>>
accountVars ==
    <<openForm, fields, newest, older, fresh, canSubmit, codeVars, call, poolVars>>

Kinds == {"sign up", "reset", "update", "retry"}

Passwords == {"", "weak", "strong"}

Fields == [username: Members \cup {NoUser}, password: Passwords,
           confirmation: {"", "strong"}, code: BOOLEAN]

Empty == [username |-> NoUser, password |-> "", confirmation |-> "", code |-> FALSE]

NoCall == [does |-> "nothing", form |-> Empty, fresh |-> FALSE]

\* fresh: of a change of the password, that the button was about this form.
Calls == [does: {"nothing", "sign up", "send", "reset", "update"}, form: Fields, fresh: BOOLEAN]

\* Who has an account.
Registered == {u \in Members : signUp[u] = "created"}

-----------------------------------------------------------------------------
(* The verdict on a form.                                                  *)

\* validate_sign_up_form: the formats, and whether somebody has the user name
\* or the e-mail address.
FieldErrors(f) ==
    {k \in {"username"} : f.username = NoUser \/ f.username \in Registered}
    \cup {k \in {"email"} : f.username = NoUser \/ Registered # {}}
    \cup {k \in {"password"} : f.password # "strong"}

\* What validateSignUpForm adds on its own.
Errors(f) ==
    FieldErrors(f) \cup {k \in {"confirmation"} : f.confirmation # f.password}

\* The inputs of each form that ValidateForm is given, and those left empty.
Inputs ==
    CASE openForm = "sign up" -> {"username", "email", "password", "confirmation"}
      [] openForm = "reset" -> {"username", "password", "confirmation", "code"}
      [] openForm = "update" -> {"password", "confirmation"}
      [] OTHER -> {}

Unfilled(f) ==
    {k \in {"username", "email"} : f.username = NoUser}
    \cup {k \in {"password"} : f.password = ""}
    \cup {k \in {"confirmation"} : f.confirmation = ""}
    \cup {k \in {"code"} : ~f.code}

\* Mutant of ValidateForm: isAllFieldsFilled is not looked at.
ValidateFilled(f) == Inputs \cap Errors(f) \subseteq Unfilled(f)

\* Errors of empty inputs do not count, but empty inputs do.
ValidateForm(f) ==
    /\ Inputs \cap Errors(f) \subseteq Unfilled(f)
    /\ Inputs \cap Unfilled(f) = {}

\* A form that opens is empty, and the effect on it asks for the first verdict.
AccountInit ==
    /\ openForm \in Kinds
    /\ fields = Empty
    /\ newest = IF openForm = "retry" THEN {} ELSE {ValidateForm(Empty)}
    /\ older = {}
    /\ fresh = FALSE
    /\ canSubmit = FALSE
    /\ sent = FALSE
    /\ target = NoUser
    /\ strayed = FALSE
    /\ call = NoCall
    /\ signUp \in IF openForm = "sign up" THEN {[u \in Members |-> "no"]}
                  ELSE {[u \in Members |-> IF u = v THEN "created" ELSE "no"] : v \in Members}
    /\ overlapped = FALSE
    /\ setBy = NoCall

-----------------------------------------------------------------------------
(* Typing, and the answers it brings.                                      *)

\* Mutant of Enabled: the user name stays open when the code has been sent.
EnabledAlways(k) ==
    \/ openForm = "sign up" /\ k # "code"
    \/ openForm = "reset" /\ (sent \/ k = "username")
    \/ openForm = "update" /\ k \notin {"username", "code"}
    \/ openForm = "retry" /\ k = "username"

\* The inputs that are there and not disabled.
Enabled(k) ==
    \/ openForm = "sign up" /\ ~sent /\ k # "code"
    \/ openForm = "reset" /\ (sent # (k = "username"))
    \/ openForm = "update" /\ k \notin {"username", "code"}
    \/ openForm = "retry" /\ ~sent /\ k = "username"

Typed ==
    {<<"username", [fields EXCEPT !.username = u]>> : u \in Members \cup {NoUser}}
    \cup {<<"password", [fields EXCEPT !.password = p]>> : p \in Passwords}
    \cup {<<"confirmation", [fields EXCEPT !.confirmation = p]>> : p \in {"", "strong"}}
    \cup {<<"code", [fields EXCEPT !.code = TRUE]>>}

\* onChangeForm, and the effect on the form that asks for a verdict.
OnChangeForm ==
    /\ \E typed \in Typed :
        /\ Enabled(typed[1])
        /\ typed[2] # fields
        /\ fields' = typed[2]
    /\ IF openForm = "retry" THEN UNCHANGED <<newest, older>>
       ELSE newest' = {ValidateForm(fields')} /\ older' = older \cup newest
    /\ fresh' = FALSE
    /\ strayed' = (\/ strayed
                   \/ /\ call.does \in {"sign up", "send"}
                      /\ fields'.username # fields.username)
    /\ UNCHANGED <<openForm, canSubmit, sent, target, call, poolVars>>

\* The verdict asked for last arrives, or its call fails and nobody hears of it.
NewestArrives ==
    /\ newest # {}
    /\ newest' = {}
    /\ \/ canSubmit' \in newest /\ fresh' = TRUE
       \/ UNCHANGED <<canSubmit, fresh>>
    /\ UNCHANGED <<openForm, fields, older, codeVars, call, poolVars>>

\* An earlier one arrives; others that said the same may follow.
OlderArrives(v) ==
    /\ v \in older
    /\ older' \in {older, older \ {v}}
    /\ canSubmit' = v
    /\ fresh' = FALSE
    /\ UNCHANGED <<openForm, fields, newest, codeVars, call, poolVars>>

-----------------------------------------------------------------------------
(* Signing up.                                                             *)

\* Mutant of AssertConfirmPassword: the two are not compared.
AssertNothing(f) == TRUE

\* assertConfirmPassword, which ends signUpToCognito and resetPassword early.
AssertConfirmPassword(f) == f.password = f.confirmation

Calling(does) ==
    /\ call = NoCall
    /\ call' = [does |-> does, form |-> fields, fresh |-> fresh /\ openForm = "update"]
    /\ UNCHANGED <<openForm, fields, newest, older, fresh, canSubmit, codeVars, poolVars>>

\* Submit.  Without a user name Cognito takes nothing; two sign-ups with one
\* name at one time are for Cognito to tell apart.
SubmitSignUp ==
    /\ openForm = "sign up"
    /\ canSubmit
    /\ ~sent
    /\ fields.username # NoUser
    /\ signUp[fields.username] # "judged"
    /\ AssertConfirmPassword(fields)
    /\ Calling("sign up")

Here(u) == call.does = "sign up" /\ call.form.username = u

\* A sign-up elsewhere is of a form that looks right.
FormOf(u) ==
    IF Here(u) THEN call.form
    ELSE [username |-> u, password |-> "strong", confirmation |-> "strong", code |-> FALSE]

\* Mutant of PreSignUp: the form is not judged again.
PreSignUpTrusting(u) ==
    /\ signUp[u] = "no"
    /\ signUp' = [signUp EXCEPT ![u] = "judged"]
    /\ overlapped' = (overlapped \/ \E v \in Members : signUp[v] = "judged")
    /\ UNCHANGED setBy

\* pre_sign_up has validate_sign_up_form judge what Cognito was sent...
PreSignUp(u) ==
    /\ signUp[u] = "no"
    /\ FieldErrors(FormOf(u)) = {}
    /\ signUp' = [signUp EXCEPT ![u] = "judged"]
    /\ overlapped' = (overlapped \/ \E v \in Members : signUp[v] = "judged")
    /\ UNCHANGED setBy

\* ...and then Cognito creates the user, or does not for a reason of its own.
CreateUser(u) ==
    /\ signUp[u] = "judged"
    /\ \/ /\ signUp' = [signUp EXCEPT ![u] = "created"]
          /\ setBy' = IF Here(u) THEN call ELSE setBy
       \/ signUp' = [signUp EXCEPT ![u] = "no"] /\ UNCHANGED setBy
    /\ UNCHANGED overlapped

SignUpStep(u) ==
    /\ openForm = "sign up"
    /\ PreSignUp(u) \/ CreateUser(u)
    /\ UNCHANGED <<openForm, fields, newest, older, fresh, canSubmit, codeVars, call>>

\* A toast says that a code was sent, or that the sign-up failed, which may
\* also be a lost answer.
SignUpAnswered ==
    /\ call.does = "sign up"
    /\ signUp[call.form.username] # "judged"
    /\ call' = NoCall
    /\ \/ /\ signUp[call.form.username] = "created"
          /\ setBy = call
          /\ sent' = TRUE
          /\ target' = call.form.username
       \/ UNCHANGED <<sent, target>>
    /\ UNCHANGED <<openForm, fields, newest, older, fresh, canSubmit, strayed, poolVars>>

-----------------------------------------------------------------------------
(* Codes and passwords.                                                    *)

\* sendPassswordResetVerificationCode, or resendConfirmationCode.
SubmitUsername ==
    /\ \/ openForm = "reset" /\ ~sent
       \/ openForm = "retry" /\ fields.username # NoUser
    /\ Calling("send")

SendAnswered ==
    /\ call.does = "send"
    /\ call' = NoCall
    /\ \/ sent' = TRUE /\ target' = call.form.username
       \/ UNCHANGED <<sent, target>>
    /\ UNCHANGED <<openForm, fields, newest, older, fresh, canSubmit, strayed, poolVars>>

\* resetPassword asserts what changePassword is called without.
SubmitPassword ==
    /\ canSubmit
    /\ openForm = "reset" => sent /\ AssertConfirmPassword(fields)
    /\ openForm \in {"reset", "update"} /\ Calling(openForm)

\* The form's page is left.
Close ==
    /\ openForm' = "closed"
    /\ fields' = Empty
    /\ newest' = {}
    /\ older' = {}
    /\ canSubmit' = FALSE
    /\ UNCHANGED <<fresh, codeVars, signUp, overlapped>>

\* Cognito accepts the code or the old password, or refuses.  A password that is
\* reset leads to the sign-in page.
PasswordAnswered ==
    /\ call.does \in {"reset", "update"}
    /\ call' = NoCall
    /\ setBy' \in {setBy, call}
    /\ IF openForm = "reset" /\ setBy' = call THEN Close
       ELSE UNCHANGED <<openForm, fields, newest, older, fresh, canSubmit, codeVars, signUp, overlapped>>

\* verifyCode: the code is right for the user name in the form.  The sign-in
\* that SignUpForm tries next may fail, and then the form stays.
VerifyCode ==
    /\ openForm \in {"sign up", "retry"}
    /\ sent
    /\ fields.username = target
    /\ Close
    /\ UNCHANGED <<call, setBy>>

AccountNext ==
    \/ OnChangeForm
    \/ NewestArrives
    \/ \E v \in BOOLEAN : OlderArrives(v)
    \/ SubmitSignUp \/ SignUpAnswered
    \/ \E u \in Members : SignUpStep(u)
    \/ SubmitUsername \/ SendAnswered
    \/ SubmitPassword \/ PasswordAnswered
    \/ VerifyCode

AccountSpec == AccountInit /\ [][AccountNext]_accountVars

-----------------------------------------------------------------------------
\* There is one newest verdict at most and no fresh one beside it, and a form
\* without passwords asks for none.
AccountTypeOK ==
    /\ openForm \in Kinds \cup {"closed"}
    /\ fields \in Fields
    /\ newest \in {{}, {TRUE}, {FALSE}}
    /\ older \subseteq BOOLEAN
    /\ {fresh, canSubmit, sent, strayed, overlapped} \subseteq BOOLEAN
    /\ target \in Members \cup {NoUser}
    /\ call \in Calls
    /\ signUp \in [Members -> {"no", "judged", "created"}]
    /\ setBy \in Calls
    /\ fresh => newest = {}
    /\ openForm = "retry" => newest \cup older = {} /\ ~canSubmit

\* When the verdict that arrived last is that of the form as it is, an enabled
\* button means a complete form with a strong password typed twice.
ButtonTellsTheForm ==
    fresh /\ canSubmit =>
        /\ fields.password = "strong"
        /\ fields.confirmation = fields.password
        /\ openForm = "sign up" => fields.username # NoUser
        /\ openForm = "reset" => fields.username # NoUser /\ fields.code

\* Whatever order verdicts arrive in, no password is set by a sign-up or a reset
\* that was not typed twice; UpdatePasswordForm has only the button to rely on.
PasswordsWereConfirmed ==
    setBy.form.password # setBy.form.confirmation => setBy.does = "update" /\ ~setBy.fresh

\* A stale button gets nobody around the rules: an account has a strong password,
\* and shares its e-mail address only with one whose sign-up was judged at the
\* same time.
AccountsPassedTheRules ==
    /\ setBy.does = "sign up" => setBy.form.password = "strong"
    /\ \A u, v \in Registered : u # v => overlapped

\* The code that is asked for is the one sent for the user name the form shows,
\* unless the name was changed while it was being sent.
CodeIsForThisUser == sent /\ openForm # "closed" => fields.username = target \/ strayed

\* "A form to set the password anew with a verification code": filled in right,
\* for a user who exists, it can be submitted.
CompleteResetFormIsEnabled ==
    openForm = "reset" /\ fresh /\ fields =
            [username |-> target, password |-> "strong", confirmation |-> "strong", code |-> TRUE]
        /\ target \in Registered
    => canSubmit
=============================================================================
