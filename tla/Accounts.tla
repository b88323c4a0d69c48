------------------------------ MODULE Accounts ------------------------------
(***************************************************************************)
(* AuthService for one phone number: registration and its verification by  *)
(* Telegram, sessions, the two ways to recover a password, and what an     *)
(* administrator does to the account.                                      *)
(*                                                                         *)
(* Requests follow one another, but a request that writes several rows may *)
(* end after any of them: the process stops, or the database raises.       *)
(***************************************************************************)
EXTENDS Integers, FiniteSets

CONSTANTS
    Password,
    Challenge,      \* registration challenges
    Otp,            \* password recovery challenges
    Session,        \* tokens
    NoPassword,
    MaxAttempts,    \* PASSWORD_RECOVERY_MAX_ATTEMPTS
    MaxRequests     \* PASSWORD_RECOVERY_REQUEST_MAX

ASSUME AccountsAssumption ==
    /\ NoPassword \notin Password
    /\ {MaxAttempts, MaxRequests} \subseteq Nat \ {0}

VARIABLES
    user,        \* the users row
    challenge,   \* registration_challenges
    otp,         \* password_recovery_challenges
    session,     \* sessions
    requests,    \* password_recovery_requests of the last window
    recovery,    \* the recovery that is writing: its next row, or "none"
    era          \* ghost: session -> 1 if it was opened after a completed recovery

accountVars == <<user, challenge, otp, session, requests, recovery, era>>

UserStatus == {"none", "pending_verification", "active", "suspended", "blocked", "deleted"}
Stage == {"none", "password", "sessions", "code"}

AccountsTypeOK ==
    /\ user \in [status : UserStatus, password : Password \cup {NoPassword}, verified : BOOLEAN,
                 banned : BOOLEAN, code : BOOLEAN, recovered : {0, 1}]
    /\ challenge \in [Challenge -> {"none", "open", "marked", "used", "expired"}]
    /\ otp \in [Otp -> [status : {"none", "open", "used"}, attempts : 0..MaxAttempts]]
    /\ session \in [Session -> {"none", "open", "closed"}]
    /\ requests \in 0..MaxRequests
    /\ recovery \in [at : Stage, password : Password \cup {NoPassword}]
    /\ era \in [Session -> {0, 1}]

NoRecovery == [at |-> "none", password |-> NoPassword]

AccountsInit ==
    /\ user = [status |-> "none", password |-> NoPassword, verified |-> FALSE,
               banned |-> FALSE, code |-> FALSE, recovered |-> 0]
    /\ challenge = [c \in Challenge |-> "none"]
    /\ otp = [o \in Otp |-> [status |-> "none", attempts |-> 0]]
    /\ session = [s \in Session |-> "none"]
    /\ requests = 0 /\ recovery = NoRecovery
    /\ era = [s \in Session |-> 0]

Quiet == recovery.at = "none"
MayUse == user.status = "active"

-----------------------------------------------------------------------------
(* Registration.                                                            *)

Usable == {"open", "marked"}

\* update_many: the unused challenges of the user.
LinksVoid(f) == [c \in Challenge |-> IF f[c] \in Usable \cup {"expired"} THEN "used" ELSE f[c]]

\* The user row is written, earlier challenges are invalidated, and a new one is
\* written unless the request ends before.  A pending user may start again.
Register(c, p) ==
    /\ Quiet /\ user.status \in {"none", "pending_verification"} /\ challenge[c] = "none"
    /\ user' = [user EXCEPT !.status = "pending_verification", !.password = p,
                            !.verified = FALSE]
    /\ \/ challenge' = challenge
       \/ challenge' = LinksVoid(challenge)
       \/ challenge' = [LinksVoid(challenge) EXCEPT ![c] = "open"]
    /\ UNCHANGED <<otp, session, requests, recovery, era>>

\* mark_telegram_contact_by_hash, for a contact with the registered number.
MarkContact(c) ==
    /\ Quiet /\ challenge[c] \in Usable
    /\ challenge' = [challenge EXCEPT ![c] = "marked"]
    /\ UNCHANGED <<user, otp, session, requests, recovery, era>>

VerifyRegistration(c) ==
    /\ Quiet /\ challenge[c] = "marked"
    /\ user' = [user EXCEPT !.status = "active", !.verified = TRUE]
    /\ \/ challenge' = [challenge EXCEPT ![c] = "used"]
       \/ UNCHANGED challenge
    /\ UNCHANGED <<otp, session, requests, recovery, era>>

LinkExpires(c) ==
    /\ Quiet /\ challenge[c] \in Usable
    /\ challenge' = [challenge EXCEPT ![c] = "expired"]
    /\ UNCHANGED <<user, otp, session, requests, recovery, era>>

-----------------------------------------------------------------------------
(* Sessions.                                                                *)

\* A suspension that is over is lifted first, whatever the password is.
Login(s, p) ==
    /\ Quiet /\ session[s] = "none"
    /\ LET lifted == user.status = "suspended" /\ ~user.banned
           u == IF lifted THEN [user EXCEPT !.status = "active"] ELSE user
       IN  /\ user' = u
           /\ IF u.status = "active" /\ u.password = p
              THEN /\ session' = [session EXCEPT ![s] = "open"]
                   /\ era' = [era EXCEPT ![s] = u.recovered]
              ELSE lifted /\ UNCHANGED <<session, era>>
    /\ UNCHANGED <<challenge, otp, requests, recovery>>

\* revoke_session, or its hours are over.
EndSession(s) ==
    /\ Quiet /\ session[s] = "open"
    /\ session' = [session EXCEPT ![s] = "closed"]
    /\ UNCHANGED <<user, challenge, otp, requests, recovery, era>>

Authenticated(s) == session[s] = "open" /\ MayUse

AllClosed == [s \in Session |-> IF session[s] = "open" THEN "closed" ELSE session[s]]

-----------------------------------------------------------------------------
(* Recovery.                                                                *)

EnrollCode(s) ==
    /\ Quiet /\ Authenticated(s) /\ ~user.code
    /\ user' = [user EXCEPT !.code = TRUE]
    /\ UNCHANGED <<challenge, otp, session, requests, recovery, era>>

RegenerateCode(s) ==
    /\ Quiet /\ Authenticated(s)
    /\ user' = [user EXCEPT !.code = TRUE]
    /\ UNCHANGED <<challenge, otp, session, requests, recovery, era>>

Limited == requests >= MaxRequests
RequestCounted == IF Limited THEN requests ELSE requests + 1

Superseded == [o \in Otp |-> IF otp[o].status = "open" THEN [otp[o] EXCEPT !.status = "used"] ELSE otp[o]]

\* begin_telegram_password_recovery: the request is counted in any case; an
\* earlier code is superseded, and the new one is written last.
BeginTelegram(o) ==
    /\ Quiet /\ otp[o].status = "none" /\ user.status # "none"
    /\ requests' = RequestCounted
    /\ IF Limited \/ ~MayUse \/ ~user.verified THEN UNCHANGED otp
       ELSE \/ UNCHANGED otp
            \/ otp' = Superseded
            \/ otp' = [Superseded EXCEPT ![o].status = "open"]
    /\ UNCHANGED <<user, challenge, session, recovery, era>>

WindowEnds ==
    /\ Quiet /\ requests > 0
    /\ requests' = 0
    /\ UNCHANGED <<user, challenge, otp, session, recovery, era>>

Failed(r) == [r EXCEPT !.attempts = @ + 1,
                       !.status = IF r.attempts + 1 >= MaxAttempts THEN "used" ELSE "open"]

WrongOtp(o) ==
    /\ Quiet /\ otp[o].status = "open"
    /\ otp' = [otp EXCEPT ![o] = IF otp[o].attempts >= MaxAttempts
                                 THEN [@ EXCEPT !.status = "used"] ELSE Failed(@)]
    /\ UNCHANGED <<user, challenge, session, requests, recovery, era>>

\* complete_telegram_password_recovery: the code is spent before anything else.
CompleteTelegram(o, p) ==
    /\ Quiet /\ otp[o].status = "open" /\ otp[o].attempts < MaxAttempts
    /\ otp' = [otp EXCEPT ![o].status = "used"]
    /\ recovery' = [at |-> "password", password |-> p]
    /\ UNCHANGED <<user, challenge, session, requests, era>>

OtpExpires(o) ==
    /\ Quiet /\ otp[o].status = "open"
    /\ otp' = [otp EXCEPT ![o].status = "used"]
    /\ UNCHANGED <<user, challenge, session, requests, recovery, era>>

\* reset_password_with_recovery_code
ResetWithCode(p) ==
    /\ Quiet /\ MayUse /\ user.code
    /\ recovery' = [at |-> "password", password |-> p]
    /\ UNCHANGED <<user, challenge, otp, session, requests, era>>

\* _set_recovered_password, row by row.
SetPassword ==
    /\ recovery.at = "password"
    /\ user' = [user EXCEPT !.password = recovery.password]
    /\ recovery' = [recovery EXCEPT !.at = "sessions"]
    /\ UNCHANGED <<challenge, otp, session, requests, era>>

\* Mutant: the sessions are left to their hours.
RevokeNone == session

RevokeAll == AllClosed

RevokeSessions ==
    /\ recovery.at = "sessions"
    /\ session' = RevokeAll
    /\ recovery' = [recovery EXCEPT !.at = "code"]
    /\ UNCHANGED <<user, challenge, otp, requests, era>>

RotateCode ==
    /\ recovery.at = "code"
    /\ user' = [user EXCEPT !.code = TRUE, !.recovered = 1]
    /\ recovery' = NoRecovery
    /\ UNCHANGED <<challenge, otp, session, requests, era>>

RecoveryEnds ==
    /\ ~Quiet
    /\ recovery' = NoRecovery
    /\ UNCHANGED <<user, challenge, otp, session, requests, era>>

-----------------------------------------------------------------------------
(* Administration.                                                          *)

SetStatus(status) ==
    /\ Quiet /\ user.status # "none"
    /\ user' = [user EXCEPT !.status = status, !.banned = status = "suspended"]
    /\ IF status = "active" THEN UNCHANGED session
       ELSE session' = AllClosed \/ UNCHANGED session
    /\ UNCHANGED <<challenge, otp, requests, recovery, era>>

BanEnds ==
    /\ Quiet /\ user.banned
    /\ user' = [user EXCEPT !.banned = FALSE]
    /\ UNCHANGED <<challenge, otp, session, requests, recovery, era>>

AccountsNext ==
    \/ \E c \in Challenge, p \in Password : Register(c, p)
    \/ \E c \in Challenge : MarkContact(c) \/ VerifyRegistration(c) \/ LinkExpires(c)
    \/ \E s \in Session, p \in Password : Login(s, p)
    \/ \E s \in Session : EndSession(s) \/ EnrollCode(s) \/ RegenerateCode(s)
    \/ \E o \in Otp : BeginTelegram(o) \/ WrongOtp(o) \/ OtpExpires(o)
    \/ \E o \in Otp, p \in Password : CompleteTelegram(o, p)
    \/ \E p \in Password : ResetWithCode(p)
    \/ SetPassword \/ RevokeSessions \/ RotateCode \/ RecoveryEnds
    \/ WindowEnds \/ BanEnds
    \/ \E status \in {"active", "suspended", "blocked", "deleted"} : SetStatus(status)

-----------------------------------------------------------------------------
(* Properties.                                                              *)

\* However often registration and recovery are started, and wherever a request
\* ended, at most one link and one code can be used at a time.
OneIsUsable ==
    /\ Cardinality({c \in Challenge : challenge[c] \in Usable}) <= 1
    /\ Cardinality({o \in Otp : otp[o].status = "open"}) <= 1

\* A code that was mistyped as often as allowed is not usable any more.
AttemptsEnd == \A o \in Otp : otp[o].attempts >= MaxAttempts => otp[o].status = "used"

\* A recovery that completed has closed every session that was opened before it,
\* though an earlier one may have ended halfway.
RecoveryClosesSessions ==
    Quiet => \A s \in Session : session[s] = "open" => era[s] = user.recovered

\* Links, codes and sessions end with what they were issued for, though a
\* request that writes several rows ends after any of them.
AccountsAreSound == AccountsTypeOK /\ OneIsUsable /\ AttemptsEnd /\ RecoveryClosesSessions
=============================================================================
