------------------------- MODULE BackOffice_proofs -------------------------
(***************************************************************************)
(* Theorems about the components behind the HTTP API, for every value of   *)
(* the constants: accounts, billing and the statistics period keep their   *)
(* safety invariants.  The three share no state: each theorem is about the *)
(* behaviours of one of them.                                              *)
(***************************************************************************)
EXTENDS Billing, Accounts, StatisticsPeriod, FiniteSetTheorems, TLAPS

\* A set whose members are all the same has one member at most.
LEMMA AtMostOne ==
    ASSUME NEW S, \A x, y \in S : x = y
    PROVE  Cardinality(S) <= 1
<1>1. CASE S = {}
  BY <1>1, FS_EmptySet
<1>2. CASE S # {}
  <2>1. PICK x \in S : TRUE
    BY <1>2
  <2>2. S = {x}
    BY <2>1
  <2> QED
    BY <2>2, FS_Singleton
<1> QED
  BY <1>1, <1>2

-----------------------------------------------------------------------------
(* Accounts.                                                                *)

\* At most one link can be used, and one code, without counting them.
OneLink == \A c, d \in Challenge : challenge[c] \in Usable /\ challenge[d] \in Usable => c = d
OneCode == \A o, x \in Otp : otp[o].status = "open" /\ otp[x].status = "open" => o = x

\* Open sessions are of the era of the account at any time, and the last row of
\* a recovery is written when none is open.
SessionsOfEra ==
    /\ \A s \in Session : session[s] = "open" => era[s] = user.recovered
    /\ recovery.at = "code" => \A s \in Session : session[s] # "open"

AccountsInv == AccountsTypeOK /\ OneLink /\ OneCode /\ AttemptsEnd /\ SessionsOfEra

LEMMA AccountsInvInit == AccountsInit => AccountsInv
<1> SUFFICES ASSUME AccountsInit PROVE AccountsInv
  OBVIOUS
<1>1. AccountsTypeOK
  BY AccountsAssumption DEF AccountsInit, AccountsTypeOK, NoRecovery, UserStatus, Stage
<1> QED
  BY <1>1, AccountsAssumption
  DEF AccountsInit, AccountsInv, OneLink, OneCode, AttemptsEnd, SessionsOfEra, Usable, NoRecovery

\* The conjuncts are about separate rows: what leaves the rows alone keeps them.
LEMMA LinksKept ==
    ASSUME OneLink, \A c \in Challenge : challenge'[c] \in Usable => challenge[c] \in Usable
    PROVE  OneLink'
  BY DEF OneLink, Usable

\* At most one code is open while no step opens another.
LEMMA CodesKept ==
    ASSUME OneCode, \A o \in Otp : otp'[o].status = "open" => otp[o].status = "open"
    PROVE  OneCode'
  BY DEF OneCode

\* Open sessions are of the era while no step opens one.
LEMMA SessionsKept ==
    ASSUME SessionsOfEra, era' = era, user'.recovered = user.recovered,
           \A s \in Session : session'[s] = "open" => session[s] = "open",
           recovery'.at = "code" => recovery.at = "code"
    PROVE  SessionsOfEra'
  BY DEF SessionsOfEra

\* A registration keeps the invariant of the accounts.
LEMMA RegistrationStep ==
    ASSUME AccountsInv, NEW c \in Challenge,
           (\E p \in Password : Register(c, p)) \/ MarkContact(c) \/ VerifyRegistration(c) \/ LinkExpires(c)
    PROVE  AccountsInv'
<1> USE DEF AccountsInv
<1>0. UNCHANGED <<otp, session, requests, recovery, era>> /\ user'.recovered = user.recovered
  BY DEF Register, MarkContact, VerifyRegistration, LinkExpires, AccountsTypeOK
<1>1. AccountsTypeOK'
  <2>1. user' \in [status : UserStatus, password : Password \cup {NoPassword}, verified : BOOLEAN,
                 banned : BOOLEAN, code : BOOLEAN, recovered : {0, 1}]
    BY DEF Register, MarkContact, VerifyRegistration, LinkExpires, AccountsTypeOK, UserStatus
  <2>2. challenge' \in [Challenge -> {"none", "open", "marked", "used", "expired"}]
    <3>1. LinksVoid(challenge) \in [Challenge -> {"none", "open", "marked", "used", "expired"}]
      BY DEF AccountsTypeOK, LinksVoid
    <3>2. CASE \E p \in Password : Register(c, p)
      BY <3>1, <3>2 DEF Register, AccountsTypeOK
    <3>3. CASE MarkContact(c) \/ VerifyRegistration(c) \/ LinkExpires(c)
      BY <3>3 DEF MarkContact, VerifyRegistration, LinkExpires, AccountsTypeOK
    <3> QED
      BY <3>2, <3>3
  <2> QED
    BY <1>0, <2>1, <2>2 DEF AccountsTypeOK
<1>2. OneLink'
  <2>1. CASE \E p \in Password : Register(c, p)
    <3>1. CASE challenge' = challenge
      BY <3>1, LinksKept
    <3>2. CASE challenge' = LinksVoid(challenge)
      BY <3>2 DEF LinksVoid, Usable, OneLink
    <3>3. CASE challenge' = [LinksVoid(challenge) EXCEPT ![c] = "open"]
      BY <3>3 DEF LinksVoid, Usable, OneLink
    <3> QED
      BY <2>1, <3>1, <3>2, <3>3 DEF Register
  <2>2. CASE MarkContact(c) \/ VerifyRegistration(c) \/ LinkExpires(c)
    <3>1. \A d \in Challenge : challenge'[d] \in Usable => challenge[d] \in Usable
      BY <2>2 DEF MarkContact, VerifyRegistration, LinkExpires, Usable, AccountsTypeOK
    <3> QED
      BY <3>1, LinksKept
  <2> QED
    BY <2>1, <2>2
<1>3. OneCode' /\ AttemptsEnd' /\ SessionsOfEra'
  BY <1>0 DEF OneCode, AttemptsEnd, SessionsOfEra
<1> QED
  BY <1>1, <1>2, <1>3

\* So do a login, the end of a session and a new recovery code.
LEMMA SessionStep ==
    ASSUME AccountsInv, NEW s \in Session,
           (\E p \in Password : Login(s, p)) \/ EndSession(s) \/ EnrollCode(s) \/ RegenerateCode(s)
    PROVE  AccountsInv'
<1> USE DEF AccountsInv
<1>0. /\ UNCHANGED <<challenge, otp, requests, recovery>> /\ user'.recovered = user.recovered
      /\ recovery.at = "none"
  BY DEF Login, EndSession, EnrollCode, RegenerateCode, AccountsTypeOK, Quiet
<1>1. AccountsTypeOK'
  <2>1. user' \in [status : UserStatus, password : Password \cup {NoPassword}, verified : BOOLEAN,
                 banned : BOOLEAN, code : BOOLEAN, recovered : {0, 1}]
    BY DEF Login, EndSession, EnrollCode, RegenerateCode, AccountsTypeOK, UserStatus
  <2>2. session' \in [Session -> {"none", "open", "closed"}] /\ era' \in [Session -> {0, 1}]
    BY DEF Login, EndSession, EnrollCode, RegenerateCode, AccountsTypeOK
  <2> QED
    BY <1>0, <2>1, <2>2 DEF AccountsTypeOK
<1>2. OneLink' /\ OneCode' /\ AttemptsEnd'
  BY <1>0 DEF OneCode, AttemptsEnd, OneLink
<1>3. SessionsOfEra'
  BY <1>0 DEF Login, EndSession, EnrollCode, RegenerateCode, AccountsTypeOK, SessionsOfEra
<1> QED
  BY <1>1, <1>2, <1>3

\* What a request for a code does to the codes.
LEMMA CodeStep ==
    ASSUME AccountsInv, NEW o \in Otp,
           BeginTelegram(o) \/ WrongOtp(o) \/ OtpExpires(o) \/ \E p \in Password : CompleteTelegram(o, p)
    PROVE  AccountsInv'
<1> USE DEF AccountsInv
<1>0. /\ UNCHANGED <<challenge, user, session, era>>
      /\ recovery.at = "none"
      /\ recovery' = recovery \/ \E p \in Password : recovery' = [at |-> "password", password |-> p]
  BY DEF BeginTelegram, WrongOtp, OtpExpires, CompleteTelegram, Quiet
<1>r. requests' \in 0..MaxRequests
  BY AccountsAssumption
  DEF BeginTelegram, WrongOtp, OtpExpires, CompleteTelegram, AccountsTypeOK, RequestCounted, Limited
<1>t. otp' \in [Otp -> [status : {"none", "open", "used"}, attempts : 0..MaxAttempts]]
  <2>1. CASE BeginTelegram(o)
    <3>1. Superseded \in [Otp -> [status : {"none", "open", "used"}, attempts : 0..MaxAttempts]]
      BY DEF Superseded, AccountsTypeOK
    <3> QED
      BY <2>1, <3>1 DEF BeginTelegram, AccountsTypeOK
  <2>2. CASE WrongOtp(o)
    <3> DEFINE Row == [status : {"none", "open", "used"}, attempts : 0..MaxAttempts]
    <3>1. \A r \in Row : [r EXCEPT !.status = "used"] \in Row
      OBVIOUS
    <3>2. ASSUME NEW r \in Row, r.attempts < MaxAttempts PROVE Failed(r) \in Row
      <4>1. r.attempts + 1 \in 0..MaxAttempts
        BY <3>2, AccountsAssumption
      <4>2. Failed(r).attempts = r.attempts + 1 /\ Failed(r).status \in {"used", "open"}
        BY DEF Failed
      <4> QED
        BY <4>1, <4>2 DEF Failed
    <3>3. otp[o] \in Row /\ (~(otp[o].attempts >= MaxAttempts) => otp[o].attempts < MaxAttempts)
      BY AccountsAssumption DEF AccountsTypeOK
    <3>4. \E r \in Row : otp' = [otp EXCEPT ![o] = r]
      BY <2>2, <3>1, <3>2, <3>3 DEF WrongOtp
    <3> QED
      BY <3>4 DEF AccountsTypeOK
  <2>3. CASE OtpExpires(o) \/ \E p \in Password : CompleteTelegram(o, p)
    BY <2>3 DEF OtpExpires, CompleteTelegram, AccountsTypeOK
  <2> QED
    BY <2>1, <2>2, <2>3
<1>1. AccountsTypeOK'
  BY <1>0, <1>r, <1>t DEF AccountsTypeOK, Stage
<1>2. OneLink' /\ SessionsOfEra'
  BY <1>0 DEF OneLink, SessionsOfEra
<1>3. OneCode' /\ AttemptsEnd'
  <2>1. CASE BeginTelegram(o)
    <3>1. CASE otp' = otp
      BY <3>1 DEF OneCode, AttemptsEnd
    <3>2. CASE otp' = Superseded
      BY <3>2 DEF Superseded, AttemptsEnd, OneCode, AccountsTypeOK
    <3>3. CASE otp' = [Superseded EXCEPT ![o].status = "open"]
      <4>1. \A x \in Otp : Superseded[x].status # "open" /\ Superseded[x].attempts = otp[x].attempts
                           /\ (otp[x].status = "used" => Superseded[x].status = "used")
        BY DEF Superseded, AccountsTypeOK
      <4>2. /\ \A x \in Otp \ {o} : otp'[x] = Superseded[x]
            /\ otp'[o].attempts = otp[o].attempts
        BY <3>3, <4>1 DEF Superseded, AccountsTypeOK
      <4>3. otp[o].status = "none"
        BY <2>1 DEF BeginTelegram
      <4> QED
        BY <4>1, <4>2, <4>3 DEF OneCode, AttemptsEnd
    <3> QED
      BY <2>1, <3>1, <3>2, <3>3 DEF BeginTelegram
  <2>2. CASE WrongOtp(o)
    <3>1. /\ \A x \in Otp \ {o} : otp'[x] = otp[x]
          /\ otp'[o].attempts >= MaxAttempts => otp'[o].status = "used"
          /\ otp[o].status = "open"
      BY <2>2, AccountsAssumption DEF WrongOtp, Failed, AccountsTypeOK, AttemptsEnd
    <3> QED
      BY <3>1 DEF OneCode, AttemptsEnd
  <2>3. CASE OtpExpires(o) \/ \E p \in Password : CompleteTelegram(o, p)
    <3>1. /\ \A x \in Otp \ {o} : otp'[x] = otp[x]
          /\ otp'[o].status = "used"
      BY <2>3 DEF OtpExpires, CompleteTelegram, AccountsTypeOK
    <3> QED
      BY <3>1 DEF OneCode, AttemptsEnd
  <2> QED
    BY <2>1, <2>2, <2>3
<1> QED
  BY <1>1, <1>2, <1>3

\* So does the recovery of an account.
LEMMA RecoveryStep ==
    ASSUME AccountsInv,
           \/ \E p \in Password : ResetWithCode(p)
           \/ SetPassword \/ RevokeSessions \/ RotateCode \/ RecoveryEnds \/ WindowEnds
    PROVE  AccountsInv'
<1> USE DEF AccountsInv
<1>0. UNCHANGED <<challenge, otp, era>>
  BY DEF ResetWithCode, SetPassword, RevokeSessions, RotateCode, RecoveryEnds, WindowEnds
<1>1. AccountsTypeOK'
  <2>1. user' \in [status : UserStatus, password : Password \cup {NoPassword}, verified : BOOLEAN,
                 banned : BOOLEAN, code : BOOLEAN, recovered : {0, 1}]
    BY DEF ResetWithCode, SetPassword, RevokeSessions, RotateCode, RecoveryEnds, WindowEnds,
           AccountsTypeOK, UserStatus
  <2>2. session' \in [Session -> {"none", "open", "closed"}] /\ requests' \in 0..MaxRequests
    BY AccountsAssumption
    DEF ResetWithCode, SetPassword, RevokeSessions, RotateCode, RecoveryEnds, WindowEnds,
           AccountsTypeOK, RevokeAll, AllClosed
  <2>3. recovery' \in [at : Stage, password : Password \cup {NoPassword}]
    BY DEF ResetWithCode, SetPassword, RevokeSessions, RotateCode, RecoveryEnds, WindowEnds,
           AccountsTypeOK, Stage, NoRecovery
  <2> QED
    BY <1>0, <2>1, <2>2, <2>3 DEF AccountsTypeOK
<1>2. OneLink' /\ OneCode' /\ AttemptsEnd'
  BY <1>0 DEF OneCode, AttemptsEnd, OneLink
<1>3. SessionsOfEra'
  BY <1>0 DEF ResetWithCode, SetPassword, RevokeSessions, RotateCode, RecoveryEnds, WindowEnds,
              AccountsTypeOK, SessionsOfEra, RevokeAll, AllClosed, NoRecovery, Quiet
<1> QED
  BY <1>1, <1>2, <1>3

\* So do bans and the other states an administrator sets.
LEMMA AdministrationStep ==
    ASSUME AccountsInv,
           BanEnds \/ \E status \in {"active", "suspended", "blocked", "deleted"} : SetStatus(status)
    PROVE  AccountsInv'
<1> USE DEF AccountsInv
<1>0. /\ UNCHANGED <<challenge, otp, requests, recovery, era>> /\ user'.recovered = user.recovered
      /\ session' = session \/ session' = AllClosed
  BY DEF BanEnds, SetStatus, AccountsTypeOK
<1>1. AccountsTypeOK'
  <2>1. user' \in [status : UserStatus, password : Password \cup {NoPassword}, verified : BOOLEAN,
                 banned : BOOLEAN, code : BOOLEAN, recovered : {0, 1}]
    BY DEF BanEnds, SetStatus, AccountsTypeOK, UserStatus
  <2> QED
    BY <1>0, <2>1 DEF AccountsTypeOK, AllClosed
<1>2. OneLink' /\ OneCode' /\ AttemptsEnd'
  BY <1>0 DEF OneCode, AttemptsEnd, OneLink
<1>3. SessionsOfEra'
  BY <1>0 DEF SessionsOfEra, AllClosed
<1> QED
  BY <1>1, <1>2, <1>3

LEMMA AccountsInvStep == AccountsInv /\ [AccountsNext]_accountVars => AccountsInv'
<1> SUFFICES ASSUME AccountsInv, [AccountsNext]_accountVars PROVE AccountsInv'
  OBVIOUS
<1>1. CASE UNCHANGED accountVars
  BY <1>1 DEF accountVars, AccountsInv, AccountsTypeOK, OneLink, OneCode, AttemptsEnd, SessionsOfEra
<1>2. CASE AccountsNext
  <2>1. CASE \E c \in Challenge : \/ \E p \in Password : Register(c, p)
                                 \/ MarkContact(c) \/ VerifyRegistration(c) \/ LinkExpires(c)
    BY <2>1, RegistrationStep
  <2>2. CASE \E s \in Session : \/ \E p \in Password : Login(s, p)
                               \/ EndSession(s) \/ EnrollCode(s) \/ RegenerateCode(s)
    BY <2>2, SessionStep
  <2>3. CASE \E o \in Otp : \/ BeginTelegram(o) \/ WrongOtp(o) \/ OtpExpires(o)
                           \/ \E p \in Password : CompleteTelegram(o, p)
    BY <2>3, CodeStep
  <2>4. CASE \/ \E p \in Password : ResetWithCode(p)
             \/ SetPassword \/ RevokeSessions \/ RotateCode \/ RecoveryEnds \/ WindowEnds
    BY <2>4, RecoveryStep
  <2>5. CASE BanEnds \/ \E status \in {"active", "suspended", "blocked", "deleted"} : SetStatus(status)
    BY <2>5, AdministrationStep
  <2> QED
    BY <1>2, <2>1, <2>2, <2>3, <2>4, <2>5 DEF AccountsNext
<1> QED
  BY <1>1, <1>2

\* The invariant, without strengthening, and with its sets counted.
LEMMA AccountsInvSound == AccountsInv => AccountsAreSound
<1> SUFFICES ASSUME AccountsInv PROVE AccountsAreSound
  OBVIOUS
<1>1. Cardinality({c \in Challenge : challenge[c] \in Usable}) <= 1
  BY AtMostOne DEF AccountsInv, OneLink
<1>2. Cardinality({o \in Otp : otp[o].status = "open"}) <= 1
  BY AtMostOne DEF AccountsInv, OneCode
<1> QED
  BY <1>1, <1>2 DEF AccountsInv, AccountsAreSound, OneIsUsable, RecoveryClosesSessions, SessionsOfEra

\* Links, codes and sessions of an account end with what they were issued for,
\* wherever the requests that write its rows end (AuthService).
THEOREM AccountsSound ==
    AccountsInit /\ [][AccountsNext]_accountVars => []AccountsAreSound
<1>1. AccountsInit => AccountsInv
  BY AccountsInvInit
<1>2. AccountsInv /\ [AccountsNext]_accountVars => AccountsInv'
  BY AccountsInvStep
<1>3. AccountsInv => AccountsAreSound
  BY AccountsInvSound
<1> QED
  BY <1>1, <1>2, <1>3, PTL
-----------------------------------------------------------------------------
(* The statistics period.                                                   *)

\* Clock ticks are measurements, of which every call makes one at most.
Measurers == {q \in Request : call[q].at \in {"record", "done"}}
Ticks ==
    /\ clock <= Cardinality(Measurers)
    /\ \A p \in Trade : opened[p] <= clock

\* A fill whose row is not stored has its reservation, and a reservation that the
\* profile hides is remembered.
Hidden ==
    /\ \A p \in Trade : position[p] = "filled" => p \in pending
    /\ \A p \in pending : p \notin shown => p \in touched

\* A trade that x counts was opened before x was started, so that a period that
\* is measured when x is recorded, and so starts with Since, does not select it.
Periods ==
    /\ \A x \in periods : x.started <= clock
    /\ \A x \in periods : \A p \in x.counted : position[p] = "closed" /\ opened[p] < x.started
    /\ \A x \in periods : x.known \subseteq Recorded /\ x.id \notin x.known
    /\ \A x, y \in periods : x.id \in y.known => \A p \in Trade : p \in x.counted => p \notin y.counted
    /\ periods # {} => \E r \in periods : \A x \in periods : x.started <= r.started

Uncounted(p) == \A x \in periods : p \notin x.counted

\* A trade that started, and that the receipt of since does not count, moved.
MovedBefore(p, since) == position[p] # "none" /\ opened[p] < since /\ Uncounted(p) => p \in touched
Moved == \A p \in Trade : MovedBefore(p, Since)

\* What a call knows that still has to record what it measured.
Measured(q) ==
    LET m == call[q]
    IN  /\ m.started <= clock
        /\ m.known \subseteq Recorded
        /\ \A p \in m.counted : position[p] = "closed" /\ opened[p] < m.started
        /\ \A x \in periods : x.id \in m.known => \A p \in Trade : p \in x.counted => p \notin m.counted
        /\ \A p \in Trade : p \notin m.counted => MovedBefore(p, m.started)

\* What a call found is still so, of trades that did not move.
Seen(q) == \A p \in Trade :
    /\ Looking(q) /\ position[p] = "open" => p \in touched
    /\ Looking(q) /\ call[q].at # "settling" /\ position[p] = "settling" => p \in touched
    /\ call[q].at \in {"report", "record"} /\ position[p] = "filled" => p \in touched

Calls == \A q \in Request : Seen(q) /\ (call[q].at = "record" => Measured(q))

StatsInv == StatsTypeOK /\ Ticks /\ Hidden /\ Periods /\ Moved /\ Calls

\* The period that CHOOSE finds is the last one to start.
LEMMA SinceIsLast ==
    ASSUME StatsTypeOK, Periods
    PROVE  /\ Since \in Nat /\ Since <= clock
           /\ periods = {} => Since = 0
           /\ \A x \in periods : x.started <= Since
           /\ periods # {} => \E r \in periods : Since = r.started
<1>0. /\ \A x \in periods : x.started \in Nat /\ x.started <= clock
      /\ clock \in Nat
  BY DEF StatsTypeOK, Times, Periods
<1>1. CASE periods = {}
  BY <1>0, <1>1 DEF Since
<1>2. CASE periods # {}
  <2> DEFINE last == CHOOSE r \in periods : \A x \in periods : x.started <= r.started
  <2>1. last \in periods /\ \A x \in periods : x.started <= last.started
    BY <1>2 DEF Periods
  <2>2. Since = last.started
    BY <1>2 DEF Since
  <2> QED
    BY <1>0, <1>2, <2>1, <2>2
<1> QED
  BY <1>1, <1>2

\* Requests that measure are finitely many.
LEMMA MeasurersFinite ==
    /\ IsFiniteSet(Measurers) /\ Cardinality(Measurers) \in Nat
    /\ Cardinality(Measurers) <= Cardinality(Request) /\ Cardinality(Request) \in Nat
<1>1. Measurers \subseteq Request /\ IsFiniteSet(Request)
  BY StatisticsAssumption DEF Measurers
<1> QED
  BY <1>1, FS_Subset, FS_CardinalityType

LEMMA StatsInvInit == StatsInit => StatsInv
<1> SUFFICES ASSUME StatsInit PROVE StatsInv
  OBVIOUS
<1>1. Cardinality(Request) \in Nat /\ Cardinality(Measurers) \in Nat
  BY MeasurersFinite
<1>2. StatsTypeOK
  BY <1>1 DEF StatsInit, StatsTypeOK, Times, At, NoCall
<1>3. Ticks
  BY <1>1 DEF StatsInit, Ticks
<1>4. Hidden /\ Periods /\ Calls
  BY DEF StatsInit, Hidden, Periods, Calls, Seen, Looking, NoCall
<1>5. Moved
  BY DEF StatsInit, Moved, MovedBefore
<1> QED
  BY <1>2, <1>3, <1>4, <1>5 DEF StatsInv

\* The worker's steps and changes of mode: one trade moves, what is recorded stays.
LEMMA WorkerStep ==
    ASSUME StatsInv, NEW p \in Trade,
           \/ Reserve(p) \/ Execute(p) \/ StoreFill(p) \/ Clear(p) \/ Close(p) \/ SettleTrade(p)
           \/ StartSwitch(p) \/ SaveMode(p)
    PROVE  StatsInv'
<1> USE DEF StatsInv
<1>0. UNCHANGED <<clock, periods, call>>
  BY DEF Reserve, Execute, StoreFill, Clear, Close, SettleTrade, Becomes, StartSwitch, SaveMode
<1>1. /\ touched \subseteq touched' /\ touched' \subseteq touched \cup {p}
      /\ Looked /\ (position' # position \/ opened' # opened) => p \in touched'
  BY DEF Reserve, Execute, StoreFill, Clear, Close, SettleTrade, Becomes, StartSwitch, SaveMode, Touch
<1>2. \A x \in Trade \ {p} : position'[x] = position[x] /\ opened'[x] = opened[x]
  BY DEF Reserve, Execute, StoreFill, Clear, Close, SettleTrade, Becomes, StartSwitch, SaveMode,
         StatsTypeOK
<1>3. \/ position' = position /\ opened' = opened
      \/ position[p] = "none" /\ position'[p] = "filled" /\ opened'[p] = clock /\ p \in pending
      \/ position[p] = "filled" /\ position'[p] = "open" /\ opened' = opened
      \/ position[p] \in {"open", "settling"} /\ position'[p] \in {"settling", "closed"} /\ opened' = opened
  BY DEF Reserve, Execute, StoreFill, Clear, Close, SettleTrade, Becomes, StartSwitch, SaveMode,
         StatsTypeOK
<1>4. StatsTypeOK'
  <2>1. /\ pending' \subseteq Trade /\ shown' \subseteq Trade /\ switching' \subseteq Trade
        /\ position' \in [Trade -> {"none", "filled", "open", "settling", "closed"}]
    BY DEF Reserve, Execute, StoreFill, Clear, Close, SettleTrade, Becomes, StartSwitch, SaveMode,
           StatsTypeOK
  <2>2. opened' \in [Trade -> Times]
    BY DEF Reserve, Execute, StoreFill, Clear, Close, SettleTrade, StartSwitch, SaveMode, StatsTypeOK
  <2> QED
    BY <1>0, <1>1, <2>1, <2>2 DEF StatsTypeOK
<1>5. clock \in Nat /\ \A x \in Trade : opened[x] \in Nat
  BY DEF StatsTypeOK, Times
<1>6. Ticks'
  <2>1. \A x \in Trade : opened'[x] = opened[x] \/ opened'[x] = clock
    BY <1>2, <1>3
  <2> QED
    BY <1>0, <1>5, <2>1 DEF Ticks, Measurers
<1>7. Hidden'
  <2>1. \A x \in Trade : position'[x] = "filled" => x \in pending'
    BY DEF Hidden, Reserve, Execute, StoreFill, Clear, Close, SettleTrade, Becomes, StartSwitch,
           SaveMode, StatsTypeOK
  <2>2. ASSUME NEW x \in pending', x \notin shown' PROVE x \in touched'
    <3>1. CASE Reserve(p)
      BY <1>1, <2>2, <3>1 DEF Hidden, Reserve, Touch
    <3>2. CASE SaveMode(p)
      BY <1>1, <2>2, <3>2 DEF Hidden, SaveMode, Touch
    <3>3. CASE ~Reserve(p) /\ ~SaveMode(p)
      <4>1. pending' \subseteq pending /\ shown' = shown
        BY <3>3 DEF Execute, StoreFill, Clear, Close, SettleTrade, Becomes, StartSwitch
      <4> QED
        BY <1>1, <2>2, <4>1 DEF Hidden
    <3> QED
      BY <3>1, <3>2, <3>3
  <2> QED
    BY <2>1, <2>2 DEF Hidden
<1>8. \A x \in Trade : position[x] = "closed" => position'[x] = "closed" /\ opened'[x] = opened[x]
  BY <1>2, <1>3
<1>9. Periods'
  <2>1. \A x \in periods : x.counted \subseteq Trade
    BY DEF StatsTypeOK
  <2> QED
    BY <1>0, <1>8, <2>1 DEF Periods, Recorded
<1>10. \A x \in Trade : Uncounted(x)' <=> Uncounted(x)
  BY <1>0 DEF Uncounted
<1>11. ASSUME NEW s \in Nat, s <= clock, NEW x \in Trade, MovedBefore(x, s)
       PROVE  position'[x] # "none" /\ opened'[x] < s /\ Uncounted(x)' => x \in touched'
  BY <1>1, <1>2, <1>3, <1>5, <1>10, <1>11 DEF MovedBefore
<1>12. Moved'
  <2>1. Since' = Since
    BY <1>0 DEF Since
  <2>2. Since \in Nat /\ Since <= clock
    BY SinceIsLast
  <2> QED
    BY <1>11, <2>1, <2>2 DEF Moved, MovedBefore
<1>13. ASSUME NEW q \in Request PROVE Seen(q)'
  <2>1. Looking(q)' = Looking(q) /\ (Looking(q) => Looked) /\ call' = call
    BY <1>0 DEF Looking, Looked
  <2>2. call[q].at \in {"report", "record"} => Looking(q)
    BY DEF Looking
  <2>3. position'[p] # position[p] => position' # position
    OBVIOUS
  <2> QED
    BY <1>1, <1>2, <2>1, <2>2, <2>3 DEF Calls, Seen
<1>14. ASSUME NEW q \in Request, call[q].at = "record" PROVE Measured(q)'
  <2>1. /\ Measured(q) /\ call[q].started \in Nat /\ call[q].counted \subseteq Trade
        /\ Recorded' = Recorded
    BY <1>0, <1>14 DEF Calls, StatsTypeOK, Times, Recorded
  <2>2. \A x \in Trade : x \notin call[q].counted => MovedBefore(x, call[q].started)'
    BY <1>0, <1>11, <2>1 DEF Measured, MovedBefore
  <2> QED
    BY <1>0, <1>8, <2>1, <2>2 DEF Measured
<1> QED
  BY <1>0, <1>4, <1>6, <1>7, <1>9, <1>12, <1>13, <1>14 DEF Calls

\* The queries of a reset change nothing but where the call is.
LEMMA QueryStep ==
    ASSUME StatsInv, NEW q \in Request,
           Begin(q) \/ CountOpen(q) \/ CountSettling(q) \/ FindPending(q)
    PROVE  StatsInv'
<1> USE DEF StatsInv
<1>0. UNCHANGED <<pending, position, opened, shown, switching, clock, periods, touched>>
  BY DEF Begin, CountOpen, CountSettling, FindPending, Reads, tradeVars
<1>1. PICK at \in At : call' = [call EXCEPT ![q].at = at]
  BY DEF Begin, CountOpen, CountSettling, FindPending, Reads, Goes, At
<1>2. /\ \A r \in Request \ {q} : call'[r] = call[r]
      /\ call'[q].at = at /\ call'[q].started = call[q].started /\ call'[q].counted = call[q].counted
  BY <1>1 DEF StatsTypeOK
<1>3. StatsTypeOK'
  BY <1>0, <1>1 DEF StatsTypeOK
<1>4. /\ call[q].at \notin {"record", "done"}
      /\ at # "record"
  BY <1>2 DEF Begin, CountOpen, CountSettling, FindPending, Reads, Goes, StatsTypeOK
<1>5. Ticks'
  <2>1. Measurers \subseteq Measurers'
    BY <1>2, <1>4 DEF Measurers
  <2>2. Cardinality(Measurers) <= Cardinality(Measurers') /\ Cardinality(Measurers') \in Nat
    <3>1. Measurers' \subseteq Request
      BY DEF Measurers
    <3>2. IsFiniteSet(Measurers')
      BY <3>1, FS_Subset, StatisticsAssumption
    <3> QED
      BY <2>1, <3>2, FS_Subset, FS_CardinalityType
  <2> QED
    BY <1>0, <2>2, MeasurersFinite DEF Ticks, StatsTypeOK, Times
<1>6. Hidden' /\ Periods' /\ Moved'
  BY <1>0 DEF Hidden, Periods, Recorded, Moved, MovedBefore, Uncounted, Since
<1>8. Seen(q)'
  <2>1. CASE Begin(q)
    <3>1. at \in {"open", "done"}
      BY <2>1, <1>2 DEF Begin, Reads, Goes, StatsTypeOK
    <3> QED
      BY <1>2, <3>1 DEF Seen, Looking
  <2>2. CASE CountOpen(q)
    <3>1. at = "refused" \/ (at = "settling" /\ \A p \in Trade : position[p] # "open")
      BY <2>2, <1>2 DEF CountOpen, Reads, Goes, With, StatsTypeOK
    <3> QED
      BY <1>0, <1>2, <3>1 DEF Seen, Looking
  <2>3. CASE CountSettling(q)
    <3>1. at = "refused" \/ (at = "pending" /\ \A p \in Trade : position[p] # "settling")
      BY <2>3, <1>2 DEF CountSettling, Reads, Goes, With, StatsTypeOK
    <3>2. call[q].at = "settling"
      BY <2>3 DEF CountSettling
    <3> QED
      BY <1>0, <1>2, <3>1, <3>2 DEF Seen, Looking, Calls
  <2>4. CASE FindPending(q)
    <3>1. /\ call[q].at = "pending" /\ at \in {"refused", "report"}
          /\ at = "report" => pending \cap shown = {}
      BY <2>4, <1>2 DEF FindPending, Reads, Goes, StatsTypeOK
    <3>2. at = "report" => \A p \in Trade : position[p] = "filled" => p \in touched
      BY <3>1 DEF Hidden
    <3> QED
      BY <1>0, <1>2, <3>1, <3>2 DEF Seen, Looking, Calls
  <2> QED
    BY <2>1, <2>2, <2>3, <2>4
<1>9. \A r \in Request \ {q} : Seen(r)' /\ (call'[r].at = "record" => Measured(r)')
  BY <1>0, <1>2 DEF Calls, Seen, Looking, Measured, MovedBefore, Uncounted, Recorded
<1> QED
  BY <1>2, <1>3, <1>4, <1>5, <1>6, <1>8, <1>9 DEF Calls

\* A measurement keeps the invariant of the statistics.
LEMMA MeasureStep ==
    ASSUME StatsInv, NEW q \in Request, Measure(q)
    PROVE  StatsInv'
<1> USE DEF StatsInv
<1>0. UNCHANGED <<pending, position, opened, shown, switching, periods, touched>> /\ clock' = clock + 1
  BY DEF Measure, tradeVars
<1>1. /\ \A r \in Request \ {q} : call'[r] = call[r]
      /\ call[q].at = "report"
      /\ call'[q] = [at |-> "record", started |-> clock + 1, counted |-> Selected,
                   known |-> Recorded]
  BY DEF Measure, StatsTypeOK
<1>2. clock \in Nat /\ (\A p \in Trade : opened[p] \in Nat) /\ Selected \subseteq Trade
  BY DEF StatsTypeOK, Times, Selected, With
<1>3. clock + 1 <= Cardinality(Measurers') /\ Cardinality(Measurers') <= Cardinality(Request)
      /\ Cardinality(Measurers') \in Nat
  <2>1. Measurers' = Measurers \cup {q} /\ q \notin Measurers
    BY <1>1 DEF Measurers
  <2>2. Cardinality(Measurers') = Cardinality(Measurers) + 1
    BY <2>1, MeasurersFinite, FS_AddElement
  <2>3. Measurers' \subseteq Request /\ IsFiniteSet(Request)
    BY StatisticsAssumption DEF Measurers
  <2> QED
    BY <1>2, <2>2, <2>3, MeasurersFinite, FS_Subset DEF Ticks
<1>4. StatsTypeOK'
  <2>1. clock + 1 \in Times
    BY <1>2, <1>3, MeasurersFinite DEF Times
  <2>2. call' \in [Request -> [at : At, started : Times, counted : SUBSET Trade, known : SUBSET Id]]
    <3>1. Recorded \subseteq Id
      BY DEF StatsTypeOK, Recorded
    <3> QED
      BY <1>2, <2>1, <3>1 DEF Measure, StatsTypeOK, At
  <2> QED
    BY <1>0, <2>1, <2>2 DEF StatsTypeOK
<1>5. Ticks'
  BY <1>0, <1>2, <1>3 DEF Ticks
<1>7. Hidden' /\ Periods' /\ Moved'
  <2>1. \A x \in periods : x.started \in Nat
    BY DEF StatsTypeOK, Times
  <2> QED
    BY <1>0, <1>2, <2>1 DEF Hidden, Periods, Recorded, Moved, MovedBefore, Uncounted, Since
<1>8. Seen(q)'
  BY <1>0, <1>1 DEF Seen, Looking, Calls
<1>9. Measured(q)'
  <2>1. /\ Since \in Nat /\ \A x \in periods : x.started <= Since /\ x.started \in Nat /\ x.started <= clock
    BY SinceIsLast DEF StatsTypeOK, Times, Periods
  <2>2. \A p \in Selected : position[p] = "closed" /\ opened[p] < clock + 1 /\ opened[p] >= Since
    BY <1>2, <2>1 DEF Selected, With, Ticks
  <2>3. \A x \in periods : \A p \in x.counted : p \notin Selected
    <3>1. \A x \in periods : \A p \in x.counted : p \in Trade /\ opened[p] < x.started
      BY DEF Periods, StatsTypeOK
    <3> QED
      BY <1>2, <2>1, <2>2, <3>1
  <2>4. ASSUME NEW p \in Trade, p \notin Selected, position[p] # "none", Uncounted(p)
        PROVE  p \in touched
    <3>1. CASE position[p] = "closed"
      <4>1. opened[p] < Since
        BY <1>2, <2>1, <2>4, <3>1 DEF Selected, With
      <4> QED
        BY <2>4, <4>1 DEF Moved, MovedBefore
    <3>2. CASE position[p] # "closed"
      <4>1. position[p] \in {"filled", "open", "settling"}
        BY <2>4, <3>2 DEF StatsTypeOK
      <4> QED
        BY <1>1, <4>1 DEF Calls, Seen, Looking
    <3> QED
      BY <3>1, <3>2
  <2> QED
    BY <1>0, <1>1, <1>2, <2>2, <2>3, <2>4 DEF Measured, MovedBefore, Uncounted, Recorded
<1>10. ASSUME NEW r \in Request \ {q} PROVE Seen(r)' /\ (call'[r].at = "record" => Measured(r)')
  <2>1. Seen(r)'
    BY <1>0, <1>1 DEF Calls, Seen, Looking
  <2>2. ASSUME call[r].at = "record" PROVE Measured(r)'
    <3>1. Measured(r) /\ call[r].started \in Nat
      BY <2>2 DEF Calls, StatsTypeOK, Times
    <3> QED
      BY <1>0, <1>1, <1>2, <3>1 DEF Measured, MovedBefore, Uncounted, Recorded
  <2> QED
    BY <1>1, <2>1, <2>2
<1> QED
  BY <1>4, <1>5, <1>7, <1>8, <1>9, <1>10 DEF Calls

\* A record of a call that another one repeated changes no period; else the
\* period is the last one from now on.
LEMMA RecordStep ==
    ASSUME StatsInv, NEW q \in Request, Record(q)
    PROVE  StatsInv'
<1> USE DEF StatsInv
<1> DEFINE new == Receipt(q)
<1>0. /\ UNCHANGED <<pending, position, opened, shown, switching, clock, touched>>
      /\ periods' = IF ResetId(q) \in Recorded THEN periods ELSE periods \cup {new}
  BY DEF Record, tradeVars
<1>1. /\ \A r \in Request \ {q} : call'[r] = call[r]
      /\ call[q].at = "record" /\ call'[q].at = "done"
  BY DEF Record, Goes, StatsTypeOK
<1>2. /\ clock \in Nat /\ \A x \in periods : x.started \in Nat
      /\ call[q].started \in Nat /\ call[q].counted \subseteq Trade
      /\ \A p \in Trade : opened[p] \in Nat
  BY DEF StatsTypeOK, Times
<1>3. Measured(q)
  BY <1>1 DEF Calls
<1>4. StatsTypeOK'
  <2>1. new \in [id : Id, started : Times, counted : SUBSET Trade, known : SUBSET Id]
    BY DEF StatsTypeOK, Id, Receipt
  <2>2. periods' \subseteq [id : Id, started : Times, counted : SUBSET Trade, known : SUBSET Id]
    BY <1>0, <2>1 DEF StatsTypeOK
  <2>3. call' \in [Request -> [at : At, started : Times, counted : SUBSET Trade, known : SUBSET Id]]
    BY DEF Record, Goes, StatsTypeOK, At
  <2> QED
    BY <1>0, <2>2, <2>3 DEF StatsTypeOK
<1>5. Ticks'
  <2>1. Measurers' = Measurers
    BY <1>1 DEF Measurers
  <2> QED
    BY <1>0, <2>1 DEF Ticks
<1>6. Hidden'
  BY <1>0 DEF Hidden
<1>7. \A r \in Request : Seen(r)'
  BY <1>0, <1>1 DEF Calls, Seen, Looking
<1>8. CASE ResetId(q) \in Recorded
  <2>1. periods' = periods
    BY <1>0, <1>8
  <2>2. Periods' /\ Moved'
    BY <1>0, <2>1 DEF Periods, Recorded, Moved, MovedBefore, Uncounted, Since
  <2>3. \A r \in Request : call'[r].at = "record" => Measured(r)'
    BY <1>0, <1>1, <2>1 DEF Calls, Measured, MovedBefore, Uncounted, Recorded
  <2> QED
    BY <1>4, <1>5, <1>6, <1>7, <2>2, <2>3 DEF Calls
<1>9. CASE ResetId(q) \notin Recorded
  <2>1. /\ periods' = periods \cup {new} /\ Recorded' = Recorded \cup {ResetId(q)}
        /\ new.id = ResetId(q) /\ new.started = call[q].started
        /\ new.counted = call[q].counted /\ new.known = call[q].known
    <3>1. periods' = periods \cup {new}
      BY <1>0, <1>9
    <3>2. /\ new.id = ResetId(q) /\ new.started = call[q].started
          /\ new.counted = call[q].counted /\ new.known = call[q].known
      BY DEF Receipt
    <3>3. Recorded' = {r.id : r \in periods'}
      BY DEF Recorded
    <3> HIDE DEF new
    <3>4. \A i : i \in Recorded' <=> i \in Recorded \cup {ResetId(q)}
      BY <3>1, <3>2, <3>3 DEF Recorded
    <3>5. Recorded' = Recorded \cup {ResetId(q)}
      BY <3>4
    <3> QED
      BY <3>1, <3>2, <3>5
  <2>2. Periods'
    <3>1. \A x \in periods' : x.started <= clock
      BY <1>3, <2>1 DEF Periods, Measured
    <3>2. \A x \in periods' : \A p \in x.counted : position[p] = "closed" /\ opened[p] < x.started
      BY <1>3, <2>1 DEF Periods, Measured
    <3>3. \A x \in periods' : x.known \subseteq Recorded
      BY <1>3, <2>1 DEF Periods, Measured
    <3>4. \A x \in periods' : x.known \subseteq Recorded' /\ x.id \notin x.known
      BY <1>9, <2>1, <3>3 DEF Periods
    <3>5. \A x, y \in periods' : x.id \in y.known => \A p \in Trade : p \in x.counted => p \notin y.counted
      BY <1>3, <1>9, <2>1, <3>3 DEF Periods, Measured
    <3>6. \E r \in periods' : \A x \in periods' : x.started <= r.started
      <4>1. CASE periods = {}
        BY <1>2, <2>1, <4>1
      <4>2. CASE periods # {}
        <5>1. PICK r \in periods : \A x \in periods : x.started <= r.started
          BY <4>2 DEF Periods
        <5>2. CASE r.started <= new.started
          BY <1>2, <2>1, <5>1, <5>2
        <5>3. CASE ~(r.started <= new.started)
          BY <1>2, <2>1, <5>1, <5>3
        <5> QED
          BY <5>2, <5>3
      <4> QED
        BY <4>1, <4>2
    <3> QED
      BY <1>0, <3>1, <3>2, <3>4, <3>5, <3>6 DEF Periods
  <2>3. \A p \in Trade : Uncounted(p)' => Uncounted(p) /\ p \notin call[q].counted
    BY <2>1 DEF Uncounted
  <2>4. Since' = call[q].started \/ Since' = Since
    <3>1. PICK x \in periods' : Since' = x.started /\ \A y \in periods' : y.started <= x.started
      <4> DEFINE last == CHOOSE r \in periods' : \A y \in periods' : y.started <= r.started
      <4>1. periods' # {}
        BY <2>1
      <4>2. last \in periods' /\ \A y \in periods' : y.started <= last.started
        BY <2>2, <4>1 DEF Periods
      <4>3. Since' = last.started
        BY <4>1 DEF Since
      <4> QED
        BY <4>2, <4>3
    <3>2. CASE x = new
      BY <2>1, <3>1, <3>2
    <3>3. CASE x # new
      <4>1. x \in periods /\ \A y \in periods : y.started <= x.started
        BY <2>1, <3>1, <3>3
      <4>2. \E r \in periods : Since = r.started /\ \A y \in periods : y.started <= Since
        BY <4>1, SinceIsLast
      <4>3. Since = x.started
        BY <1>2, <4>1, <4>2
      <4> QED
        BY <3>1, <4>3
    <3> QED
      BY <3>2, <3>3
  <2>5. Moved'
    <3>1. ASSUME NEW p \in Trade, position[p] # "none", opened[p] < Since', Uncounted(p)'
          PROVE  p \in touched
      <4>1. p \notin call[q].counted /\ Uncounted(p)
        BY <2>3, <3>1
      <4>2. MovedBefore(p, call[q].started) /\ MovedBefore(p, Since)
        BY <1>3, <4>1 DEF Measured, Moved
      <4> QED
        BY <2>4, <3>1, <4>1, <4>2 DEF MovedBefore
    <3> QED
      BY <1>0, <3>1 DEF Moved, MovedBefore
  <2>6. ASSUME NEW r \in Request, call'[r].at = "record" PROVE Measured(r)'
    <3>1. r # q /\ call'[r] = call[r] /\ Measured(r)
      BY <1>1, <2>6 DEF Calls
    <3>2. ResetId(q) \notin call[r].known
      BY <1>9, <3>1 DEF Measured
    <3>3. \A x \in periods' : x.id \in call[r].known
                              => \A p \in Trade : p \in x.counted => p \notin call[r].counted
      BY <2>1, <3>1, <3>2 DEF Measured
    <3> QED
      BY <1>0, <2>1, <2>3, <3>1, <3>3 DEF Measured, MovedBefore
  <2> QED
    BY <1>4, <1>5, <1>6, <1>7, <2>2, <2>5, <2>6 DEF Calls
<1> QED
  BY <1>8, <1>9

LEMMA StatsInvStep == StatsInv /\ [StatsNext]_statsVars => StatsInv'
<1> SUFFICES ASSUME StatsInv, [StatsNext]_statsVars PROVE StatsInv'
  OBVIOUS
<1>1. CASE UNCHANGED statsVars
  BY <1>1 DEF statsVars, tradeVars, StatsInv, StatsTypeOK, Ticks, Measurers, Hidden, Periods, Recorded,
              Moved, MovedBefore, Uncounted, Since, Calls, Seen, Looking, Measured
<1>2. CASE StatsNext
  BY <1>2, WorkerStep, QueryStep, MeasureStep, RecordStep DEF StatsNext
<1> QED
  BY <1>1, <1>2

LEMMA StatsInvSafe == StatsInv => StatsSafe
<1> SUFFICES ASSUME StatsInv PROVE StatsSafe
  OBVIOUS
<1>1. SuccessorsAreDisjoint
  <2>1. \A x \in periods : x.counted \subseteq Trade
    BY DEF StatsInv, StatsTypeOK
  <2> QED
    BY <2>1 DEF SuccessorsAreDisjoint, StatsInv, Periods
<1>2. MissedWasMoving
  BY DEF MissedWasMoving, Missed, Counted, StatsInv, Moved, MovedBefore, Uncounted
<1> QED
  BY <1>1, <1>2 DEF StatsInv, StatsSafe

\* However any number of resets overlap, with each other, with the worker and with
\* changes of mode: a settled trade is in no statistics only if it moved while a
\* reset looked at it, or was reserved while its profile was leaving LIVE; and a
\* period shares no trade with one that was recorded when it was measured
\* (TradingStatistics.reset).
THEOREM StatisticsSafe ==
    StatsInit /\ [][StatsNext]_statsVars => []StatsSafe
<1>1. StatsInit => StatsInv
  BY StatsInvInit
<1>2. StatsInv /\ [StatsNext]_statsVars => StatsInv'
  BY StatsInvStep
<1>3. StatsInv => StatsSafe
  BY StatsInvSafe
<1> QED
  BY <1>1, <1>2, <1>3, PTL
-----------------------------------------------------------------------------
(* Billing.                                                                 *)

OrderRow == [status : Status, left : -(Grace + 1)..Window, hash : Tx \cup {NoTx},
             timely : BOOLEAN, key : BOOLEAN]
UserRow == [used : BOOLEAN, trial : Nat, sub : Nat, manual : Nat, rewarded : BOOLEAN]
ServedRow == [at : Step, order : Order \cup {0}, hash : Tx \cup {NoTx}, flag : BOOLEAN,
              expires : Nat, todo : [Order -> Write], stale : SUBSET (Order \cup User)]

Dropped == {"EXPIRED", "CANCELLED_DUPLICATE"}
InTime(r) == r.timely /\ r.left >= -Grace

\* An active order has the slot, unless requests raced for its row.
Keyed(o) == o \in raced \/ orders[o].status \notin Active \/ orders[o].key

\* Another order is paid that an older build or a race has left.
Rivalled(o) == \E x \in Order \ {o} : x \in legacy \cup raced /\ orders[x].hash # NoTx

\* The slot of active_order_key.  An active order without it is one of an older
\* build, and this build has made none as long as there is such an order.
Slots ==
    /\ \A x, y \in Order : orders[x].key /\ orders[y].key => x = y
    /\ \A x \in Order \ legacy : Keyed(x)
    /\ (\E x \in Order \ legacy : orders[x].status # "none") => \A x \in Order : Keyed(x)
    /\ \A x \in Order : orders[x].status = "AWAITING_PAYMENT" => ~orders[x].timely
    /\ \A x \in Order : orders[x].timely => orders[x].hash # NoTx
    /\ \A x \in Order : orders[x].key \/ orders[x].hash # NoTx => orders[x].status # "none"

\* What request q is about to write to the row of o, by what it read of it.
ReadsRow(q, o) ==
    LET r == orders[o]
        w == req[q].todo[o]
    IN  /\ req[q].at = "rows" /\ w # "keep" => r.status # "none"
        /\ req[q].at = "rows" /\ o \notin req[q].stale =>
              /\ w = "release" => r.status \notin Active
              /\ w \in {"take", "cancel"} => r.status \in Active
              /\ w = "cancel" /\ o \notin raced /\ r.hash # NoTx => Rivalled(o)
              /\ w = "expire" => r.status # "CONFIRMED" /\ (InTime(r) => r.status \in Dropped)
        /\ req[q].at \in {"submit", "verify", "confirm", "grant"} /\ req[q].order = o
              => r.status # "none"
        /\ req[q].at \in {"submit", "verify", "confirm"} /\ req[q].order = o /\ o \notin req[q].stale
              => r.status # "CONFIRMED"

\* A request that inserts an order has seen to those without the slot.
Serves(q) ==
    /\ req[q].at \in {"submit", "verify", "confirm", "grant"} => req[q].order \in Order
    /\ req[q].at = "submit" => req[q].hash \in Tx
    /\ req[q].at = "insert" => \A o \in Order : Keyed(o)
    /\ req[q].at = "rows" /\ req[q].flag => \A o \in Order : Keyed(o) \/ req[q].todo[o] = "expire"

KnowsOrders(q) == Serves(q) /\ \A o \in Order : ReadsRow(q, o)

\* What request q read of the payer's row.
KnowsPayer(q) == Payer \notin req[q].stale =>
    /\ req[q].at \in {"confirm", "grant"} => req[q].expires = acct[Payer].sub + Days
    /\ req[q].at \in {"confirm", "grant", "reward"} /\ req[q].flag => ~acct[Payer].rewarded

Grants == \A o \in Order \ raced :
    /\ grants[o] \in {0, 1}
    /\ grants[o] = 1 => orders[o].status = "CONFIRMED"
    /\ \A q \in Client : req[q].at = "grant" /\ req[q].order = o =>
          /\ orders[o].status = "CONFIRMED" /\ grants[o] = 0
          /\ \A c \in Client \ {q} : ~(req[c].at = "grant" /\ req[c].order = o)
    /\ orders[o].status = "CONFIRMED" =>
          grants[o] = 1 \/ o \in lost \/ \E q \in Client : req[q].at = "grant" /\ req[q].order = o

\* The days of the one CONFIRMED order whose days are still to be written.
Sums == raced = {} /\ lost = {} =>
    /\ (\A q \in Client : req[q].at # "grant") => acct[Payer].sub = bought
    /\ \A q \in Client :
          /\ req[q].at = "grant" /\ Payer \notin req[q].stale
          /\ \A c \in Client \ {q} : req[c].at # "grant"
          => bought = acct[Payer].sub + Days

Rewards == Payer \notin raced =>
    /\ \A q, c \in Client : req[q].at = "settle" /\ req[c].at = "settle" => q = c
    /\ acct[Payer].rewarded => \A q \in Client : req[q].at # "settle"
    /\ rewards <= cut + 1
    /\ ~acct[Payer].rewarded /\ (\A q \in Client : req[q].at # "settle") => rewards <= cut

BillingInv ==
    /\ BillingTypeOK /\ Slots /\ InTimeKept
    /\ \A q \in Client : KnowsOrders(q) /\ KnowsPayer(q)
    /\ Grants /\ Sums /\ Rewards

LEMMA BillingConstants ==
    /\ MaxOrders \in Nat /\ MaxGrants \in Nat
    /\ Days \in Nat /\ Days > 0 /\ RewardDays \in Nat /\ RewardDays > 0
    /\ TrialDays \in Nat /\ TrialDays > 0 /\ Window \in Nat /\ Window > 0
    /\ Grace \in Nat /\ Grace > 0
    /\ Payer # Referrer /\ NoTx \notin Tx /\ Payer \notin Order /\ Referrer \notin Order
    /\ Payer \in User /\ Referrer \in User /\ 0 \notin Order
  BY BillingAssumption DEF User, Order

\* The type invariant, row by row.
LEMMA BillingTyped ==
    BillingTypeOK <=>
        /\ acct \in [User -> UserRow] /\ orders \in [Order -> OrderRow]
        /\ req \in [Client -> ServedRow]
        /\ legacy \subseteq Order /\ lost \subseteq Order /\ raced \subseteq Order \cup User
        /\ bought \in Nat /\ grants \in [Order -> Nat] /\ rewards \in Nat /\ cut \in Nat
  BY DEF BillingTypeOK, UserRow, OrderRow, ServedRow

LEMMA RowsTyped ==
    /\ NoOrder \in OrderRow /\ Legacy \in OrderRow /\ NewUser \in UserRow
    /\ Idle \in ServedRow /\ Nothing \in [Order -> Write]
    /\ [Legacy EXCEPT !.key = TRUE] \in OrderRow
<1>1. 0 \in -(Grace + 1)..Window /\ Window \in -(Grace + 1)..Window
  BY BillingConstants
<1>2. NoOrder \in OrderRow /\ Legacy \in OrderRow /\ [Legacy EXCEPT !.key = TRUE] \in OrderRow
  BY <1>1 DEF NoOrder, Legacy, OrderRow, Status, Active, Ended
<1>3. NewUser \in UserRow
  BY DEF NewUser, UserRow
<1>4. Nothing \in [Order -> Write]
  BY DEF Nothing, Write
<1>5. Idle \in ServedRow
  BY <1>4 DEF Idle, ServedRow, Step
<1> QED
  BY <1>2, <1>3, <1>4, <1>5

LEMMA BillingInvInit == BillingInit => BillingInv
<1> SUFFICES ASSUME BillingInit PROVE BillingInv
  OBVIOUS
<1>1. /\ acct = [u \in User |-> NewUser] /\ req = [q \in Client |-> Idle]
      /\ bought = 0 /\ grants = [o \in Order |-> 0] /\ rewards = 0
      /\ raced = {} /\ lost = {} /\ cut = 0 /\ legacy \subseteq Order
  BY DEF BillingInit
<1>p. PICK paid \in SUBSET legacy, t \in Tx :
        orders = [o \in Order |->
                    IF o \in paid
                    THEN [Legacy EXCEPT !.status = "VERIFYING", !.hash = t, !.timely = TRUE]
                    ELSE IF o \in legacy THEN Legacy ELSE NoOrder]
  BY DEF BillingInit
<1>2. \A o \in Order :
        /\ orders[o].key = FALSE
        /\ \/ /\ orders[o].status = "none" /\ o \notin legacy
              /\ orders[o].hash = NoTx /\ orders[o].timely = FALSE
           \/ orders[o].status = "AWAITING_PAYMENT" /\ orders[o].timely = FALSE /\ o \in legacy
           \/ orders[o].status = "VERIFYING" /\ orders[o].hash = t /\ o \in legacy
  BY <1>p DEF NoOrder, Legacy
<1>3. BillingTypeOK
  <2>1. \A r \in OrderRow : [r EXCEPT !.status = "VERIFYING", !.hash = t, !.timely = TRUE] \in OrderRow
    BY DEF OrderRow, Status, Active
  <2>2. orders \in [Order -> OrderRow]
    BY <1>p, <2>1, RowsTyped
  <2>3. acct \in [User -> UserRow] /\ req \in [Client -> ServedRow]
    BY <1>1, RowsTyped
  <2> QED
    BY <1>1, <2>2, <2>3, BillingTyped
<1>4. Slots
  BY <1>2, BillingConstants DEF Slots, Keyed, Active
<1>5. InTimeKept
  BY <1>2 DEF InTimeKept
<1>6. \A q \in Client : req[q].at = "idle"
  BY <1>1 DEF Idle
<1>7. \A q \in Client : KnowsOrders(q) /\ KnowsPayer(q)
  BY <1>6 DEF KnowsOrders, Serves, ReadsRow, KnowsPayer
<1>8. acct[Payer].sub = 0 /\ acct[Payer].rewarded = FALSE
  BY <1>1, BillingConstants DEF NewUser
<1>9. Grants /\ Sums /\ Rewards
  <2>1. \A o \in Order : grants[o] = 0 /\ orders[o].status # "CONFIRMED"
    BY <1>1, <1>2
  <2>2. Grants
    BY <1>6, <2>1 DEF Grants
  <2>3. Sums /\ Rewards
    BY <1>1, <1>6, <1>8 DEF Sums, Rewards
  <2> QED
    BY <2>2, <2>3
<1> QED
  BY <1>3, <1>4, <1>5, <1>7, <1>9 DEF BillingInv

\* What the other requests know of a write: nothing.
LEMMA OthersGoOn ==
    ASSUME BillingTypeOK, NEW q \in Client, NEW r \in ServedRow,
           NEW X \in SUBSET (Order \cup User), Proceeds(q, r, X)
    PROVE  /\ req' \in [Client -> ServedRow] /\ req'[q] = r
           /\ \A c \in Client \ {q} :
                 /\ req'[c].at = req[c].at /\ req'[c].order = req[c].order
                 /\ req'[c].hash = req[c].hash
                 /\ req'[c].flag = req[c].flag /\ req'[c].expires = req[c].expires
                 /\ req'[c].todo = req[c].todo
                 /\ req[c].stale \subseteq req'[c].stale
                 /\ req[c].at # "idle" => req'[c].stale = req[c].stale \cup X
<1>1. req \in [Client -> ServedRow]
  BY BillingTyped
<1>2. \A c \in Client : LET w == [req[c] EXCEPT !.stale = @ \cup X]
        IN /\ w \in ServedRow /\ w.at = req[c].at /\ w.order = req[c].order
           /\ w.hash = req[c].hash
           /\ w.flag = req[c].flag /\ w.expires = req[c].expires /\ w.todo = req[c].todo
           /\ w.stale = req[c].stale \cup X
  BY <1>1 DEF ServedRow
<1>3. \A c \in Client : req'[c] = IF c = q THEN r ELSE IF req[c].at = "idle" THEN req[c]
                                  ELSE [req[c] EXCEPT !.stale = @ \cup X]
  BY DEF Proceeds
<1>4. req' \in [Client -> ServedRow]
  BY <1>1, <1>2 DEF Proceeds
<1> QED
  BY <1>2, <1>3, <1>4

\* What may be made of the row of o: it is not forgotten, gets the slot only when
\* it is free, and loses it, as far as nobody raced, only with its order.
Turns(o, n) ==
    /\ n \in OrderRow
    /\ orders[o].hash # NoTx => n.hash # NoTx
    /\ n.status = "AWAITING_PAYMENT" => ~n.timely
    /\ n.key => orders[o].key \/ ~SlotTaken(o)
    /\ n.key \/ n.hash # NoTx => n.status # "none"
    /\ n.timely => n.hash # NoTx
    /\ n.status = "none" => orders[o].status = "none"
    /\ orders[o].status = "none" => n.status = "none" \/ \A x \in Order : Keyed(x)
    /\ o \notin raced' =>
          /\ n.status \in Active => n.key \/ (orders[o].status \in Active /\ (orders[o].key => n.key))
          /\ InTime(n) /\ n.status \in Dropped => Rivalled(o)

\* A write to a row keeps what is known of the rows.
LEMMA RowWritten ==
    ASSUME BillingInv, NEW q \in Client, NEW o \in Order, NEW n, NEW r \in ServedRow,
           WriteOrder(q, o, n, r), Turns(o, n), UNCHANGED legacy
    PROVE  /\ Slots' /\ InTimeKept'
           /\ \A x \in Order : Keyed(x) => Keyed(x)'
           /\ \A x \in Order : Rivalled(x) => Rivalled(x)'
           /\ \A c \in Client \ {q} : KnowsOrders(c)'
<1> DEFINE X == IF n = orders[o] THEN {} ELSE {o}
<1>1. BillingTypeOK /\ Slots /\ InTimeKept /\ (\A c \in Client : KnowsOrders(c))
  BY DEF BillingInv
<1>2. /\ orders' = [orders EXCEPT ![o] = n] /\ Proceeds(q, r, X)
      /\ raced' = raced \cup ({o} \cap req[q].stale) /\ legacy' = legacy
  BY DEF WriteOrder
<1>3. orders \in [Order -> OrderRow] /\ n \in OrderRow
  BY <1>1, BillingTyped DEF Turns
<1>4. orders'[o] = n /\ \A x \in Order \ {o} : orders'[x] = orders[x]
  BY <1>2, <1>3
<1>5. X \in SUBSET (Order \cup User)
  OBVIOUS
<1>6. \A c \in Client \ {q} :
         /\ req'[c].at = req[c].at /\ req'[c].order = req[c].order
         /\ req'[c].hash = req[c].hash
         /\ req'[c].flag = req[c].flag /\ req'[c].expires = req[c].expires
         /\ req'[c].todo = req[c].todo
         /\ req[c].stale \subseteq req'[c].stale
         /\ req[c].at # "idle" => req'[c].stale = req[c].stale \cup X
  <2> HIDE DEF X
  <2> QED
    BY <1>1, <1>2, <1>5, OthersGoOn
<1>7. raced \subseteq raced' /\ \A x \in Order \ {o} : x \in raced' <=> x \in raced
  BY <1>2
<1>8. ASSUME NEW x \in Order, Keyed(x) PROVE Keyed(x)'
  BY <1>4, <1>7, <1>8 DEF Keyed, Turns
<1>9. ASSUME NEW x \in Order, Rivalled(x) PROVE Rivalled(x)'
  <2>1. PICK y \in Order \ {x} : y \in legacy \cup raced /\ orders[y].hash # NoTx
    BY <1>9 DEF Rivalled
  <2>2. orders'[y].hash # NoTx
    BY <1>4, <2>1 DEF Turns
  <2> QED
    BY <1>2, <1>7, <2>1, <2>2 DEF Rivalled
<1>10. Slots'
  <2>1. \A x, y \in Order : orders'[x].key /\ orders'[y].key => x = y
    BY <1>1, <1>4 DEF Slots, Turns, SlotTaken
  <2>2. \A x \in Order \ legacy : Keyed(x)'
    BY <1>1, <1>8 DEF Slots
  <2>3. (\E x \in Order \ legacy : orders'[x].status # "none") => \A x \in Order : Keyed(x)'
    <3>1. (\E x \in Order \ legacy : orders'[x].status # "none")
             => \/ \E x \in Order \ legacy : orders[x].status # "none"
                \/ \A x \in Order : Keyed(x)
      BY <1>4 DEF Turns
    <3> QED
      BY <1>1, <1>8, <3>1 DEF Slots
  <2>4. \A x \in Order : orders'[x].status = "AWAITING_PAYMENT" => ~orders'[x].timely
    BY <1>1, <1>4 DEF Slots, Turns
  <2>6. \A x \in Order : orders'[x].timely => orders'[x].hash # NoTx
    BY <1>1, <1>4 DEF Slots, Turns
  <2>5. \A x \in Order : orders'[x].key \/ orders'[x].hash # NoTx => orders'[x].status # "none"
    BY <1>1, <1>4 DEF Slots, Turns
  <2> QED
    BY <1>2, <2>1, <2>2, <2>3, <2>4, <2>5, <2>6 DEF Slots
<1>11. InTimeKept'
  <2> SUFFICES ASSUME NEW x \in Order \ raced', InTime(orders'[x]), orders'[x].status \in Dropped
               PROVE  Rivalled(x)'
    BY <1>2 DEF InTimeKept, InTime, Dropped, Rivalled
  <2>1. Rivalled(x)
    BY <1>1, <1>4, <1>7 DEF InTimeKept, InTime, Dropped, Rivalled, Turns
  <2> QED
    BY <1>9, <2>1
<1>12. ASSUME NEW c \in Client \ {q} PROVE KnowsOrders(c)'
  <2>1. KnowsOrders(c)
    BY <1>1
  <2>2. Serves(c)'
    BY <1>6, <1>8, <2>1 DEF KnowsOrders, Serves
  <2>3. ASSUME NEW x \in Order PROVE ReadsRow(c, x)'
    <3>1. ReadsRow(c, x)
      BY <2>1 DEF KnowsOrders
    <3>2. CASE orders'[x] = orders[x]
      BY <1>6, <1>7, <1>9, <3>1, <3>2 DEF ReadsRow
    <3>3. CASE orders'[x] # orders[x]
      <4>1. x = o /\ (req[c].at # "idle" => o \in req'[c].stale)
        BY <1>4, <1>6, <3>3
      <4>2. orders'[x].status = "none" => orders[x].status = "none"
        BY <1>4, <4>1 DEF Turns
      <4> QED
        BY <1>6, <3>1, <4>1, <4>2 DEF ReadsRow
    <3> QED
      BY <3>2, <3>3
  <2> QED
    BY <2>2, <2>3 DEF KnowsOrders
<1> QED
  BY <1>8, <1>9, <1>10, <1>11, <1>12

\* While no request enters or leaves the steps that move it, the money stands.
LEMMA MoneyKept ==
    ASSUME BillingInv, NEW q \in Client, req' \in [Client -> ServedRow],
           UNCHANGED <<acct, bought, grants, rewards, lost, cut>>, raced \subseteq raced',
           \A c \in Client : /\ req'[c].at \in {"grant", "settle"} <=> req[c].at \in {"grant", "settle"}
                             /\ req[c].at \in {"grant", "settle"} =>
                                   req'[c].at = req[c].at /\ req'[c].order = req[c].order,
           \A c \in Client : req[c].stale \subseteq req'[c].stale \/ req[c].at # "grant",
           \A o \in Order \ raced' : orders'[o].status = "CONFIRMED" <=> orders[o].status = "CONFIRMED"
    PROVE  Grants' /\ Sums' /\ Rewards'
<1>0. Grants /\ Sums /\ Rewards
  BY DEF BillingInv
<1>1. \A c \in Client : /\ req'[c].at = "grant" <=> req[c].at = "grant"
                        /\ req'[c].at = "settle" <=> req[c].at = "settle"
                        /\ req[c].at = "grant" => req'[c].order = req[c].order
  OBVIOUS
<1>2. Grants'
  <2> SUFFICES ASSUME NEW o \in Order \ raced'
               PROVE  /\ grants'[o] \in {0, 1}
                      /\ grants'[o] = 1 => orders'[o].status = "CONFIRMED"
                      /\ \A c \in Client : req'[c].at = "grant" /\ req'[c].order = o =>
                            /\ orders'[o].status = "CONFIRMED" /\ grants'[o] = 0
                            /\ \A d \in Client \ {c} : ~(req'[d].at = "grant" /\ req'[d].order = o)
                      /\ orders'[o].status = "CONFIRMED" =>
                            grants'[o] = 1 \/ o \in lost'
                            \/ \E c \in Client : req'[c].at = "grant" /\ req'[c].order = o
    BY DEF Grants
  <2> QED
    BY <1>0, <1>1 DEF Grants
<1>3. Sums'
  BY <1>0, <1>1 DEF Sums
<1>4. Rewards'
  BY <1>0, <1>1 DEF Rewards
<1> QED
  BY <1>2, <1>3, <1>4

\* What the others know of the payer's row.
LEMMA OthersKnowPayer ==
    ASSUME BillingInv, NEW q \in Client, NEW r \in ServedRow,
           NEW X \in SUBSET (Order \cup User), Proceeds(q, r, X),
           \/ Payer \in X
           \/ acct'[Payer].sub = acct[Payer].sub /\ acct'[Payer].rewarded = acct[Payer].rewarded
    PROVE  \A c \in Client \ {q} : KnowsPayer(c)'
<1>1. \A c \in Client : KnowsPayer(c)
  BY DEF BillingInv
<1>2. \A c \in Client \ {q} :
         /\ req'[c].at = req[c].at /\ req'[c].flag = req[c].flag
         /\ req'[c].expires = req[c].expires
         /\ req[c].stale \subseteq req'[c].stale
         /\ req[c].at # "idle" => req'[c].stale = req[c].stale \cup X
  BY OthersGoOn DEF BillingInv
<1> QED
  BY <1>1, <1>2 DEF KnowsPayer

\* A request that goes on without a write.
LEMMA Unwritten ==
    ASSUME BillingInv, NEW q \in Client, NEW r \in ServedRow, Proceeds(q, r, {}),
           UNCHANGED <<acct, orders, ghostVars>>,
           req[q].at \notin {"grant", "settle"}, r.at \notin {"grant", "settle"},
           KnowsOrders(q)', KnowsPayer(q)'
    PROVE  BillingInv'
<1>1. BillingTypeOK /\ Slots /\ InTimeKept /\ (\A c \in Client : KnowsOrders(c))
  BY DEF BillingInv
<1>2. UNCHANGED <<acct, orders, legacy, bought, grants, rewards, raced, lost, cut>>
  BY DEF ghostVars
<1>3. {} \in SUBSET (Order \cup User)
  OBVIOUS
<1>4. /\ req' \in [Client -> ServedRow] /\ req'[q] = r
      /\ \A c \in Client \ {q} :
            /\ req'[c].at = req[c].at /\ req'[c].order = req[c].order
            /\ req'[c].hash = req[c].hash /\ req'[c].flag = req[c].flag /\ req'[c].expires = req[c].expires
            /\ req'[c].todo = req[c].todo
            /\ req[c].stale \subseteq req'[c].stale
  BY <1>1, <1>3, OthersGoOn
<1>5. BillingTypeOK'
  BY <1>1, <1>2, <1>4, BillingTyped DEF BillingTypeOK, UserRow, OrderRow, ServedRow
<1>6. \A x \in Order : (Keyed(x)' <=> Keyed(x)) /\ (Rivalled(x)' <=> Rivalled(x))
  BY <1>2 DEF Keyed, Rivalled
<1>7. Slots' /\ InTimeKept'
  BY <1>1, <1>2, <1>6 DEF Slots, InTimeKept
<1>8. ASSUME NEW c \in Client PROVE KnowsOrders(c)' /\ KnowsPayer(c)'
  <2>1. CASE c = q
    BY <2>1
  <2>2. CASE c # q
    <3>1. KnowsPayer(c)'
      BY <1>2, <1>3, <2>2, OthersKnowPayer
    <3>2. KnowsOrders(c)
      BY <1>1
    <3>3. Serves(c)'
      BY <1>4, <1>6, <2>2, <3>2 DEF KnowsOrders, Serves
    <3>4. \A x \in Order : ReadsRow(c, x)'
      BY <1>2, <1>4, <1>6, <2>2, <3>2 DEF KnowsOrders, ReadsRow
    <3> QED
      BY <3>1, <3>3, <3>4 DEF KnowsOrders
  <2> QED
    BY <2>1, <2>2
<1>9. Grants' /\ Sums' /\ Rewards'
  <2>1. \A c \in Client : /\ req'[c].at \in {"grant", "settle"} <=> req[c].at \in {"grant", "settle"}
                          /\ req[c].at \in {"grant", "settle"} =>
                                req'[c].at = req[c].at /\ req'[c].order = req[c].order
    BY <1>4
  <2>2. \A c \in Client : req[c].stale \subseteq req'[c].stale \/ req[c].at # "grant"
    BY <1>4
  <2> QED
    BY <1>2, <1>4, <2>1, <2>2, MoneyKept
<1> QED
  BY <1>5, <1>7, <1>8, <1>9 DEF BillingInv

\* A request that writes a row and moves no money.
LEMMA RowStep ==
    ASSUME BillingInv, NEW q \in Client, NEW o \in Order, NEW n, NEW r \in ServedRow,
           WriteOrder(q, o, n, r), Turns(o, n),
           UNCHANGED <<acct, legacy, bought, grants, rewards, lost, cut>>,
           req[q].at \notin {"grant", "settle"},
           r.at \notin {"confirm", "grant", "reward", "settle"},
           o \notin raced' => (n.status = "CONFIRMED" <=> orders[o].status = "CONFIRMED"),
           KnowsOrders(q)'
    PROVE  BillingInv'
<1> DEFINE X == IF n = orders[o] THEN {} ELSE {o}
<1>1. BillingTypeOK
  BY DEF BillingInv
<1>2. /\ orders' = [orders EXCEPT ![o] = n] /\ Proceeds(q, r, X)
      /\ raced' = raced \cup ({o} \cap req[q].stale) /\ legacy' = legacy
  BY DEF WriteOrder
<1>3. orders \in [Order -> OrderRow] /\ n \in OrderRow /\ req \in [Client -> ServedRow]
  BY <1>1, BillingTyped DEF Turns
<1>4. orders'[o] = n /\ \A x \in Order \ {o} : orders'[x] = orders[x]
  BY <1>2, <1>3
<1>5. X \in SUBSET (Order \cup User)
  OBVIOUS
<1> HIDE DEF X
<1>6. /\ req' \in [Client -> ServedRow] /\ req'[q] = r
      /\ \A c \in Client \ {q} :
            /\ req'[c].at = req[c].at /\ req'[c].order = req[c].order
            /\ req[c].stale \subseteq req'[c].stale
  BY <1>1, <1>2, <1>5, OthersGoOn
<1>7. BillingTypeOK'
  <2>1. orders' \in [Order -> OrderRow] /\ raced' \subseteq Order \cup User
    BY <1>1, <1>2, <1>3, BillingTyped
  <2> QED
    BY <1>1, <1>6, <2>1, BillingTyped DEF BillingTypeOK, UserRow, OrderRow, ServedRow
<1>8. Slots' /\ InTimeKept' /\ \A c \in Client \ {q} : KnowsOrders(c)'
  BY RowWritten
<1>9. \A c \in Client : KnowsPayer(c)'
  <2>1. KnowsPayer(q)'
    BY <1>6 DEF KnowsPayer
  <2>2. \A c \in Client \ {q} : KnowsPayer(c)'
    BY <1>2, <1>5, OthersKnowPayer
  <2> QED
    BY <2>1, <2>2
<1>10. Grants' /\ Sums' /\ Rewards'
  <2>1. \A c \in Client : /\ req'[c].at \in {"grant", "settle"} <=> req[c].at \in {"grant", "settle"}
                          /\ req[c].at \in {"grant", "settle"} =>
                                req'[c].at = req[c].at /\ req'[c].order = req[c].order
    BY <1>6
  <2>2. \A c \in Client : req[c].stale \subseteq req'[c].stale \/ req[c].at # "grant"
    BY <1>6
  <2>3. \A x \in Order \ raced' : orders'[x].status = "CONFIRMED" <=> orders[x].status = "CONFIRMED"
    BY <1>4
  <2> QED
    BY <1>2, <1>6, <2>1, <2>2, <2>3, MoneyKept
<1> QED
  BY <1>7, <1>8, <1>9, <1>10 DEF BillingInv

\* A request that is served knows nothing.
LEMMA ServedKnows ==
    ASSUME NEW q \in Client, req'[q].at \in {"idle", "listed"}
    PROVE  KnowsOrders(q)' /\ KnowsPayer(q)'
  BY DEF KnowsOrders, Serves, ReadsRow, KnowsPayer

\* A request ends, or stops short of the reward, without a write.
LEMMA LeaveStep ==
    ASSUME BillingInv, NEW q \in Client, Listing(q) \/ SlotLost(q) \/ NoReward(q)
    PROVE  BillingInv'
<1>1. /\ Proceeds(q, Idle, {}) /\ UNCHANGED <<acct, orders, ghostVars>>
      /\ req[q].at \notin {"grant", "settle"}
  BY DEF Listing, SlotLost, NoReward
<1>2. Idle \in ServedRow /\ Idle.at = "idle"
  BY RowsTyped DEF Idle
<1>3. req'[q] = Idle
  BY <1>1 DEF Proceeds
<1>4. KnowsOrders(q)' /\ KnowsPayer(q)'
  BY <1>2, <1>3, ServedKnows
<1> QED
  BY <1>1, <1>2, <1>4, Unwritten

\* What a reconciliation writes, by what it reads of a row.
LEMMA ReconciledRow ==
    ASSUME BillingInv, NEW o \in Order, NEW w, w = Reconciled(o)
    PROVE  /\ w \in Write
           /\ w # "keep" => orders[o].status # "none"
           /\ w = "release" => orders[o].status \notin Active
           /\ w \in {"take", "cancel"} => orders[o].status \in Active
           /\ w = "cancel" /\ o \notin raced /\ orders[o].hash # NoTx => Rivalled(o)
           /\ w = "expire" => /\ orders[o].status # "CONFIRMED"
                              /\ InTime(orders[o]) => orders[o].status \in Dropped
           /\ orders[o].status \in Active /\ OpenOrders = {} => w = "expire"
<1> DEFINE r == orders[o]
<1>1. Slots /\ r \in OrderRow
  BY BillingTyped DEF BillingInv
<1>2. CASE Stale(r)
  <2>1. w = "expire"
    BY <1>2 DEF Reconciled
  <2>2. r.status \in Active /\ Due(r) /\ ~InGrace(r)
    BY <1>2 DEF Stale, TooLate
  <2>3. ~InTime(r)
    BY <1>1, <2>2 DEF Slots, InTime, InGrace, Active
  <2> QED
    BY <2>1, <2>2, <2>3 DEF Active, Write
<1>3. CASE ~Stale(r) /\ o \notin OpenOrders
  <2>1. r.status \notin Active
    BY <1>3 DEF OpenOrders
  <2>2. w = IF r.key THEN "release" ELSE "keep"
    BY <1>3 DEF Reconciled
  <2> QED
    BY <1>1, <2>1, <2>2 DEF Slots, Write
<1>4. CASE ~Stale(r) /\ o \in OpenOrders
  <2>1. r.status \in Active
    BY <1>4 DEF OpenOrders
  <2>2. w = IF \E x \in OpenOrders : Before(x, o) THEN "cancel" ELSE "take"
    BY <1>4 DEF Reconciled
  <2>3. ASSUME w = "cancel", o \notin raced, r.hash # NoTx PROVE Rivalled(o)
    <3>1. PICK x \in OpenOrders : Before(x, o)
      BY <2>2, <2>3
    <3>2. x \in Order /\ orders[x].status \in Active /\ x # o
      <4>1. ~Before(o, o)
        <5>1. Rank(orders[o]) \in Nat /\ o \in Nat
          BY DEF Rank, Order
        <5> QED
          BY <5>1 DEF Before
      <4> QED
        BY <3>1, <4>1 DEF OpenOrders
    <3>3. orders[x].hash # NoTx
      BY <2>3, <3>1 DEF Before, Rank
    <3>4. x \in legacy \cup raced
      <4> SUFFICES ASSUME x \notin legacy, x \notin raced PROVE FALSE
        OBVIOUS
      <4>1. orders[x].key
        BY <1>1, <3>2 DEF Slots, Keyed
      <4>2. orders[x].status # "none"
        BY <3>2 DEF Active
      <4>3. Keyed(o)
        BY <1>1, <3>2, <4>2 DEF Slots
      <4>4. orders[o].key
        BY <2>1, <2>3, <4>3 DEF Keyed
      <4> QED
        BY <1>1, <3>2, <4>1, <4>4 DEF Slots
    <3> QED
      BY <3>2, <3>3, <3>4 DEF Rivalled
  <2> QED
    BY <1>4, <2>1, <2>2, <2>3 DEF Active, Write
<1> QED
  BY <1>2, <1>3, <1>4

LEMMA ReadStep ==
    ASSUME BillingInv, NEW q \in Client, ListOrders(q) \/ CreateOrder(q)
    PROVE  BillingInv'
<1>1. PICK flag \in BOOLEAN : ReadRows(q, flag) /\ (flag => OpenOrders = {})
  BY DEF ListOrders, CreateOrder
<1> DEFINE at == IF Listed # Nothing THEN "rows" ELSE IF flag THEN "insert" ELSE "listed"
           r == [Idle EXCEPT !.at = at, !.flag = flag, !.todo = Listed]
<1>2. /\ Proceeds(q, r, {}) /\ UNCHANGED <<acct, orders, ghostVars>> /\ req[q].at = "idle"
  BY <1>1 DEF ReadRows
<1>3. Listed \in [Order -> Write] /\ \A o \in Order : Listed[o] = Reconciled(o)
  BY ReconciledRow DEF Listed
<1>4. /\ r \in ServedRow /\ r.at = at /\ r.flag = flag /\ r.todo = Listed /\ r.stale = {}
      /\ r.order = 0
  BY <1>3, RowsTyped DEF Idle, ServedRow, Step
<1>5. req'[q] = r
  BY <1>2 DEF Proceeds
<1>6. UNCHANGED <<acct, orders, legacy, raced>>
  BY <1>2 DEF ghostVars
<1>7. KnowsPayer(q)'
  BY <1>4, <1>5 DEF KnowsPayer
<1>8. ASSUME NEW o \in Order PROVE ReadsRow(q, o)'
  <2>1. Rivalled(o)' <=> Rivalled(o)
    BY <1>6 DEF Rivalled
  <2>2. at \in {"rows", "insert", "listed"}
    OBVIOUS
  <2> HIDE DEF r, at
  <2> QED
    BY <1>3, <1>4, <1>5, <1>6, <2>1, <2>2, ReconciledRow DEF ReadsRow
<1>9. Serves(q)'
  <2>1. ASSUME flag, NEW o \in Order PROVE Keyed(o)' \/ Listed[o] = "expire"
    BY <1>1, <1>3, <1>6, <2>1, ReconciledRow DEF Keyed
  <2>2. ASSUME at = "insert", NEW o \in Order PROVE Keyed(o)'
    <3>1. flag /\ Listed[o] = "keep"
      BY <2>2 DEF Nothing
    <3> QED
      BY <2>1, <3>1
  <2>3. at \in {"rows", "insert", "listed"}
    OBVIOUS
  <2> HIDE DEF r, at
  <2> QED
    BY <1>4, <1>5, <2>1, <2>2, <2>3 DEF Serves
<1>10. KnowsOrders(q)'
  BY <1>8, <1>9 DEF KnowsOrders
<1>11. r.at \notin {"grant", "settle"}
  BY <1>4
<1> HIDE DEF r
<1> QED
  BY <1>2, <1>4, <1>7, <1>10, <1>11, Unwritten

\* A request of one order: what it reads is what it will write by.
LEMMA OneOrderStep ==
    ASSUME BillingInv, NEW q \in Client, NEW o \in Order, NEW t \in Tx,
           SubmitTx(q, o, t) \/ CheckPayment(q, o)
    PROVE  BillingInv'
<1> DEFINE late == ExpireOne(o)
           sent == [Idle EXCEPT !.at = "submit", !.order = o, !.hash = t, !.flag = (orders[o].hash = NoTx)]
           checked == [Idle EXCEPT !.at = "verify", !.order = o]
<1>0. Slots /\ orders[o] \in OrderRow
  BY BillingTyped DEF BillingInv
<1>1. /\ UNCHANGED <<acct, orders, ghostVars>> /\ req[q].at = "idle"
      /\ orders[o].status # "none" /\ orders[o].status # "CONFIRMED"
      /\ \/ Proceeds(q, late, {}) /\ TooLate(orders[o])
         \/ Proceeds(q, sent, {}) \/ Proceeds(q, checked, {})
  <2>1. CASE SubmitTx(q, o, t)
    BY <2>1 DEF SubmitTx, Ended
  <2>2. CASE CheckPayment(q, o)
    BY <1>0, <2>2 DEF CheckPayment, Slots
  <2> QED
    BY <2>1, <2>2
<1>2. UNCHANGED <<acct, orders, legacy, raced>>
  BY <1>1 DEF ghostVars
<1>3. CASE Proceeds(q, late, {}) /\ TooLate(orders[o])
  <2>1. late \in ServedRow /\ late.at = "rows" /\ late.flag = FALSE /\ late.stale = {}
    BY RowsTyped DEF ExpireOne, Idle, ServedRow, Step, Write, Nothing
  <2>2. late.todo[o] = "expire" /\ \A x \in Order \ {o} : late.todo[x] = "keep"
    BY DEF ExpireOne, Idle, Nothing
  <2>3. req'[q] = late
    BY <1>3 DEF Proceeds
  <2>4. InTime(orders[o]) => orders[o].status \in Dropped
    BY <1>0, <1>1, <1>3 DEF Slots, TooLate, InGrace, InTime, OrderRow, Status, Active, Ended, Dropped
  <2>5. KnowsOrders(q)' /\ KnowsPayer(q)'
    <3> HIDE DEF late
    <3>1. Serves(q)'
      BY <2>1, <2>3 DEF Serves
    <3>2. \A x \in Order : ReadsRow(q, x)'
      BY <1>1, <1>2, <2>1, <2>2, <2>3, <2>4 DEF ReadsRow
    <3>3. KnowsPayer(q)'
      BY <2>1, <2>3 DEF KnowsPayer
    <3> QED
      BY <3>1, <3>2, <3>3 DEF KnowsOrders
  <2> HIDE DEF late
  <2> QED
    BY <1>1, <1>3, <2>1, <2>5, Unwritten
<1>4. ASSUME NEW r, r \in {sent, checked}, Proceeds(q, r, {}) PROVE BillingInv'
  <2>1. /\ r \in ServedRow /\ r.at \in {"submit", "verify"} /\ r.order = o
        /\ r.at = "submit" => r.hash \in Tx
    BY <1>4, RowsTyped DEF Idle, ServedRow, Step
  <2>2. req'[q] = r
    BY <1>4 DEF Proceeds
  <2>3. KnowsOrders(q)' /\ KnowsPayer(q)'
    <3>1. Serves(q)'
      BY <2>1, <2>2 DEF Serves
    <3>2. \A x \in Order : ReadsRow(q, x)'
      BY <1>1, <1>2, <2>1, <2>2 DEF ReadsRow
    <3>3. KnowsPayer(q)'
      BY <2>1, <2>2 DEF KnowsPayer
    <3> QED
      BY <3>1, <3>2, <3>3 DEF KnowsOrders
  <2> QED
    BY <1>1, <1>4, <2>1, <2>3, Unwritten
<1> QED
  BY <1>1, <1>3, <1>4

LEMMA VerifiedStep ==
    ASSUME BillingInv, NEW q \in Client, Verified(q)
    PROVE  BillingInv'
<1> DEFINE r == [req[q] EXCEPT !.at = "confirm", !.expires = Prolonged(acct[Payer].sub),
                               !.flag = ~acct[Payer].rewarded, !.stale = @ \ User]
<1>0. /\ req \in [Client -> ServedRow] /\ acct \in [User -> UserRow]
      /\ KnowsOrders(q)
  BY BillingTyped DEF BillingInv
<1>1. /\ Proceeds(q, r, {}) /\ UNCHANGED <<acct, orders, ghostVars>> /\ req[q].at = "verify"
  BY DEF Verified
<1>2. UNCHANGED <<acct, orders, legacy, raced>>
  BY <1>1 DEF ghostVars
<1>3. acct[Payer].sub + Days \in Nat /\ acct[Payer].rewarded \in BOOLEAN
  BY <1>0, BillingConstants DEF UserRow
<1>4. /\ r \in ServedRow /\ r.at = "confirm" /\ r.order = req[q].order
      /\ r.expires = acct[Payer].sub + Days /\ r.flag = ~acct[Payer].rewarded
      /\ r.stale = req[q].stale \ User
  BY <1>0, <1>3 DEF ServedRow, Step, Prolonged
<1>5. req'[q] = r
  BY <1>1 DEF Proceeds
<1>6. KnowsPayer(q)'
  BY <1>2, <1>4, <1>5 DEF KnowsPayer
<1>7. KnowsOrders(q)'
  <2>1. \A o \in Order : o \notin User
    BY BillingConstants DEF User
  <2>2. Serves(q)'
    BY <1>0, <1>1, <1>4, <1>5 DEF KnowsOrders, Serves
  <2>3. \A o \in Order : ReadsRow(q, o)'
    BY <1>0, <1>1, <1>2, <1>4, <1>5, <2>1 DEF KnowsOrders, ReadsRow
  <2> QED
    BY <2>2, <2>3 DEF KnowsOrders
<1> HIDE DEF r
<1> QED
  BY <1>1, <1>4, <1>6, <1>7, Unwritten

LEMMA RowsStep ==
    ASSUME BillingInv, NEW q \in Client, NEW o \in Order, WriteRow(q, o)
    PROVE  BillingInv'
<1> DEFINE w == req[q].todo[o]
           rest == [req[q].todo EXCEPT ![o] = "keep"]
           n == IF w = "take" /\ SlotTaken(o) THEN orders[o] ELSE Written(orders[o], w)
           r == IF rest # Nothing THEN [req[q] EXCEPT !.todo = rest]
                ELSE IF req[q].order = o THEN Idle
                ELSE [Idle EXCEPT !.at = IF req[q].flag THEN "insert" ELSE "listed"]
<1>0. /\ Slots /\ InTimeKept /\ KnowsOrders(q)
      /\ orders \in [Order -> OrderRow] /\ req \in [Client -> ServedRow]
  BY BillingTyped DEF BillingInv
<1>1. /\ req[q].at = "rows" /\ w # "keep" /\ WriteOrder(q, o, n, r)
      /\ UNCHANGED <<acct, legacy, bought, grants, rewards, lost, cut>>
  BY DEF WriteRow
<1>2. w \in Write /\ rest \in [Order -> Write] /\ orders[o] \in OrderRow
  BY <1>0 DEF ServedRow, Write
<1>3. /\ rest[o] = "keep" /\ \A x \in Order \ {o} : rest[x] = req[q].todo[x]
  BY <1>0 DEF ServedRow
<1>4. /\ raced' = raced \cup ({o} \cap req[q].stale)
      /\ o \notin raced' => o \notin raced /\ o \notin req[q].stale
  BY <1>1 DEF WriteOrder
<1>5. /\ r \in ServedRow /\ r.at \in {"rows", "insert", "listed", "idle"}
      /\ r.at = "rows" => r.todo = rest /\ r.flag = req[q].flag /\ r.stale = req[q].stale
      /\ r.at = "insert" => rest = Nothing /\ req[q].flag
  <2>1. CASE rest # Nothing
    BY <1>0, <1>1, <1>2, <2>1 DEF ServedRow, Step
  <2>2. CASE rest = Nothing /\ req[q].order = o
    BY <2>2, RowsTyped DEF Idle
  <2>3. CASE rest = Nothing /\ req[q].order # o
    <3> DEFINE a == IF req[q].flag THEN "insert" ELSE "listed"
    <3>1. [Idle EXCEPT !.at = a] \in ServedRow /\ [Idle EXCEPT !.at = a].at = a
      BY RowsTyped DEF Idle, ServedRow, Step
    <3> HIDE DEF a
    <3>2. r = [Idle EXCEPT !.at = a]
      BY <2>3 DEF a
    <3>3. a \in {"insert", "listed"} /\ (a = "insert" => req[q].flag)
      BY DEF a
    <3> QED
      BY <2>3, <3>1, <3>2, <3>3
  <2> QED
    BY <2>1, <2>2, <2>3
<1>6. req'[q] = r
  BY <1>1 DEF WriteOrder, Proceeds
<1>7. ReadsRow(q, o) /\ Serves(q)
  BY <1>0 DEF KnowsOrders
<1>8. /\ n \in OrderRow /\ n.hash = orders[o].hash /\ n.left = orders[o].left
      /\ n.timely = orders[o].timely
      /\ n.status = IF w = "expire" THEN "EXPIRED" ELSE IF w = "cancel" THEN "CANCELLED_DUPLICATE"
                    ELSE orders[o].status
      /\ n.key => w = "take" /\ (orders[o].key \/ ~SlotTaken(o))
      /\ w = "take" => n.key \/ n = orders[o]
  BY <1>1, <1>2 DEF Written, OrderRow, Status, Ended, Write
<1>9. orders[o].status # "none"
  BY <1>1, <1>7 DEF ReadsRow
<1>10. o \notin raced' =>
         /\ n.status \in Active => n.key \/ (orders[o].status \in Active /\ (orders[o].key => n.key))
         /\ InTime(n) /\ n.status \in Dropped => Rivalled(o)
         /\ n.status = "CONFIRMED" <=> orders[o].status = "CONFIRMED"
  <2> SUFFICES ASSUME o \notin raced'
               PROVE  /\ n.status \in Active => n.key \/ (orders[o].status \in Active /\ (orders[o].key => n.key))
                      /\ InTime(n) /\ n.status \in Dropped => Rivalled(o)
                      /\ n.status = "CONFIRMED" <=> orders[o].status = "CONFIRMED"
    OBVIOUS
  <2>0. o \notin raced /\ o \notin req[q].stale
    BY <1>4
  <2>1. /\ w = "release" => orders[o].status \notin Active
        /\ w \in {"take", "cancel"} => orders[o].status \in Active
        /\ w = "cancel" /\ orders[o].hash # NoTx => Rivalled(o)
        /\ w = "expire" => orders[o].status # "CONFIRMED" /\ (InTime(orders[o]) => orders[o].status \in Dropped)
    BY <1>1, <1>7, <2>0 DEF ReadsRow
  <2>2. InTime(orders[o]) /\ orders[o].status \in Dropped => Rivalled(o)
    BY <1>0, <2>0 DEF InTimeKept, InTime, Dropped, Rivalled
  <2>3. InTime(n) <=> InTime(orders[o])
    BY <1>8 DEF InTime
  <2>4. w \in {"release", "take", "cancel", "expire"}
    BY <1>1, <1>2 DEF Write
  <2>5. CASE w = "cancel"
    <3>1. InTime(orders[o]) => orders[o].hash # NoTx
      BY <1>0 DEF Slots, InTime
    <3> QED
      BY <1>8, <2>1, <2>3, <2>5, <3>1 DEF Active, Dropped
  <2>6. CASE w # "cancel"
    BY <1>8, <2>1, <2>2, <2>3, <2>4, <2>6 DEF Active, Dropped
  <2> QED
    BY <2>5, <2>6
<1> HIDE DEF n
<1>11. Turns(o, n)
  <2>1. (n.status = "AWAITING_PAYMENT" => ~n.timely) /\ (n.timely => n.hash # NoTx)
    BY <1>0, <1>8 DEF Slots
  <2>2. n.status # "none"
    BY <1>8, <1>9
  <2> QED
    BY <1>8, <1>9, <1>10, <2>1, <2>2 DEF Turns
<1>12. /\ \A x \in Order : Keyed(x) => Keyed(x)'
       /\ \A x \in Order : Rivalled(x) => Rivalled(x)'
  <2> HIDE DEF r
  <2> QED
    BY <1>1, <1>5, <1>11, RowWritten
<1>13. orders'[o] = n /\ (\A x \in Order \ {o} : orders'[x] = orders[x])
       /\ raced \subseteq raced' /\ legacy' = legacy
  BY <1>0, <1>1 DEF WriteOrder
<1>14. KnowsOrders(q)'
  <2>1. \A x \in Order : ReadsRow(q, x)'
    <3> SUFFICES ASSUME NEW x \in Order PROVE ReadsRow(q, x)'
      OBVIOUS
    <3>0. req[q].at = "rows"
      BY <1>1
    <3> HIDE DEF r, w, rest
    <3>1. CASE x = o
      BY <1>3, <1>5, <1>6, <3>1 DEF ReadsRow
    <3>2. CASE x # o
      <4>1. ReadsRow(q, x) /\ orders'[x] = orders[x] /\ rest[x] = req[q].todo[x]
        BY <1>0, <1>3, <1>13, <3>2 DEF KnowsOrders
      <4> QED
        BY <1>5, <1>6, <1>12, <1>13, <3>0, <4>1 DEF ReadsRow
    <3> QED
      BY <3>1, <3>2
  <2>2. ASSUME req[q].flag, NEW x \in Order PROVE Keyed(x)' \/ rest[x] = "expire"
    <3>1. CASE x # o
      BY <1>1, <1>3, <1>7, <1>12, <2>2, <3>1 DEF Serves
    <3>2. CASE x = o /\ w = "expire"
      BY <1>8, <1>13, <3>2 DEF Keyed, Active
    <3>3. CASE x = o /\ w # "expire"
      BY <1>1, <1>7, <1>12, <2>2, <3>3 DEF Serves
    <3> QED
      BY <3>1, <3>2, <3>3
  <2>3. Serves(q)'
    <3> HIDE DEF r, rest, w
    <3>1. \A x \in Order : Nothing[x] # "expire"
      BY DEF Nothing
    <3> QED
      BY <1>5, <1>6, <2>2, <3>1 DEF Serves
  <2> QED
    BY <2>1, <2>3 DEF KnowsOrders
<1> HIDE DEF r
<1> QED
  BY <1>1, <1>5, <1>10, <1>11, <1>14, RowStep

LEMMA InsertStep ==
    ASSUME BillingInv, NEW q \in Client, InsertOrder(q)
    PROVE  BillingInv'
<1> DEFINE n == [Legacy EXCEPT !.key = TRUE]
<1>0. Slots /\ KnowsOrders(q) /\ orders \in [Order -> OrderRow]
  BY BillingTyped DEF BillingInv
<1>1. /\ req[q].at = "insert" /\ \A o \in Order : ~orders[o].key
      /\ UNCHANGED <<acct, legacy, bought, grants, rewards, lost, cut>>
  BY DEF InsertOrder
<1>2. PICK o \in Order : /\ orders[o].status = "none"
                         /\ WriteOrder(q, o, n, Idle)
  BY DEF InsertOrder
<1>3. n \in OrderRow /\ n.status = "AWAITING_PAYMENT" /\ n.hash = NoTx /\ n.timely = FALSE /\ n.key
  BY RowsTyped DEF Legacy, NoOrder
<1>4. Idle \in ServedRow /\ Idle.at = "idle"
  BY RowsTyped DEF Idle
<1>5. orders'[o] = n /\ \A x \in Order \ {o} : orders'[x] = orders[x]
  BY <1>0, <1>2 DEF WriteOrder
<1> HIDE DEF n
<1>6. \A x \in Order : Keyed(x)
  BY <1>0, <1>1 DEF KnowsOrders, Serves
<1>7. Turns(o, n)
  BY <1>0, <1>1, <1>2, <1>3, <1>6 DEF Turns, Slots, SlotTaken, InTime, Dropped, Active
<1>8. req'[q] = Idle
  BY <1>2 DEF WriteOrder, Proceeds
<1>9. KnowsOrders(q)'
  BY <1>4, <1>8, ServedKnows
<1> QED
  BY <1>1, <1>2, <1>3, <1>4, <1>6, <1>7, <1>9, RowStep

LEMMA HashStep ==
    ASSUME BillingInv, NEW q \in Client, WriteHash(q)
    PROVE  BillingInv'
<1> DEFINE o == req[q].order
           late == IF req[q].flag THEN ~Due(orders[o]) ELSE orders[o].timely
           n == IF SlotTaken(o) THEN orders[o]
                ELSE [orders[o] EXCEPT !.hash = req[q].hash, !.status = "VERIFYING", !.key = TRUE,
                                       !.timely = IF req[q].flag THEN ~Due(orders[o]) ELSE @]
<1>0. /\ Slots /\ InTimeKept /\ KnowsOrders(q) /\ orders \in [Order -> OrderRow]
      /\ req \in [Client -> ServedRow]
  BY BillingTyped DEF BillingInv
<1>1. /\ req[q].at = "submit" /\ WriteOrder(q, o, n, Idle)
      /\ UNCHANGED <<acct, legacy, bought, grants, rewards, lost, cut>>
  BY DEF WriteHash
<1>2. /\ o \in Order /\ orders[o].status # "none" /\ req[q].hash \in Tx
      /\ o \notin req[q].stale => orders[o].status # "CONFIRMED"
  BY <1>0, <1>1 DEF KnowsOrders, Serves, ReadsRow
<1>3. orders[o] \in OrderRow /\ late \in BOOLEAN
  BY <1>0, <1>2 DEF OrderRow, ServedRow, Due
<1>4. Idle \in ServedRow /\ Idle.at = "idle"
  BY RowsTyped DEF Idle
<1>5. req'[q] = Idle
  BY <1>1 DEF WriteOrder, Proceeds
<1>6. KnowsOrders(q)'
  BY <1>4, <1>5, ServedKnows
<1>7. o \notin raced' => o \notin raced /\ o \notin req[q].stale
  BY <1>1 DEF WriteOrder
<1>8. CASE SlotTaken(o)
  <2>1. n = orders[o]
    BY <1>8
  <2>2. InTime(orders[o]) /\ orders[o].status \in Dropped /\ o \notin raced => Rivalled(o)
    BY <1>0, <1>2 DEF InTimeKept, InTime, Dropped, Rivalled
  <2> HIDE DEF n, o
  <2>3. Turns(o, n)
    BY <1>0, <1>2, <1>3, <1>7, <2>1, <2>2 DEF Turns, Slots
  <2> QED
    BY <1>1, <1>2, <1>4, <1>6, <2>1, <2>3, RowStep
<1>9. CASE ~SlotTaken(o)
  <2>1. n = [orders[o] EXCEPT !.hash = req[q].hash, !.status = "VERIFYING", !.key = TRUE, !.timely = late]
    BY <1>3, <1>9 DEF OrderRow
  <2>2. n \in OrderRow /\ n.status = "VERIFYING" /\ n.key /\ n.hash = req[q].hash
    BY <1>2, <1>3, <2>1 DEF OrderRow, Status, Active
  <2> HIDE DEF n, o
  <2>3. Turns(o, n)
    BY <1>2, <1>9, <2>2, BillingConstants DEF Turns, Active, Dropped
  <2> QED
    BY <1>1, <1>2, <1>4, <1>6, <1>7, <2>2, <2>3, RowStep
<1> QED
  BY <1>8, <1>9

LEMMA NotVerifiedStep ==
    ASSUME BillingInv, NEW q \in Client, NotVerified(q)
    PROVE  BillingInv'
<1> DEFINE o == req[q].order
<1>0. /\ Slots /\ InTimeKept /\ KnowsOrders(q) /\ orders \in [Order -> OrderRow]
      /\ req \in [Client -> ServedRow]
  BY BillingTyped DEF BillingInv
<1>1. PICK n : /\ req[q].at = "verify" /\ WriteOrder(q, o, n, Idle)
               /\ \/ n = [orders[o] EXCEPT !.status = "INVALID", !.key = FALSE]
                  \/ n = orders[o]
                  \/ ~SlotTaken(o) /\ n = [orders[o] EXCEPT !.status = "VERIFYING", !.key = TRUE]
               /\ UNCHANGED <<acct, legacy, bought, grants, rewards, lost, cut>>
  BY DEF NotVerified
<1>2. o \in Order /\ orders[o].status # "none"
      /\ (o \notin req[q].stale => orders[o].status # "CONFIRMED")
  BY <1>0, <1>1 DEF KnowsOrders, Serves, ReadsRow
<1>3. orders[o] \in OrderRow
  BY <1>0, <1>2
<1>4. Idle \in ServedRow /\ Idle.at = "idle"
  BY RowsTyped DEF Idle
<1>5. req'[q] = Idle
  BY <1>1 DEF WriteOrder, Proceeds
<1>6. KnowsOrders(q)'
  BY <1>4, <1>5, ServedKnows
<1>7. o \notin raced' => o \notin raced /\ o \notin req[q].stale
  BY <1>1 DEF WriteOrder
<1> HIDE DEF o
<1>8. /\ n \in OrderRow /\ n.hash = orders[o].hash /\ n.timely = orders[o].timely
      /\ \/ n.status = "INVALID" /\ ~n.key
         \/ n = orders[o]
         \/ n.status = "VERIFYING" /\ n.key /\ ~SlotTaken(o)
  BY <1>1, <1>3 DEF OrderRow, Status, Active
<1>9. InTime(orders[o]) /\ orders[o].status \in Dropped /\ o \notin raced => Rivalled(o)
  BY <1>0, <1>2 DEF InTimeKept, InTime, Dropped, Rivalled
<1>10. Turns(o, n)
  BY <1>0, <1>2, <1>3, <1>7, <1>8, <1>9 DEF Turns, Slots, Active, Dropped
<1>11. o \notin raced' => (n.status = "CONFIRMED" <=> orders[o].status = "CONFIRMED")
  BY <1>2, <1>7, <1>8
<1> QED
  BY <1>1, <1>2, <1>4, <1>6, <1>10, <1>11, RowStep

\* A step that leaves the orders alone.
LEMMA OrdersStand ==
    ASSUME BillingInv, NEW q \in Client, NEW r \in ServedRow,
           NEW X \in SUBSET (Order \cup User), Proceeds(q, r, X),
           UNCHANGED <<orders, legacy>>, \A x \in Order : x \in raced' <=> x \in raced
    PROVE  Slots' /\ InTimeKept' /\ \A c \in Client \ {q} : KnowsOrders(c)'
<1>1. BillingTypeOK /\ Slots /\ InTimeKept /\ (\A c \in Client : KnowsOrders(c))
  BY DEF BillingInv
<1>2. \A c \in Client \ {q} :
         /\ req'[c].at = req[c].at /\ req'[c].order = req[c].order
         /\ req'[c].hash = req[c].hash /\ req'[c].flag = req[c].flag
         /\ req'[c].todo = req[c].todo
         /\ req[c].stale \subseteq req'[c].stale
  BY <1>1, OthersGoOn
<1>3. \A x \in Order : Keyed(x)' <=> Keyed(x)
  BY DEF Keyed
<1>4. \A x \in Order : Rivalled(x)' <=> Rivalled(x)
  BY DEF Rivalled
<1>5. Slots'
  BY <1>1, <1>3 DEF Slots
<1>6. InTimeKept'
  BY <1>1 DEF InTimeKept
<1>7. ASSUME NEW c \in Client \ {q} PROVE KnowsOrders(c)'
  <2>1. KnowsOrders(c)
    BY <1>1
  <2>2. Serves(c)'
    BY <1>2, <1>3, <2>1 DEF KnowsOrders, Serves
  <2>3. \A x \in Order : ReadsRow(c, x)'
    BY <1>2, <1>4, <2>1 DEF KnowsOrders, ReadsRow
  <2> QED
    BY <2>2, <2>3 DEF KnowsOrders
<1> QED
  BY <1>5, <1>6, <1>7

LEMMA ConfirmStep ==
    ASSUME BillingInv, NEW q \in Client, ConfirmOrder(q)
    PROVE  BillingInv'
<1> DEFINE o == req[q].order
           n == [orders[o] EXCEPT !.status = "CONFIRMED", !.key = FALSE]
           r == [req[q] EXCEPT !.at = "grant"]
           X == IF n = orders[o] THEN {} ELSE {o}
<1>0. /\ BillingTypeOK /\ Slots /\ KnowsOrders(q) /\ KnowsPayer(q) /\ Grants /\ Sums /\ Rewards
      /\ orders \in [Order -> OrderRow] /\ req \in [Client -> ServedRow]
  BY BillingTyped DEF BillingInv
<1>1. /\ req[q].at = "confirm" /\ WriteOrder(q, o, n, r)
      /\ bought' = IF orders[o].status = "CONFIRMED" THEN bought ELSE bought + Days
      /\ UNCHANGED <<acct, legacy, grants, rewards, lost, cut>>
  BY DEF ConfirmOrder
<1>2. /\ orders' = [orders EXCEPT ![o] = n] /\ Proceeds(q, r, X)
      /\ raced' = raced \cup ({o} \cap req[q].stale)
  BY <1>1 DEF WriteOrder
<1>3. /\ o \in Order /\ orders[o].status # "none"
      /\ o \notin req[q].stale => orders[o].status # "CONFIRMED"
  BY <1>0, <1>1 DEF KnowsOrders, Serves, ReadsRow
<1>4. /\ n \in OrderRow /\ n.status = "CONFIRMED" /\ n.key = FALSE
      /\ n.hash = orders[o].hash /\ n.timely = orders[o].timely
  BY <1>0, <1>3 DEF OrderRow, Status, Ended
<1>5. /\ r \in ServedRow /\ r.at = "grant" /\ r.order = o /\ r.expires = req[q].expires
      /\ r.flag = req[q].flag /\ r.stale = req[q].stale
  BY <1>0 DEF ServedRow, Step
<1>6. X \in SUBSET (Order \cup User)
  BY <1>3
<1>7. orders'[o] = n /\ \A x \in Order \ {o} : orders'[x] = orders[x]
  BY <1>0, <1>2, <1>3
<1>8. Turns(o, n)
  BY <1>0, <1>3, <1>4 DEF Turns, Slots, Active, Dropped
<1> HIDE DEF o, n, r, X
<1>9. /\ req' \in [Client -> ServedRow] /\ req'[q] = r
      /\ \A c \in Client \ {q} :
            /\ req'[c].at = req[c].at /\ req'[c].order = req[c].order
            /\ req[c].stale \subseteq req'[c].stale
  BY <1>0, <1>2, <1>5, <1>6, OthersGoOn
<1>10. Slots' /\ InTimeKept' /\ \A c \in Client \ {q} : KnowsOrders(c)'
  BY <1>1, <1>3, <1>5, <1>8, RowWritten
<1>11. BillingTypeOK'
  <2>1. orders' \in [Order -> OrderRow] /\ raced' \subseteq Order \cup User /\ bought' \in Nat
    BY <1>0, <1>1, <1>2, <1>3, <1>4, BillingTyped, BillingConstants
  <2> QED
    BY <1>0, <1>1, <1>9, <2>1, BillingTyped DEF BillingTypeOK, UserRow, OrderRow, ServedRow
<1>12. KnowsOrders(q)' /\ KnowsPayer(q)'
  BY <1>0, <1>1, <1>3, <1>4, <1>5, <1>7, <1>9 DEF KnowsOrders, Serves, ReadsRow, KnowsPayer
<1>13. \A c \in Client \ {q} : KnowsPayer(c)'
  BY <1>1, <1>2, <1>5, <1>6, OthersKnowPayer
<1>14. o \notin raced' => o \notin raced /\ orders[o].status # "CONFIRMED"
  BY <1>2, <1>3
<1>15. Grants'
  <2> SUFFICES ASSUME NEW x \in Order \ raced'
               PROVE  /\ grants'[x] \in {0, 1}
                      /\ grants'[x] = 1 => orders'[x].status = "CONFIRMED"
                      /\ \A c \in Client : req'[c].at = "grant" /\ req'[c].order = x =>
                            /\ orders'[x].status = "CONFIRMED" /\ grants'[x] = 0
                            /\ \A d \in Client \ {c} : ~(req'[d].at = "grant" /\ req'[d].order = x)
                      /\ orders'[x].status = "CONFIRMED" =>
                            grants'[x] = 1 \/ x \in lost'
                            \/ \E c \in Client : req'[c].at = "grant" /\ req'[c].order = x
    BY DEF Grants
  <2>1. x \notin raced
    BY <1>2
  <2>2. CASE x = o
    BY <1>0, <1>1, <1>4, <1>5, <1>7, <1>9, <1>14, <2>1, <2>2 DEF Grants
  <2>3. CASE x # o
    BY <1>0, <1>1, <1>5, <1>7, <1>9, <2>1, <2>3 DEF Grants
  <2> QED
    BY <2>2, <2>3
<1>16. Sums'
  <2> SUFFICES ASSUME raced' = {}, lost' = {}, \A c \in Client \ {q} : req'[c].at # "grant"
               PROVE  bought' = acct'[Payer].sub + Days
    BY <1>5, <1>9 DEF Sums
  <2>1. raced = {} /\ lost = {} /\ \A c \in Client : req[c].at # "grant"
    BY <1>1, <1>2, <1>9
  <2>2. acct[Payer].sub = bought
    BY <1>0, <2>1 DEF Sums
  <2> QED
    BY <1>1, <1>14, <2>2
<1>17. Rewards'
  <2>1. \A c \in Client : req'[c].at = "settle" <=> req[c].at = "settle"
    BY <1>1, <1>5, <1>9
  <2>2. Payer \in raced' <=> Payer \in raced
    BY <1>2, <1>3, BillingConstants
  <2> QED
    BY <1>0, <1>1, <2>1, <2>2 DEF Rewards
<1> QED
  BY <1>10, <1>11, <1>12, <1>13, <1>15, <1>16, <1>17 DEF BillingInv

LEMMA GrantStep ==
    ASSUME BillingInv, NEW q \in Client, Grant(q)
    PROVE  BillingInv'
<1> DEFINE o == req[q].order
           row == Granted(q)
           r == [req[q] EXCEPT !.at = "reward"]
           X == IF row = acct[Payer] THEN {} ELSE {Payer}
<1>0. /\ BillingTypeOK /\ KnowsOrders(q) /\ KnowsPayer(q) /\ Grants /\ Sums /\ Rewards
      /\ acct \in [User -> UserRow] /\ req \in [Client -> ServedRow]
      /\ grants \in [Order -> Nat]
  BY BillingTyped DEF BillingInv
<1>1. /\ req[q].at = "grant" /\ acct' = [acct EXCEPT ![Payer] = row] /\ Proceeds(q, r, X)
      /\ raced' = raced \cup ({Payer} \cap req[q].stale)
      /\ grants' = [grants EXCEPT ![o] = @ + 1]
      /\ UNCHANGED <<orders, legacy, bought, rewards, lost, cut>>
  BY DEF Grant, WriteUser
<1>2. o \in Order
  BY <1>0, <1>1 DEF KnowsOrders, Serves
<1>3. acct[Payer] \in UserRow /\ req[q].expires \in Nat
  BY <1>0, BillingConstants DEF ServedRow
<1>4. row \in UserRow /\ row.sub = req[q].expires /\ row.rewarded = acct[Payer].rewarded
  BY <1>3 DEF Granted, UserRow
<1>5. /\ r \in ServedRow /\ r.at = "reward" /\ r.flag = req[q].flag /\ r.stale = req[q].stale
  BY <1>0 DEF ServedRow, Step
<1>6. X \in SUBSET (Order \cup User)
  BY BillingConstants
<1>7. acct' \in [User -> UserRow] /\ acct'[Payer] = row
  BY <1>0, <1>1, <1>4, BillingConstants
<1>8. /\ X = {} => acct'[Payer] = acct[Payer]
      /\ X # {} => Payer \in X
  BY <1>7
<1>9. Payer \notin req[q].stale => row.sub = acct[Payer].sub + Days /\ X = {Payer}
  <2>1. acct[Payer].sub \in Nat
    BY <1>3 DEF UserRow
  <2> QED
    BY <1>0, <1>1, <1>4, <2>1, BillingConstants DEF KnowsPayer
<1> HIDE DEF o, row, r, X
<1>10. /\ req' \in [Client -> ServedRow] /\ req'[q] = r
       /\ \A c \in Client \ {q} :
             /\ req'[c].at = req[c].at /\ req'[c].order = req[c].order
             /\ req[c].stale \subseteq req'[c].stale
             /\ req[c].at # "idle" => req'[c].stale = req[c].stale \cup X
  BY <1>0, <1>1, <1>5, <1>6, OthersGoOn
<1>11. \A x \in Order : x \in raced' <=> x \in raced
  BY <1>1, BillingConstants
<1>12. Slots' /\ InTimeKept' /\ \A c \in Client \ {q} : KnowsOrders(c)'
  BY <1>1, <1>5, <1>6, <1>11, OrdersStand
<1>13. BillingTypeOK'
  <2>1. grants' \in [Order -> Nat] /\ raced' \subseteq Order \cup User
    BY <1>0, <1>1, <1>2, BillingTyped, BillingConstants
  <2> QED
    BY <1>0, <1>1, <1>7, <1>10, <2>1, BillingTyped DEF BillingTypeOK, UserRow, OrderRow, ServedRow
<1>14. KnowsOrders(q)' /\ KnowsPayer(q)'
  BY <1>0, <1>1, <1>4, <1>5, <1>7, <1>10 DEF KnowsOrders, Serves, ReadsRow, KnowsPayer
<1>15. \A c \in Client \ {q} : KnowsPayer(c)'
  BY <1>1, <1>5, <1>6, <1>8, OthersKnowPayer
<1>16. Grants'
  <2> SUFFICES ASSUME NEW x \in Order \ raced'
               PROVE  /\ grants'[x] \in {0, 1}
                      /\ grants'[x] = 1 => orders'[x].status = "CONFIRMED"
                      /\ \A c \in Client : req'[c].at = "grant" /\ req'[c].order = x =>
                            /\ orders'[x].status = "CONFIRMED" /\ grants'[x] = 0
                            /\ \A d \in Client \ {c} : ~(req'[d].at = "grant" /\ req'[d].order = x)
                      /\ orders'[x].status = "CONFIRMED" =>
                            grants'[x] = 1 \/ x \in lost'
                            \/ \E c \in Client : req'[c].at = "grant" /\ req'[c].order = x
    BY DEF Grants
  <2>1. x \notin raced
    BY <1>11
  <2>2. CASE x = o
    <3>1. /\ orders[x].status = "CONFIRMED" /\ grants[x] = 0
          /\ \A d \in Client \ {q} : ~(req[d].at = "grant" /\ req[d].order = x)
      BY <1>0, <1>1, <2>1, <2>2 DEF Grants, o
    <3>2. grants'[x] = 1 /\ orders'[x].status = "CONFIRMED"
      BY <1>0, <1>1, <2>2, <3>1
    <3>3. \A c \in Client : ~(req'[c].at = "grant" /\ req'[c].order = x)
      BY <1>5, <1>10, <3>1
    <3> QED
      BY <3>2, <3>3
  <2>3. CASE x # o
    <3>1. grants'[x] = grants[x] /\ orders'[x] = orders[x]
      BY <1>0, <1>1, <2>3
    <3>2. \A c \in Client : req'[c].at = "grant" /\ req'[c].order = x <=> req[c].at = "grant" /\ req[c].order = x
      BY <1>5, <1>10, <2>3 DEF o
    <3> QED
      BY <1>0, <1>1, <2>1, <3>1, <3>2 DEF Grants
  <2> QED
    BY <2>2, <2>3
<1>17. Sums'
  <2> SUFFICES ASSUME raced' = {}, lost' = {}
               PROVE  /\ (\A c \in Client : req'[c].at # "grant") => acct'[Payer].sub = bought'
                      /\ \A c \in Client : req'[c].at = "grant" => Payer \in req'[c].stale
    BY DEF Sums
  <2>1. raced = {} /\ lost = {} /\ Payer \notin req[q].stale
    BY <1>1
  <2>2. ASSUME \A c \in Client : req'[c].at # "grant"
        PROVE  acct'[Payer].sub = bought'
    <3>1. \A c \in Client \ {q} : req[c].at # "grant"
      BY <1>10, <2>2
    <3>2. bought = acct[Payer].sub + Days
      BY <1>0, <1>1, <2>1, <3>1 DEF Sums
    <3> QED
      BY <1>1, <1>7, <1>9, <2>1, <3>2
  <2>3. \A c \in Client : req'[c].at = "grant" => Payer \in req'[c].stale
    BY <1>5, <1>9, <1>10, <2>1
  <2> QED
    BY <2>2, <2>3
<1>18. Rewards'
  <2>1. \A c \in Client : req'[c].at = "settle" <=> req[c].at = "settle"
    BY <1>1, <1>5, <1>10
  <2> QED
    BY <1>0, <1>1, <1>4, <1>7, <2>1 DEF Rewards
<1> QED
  BY <1>12, <1>13, <1>14, <1>15, <1>16, <1>17, <1>18 DEF BillingInv

LEMMA RewardStep ==
    ASSUME BillingInv, NEW q \in Client, Reward(q)
    PROVE  BillingInv'
<1> DEFINE row == [acct[Referrer] EXCEPT !.sub = @ + RewardDays]
           r == [req[q] EXCEPT !.at = "settle"]
           X == IF row = acct[Referrer] THEN {} ELSE {Referrer}
<1>0. /\ BillingTypeOK /\ KnowsOrders(q) /\ KnowsPayer(q) /\ Grants /\ Sums /\ Rewards
      /\ acct \in [User -> UserRow] /\ req \in [Client -> ServedRow]
  BY BillingTyped DEF BillingInv
<1>1. /\ req[q].at = "reward" /\ req[q].flag
      /\ acct' = [acct EXCEPT ![Referrer] = row] /\ Proceeds(q, r, X)
      /\ raced' = IF Payer \in req[q].stale \/ \E c \in Client : req[c].at = "settle"
                  THEN raced \cup {Payer} ELSE raced
      /\ rewards' = rewards + 1
      /\ UNCHANGED <<orders, legacy, bought, grants, lost, cut>>
  BY DEF Reward, WriteUser
<1>2. row \in UserRow
  BY <1>0, BillingConstants DEF UserRow
<1>3. r \in ServedRow /\ r.at = "settle"
  BY <1>0 DEF ServedRow, Step
<1>4. X \in SUBSET (Order \cup User)
  BY BillingConstants
<1>5. acct' \in [User -> UserRow] /\ acct'[Payer] = acct[Payer]
  BY <1>0, <1>1, <1>2, BillingConstants
<1> HIDE DEF row, r, X
<1>6. /\ req' \in [Client -> ServedRow] /\ req'[q] = r
      /\ \A c \in Client \ {q} :
            /\ req'[c].at = req[c].at /\ req'[c].order = req[c].order
            /\ req[c].stale \subseteq req'[c].stale
  BY <1>0, <1>1, <1>3, <1>4, OthersGoOn
<1>7. raced \subseteq raced' /\ \A x \in Order : x \in raced' <=> x \in raced
  BY <1>1, BillingConstants
<1>8. Slots' /\ InTimeKept' /\ \A c \in Client \ {q} : KnowsOrders(c)'
  BY <1>1, <1>3, <1>4, <1>7, OrdersStand
<1>9. BillingTypeOK'
  <2>1. raced' \subseteq Order \cup User /\ rewards' \in Nat
    BY <1>0, <1>1, BillingTyped, BillingConstants
  <2> QED
    BY <1>0, <1>1, <1>5, <1>6, <2>1, BillingTyped DEF BillingTypeOK, UserRow, OrderRow, ServedRow
<1>10. KnowsOrders(q)' /\ KnowsPayer(q)'
  BY <1>3, <1>6 DEF KnowsOrders, Serves, ReadsRow, KnowsPayer
<1>11. \A c \in Client \ {q} : KnowsPayer(c)'
  BY <1>1, <1>3, <1>4, <1>5, OthersKnowPayer
<1>12. \A c \in Client : /\ req'[c].at = "grant" <=> req[c].at = "grant"
                         /\ req[c].at = "grant" => /\ req'[c].order = req[c].order
                                                   /\ req[c].stale \subseteq req'[c].stale
  BY <1>1, <1>3, <1>6
<1>13. Grants'
  <2> SUFFICES ASSUME NEW x \in Order \ raced'
               PROVE  /\ grants'[x] \in {0, 1}
                      /\ grants'[x] = 1 => orders'[x].status = "CONFIRMED"
                      /\ \A c \in Client : req'[c].at = "grant" /\ req'[c].order = x =>
                            /\ orders'[x].status = "CONFIRMED" /\ grants'[x] = 0
                            /\ \A d \in Client \ {c} : ~(req'[d].at = "grant" /\ req'[d].order = x)
                      /\ orders'[x].status = "CONFIRMED" =>
                            grants'[x] = 1 \/ x \in lost'
                            \/ \E c \in Client : req'[c].at = "grant" /\ req'[c].order = x
    BY DEF Grants
  <2> QED
    BY <1>0, <1>1, <1>7, <1>12 DEF Grants
<1>14. Sums'
  BY <1>0, <1>1, <1>5, <1>7, <1>12 DEF Sums
<1>15. Rewards'
  <2> SUFFICES ASSUME Payer \notin raced' PROVE Rewards'
    BY DEF Rewards
  <2>1. Payer \notin raced /\ Payer \notin req[q].stale /\ \A c \in Client : req[c].at # "settle"
    BY <1>1
  <2>2. ~acct[Payer].rewarded
    BY <1>0, <1>1, <2>1 DEF KnowsPayer
  <2>3. rewards \in Nat /\ cut \in Nat /\ rewards <= cut
    BY <1>0, <2>1, <2>2, BillingTyped DEF Rewards
  <2>4. rewards' <= cut' + 1
    BY <1>1, <2>3
  <2>5. \A c \in Client : req'[c].at = "settle" <=> c = q
    BY <1>3, <1>6, <2>1
  <2> QED
    BY <1>5, <2>2, <2>4, <2>5 DEF Rewards
<1> QED
  BY <1>8, <1>9, <1>10, <1>11, <1>13, <1>14, <1>15 DEF BillingInv

LEMMA SettleStep ==
    ASSUME BillingInv, NEW q \in Client, Settle(q)
    PROVE  BillingInv'
<1> DEFINE row == [acct[Payer] EXCEPT !.rewarded = TRUE]
           X == IF row = acct[Payer] THEN {} ELSE {Payer}
<1>0. /\ BillingTypeOK /\ Grants /\ Sums /\ Rewards
      /\ acct \in [User -> UserRow] /\ req \in [Client -> ServedRow]
  BY BillingTyped DEF BillingInv
<1>1. /\ req[q].at = "settle"
      /\ acct' = [acct EXCEPT ![Payer] = row] /\ Proceeds(q, Idle, X)
      /\ UNCHANGED <<orders, legacy, bought, grants, rewards, raced, lost, cut>>
  BY DEF Settle, WriteUser, ghostVars
<1>2. row \in UserRow /\ row.sub = acct[Payer].sub /\ row.rewarded
  BY <1>0, BillingConstants DEF UserRow
<1>3. Idle \in ServedRow /\ Idle.at = "idle"
  BY RowsTyped DEF Idle
<1>4. X \in SUBSET (Order \cup User)
  BY BillingConstants
<1>5. acct' \in [User -> UserRow] /\ acct'[Payer] = row
  BY <1>0, <1>1, <1>2, BillingConstants
<1>6. Payer \in X \/ acct'[Payer] = acct[Payer]
  BY <1>5
<1> HIDE DEF row, X
<1>7. /\ req' \in [Client -> ServedRow] /\ req'[q] = Idle
      /\ \A c \in Client \ {q} :
            /\ req'[c].at = req[c].at /\ req'[c].order = req[c].order
            /\ req[c].stale \subseteq req'[c].stale
  BY <1>0, <1>1, <1>3, <1>4, OthersGoOn
<1>8. Slots' /\ InTimeKept' /\ \A c \in Client \ {q} : KnowsOrders(c)'
  BY <1>1, <1>3, <1>4, OrdersStand
<1>9. BillingTypeOK'
  BY <1>0, <1>1, <1>5, <1>7, BillingTyped DEF BillingTypeOK, UserRow, OrderRow, ServedRow
<1>10. KnowsOrders(q)' /\ KnowsPayer(q)'
  BY <1>3, <1>7, ServedKnows
<1>11. \A c \in Client \ {q} : KnowsPayer(c)'
  BY <1>1, <1>3, <1>4, <1>6, OthersKnowPayer
<1>12. \A c \in Client : /\ req'[c].at = "grant" <=> req[c].at = "grant"
                         /\ req[c].at = "grant" => /\ req'[c].order = req[c].order
                                                   /\ req[c].stale \subseteq req'[c].stale
  BY <1>1, <1>3, <1>7
<1>13. Grants'
  <2> SUFFICES ASSUME NEW x \in Order \ raced'
               PROVE  /\ grants'[x] \in {0, 1}
                      /\ grants'[x] = 1 => orders'[x].status = "CONFIRMED"
                      /\ \A c \in Client : req'[c].at = "grant" /\ req'[c].order = x =>
                            /\ orders'[x].status = "CONFIRMED" /\ grants'[x] = 0
                            /\ \A d \in Client \ {c} : ~(req'[d].at = "grant" /\ req'[d].order = x)
                      /\ orders'[x].status = "CONFIRMED" =>
                            grants'[x] = 1 \/ x \in lost'
                            \/ \E c \in Client : req'[c].at = "grant" /\ req'[c].order = x
    BY DEF Grants
  <2> QED
    BY <1>0, <1>1, <1>12 DEF Grants
<1>14. Sums'
  BY <1>0, <1>1, <1>2, <1>5, <1>12 DEF Sums
<1>15. Rewards'
  BY <1>0, <1>1, <1>2, <1>3, <1>5, <1>7 DEF Rewards
<1> QED
  BY <1>8, <1>9, <1>10, <1>11, <1>13, <1>14, <1>15 DEF BillingInv

LEMMA DieStep ==
    ASSUME BillingInv, NEW q \in Client, Die(q)
    PROVE  BillingInv'
<1>0. /\ BillingTypeOK /\ KnowsOrders(q) /\ Grants /\ Sums /\ Rewards
      /\ req \in [Client -> ServedRow]
  BY BillingTyped DEF BillingInv
<1>1. /\ Proceeds(q, Idle, {})
      /\ lost' = IF req[q].at = "grant" THEN lost \cup {req[q].order} ELSE lost
      /\ cut' = IF req[q].at = "settle" THEN cut + 1 ELSE cut
      /\ UNCHANGED <<acct, orders, legacy, bought, grants, rewards, raced>>
  BY DEF Die
<1>2. Idle \in ServedRow /\ Idle.at = "idle"
  BY RowsTyped DEF Idle
<1>3. {} \in SUBSET (Order \cup User)
  OBVIOUS
<1>4. /\ req' \in [Client -> ServedRow] /\ req'[q] = Idle
      /\ \A c \in Client \ {q} :
            /\ req'[c].at = req[c].at /\ req'[c].order = req[c].order
            /\ req[c].stale \subseteq req'[c].stale
  BY <1>0, <1>1, <1>2, <1>3, OthersGoOn
<1>5. Slots' /\ InTimeKept' /\ \A c \in Client \ {q} : KnowsOrders(c)'
  BY <1>1, <1>2, <1>3, OrdersStand
<1>6. BillingTypeOK'
  <2>1. lost' \subseteq Order
    BY <1>0, <1>1, BillingTyped DEF KnowsOrders, Serves
  <2>2. cut' \in Nat
    BY <1>0, <1>1, BillingTyped
  <2> QED
    BY <1>0, <1>1, <1>4, <2>1, <2>2, BillingTyped DEF BillingTypeOK, UserRow, OrderRow, ServedRow
<1>7. KnowsOrders(q)' /\ KnowsPayer(q)'
  BY <1>2, <1>4, ServedKnows
<1>8. \A c \in Client \ {q} : KnowsPayer(c)'
  BY <1>1, <1>2, <1>3, OthersKnowPayer
<1>9. Grants'
  <2> SUFFICES ASSUME NEW x \in Order \ raced'
               PROVE  /\ grants'[x] \in {0, 1}
                      /\ grants'[x] = 1 => orders'[x].status = "CONFIRMED"
                      /\ \A c \in Client : req'[c].at = "grant" /\ req'[c].order = x =>
                            /\ orders'[x].status = "CONFIRMED" /\ grants'[x] = 0
                            /\ \A d \in Client \ {c} : ~(req'[d].at = "grant" /\ req'[d].order = x)
                      /\ orders'[x].status = "CONFIRMED" =>
                            grants'[x] = 1 \/ x \in lost'
                            \/ \E c \in Client : req'[c].at = "grant" /\ req'[c].order = x
    BY DEF Grants
  <2>1. \A c \in Client : req'[c].at = "grant" => c # q /\ req[c].at = "grant" /\ req'[c].order = req[c].order
    BY <1>2, <1>4
  <2>2. ASSUME orders'[x].status = "CONFIRMED"
        PROVE  grants'[x] = 1 \/ x \in lost' \/ \E c \in Client : req'[c].at = "grant" /\ req'[c].order = x
    <3>1. CASE \E c \in Client : req[c].at = "grant" /\ req[c].order = x
      BY <1>1, <1>4, <3>1
    <3>2. CASE grants[x] = 1 \/ x \in lost
      BY <1>1, <3>2
    <3> QED
      BY <1>0, <1>1, <2>2, <3>1, <3>2 DEF Grants
  <2> QED
    BY <1>0, <1>1, <2>1, <2>2 DEF Grants
<1>10. Sums'
  <2> SUFFICES ASSUME raced' = {}, lost' = {} PROVE Sums'
    BY DEF Sums
  <2>1. req[q].at # "grant" /\ lost = {} /\ raced = {}
    BY <1>1
  <2>2. \A c \in Client : /\ req'[c].at = "grant" <=> req[c].at = "grant"
                          /\ req[c].at = "grant" => req[c].stale \subseteq req'[c].stale
    BY <1>2, <1>4, <2>1
  <2> QED
    BY <1>0, <1>1, <2>1, <2>2 DEF Sums
<1>11. Rewards'
  <2>1. rewards \in Nat /\ cut \in Nat
    BY <1>0, BillingTyped
  <2>2. \A c \in Client : req'[c].at = "settle" <=> c # q /\ req[c].at = "settle"
    BY <1>2, <1>4
  <2> QED
    BY <1>0, <1>1, <2>1, <2>2 DEF Rewards
<1> QED
  BY <1>5, <1>6, <1>7, <1>8, <1>9, <1>10, <1>11 DEF BillingInv

\* Accounts change by what no payment reads.
LEMMA AccessStep ==
    ASSUME BillingInv, NEW u \in User, ActivateTrial(u) \/ GrantManual(u)
    PROVE  BillingInv'
<1>0. /\ BillingTypeOK /\ acct \in [User -> UserRow]
  BY BillingTyped DEF BillingInv
<1>1. UNCHANGED <<orders, req, legacy, bought, grants, rewards, raced, lost, cut>>
  BY DEF ActivateTrial, GrantManual, ghostVars
<1>2. PICK a \in UserRow : /\ acct' = [acct EXCEPT ![u] = a]
                           /\ a.sub = acct[u].sub /\ a.rewarded = acct[u].rewarded
  <2>0. acct[u] \in UserRow
    BY <1>0
  <2>1. CASE ActivateTrial(u)
    <3> DEFINE a == [acct[u] EXCEPT !.used = TRUE, !.trial = TrialDays]
    <3>1. a \in UserRow /\ a.sub = acct[u].sub /\ a.rewarded = acct[u].rewarded
      BY <2>0, BillingConstants DEF UserRow
    <3>2. acct' = [acct EXCEPT ![u] = a]
      BY <1>0, <2>1 DEF ActivateTrial, UserRow
    <3> QED
      BY <3>1, <3>2
  <2>2. CASE GrantManual(u)
    <3> DEFINE a == [acct[u] EXCEPT !.manual = AccessLeft(acct[u]) + 1]
    <3>1. AccessLeft(acct[u]) + 1 \in Nat
      BY <2>0 DEF AccessLeft, Larger, UserRow
    <3>2. a \in UserRow /\ a.sub = acct[u].sub /\ a.rewarded = acct[u].rewarded
      BY <2>0, <3>1 DEF UserRow
    <3>3. acct' = [acct EXCEPT ![u] = a]
      BY <1>0, <2>2 DEF GrantManual, UserRow
    <3> QED
      BY <3>2, <3>3
  <2> QED
    BY <2>1, <2>2
<1>3. acct' \in [User -> UserRow]
  BY <1>0, <1>2
<1>4. acct'[Payer].sub = acct[Payer].sub /\ acct'[Payer].rewarded = acct[Payer].rewarded
  BY <1>0, <1>2, BillingConstants
<1>5. BillingTypeOK'
  BY <1>0, <1>1, <1>3, BillingTyped DEF BillingTypeOK, UserRow, OrderRow, ServedRow
<1>6. \A x \in Order : (Keyed(x)' <=> Keyed(x)) /\ (Rivalled(x)' <=> Rivalled(x))
  BY <1>1 DEF Keyed, Rivalled
<1>7. Slots' /\ InTimeKept'
  BY <1>1, <1>6 DEF BillingInv, Slots, InTimeKept
<1>8. ASSUME NEW c \in Client PROVE KnowsOrders(c)' /\ KnowsPayer(c)'
  <2>1. KnowsOrders(c) /\ KnowsPayer(c)
    BY DEF BillingInv
  <2>2. Serves(c)'
    BY <1>1, <1>6, <2>1 DEF KnowsOrders, Serves
  <2>3. \A x \in Order : ReadsRow(c, x)'
    BY <1>1, <1>6, <2>1 DEF KnowsOrders, ReadsRow
  <2>4. KnowsPayer(c)'
    BY <1>1, <1>4, <2>1 DEF KnowsPayer
  <2> QED
    BY <2>2, <2>3, <2>4 DEF KnowsOrders
<1>9. Grants' /\ Sums' /\ Rewards'
  BY <1>1, <1>4 DEF BillingInv, Grants, Sums, Rewards
<1> QED
  BY <1>5, <1>7, <1>8, <1>9 DEF BillingInv

\* Time passes.
LEMMA TickStep ==
    ASSUME BillingInv, Tick
    PROVE  BillingInv'
<1>0. /\ BillingTypeOK /\ Slots /\ InTimeKept
      /\ acct \in [User -> UserRow] /\ orders \in [Order -> OrderRow] /\ bought \in Nat
  BY BillingTyped DEF BillingInv
<1>1. /\ \A q \in Client : req[q].at \notin {"confirm", "grant"}
      /\ acct' = [u \in User |-> [acct[u] EXCEPT !.trial = Less(@), !.sub = Less(@), !.manual = Less(@)]]
      /\ orders' = [o \in Order |-> [orders[o] EXCEPT !.left =
                       IF orders[o].status = "none" THEN @ ELSE Larger(@ - 1, -(Grace + 1))]]
      /\ bought' = Less(bought)
      /\ UNCHANGED <<req, legacy, grants, rewards, raced, lost, cut>>
  BY DEF Tick
<1>2. \A n \in Nat : Less(n) \in Nat
  BY DEF Less
<1>3. \A u \in User : /\ acct'[u] \in UserRow /\ acct'[u].sub = Less(acct[u].sub)
                      /\ acct'[u].rewarded = acct[u].rewarded
  <2> SUFFICES ASSUME NEW u \in User
               PROVE  /\ acct'[u] \in UserRow /\ acct'[u].sub = Less(acct[u].sub)
                      /\ acct'[u].rewarded = acct[u].rewarded
    OBVIOUS
  <2>1. acct[u] \in UserRow
    BY <1>0
  <2>2. Less(acct[u].trial) \in Nat /\ Less(acct[u].sub) \in Nat /\ Less(acct[u].manual) \in Nat
    BY <1>2, <2>1 DEF UserRow
  <2>3. acct'[u] = [acct[u] EXCEPT !.trial = Less(acct[u].trial), !.sub = Less(acct[u].sub),
                                   !.manual = Less(acct[u].manual)]
    BY <1>1, <2>1 DEF UserRow
  <2> QED
    BY <2>1, <2>2, <2>3 DEF UserRow
<1>4. \A o \in Order : /\ orders'[o] \in OrderRow
                       /\ orders'[o].status = orders[o].status /\ orders'[o].hash = orders[o].hash
                       /\ orders'[o].timely = orders[o].timely /\ orders'[o].key = orders[o].key
                       /\ InTime(orders'[o]) => InTime(orders[o])
  <2> SUFFICES ASSUME NEW o \in Order
               PROVE  /\ orders'[o] \in OrderRow
                      /\ orders'[o].status = orders[o].status /\ orders'[o].hash = orders[o].hash
                      /\ orders'[o].timely = orders[o].timely /\ orders'[o].key = orders[o].key
                      /\ InTime(orders'[o]) => InTime(orders[o])
    OBVIOUS
  <2> DEFINE l == IF orders[o].status = "none" THEN orders[o].left
                  ELSE Larger(orders[o].left - 1, -(Grace + 1))
  <2>1. orders[o] \in OrderRow /\ orders[o].left \in -(Grace + 1)..Window
    BY <1>0 DEF OrderRow
  <2>2. l \in -(Grace + 1)..Window /\ (l >= -Grace => orders[o].left >= -Grace)
    BY <2>1, BillingConstants DEF Larger
  <2>3. orders'[o] = [orders[o] EXCEPT !.left = l]
    BY <1>1, <2>1 DEF OrderRow
  <2> HIDE DEF l
  <2> QED
    BY <2>1, <2>2, <2>3 DEF OrderRow, InTime
<1>5. BillingTypeOK'
  <2>1. acct' \in [User -> UserRow]
    BY <1>1, <1>3
  <2>2. orders' \in [Order -> OrderRow]
    BY <1>1, <1>4
  <2>3. bought' \in Nat
    BY <1>0, <1>1, <1>2
  <2> QED
    BY <1>0, <1>1, <2>1, <2>2, <2>3, BillingTyped DEF BillingTypeOK, UserRow, OrderRow, ServedRow
<1>6. \A x \in Order : (Keyed(x)' <=> Keyed(x)) /\ (Rivalled(x)' <=> Rivalled(x))
  BY <1>1, <1>4 DEF Keyed, Rivalled
<1>7. Slots'
  <2>1. \A x, y \in Order : orders'[x].key /\ orders'[y].key => x = y
    BY <1>0, <1>4 DEF Slots
  <2>2. \A x \in Order \ legacy : Keyed(x)'
    BY <1>0, <1>6 DEF Slots
  <2>3. (\E x \in Order \ legacy : orders'[x].status # "none") => \A x \in Order : Keyed(x)'
    BY <1>0, <1>4, <1>6 DEF Slots
  <2>4. \A x \in Order : orders'[x].status = "AWAITING_PAYMENT" => ~orders'[x].timely
    BY <1>0, <1>4 DEF Slots
  <2>5. \A x \in Order : orders'[x].timely => orders'[x].hash # NoTx
    BY <1>0, <1>4 DEF Slots
  <2>6. \A x \in Order : orders'[x].key \/ orders'[x].hash # NoTx => orders'[x].status # "none"
    BY <1>0, <1>4 DEF Slots
  <2> QED
    BY <1>1, <2>1, <2>2, <2>3, <2>4, <2>5, <2>6 DEF Slots
<1>8. InTimeKept'
  <2> SUFFICES ASSUME NEW x \in Order \ raced', InTime(orders'[x]), orders'[x].status \in Dropped
               PROVE  Rivalled(x)'
    BY <1>1 DEF InTimeKept, InTime, Dropped, Rivalled
  <2>1. Rivalled(x)
    BY <1>0, <1>1, <1>4 DEF InTimeKept, InTime, Dropped, Rivalled
  <2> QED
    BY <1>6, <2>1
<1>9. ASSUME NEW c \in Client PROVE KnowsOrders(c)' /\ KnowsPayer(c)'
  <2>1. KnowsOrders(c) /\ KnowsPayer(c)
    BY DEF BillingInv
  <2>2. Serves(c)'
    BY <1>1, <1>6, <2>1 DEF KnowsOrders, Serves
  <2>3. \A x \in Order : ReadsRow(c, x)'
    BY <1>1, <1>4, <1>6, <2>1 DEF KnowsOrders, ReadsRow
  <2>4. KnowsPayer(c)'
    BY <1>1, <1>3, <2>1, BillingConstants DEF KnowsPayer
  <2> QED
    BY <2>2, <2>3, <2>4 DEF KnowsOrders
<1>10. Grants'
  BY <1>1, <1>4 DEF BillingInv, Grants
<1>11. Sums' /\ Rewards'
  BY <1>1, <1>3, BillingConstants DEF BillingInv, Sums, Rewards
<1> QED
  BY <1>5, <1>7, <1>8, <1>9, <1>10, <1>11 DEF BillingInv

LEMMA BillingInvStep == BillingInv /\ [BillingNext]_billingVars => BillingInv'
<1> SUFFICES ASSUME BillingInv, [BillingNext]_billingVars PROVE BillingInv'
  OBVIOUS
<1>1. CASE AccessNext
  BY <1>1, AccessStep DEF AccessNext
<1>2. ASSUME NEW q \in Client, Start(q) PROVE BillingInv'
  <2>1. CASE ListOrders(q) \/ CreateOrder(q)
    BY <2>1, ReadStep
  <2>2. CASE \E o \in Order : CheckPayment(q, o) \/ \E t \in Tx : SubmitTx(q, o, t)
    <3>1. PICK o \in Order : CheckPayment(q, o) \/ \E t \in Tx : SubmitTx(q, o, t)
      BY <2>2
    <3>2. CASE \E t \in Tx : SubmitTx(q, o, t)
      BY <3>2, OneOrderStep
    <3>3. CASE CheckPayment(q, o)
      <4>1. orders[o].hash \in Tx
        BY <3>3, BillingTyped DEF CheckPayment, BillingInv, OrderRow
      <4> QED
        BY <3>3, <4>1, OneOrderStep
    <3> QED
      BY <3>1, <3>2, <3>3
  <2> QED
    BY <1>2, <2>1, <2>2 DEF Start
<1>3. ASSUME NEW q \in Client, Continue(q) PROVE BillingInv'
  BY <1>3, RowsStep, LeaveStep, InsertStep, HashStep, NotVerifiedStep, VerifiedStep, ConfirmStep,
     GrantStep, RewardStep, SettleStep DEF Continue
<1>4. ASSUME NEW q \in Client, Die(q) PROVE BillingInv'
  BY <1>4, DieStep
<1>5. CASE Tick
  BY <1>5, TickStep
<1>6. CASE UNCHANGED billingVars
  <2>1. UNCHANGED <<acct, orders, req, legacy, bought, grants, rewards, raced, lost, cut>>
    BY <1>6 DEF billingVars, ghostVars
  <2>2. BillingTypeOK' /\ Slots' /\ InTimeKept'
    BY <2>1 DEF BillingInv, BillingTypeOK, Slots, Keyed, InTimeKept
  <2>3. \A q \in Client : KnowsOrders(q)' /\ KnowsPayer(q)'
    BY <2>1 DEF BillingInv, KnowsOrders, Serves, ReadsRow, Keyed, Rivalled, KnowsPayer
  <2>4. Grants' /\ Sums' /\ Rewards'
    BY <2>1 DEF BillingInv, Grants, Sums, Rewards
  <2> QED
    BY <2>2, <2>3, <2>4 DEF BillingInv
<1> QED
  BY <1>1, <1>2, <1>3, <1>4, <1>5, <1>6 DEF BillingNext, PaymentNext

LEMMA BillingInvSafe == BillingInv => BillingSafe
<1> SUFFICES ASSUME BillingInv PROVE BillingSafe
  OBVIOUS
<1> USE DEF BillingInv
<1>1. GrantedOnce /\ ConfirmedIsGranted
  <2>1. \A o \in Order \ raced : grants[o] <= 1
    BY DEF Grants
  <2> QED
    BY <2>1 DEF GrantedOnce, ConfirmedIsGranted, Grants
<1>2. DaysAddUp
  BY DEF DaysAddUp, Sums
<1>3. RewardedOnce
  BY BillingTyped DEF RewardedOnce, Rewards
<1>4. OneActive
  BY DEF OneActive, Slots, Keyed
<1> QED
  BY <1>1, <1>2, <1>3, <1>4 DEF BillingSafe

\* However requests interleave and die: an order's days are granted once unless two
\* requests raced for its row, and only a request that dies between the two writes
\* loses them; the referrer is rewarded once, up to races for the payer's row and
\* deaths after the reward; the order of a payment that was sent in time keeps its
\* slot.
THEOREM BillingIsSafe ==
    BillingInit /\ [][BillingNext]_billingVars => []BillingSafe
<1>1. BillingInit /\ [][BillingNext]_billingVars => []BillingInv
  BY BillingInvInit, BillingInvStep, PTL
<1> QED
  BY <1>1, BillingInvSafe, PTL
=============================================================================
