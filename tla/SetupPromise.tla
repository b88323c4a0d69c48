---------------------------- MODULE SetupPromise ----------------------------
(***************************************************************************)
(* What the setup lifecycle of one symbol of an account promises: at most  *)
(* one structure is followed, first as a watch and then armed; an armed    *)
(* structure is followed until it ends, triggered or cancelled, and a      *)
(* structure that ended is barred for a while.  Only a restart may forget  *)
(* what was followed or barred, and it never follows what is barred.       *)
(***************************************************************************)
CONSTANTS Structure, Side(_), NoSetup

VARIABLES
    up,          \* the worker runs
    watching,    \* the structure that is watched, or NoSetup
    armed,       \* the structure that is armed, or NoSetup
    barred       \* structures that may not be armed

vars == <<up, watching, armed, barred>>

TypeOK ==
    /\ up \in BOOLEAN
    /\ watching \in Structure \cup {NoSetup}
    /\ armed \in Structure \cup {NoSetup}
    /\ barred \subseteq Structure

Init == up = TRUE /\ watching = NoSetup /\ armed = NoSetup /\ barred = {}

Watch(s) ==
    /\ watching = NoSetup /\ armed = NoSetup
    /\ watching' = s
    /\ UNCHANGED <<armed, barred>>

GiveUp ==
    /\ watching # NoSetup
    /\ watching' = NoSetup
    /\ UNCHANGED <<armed, barred>>

\* Only an unbarred structure is armed, and only one of the watched side.
Arm(s) ==
    /\ armed = NoSetup /\ s \notin barred
    /\ watching # NoSetup => Side(s) = Side(watching)
    /\ armed' = s /\ watching' = NoSetup
    /\ UNCHANGED barred

End ==
    /\ armed # NoSetup
    /\ barred' = barred \cup {armed}
    /\ armed' = NoSetup
    /\ UNCHANGED watching

Lapse(S) ==
    /\ armed \notin S
    /\ barred' = barred \ S
    /\ UNCHANGED <<watching, armed>>

Follow ==
    \/ \E s \in Structure : Watch(s) \/ Arm(s)
    \/ GiveUp \/ End
    \/ \E S \in SUBSET Structure : Lapse(S)

Crash == watching' = NoSetup /\ armed' = NoSetup /\ barred' = {}

Recover(w, a, B) ==
    /\ w = NoSetup \/ a = NoSetup
    /\ a \notin B
    /\ watching' = w /\ armed' = a /\ barred' = B

Next ==
    \/ up /\ up' /\ Follow
    \/ up /\ ~up' /\ Crash
    \/ /\ ~up /\ up'
       /\ \E w, a \in Structure \cup {NoSetup}, B \in SUBSET Structure : Recover(w, a, B)

Spec == Init /\ [][Next]_vars
=============================================================================
