---------------------------- MODULE MCBackOffice ----------------------------
(***************************************************************************)
(* Instances of the components behind the HTTP API: payments, access,      *)
(* accounts and the statistics period.  They share no state, so that one   *)
(* run checks each of them by itself: part names the one that moves.       *)
(***************************************************************************)
EXTENDS Billing, Accounts, StatisticsPeriod

CONSTANTS payer, referrer, c1, c2, t1, t2, p1, r1, r2, o1, o2, token, q1
VARIABLE part

officeVars == <<billingVars, accountVars, statsVars, part>>

\* The second call of reset repeats the first.
MCResetId(q) == IF q = "again" THEN "first" ELSE q

\* The model does not tell hashes apart but by who has the same one: the first
\* to be submitted is called t1.
Hashes == {orders[o].hash : o \in Order} \cup {req[q].hash : q \in Client}
NamedInOrder == t2 \in Hashes => t1 \in Hashes
FirstIsT1 == \A q \in Client : req'[q].hash = t2 => Hashes \cap Tx # {}

\* One request after the other; once, c2 is served while c1 is, and what they left
\* is only listed then.  A unit of time passes while one is served at most.
Alone == Start(c1) \/ \E q \in Client : Continue(q) \/ Die(q)
Together == ListOrders(c1) \/ \E q \in Client : Continue(q) \/ Die(q)
Overlap == legacy = {} /\ req[c1].at # "idle" /\ Start(c2)
Passes == Tick /\ \E q \in Client : req[q].at = "idle"

\* Of three resets, two look at the trades at once.
TwoAtOnce == Cardinality({q \in Request : call'[q].at \notin {"idle", "done", "refused"}}) <= 2

OfficeInit ==
    /\ BillingInit /\ AccountsInit /\ StatsInit
    /\ part \in {"payments", "access", "accounts", "statistics"}
    /\ part # "payments" => legacy = {}
    /\ NamedInOrder

PaymentsNext ==
    /\ \/ part = "payments" /\ part' = part /\ Alone
       \/ part = "payments" /\ part' = "overlap" /\ Overlap
       \/ part = "overlap" /\ part' = part /\ Together
       \/ part \in {"payments", "overlap"} /\ part' = part /\ Passes
    /\ FirstIsT1

OfficeNext ==
    \/ PaymentsNext /\ UNCHANGED <<accountVars, statsVars>>
    \/ /\ part = "access" /\ (AccessNext \/ Tick)
       /\ UNCHANGED <<accountVars, statsVars, part>>
    \/ part = "accounts" /\ AccountsNext /\ UNCHANGED <<billingVars, statsVars, part>>
    \/ part = "statistics" /\ StatsNext /\ TwoAtOnce /\ UNCHANGED <<billingVars, accountVars, part>>

OfficeSpec == OfficeInit /\ [][OfficeNext]_officeVars /\ BillingFairness
=============================================================================
