------------------------- MODULE NotificationOutbox -------------------------
(***************************************************************************)
(* TelegramTradeNotifier: trade events become rows of notification_outbox, *)
(* which one loop sends, oldest attempt first, until each is marked sent.  *)
(* Telegram and the database may fail at every call, and a call to         *)
(* Telegram may have had its effect although it raised.                    *)
(*                                                                         *)
(* One process delivers.  _delivery_lock is one of its own: a worker that  *)
(* drains, or lost its lease and has not noticed, may send a row that its  *)
(* successor is sending.                                                   *)
(***************************************************************************)
EXTENDS Integers, Sequences, FiniteSets

CONSTANTS
    Event,          \* hashes of user and text
    Reachable,      \* events of users with a chat id
    Limit,          \* rows that one pass reads
    MaxBackoff,     \* the longest pause between two attempts
    Late,           \* bound: how long a row may be overdue
    MaxCrashes      \* bound

ASSUME OutboxAssumption ==
    /\ Reachable \subseteq Event
    /\ Limit \in Nat \ {0} /\ MaxBackoff \in Nat \ {0} /\ {Late, MaxCrashes} \subseteq Nat

VARIABLES
    rows,        \* notification_outbox
    batch,       \* the rows of the pass that are still to be handled
    crashes,
    deliver,     \* what deliver_pending is about to do with the first of them
    received,    \* ghost: how often the user got the message, up to 2
    doubt        \* ghost: events with an effect that was not recorded

outboxVars == <<rows, batch, crashes, deliver, received, doubt>>

\* next_attempt_at - now; a new row carries 0.0, which was long ago.
LongAgo == -(Late + 1)
Row(status) == [status |-> status, attempts |-> 0, due |-> LongAgo]
Rows == [status : {"none", "pending", "sent"}, attempts : 0..MaxBackoff,
         due : LongAgo..MaxBackoff]

OutboxTypeOK ==
    /\ rows \in [Event -> Rows]
    /\ batch \in Seq(Event) /\ Len(batch) <= Limit
    /\ deliver \in {"idle", "next", "mark", "retry"}
    /\ crashes \in 0..MaxCrashes
    /\ received \in [Event -> 0..2]
    /\ doubt \subseteq Event

OutboxInit ==
    /\ rows = [e \in Event |-> Row("none")]
    /\ batch = <<>> /\ deliver = "idle" /\ crashes = 0
    /\ received = [e \in Event |-> 0] /\ doubt = {}

-----------------------------------------------------------------------------
Pending == {e \in Event : rows[e].status = "pending"}

\* set_once: the row of an event is written once.
Queued(e) == IF rows[e].status = "none" THEN [rows EXCEPT ![e] = Row("pending")] ELSE rows

\* position_opened, position_closed: a database that fails loses the event.
Enqueue(e) ==
    /\ rows' = Queued(e)
    /\ UNCHANGED <<crashes, batch, deliver, received, doubt>>

\* Mutant: rows are read in no order in particular.
InTurnAnyhow(s) == TRUE

\* The first rows by next_attempt_at.
InTurn(s) ==
    /\ \A i, j \in DOMAIN s : i < j => rows[s[i]].due <= rows[s[j]].due
    /\ \A i \in DOMAIN s, e \in Pending : e \in {s[k] : k \in DOMAIN s} \/ rows[s[i]].due <= rows[e].due

Read ==
    /\ deliver = "idle"
    /\ LET n == IF Cardinality(Pending) < Limit THEN Cardinality(Pending) ELSE Limit
       IN  \E s \in [1..n -> Pending] :
              /\ \A i, j \in 1..n : s[i] = s[j] => i = j
              /\ InTurn(s)
              /\ batch' = s
    /\ deliver' = IF batch' = <<>> THEN "idle" ELSE "next"
    /\ UNCHANGED <<crashes, rows, received, doubt>>

First == Head(batch)

Rest ==
    /\ batch' = Tail(batch)
    /\ deliver' = IF Tail(batch) = <<>> THEN "idle" ELSE "next"

Skip ==
    /\ deliver = "next" /\ rows[First].due > 0
    /\ Rest
    /\ UNCHANGED <<crashes, rows, received, doubt>>

More(n) == IF n < 2 THEN n + 1 ELSE n

SendOk ==
    /\ deliver = "next" /\ rows[First].due <= 0 /\ First \in Reachable
    /\ received' = [received EXCEPT ![First] = More(@)]
    /\ deliver' = "mark"
    /\ UNCHANGED <<crashes, rows, batch, doubt>>

\* No chat id, or Telegram raised, perhaps after it accepted the message.
SendRaises ==
    /\ deliver = "next" /\ rows[First].due <= 0
    /\ deliver' = "retry"
    /\ \/ UNCHANGED <<received, doubt>>
       \/ /\ First \in Reachable
          /\ received' = [received EXCEPT ![First] = More(@)]
          /\ doubt' = doubt \cup {First}
    /\ UNCHANGED <<crashes, rows, batch>>

Mark ==
    /\ deliver = "mark"
    /\ rows' = [rows EXCEPT ![First].status = "sent"]
    /\ Rest
    /\ UNCHANGED <<crashes, received, doubt>>

MarkRaises ==
    /\ deliver = "mark"
    /\ deliver' = "retry"
    /\ doubt' = doubt \cup {First}
    /\ UNCHANGED <<crashes, rows, batch, received>>

\* Mutant: an event that could not be sent is given up as sent.
BackedOffForGood(r) == [r EXCEPT !.status = "sent"]

\* min(300, 2 ** attempts) seconds
BackedOff(r) ==
    LET n == IF r.attempts < MaxBackoff THEN r.attempts + 1 ELSE r.attempts
    IN  [r EXCEPT !.attempts = n, !.due = n]

Retry ==
    /\ deliver = "retry"
    /\ rows' = [rows EXCEPT ![First] = BackedOff(@)]
    /\ Rest
    /\ UNCHANGED <<crashes, received, doubt>>

\* The write of the attempt raises: the pass ends.
Abort ==
    /\ deliver = "retry"
    /\ batch' = <<>> /\ deliver' = "idle"
    /\ UNCHANGED <<crashes, rows, received, doubt>>

Crash ==
    /\ deliver # "idle" /\ crashes < MaxCrashes
    /\ crashes' = crashes + 1
    /\ batch' = <<>> /\ deliver' = "idle"
    /\ doubt' = IF deliver = "mark" THEN doubt \cup {First} ELSE doubt
    /\ UNCHANGED <<rows, received>>

Sooner(r) == IF r.status # "pending" \/ r.due = LongAgo THEN r ELSE [r EXCEPT !.due = @ - 1]

OutboxTick ==
    /\ \A e \in Pending : rows[e].due # -Late
    /\ rows' = [e \in Event |-> Sooner(rows[e])]
    /\ UNCHANGED <<crashes, batch, deliver, received, doubt>>

Deliver == Read \/ Skip \/ SendOk \/ SendRaises \/ Mark \/ MarkRaises \/ Retry \/ Abort

OutboxNext == (\E e \in Event : Enqueue(e)) \/ Deliver \/ Crash \/ OutboxTick

\* The event at hand is sent, marked, or put off.
Sends(e) == deliver = "next" /\ First = e /\ SendOk
Marks(e) == deliver = "mark" /\ First = e /\ Mark
PutsOff(e) == deliver = "retry" /\ First = e /\ Retry

\* The loop goes on and time passes; for an event that is tried again and again
\* each of the calls succeeds at last.
OutboxFairness ==
    /\ WF_outboxVars(Deliver) /\ WF_outboxVars(OutboxTick)
    /\ \A e \in Event : SF_outboxVars(Sends(e)) /\ SF_outboxVars(Marks(e)) /\ SF_outboxVars(PutsOff(e))

-----------------------------------------------------------------------------
(* Properties.                                                              *)

\* What is marked as sent was received, and is received again only after a
\* call whose outcome was lost.
SentIsReceived ==
    /\ OutboxTypeOK
    /\ \A e \in Event :
        /\ rows[e].status = "sent" => received[e] > 0
        /\ received[e] > 1 => e \in doubt

\* An event is sent in the end, whatever the events are that never can be.
EventIsSent == \A e \in Reachable : rows[e].status = "pending" ~> rows[e].status = "sent"
=============================================================================
