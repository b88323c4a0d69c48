------------------------------- MODULE Billing -------------------------------
(***************************************************************************)
(* LIVE access of one account and of the account that referred it: the     *)
(* trial, payment orders from their creation to the days they buy, the     *)
(* reward of the referrer, days granted by an administrator.               *)
(*                                                                         *)
(* Requests are served at once, in threads, and take no lock that spans    *)
(* what they read and what they write; each may die between two writes.    *)
(* Times are what is left of them, in one unit for minutes, hours and      *)
(* days: only the order of the deadlines of an order matters.              *)
(***************************************************************************)
EXTENDS Integers, FiniteSets, Functions

CONSTANTS
    Client,           \* requests that are served at once
    Payer, Referrer,  \* user ids; Payer carries Referrer in referred_by_user_id
    MaxOrders,        \* bound: payment orders of the payer
    MaxGrants,        \* bound: an order that was granted that often is not verified again
    Tx,               \* transaction hashes
    NoTx,
    Days,             \* duration_days of the plan
    RewardDays,       \* REWARD_BY_DAYS of the plan
    TrialDays,
    Window,           \* an unpaid order expires after it
    Grace             \* PAYMENT_REVERIFY_GRACE

ASSUME BillingAssumption ==
    /\ Payer # Referrer /\ NoTx \notin Tx
    /\ {MaxOrders, MaxGrants} \subseteq Nat
    /\ {Payer, Referrer} \cap (1..MaxOrders) = {}
    /\ {Days, RewardDays, TrialDays, Window, Grace} \subseteq Nat \ {0}

VARIABLES
    acct,       \* acct[u]: the user row
    orders,     \* orders[o]: the payment_orders row, numbered by created_at
    req,        \* req[q]: what a request does next, and what it has read
    legacy,     \* orders of older builds, which had no active_order_key
    bought,     \* ghost: days of CONFIRMED orders that are left
    grants,     \* ghost: grants[o], how often an order was granted
    rewards,    \* ghost: rewards of the referrer for the payer
    raced,      \* ghost: rows that a request acted on by what it had read, when
                \* another request had written them since
    lost,       \* ghost: orders whose request died between CONFIRMED and the days
    cut         \* ghost: rewards whose request died before the payer's row said so

ghostVars == <<legacy, bought, grants, rewards, raced, lost, cut>>
billingVars == <<acct, orders, req, ghostVars>>

User == {Payer, Referrer}
Order == 1..MaxOrders
Active == {"AWAITING_PAYMENT", "VERIFYING"}
Ended == {"CONFIRMED", "EXPIRED", "CANCELLED_DUPLICATE"}
Status == Active \cup Ended \cup {"none", "INVALID"}
Step == {"idle", "rows", "listed", "insert", "submit", "verify", "confirm", "grant", "reward", "settle"}
Write == {"keep", "expire", "release", "cancel", "take"}

NoOrder == [status |-> "none", left |-> 0, hash |-> NoTx, timely |-> FALSE, key |-> FALSE]
NewUser == [used |-> FALSE, trial |-> 0, sub |-> 0, manual |-> 0, rewarded |-> FALSE]
Nothing == [o \in Order |-> "keep"]
Idle == [at |-> "idle", order |-> 0, hash |-> NoTx, flag |-> FALSE, expires |-> 0,
         todo |-> Nothing, stale |-> {}]

BillingTypeOK ==
    /\ acct \in [User -> [used : BOOLEAN, trial : Nat, sub : Nat, manual : Nat, rewarded : BOOLEAN]]
    /\ orders \in [Order -> [status : Status, left : -(Grace + 1)..Window,
                             hash : Tx \cup {NoTx}, timely : BOOLEAN, key : BOOLEAN]]
    /\ req \in [Client -> [at : Step, order : Order \cup {0}, hash : Tx \cup {NoTx},
                           flag : BOOLEAN, expires : Nat, todo : [Order -> Write],
                           stale : SUBSET (Order \cup User)]]
    /\ legacy \subseteq Order /\ lost \subseteq Order /\ raced \subseteq Order \cup User
    /\ bought \in Nat /\ grants \in [Order -> Nat] /\ rewards \in Nat /\ cut \in Nat

\* Older builds could leave two active orders, of which the user paid one.
Legacy == [NoOrder EXCEPT !.status = "AWAITING_PAYMENT", !.left = Window]
BillingInit ==
    /\ acct = [u \in User |-> NewUser]
    /\ legacy \in {{}, {1, 2} \cap Order}
    /\ \E paid \in SUBSET legacy, t \in Tx :
          /\ \A x, y \in paid : x = y
          /\ orders = [o \in Order |->
                IF o \in paid
                THEN [Legacy EXCEPT !.status = "VERIFYING", !.hash = t, !.timely = TRUE]
                ELSE IF o \in legacy THEN Legacy ELSE NoOrder]
    /\ req = [q \in Client |-> Idle]
    /\ bought = 0 /\ grants = [o \in Order |-> 0] /\ rewards = 0
    /\ raced = {} /\ lost = {} /\ cut = 0

-----------------------------------------------------------------------------
(* What requests know of each other's writes: nothing.                      *)

\* Request q goes on with r; what the others have read of X is out of date.
Proceeds(q, r, X) ==
    req' = [c \in Client |-> IF c = q THEN r
                             ELSE IF req[c].at = "idle" THEN req[c]
                             ELSE [req[c] EXCEPT !.stale = @ \cup X]]

\* Request q writes the row of o and goes on with r.
WriteOrder(q, o, row, r) ==
    /\ orders' = [orders EXCEPT ![o] = row]
    /\ Proceeds(q, r, IF row = orders[o] THEN {} ELSE {o})
    /\ raced' = raced \cup ({o} \cap req[q].stale)

\* The same, of the row of a user.
WriteUser(q, u, row, r) ==
    /\ acct' = [acct EXCEPT ![u] = row]
    /\ Proceeds(q, r, IF row = acct[u] THEN {} ELSE {u})

-----------------------------------------------------------------------------
(* Access.  One write each, of fields that nothing else writes.             *)

Larger(a, b) == IF a >= b THEN a ELSE b
AccessLeft(a) == Larger(a.trial, Larger(a.sub, a.manual))

\* A trial is started once, whatever became of it.
ActivateTrial(u) ==
    /\ AccessLeft(acct[u]) = 0 /\ ~acct[u].used
    /\ acct' = [acct EXCEPT ![u].used = TRUE, ![u].trial = TrialDays]
    /\ UNCHANGED <<orders, req, ghostVars>>

\* An administrator adds a day to whatever access there is.
GrantManual(u) ==
    /\ acct[u].manual = 0
    /\ acct' = [acct EXCEPT ![u].manual = AccessLeft(acct[u]) + 1]
    /\ UNCHANGED <<orders, req, ghostVars>>

AccessNext == \E u \in User : ActivateTrial(u) \/ GrantManual(u)

-----------------------------------------------------------------------------
(* Orders.                                                                  *)

Due(r) == r.left <= 0

\* submitted_in_time, and the time that the chain may take.
InGrace(r) == r.status \in {"VERIFYING", "INVALID"} /\ r.timely /\ r.left >= -Grace

TooLate(r) == Due(r) /\ ~InGrace(r)
\* Mutant: an order with a hash waits for its confirmation for ever.
StaleUnpaid(r) == r.status = "AWAITING_PAYMENT" /\ TooLate(r)

Stale(r) == r.status \in Active /\ TooLate(r)

\* The unique index of active_order_key.
SlotTaken(o) == \E x \in Order \ {o} : orders[x].key

OpenOrders == {o \in Order : orders[o].status \in Active /\ ~Stale(orders[o])}

\* A hash first, then the status, then the newest.
Rank(r) == (IF r.hash # NoTx THEN 4 ELSE 0) + (IF r.status = "VERIFYING" THEN 2 ELSE 0)
Before(x, o) ==
    \/ Rank(orders[x]) > Rank(orders[o])
    \/ Rank(orders[x]) = Rank(orders[o]) /\ x > o

\* reconcile_payment_orders: what it will write to the row of o.
Reconciled(o) ==
    LET r == orders[o]
    IN  IF Stale(r) THEN "expire"
        ELSE IF o \notin OpenOrders THEN IF r.key THEN "release" ELSE "keep"
        ELSE IF \E x \in OpenOrders : Before(x, o) THEN "cancel" ELSE "take"

Listed == [o \in Order |-> Reconciled(o)]

\* The rows are read at once.  flag: an order is inserted when they are written.
ReadRows(q, flag) ==
    /\ req[q].at = "idle"
    /\ Proceeds(q, [Idle EXCEPT !.at = IF Listed # Nothing THEN "rows"
                                       ELSE IF flag THEN "insert" ELSE "listed",
                                !.flag = flag,
                                !.todo = Listed], {})
    /\ UNCHANGED <<acct, orders, ghostVars>>

ListOrders(q) == ReadRows(q, FALSE)

\* create_payment_order: an open order is returned, else one is inserted.
CreateOrder(q) == ReadRows(q, OpenOrders = {})

Written(r, w) ==
    IF w = "expire" THEN [r EXCEPT !.status = "EXPIRED", !.key = FALSE]
    ELSE IF w = "cancel" THEN [r EXCEPT !.status = "CANCELLED_DUPLICATE", !.key = FALSE]
    ELSE [r EXCEPT !.key = (w = "take")]

\* The rows are written one by one, the chosen one last.  Its write raises when
\* another order has the slot by now.
WriteRow(q, o) ==
    LET w == req[q].todo[o]
        rest == [req[q].todo EXCEPT ![o] = "keep"]
    IN  /\ req[q].at = "rows" /\ w # "keep"
        /\ w = "take" => rest = Nothing
        /\ WriteOrder(q, o,
              IF w = "take" /\ SlotTaken(o) THEN orders[o] ELSE Written(orders[o], w),
              IF rest # Nothing THEN [req[q] EXCEPT !.todo = rest]
              ELSE IF req[q].order = o THEN Idle
              ELSE [Idle EXCEPT !.at = IF req[q].flag THEN "insert" ELSE "listed"])
        /\ UNCHANGED <<acct, legacy, bought, grants, rewards, lost, cut>>

\* What was written is read again and returned.
Listing(q) ==
    /\ req[q].at = "listed"
    /\ Proceeds(q, Idle, {})
    /\ UNCHANGED <<acct, orders, ghostVars>>

\* The order that won the slot meanwhile is returned instead.
SlotLost(q) ==
    /\ req[q].at = "insert" /\ \E o \in Order : orders[o].key
    /\ Proceeds(q, Idle, {})
    /\ UNCHANGED <<acct, orders, ghostVars>>

InsertOrder(q) ==
    /\ req[q].at = "insert" /\ \A o \in Order : ~orders[o].key
    /\ \E o \in Order :
          /\ orders[o].status = "none"
          /\ \A x \in Order : x < o => orders[x].status # "none"
          /\ WriteOrder(q, o, [Legacy EXCEPT !.key = TRUE], Idle)
    /\ UNCHANGED <<acct, legacy, bought, grants, rewards, lost, cut>>

\* A request that finds its order late writes it EXPIRED.
ExpireOne(o) == [Idle EXCEPT !.at = "rows", !.order = o, !.todo[o] = "expire"]

\* submit_tx_hash.  flag: the order has no submitted_at yet.
SubmitTx(q, o, t) ==
    LET r == orders[o]
    IN  /\ req[q].at = "idle"
        /\ r.status \notin Ended \cup {"none"}
        /\ TooLate(r) \/ \A x \in Order \ {o} : orders[x].hash # t
        /\ Proceeds(q, IF TooLate(r) THEN ExpireOne(o)
                      ELSE [Idle EXCEPT !.at = "submit", !.order = o, !.hash = t,
                                        !.flag = (r.hash = NoTx)], {})
        /\ UNCHANGED <<acct, orders, ghostVars>>

\* The write raises when another order has the slot.
WriteHash(q) ==
    LET o == req[q].order
        r == orders[o]
    IN  /\ req[q].at = "submit"
        /\ WriteOrder(q, o,
              IF SlotTaken(o) THEN r
              ELSE [r EXCEPT !.hash = req[q].hash, !.status = "VERIFYING", !.key = TRUE,
                             !.timely = IF req[q].flag THEN ~Due(r) ELSE @],
              Idle)
        /\ UNCHANGED <<acct, legacy, bought, grants, rewards, lost, cut>>

-----------------------------------------------------------------------------
(* Confirmation of a payment.                                               *)

CheckPayment(q, o) ==
    LET r == orders[o]
    IN  /\ req[q].at = "idle"
        /\ r.hash # NoTx /\ r.status # "CONFIRMED"
        /\ TooLate(r) \/ ~\E x \in Order \ {o} : orders[x].hash = r.hash /\ orders[x].status = "CONFIRMED"
        /\ Proceeds(q, IF TooLate(r) THEN ExpireOne(o)
                      ELSE [Idle EXCEPT !.at = "verify", !.order = o], {})
        /\ UNCHANGED <<acct, orders, ghostVars>>

\* BscUsdtVerifier.verify: what the node may answer, and what is made of it.
Answer == {"no node", "no receipt", "reverted", "older than the order",
           "another transfer", "the transfer"}

Verdict(a) ==
    IF a \in {"no node", "no receipt"} THEN "pending"
    ELSE IF a = "the transfer" THEN "valid" ELSE "invalid"

\* PENDING keeps the slot, unless another order has it; INVALID releases it.
NotVerified(q) ==
    LET o == req[q].order
        r == orders[o]
    IN  /\ req[q].at = "verify"
        /\ \E a \in Answer :
              /\ Verdict(a) # "valid"
              /\ WriteOrder(q, o,
                    IF Verdict(a) = "invalid" THEN [r EXCEPT !.status = "INVALID", !.key = FALSE]
                    ELSE IF SlotTaken(o) THEN r
                    ELSE [r EXCEPT !.status = "VERIFYING", !.key = TRUE],
                    Idle)
        /\ UNCHANGED <<acct, legacy, bought, grants, rewards, lost, cut>>

\* The days are added to what is left of the subscription.
Prolonged(n) == n + Days

\* The payer's row is read.  flag: the referrer has not been rewarded.
Verified(q) ==
    /\ req[q].at = "verify" /\ grants[req[q].order] < MaxGrants
    /\ \E a \in Answer : Verdict(a) = "valid"
    /\ Proceeds(q, [req[q] EXCEPT !.at = "confirm", !.expires = Prolonged(acct[Payer].sub),
                                 !.flag = ~acct[Payer].rewarded, !.stale = @ \ User], {})
    /\ UNCHANGED <<acct, orders, ghostVars>>

Granted(q) == [acct[Payer] EXCEPT !.sub = req[q].expires]

\* Mutant: the days are granted before the order is marked.
ConfirmLast(q) ==
    /\ req[q].at = "confirm"
    /\ WriteUser(q, Payer, Granted(q), [req[q] EXCEPT !.at = "reward"])
    /\ raced' = raced \cup ({Payer} \cap req[q].stale)
    /\ grants' = [grants EXCEPT ![req[q].order] = @ + 1]
    /\ UNCHANGED <<orders, legacy, bought, rewards, lost, cut>>

\* The order is CONFIRMED first: a repeated request finds it so and returns.
ConfirmOrder(q) ==
    LET o == req[q].order
    IN  /\ req[q].at = "confirm"
        /\ WriteOrder(q, o, [orders[o] EXCEPT !.status = "CONFIRMED", !.key = FALSE],
                      [req[q] EXCEPT !.at = "grant"])
        /\ bought' = IF orders[o].status = "CONFIRMED" THEN bought ELSE bought + Days
        /\ UNCHANGED <<acct, legacy, grants, rewards, lost, cut>>

Grant(q) ==
    /\ req[q].at = "grant"
    /\ WriteUser(q, Payer, Granted(q), [req[q] EXCEPT !.at = "reward"])
    /\ raced' = raced \cup ({Payer} \cap req[q].stale)
    /\ grants' = [grants EXCEPT ![req[q].order] = @ + 1]
    /\ UNCHANGED <<orders, legacy, bought, rewards, lost, cut>>

\* reward_first_paid_plan, by what was read of the payer's row; another request may
\* be about to write that the reward is paid.
Reward(q) ==
    /\ req[q].at = "reward" /\ req[q].flag
    /\ WriteUser(q, Referrer, [acct[Referrer] EXCEPT !.sub = @ + RewardDays],
                 [req[q] EXCEPT !.at = "settle"])
    /\ raced' = IF Payer \in req[q].stale \/ \E c \in Client : req[c].at = "settle"
                THEN raced \cup {Payer} ELSE raced
    /\ rewards' = rewards + 1
    /\ UNCHANGED <<orders, legacy, bought, grants, lost, cut>>

NoReward(q) ==
    /\ req[q].at = "reward" /\ ~req[q].flag
    /\ Proceeds(q, Idle, {})
    /\ UNCHANGED <<acct, orders, ghostVars>>

Settle(q) ==
    /\ req[q].at = "settle"
    /\ WriteUser(q, Payer, [acct[Payer] EXCEPT !.rewarded = TRUE], Idle)
    /\ UNCHANGED <<orders, ghostVars>>

\* The request dies: the process does, or a write raises.  A repeated request
\* finds a CONFIRMED order and returns, so that its days are lost when they were
\* not granted yet.
Die(q) ==
    /\ req[q].at # "idle"
    /\ Proceeds(q, Idle, {})
    /\ lost' = IF req[q].at = "grant" THEN lost \cup {req[q].order} ELSE lost
    /\ cut' = IF req[q].at = "settle" THEN cut + 1 ELSE cut
    /\ UNCHANGED <<acct, orders, legacy, bought, grants, rewards, raced>>

-----------------------------------------------------------------------------
Less(n) == IF n > 0 THEN n - 1 ELSE 0

\* A confirmation, from what it reads of the payer's row to the days it
\* writes, takes less than a unit; its verification may take longer.
Tick ==
    /\ \A q \in Client : req[q].at \notin {"confirm", "grant"}
    /\ acct' = [u \in User |-> [acct[u] EXCEPT !.trial = Less(@), !.sub = Less(@),
                                               !.manual = Less(@)]]
    /\ orders' = [o \in Order |-> [orders[o] EXCEPT !.left =
                    IF orders[o].status = "none" THEN @ ELSE Larger(@ - 1, -(Grace + 1))]]
    /\ bought' = Less(bought)
    /\ UNCHANGED <<req, legacy, grants, rewards, raced, lost, cut>>

Continue(q) ==
    \/ \E o \in Order : WriteRow(q, o)
    \/ Listing(q) \/ SlotLost(q) \/ InsertOrder(q) \/ WriteHash(q)
    \/ NotVerified(q) \/ Verified(q) \/ ConfirmOrder(q) \/ Grant(q)
    \/ Reward(q) \/ NoReward(q) \/ Settle(q)

Start(q) ==
    \/ ListOrders(q) \/ CreateOrder(q)
    \/ \E o \in Order : CheckPayment(q, o) \/ \E t \in Tx : SubmitTx(q, o, t)

PaymentNext == \E q \in Client : Start(q) \/ Continue(q) \/ Die(q)

BillingNext == AccessNext \/ PaymentNext \/ Tick

\* Requests are served or die, the deadlines of an order that has the slot pass,
\* and again and again the user gets the list of orders.
BillingFairness ==
    /\ \A q \in Client : []<>(req[q].at = "idle")
    /\ \A o \in Order : []<>(orders[o].key => orders[o].left < -Grace)
    /\ []<>(\E q \in Client : req[q].at = "listed")

-----------------------------------------------------------------------------
(* Properties.                                                              *)

\* An order's days are granted once, unless two requests raced for its row.
GrantedOnce == \A o \in Order \ raced : grants[o] <= 1

\* A CONFIRMED order has been granted, or its request is about to grant it, or
\* has died there.
ConfirmedIsGranted ==
    \A o \in Order \ raced :
        orders[o].status = "CONFIRMED" =>
            grants[o] = 1 \/ o \in lost \/ \E q \in Client : req[q].at = "grant" /\ req[q].order = o

\* As long as no request raced and none died between the two writes, what is
\* left of the subscription is what the CONFIRMED orders bought.
DaysAddUp ==
    /\ raced = {} /\ lost = {}
    /\ \A q \in Client : req[q].at # "grant"
    => acct[Payer].sub = bought

\* The referrer is rewarded for the payer's first plan only, unless requests
\* raced or one died after the reward and before the payer's row said so.
RewardedOnce == Payer \notin raced => rewards <= 1 + cut

\* A payment whose hash was submitted in time is neither expired nor taken
\* for a duplicate while it may still be verified, unless an older build, or a
\* race, left two orders and both are paid.
InTimeKept ==
    \A o \in Order \ raced :
        /\ orders[o].timely /\ orders[o].left >= -Grace
        /\ orders[o].status \in {"EXPIRED", "CANCELLED_DUPLICATE"}
        => \E x \in Order \ {o} : x \in legacy \cup raced /\ orders[x].hash # NoTx

\* Orders of this build: at most one is active.
OneActive ==
    \A x, y \in Order \ (legacy \cup raced) :
        orders[x].status \in Active /\ orders[y].status \in Active => x = y

\* What a payment is worth is neither lost nor counted twice, and the order that
\* carries it has its slot: see the conjuncts.
BillingSafe ==
    /\ BillingTypeOK /\ GrantedOnce /\ ConfirmedIsGranted /\ DaysAddUp /\ RewardedOnce
    /\ InTimeKept /\ OneActive

\* What confirm_payment promises: it is idempotent.
PaymentGrantedOnce == \A o \in Order : grants[o] <= 1

\* The slot of active_order_key is not held for ever.
SlotReleased == \A o \in Order : orders[o].key ~> ~orders[o].key
=============================================================================
