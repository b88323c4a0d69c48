--------------------------- MODULE ExecutionQuotes ---------------------------
(***************************************************************************)
(* SharedExecutionQuoteProvider: the books that the accounts of a worker   *)
(* share when they submit an entry.  One depth request per symbol is under *)
(* way, whoever asks waits for it, and an answer is reused for a moment.   *)
(*                                                                         *)
(* Coroutines run one at a time: what lies between two awaits is one step. *)
(* The lock is never awaited while another coroutine holds it, since       *)
(* nothing is awaited inside it.  Ages are in units of the cache's ttl.    *)
(***************************************************************************)
EXTENDS Integers, FiniteSets

CONSTANTS
    Caller,       \* accounts that ask for a quote
    Symbol,
    Fetch,        \* names of coordinator.quote tasks
    NoQuote,
    Ttl,          \* ttl_seconds of the cache
    MaxAge,       \* the age at which a quote may not be used any more
    MaxSymbols    \* max_symbols of the cache

ASSUME QuotesAssumption ==
    /\ NoQuote \notin Fetch \cup Symbol
    /\ Ttl \in Nat /\ MaxAge \in Nat /\ Ttl <= MaxAge
    /\ MaxSymbols \in Nat \ {0}
    /\ IsFiniteSet(Caller) /\ IsFiniteSet(Symbol) /\ IsFiniteSet(Fetch)
    /\ Cardinality(Fetch) >= Cardinality(Caller) + Cardinality(Symbol)

VARIABLES
    cached,      \* _cached: since when the quote is stored, and its age
    inflight,    \* _inflight: the task that answers for the symbol
    fetch,       \* the tasks
    waits,       \* waits[c]: the task that c awaits, or NoQuote
    got          \* got[c]: the age of the last quote of c, NoQuote if it failed

quoteVars == <<cached, inflight, fetch, waits, got>>

Old == MaxAge + 1      \* bound: ages past it are alike
Age == 0..Old
Free == [at |-> "free", symbol |-> NoQuote, age |-> 0]

QuotesTypeOK ==
    /\ cached \in [Symbol -> [stored : Age, age : Age] \cup {NoQuote}]
    /\ inflight \in [Symbol -> Fetch \cup {NoQuote}]
    /\ fetch \in [Fetch -> [at : {"free", "running", "done", "failed"},
                            symbol : Symbol \cup {NoQuote}, age : Age]]
    /\ waits \in [Caller -> Fetch \cup {NoQuote}]
    /\ got \in [Caller -> Age \cup {NoQuote}]

QuotesInit ==
    /\ cached = [s \in Symbol |-> NoQuote]
    /\ inflight = [s \in Symbol |-> NoQuote]
    /\ fetch = [t \in Fetch |-> Free]
    /\ waits = [c \in Caller |-> NoQuote]
    /\ got = [c \in Caller |-> NoQuote]

-----------------------------------------------------------------------------
\* A cached quote is reused while it is both recently stored and fresh.
Servable(s) == cached[s] # NoQuote /\ cached[s].stored <= Ttl /\ cached[s].age <= MaxAge

CallServed(c, s) ==
    /\ waits[c] = NoQuote /\ Servable(s)
    /\ got' = [got EXCEPT ![c] = cached[s].age]
    /\ UNCHANGED <<cached, inflight, fetch, waits>>

\* The request under way is joined, or one is started.
CallWaits(c, s) ==
    /\ waits[c] = NoQuote /\ ~Servable(s)
    /\ IF inflight[s] # NoQuote
       THEN /\ waits' = [waits EXCEPT ![c] = inflight[s]]
            /\ UNCHANGED <<inflight, fetch>>
       ELSE LET t == CHOOSE f \in Fetch : fetch[f].at = "free"
            IN  /\ fetch' = [fetch EXCEPT ![t] = [at |-> "running", symbol |-> s, age |-> 0]]
                /\ inflight' = [inflight EXCEPT ![s] = t]
                /\ waits' = [waits EXCEPT ![c] = t]
    /\ UNCHANGED <<cached, got>>

\* coordinator.quote: a valid book, received now, or an exception.
Answers(t) ==
    /\ fetch[t].at = "running"
    /\ \E r \in {"done", "failed"} : fetch' = [fetch EXCEPT ![t].at = r]
    /\ UNCHANGED <<cached, inflight, waits, got>>

\* Oldest keys are evicted first.
Evicted(f) ==
    LET full == {s \in Symbol : f[s] # NoQuote}
        Oldest(s) == \A x \in full : f[s].stored >= f[x].stored
    IN  IF Cardinality(full) <= MaxSymbols THEN {f}
        ELSE {[f EXCEPT ![s] = NoQuote] : s \in {x \in full : Oldest(x)}}

\* The finally clause: a task is not in flight any more once it is done.
Popped(t) == [s \in Symbol |-> IF inflight[s] = t /\ fetch[t].at # "running"
                               THEN NoQuote ELSE inflight[s]]

\* A task that nobody refers to is collected.
Collected(t, w, i) ==
    IF t \in {w[c] : c \in Caller} \cup {i[s] : s \in Symbol} \/ fetch[t].at = "running"
    THEN fetch ELSE [fetch EXCEPT ![t] = Free]

Leave(c) ==
    /\ waits' = [waits EXCEPT ![c] = NoQuote]
    /\ inflight' = Popped(waits[c])
    /\ fetch' = Collected(waits[c], waits', inflight')

FitToUse(t) == fetch[t].at = "done" /\ fetch[t].age <= MaxAge

\* The awaited quote is still fresh: it is stored and returned.
ResumeFresh(c) ==
    LET t == waits[c]
    IN  /\ t # NoQuote /\ FitToUse(t)
        /\ cached' \in Evicted([cached EXCEPT ![fetch[t].symbol] =
                                   [stored |-> 0, age |-> fetch[t].age]])
        /\ got' = [got EXCEPT ![c] = fetch[t].age]
        /\ Leave(c)

\* Mutant: only a caller that is served clears the request.
ResumeFailsUncleared(c) ==
    LET t == waits[c]
    IN  /\ t # NoQuote /\ fetch[t].at # "running" /\ ~FitToUse(t)
        /\ got' = [got EXCEPT ![c] = NoQuote]
        /\ waits' = [waits EXCEPT ![c] = NoQuote]
        /\ fetch' = Collected(t, waits', inflight)
        /\ UNCHANGED <<cached, inflight>>

\* The request failed, or its answer was left for too long.
ResumeFails(c) ==
    LET t == waits[c]
    IN  /\ t # NoQuote /\ fetch[t].at # "running" /\ ~FitToUse(t)
        /\ got' = [got EXCEPT ![c] = NoQuote]
        /\ Leave(c)
        /\ UNCHANGED cached

\* wait_for of the caller gives up; the shielded task goes on.
Cancel(c) ==
    /\ waits[c] # NoQuote
    /\ got' = [got EXCEPT ![c] = NoQuote]
    /\ Leave(c)
    /\ UNCHANGED cached

\* A running request ages only once it is answered.
Older(n) == IF n < Old THEN n + 1 ELSE n

QuotesTick ==
    /\ cached' = [s \in Symbol |-> IF cached[s] = NoQuote THEN NoQuote
                     ELSE [stored |-> Older(cached[s].stored), age |-> Older(cached[s].age)]]
    /\ fetch' = [t \in Fetch |-> IF fetch[t].at = "done"
                                 THEN [fetch[t] EXCEPT !.age = Older(@)] ELSE fetch[t]]
    /\ UNCHANGED <<inflight, waits, got>>

QuotesNext ==
    \/ \E c \in Caller, s \in Symbol : CallServed(c, s) \/ CallWaits(c, s)
    \/ \E t \in Fetch : Answers(t)
    \/ \E c \in Caller : ResumeFresh(c) \/ ResumeFails(c) \/ Cancel(c)
    \/ QuotesTick

\* A caller whose task has ended is resumed by the event loop.
QuotesFairness == \A c \in Caller : WF_quoteVars(ResumeFresh(c) \/ ResumeFails(c))

-----------------------------------------------------------------------------
(* Properties.                                                              *)

\* However callers join, give up and ask again, a symbol never has two depth
\* requests under way.
OneFetch ==
    \A t, u \in Fetch :
        fetch[t].at = "running" /\ fetch[u].at = "running" /\ fetch[t].symbol = fetch[u].symbol
            => t = u

\* No quote is returned that was received more than MaxAge ago, though it may
\* have waited for its caller, then in the cache.
QuoteIsFresh == \A c \in Caller : got[c] # NoQuote => got[c] <= MaxAge

\* An answer that grew old while nobody awaited it costs the next caller its
\* quote, but not the callers after it.
Spent(s) ==
    LET t == inflight[s] IN t # NoQuote /\ fetch[t].at = "done" /\ fetch[t].age > MaxAge

SpentIsCleared ==
    \A s \in Symbol : (Spent(s) /\ \E c \in Caller : waits[c] = inflight[s]) ~> ~Spent(s)
=============================================================================
