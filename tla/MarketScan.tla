----------------------------- MODULE MarketScan -----------------------------
(***************************************************************************)
(* The discovery loop of MultiMarketCoordinator over the shortlist of      *)
(* CoinWMarketScanner: which symbols a pass downloads, how the rotation    *)
(* goes on when the shortlist changes its length, and what the loop lives  *)
(* on while CoinW does not answer.                                         *)
(***************************************************************************)
EXTENDS Integers, Sequences, FiniteSets, SequencesExt

CONSTANTS
    Rankings,      \* what a scan of the tickers may find, as sequences of symbols
    Btc,           \* the symbol that is followed without a shortlist
    Parallel,      \* max_parallel
    CacheTime,     \* cache_seconds
    Failsafe       \* failsafe_seconds

ASSUME ScanAssumption ==
    /\ \A r \in Rankings : r \in Seq(ToSet(r)) /\ r # <<>> /\ IsInjective(r)
    /\ Parallel \in Nat \ {0}
    /\ CacheTime \in Nat /\ Failsafe \in Nat /\ CacheTime <= Failsafe

VARIABLES
    cache,      \* _cache of the scanner
    age,        \* now - _ts
    cursor,     \* _cursor of the loop
    symbols,    \* the symbols of the last pass
    seen,       \* ghost: symbols downloaded since the list last changed
    stable,     \* ghost: passes since then
    born        \* ghost: the age of the tickers the list comes from

scanVars == <<cache, age, cursor, symbols, seen, stable, born>>

TooOld == Failsafe + 1                    \* bound: ages past it are alike
Lists == Rankings \cup {<<>>}
Enough(list) == (Len(list) + Parallel - 1) \div Parallel + 1

ScanTypeOK ==
    /\ cache \in Lists /\ symbols \in Lists \cup {<<Btc>>}
    /\ age \in 0..TooOld /\ born \in 0..TooOld
    /\ cursor \in Nat /\ stable \in Nat
    /\ seen \subseteq UNION {ToSet(list) : list \in Lists \cup {<<Btc>>}}

ScanInit ==
    /\ cache = <<>> /\ age = TooOld /\ born = TooOld
    /\ cursor = 0
    /\ symbols = <<Btc>> /\ seen = {} /\ stable = 0

-----------------------------------------------------------------------------
(* ranked.                                                                  *)

Hit == cache # <<>> /\ age < CacheTime

\* _ts only moves with a scan that found something.
Ts(found) == IF found # <<>> THEN 0 ELSE age

\* An empty scan, or none, leaves the last good list for a while.
Ranked(found) ==
    IF found # <<>> THEN found
    ELSE IF cache # <<>> /\ age <= Failsafe THEN cache
    ELSE <<>>

-----------------------------------------------------------------------------
(* A pass of run.                                                           *)

Slice(list, from) ==
    SubSeq(list, from + 1, IF from + Parallel < Len(list) THEN from + Parallel ELSE Len(list))

\* A cursor past the end of a list that became shorter.
Beyond(list) == Slice(list, cursor) = <<>>

Batch(list) == IF Beyond(list) THEN Slice(list, 0) ELSE Slice(list, cursor)

\* Mutant: a short last batch moves the cursor as far as a full one.
RotatedFully(list) == ((IF Beyond(list) THEN 0 ELSE cursor) + Parallel) % Len(list)

Rotated(list) == ((IF Beyond(list) THEN 0 ELSE cursor) + Len(Batch(list))) % Len(list)

PassOver(ranked) ==
    LET list == IF ranked = <<>> THEN <<Btc>> ELSE ranked
        batch == Batch(list)
        same == list = symbols
    IN  /\ symbols' = list
        /\ cursor' = Rotated(list)
        /\ seen' = IF same THEN seen \cup ToSet(batch) ELSE ToSet(batch)
        /\ stable' = IF ~same THEN 1
                     ELSE IF stable < Enough(list) THEN stable + 1 ELSE stable

\* A symbol whose snapshot raises is skipped; the others are delivered.
PassCached ==
    /\ Hit
    /\ PassOver(cache)
    /\ UNCHANGED <<cache, age, born>>

PassScanned ==
    /\ ~Hit
    /\ \E found \in Lists :
          /\ PassOver(Ranked(found))
          /\ cache' = IF found # <<>> THEN found ELSE cache
          /\ age' = Ts(found)
          /\ born' = IF found # <<>> THEN 0 ELSE born

Elapsed(n) == IF n < TooOld THEN n + 1 ELSE n

ScanTick ==
    /\ age' = Elapsed(age) /\ born' = Elapsed(born)
    /\ UNCHANGED <<cache, cursor, symbols, seen, stable>>

ScanNext == PassCached \/ PassScanned \/ ScanTick

-----------------------------------------------------------------------------
(* Properties.                                                              *)

\* Wherever the cursor stood when the list changed, a list that stays the same
\* is covered in one pass more than it has batches.
RotationCovers == stable >= Enough(symbols) => seen = ToSet(symbols)

\* No pass runs over a shortlist whose tickers are older than the fail-safe,
\* however often refreshing it failed.
ShortlistIsRecent ==
    [][(PassCached \/ PassScanned) /\ symbols' # <<Btc>> => born' <= Failsafe]_scanVars
=============================================================================
