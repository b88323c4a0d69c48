-------------------------- MODULE MCEntryPipeline --------------------------
(* Instances of EntryPipeline: one account, two runtimes that follow one    *)
(* another, two setups of different symbols, and a few decisions.           *)
EXTENDS EntryPipeline, TLC

CONSTANTS r1, r2, s1, s2, d1, d2, d3
MCRuntime == {r1, r2}
MCSetup == {s1, s2}
TwoDecisions == {d1, d2}
ThreeDecisions == {d1, d2, d3}
OneSetup == {s1}
OneDecision == {d1}
Symmetric ==
    Permutations(MCRuntime) \cup Permutations(MCSetup) \cup Permutations(Decision)

\* Symmetry would not do for a liveness property: the runtime that is built first
\* is called r1, which leaves out renamings only.
NamedInOrder == phase[r1] = "new" => phase[r2] = "new"
ResolvedSpec ==
    Init /\ [][Next /\ NamedInOrder']_vars /\ \A r \in Runtime : WF_vars(OnSnapshot(r))
=============================================================================
