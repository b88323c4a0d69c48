------------------------- MODULE MCPositionManager -------------------------
(* Instances of PositionManager: entry 60, stop 20 away, target 40 away, so *)
(* that break-even is earned at a gain of 22 and the lock at 32.            *)
EXTENDS PositionManager

MCGains == {-25, -5, 10, 23, 33, 41}
FewGains == {-25, 23, 33}

\* What Next can do in LIVE: local marks belong to DEMO, and to MCPaper.
LiveNext ==
    \/ MarketMoves \/ HistoryAppears
    \/ TakeSnapshot \/ SyncSymbol \/ Settlements \/ SyncFails \/ ReconcileExchange
    \/ SyncHeld \/ NothingToSync \/ SaveChanges
    \/ LiveMark \/ PushProtection
    \/ Save \/ Restart

LiveSpec == Init /\ [][LiveNext]_vars /\ ManagerFairness
=============================================================================
