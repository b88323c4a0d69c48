------------------------------ MODULE MCPaper ------------------------------
(***************************************************************************)
(* Instances of the two ends of a DEMO trade: the setups of a symbol, two  *)
(* structures of the same strategy and direction, so that a watch of one   *)
(* may be promoted to another, and the exits of a position.  They share no *)
(* state, so that one run checks each by itself: part names the one that   *)
(* moves.                                                                  *)
(***************************************************************************)
EXTENDS MCPositionManager, SetupLifecycle

CONSTANTS s1, s2
VARIABLE part

paperVars == <<vars, lifeVars, part>>

MCSide(s) == "breakout long"

PaperInit ==
    /\ Init /\ LifeInit
    /\ part \in {"exits", "setups"}
    /\ part = "setups" => side = "LONG"

PaperNext ==
    /\ UNCHANGED part
    /\ \/ part = "exits" /\ Next /\ UNCHANGED lifeVars
       \/ part = "setups" /\ LifeNext /\ UNCHANGED vars

PaperSpec == PaperInit /\ [][PaperNext]_paperVars
=============================================================================
