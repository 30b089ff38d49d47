------------------------- MODULE MCMiningController -------------------------
(***************************************************************************)
(* Small instances of MiningController.                                    *)
(***************************************************************************)
EXTENDS MiningController

CONSTANTS c1, c2

MCCallers == {c1}
MCTwoCallers == {c1, c2}
=============================================================================
