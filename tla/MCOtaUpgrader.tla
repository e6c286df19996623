--------------------------- MODULE MCOtaUpgrader ---------------------------
(***************************************************************************)
(* The upgrader with a bound on its main queue, for the runs with several  *)
(* upgrades: CoreBluetooth, the timer and the user can all post a block    *)
(* before the main queue is served.                                        *)
(***************************************************************************)
EXTENDS OtaUpgrader

CONSTANT MaxBlocks     \* bound on the blocks that wait when a step is taken

FewBlocks == Len(u.mainQ) =< MaxBlocks
=============================================================================
