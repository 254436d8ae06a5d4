------------------------- MODULE MCEventHubAuthCBS -------------------------
(***************************************************************************)
(* Instances of EventHubAuthCBS for TLC.                                   *)
(***************************************************************************)
EXTENDS EventHubAuthCBS

CONSTANTS h1, h2, h3

Both == {"AUTO", "EXT"}
External == {"EXT"}
ThreeHandles == {h1, h2, h3}
NoneOrTwo == {0, 2}
EarlyOrLate == {1, 4}
===========================================================================
