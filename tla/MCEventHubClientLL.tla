------------------------ MODULE MCEventHubClientLL ------------------------
(***************************************************************************)
(* Instances of EventHubClientLL for TLC.                                  *)
(***************************************************************************)
EXTENDS EventHubClientLL, TLC

CONSTANTS e1, e2, e3

OneEvent == {e1}
TwoEvents == {e1, e2}
ThreeEvents == {e1, e2, e3}
LastEvent == {e3}
NoEvents == {}
===========================================================================
