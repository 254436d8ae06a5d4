------------------------ MODULE MCEventHubReceiver ------------------------
(***************************************************************************)
(* Instances of EventHubReceiver for TLC.                                  *)
(***************************************************************************)
EXTENDS EventHubReceiver, TLC

CONSTANTS r1, r2

TwoReceives == {r1, r2}
===========================================================================
