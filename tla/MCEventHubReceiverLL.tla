----------------------- MODULE MCEventHubReceiverLL -----------------------
(***************************************************************************)
(* Instances of EventHubReceiverLL for TLC.                                *)
(***************************************************************************)
EXTENDS EventHubReceiverLL, TLC

CONSTANTS r1, r2

TwoReceives == {r1, r2}
===========================================================================
