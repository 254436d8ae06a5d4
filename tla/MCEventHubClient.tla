-------------------------- MODULE MCEventHubClient --------------------------
(***************************************************************************)
(* Instances of EventHubClient for TLC.                                    *)
(***************************************************************************)
EXTENDS EventHubClient

CONSTANTS t1, t2, a1

TwoSenders == {t1, t2}
OneAsync == {a1}
=============================================================================
