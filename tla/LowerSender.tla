---------------------------- MODULE LowerSender ----------------------------
(***************************************************************************)
(* The low-level sender as its user sees it: what eventhubclient.c builds   *)
(* on, and what EventHubClientLL is shown to implement.  It is called       *)
(* between two DoWork calls or by a confirmation callback, and confirms     *)
(* what it accepted inside DoWork and Destroy, one event at a time; there   *)
(* it also reports errors and changes of its state.                         *)
(***************************************************************************)
CONSTANTS Events,   \* what its user can send
          Report,   \* the callback of an error or a change of state
          None      \* no callback

VARIABLES phase,      \* between calls, in DoWork, in Destroy, or destroyed
          pending,    \* events it accepted and has to confirm
          confirming  \* the event whose callback is running, or Report

vars == <<phase, pending, confirming>>

Init == /\ phase = "idle"
        /\ pending = {}
        /\ confirming = None

\* SendAsync and SendBatchAsync.
Accept(e) == /\ phase = "idle" \/ confirming # None
             /\ phase # "destroyed"
             /\ e \notin pending \cup {confirming}
             /\ pending' = pending \cup {e}
             /\ UNCHANGED <<phase, confirming>>

DoWork == /\ phase = "idle"
          /\ phase' = "working"
          /\ UNCHANGED <<pending, confirming>>

Destroy == /\ phase = "idle"
           /\ phase' = "destroying"
           /\ confirming' \in {confirming, Report}
           /\ UNCHANGED pending

\* The user may not care to see that a callback takes time.
Confirm(e) == /\ phase \in {"working", "destroying"}
              /\ confirming = None
              /\ e \in pending
              /\ pending' = pending \ {e}
              /\ confirming' \in {e, None}
              /\ UNCHANGED phase

ReportError == /\ phase = "working"
               /\ confirming = None
               /\ confirming' = Report
               /\ UNCHANGED <<phase, pending>>

CallbackReturns == /\ confirming # None
                   /\ confirming' = None
                   /\ UNCHANGED <<phase, pending>>

DoWorkReturns == /\ phase = "working"
                 /\ confirming = None
                 /\ phase' = "idle"
                 /\ UNCHANGED <<pending, confirming>>

DestroyReturns == /\ phase = "destroying"
                  /\ confirming = None
                  /\ pending = {}
                  /\ phase' = "destroyed"
                  /\ UNCHANGED <<pending, confirming>>

Next == \/ \E e \in Events : Accept(e) \/ Confirm(e)
        \/ DoWork
        \/ Destroy
        \/ ReportError
        \/ CallbackReturns
        \/ DoWorkReturns
        \/ DestroyReturns

Spec == Init /\ [][Next]_vars
===========================================================================
