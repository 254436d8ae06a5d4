--------------------------- MODULE LowerReceiver ---------------------------
(***************************************************************************)
(* The low-level receiver as its user sees it: what eventhubreceiver.c      *)
(* builds on, and what EventHubReceiverLL is shown to implement.  Calls of  *)
(* the API are made between two DoWork calls or by a callback.  How a stack *)
(* is brought up and authorized is not part of this view.                   *)
(***************************************************************************)
CONSTANTS Receives,   \* the receives its user can start
          NULL        \* no receive

VARIABLES state,      \* EVENTHUBRECEIVER_STATE
          receive,    \* the receive whose callbacks are registered
          endReceive, \* the receive whose end callback is registered
          pc,         \* what DoWork or Destroy is at
          calling,    \* the callback that is running, or "none"
          context     \* the receive it is about

callVars == <<calling, context>>
vars == <<state, receive, endReceive, pc, callVars>>

Init == /\ state = "INACTIVE"
        /\ receive = NULL
        /\ endReceive = NULL
        /\ pc = "idle"
        /\ calling = "none"
        /\ context = NULL
---------------------------------------------------------------------------
(* Calls of its user.  One that is not enabled returns an error. *)

MayCall == pc = "idle" \/ calling # "none"

Start(r) == /\ MayCall
            /\ state = "INACTIVE"
            /\ state' = "ACTIVE"
            /\ receive' = r
            /\ endReceive' = NULL
            /\ UNCHANGED <<pc, callVars>>

RequestEnd(withCallback) ==
  /\ MayCall
  /\ state = "ACTIVE"
  /\ state' = "INACTIVE_PENDING"
  /\ endReceive' = IF withCallback THEN receive ELSE NULL
  /\ UNCHANGED <<receive, pc, callVars>>

\* DoWork has nothing to do for an inactive receiver.
Work == /\ pc = "idle"
        /\ state # "INACTIVE"
        /\ pc' = IF state = "ACTIVE" THEN "working" ELSE "ending"
        /\ UNCHANGED <<state, receive, endReceive, callVars>>

Destroy == /\ pc = "idle"
           /\ pc' = "destroying"
           /\ UNCHANGED <<state, receive, endReceive, callVars>>
---------------------------------------------------------------------------
(* Inside DoWork and Destroy. *)

\* Messages and wait time-outs are reported at work, errors during a tear
\* down as well.
Report(k) == /\ calling = "none"
             /\ receive # NULL
             /\ \/ pc = "working"
                \/ k = "error" /\ pc \in {"ending", "failing", "destroying"}
             /\ calling' = k
             /\ context' = receive
             /\ UNCHANGED <<state, receive, endReceive, pc>>

\* The authorization fails: the error callback, then the tear down.
Fail == /\ pc = "working"
        /\ calling = "none"
        /\ calling' = "error"
        /\ context' = receive
        /\ pc' = "failing"
        /\ UNCHANGED <<state, receive, endReceive>>

Return == /\ calling # "none"
          /\ calling' = "none"
          /\ context' = NULL
          /\ pc' \in CASE pc = "working" -> {"working", "idle"}
                       [] pc = "ended" -> {"idle"}
                       [] OTHER -> {pc}
          /\ endReceive' = IF pc = "ended" THEN NULL ELSE endReceive
          /\ UNCHANGED <<state, receive>>

WorkReturns == /\ pc = "working"
               /\ calling = "none"
               /\ pc' = "idle"
               /\ UNCHANGED <<state, receive, endReceive, callVars>>

\* Only an end that DoWork came for is answered with the end callback.
TornDown == /\ pc \in {"ending", "failing"}
            /\ calling = "none"
            /\ state' = "INACTIVE"
            /\ receive' = NULL
            /\ IF pc = "ending" /\ endReceive # NULL
               THEN pc' = "ended" /\ calling' = "end" /\ context' = endReceive
               ELSE pc' = "idle" /\ UNCHANGED callVars
            /\ UNCHANGED endReceive

DestroyReturns == /\ pc = "destroying"
                  /\ calling = "none"
                  /\ state' = "INACTIVE"
                  /\ receive' = NULL
                  /\ pc' = "destroyed"
                  /\ UNCHANGED <<endReceive, callVars>>

Next == \/ \E r \in Receives : Start(r)
        \/ \E withCallback \in BOOLEAN : RequestEnd(withCallback)
        \/ Work
        \/ Destroy
        \/ \E k \in {"event", "timeout", "error"} : Report(k)
        \/ Fail
        \/ Return
        \/ WorkReturns
        \/ TornDown
        \/ DestroyReturns

Spec == Init /\ [][Next]_vars
===========================================================================
