-------------------------- MODULE ReceiveSession --------------------------
(***************************************************************************)
(* What the low-level receiver promises about its callbacks: one receive    *)
(* at a time; a callback gets the context of the receive that is current,   *)
(* never of one that is over; the end callback runs when a receive ends,    *)
(* only if the application asked for it, and so at most once.               *)
(***************************************************************************)
EXTENDS Naturals

CONSTANTS Receives,  \* the receives the application can start
          NULL       \* no receive

VARIABLES accepted,  \* the receives that were started
          current,   \* the receive that is not over
          asked,     \* the receives whose end callback was asked for
          calling,   \* which callback is running, or "none"
          context    \* the receive it is told about

vars == <<accepted, current, asked, calling, context>>

Init == /\ accepted = {}
        /\ current = NULL
        /\ asked = {}
        /\ calling = "none"
        /\ context = NULL

Accept(r) == /\ current = NULL
             /\ r \notin accepted
             /\ accepted' = accepted \cup {r}
             /\ current' = r
             /\ UNCHANGED <<asked, calling, context>>

AskForEnd == /\ current # NULL
             /\ current \notin asked
             /\ asked' = asked \cup {current}
             /\ UNCHANGED <<accepted, current, calling, context>>

Call(k) == /\ calling = "none"
           /\ current # NULL
           /\ calling' = k
           /\ context' = current
           /\ UNCHANGED <<accepted, current, asked>>

Return == /\ calling # "none"
          /\ calling' = "none"
          /\ context' = NULL
          /\ UNCHANGED <<accepted, current, asked>>

EndWithCallback == /\ calling = "none"
                   /\ current \in asked
                   /\ calling' = "end"
                   /\ context' = current
                   /\ current' = NULL
                   /\ UNCHANGED <<accepted, asked>>

EndSilently == /\ calling = "none"
               /\ current # NULL
               /\ current' = NULL
               /\ UNCHANGED <<accepted, asked, calling, context>>

Next == \/ \E r \in Receives : Accept(r)
        \/ AskForEnd
        \/ \E k \in {"event", "timeout", "error"} : Call(k)
        \/ Return
        \/ EndWithCallback
        \/ EndSilently

Spec == Init /\ [][Next]_vars
===========================================================================
