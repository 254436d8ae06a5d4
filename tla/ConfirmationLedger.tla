------------------------ MODULE ConfirmationLedger ------------------------
(***************************************************************************)
(* What the sender promises the application, whatever happens to the       *)
(* connection: an event that SendAsync or SendBatchAsync accepted is        *)
(* confirmed exactly once before its entry is freed and may be used again,  *)
(* only accepted events are confirmed, and the client is not gone before    *)
(* the last of them is confirmed and freed.                                 *)
(***************************************************************************)
EXTENDS Naturals, Sequences

CONSTANTS Events,    \* the list entries the application can ask to send
          Results    \* the confirmation results

VARIABLES accepted,  \* the events the library took and has not freed
          told,      \* event -> the confirmations its callback has received
          closed     \* the client was destroyed

vars == <<accepted, told, closed>>

Init == /\ accepted = {}
        /\ told = [e \in Events |-> <<>>]
        /\ closed = FALSE

Accept(e) == /\ ~closed
             /\ e \notin accepted
             /\ accepted' = accepted \cup {e}
             /\ UNCHANGED <<told, closed>>

Confirm(e, r) == /\ ~closed
                 /\ e \in accepted
                 /\ told[e] = <<>>
                 /\ told' = [told EXCEPT ![e] = <<r>>]
                 /\ UNCHANGED <<accepted, closed>>

Free(e) == /\ ~closed
           /\ told[e] # <<>>
           /\ accepted' = accepted \ {e}
           /\ told' = [told EXCEPT ![e] = <<>>]
           /\ UNCHANGED closed

Close == /\ ~closed
         /\ accepted = {}
         /\ closed' = TRUE
         /\ UNCHANGED <<accepted, told>>

Next == \/ \E e \in Events : Accept(e) \/ Free(e)
        \/ \E e \in Events, r \in Results : Confirm(e, r)
        \/ Close

Spec == Init /\ [][Next]_vars
===========================================================================
