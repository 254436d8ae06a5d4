-------------------------- MODULE ReceiveService --------------------------
(***************************************************************************)
(* What the thread-safe receiver promises the application about its         *)
(* callbacks, whatever the threads do and however often a receive is ended  *)
(* and the next one started: one callback at a time, in the order of what   *)
(* happened; with the contexts of a receive that was started and has not    *)
(* been told its end; none for a receive once one of a later receive has    *)
(* come; the end only if it was asked for; and nothing from when Destroy    *)
(* takes the lower layer down.                                              *)
(***************************************************************************)
EXTENDS Naturals, Sequences

CONSTANTS Receives,  \* the receives the application can start
          NULL       \* no receive

VARIABLES started,   \* the receives in the order in which they were started
          asked,     \* those whose end callback was asked for
          ended,     \* those whose end callback was called
          at,        \* the receive whose callback was called last, or NULL
          last,      \* when what that callback was told had happened
          calling,   \* the receive whose callback is running, or NULL
          closed     \* Destroy has taken over

vars == <<started, asked, ended, at, last, calling, closed>>

Init == /\ started = <<>>
        /\ asked = {}
        /\ ended = {}
        /\ at = NULL
        /\ last = 0
        /\ calling = NULL
        /\ closed = FALSE

Started == {started[i] : i \in DOMAIN started}

\* Of two receives that were started, p was not started after r.
Before(p, r) == \E i, j \in DOMAIN started : i <= j /\ started[i] = p /\ started[j] = r

InTurn(r) == r \in Started /\ (at = NULL \/ Before(at, r))
---------------------------------------------------------------------------
\* Also when the caller is told that no thread could be created for it.
Start(r) == /\ ~closed
            /\ r \notin Started
            /\ started' = Append(started, r)
            /\ UNCHANGED <<asked, ended, at, last, calling, closed>>

AskForEnd(r) == /\ ~closed
                /\ r \in Started \ ended
                /\ asked' = asked \cup {r}
                /\ UNCHANGED <<started, ended, at, last, calling, closed>>

Call(r) == /\ ~closed
           /\ calling = NULL
           /\ InTurn(r) /\ r \notin ended
           /\ calling' = r
           /\ at' = r
           /\ last' \in Nat /\ last' > last
           /\ UNCHANGED <<started, asked, closed>>

CallWithReport(r) == Call(r) /\ UNCHANGED ended

CallWithEnd(r) == /\ Call(r)
                  /\ r \in asked
                  /\ ended' = ended \cup {r}

Return == /\ calling # NULL
          /\ calling' = NULL
          /\ UNCHANGED <<started, asked, ended, at, last, closed>>

Close == /\ ~closed
         /\ calling = NULL
         /\ closed' = TRUE
         /\ UNCHANGED <<started, asked, ended, at, last, calling>>

Next == \/ \E r \in Receives : \/ Start(r)
                              \/ AskForEnd(r)
                              \/ CallWithReport(r)
                              \/ CallWithEnd(r)
        \/ Return
        \/ Close

Spec == Init /\ [][Next]_vars
===========================================================================
