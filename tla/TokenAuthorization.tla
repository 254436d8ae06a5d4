------------------------ MODULE TokenAuthorization ------------------------
(***************************************************************************)
(* The authorization of a connection as its two sides see it: what          *)
(* eventhubauth.c lets its callers do and what both low-level layers do     *)
(* with it.  Age and time-outs of tokens are not part of this view; they     *)
(* decide which of several reports a caller gets.                           *)
(***************************************************************************)
VARIABLES credential, \* "AUTO" or "EXT"
          status,     \* of the handle; "NONE" while there is none
          timed,      \* the handle was created with a time-out for puts
          pending,    \* a refresh token waits for DoWork
          report      \* what DoWork was told and has still to act on, "none",
                      \* or "torn_down" while the stack is being destroyed

vars == <<credential, status, timed, pending, report>>

Failures == {"FAILURE", "EXPIRED", "TIMEOUT", "ERROR"}

\* What EventHubAuthCBS_GetStatus can report: it compares the clock with the
\* token's age or with the time of the put, or fails to read the clock.
MayReport ==
  CASE status = "OK" /\ credential = "AUTO" ->
         {"OK", "REFRESH_REQUIRED", "EXPIRED", "ERROR"}
    [] status = "IN_PROGRESS" /\ timed -> {"IN_PROGRESS", "TIMEOUT", "ERROR"}
    [] status = "IN_PROGRESS" /\ ~timed -> {"IN_PROGRESS", "ERROR"}
    [] OTHER -> {status}

Init == /\ credential \in {"AUTO", "EXT"}
        /\ status = "NONE"
        /\ timed = FALSE
        /\ pending = FALSE
        /\ report = "none"
---------------------------------------------------------------------------
\* The bring-up of a stack.
Create == /\ status = "NONE"
          /\ status' = "IDLE"
          /\ timed' \in BOOLEAN
          /\ report' = "none"
          /\ UNCHANGED <<credential, pending>>

\* With external tokens only, at any time.
RequestRefresh == /\ credential = "EXT"
                  /\ ~pending
                  /\ pending' = TRUE
                  /\ UNCHANGED <<credential, status, timed, report>>

\* The service answers a put; never while DoWork acts on a report.
PutCompletes == /\ report = "none"
                /\ status = "IN_PROGRESS"
                /\ status' \in {"OK", "FAILURE"}
                /\ UNCHANGED <<credential, timed, pending, report>>
---------------------------------------------------------------------------
(* DoWork asks for the status, and acts on what it was told.  A caller that *)
(* does both at once does not show the report in between.                   *)

GetStatus == /\ report = "none"
             /\ status # "NONE"
             /\ report' \in MayReport
             /\ UNCHANGED <<credential, status, timed, pending>>

ActsOn(r) == /\ status # "NONE"
             /\ report = r \/ (report = "none" /\ r \in MayReport)

\* A token is put only if the report asks for one.
Put == /\ \/ /\ ActsOn("IDLE") \/ ActsOn("REFRESH_REQUIRED")
             /\ UNCHANGED pending
          \/ /\ ActsOn("OK") /\ pending
             /\ pending' = FALSE
       /\ status' = "IN_PROGRESS"
       /\ report' = "none"
       /\ UNCHANGED <<credential, timed>>

GoOn == /\ ActsOn("IN_PROGRESS") \/ (ActsOn("OK") /\ ~pending)
        /\ report' = "none"
        /\ UNCHANGED <<credential, status, timed, pending>>

\* After a failure that was reported, or one of the put itself, nothing is
\* done with the handle but to destroy it.
Fail == /\ \/ /\ \E r \in Failures \cup {"IDLE", "REFRESH_REQUIRED"} : ActsOn(r)
              /\ UNCHANGED pending
           \/ /\ ActsOn("OK") /\ pending
              /\ pending' = FALSE
        /\ report' \in {"ERROR", "torn_down"}
        /\ UNCHANGED <<credential, status, timed>>
---------------------------------------------------------------------------
\* The stack goes for a reason of its own.
TearDown == /\ report = "none"
            /\ report' = "torn_down"
            /\ UNCHANGED <<credential, status, timed, pending>>

\* The refresh token that waits goes with the handle, or is kept for the next.
Destroy == /\ report \in Failures \cup {"none", "torn_down"}
           /\ status' = "NONE"
           /\ report' = "none"
           /\ pending' \in {FALSE, pending}
           /\ UNCHANGED <<credential, timed>>

Next == \/ Create
        \/ RequestRefresh
        \/ PutCompletes
        \/ GetStatus
        \/ Put
        \/ GoOn
        \/ Fail
        \/ TearDown
        \/ Destroy

Spec == Init /\ [][Next]_vars
===========================================================================
