--------------------------- MODULE EventHubClient ---------------------------
(***************************************************************************)
(* The thread-safe sender, eventhubclient.c: application threads that call  *)
(* the blocking and the asynchronous sends, the worker thread that the      *)
(* first send creates, and EventHubClient_Destroy.                          *)
(*                                                                         *)
(* The lower layer below it is what EventHubClientLL promises: a set of     *)
(* accepted events, each confirmed once, by DoWork or by LL_Destroy.  The   *)
(* sections that an application thread runs under lockInfo are one step     *)
(* each; the worker holds the lock for a whole DoWork, callbacks included.  *)
(* SendBatch and SendBatchAsync differ from Send and SendAsync in what they *)
(* hand to the lower layer only.  The setters and RefreshSASTokenAsync call *)
(* the lower layer under the lock and change nothing here.  Application     *)
(* callbacks do not call back into this layer, whose lock is held.          *)
(***************************************************************************)
EXTENDS Naturals

CONSTANTS Senders,         \* application threads that call Send or SendBatch
          Asyncs,          \* events of SendAsync and SendBatchAsync
          NULL

Results == {"OK", "ERROR", "DESTROY", "TIMEOUT"}
Contexts == [callbackStatus : {"WAITING", "NOTIFIED"},
             confirmationResult : Results]

ASSUME EventAssumption == /\ Senders \cap Asyncs = {}
                          /\ NULL \notin Senders \cup Asyncs \cup Contexts

VARIABLES
  threadHandle,       \* whether the worker thread was created
  threadToContinue,   \* THREAD_CONTINUE, not THREAD_END
  worker,             \* where EventhubClientThread is; it holds lockInfo in "dowork"
  destroying,         \* where EventHubClient_Destroy is
  outgoing,           \* events that the lower layer has to confirm
  posting,            \* the sender whose EventhubClientLLCallback is to post
  caller,             \* where each blocking send is
  context,            \* its EVENTHUB_CALLBACK_STRUCT, NULL when not allocated
  confirmed,          \* history: how its event was confirmed
  returned            \* what its last send returned

threadVars == <<threadHandle, threadToContinue, worker, destroying>>
sendVars == <<caller, context, returned>>
vars == <<threadVars, sendVars, outgoing, posting, confirmed>>

LockFree == worker # "dowork"

Init == /\ threadHandle = FALSE
        /\ threadToContinue = TRUE
        /\ worker = "none"
        /\ destroying = "no"
        /\ outgoing = {}
        /\ posting = NULL
        /\ caller = [t \in Senders |-> "idle"]
        /\ context = [t \in Senders |-> NULL]
        /\ confirmed = [t \in Senders |-> "none"]
        /\ returned = [t \in Senders |-> "none"]
-----------------------------------------------------------------------------
(* Sending. *)

InitUserContext == [callbackStatus |-> "WAITING", confirmationResult |-> "ERROR"]

Create_DoWorkThreadIfNeccesary ==
  \/ threadHandle /\ UNCHANGED <<threadHandle, worker>>
  \/ ~threadHandle /\ threadHandle' = TRUE /\ worker' = "check"

Execute_LowerLayerSendAsync(e) ==
  /\ LockFree
  /\ Create_DoWorkThreadIfNeccesary
  /\ outgoing' = outgoing \cup {e}
  /\ UNCHANGED <<threadToContinue, destroying>>

\* The lock, the thread or the lower layer fails; the thread may have been
\* created by then.
ExecuteFails ==
  /\ \/ UNCHANGED <<threadHandle, worker>>
     \/ LockFree /\ Create_DoWorkThreadIfNeccesary
  /\ UNCHANGED <<threadToContinue, destroying, outgoing>>

\* The part of EventHubClient_Send before it waits.  A bound: after a spurious
\* wake-up t sends nothing more until its first event is confirmed.
EventHubClient_Send(t) ==
  /\ destroying = "no"
  /\ caller[t] = "idle"
  /\ t \notin outgoing /\ posting # t
  /\ \/ /\ Execute_LowerLayerSendAsync(t)
        /\ caller' = [caller EXCEPT ![t] = "sent"]
        /\ context' = [context EXCEPT ![t] = InitUserContext]
        /\ UNCHANGED returned
     \/ /\ ExecuteFails
        /\ returned' = [returned EXCEPT ![t] = "ERROR"]
        /\ UNCHANGED <<caller, context>>
  /\ confirmed' = [confirmed EXCEPT ![t] = "none"]
  /\ UNCHANGED posting

\* Mutant: the wait has a time-out.
Condition_WaitTimed(t) ==
  /\ caller[t] = "sent"
  /\ \E c \in {"waiting", "woken"} : caller' = [caller EXCEPT ![t] = c]
  /\ UNCHANGED <<threadVars, context, returned, outgoing, posting, confirmed>>

\* The sender waits, whatever callbackStatus is by now.
Condition_Wait(t) ==
  /\ caller[t] = "sent"
  /\ caller' = [caller EXCEPT ![t] = "waiting"]
  /\ UNCHANGED <<threadVars, context, returned, outgoing, posting, confirmed>>

\* Condition_Wait may return although nobody posted.
SpuriousWakeup(t) ==
  /\ caller[t] = "waiting"
  /\ caller' = [caller EXCEPT ![t] = "woken"]
  /\ UNCHANGED <<threadVars, context, returned, outgoing, posting, confirmed>>

\* The rest of EventHubClient_Send: the result, then the context is freed.
EventHubClient_SendReturns(t) ==
  /\ caller[t] = "woken"
  /\ caller' = [caller EXCEPT ![t] = "idle"]
  /\ context' = [context EXCEPT ![t] = NULL]
  /\ returned' = [returned EXCEPT ![t] =
       IF context[t].confirmationResult = "OK" THEN "OK" ELSE "ERROR"]
  /\ UNCHANGED <<threadVars, outgoing, posting, confirmed>>

EventHubClient_SendAsync(a) ==
  /\ destroying = "no"
  /\ a \notin outgoing
  /\ Execute_LowerLayerSendAsync(a) \/ ExecuteFails
  /\ UNCHANGED <<sendVars, posting, confirmed>>
-----------------------------------------------------------------------------
(* Confirmations, by DoWork or by EventHubClient_LL_Destroy. *)

InLowerLayer == worker = "dowork" \/ destroying = "LL_Destroy"

\* Mutant: it posts before it stores the result.
CallbackPostingFirst(t, result) ==
  /\ context' = [context EXCEPT ![t].callbackStatus = "NOTIFIED"]
  /\ posting' = t

\* The stores of EventhubClientLLCallback; a freed context takes none.
EventhubClientLLCallback(t, result) ==
  /\ context' = IF context[t] = NULL THEN context
                ELSE [context EXCEPT ![t].callbackStatus = "NOTIFIED",
                                     ![t].confirmationResult = result]
  /\ posting' = t

\* The callback of an asynchronous send is the application's.
Confirm(e, result) ==
  /\ InLowerLayer
  /\ posting = NULL
  /\ e \in outgoing
  /\ outgoing' = outgoing \ {e}
  /\ IF e \in Senders
     THEN /\ EventhubClientLLCallback(e, result)
          /\ confirmed' = [confirmed EXCEPT ![e] = result]
     ELSE UNCHANGED <<context, posting, confirmed>>
  /\ UNCHANGED <<threadVars, caller, returned>>

\* Mutant: nobody is woken.
Condition_PostNone ==
  /\ posting # NULL
  /\ posting' = NULL
  /\ UNCHANGED <<threadVars, sendVars, outgoing, confirmed>>

\* A post wakes the sender if it waits; otherwise it is lost.
Condition_Post ==
  /\ posting # NULL
  /\ posting' = NULL
  /\ caller' = IF caller[posting] = "waiting"
               THEN [caller EXCEPT ![posting] = "woken"] ELSE caller
  /\ UNCHANGED <<threadVars, context, returned, outgoing, confirmed>>
-----------------------------------------------------------------------------
(* The worker thread and EventHubClient_Destroy. *)

WorkerChecks ==
  /\ worker = "check"
  /\ worker' = IF threadToContinue THEN "lock" ELSE "ended"
  /\ UNCHANGED <<threadHandle, threadToContinue, destroying, sendVars,
                 outgoing, posting, confirmed>>

WorkerLocks ==
  /\ worker = "lock"
  /\ worker' = "dowork"
  /\ UNCHANGED <<threadHandle, threadToContinue, destroying, sendVars,
                 outgoing, posting, confirmed>>

LockFails ==
  /\ worker = "lock"
  /\ worker' = "check"
  /\ UNCHANGED <<threadHandle, threadToContinue, destroying, sendVars,
                 outgoing, posting, confirmed>>

\* DoWork returns, the lock is released, the thread sleeps and goes round.
DoWorkReturns ==
  /\ worker = "dowork"
  /\ posting = NULL
  /\ worker' = "check"
  /\ UNCHANGED <<threadHandle, threadToContinue, destroying, sendVars,
                 outgoing, posting, confirmed>>

EventhubClientThread == WorkerChecks \/ WorkerLocks \/ LockFails \/ DoWorkReturns

\* Mutant: the worker is not told to end.
DestroyUnflagged ==
  /\ destroying = "no"
  /\ destroying' = IF threadHandle THEN "joining" ELSE "LL_Destroy"
  /\ UNCHANGED <<threadHandle, threadToContinue, worker, sendVars, outgoing,
                 posting, confirmed>>

\* No other thread is in a call, but for senders that have left the lock: from there
\* on Send uses its context only.
EventHubClient_Destroy ==
  /\ destroying = "no"
  /\ destroying' = IF threadHandle THEN "joining" ELSE "LL_Destroy"
  /\ threadToContinue' = ~threadHandle
  /\ UNCHANGED <<threadHandle, worker, sendVars, outgoing, posting, confirmed>>

\* Mutant: the thread is not waited for.
NotJoined ==
  /\ destroying = "joining"
  /\ destroying' = "LL_Destroy"
  /\ UNCHANGED <<threadHandle, threadToContinue, worker, sendVars, outgoing,
                 posting, confirmed>>

ThreadAPI_Join ==
  /\ destroying = "joining"
  /\ worker = "ended"
  /\ destroying' = "LL_Destroy"
  /\ UNCHANGED <<threadHandle, threadToContinue, worker, sendVars, outgoing,
                 posting, confirmed>>

DestroyReturns ==
  /\ destroying = "LL_Destroy"
  /\ outgoing = {}
  /\ posting = NULL
  /\ destroying' = "destroyed"
  /\ UNCHANGED <<threadHandle, threadToContinue, worker, sendVars, outgoing,
                 posting, confirmed>>
-----------------------------------------------------------------------------
Sending(t) == \/ Condition_Wait(t)
              \/ EventHubClient_SendReturns(t)

Next ==
  \/ \E t \in Senders : EventHubClient_Send(t) \/ Sending(t)
  \/ \E a \in Asyncs : EventHubClient_SendAsync(a)
  \/ \E e \in Senders \cup Asyncs, result \in Results : Confirm(e, result)
  \/ Condition_Post
  \/ EventhubClientThread
  \/ EventHubClient_Destroy
  \/ ThreadAPI_Join
  \/ DestroyReturns

Spec == Init /\ [][Next]_vars

\* The specification on a platform whose condition variables wake spuriously.
SpuriousSpec == Init /\ [][Next \/ \E t \in Senders : SpuriousWakeup(t)]_vars

\* Every thread runs, the worker's Lock does not fail for ever, and the lower
\* layer confirms what it accepted.
FairSpec ==
  /\ Spec
  /\ \A t \in Senders : WF_vars(Sending(t))
  /\ \A e \in Senders \cup Asyncs : SF_vars(\E result \in Results : Confirm(e, result))
  /\ WF_vars(Condition_Post)
  /\ WF_vars(EventhubClientThread)
  /\ SF_vars(WorkerLocks)
  /\ WF_vars(ThreadAPI_Join)
  /\ WF_vars(DestroyReturns)
-----------------------------------------------------------------------------
TypeOK ==
  /\ threadHandle \in BOOLEAN
  /\ threadToContinue \in BOOLEAN
  /\ worker \in {"none", "check", "lock", "dowork", "ended"}
  /\ destroying \in {"no", "joining", "LL_Destroy", "destroyed"}
  /\ outgoing \subseteq Senders \cup Asyncs
  /\ posting \in Senders \cup {NULL}
  /\ caller \in [Senders -> {"idle", "sent", "waiting", "woken"}]
  /\ context \in [Senders -> Contexts \cup {NULL}]
  /\ confirmed \in [Senders -> Results \cup {"none"}]
  /\ returned \in [Senders -> {"none", "OK", "ERROR"}]

\* A context is allocated as long as the lower layer may call back with it.
ContextsSafe == \A t \in Senders : t \in outgoing \/ posting = t => context[t] # NULL

\* The worker thread and the lower layer go together: it is created before there
\* is an event, runs until Destroy, and is gone before the lower layer goes.
WorkerOwnsLowerLayer ==
  /\ destroying \in {"LL_Destroy", "destroyed"} => worker \in {"none", "ended"}
  /\ destroying = "no" /\ outgoing # {} => worker \in {"check", "lock", "dowork"}

ThreadInStep ==
  /\ threadHandle <=> worker # "none"
  /\ worker = "ended" => ~threadToContinue
  /\ ~threadToContinue => destroying # "no"
  /\ outgoing # {} => threadHandle
  /\ destroying \in {"LL_Destroy", "destroyed"} => worker \in {"none", "ended"}

\* Where a blocking send is, its context and the callback go together.
SendInStep ==
  \A t \in Senders :
    /\ caller[t] = "idle" <=> context[t] = NULL
    /\ t \in outgoing \/ posting = t => caller[t] \in {"sent", "waiting"}
    /\ posting = t => t \notin outgoing
    /\ context[t] # NULL =>
         /\ context[t].callbackStatus = "NOTIFIED" <=> t \notin outgoing
         /\ t \notin outgoing => confirmed[t] = context[t].confirmationResult

IInv == TypeOK /\ ThreadInStep /\ SendInStep

\* A blocking send returns OK exactly when its own event was confirmed OK, in
\* whichever order the threads run.
ResultIsItsOwn ==
  [][\A t \in Senders : caller[t] # "idle" /\ caller'[t] = "idle" =>
       (returned'[t] = "OK" <=> confirmed[t] = "OK")]_vars

\* The lower layer's phase, told from the two threads that may be inside it.
LowerPhase == CASE destroying = "LL_Destroy" -> "destroying"
                [] destroying = "destroyed" -> "destroyed"
                [] destroying \notin {"LL_Destroy", "destroyed"} ->
                     IF worker = "dowork" THEN "working" ELSE "idle"

\* The threads use the lower layer as LowerSender, which EventHubClientLL
\* implements, allows: one of them at a time, and not once it is destroyed.  They
\* pass the callbacks for errors and states through and do not look at the reports.
Lower == INSTANCE LowerSender
           WITH Events <- Senders \cup Asyncs, Report <- NULL, None <- NULL,
                phase <- LowerPhase, pending <- outgoing, confirming <- posting
UsesLowerSender == Lower!Spec

\* A sender that waits before the callback posts returns, also if the client is
\* destroyed meanwhile.
WaitersReturn ==
  \A t \in Senders : caller[t] = "waiting" /\ t \in outgoing ~> caller[t] = "idle"

\* EventHubClient_Destroy returns: the worker ends and every event is confirmed.
DestroyFinishes == destroying # "no" ~> destroying = "destroyed"

\* A send whose callback has been called returns (SRS_EVENTHUBCLIENT_03_010).
NotifiedReturn ==
  \A t \in Senders : caller[t] # "idle" /\ t \notin outgoing ~> caller[t] = "idle"

\* A send does not return before its callback has been called
\* (SRS_EVENTHUBCLIENT_03_010, 07_053).
WaitsForCallback ==
  [][\A t \in Senders : caller[t] # "idle" /\ caller'[t] = "idle" =>
       context[t].callbackStatus = "NOTIFIED"]_vars
=============================================================================
