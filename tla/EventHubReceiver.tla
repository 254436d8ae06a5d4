-------------------------- MODULE EventHubReceiver --------------------------
(***************************************************************************)
(* The thread-safe receiver, eventhubreceiver.c: the calls of application   *)
(* threads, the worker thread that the first receive creates, and           *)
(* EventHubReceiver_Destroy.  Under the lock the worker runs DoWork of the  *)
(* low-level receiver, whose callbacks queue dispatches; it then copies the *)
(* application's callbacks, releases the lock and hands the queue to them.  *)
(*                                                                         *)
(* The layer below is LowerReceiver, which EventHubReceiverLL implements.   *)
(* A call is one step under the lock; one that returns an error and         *)
(* changes nothing is a stuttering step, and so are RefreshSASTokenAsync    *)
(* and SetConnectionTracing, which the lower layer answers.  Callbacks may  *)
(* call this API: the lock is free while they run, so their calls are those *)
(* of any other thread, but go on while Destroy waits for the worker.  As   *)
(* the header demands, none calls Destroy.                                  *)
(*                                                                         *)
(* A member of Receives is one accepted receive, that is its callbacks and  *)
(* contexts; a dispatch notes which one it is about, which the code does    *)
(* not.                                                                     *)
(***************************************************************************)
EXTENDS Naturals, Sequences

CONSTANTS Receives,     \* receives the application may start, each once
          MaxReports,   \* bound: what the lower layer reports, ends aside
          NULL

ASSUME WrapperAssumption == NULL \notin Receives /\ MaxReports \in Nat

Kinds == {"event", "timeout", "error", "end"}
Dispatches == [type : Kinds, receive : Receives, n : Nat]

Copies == [event : Receives \cup {NULL}, end : Receives \cup {NULL}]
Calls == [dispatch : Dispatches, context : Receives]

ASSUME NullAssumption == NULL \notin Copies \cup Calls

VARIABLES
  state,                     \* EVENTHUBRECEIVER_STATE, never INACTIVE_PENDING
  onEventReceiveCallback,    \* the receive whose event and error callbacks are set
  onEventReceiveEndCallback, \* the receive whose end callback is set
  threadHandle,              \* whether the worker was created
  threadState,               \* "RUN" or "END"
  worker,                    \* where the worker is; it holds the lock in "dowork"
  callbacks,                 \* its copy of the callbacks, NULL until assigned
  running,                   \* the dispatch whose callback is running, or NULL
  receiveCallbackList,       \* the dispatches that wait for their callback
  cloned,                    \* dispatches whose dataHandle is not destroyed yet
  destroying,                \* where EventHubReceiver_Destroy is
  ll_state, ll_receive, ll_end, ll_pc, calling, context, \* the lower layer
  started,                   \* history: receives given to the lower layer, in order
  asked,                     \* history: those that were to report their end
  ended,                     \* history: those whose end callback was called
  lost,                      \* history: those whose end got no dispatch
  erred,                     \* history: those of which an error was reported
  reported,                  \* history: how often the lower layer called back
  last,                      \* history: the report whose callback ran last
  at                         \* history: the receive it was called for

userVars == <<state, onEventReceiveCallback, onEventReceiveEndCallback>>
threadVars == <<threadHandle, threadState>>
listVars == <<receiveCallbackList, cloned>>
lowerVars == <<ll_state, ll_receive, ll_end, ll_pc, calling, context>>
calledVars == <<ended, last, at>>
reportVars == <<lost, erred, reported>>
vars == <<userVars, threadVars, worker, callbacks, running, listVars, destroying,
          lowerVars, started, asked, calledVars, reportVars>>

Lower == INSTANCE LowerReceiver WITH state <- ll_state, receive <- ll_receive,
                                     endReceive <- ll_end, pc <- ll_pc

LockFree == worker # "dowork"

\* What the application sees.
Service ==
  INSTANCE ReceiveService
    WITH calling <- IF running = NULL THEN NULL ELSE running.context,
         closed <- destroying \in {"LL_Destroy", "destroyed"}

Started == Service!Started

Init == /\ state = "INACTIVE"
        /\ onEventReceiveCallback = NULL
        /\ onEventReceiveEndCallback = NULL
        /\ threadHandle = FALSE
        /\ threadState = "END"
        /\ worker = "none"
        /\ callbacks = NULL
        /\ running = NULL
        /\ receiveCallbackList = <<>>
        /\ cloned = {}
        /\ destroying = "no"
        /\ Lower!Init
        /\ started = <<>>
        /\ asked = {}
        /\ ended = {}
        /\ lost = {}
        /\ erred = {}
        /\ reported = 0
        /\ last = 0
        /\ at = NULL
-----------------------------------------------------------------------------
(* Calls of the application. *)

\* While Destroy waits for the worker, a callback that the worker still runs
\* may call; no other thread may.
AppMayCall == \/ destroying = "no"
              \/ destroying = "joining" /\ running # NULL

\* The first receive creates the worker.
CreateThread == /\ threadHandle' = TRUE
                /\ IF threadHandle THEN UNCHANGED <<threadState, worker>>
                   ELSE threadState' = "RUN" /\ worker' = "check"

\* With and without a wait time-out.  When the thread cannot be created the
\* caller gets an error, but the lower receiver stays started.
ExecuteCommonReceiveFromStartTimestampAsync(r) ==
  /\ AppMayCall /\ LockFree
  /\ r \notin Started
  /\ state = "INACTIVE"
  /\ Lower!Start(r)
  /\ started' = Append(started, r)
  /\ \/ /\ CreateThread
        /\ state' = "ACTIVE"
        /\ onEventReceiveCallback' = r
        /\ onEventReceiveEndCallback' = NULL
     \/ /\ ~threadHandle
        /\ threadState' = "END"
        /\ UNCHANGED <<userVars, threadHandle, worker>>
  /\ UNCHANGED <<callbacks, running, listVars, destroying, asked, calledVars,
                 reportVars>>

\* Mutant: the event callback is not forgotten.
ReceiveEndAsyncKeeping(withCallback) ==
  /\ AppMayCall /\ LockFree
  /\ state = "ACTIVE"
  /\ Lower!RequestEnd(withCallback)
  /\ state' = "INACTIVE"
  /\ onEventReceiveEndCallback' = IF withCallback THEN onEventReceiveCallback
                                                  ELSE NULL
  /\ asked' = IF withCallback THEN asked \cup {onEventReceiveCallback} ELSE asked
  /\ UNCHANGED <<threadVars, worker, callbacks, running, listVars, destroying,
                 started, calledVars, reportVars, onEventReceiveCallback>>

\* The lower layer refuses when it is no longer active.
EventHubReceiver_ReceiveEndAsync(withCallback) ==
  /\ AppMayCall /\ LockFree
  /\ state = "ACTIVE"
  /\ Lower!RequestEnd(withCallback)
  /\ state' = "INACTIVE"
  /\ onEventReceiveCallback' = NULL
  /\ onEventReceiveEndCallback' = IF withCallback THEN onEventReceiveCallback
                                                  ELSE NULL
  /\ asked' = IF withCallback THEN asked \cup {onEventReceiveCallback} ELSE asked
  /\ UNCHANGED <<threadVars, worker, callbacks, running, listVars, destroying,
                 started, calledVars, reportVars>>
-----------------------------------------------------------------------------
(* DoWork and LL_Destroy of the lower layer, which call back.  DoWork of an  *)
(* inactive receiver returns at once.                                       *)

\* uAMQP reports at will, also that the authorization failed.
LowerReports ==
  /\ worker = "dowork" \/ destroying = "LL_Destroy"
  /\ reported < MaxReports
  /\ Lower!Fail \/ \E k \in {"event", "timeout", "error"} : Lower!Report(k)
  /\ UNCHANGED <<userVars, threadVars, worker, callbacks, running, listVars,
                 destroying, started, asked, calledVars, reportVars>>

LowerWorks ==
  /\ worker = "dowork"
  /\ Lower!WorkReturns \/ Lower!TornDown
  /\ UNCHANGED <<userVars, threadVars, worker, callbacks, running, listVars,
                 destroying, started, asked, calledVars, reportVars>>

\* EventData_Clone: only a message has data.
DispatchCreateHelper ==
  [type |-> calling, receive |-> context, n |-> reported + 1]

\* Mutant: inserts at the head.
ListAddAtHead(dispatch) ==
  /\ receiveCallbackList' = <<dispatch>> \o receiveCallbackList
  /\ cloned' = IF dispatch.type = "event" THEN cloned \cup {dispatch.n} ELSE cloned

AsyncDispatchCallbackListAdd(dispatch) ==
  /\ receiveCallbackList' = Append(receiveCallbackList, dispatch)
  /\ cloned' = IF dispatch.type = "event" THEN cloned \cup {dispatch.n} ELSE cloned

\* EHR_OnAsyncReceiveCB, EHR_OnAsyncReceiveErrorCB and EHR_OnAsyncEndCB; when
\* there is no memory for the dispatch or its data, nobody is told.
EHR_OnAsyncCB ==
  /\ calling # "none"
  /\ reported' = reported + 1
  /\ erred' = IF calling = "error" THEN erred \cup {context} ELSE erred
  /\ \/ AsyncDispatchCallbackListAdd(DispatchCreateHelper) /\ UNCHANGED lost
     \/ /\ lost' = IF calling = "end" THEN lost \cup {context} ELSE lost
        /\ UNCHANGED listVars
  /\ Lower!Return
  /\ UNCHANGED <<userVars, threadVars, worker, callbacks, running, destroying,
                 started, asked, calledVars>>
-----------------------------------------------------------------------------
(* EHR_AsyncWorkLoopThreadEntry. *)

\* Mutant: the worker ends with the receive.
WorkerChecksState ==
  /\ worker = "check"
  /\ worker' = IF threadState = "END" \/ state = "INACTIVE" THEN "ended" ELSE "lock"
  /\ callbacks' = NULL
  /\ UNCHANGED <<userVars, threadVars, running, listVars, destroying, lowerVars,
                 started, asked, calledVars, reportVars>>

WorkerChecks ==
  /\ worker = "check"
  /\ worker' = IF threadState = "END" THEN "ended" ELSE "lock"
  /\ callbacks' = NULL
  /\ UNCHANGED <<userVars, threadVars, running, listVars, destroying, lowerVars,
                 started, asked, calledVars, reportVars>>

WorkerLocks ==
  /\ worker = "lock"
  /\ worker' = "dowork"
  /\ IF ll_state = "INACTIVE" THEN UNCHANGED lowerVars ELSE Lower!Work
  /\ UNCHANGED <<userVars, threadVars, callbacks, running, listVars, destroying,
                 started, asked, calledVars, reportVars>>

\* The queue is processed with callbacks that were never assigned.
LockFails ==
  /\ worker = "lock"
  /\ worker' = "process"
  /\ UNCHANGED <<userVars, threadVars, callbacks, running, listVars, destroying,
                 lowerVars, started, asked, calledVars, reportVars>>

\* Mutant: the end callback is not copied.
DoWorkReturnsNoEnd ==
  /\ worker = "dowork"
  /\ ll_pc = "idle"
  /\ worker' = "process"
  /\ callbacks' = [event |-> onEventReceiveCallback, end |-> NULL]
  /\ UNCHANGED <<userVars, threadVars, running, listVars, destroying, lowerVars,
                 started, asked, calledVars, reportVars>>

DoWorkReturns ==
  /\ worker = "dowork"
  /\ ll_pc = "idle"
  /\ worker' = "process"
  /\ callbacks' = [event |-> onEventReceiveCallback, end |-> onEventReceiveEndCallback]
  /\ UNCHANGED <<userVars, threadVars, running, listVars, destroying, lowerVars,
                 started, asked, calledVars, reportVars>>

\* Mutant: reads the callbacks themselves, without the lock.
CallbackForUnlocked(dispatch) == IF dispatch.type = "end" THEN onEventReceiveEndCallback
                                                          ELSE onEventReceiveCallback

CallbackFor(dispatch) == IF dispatch.type = "end" THEN callbacks.end
                                                  ELSE callbacks.event

\* A dispatch without a callback is dropped, its data is not destroyed.
AsyncDispatchCallbackListProcess ==
  /\ worker = "process"
  /\ running = NULL
  /\ receiveCallbackList # <<>>
  /\ receiveCallbackList' = Tail(receiveCallbackList)
  /\ LET dispatch == Head(receiveCallbackList)
         callback == CallbackFor(dispatch)
     IN  IF callback = NULL THEN UNCHANGED <<running, calledVars>>
         ELSE /\ running' = [dispatch |-> dispatch, context |-> callback]
              /\ last' = dispatch.n
              /\ at' = callback
              /\ ended' = IF dispatch.type = "end" THEN ended \cup {callback}
                                                   ELSE ended
  /\ UNCHANGED <<userVars, threadVars, worker, callbacks, cloned, destroying,
                 lowerVars, started, asked, reportVars>>

\* Mutant: the data stays.
CallbackReturnsLeaking ==
  /\ running # NULL
  /\ running' = NULL
  /\ UNCHANGED <<userVars, threadVars, worker, callbacks, listVars,
                 destroying, lowerVars, started, asked, calledVars, reportVars>>

\* The application's callback returns and the event's data is destroyed.
CallbackReturns ==
  /\ running # NULL
  /\ running' = NULL
  /\ cloned' = cloned \ {running.dispatch.n}
  /\ UNCHANGED <<userVars, threadVars, worker, callbacks, receiveCallbackList,
                 destroying, lowerVars, started, asked, calledVars, reportVars>>

\* The worker sleeps and goes round.
WorkerSleeps ==
  /\ worker = "process"
  /\ running = NULL
  /\ receiveCallbackList = <<>>
  /\ worker' = "check"
  /\ UNCHANGED <<userVars, threadVars, callbacks, running, listVars, destroying,
                 lowerVars, started, asked, calledVars, reportVars>>
-----------------------------------------------------------------------------
(* EventHubReceiver_Destroy: no other thread is in a call; a callback may run. *)

\* Mutant: does not tell the worker.
DestroyUntold ==
  /\ destroying = "no"
  /\ IF threadHandle THEN destroying' = "joining" /\ UNCHANGED lowerVars
                     ELSE destroying' = "LL_Destroy" /\ Lower!Destroy
  /\ UNCHANGED <<userVars, threadVars, worker, callbacks, running, listVars,
                 started, asked, calledVars, reportVars>>

EventHubReceiver_Destroy ==
  /\ destroying = "no"
  /\ threadState' = "END"
  /\ IF threadHandle THEN destroying' = "joining" /\ UNCHANGED lowerVars
                     ELSE destroying' = "LL_Destroy" /\ Lower!Destroy
  /\ UNCHANGED <<userVars, threadHandle, worker, callbacks, running, listVars,
                 started, asked, calledVars, reportVars>>

\* Mutant: does not wait.
JoinAtOnce ==
  /\ destroying = "joining"
  /\ destroying' = "LL_Destroy"
  /\ Lower!Destroy
  /\ UNCHANGED <<userVars, threadVars, worker, callbacks, running, listVars,
                 started, asked, calledVars, reportVars>>

ThreadAPI_Join ==
  /\ destroying = "joining"
  /\ worker = "ended"
  /\ destroying' = "LL_Destroy"
  /\ Lower!Destroy
  /\ UNCHANGED <<userVars, threadVars, worker, callbacks, running, listVars,
                 started, asked, calledVars, reportVars>>

\* What is in the queue by now is freed with its data.
AsyncDispatchCallbackListDeInit ==
  /\ receiveCallbackList' = <<>>
  /\ cloned' = cloned \ {receiveCallbackList[i].n : i \in DOMAIN receiveCallbackList}

DestroyReturns ==
  /\ destroying = "LL_Destroy"
  /\ Lower!DestroyReturns
  /\ AsyncDispatchCallbackListDeInit
  /\ destroying' = "destroyed"
  /\ UNCHANGED <<userVars, threadVars, worker, callbacks, running, started, asked,
                 calledVars, reportVars>>

Ended == destroying = "destroyed" /\ UNCHANGED vars
-----------------------------------------------------------------------------
Application == \/ \E r \in Receives : ExecuteCommonReceiveFromStartTimestampAsync(r)
               \/ \E withCallback \in BOOLEAN :
                    EventHubReceiver_ReceiveEndAsync(withCallback)

\* What the library does without waiting for anybody.
Library == \/ WorkerChecks
           \/ LockFails
           \/ EHR_OnAsyncCB
           \/ DoWorkReturns
           \/ AsyncDispatchCallbackListProcess
           \/ WorkerSleeps
           \/ ThreadAPI_Join
           \/ DestroyReturns

Next == \/ Application
        \/ Library
        \/ WorkerLocks
        \/ LowerReports
        \/ LowerWorks
        \/ CallbackReturns
        \/ EventHubReceiver_Destroy
        \/ Ended

Spec == Init /\ [][Next]_vars

\* Both threads run, Lock does not fail for ever, connection_dowork returns and
\* so do the application's callbacks.
FairSpec == /\ Spec
            /\ WF_vars(Library)
            /\ SF_vars(WorkerLocks)
            /\ SF_vars(LowerWorks)
            /\ WF_vars(CallbackReturns)
-----------------------------------------------------------------------------
UserTypes ==
  /\ state \in {"INACTIVE", "ACTIVE"}
  /\ onEventReceiveCallback \in Receives \cup {NULL}
  /\ onEventReceiveEndCallback \in Receives \cup {NULL}

WorkerTypes ==
  /\ threadHandle \in BOOLEAN
  /\ threadState \in {"RUN", "END"}
  /\ worker \in {"none", "check", "lock", "dowork", "process", "ended"}
  /\ callbacks \in Copies \cup {NULL}
  /\ destroying \in {"no", "joining", "LL_Destroy", "destroyed"}

QueueTypes ==
  /\ running \in Calls \cup {NULL}
  /\ receiveCallbackList \in Seq(Dispatches)
  /\ cloned \subseteq Nat

LowerTypes ==
  /\ ll_state \in {"INACTIVE", "ACTIVE", "INACTIVE_PENDING"}
  /\ ll_receive \in Receives \cup {NULL}
  /\ ll_end \in Receives \cup {NULL}
  /\ ll_pc \in {"idle", "working", "ending", "failing", "ended", "destroying",
                "destroyed"}
  /\ calling \in Kinds \cup {"none"}
  /\ context \in Receives \cup {NULL}

PastTypes ==
  /\ started \in Seq(Receives)
  /\ asked \cup ended \cup lost \cup erred \subseteq Receives
  /\ at \in Receives \cup {NULL}
  /\ reported \in Nat
  /\ last \in Nat

TypeOK == UserTypes /\ WorkerTypes /\ QueueTypes /\ LowerTypes /\ PastTypes

\* A callback gets the contexts of the receive that its dispatch is about,
\* although the queue does not say which one that is and receives may be ended
\* and started while the queue is processed.
CallsOwnReceive == running # NULL => running.context = running.dispatch.receive

Queue == {receiveCallbackList[i] : i \in DOMAIN receiveCallbackList}

\* Data is cloned for a message and destroyed exactly when its dispatch is
\* neither queued nor running: none leaks, none is destroyed while in use.
DataOwned ==
  cloned = {d.n : d \in {d \in Queue : d.type = "event"}}
             \cup {n \in {last} : running # NULL /\ running.dispatch.type = "event"}

\* When the lower layer is destroyed the worker is gone and no callback runs.
QuietWhenDestroyed ==
  destroying \in {"LL_Destroy", "destroyed"} =>
    worker \in {"none", "ended"} /\ running = NULL

\* Where the worker and the lower layer are.
WorkerInStep ==
  /\ threadHandle <=> worker # "none"
  /\ destroying \in {"LL_Destroy", "destroyed"} => worker \in {"none", "ended"}
  /\ running # NULL => worker = "process"
  /\ ll_pc \in {"working", "ending", "failing", "ended"} => worker = "dowork"
  /\ destroying = "destroyed" <=> ll_pc = "destroyed"
  /\ destroying = "LL_Destroy" <=> ll_pc = "destroying"

LowerInStep ==
  /\ ll_state = "INACTIVE" <=> ll_receive = NULL
  /\ calling = "none" <=> context = NULL
  /\ calling = "end" <=> ll_pc = "ended"
  /\ calling \in {"event", "timeout", "error"} => context = ll_receive
  /\ calling \in {"event", "timeout"} => ll_pc = "working"
  /\ ll_pc \in {"idle", "destroyed"} => calling = "none"
  /\ ll_pc \in {"working", "failing"} => ll_state = "ACTIVE"
  /\ ll_pc = "ending" => ll_state = "INACTIVE_PENDING"
  /\ ll_pc = "ended" => ll_state = "INACTIVE"

\* The two layers are at the same receive, unless the worker could not be
\* created, or the lower receiver failed and reported the error of that receive.
LevelsInStep ==
  /\ state = "ACTIVE" <=> onEventReceiveCallback # NULL
  /\ state = "ACTIVE" => threadHandle /\ onEventReceiveEndCallback = NULL
  /\ ll_state = "ACTIVE" /\ threadHandle => onEventReceiveCallback = ll_receive
  /\ ll_state = "INACTIVE_PENDING" => /\ threadHandle
                                      /\ state = "INACTIVE"
                                      /\ ll_end = onEventReceiveEndCallback
                                      /\ ll_end \in {ll_receive, NULL}
  /\ ll_pc = "ended" => state = "INACTIVE" /\ context = onEventReceiveEndCallback
  /\ ll_pc = "failing" /\ calling = "none" => ll_receive \in erred
  /\ state = "ACTIVE" /\ ll_pc # "destroyed" =>
       ll_state = "ACTIVE" \/ onEventReceiveCallback \in erred

\* An error that a tear down reports may come after the application ended the
\* receive; every other dispatch finds the callbacks of its receive.
Finds(dispatch, event, end) ==
  /\ dispatch.type = "end" => end = dispatch.receive
  /\ dispatch.type = "error" => event \in {dispatch.receive, NULL}
  /\ dispatch.type \in {"event", "timeout"} => event = dispatch.receive

QueueInStep ==
  /\ worker = "dowork" => \A d \in Queue :
       Finds(d, onEventReceiveCallback, onEventReceiveEndCallback)
  /\ worker = "process" /\ callbacks = NULL => receiveCallbackList = <<>>
  /\ worker = "process" => \A d \in Queue : Finds(d, callbacks.event, callbacks.end)
  /\ worker \notin {"dowork", "process"} /\ destroying # "LL_Destroy" =>
       receiveCallbackList = <<>>

\* The queue holds later reports behind earlier ones and the end of a receive
\* behind all others; what ended is not reported again.
QueueInOrder ==
  /\ last <= reported
  /\ running # NULL => running.dispatch.n = last
  /\ \A d \in Queue : d.n \in (last + 1)..reported
  /\ \A i, j \in DOMAIN receiveCallbackList : i < j =>
       /\ receiveCallbackList[i].n < receiveCallbackList[j].n
       /\ receiveCallbackList[i].type # "end"
  /\ ll_pc # "idle" => \A d \in Queue : d.type # "end"

Over == /\ ended \subseteq Started
        /\ {d.receive : d \in Queue} \subseteq Started \ ended
        /\ {ll_receive, context} \subseteq (Started \ ended) \cup {NULL}
        /\ \A d \in Queue : d.type = "end" => d.receive # ll_receive

\* The lower layer works at one receive at a time, so that a queue is about one
\* receive, and not about one before that of the last callback.
Ordered ==
  /\ at \in Started \cup {NULL}
  /\ \A d \in Queue : Service!InTurn(d.receive)
  /\ \A r \in {ll_receive, context} \ {NULL} :
       /\ Service!InTurn(r)
       /\ \A d \in Queue : Service!Before(d.receive, r)
  /\ \A d, e \in Queue : d.receive = e.receive
  /\ ll_pc \notin {"idle", "destroyed"} =>
       \A d \in Queue : d.receive \in {ll_receive, context}

EndsAsked == /\ onEventReceiveEndCallback \in asked \cup {NULL}
             /\ \A d \in Queue : d.type = "end" => d.receive \in asked

IInv == /\ TypeOK
        /\ CallsOwnReceive
        /\ DataOwned
        /\ WorkerInStep
        /\ LowerInStep
        /\ LevelsInStep
        /\ QueueInStep
        /\ QueueInOrder
        /\ Over
        /\ Ordered
        /\ EndsAsked

\* The callbacks keep to ReceiveService: one at a time, in the order in which the
\* lower layer reported and the receives were started, none for a receive whose
\* end callback was called, ends only where asked for, none once the lower layer
\* is destroyed.
ServiceSpec == Service!Spec

\* Once queued, messages, wait time-outs and ends reach a callback: only an error
\* that comes with an end may find none.
NothingDropped ==
  [][worker = "process" /\ receiveCallbackList' # receiveCallbackList
       /\ Head(receiveCallbackList).type # "error"
       => running' # NULL /\ running'.dispatch = Head(receiveCallbackList)]_vars

\* A receive that the application ended is given up by the lower layer and its
\* end is reported if that was asked for, unless there was no memory to report it
\* or the receiver is destroyed.
EndIsAnswered ==
  \A r \in Receives :
    ll_state = "INACTIVE_PENDING" /\ ll_receive = r
      ~> \/ ll_receive # r /\ (r \in asked => r \in ended \cup lost)
         \/ destroying # "no"

\* EventHubReceiver_Destroy returns, wherever the worker is.
DestroyFinishes == destroying # "no" ~> destroying = "destroyed"
=============================================================================
