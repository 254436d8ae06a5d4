----------------------- MODULE EventHubClient_proofs -----------------------
(***************************************************************************)
(* Proofs about EventHubClient, for any number of application threads.     *)
(***************************************************************************)
EXTENDS EventHubClient, TLAPS

\* The initial states satisfy the invariant.
LEMMA InitIInv == Init => IInv
<1> SUFFICES ASSUME Init PROVE IInv
  OBVIOUS
<1> USE EventAssumption DEF Init
<1>1. TypeOK
  BY DEF TypeOK
<1>2. ThreadInStep
  BY DEF ThreadInStep
<1>3. SendInStep
  BY DEF SendInStep
<1> QED BY <1>1, <1>2, <1>3 DEF IInv

\* What a thread has to know to keep SendInStep: the sends of all others, and
\* what is true of its own after the step.
SendOf(t) ==
  /\ caller[t] = "idle" <=> context[t] = NULL
  /\ t \in outgoing \/ posting = t => caller[t] \in {"sent", "waiting"}
  /\ posting = t => t \notin outgoing
  /\ context[t] # NULL =>
       /\ context[t].callbackStatus = "NOTIFIED" <=> t \notin outgoing
       /\ t \notin outgoing => confirmed[t] = context[t].confirmationResult

LEMMA SendsOfAll == SendInStep <=> \A t \in Senders : SendOf(t)
BY DEF SendInStep, SendOf

\* The step of an application thread into a send.
LEMMA SendStep ==
  ASSUME IInv, NEW t \in Senders, EventHubClient_Send(t) PROVE IInv'
<1> USE EventAssumption DEF EventHubClient_Send
<1>1. CASE /\ Execute_LowerLayerSendAsync(t)
           /\ caller' = [caller EXCEPT ![t] = "sent"]
           /\ context' = [context EXCEPT ![t] = InitUserContext]
           /\ UNCHANGED returned
  <2> USE <1>1 DEF Execute_LowerLayerSendAsync
  <2>1. InitUserContext \in Contexts /\ InitUserContext # NULL
    BY DEF InitUserContext, Contexts, Results
  <2>2. TypeOK'
    BY <2>1 DEF IInv, TypeOK, Create_DoWorkThreadIfNeccesary
  <2>3. ThreadInStep'
    BY DEF IInv, TypeOK, ThreadInStep, Create_DoWorkThreadIfNeccesary
  <2>4. ASSUME NEW s \in Senders PROVE SendOf(s)'
    <3>1. SendOf(s)
      BY SendsOfAll DEF IInv
    <3>2. CASE s = t
      BY <2>1, <3>2 DEF IInv, TypeOK, SendOf, InitUserContext
    <3>3. CASE s # t
      BY <3>1, <3>3 DEF IInv, TypeOK, SendOf
    <3> QED BY <3>2, <3>3
  <2> QED BY <2>2, <2>3, <2>4, SendsOfAll DEF IInv, SendInStep, SendOf
<1>2. CASE /\ ExecuteFails
           /\ returned' = [returned EXCEPT ![t] = "ERROR"]
           /\ UNCHANGED <<caller, context>>
  <2> USE <1>2 DEF ExecuteFails
  <2>1. TypeOK'
    BY DEF IInv, TypeOK, Create_DoWorkThreadIfNeccesary
  <2>2. ThreadInStep'
    BY DEF IInv, TypeOK, ThreadInStep, Create_DoWorkThreadIfNeccesary
  <2>3. SendInStep'
    BY DEF IInv, TypeOK, SendInStep
  <2> QED BY <2>1, <2>2, <2>3 DEF IInv
<1> QED BY <1>1, <1>2

LEMMA SendAsyncStep ==
  ASSUME IInv, NEW a \in Asyncs, EventHubClient_SendAsync(a) PROVE IInv'
<1> USE EventAssumption
        DEF EventHubClient_SendAsync, Execute_LowerLayerSendAsync, ExecuteFails,
            Create_DoWorkThreadIfNeccesary, sendVars
<1>1. TypeOK'
  BY DEF IInv, TypeOK
<1>2. ThreadInStep'
  BY DEF IInv, TypeOK, ThreadInStep
<1>3. SendInStep'
  BY DEF IInv, TypeOK, SendInStep
<1> QED BY <1>1, <1>2, <1>3 DEF IInv

\* The steps of a blocking send between the lower layer's call and its return.
LEMMA SendingStep ==
  ASSUME IInv, NEW t \in Senders, Sending(t) PROVE IInv'
<1> USE EventAssumption DEF threadVars
<1>1. CASE Condition_Wait(t)
  <2> USE <1>1 DEF Condition_Wait
  <2>1. TypeOK' /\ ThreadInStep'
    BY DEF IInv, TypeOK, ThreadInStep
  <2>2. SendInStep'
    BY DEF IInv, TypeOK, SendInStep
  <2> QED BY <2>1, <2>2 DEF IInv
<1>2. CASE EventHubClient_SendReturns(t)
  <2> USE <1>2 DEF EventHubClient_SendReturns
  <2>1. TypeOK' /\ ThreadInStep'
    BY DEF IInv, TypeOK, ThreadInStep
  <2>2. SendInStep'
    BY DEF IInv, TypeOK, SendInStep
  <2> QED BY <2>1, <2>2 DEF IInv
<1> QED BY <1>1, <1>2 DEF Sending

\* A confirmation of the lower layer.
LEMMA ConfirmStep ==
  ASSUME IInv, NEW e \in Senders \cup Asyncs, NEW result \in Results,
         Confirm(e, result)
  PROVE  IInv'
<1> USE EventAssumption DEF threadVars, Confirm
<1>1. CASE e \in Senders
  <2> USE <1>1 DEF EventhubClientLLCallback
  <2>1. context[e] \in Contexts /\ context[e] # NULL
    BY DEF IInv, TypeOK, SendInStep
  <2>2. context' = [context EXCEPT ![e] =
          [callbackStatus |-> "NOTIFIED", confirmationResult |-> result]]
    BY <2>1 DEF IInv, TypeOK, Contexts
  <2>3. [callbackStatus |-> "NOTIFIED", confirmationResult |-> result] \in Contexts
    BY DEF Contexts
  <2>4. TypeOK' /\ ThreadInStep'
    BY <2>2, <2>3 DEF IInv, TypeOK, ThreadInStep
  <2>5. ASSUME NEW s \in Senders PROVE SendOf(s)'
    <3>1. SendOf(s)
      BY SendsOfAll DEF IInv
    <3>2. CASE s = e
      BY <2>2, <2>3, <3>1, <3>2 DEF IInv, TypeOK, SendOf
    <3>3. CASE s # e
      BY <2>2, <3>1, <3>3 DEF IInv, TypeOK, SendOf
    <3> QED BY <3>2, <3>3
  <2> QED BY <2>4, <2>5 DEF IInv, SendInStep, SendOf
<1>2. CASE e \notin Senders
  <2> USE <1>2
  <2>1. TypeOK' /\ ThreadInStep'
    BY DEF IInv, TypeOK, ThreadInStep
  <2>2. SendInStep'
    BY DEF IInv, TypeOK, SendInStep
  <2> QED BY <2>1, <2>2 DEF IInv
<1> QED BY <1>1, <1>2

LEMMA PostStep == ASSUME IInv, Condition_Post PROVE IInv'
<1> USE EventAssumption DEF threadVars, Condition_Post
<1>1. posting \in Senders
  BY DEF IInv, TypeOK
<1>2. TypeOK' /\ ThreadInStep'
  BY <1>1 DEF IInv, TypeOK, ThreadInStep
<1>3. SendInStep'
  BY <1>1 DEF IInv, TypeOK, SendInStep
<1> QED BY <1>2, <1>3 DEF IInv

\* The worker and Destroy change no send.
LEMMA ThreadStep ==
  ASSUME IInv, EventhubClientThread \/ EventHubClient_Destroy
               \/ ThreadAPI_Join \/ DestroyReturns
  PROVE  IInv'
<1> USE DEF EventhubClientThread, WorkerChecks, WorkerLocks, LockFails,
            DoWorkReturns, EventHubClient_Destroy, ThreadAPI_Join,
            DestroyReturns, sendVars
<1>1. TypeOK'
  BY DEF IInv, TypeOK
<1>2. ThreadInStep'
  BY DEF IInv, TypeOK, ThreadInStep
<1>3. SendInStep'
  BY DEF IInv, SendInStep
<1> QED BY <1>1, <1>2, <1>3 DEF IInv

\* Every step keeps the invariant.
LEMMA NextIInv == IInv /\ [Next]_vars => IInv'
<1> SUFFICES ASSUME IInv, [Next]_vars PROVE IInv'
  OBVIOUS
<1>1. ASSUME NEW t \in Senders, EventHubClient_Send(t) \/ Sending(t) PROVE IInv'
  BY <1>1, SendStep, SendingStep
<1>2. ASSUME NEW a \in Asyncs, EventHubClient_SendAsync(a) PROVE IInv'
  BY <1>2, SendAsyncStep
<1>3. ASSUME NEW e \in Senders \cup Asyncs, NEW result \in Results,
             Confirm(e, result)
      PROVE  IInv'
  BY <1>3, ConfirmStep
<1>4. CASE Condition_Post
  BY <1>4, PostStep
<1>5. CASE EventhubClientThread \/ EventHubClient_Destroy \/ ThreadAPI_Join
           \/ DestroyReturns
  BY <1>5, ThreadStep
<1>6. CASE UNCHANGED vars
  BY <1>6 DEF vars, threadVars, sendVars, IInv, TypeOK, ThreadInStep, SendInStep
<1> QED BY <1>1, <1>2, <1>3, <1>4, <1>5, <1>6 DEF Next

\* The inductive invariant of the sends, the worker thread and Destroy.
THEOREM Inductive == Spec => []IInv
<1>1. Init => IInv
  BY InitIInv
<1>2. IInv /\ [Next]_vars => IInv'
  BY NextIInv
<1> QED BY <1>1, <1>2, PTL DEF Spec

\* Every variable of the threads in eventhubclient.c keeps its type.
THEOREM TypeCorrect == Spec => []TypeOK
<1>1. IInv => TypeOK
  BY DEF IInv
<1> QED BY <1>1, Inductive, PTL

\* EventHubClient_Send does not free the context that EventhubClientLLCallback
\* will be called with.
THEOREM ContextsAllocated == Spec => []ContextsSafe
<1>1. IInv => ContextsSafe
  BY DEF IInv, SendInStep, ContextsSafe
<1> QED BY <1>1, Inductive, PTL

\* EventhubClientThread never runs DoWork on a lower layer that is being
\* destroyed, and runs as long as there is something to confirm.
THEOREM WorkerRuns == Spec => []WorkerOwnsLowerLayer
<1>1. IInv => WorkerOwnsLowerLayer
  BY DEF IInv, TypeOK, ThreadInStep, WorkerOwnsLowerLayer
<1> QED BY <1>1, Inductive, PTL

\* EventHubClient_Send returns OK if and only if its own event was confirmed OK.
THEOREM OwnResult == Spec => ResultIsItsOwn
<1>1. IInv /\ [Next]_vars =>
        [\A t \in Senders : caller[t] # "idle" /\ caller'[t] = "idle" =>
           (returned'[t] = "OK" <=> confirmed[t] = "OK")]_vars
  <2> SUFFICES ASSUME IInv, Next, NEW t \in Senders,
                      caller[t] # "idle", caller'[t] = "idle"
               PROVE  returned'[t] = "OK" <=> confirmed[t] = "OK"
    OBVIOUS
  <2>1. EventHubClient_SendReturns(t)
    BY DEF Next, IInv, TypeOK, EventHubClient_Send, EventHubClient_SendAsync,
           Sending, Condition_Wait, EventHubClient_SendReturns, Confirm,
           Condition_Post, EventhubClientThread, WorkerChecks, WorkerLocks,
           LockFails, DoWorkReturns, EventHubClient_Destroy, ThreadAPI_Join,
           DestroyReturns, sendVars
  <2>2. t \notin outgoing /\ context[t] # NULL
    BY <2>1 DEF EventHubClient_SendReturns, IInv, SendInStep
  <2>3. confirmed[t] = context[t].confirmationResult
    BY <2>2 DEF IInv, SendInStep
  <2> QED BY <2>1, <2>3 DEF EventHubClient_SendReturns, IInv, TypeOK
<1> QED BY <1>1, Inductive, PTL DEF Spec, ResultIsItsOwn
-----------------------------------------------------------------------------
(* The threads keep to the interface that EventHubClientLL is shown to offer.  *)

LEMMA LowerStutters ==
  ASSUME UNCHANGED <<worker, destroying, outgoing, posting>>
  PROVE  UNCHANGED Lower!vars
BY DEF Lower!vars, LowerPhase

\* A send reaches the lower layer between two DoWork calls, or not at all.  The
\* worker thread may start with it, which the lower layer does not notice.
LEMMA ExecuteIsLowers ==
  ASSUME IInv, NEW e \in Senders \cup Asyncs, destroying = "no",
         e \notin outgoing, posting # e, UNCHANGED posting,
         Execute_LowerLayerSendAsync(e) \/ ExecuteFails
  PROVE  Lower!Next \/ UNCHANGED Lower!vars
<1>1. CASE Execute_LowerLayerSendAsync(e)
  <2>1. LowerPhase = "idle" /\ LowerPhase' = "idle"
    BY <1>1 DEF Execute_LowerLayerSendAsync, LockFree, Create_DoWorkThreadIfNeccesary,
                LowerPhase
  <2>2. Lower!Accept(e)
    BY <1>1, <2>1 DEF Execute_LowerLayerSendAsync, Lower!Accept
  <2> QED BY <2>2 DEF Lower!Next
<1>2. CASE ExecuteFails
  <2>1. UNCHANGED LowerPhase
    BY <1>2 DEF ExecuteFails, LockFree, Create_DoWorkThreadIfNeccesary, LowerPhase
  <2> QED BY <1>2, <2>1 DEF ExecuteFails, Lower!vars
<1> QED BY <1>1, <1>2

\* Confirmations come from the one thread that is inside the lower layer.  The
\* callback of an asynchronous send is the application's and ends at once.
LEMMA ConfirmIsLowers ==
  ASSUME IInv, NEW e \in Senders \cup Asyncs, NEW result \in Results,
         Confirm(e, result)
  PROVE  Lower!Next
<1>1. UNCHANGED LowerPhase
  BY DEF Confirm, threadVars, LowerPhase
<1>2. LowerPhase \in {"working", "destroying"}
  BY DEF Confirm, InLowerLayer, LowerPhase, IInv, ThreadInStep
<1>3. posting = NULL /\ posting' \in {e, NULL}
  BY DEF Confirm, EventhubClientLLCallback
<1>4. Lower!Confirm(e)
  BY <1>1, <1>2, <1>3 DEF Confirm, Lower!Confirm
<1> QED BY <1>4 DEF Lower!Next

\* The worker enters DoWork only while nothing is being destroyed, and Destroy
\* enters the lower layer only when the worker has ended or never was.
LEMMA ThreadIsLowers ==
  ASSUME IInv, EventhubClientThread \/ EventHubClient_Destroy
               \/ ThreadAPI_Join \/ DestroyReturns
  PROVE  Lower!Next \/ UNCHANGED Lower!vars
<1>1. CASE WorkerChecks \/ LockFails
  <2>1. UNCHANGED LowerPhase
    BY <1>1 DEF WorkerChecks, LockFails, LowerPhase
  <2> QED BY <1>1, <2>1 DEF WorkerChecks, LockFails, Lower!vars
<1>2. CASE WorkerLocks
  <2>1. LowerPhase = "idle" /\ LowerPhase' = "working"
    BY <1>2 DEF WorkerLocks, LowerPhase, IInv, ThreadInStep
  <2>2. Lower!DoWork
    BY <1>2, <2>1 DEF WorkerLocks, Lower!DoWork
  <2> QED BY <2>2 DEF Lower!Next
<1>3. CASE DoWorkReturns
  <2>1. LowerPhase = "working" /\ LowerPhase' = "idle"
    BY <1>3 DEF DoWorkReturns, LowerPhase, IInv, ThreadInStep
  <2>2. Lower!DoWorkReturns
    BY <1>3, <2>1 DEF DoWorkReturns, Lower!DoWorkReturns
  <2> QED BY <2>2 DEF Lower!Next
<1>4. CASE EventHubClient_Destroy
  <2>1. CASE threadHandle
    <3>1. destroying = "no" /\ destroying' = "joining" /\ UNCHANGED worker
      BY <1>4, <2>1 DEF EventHubClient_Destroy
    <3>2. UNCHANGED LowerPhase
      BY <3>1 DEF LowerPhase
    <3> QED BY <1>4, <3>2 DEF EventHubClient_Destroy, Lower!vars
  <2>2. CASE ~threadHandle
    <3>1. worker = "none" /\ destroying = "no" /\ destroying' = "LL_Destroy"
      BY <1>4, <2>2 DEF EventHubClient_Destroy, IInv, ThreadInStep
    <3>2. LowerPhase = "idle" /\ LowerPhase' = "destroying"
      BY <3>1 DEF LowerPhase
    <3>3. Lower!Destroy
      BY <1>4, <3>2 DEF EventHubClient_Destroy, Lower!Destroy
    <3> QED BY <3>3 DEF Lower!Next
  <2> QED BY <2>1, <2>2
<1>5. CASE ThreadAPI_Join
  <2>1. LowerPhase = "idle" /\ LowerPhase' = "destroying"
    BY <1>5 DEF ThreadAPI_Join, LowerPhase
  <2>2. Lower!Destroy
    BY <1>5, <2>1 DEF ThreadAPI_Join, Lower!Destroy
  <2> QED BY <2>2 DEF Lower!Next
<1>6. CASE DestroyReturns
  <2>1. LowerPhase = "destroying" /\ LowerPhase' = "destroyed"
    BY <1>6 DEF DestroyReturns, LowerPhase
  <2>2. Lower!DestroyReturns
    BY <1>6, <2>1 DEF DestroyReturns, Lower!DestroyReturns
  <2> QED BY <2>2 DEF Lower!Next
<1> QED BY <1>1, <1>2, <1>3, <1>4, <1>5, <1>6 DEF EventhubClientThread

LEMMA LowerStep == IInv /\ [Next]_vars => [Lower!Next]_(Lower!vars)
<1> SUFFICES ASSUME IInv, [Next]_vars PROVE Lower!Next \/ UNCHANGED Lower!vars
  OBVIOUS
<1>1. ASSUME NEW t \in Senders, EventHubClient_Send(t) PROVE Lower!Next \/ UNCHANGED Lower!vars
  BY <1>1, ExecuteIsLowers DEF EventHubClient_Send
<1>2. ASSUME NEW t \in Senders, Sending(t) PROVE UNCHANGED Lower!vars
  BY <1>2, LowerStutters
  DEF Sending, Condition_Wait, EventHubClient_SendReturns, threadVars
<1>3. ASSUME NEW a \in Asyncs, EventHubClient_SendAsync(a)
      PROVE  Lower!Next \/ UNCHANGED Lower!vars
  <2>1. posting # a
    BY EventAssumption DEF IInv, TypeOK
  <2> QED BY <1>3, <2>1, ExecuteIsLowers DEF EventHubClient_SendAsync
<1>4. ASSUME NEW e \in Senders \cup Asyncs, NEW result \in Results, Confirm(e, result)
      PROVE  Lower!Next
  BY <1>4, ConfirmIsLowers
<1>5. CASE Condition_Post
  <2>1. UNCHANGED LowerPhase
    BY <1>5 DEF Condition_Post, threadVars, LowerPhase
  <2>2. Lower!CallbackReturns
    BY <1>5, <2>1 DEF Condition_Post, Lower!CallbackReturns
  <2> QED BY <2>2 DEF Lower!Next
<1>6. CASE EventhubClientThread \/ EventHubClient_Destroy \/ ThreadAPI_Join
           \/ DestroyReturns
  BY <1>6, ThreadIsLowers
<1>7. CASE UNCHANGED vars
  BY <1>7, LowerStutters DEF vars, threadVars
<1> QED BY <1>1, <1>2, <1>3, <1>4, <1>5, <1>6, <1>7 DEF Next

\* The application threads, the worker thread and EventHubClient_Destroy use the
\* lower layer as LowerSender allows, never two at a time and never destroyed.
THEOREM UsesLower == Spec => UsesLowerSender
<1>1. Init => Lower!Init
  BY DEF Init, Lower!Init, LowerPhase
<1> QED BY <1>1, LowerStep, Inductive, PTL DEF Spec, UsesLowerSender, Lower!Spec
=============================================================================
