--------------------- MODULE EventHubReceiverLL_proofs ---------------------
(***************************************************************************)
(* Proofs about EventHubReceiverLL, for any set of receives, any wait       *)
(* time-out and any bound of the tick counter.                              *)
(***************************************************************************)
EXTENDS EventHubReceiverLL, TLAPS

\* What the proofs need to know of the sets of handles and of the points
\* where the library can be.
LEMMA HandleSets ==
  /\ {} \in Stacks /\ Common \in Stacks /\ Common \cup Receiver \in Stacks
  /\ {} # Common /\ {} # Common \cup Receiver /\ Common # Common \cup Receiver
  /\ {"session", "connection", "cbsHandle"} \subseteq Common
  /\ "messageReceiver" \in Receiver
  /\ (Common \cup Receiver) \cup Receiver = Common \cup Receiver
BY DEF Common, Receiver, Stacks

LEMMA PointSet ==
  /\ {"idle", "sas_token_auth", "opening", "authorizing", "receiving", "auth_failed",
      "timed_out", "end_called", "destroyed"} \subseteq Points
  /\ Closing \subseteq Points
  /\ {"closing_end", "closing_auth", "closing_init", "closing_destroy"} \subseteq Points
BY DEF Points, Closing

\* The initial states satisfy the invariant.
LEMMA InitIInv == Init => IInv
<1> SUFFICES ASSUME Init PROVE IInv
  OBVIOUS
<1> USE ReceivesAssumption, HandleSets, PointSet DEF Init
<1>1. TypeOK
  BY DEF TypeOK, SessionTypes, StackTypes, AuthTypes, WaitTypes, CallTypes, PastTypes
<1>2. Registered /\ StackState
  BY DEF Registered, StackState
<1>3. WhereInDoWork /\ CallbackOfCaller
  BY DEF WhereInDoWork, CallbackOfCaller
<1>4. ActivityNoted
  BY DEF ActivityNoted
<1> QED BY <1>1, <1>2, <1>3, <1>4 DEF IInv

\* A function that begins to tear the stack down, from a point where no
\* callback is running.
LEMMA StartClosingStep ==
  ASSUME IInv, calling = "none",
         NEW why \in {"closing_end", "closing_init", "closing_destroy"}, StartClosing(why),
         UNCHANGED <<sessionVars, receiverAMQPConnectionState, handles, authVars,
                     waitVars, callVars, pastVars, now>>,
         why = "closing_end" => state = "INACTIVE_PENDING",
         why = "closing_init" =>
           /\ receiverAMQPConnectionState = "PENDING_RECEIVER_CREATE"
           /\ state # "INACTIVE"
  PROVE  IInv'
<1> USE PointSet DEF IInv, TypeOK, StartClosing, sessionVars, authVars, waitVars,
                     callVars, pastVars
<1>1. SessionTypes' /\ PastTypes'
  BY DEF SessionTypes, PastTypes
<1>2. StackTypes' /\ AuthTypes'
  BY DEF StackTypes, AuthTypes
<1>3. WaitTypes' /\ CallTypes'
  BY DEF WaitTypes, CallTypes
<1>4. Registered' /\ StackState'
  BY DEF Registered, StackState
<1>5. WhereInDoWork' /\ CallbackOfCaller'
  BY DEF WhereInDoWork, CallbackOfCaller
<1>6. ActivityNoted'
  BY DEF ActivityNoted
<1> QED BY <1>1, <1>2, <1>3, <1>4, <1>5, <1>6

\* The calls of the application.
LEMMA ApplicationStep == ASSUME IInv, Application PROVE IInv'
<1> USE ReceivesAssumption, HandleSets, PointSet DEF IInv, TypeOK
<1>1. ASSUME NEW r \in Receives, NEW wait \in {0, WaitTimeout}, ReceiveAsync(r, wait)
      PROVE  IInv'
  <2> USE <1>1 DEF ReceiveAsync, stackVars, authVars, callVars
  <2>1. TypeOK'
    <3>1. SessionTypes'
      BY DEF SessionTypes
    <3>2. StackTypes' /\ AuthTypes'
      BY DEF StackTypes, AuthTypes
    <3>3. WaitTypes' /\ CallTypes'
      BY DEF WaitTypes, CallTypes, SessionTypes
    <3>4. (asked \cup accepted \subseteq Receives)' /\ (heard \in Nat)'
      BY DEF PastTypes, WaitTypes
    <3>5. PastTypes'
      BY <3>4 DEF PastTypes
    <3> QED BY <3>1, <3>2, <3>3, <3>5
  <2>2. Registered' /\ StackState'
    BY DEF Registered, StackState, SessionTypes
  <2>3. WhereInDoWork' /\ CallbackOfCaller'
    BY DEF WhereInDoWork, CallbackOfCaller, AppMayCall, Closing
  <2>4. ActivityNoted'
    BY DEF ActivityNoted, WaitTypes, PastTypes
  <2> QED BY <2>1, <2>2, <2>3, <2>4
<1>2. ASSUME NEW withCallback \in BOOLEAN, ReceiveEndAsync(withCallback)
      PROVE  IInv'
  <2> USE <1>2 DEF ReceiveEndAsync, stackVars, authVars, waitVars, callVars
  <2>1. TypeOK'
    <3>1. SessionTypes' /\ PastTypes'
      BY DEF SessionTypes, PastTypes, Registered
    <3>2. StackTypes' /\ AuthTypes'
      BY DEF StackTypes, AuthTypes
    <3>3. WaitTypes' /\ CallTypes'
      BY DEF WaitTypes, CallTypes, SessionTypes
    <3> QED BY <3>1, <3>2, <3>3
  <2>2. Registered' /\ StackState'
    BY DEF Registered, StackState, SessionTypes
  <2>3. WhereInDoWork' /\ CallbackOfCaller'
    BY DEF WhereInDoWork, CallbackOfCaller
  <2>4. ActivityNoted'
    BY DEF ActivityNoted, WaitTypes, PastTypes
  <2> QED BY <2>1, <2>2, <2>3, <2>4
<1>3. CASE RefreshSASTokenAsync
  BY <1>3 DEF RefreshSASTokenAsync, SessionTypes, StackTypes, AuthTypes, WaitTypes,
              CallTypes, PastTypes, Registered, StackState, WhereInDoWork,
              CallbackOfCaller, ActivityNoted, sessionVars, stackVars, waitVars,
              callVars, pastVars
<1> QED BY <1>1, <1>2, <1>3 DEF Application

\* DoWork, up to its first call into uAMQP or eventhubauth.c.
LEMMA DoWorkStep == ASSUME IInv, DoWork PROVE IInv'
<1> USE ReceivesAssumption, HandleSets, PointSet DEF IInv, TypeOK,
        sessionVars, waitVars, callVars, pastVars
<1>1. CASE DoWorkActive
  <2> USE <1>1 DEF DoWorkActive
  <2>1. CASE InitializeStackCommonFails
    BY <2>1 DEF InitializeStackCommonFails, SessionTypes, StackTypes, AuthTypes,
                WaitTypes, CallTypes, PastTypes, Registered, StackState,
                WhereInDoWork, CallbackOfCaller, ActivityNoted
  <2>2. CASE InitializeStackCommon
    <3> USE <2>2 DEF InitializeStackCommon
    <3>1. TypeOK'
      <4>1. SessionTypes' /\ PastTypes'
        BY DEF SessionTypes, PastTypes
      <4>2. StackTypes' /\ AuthTypes'
        BY DEF StackTypes, AuthTypes
      <4>3. WaitTypes' /\ CallTypes'
        BY DEF WaitTypes, CallTypes, SessionTypes
      <4> QED BY <4>1, <4>2, <4>3
    <3>2. Registered' /\ StackState'
      BY DEF Registered, StackState
    <3>3. WhereInDoWork' /\ CallbackOfCaller' /\ ActivityNoted'
      BY DEF WhereInDoWork, CallbackOfCaller, ActivityNoted
    <3> QED BY <3>1, <3>2, <3>3
  <2>3. CASE InitializeStackReceiverFails
    BY <2>3, StartClosingStep
       DEF InitializeStackReceiverFails, authVars, CallbackOfCaller
  <2>4. CASE InitializeStackReceiver
    <3> USE <2>4 DEF InitializeStackReceiver
    <3>1. handles' = Common \cup Receiver
      BY DEF StackTypes, Stacks
    <3>2. TypeOK'
      <4>1. SessionTypes' /\ PastTypes'
        BY <3>1 DEF SessionTypes, PastTypes
      <4>2. StackTypes' /\ AuthTypes'
        BY <3>1 DEF StackTypes, AuthTypes
      <4>3. WaitTypes' /\ CallTypes'
        BY <3>1 DEF WaitTypes, CallTypes, SessionTypes
      <4> QED BY <4>1, <4>2, <4>3
    <3>3. Registered' /\ StackState'
      <4>1. auth_status # "NONE" /\ "cbsHandle" \in handles'
        BY <3>1 DEF StackTypes, Stacks, StackState
      <4> QED BY <4>1 DEF Registered, StackState
    <3>4. WhereInDoWork' /\ CallbackOfCaller' /\ ActivityNoted'
      BY <3>1 DEF WhereInDoWork, CallbackOfCaller, ActivityNoted
    <3> QED BY <3>2, <3>3, <3>4
  <2>5. CASE AlreadyInitialized
    <3> USE <2>5 DEF AlreadyInitialized, stackVars
    <3>1. SessionTypes' /\ PastTypes'
      BY DEF SessionTypes, PastTypes
    <3>2. StackTypes' /\ AuthTypes'
      BY DEF StackTypes, AuthTypes
    <3>3. WaitTypes' /\ CallTypes'
      BY DEF WaitTypes, CallTypes
    <3>4. Registered' /\ StackState'
      BY DEF Registered, StackState
    <3>5. WhereInDoWork' /\ CallbackOfCaller' /\ ActivityNoted'
      BY DEF WhereInDoWork, CallbackOfCaller, ActivityNoted
    <3> QED BY <3>1, <3>2, <3>3, <3>4, <3>5
  <2> QED BY <2>1, <2>2, <2>3, <2>4, <2>5
<1>2. CASE DoWorkEnding
  BY <1>2, StartClosingStep DEF DoWorkEnding, CallbackOfCaller
<1> QED BY <1>1, <1>2 DEF DoWork

\* messagereceiver_open.
LEMMA OpenStep ==
  ASSUME IInv, MessageReceiverOpenFails \/ MessageReceiverOpenReturns PROVE IInv'
<1> USE ReceivesAssumption, HandleSets, PointSet DEF IInv, TypeOK,
        sessionVars, authVars, waitVars, callVars, pastVars
<1>1. CASE MessageReceiverOpenFails
  <2>1. receiverAMQPConnectionState = "PENDING_RECEIVER_CREATE" /\ state # "INACTIVE"
    BY <1>1 DEF MessageReceiverOpenFails, WhereInDoWork, StackState
  <2> QED BY <1>1, <2>1, StartClosingStep DEF MessageReceiverOpenFails
<1>2. CASE MessageReceiverOpenReturns
  <2> USE <1>2 DEF MessageReceiverOpenReturns
  <2>1. TypeOK'
    <3>1. SessionTypes' /\ PastTypes'
      BY DEF SessionTypes, PastTypes
    <3>2. StackTypes' /\ AuthTypes'
      BY DEF StackTypes, AuthTypes
    <3>3. WaitTypes' /\ CallTypes'
      BY DEF WaitTypes, CallTypes, SessionTypes
    <3> QED BY <3>1, <3>2, <3>3
  <2>2. Registered' /\ StackState'
    BY DEF Registered, StackState, WhereInDoWork
  <2>3. WhereInDoWork' /\ CallbackOfCaller'
    BY DEF WhereInDoWork, CallbackOfCaller
  <2>4. ActivityNoted'
    BY DEF ActivityNoted, WaitTypes, PastTypes
  <2> QED BY <2>1, <2>2, <2>3, <2>4
<1> QED BY <1>1, <1>2

\* HandleSASTokenAuth.  A receive is registered, so its error callback can be
\* called.
LEMMA AuthStep == ASSUME IInv, HandleSASTokenAuth PROVE IInv'
<1> USE ReceivesAssumption, HandleSets, PointSet DEF IInv, TypeOK,
        HandleSASTokenAuth, sessionVars, waitVars, pastVars
<1>1. onEventReceiveCallback \in Receives /\ onEventReceiveCallback # NULL
  BY DEF SessionTypes, Registered, StackState, WhereInDoWork
<1>2. \/ AuthFails
      \/ /\ UNCHANGED callVars
         /\ auth_status' \in {auth_status, "IN_PROGRESS"}
         /\ \/ /\ UNCHANGED receiverAMQPConnectionState
               /\ pc' = "authorizing" \/ GoOn
            \/ TokenInstalled
  BY DEF AuthFails, PutToken, TokenInstalled
<1>3. extRefreshSASToken' \in BOOLEAN
  BY DEF AuthTypes
<1>4. CASE AuthFails
  <2> USE <1>4 DEF AuthFails, Call
  <2>1. TypeOK' /\ Registered' /\ StackState'
    <3>1. SessionTypes' /\ PastTypes'
      BY <1>1, <1>3 DEF SessionTypes, PastTypes, Registered
    <3>2. StackTypes' /\ AuthTypes'
      BY <1>1, <1>3 DEF StackTypes, AuthTypes
    <3>3. WaitTypes' /\ CallTypes'
      BY <1>1, <1>3 DEF WaitTypes, CallTypes, SessionTypes
    <3>4. Registered'
      BY <1>1, <1>3 DEF Registered, SessionTypes
    <3>5. StackState'
      BY <1>1, <1>3 DEF StackState, StackTypes
    <3> QED BY <3>1, <3>2, <3>3, <3>4, <3>5
  <2>2. WhereInDoWork' /\ CallbackOfCaller' /\ ActivityNoted'
    BY <1>1 DEF WhereInDoWork, CallbackOfCaller, ActivityNoted, StackState,
                Registered
  <2> QED BY <2>1, <2>2
<1>5. CASE /\ UNCHANGED callVars
           /\ auth_status' \in {auth_status, "IN_PROGRESS"}
           /\ UNCHANGED receiverAMQPConnectionState
           /\ pc' = "authorizing" \/ GoOn
  <2> USE <1>5 DEF callVars, GoOn
  <2>1. TypeOK' /\ Registered' /\ StackState'
    <3>1. SessionTypes' /\ PastTypes'
      BY <1>3 DEF SessionTypes, PastTypes, Registered
    <3>2. StackTypes' /\ AuthTypes'
      BY <1>3 DEF StackTypes, AuthTypes
    <3>3. WaitTypes' /\ CallTypes'
      BY <1>3 DEF WaitTypes, CallTypes, SessionTypes
    <3>4. Registered'
      BY <1>3 DEF Registered, SessionTypes
    <3>5. StackState'
      <4>1. auth_status # "NONE"
        BY <1>1 DEF StackState, WhereInDoWork
      <4> QED BY <1>3, <4>1 DEF StackState, StackTypes
    <3> QED BY <3>1, <3>2, <3>3, <3>4, <3>5
  <2>2. WhereInDoWork' /\ CallbackOfCaller' /\ ActivityNoted'
    BY DEF WhereInDoWork, CallbackOfCaller, ActivityNoted
  <2> QED BY <2>1, <2>2
<1>6. CASE UNCHANGED callVars /\ TokenInstalled
  <2> USE <1>6 DEF callVars, TokenInstalled, GoOn
  <2>1. TypeOK' /\ Registered'
    <3>1. SessionTypes' /\ PastTypes'
      BY <1>3 DEF SessionTypes, PastTypes, Registered
    <3>2. StackTypes' /\ AuthTypes'
      BY <1>3 DEF StackTypes, AuthTypes
    <3>3. WaitTypes' /\ CallTypes'
      BY <1>3 DEF WaitTypes, CallTypes, SessionTypes
    <3>4. Registered'
      BY <1>3 DEF Registered, SessionTypes
    <3> QED BY <3>1, <3>2, <3>3, <3>4
  <2>2. StackState'
    BY <1>1 DEF Registered, StackState, WhereInDoWork
  <2>3. WhereInDoWork' /\ CallbackOfCaller' /\ ActivityNoted'
    BY DEF WhereInDoWork, CallbackOfCaller, ActivityNoted
  <2> QED BY <2>1, <2>2, <2>3
<1> QED BY <1>2, <1>4, <1>5, <1>6

\* uAMQP's callbacks.
LEMMA UamqpStep == ASSUME IInv, Uamqp PROVE IInv'
<1> USE ReceivesAssumption, HandleSets, PointSet DEF IInv, TypeOK,
        sessionVars, stackVars, authVars, waitVars, callVars, pastVars, InDoWork
<1>1. CASE OnMessageReceived
  <2> USE <1>1 DEF OnMessageReceived, Call
  <2>1. onEventReceiveCallback \in Receives /\ onEventReceiveCallback # NULL
    BY DEF SessionTypes, Registered, StackState, WhereInDoWork
  <2>2. TypeOK' /\ Registered' /\ StackState'
    <3>1. SessionTypes' /\ PastTypes'
      BY <2>1 DEF SessionTypes, PastTypes, WaitTypes, Registered
    <3>2. StackTypes' /\ AuthTypes'
      BY <2>1 DEF StackTypes, AuthTypes
    <3>3. WaitTypes' /\ CallTypes'
      BY <2>1 DEF WaitTypes, CallTypes, SessionTypes
    <3>4. Registered'
      BY <2>1 DEF Registered, SessionTypes
    <3>5. StackState'
      BY <2>1 DEF StackState, StackTypes
    <3> QED BY <3>1, <3>2, <3>3, <3>4, <3>5
  <2>3. WhereInDoWork' /\ CallbackOfCaller'
    BY <2>1 DEF WhereInDoWork, CallbackOfCaller
  <2>4. ActivityNoted'
    BY DEF ActivityNoted, WaitTypes, PastTypes
  <2> QED BY <2>2, <2>3, <2>4
<1>2. CASE OnStateChanged
  <2> USE <1>2 DEF OnStateChanged, Call
  <2>1. TypeOK' /\ Registered' /\ StackState' /\ ActivityNoted'
    <3>1. SessionTypes' /\ PastTypes'
      BY DEF SessionTypes, PastTypes, Registered
    <3>2. StackTypes' /\ AuthTypes'
      BY DEF StackTypes, AuthTypes
    <3>3. WaitTypes' /\ CallTypes'
      BY DEF WaitTypes, CallTypes, SessionTypes
    <3>4. Registered'
      BY DEF Registered, SessionTypes
    <3>5. StackState'
      BY DEF StackState, StackTypes
    <3>6. ActivityNoted'
      BY DEF ActivityNoted, WaitTypes, PastTypes
    <3> QED BY <3>1, <3>2, <3>3, <3>4, <3>5, <3>6
  <2>2. WhereInDoWork' /\ CallbackOfCaller'
    BY DEF WhereInDoWork, CallbackOfCaller, Closing
  <2> QED BY <2>1, <2>2
<1>3. ASSUME NEW status \in {"OK", "FAILURE"}, PutTokenCompletes(status) PROVE IInv'
  BY <1>3 DEF PutTokenCompletes, SessionTypes, StackTypes, AuthTypes, WaitTypes,
              CallTypes, PastTypes, Registered, StackState, WhereInDoWork,
              CallbackOfCaller, ActivityNoted
<1> QED BY <1>1, <1>2, <1>3 DEF Uamqp

\* connection_dowork returns, and DoWork looks at the clock.
LEMMA ConnectionStep == ASSUME IInv, ConnectionDoworkReturns PROVE IInv'
<1> USE ReceivesAssumption, HandleSets, PointSet DEF IInv, TypeOK,
        sessionVars, stackVars, authVars, waitVars, callVars, pastVars
<1>1. CASE AuthorizingReturns
  BY <1>1 DEF AuthorizingReturns, SessionTypes, StackTypes, AuthTypes, WaitTypes,
              CallTypes, PastTypes, Registered, StackState, WhereInDoWork,
              CallbackOfCaller, ActivityNoted
<1>2. CASE ReceivingReturns
  <2> USE <1>2 DEF ReceivingReturns
  <2>1. ASSUME NoWait \/ ClockFails \/ Heard \/ StillWaiting PROVE IInv'
    <3> USE <2>1 DEF NoWait, ClockFails, Heard, StillWaiting
    <3>1. TypeOK' /\ Registered' /\ StackState'
      <4>1. SessionTypes' /\ PastTypes'
        BY DEF SessionTypes, PastTypes, Registered
      <4>2. StackTypes' /\ AuthTypes'
        BY DEF StackTypes, AuthTypes
      <4>3. WaitTypes' /\ CallTypes'
        BY DEF WaitTypes, CallTypes, SessionTypes
      <4>4. Registered'
        BY DEF Registered, SessionTypes
      <4>5. StackState'
        BY DEF StackState, StackTypes
      <4> QED BY <4>1, <4>2, <4>3, <4>4, <4>5
    <3>2. WhereInDoWork' /\ CallbackOfCaller'
      BY DEF WhereInDoWork, CallbackOfCaller
    <3>3. ActivityNoted'
      <4>1. CASE NoWait
        BY <4>1 DEF ActivityNoted, WaitTypes, PastTypes
      <4>2. CASE ClockFails
        <5>1. CASE wasMessageReceived = 1
          BY <4>2, <5>1 DEF ActivityNoted, WaitTypes, PastTypes
        <5>2. CASE wasMessageReceived = 0
          BY <4>2, <5>2 DEF ActivityNoted, WaitTypes, PastTypes
        <5> QED BY <5>1, <5>2 DEF WaitTypes
      <4>3. CASE Heard
        BY <4>3 DEF ActivityNoted, WaitTypes, PastTypes
      <4>4. CASE StillWaiting
        BY <4>4 DEF ActivityNoted, WaitTypes, PastTypes
      <4> QED BY <2>1, <4>1, <4>2, <4>3, <4>4
    <3> QED BY <3>1, <3>2, <3>3
  <2>2. CASE WaitTimesOut
    <3> USE <2>2 DEF WaitTimesOut, Call
    <3>1. TypeOK' /\ Registered' /\ StackState'
      <4>1. SessionTypes' /\ PastTypes'
        BY DEF SessionTypes, PastTypes, Registered
      <4>2. StackTypes' /\ AuthTypes'
        BY DEF StackTypes, AuthTypes
      <4>3. WaitTypes' /\ CallTypes'
        BY DEF WaitTypes, CallTypes, SessionTypes
      <4>4. Registered'
        BY DEF Registered, SessionTypes
      <4>5. StackState'
        BY DEF StackState, StackTypes
      <4> QED BY <4>1, <4>2, <4>3, <4>4, <4>5
    <3>2. WhereInDoWork' /\ CallbackOfCaller'
      BY DEF WhereInDoWork, CallbackOfCaller
    <3>3. ActivityNoted'
      BY DEF ActivityNoted, WaitTypes, PastTypes
    <3> QED BY <3>1, <3>2, <3>3
  <2> QED BY <2>1, <2>2
<1> QED BY <1>1, <1>2 DEF ConnectionDoworkReturns

\* The tear downs.
LEMMA TeardownStep ==
  ASSUME IInv, BringUpAbandoned \/ ReceiveEnds \/ ReceiveFails \/ DestroyReturns
  PROVE  IInv'
<1> USE ReceivesAssumption, HandleSets, PointSet DEF IInv, TypeOK,
        DeInitializeStack, TeardownReceiverStack, callVars, pastVars
<1>1. CASE BringUpAbandoned
  <2> USE <1>1 DEF BringUpAbandoned, sessionVars, waitVars
  <2>1. TypeOK' /\ Registered'
    <3>1. SessionTypes' /\ PastTypes'
      BY DEF SessionTypes, PastTypes, Registered
    <3>2. StackTypes' /\ AuthTypes'
      BY DEF StackTypes, AuthTypes
    <3>3. WaitTypes' /\ CallTypes'
      BY DEF WaitTypes, CallTypes, SessionTypes
    <3>4. Registered'
      BY DEF Registered, SessionTypes
    <3> QED BY <3>1, <3>2, <3>3, <3>4
  <2>2. StackState'
    BY DEF StackState, WhereInDoWork
  <2>3. WhereInDoWork' /\ CallbackOfCaller' /\ ActivityNoted'
    BY DEF WhereInDoWork, CallbackOfCaller, ActivityNoted, Closing
  <2> QED BY <2>1, <2>2, <2>3
<1>2. CASE ReceiveEnds
  <2> USE <1>2 DEF ReceiveEnds
  <2>1. TypeOK' /\ Registered' /\ StackState'
    <3>1. SessionTypes' /\ PastTypes'
      BY DEF SessionTypes, PastTypes, Registered
    <3>2. StackTypes' /\ AuthTypes'
      BY DEF StackTypes, AuthTypes
    <3>3. WaitTypes' /\ CallTypes'
      BY DEF WaitTypes, CallTypes, SessionTypes
    <3>4. Registered'
      BY DEF Registered, SessionTypes
    <3>5. StackState'
      BY DEF StackState, StackTypes
    <3> QED BY <3>1, <3>2, <3>3, <3>4, <3>5
  <2>2. WhereInDoWork' /\ CallbackOfCaller' /\ ActivityNoted'
    BY DEF WhereInDoWork, CallbackOfCaller, ActivityNoted
  <2> QED BY <2>1, <2>2
<1>3. CASE ReceiveFails
  <2> USE <1>3 DEF ReceiveFails
  <2>1. SessionTypes' /\ PastTypes'
    BY DEF SessionTypes, PastTypes
  <2>2. StackTypes' /\ AuthTypes'
    BY DEF StackTypes, AuthTypes
  <2>3. WaitTypes' /\ CallTypes'
    BY DEF WaitTypes, CallTypes
  <2>4. Registered' /\ StackState'
    BY DEF Registered, StackState
  <2>5. WhereInDoWork' /\ CallbackOfCaller' /\ ActivityNoted'
    BY DEF WhereInDoWork, CallbackOfCaller, ActivityNoted
  <2> QED BY <2>1, <2>2, <2>3, <2>4, <2>5
<1>4. CASE DestroyReturns
  <2> USE <1>4 DEF DestroyReturns
  <2>1. SessionTypes' /\ PastTypes'
    BY DEF SessionTypes, PastTypes
  <2>2. StackTypes' /\ AuthTypes'
    BY DEF StackTypes, AuthTypes
  <2>3. WaitTypes' /\ CallTypes'
    BY DEF WaitTypes, CallTypes
  <2>4. Registered' /\ StackState'
    BY DEF Registered, StackState
  <2>5. WhereInDoWork' /\ CallbackOfCaller' /\ ActivityNoted'
    BY DEF WhereInDoWork, CallbackOfCaller, ActivityNoted
  <2> QED BY <2>1, <2>2, <2>3, <2>4, <2>5
<1> QED BY <1>1, <1>2, <1>3, <1>4

\* The other steps.
LEMMA OtherStep ==
  ASSUME IInv, Tick \/ Destroy \/ CallbackReturns \/ Ended \/ UNCHANGED vars
  PROVE  IInv'
<1> USE ReceivesAssumption, HandleSets, PointSet DEF IInv, TypeOK,
        sessionVars, stackVars, authVars, waitVars, callVars, pastVars
<1>1. CASE Tick
  <2> USE <1>1 DEF Tick
  <2>1. TypeOK' /\ ActivityNoted'
    <3>1. SessionTypes' /\ PastTypes'
      BY DEF SessionTypes, PastTypes
    <3>2. StackTypes' /\ AuthTypes'
      BY DEF StackTypes, AuthTypes
    <3>3. WaitTypes' /\ CallTypes'
      BY DEF WaitTypes, CallTypes, SessionTypes
    <3>4. ActivityNoted'
      BY DEF ActivityNoted, WaitTypes, PastTypes
    <3> QED BY <3>1, <3>2, <3>3, <3>4
  <2>2. Registered' /\ StackState' /\ WhereInDoWork' /\ CallbackOfCaller'
    BY DEF Registered, StackState, WhereInDoWork, CallbackOfCaller
  <2> QED BY <2>1, <2>2
<1>2. CASE Destroy
  BY <1>2, StartClosingStep DEF Destroy, CallbackOfCaller
<1>3. CASE CallbackReturns
  <2> USE <1>3 DEF CallbackReturns
  <2>1. TypeOK' /\ StackState' /\ ActivityNoted'
    <3>1. SessionTypes' /\ PastTypes'
      BY DEF SessionTypes, PastTypes
    <3>2. StackTypes' /\ AuthTypes'
      BY DEF StackTypes, AuthTypes
    <3>3. WaitTypes' /\ CallTypes'
      BY DEF WaitTypes, CallTypes, SessionTypes
    <3>4. StackState'
      BY DEF StackState, StackTypes
    <3>5. ActivityNoted'
      BY DEF ActivityNoted, WaitTypes, PastTypes
    <3> QED BY <3>1, <3>2, <3>3, <3>4, <3>5
  <2>2. Registered'
    BY DEF Registered
  <2>3. WhereInDoWork' /\ CallbackOfCaller'
    BY DEF WhereInDoWork, CallbackOfCaller
  <2> QED BY <2>1, <2>2, <2>3
<1>4. CASE UNCHANGED vars
  BY <1>4 DEF vars, SessionTypes, StackTypes, AuthTypes, WaitTypes,
              CallTypes, PastTypes, Registered, StackState, WhereInDoWork,
              CallbackOfCaller, ActivityNoted
<1> QED BY <1>1, <1>2, <1>3, <1>4 DEF Ended

LEMMA NextIInv == IInv /\ [Next]_vars => IInv'
<1> SUFFICES ASSUME IInv, [Next]_vars PROVE IInv'
  OBVIOUS
<1> QED BY ApplicationStep, DoWorkStep, OpenStep, AuthStep, UamqpStep, ConnectionStep,
           TeardownStep, OtherStep DEF Next, Library

\* The invariant: which receive is registered, what the stack's state says of
\* the handles, where each function runs, whose callback is running, and how
\* the time of the last activity relates to the last message.
THEOREM Inductive == Spec => []IInv
BY InitIInv, NextIInv, PTL DEF Spec

\* Type correctness of the receiver.
THEOREM TypeCorrect == Spec => []TypeOK
<1>1. IInv => TypeOK
  BY DEF IInv
<1> QED BY <1>1, Inductive, PTL

\* Every callback pointer that is called without a check is set.
THEOREM CallbacksSet == Spec => []NoNullCallback
<1>1. IInv => NoNullCallback
  BY DEF IInv, CallbackOfCaller, NoNullCallback
<1> QED BY <1>1, Inductive, PTL

\* Every function finds the handles that it uses.
THEOREM HandlesExist == Spec => []NoUseOfNullHandle
<1>1. IInv => NoUseOfNullHandle
  BY HandleSets DEF IInv, StackState, WhereInDoWork, NoUseOfNullHandle
<1> QED BY <1>1, Inductive, PTL

\* A wait time-out means that the receive was quiet for as long, unless the
\* clock failed after a message.
THEOREM TimeoutsQuiet == Spec => QuietWhenTimedOut
<1>1. ASSUME IInv, [Next]_vars, calling = "none", calling' = "timeout", ~missed
      PROVE  now - heard >= WaitTimeout
  <2>1. ReceivingReturns /\ WaitTimesOut
    BY <1>1 DEF Next, Application, ReceiveAsync, ReceiveEndAsync, RefreshSASTokenAsync,
         DoWork, DoWorkActive, DoWorkEnding, Destroy, Library, MessageReceiverOpenFails,
         MessageReceiverOpenReturns, HandleSASTokenAuth, AuthFails, PutToken,
         TokenInstalled, Call, BringUpAbandoned, ReceiveEnds, ReceiveFails,
         DestroyReturns, Uamqp, OnMessageReceived, OnStateChanged, PutTokenCompletes,
         ConnectionDoworkReturns, AuthorizingReturns, ReceivingReturns, NoWait,
         ClockFails, Heard, StillWaiting, CallbackReturns, Ended, Tick, vars, callVars
  <2> QED BY <1>1, <2>1, ReceivesAssumption
          DEF WaitTimesOut, IInv, TypeOK, WaitTypes, PastTypes, ActivityNoted
<1>2. IInv /\ [Next]_vars => [calling = "none" /\ calling' = "timeout"
                                => missed \/ now - heard >= WaitTimeout]_vars
  BY <1>1
<1> QED BY <1>2, Inductive, PTL DEF Spec, QuietWhenTimedOut

\* A step of the receiver is a step of ReceiveSession, or none: the callbacks
\* that are called are those of the current receive.
LEMMA SessionStep == ASSUME IInv, [Next]_vars PROVE [Session!Next]_Session!vars
<1> USE ReceivesAssumption DEF IInv, Session!vars
<1> DEFINE Same == UNCHANGED <<accepted, onEventReceiveCallback, asked, calling, context>>
<1>1. ASSUME NEW r \in Receives, NEW wait, ReceiveAsync(r, wait) PROVE Session!Next
  <2>1. Session!Accept(r)
    BY <1>1 DEF ReceiveAsync, Session!Accept, Registered, callVars
  <2> QED BY <2>1 DEF Session!Next
<1>2. ASSUME NEW withCallback \in BOOLEAN, ReceiveEndAsync(withCallback)
      PROVE  Session!AskForEnd \/ Same
  BY <1>2 DEF ReceiveEndAsync, Session!AskForEnd, Registered, callVars
<1>3. ASSUME NEW k \in {"event", "timeout", "error"}, Call(k), calling = "none",
             onEventReceiveCallback # NULL,
             UNCHANGED <<accepted, onEventReceiveCallback, asked>>
      PROVE  Session!Next
  <2>1. Session!Call(k)
    BY <1>3 DEF Call, Session!Call
  <2> QED BY <2>1 DEF Session!Next
<1>4. CASE HandleSASTokenAuth
  <2>1. calling = "none" /\ onEventReceiveCallback # NULL
    BY <1>4 DEF HandleSASTokenAuth, CallbackOfCaller, WhereInDoWork, StackState,
                Registered
  <2>2. UNCHANGED <<accepted, onEventReceiveCallback, asked>>
    BY <1>4 DEF HandleSASTokenAuth, sessionVars, pastVars
  <2>3. Call("error") \/ UNCHANGED <<calling, context>>
    BY <1>4 DEF HandleSASTokenAuth, AuthFails, PutToken, TokenInstalled, callVars
  <2> QED BY <1>3, <2>1, <2>2, <2>3
<1>5. CASE Uamqp
  <2>1. CASE OnMessageReceived
    <3>1. calling = "none" /\ onEventReceiveCallback # NULL
      BY <2>1 DEF OnMessageReceived, InDoWork, WhereInDoWork, StackState, Registered
    <3> QED BY <1>3, <2>1, <3>1 DEF OnMessageReceived, sessionVars
  <2>2. CASE OnStateChanged
    BY <1>3, <2>2 DEF OnStateChanged, InDoWork, sessionVars, pastVars, callVars
  <2>3. ASSUME NEW status, PutTokenCompletes(status) PROVE Same
    BY <2>3 DEF PutTokenCompletes, sessionVars, callVars, pastVars
  <2> QED BY <1>5, <2>1, <2>2, <2>3 DEF Uamqp
<1>6. CASE ReceivingReturns
  <2>1. UNCHANGED <<accepted, onEventReceiveCallback, asked>> /\ calling = "none"
    BY <1>6 DEF ReceivingReturns, sessionVars
  <2>2. \/ Call("timeout") /\ onEventReceiveCallback # NULL
        \/ UNCHANGED <<calling, context>>
    BY <1>6 DEF ReceivingReturns, NoWait, ClockFails, Heard, StillWaiting, WaitTimesOut,
                callVars
  <2> QED BY <1>3, <2>1, <2>2
<1>7. CASE ReceiveEnds
  <2>1. onEventReceiveCallback # NULL /\ calling = "none"
    BY <1>7 DEF ReceiveEnds, WhereInDoWork, Registered
  <2>2. Session!EndWithCallback \/ Session!EndSilently
    BY <1>7, <2>1 DEF ReceiveEnds, TeardownReceiverStack, WhereInDoWork, Registered,
       Session!EndWithCallback, Session!EndSilently, callVars, pastVars
  <2> QED BY <2>2 DEF Session!Next
<1>8. CASE ReceiveFails \/ DestroyReturns
  <2>1. Session!EndSilently \/ Same
    BY <1>8 DEF ReceiveFails, DestroyReturns, TeardownReceiverStack,
                Session!EndSilently, callVars, pastVars
  <2> QED BY <2>1 DEF Session!Next
<1>9. CASE CallbackReturns
  <2>1. Session!Return
    BY <1>9 DEF CallbackReturns, Session!Return, pastVars
  <2> QED BY <2>1 DEF Session!Next
<1>10. CASE \/ Tick \/ RefreshSASTokenAsync \/ DoWork \/ Destroy
            \/ MessageReceiverOpenFails \/ MessageReceiverOpenReturns
            \/ BringUpAbandoned \/ AuthorizingReturns \/ Ended \/ UNCHANGED vars
  <2>1. Same
    BY <1>10 DEF Tick, RefreshSASTokenAsync, DoWork, DoWorkActive, DoWorkEnding, Destroy,
       MessageReceiverOpenFails, MessageReceiverOpenReturns, BringUpAbandoned,
       AuthorizingReturns, Ended, vars, sessionVars, callVars, pastVars
  <2> QED BY <2>1
<1> QED
  BY <1>1, <1>2, <1>4, <1>5, <1>6, <1>7, <1>8, <1>9, <1>10
     DEF Next, Application, Library, ConnectionDoworkReturns, Session!Next

\* The receiver implements ReceiveSession.
THEOREM ImplementsSession == Spec => SessionSpec
<1>1. Init => Session!Init
  BY DEF Init, Session!Init
<1> QED BY <1>1, SessionStep, Inductive, PTL DEF Spec, SessionSpec, Session!Spec

\* A step of the receiver is a step of LowerReceiver, or none.  lower are its
\* variables.
LEMMA LowerStep == ASSUME IInv, [Next]_vars PROVE [Lower!Next]_Lower!vars
<1> USE ReceivesAssumption DEF IInv, Lower!vars, Lower!callVars
<1> DEFINE lower == <<state, onEventReceiveCallback, onEventReceiveEndCallback, Phase,
                      calling, context>>
           Registry == <<state, onEventReceiveCallback, onEventReceiveEndCallback>>
<1>1. ASSUME NEW r \in Receives, NEW wait, ReceiveAsync(r, wait) PROVE Lower!Next
  <2>1. Lower!Start(r)
    BY <1>1 DEF ReceiveAsync, AppMayCall, Lower!Start, Lower!MayCall, Phase, callVars
  <2> QED BY <2>1 DEF Lower!Next
<1>2. ASSUME NEW withCallback \in BOOLEAN, ReceiveEndAsync(withCallback) PROVE Lower!Next
  <2>1. Lower!RequestEnd(withCallback)
    BY <1>2 DEF ReceiveEndAsync, AppMayCall, Lower!RequestEnd, Lower!MayCall, Phase,
                callVars
  <2> QED BY <2>1 DEF Lower!Next
<1>3. ASSUME NEW k \in {"event", "timeout", "error"}, Call(k), calling = "none",
             onEventReceiveCallback # NULL, UNCHANGED <<Registry, Phase>>,
             \/ Phase = "working"
             \/ k = "error" /\ Phase \in {"ending", "failing", "destroying"}
      PROVE  Lower!Next
  <2>1. Lower!Report(k)
    BY <1>3 DEF Call, Lower!Report
  <2> QED BY <2>1 DEF Lower!Next
<1>4. CASE DoWorkActive
  <2>1. UNCHANGED <<Registry, calling, context>> /\ pc = "idle" /\ state = "ACTIVE"
    BY <1>4 DEF DoWorkActive, sessionVars, callVars
  <2>2. calling = "none"
    BY <2>1 DEF CallbackOfCaller
  <2>3. pc' \in {pc, "sas_token_auth", "opening", "closing_init"}
    BY <1>4 DEF DoWorkActive, InitializeStackCommonFails, InitializeStackCommon,
       InitializeStackReceiverFails, InitializeStackReceiver, AlreadyInitialized,
       StartClosing
  <2>4. Lower!Work \/ UNCHANGED lower
    BY <2>1, <2>2, <2>3 DEF Lower!Work, Phase
  <2> QED BY <2>4 DEF Lower!Next
<1>5. CASE DoWorkEnding \/ Destroy
  <2>1. Lower!Work \/ Lower!Destroy
    BY <1>5 DEF DoWorkEnding, Destroy, StartClosing, Lower!Work, Lower!Destroy, Phase,
                sessionVars, callVars
  <2> QED BY <2>1 DEF Lower!Next
<1>6. CASE HandleSASTokenAuth
  <2>1. calling = "none" /\ onEventReceiveCallback # NULL /\ pc = "sas_token_auth"
    BY <1>6 DEF HandleSASTokenAuth, CallbackOfCaller, WhereInDoWork, StackState,
                Registered
  <2>2. UNCHANGED Registry
    BY <1>6 DEF HandleSASTokenAuth, sessionVars
  <2>3. \/ Call("error") /\ pc' = "auth_failed"
        \/ pc' \in {"authorizing", "receiving", "idle"} /\ UNCHANGED <<calling, context>>
    BY <1>6 DEF HandleSASTokenAuth, AuthFails, PutToken, TokenInstalled, GoOn, callVars
  <2>4. Lower!Fail \/ Lower!WorkReturns \/ UNCHANGED lower
    BY <2>1, <2>2, <2>3 DEF Call, Lower!Fail, Lower!WorkReturns, Phase
  <2> QED BY <2>4 DEF Lower!Next
<1>7. CASE Uamqp
  <2>1. CASE OnMessageReceived
    <3>1. calling = "none" /\ onEventReceiveCallback # NULL /\ Phase = "working"
      BY <2>1 DEF OnMessageReceived, InDoWork, WhereInDoWork, StackState, Registered,
                  Phase
    <3> QED BY <1>3, <2>1, <3>1 DEF OnMessageReceived, sessionVars, Phase
  <2>2. CASE OnStateChanged
    <3>1. /\ calling = "none" /\ UNCHANGED <<Registry, Phase>>
          /\ Phase \in {"working", "ending", "failing", "destroying"}
          /\ IF onEventReceiveCallback # NULL THEN Call("error")
                                              ELSE UNCHANGED <<calling, context>>
      BY <2>2 DEF OnStateChanged, InDoWork, Closing, sessionVars, callVars, Phase
    <3> QED BY <1>3, <3>1
  <2>3. ASSUME NEW status, PutTokenCompletes(status) PROVE UNCHANGED lower
    BY <2>3 DEF PutTokenCompletes, sessionVars, callVars, Phase
  <2> QED BY <1>7, <2>1, <2>2, <2>3 DEF Uamqp
<1>8. CASE ReceivingReturns
  <2>1. UNCHANGED Registry /\ calling = "none" /\ pc = "receiving"
    BY <1>8 DEF ReceivingReturns, sessionVars
  <2>2. \/ Call("timeout") /\ onEventReceiveCallback # NULL /\ pc' = "timed_out"
        \/ UNCHANGED <<calling, context>> /\ pc' = "idle"
    BY <1>8 DEF ReceivingReturns, NoWait, ClockFails, Heard, StillWaiting, WaitTimesOut,
                callVars
  <2>3. CASE pc' = "timed_out"
    BY <1>3, <2>1, <2>2, <2>3 DEF Phase
  <2>4. CASE pc' = "idle"
    <3>1. UNCHANGED <<calling, context>>
      BY <2>2, <2>4
    <3>2. Lower!WorkReturns
      BY <2>1, <2>4, <3>1 DEF Lower!WorkReturns, Phase
    <3> QED BY <3>2 DEF Lower!Next
  <2> QED BY <2>2, <2>3, <2>4
<1>9. CASE ReceiveEnds \/ ReceiveFails
  <2>1. Lower!TornDown
    BY <1>9 DEF ReceiveEnds, ReceiveFails, TeardownReceiverStack, Lower!TornDown, Phase,
                callVars
  <2> QED BY <2>1 DEF Lower!Next
<1>10. CASE DestroyReturns
  <2>1. Lower!DestroyReturns
    BY <1>10 DEF DestroyReturns, TeardownReceiverStack, Lower!DestroyReturns, Phase,
                 callVars
  <2> QED BY <2>1 DEF Lower!Next
<1>11. CASE CallbackReturns
  <2>1. pc \in Points /\ pc \notin {"idle", "sas_token_auth", "destroyed"}
    BY <1>11 DEF CallbackReturns, TypeOK, CallTypes, CallbackOfCaller
  <2>2. Lower!Return
    BY <1>11, <2>1 DEF CallbackReturns, Lower!Return, Phase, Points, Closing
  <2> QED BY <2>2 DEF Lower!Next
<1>12. CASE MessageReceiverOpenFails \/ MessageReceiverOpenReturns
  <2>1. /\ UNCHANGED <<Registry, calling, context>> /\ calling = "none"
        /\ pc = "opening" /\ pc' \in {"closing_init", "sas_token_auth", "idle"}
    BY <1>12 DEF MessageReceiverOpenFails, MessageReceiverOpenReturns, StartClosing,
                 sessionVars, callVars
  <2>2. Lower!WorkReturns \/ UNCHANGED lower
    BY <2>1 DEF Lower!WorkReturns, Phase
  <2> QED BY <2>2 DEF Lower!Next
<1>13. CASE BringUpAbandoned \/ AuthorizingReturns
  <2>1. Lower!WorkReturns
    BY <1>13 DEF BringUpAbandoned, AuthorizingReturns, Lower!WorkReturns, Phase,
                 sessionVars, callVars
  <2> QED BY <2>1 DEF Lower!Next
<1>14. CASE Tick \/ RefreshSASTokenAsync \/ Ended \/ UNCHANGED vars
  <2>1. UNCHANGED lower
    BY <1>14 DEF Tick, RefreshSASTokenAsync, Ended, vars, sessionVars, callVars, Phase
  <2> QED BY <2>1
<1> QED
  BY <1>1, <1>2, <1>4, <1>5, <1>6, <1>7, <1>8, <1>9, <1>10, <1>11, <1>12, <1>13, <1>14
     DEF Next, Application, DoWork, Library, ConnectionDoworkReturns

\* The receiver implements LowerReceiver, the layer that the wrapper builds on.
THEOREM ImplementsLower == Spec => LowerSpec
<1>1. Init => Lower!Init
  BY DEF Init, Lower!Init, Phase
<1> QED BY <1>1, LowerStep, Inductive, PTL DEF Spec, LowerSpec, Lower!Spec

\* Whether the authorization handle is being destroyed with its stack.
TearingDown == pc \in Closing \cup {"auth_failed"}

LEMMA AuthorizationStutters ==
  ASSUME UNCHANGED authVars, TearingDown' <=> TearingDown
  PROVE  UNCHANGED Authorization!vars
BY DEF Authorization!vars, authVars, TearingDown

\* A tear down begins, of a stack or of none.
LEMMA TeardownBegins ==
  ASSUME UNCHANGED authVars, ~TearingDown, TearingDown'
  PROVE  Authorization!Next \/ UNCHANGED Authorization!vars
BY DEF Authorization!Next, Authorization!TearDown, Authorization!vars, authVars,
       TearingDown

\* EventHubAMQP_DeInitializeStack ends it; a refresh token may be kept.
LEMMA TeardownEnds ==
  ASSUME auth_status' = "NONE", extRefreshSASToken' \in {FALSE, extRefreshSASToken},
         UNCHANGED <<auth_timeout, credential>>
  PROVE  Authorization!Next
BY DEF Authorization!Next, Authorization!Destroy

\* The bring-up and the end of a receive in EventHubReceiver_LL_DoWork.
LEMMA DoWorkIsAuthorizations ==
  ASSUME IInv, DoWork PROVE Authorization!Next \/ UNCHANGED Authorization!vars
<1> USE DEF TearingDown, Closing, authVars
<1>1. pc = "idle"
  BY DEF DoWork, DoWorkActive, DoWorkEnding
<1>2. CASE DoWorkEnding
  BY <1>1, <1>2, TeardownBegins DEF DoWorkEnding, StartClosing
<1>3. CASE DoWorkActive
  <2> USE <1>3 DEF DoWorkActive
  <2>1. CASE InitializeStackCommonFails
    BY <1>1, <2>1, AuthorizationStutters DEF InitializeStackCommonFails
  <2>2. CASE InitializeStackCommon
    <3>1. auth_status = "NONE" /\ auth_timeout' \in BOOLEAN
      BY <2>2 DEF InitializeStackCommon, IInv, StackState
    <3> QED BY <1>1, <2>2, <3>1
            DEF InitializeStackCommon, Authorization!Next, Authorization!Create
  <2>3. CASE InitializeStackReceiverFails
    BY <1>1, <2>3, TeardownBegins DEF InitializeStackReceiverFails, StartClosing
  <2>4. CASE InitializeStackReceiver \/ AlreadyInitialized
    BY <1>1, <2>4, AuthorizationStutters DEF InitializeStackReceiver, AlreadyInitialized
  <2> QED BY <2>1, <2>2, <2>3, <2>4
<1> QED BY <1>2, <1>3 DEF DoWork

\* HandleSASTokenAuth: each of its paths is what the reported status asks for.
LEMMA AuthIsAuthorizations ==
  ASSUME IInv, HandleSASTokenAuth
  PROVE  Authorization!Next \/ UNCHANGED Authorization!vars
<1> USE DEF Authorization!Next
<1>1. /\ pc = "sas_token_auth" /\ ~TearingDown /\ auth_status # "NONE"
      /\ UNCHANGED <<auth_timeout, credential>>
  BY DEF HandleSASTokenAuth, IInv, WhereInDoWork, StackState, TearingDown, Closing,
         Common, Receiver
<1>2. PICK status \in GetStatus :
        \/ /\ status \in {"FAILURE", "EXPIRED", "TIMEOUT", "ERROR"}
           /\ AuthFails
           /\ UNCHANGED extRefreshSASToken
        \/ /\ status = "IN_PROGRESS"
           /\ pc' = "authorizing"
           /\ UNCHANGED <<auth_status, extRefreshSASToken>>
        \/ /\ status = "IDLE"
           /\ AuthFails \/ (PutToken /\ pc' = "authorizing")
           /\ UNCHANGED extRefreshSASToken
        \/ /\ status = "REFRESH_REQUIRED"
           /\ AuthFails \/ (PutToken /\ GoOn)
           /\ UNCHANGED extRefreshSASToken
        \/ /\ status = "OK" /\ extRefreshSASToken
           /\ AuthFails \/ (PutToken /\ GoOn)
           /\ extRefreshSASToken' = FALSE
        \/ /\ status = "OK" /\ ~extRefreshSASToken
           /\ TokenInstalled
           /\ UNCHANGED extRefreshSASToken
  BY DEF HandleSASTokenAuth
<1>3. Authorization!ActsOn(status)
  BY <1>1, <1>2 DEF GetStatus, Authorization!ActsOn, TearingDown
<1>4. pc' = "authorizing" \/ GoOn => ~TearingDown' /\ pc' # "auth_failed"
  BY DEF GoOn, TearingDown, Closing
<1>5. CASE AuthFails
  <2>1. pc' = "auth_failed" /\ TearingDown' /\ auth_status' = auth_status
    BY <1>5 DEF AuthFails, TearingDown
  <2>2. CASE status = "OK" /\ extRefreshSASToken /\ extRefreshSASToken' = FALSE
    BY <1>1, <1>3, <2>1, <2>2 DEF Authorization!Fail
  <2>3. CASE /\ status \in {"FAILURE", "EXPIRED", "TIMEOUT", "ERROR", "IDLE",
                            "REFRESH_REQUIRED"}
             /\ UNCHANGED extRefreshSASToken
    BY <1>1, <1>3, <2>1, <2>3 DEF Authorization!Fail, Authorization!Failures
  <2> QED BY <1>2, <1>4, <2>1, <2>2, <2>3 DEF TokenInstalled
<1>6. CASE ~AuthFails /\ PutToken /\ ~TearingDown'
  <2>1. auth_status' = "IN_PROGRESS"
    BY <1>6 DEF PutToken
  <2>2. CASE auth_status' = auth_status /\ UNCHANGED extRefreshSASToken
    BY <1>1, <1>6, <2>2, AuthorizationStutters DEF authVars
  <2>3. CASE \/ /\ status \in {"IDLE", "REFRESH_REQUIRED"} /\ UNCHANGED extRefreshSASToken
             \/ /\ status = "OK" /\ extRefreshSASToken /\ extRefreshSASToken' = FALSE
    BY <1>1, <1>3, <1>6, <2>1, <2>3 DEF Authorization!Put, TearingDown
  <2> QED BY <1>2, <1>6, <2>2, <2>3 DEF TokenInstalled
<1>7. CASE ~AuthFails /\ ~(PutToken /\ ~TearingDown')
  <2>1. /\ auth_status' = auth_status /\ UNCHANGED extRefreshSASToken
        /\ pc' = "authorizing" \/ GoOn
    BY <1>2, <1>4, <1>7 DEF TokenInstalled
  <2> QED BY <1>1, <1>4, <2>1, AuthorizationStutters DEF authVars
<1> QED BY <1>5, <1>6, <1>7

LEMMA AuthorizationStep ==
  IInv /\ [Next]_vars => [Authorization!Next]_(Authorization!vars)
<1> SUFFICES ASSUME IInv, [Next]_vars
             PROVE  Authorization!Next \/ UNCHANGED Authorization!vars
  OBVIOUS
<1>1. CASE Tick \/ Ended \/ ConnectionDoworkReturns \/ UNCHANGED vars
  BY <1>1, AuthorizationStutters
  DEF Tick, Ended, ConnectionDoworkReturns, AuthorizingReturns, ReceivingReturns,
      NoWait, ClockFails, Heard, StillWaiting, WaitTimesOut, vars, TearingDown, Closing
<1>2. CASE Application
  <2>1. CASE RefreshSASTokenAsync
    BY <2>1 DEF RefreshSASTokenAsync, Authorization!Next, Authorization!RequestRefresh
  <2> QED BY <1>2, <2>1, AuthorizationStutters
          DEF Application, ReceiveAsync, ReceiveEndAsync, TearingDown
<1>3. CASE DoWork
  BY <1>3, DoWorkIsAuthorizations
<1>4. CASE Destroy
  BY <1>4, TeardownBegins DEF Destroy, StartClosing, TearingDown, Closing
<1>5. CASE Library
  <2>1. CASE MessageReceiverOpenFails
    BY <2>1, TeardownBegins DEF MessageReceiverOpenFails, StartClosing, TearingDown, Closing
  <2>2. CASE MessageReceiverOpenReturns
    BY <2>2, AuthorizationStutters DEF MessageReceiverOpenReturns, TearingDown, Closing
  <2>3. CASE HandleSASTokenAuth
    BY <2>3, AuthIsAuthorizations
  <2>4. CASE BringUpAbandoned
    BY <2>4, TeardownEnds DEF BringUpAbandoned, DeInitializeStack
  <2>5. CASE ReceiveEnds \/ ReceiveFails \/ DestroyReturns
    BY <2>5, TeardownEnds DEF ReceiveEnds, ReceiveFails, DestroyReturns,
       TeardownReceiverStack, DeInitializeStack
  <2> QED BY <1>5, <2>1, <2>2, <2>3, <2>4, <2>5 DEF Library
<1>6. CASE Uamqp
  <2>1. ASSUME NEW status \in {"OK", "FAILURE"}, PutTokenCompletes(status)
        PROVE  Authorization!Next
    BY <2>1 DEF PutTokenCompletes, InDoWork, Closing, Authorization!Next,
                Authorization!PutCompletes
  <2> QED BY <1>6, <2>1, AuthorizationStutters
          DEF Uamqp, OnMessageReceived, OnStateChanged, TearingDown
<1>7. CASE CallbackReturns
  <2>1. TearingDown' <=> TearingDown
    BY <1>7 DEF CallbackReturns, TearingDown, Closing
  <2> QED BY <1>7, <2>1, AuthorizationStutters DEF CallbackReturns
<1> QED BY <1>1, <1>2, <1>3, <1>4, <1>5, <1>6, <1>7 DEF Next

\* The low-level receiver keeps to TokenAuthorization, the protocol that
\* eventhubauth.c is shown to provide, also where it gives up a bring-up.
THEOREM ImplementsAuthorization == Spec => AuthorizationSpec
<1>1. Init => Authorization!Init
  BY DEF Init, Authorization!Init
<1> QED BY <1>1, AuthorizationStep, Inductive, PTL
        DEF Spec, AuthorizationSpec, Authorization!Spec
=============================================================================
