------------------------ MODULE EventHubReceiverLL ------------------------
(***************************************************************************)
(* The low-level receiver, eventhubreceiver_ll.c: a receive is started,     *)
(* brought up over several EventHubReceiver_LL_DoWork calls, delivers       *)
(* messages and wait time-outs, and is ended by the application, by a       *)
(* failed authorization or by EventHubReceiver_LL_Destroy.                  *)
(*                                                                         *)
(* The API is called by one thread at a time.  pc says which library        *)
(* function is executing, calling which callback of the application runs    *)
(* on top of it; a callback may call the API again.                         *)
(*                                                                         *)
(* A member of Receives is one accepted ReceiveFromStartTimestampAsync: its *)
(* callbacks, contexts and query filter.  The event and the error callback  *)
(* are set and cleared together and are one pointer here.  A call that      *)
(* returns an error, or a message that is rejected before any callback,     *)
(* is a stuttering step.                                                    *)
(***************************************************************************)
EXTENDS Naturals

CONSTANTS Receives,     \* receives the application may start, each once
          WaitTimeout,  \* a nonzero waitTimeoutInMs, in ticks
          MaxTick,      \* bound: the tick counter stops here
          NULL

ASSUME ReceivesAssumption == /\ NULL \notin Receives
                             /\ WaitTimeout \in Nat \ {0}
                             /\ MaxTick \in Nat

VARIABLES
  state,                       \* EVENTHUBRECEIVER_STATE
  onEventReceiveCallback,      \* the receive whose callbacks are registered
  onEventReceiveEndCallback,   \* the receive whose end callback is registered
  receiverQueryFilter,         \* the receive whose filter is allocated
  receiverAMQPConnectionState, \* EVENTHUBRECEIVER_AMQP_STATE
  handles,                     \* the uAMQP handles that are not NULL
  errored,                     \* uAMQP's message receiver reported ERROR last
  auth_status,                 \* cbsStatus of cbsHandle
  auth_timeout,                \* cbsHandle was created with a nonzero timeout
  credential,                  \* "AUTO" or "EXT"
  extRefreshSASToken,          \* a refresh token waits for DoWork
  now,                         \* the tick counter
  waitTimeoutInMs,
  lastActivityTimestamp,
  wasMessageReceived,
  pc,                          \* the library function that is executing
  calling,                     \* the callback that is running, or "none"
  context,                     \* the receive whose context it was given
  accepted,                    \* history: receives that were started
  asked,                       \* history: those whose end callback was asked for
  heard,                       \* history: when the receive last got a message
  missed                       \* history: that was lost to a failed clock read

sessionVars == <<state, onEventReceiveCallback, onEventReceiveEndCallback,
                 receiverQueryFilter>>
stackVars == <<receiverAMQPConnectionState, handles, errored>>
authVars == <<auth_status, auth_timeout, extRefreshSASToken, credential>>
waitVars == <<waitTimeoutInMs, lastActivityTimestamp, wasMessageReceived>>
callVars == <<calling, context>>
pastVars == <<accepted, asked, heard, missed>>
vars == <<sessionVars, stackVars, authVars, waitVars, callVars, pastVars, now, pc>>

Common == {"saslMechanismHandle", "tlsIO", "saslIO", "connection", "session",
           "cbsHandle"}
Receiver == {"link", "messageReceiver"}
Closing == {"closing_end", "closing_auth", "closing_init", "closing_destroy"}
-----------------------------------------------------------------------------
\* Run a callback of the registered receive; pc stays with its caller.
Call(k) == calling' = k /\ context' = onEventReceiveCallback

\* Application code runs only between library calls or in a callback.
AppMayCall == pc = "idle" \/ calling # "none"

Init == /\ state = "INACTIVE"
        /\ onEventReceiveCallback = NULL
        /\ onEventReceiveEndCallback = NULL
        /\ receiverQueryFilter = NULL
        /\ receiverAMQPConnectionState = "UNINITIALIZED"
        /\ handles = {}
        /\ errored = FALSE
        /\ auth_status = "NONE"
        /\ auth_timeout = FALSE
        /\ credential \in {"AUTO", "EXT"}
        /\ extRefreshSASToken = FALSE
        /\ now = 0
        /\ waitTimeoutInMs = 0
        /\ lastActivityTimestamp = 0
        /\ wasMessageReceived = 0
        /\ pc = "idle"
        /\ calling = "none"
        /\ context = NULL
        /\ accepted = {}
        /\ asked = {}
        /\ heard = 0
        /\ missed = FALSE

Tick == /\ pc # "destroyed"
        /\ now < MaxTick
        /\ now' = now + 1
        /\ UNCHANGED <<sessionVars, stackVars, authVars, waitVars, callVars,
                       pastVars, pc>>
-----------------------------------------------------------------------------
(* Calls of the application. *)

\* With and without a wait time-out: EHR_LL_ReceiveAsyncCommon.
ReceiveAsync(r, wait) ==
  /\ AppMayCall
  /\ state = "INACTIVE"
  /\ r \notin accepted
  /\ state' = "ACTIVE"
  /\ onEventReceiveCallback' = r
  /\ onEventReceiveEndCallback' = NULL
  /\ receiverQueryFilter' = r
  /\ waitTimeoutInMs' = wait
  /\ lastActivityTimestamp' = IF wait > 0 THEN now ELSE lastActivityTimestamp
  /\ wasMessageReceived' = 0
  /\ accepted' = accepted \cup {r}
  /\ heard' = now
  /\ missed' = FALSE
  /\ UNCHANGED <<stackVars, authVars, callVars, asked, now, pc>>

\* Mutant: the callbacks go at once, before DoWork tears the stack down.
ReceiveEndAsyncClearing(withCallback) ==
  /\ AppMayCall
  /\ state = "ACTIVE"
  /\ state' = "INACTIVE_PENDING"
  /\ onEventReceiveCallback' = NULL
  /\ onEventReceiveEndCallback' = IF withCallback THEN onEventReceiveCallback
                                                  ELSE NULL
  /\ asked' = IF withCallback THEN asked \cup {onEventReceiveCallback} ELSE asked
  /\ UNCHANGED <<receiverQueryFilter, stackVars, authVars, waitVars, callVars,
                 accepted, heard, missed, now, pc>>

\* The tear down is left to DoWork.
ReceiveEndAsync(withCallback) ==
  /\ AppMayCall
  /\ state = "ACTIVE"
  /\ state' = "INACTIVE_PENDING"
  /\ onEventReceiveEndCallback' = IF withCallback THEN onEventReceiveCallback
                                                  ELSE NULL
  /\ asked' = IF withCallback THEN asked \cup {onEventReceiveCallback} ELSE asked
  /\ UNCHANGED <<onEventReceiveCallback, receiverQueryFilter, stackVars,
                 authVars, waitVars, callVars, accepted, heard, missed, now, pc>>

RefreshSASTokenAsync ==
  /\ AppMayCall
  /\ credential = "EXT"
  /\ state = "ACTIVE"
  /\ ~extRefreshSASToken
  /\ extRefreshSASToken' = TRUE
  /\ UNCHANGED <<sessionVars, stackVars, auth_status, auth_timeout, credential,
                 waitVars, callVars, pastVars, now, pc>>

\* EventHubAMQP_DeInitializeStack starts with messagereceiver_close, which
\* takes the message receiver to CLOSING and may report ERROR from there.
StartClosing(why) == pc' = why /\ errored' = FALSE

Destroy == /\ pc = "idle"
           /\ StartClosing("closing_destroy")
           /\ UNCHANGED <<sessionVars, receiverAMQPConnectionState, handles,
                          authVars, waitVars, callVars, pastVars, now>>
-----------------------------------------------------------------------------
(* EventHubReceiver_LL_DoWork: the bring-up. *)

InitializeStackCommonFails ==
  /\ receiverAMQPConnectionState = "UNINITIALIZED"
  /\ handles' = {}
  /\ UNCHANGED <<receiverAMQPConnectionState, errored, auth_status, auth_timeout, pc>>

\* A wait time-out below a second leaves the authorization without one.
InitializeStackCommon ==
  /\ receiverAMQPConnectionState = "UNINITIALIZED"
  /\ receiverAMQPConnectionState' = "PENDING_AUTHORIZATION"
  /\ handles' = Common
  /\ auth_status' = "IDLE"
  /\ auth_timeout' \in IF waitTimeoutInMs > 0 THEN BOOLEAN ELSE {FALSE}
  /\ pc' = "sas_token_auth"
  /\ UNCHANGED errored

\* link_create fails without a session, and may fail with one.
InitializeStackReceiverFails ==
  /\ receiverAMQPConnectionState = "PENDING_RECEIVER_CREATE"
  /\ StartClosing("closing_init")
  /\ UNCHANGED <<receiverAMQPConnectionState, handles, auth_status, auth_timeout>>

\* The handles of a link and of a message receiver that exist are overwritten.
InitializeStackReceiver ==
  /\ receiverAMQPConnectionState = "PENDING_RECEIVER_CREATE"
  /\ "session" \in handles
  /\ handles' = handles \cup Receiver
  /\ errored' = FALSE
  /\ pc' = "opening"
  /\ UNCHANGED <<receiverAMQPConnectionState, auth_status, auth_timeout>>

AlreadyInitialized ==
  /\ receiverAMQPConnectionState \in {"PENDING_AUTHORIZATION", "INITIALIZED"}
  /\ pc' = "sas_token_auth"
  /\ UNCHANGED <<stackVars, auth_status, auth_timeout>>

DoWorkActive ==
  /\ pc = "idle"
  /\ state = "ACTIVE"
  /\ \/ InitializeStackCommonFails
     \/ InitializeStackCommon
     \/ InitializeStackReceiverFails
     \/ InitializeStackReceiver
     \/ AlreadyInitialized
  /\ UNCHANGED <<sessionVars, credential, extRefreshSASToken, waitVars, callVars,
                 pastVars, now>>

\* Mutant: a receive ends only if its stack has come up.
DoWorkEndingOnlyUp ==
  /\ pc = "idle"
  /\ state = "INACTIVE_PENDING"
  /\ receiverAMQPConnectionState = "INITIALIZED"
  /\ StartClosing("closing_end")
  /\ UNCHANGED <<sessionVars, receiverAMQPConnectionState, handles, authVars,
                 waitVars, callVars, pastVars, now>>

DoWorkEnding ==
  /\ pc = "idle"
  /\ state = "INACTIVE_PENDING"
  /\ StartClosing("closing_end")
  /\ UNCHANGED <<sessionVars, receiverAMQPConnectionState, handles, authVars,
                 waitVars, callVars, pastVars, now>>

MessageReceiverOpenFails ==
  /\ pc = "opening" /\ calling = "none"
  /\ StartClosing("closing_init")
  /\ UNCHANGED <<sessionVars, receiverAMQPConnectionState, handles, authVars,
                 waitVars, callVars, pastVars, now>>

\* The receiver is up.  Without a reading of the clock the state stays
\* behind and the next DoWork creates the receiver again.
MessageReceiverOpenReturns ==
  /\ pc = "opening" /\ calling = "none"
  /\ \/ /\ receiverAMQPConnectionState' = "INITIALIZED"
        /\ lastActivityTimestamp' = IF waitTimeoutInMs > 0 THEN now
                                    ELSE lastActivityTimestamp
        /\ pc' = "sas_token_auth"
     \/ /\ waitTimeoutInMs > 0
        /\ pc' = "idle"
        /\ UNCHANGED <<receiverAMQPConnectionState, lastActivityTimestamp>>
  /\ UNCHANGED <<sessionVars, handles, errored, authVars, waitTimeoutInMs,
                 wasMessageReceived, callVars, pastVars, now>>
-----------------------------------------------------------------------------
(* HandleSASTokenAuth and what DoWork does with its result. *)

\* The authorization handle as TokenAuthorization describes it.
Authorization ==
  INSTANCE TokenAuthorization
    WITH status <- auth_status, timed <- auth_timeout,
         pending <- extRefreshSASToken,
         report <- IF pc \in Closing \cup {"auth_failed"} /\ auth_status # "NONE"
                   THEN "torn_down" ELSE "none"

\* The reports of EventHubAuthCBS_GetStatus.
GetStatus == Authorization!MayReport

\* The error callback; TeardownReceiverStack follows when it returns.
AuthFails == /\ Call("error")
             /\ pc' = "auth_failed"
             /\ UNCHANGED <<receiverAMQPConnectionState, auth_status>>

\* A successful EventHubAuthCBS_Authenticate or _Refresh puts a token.
PutToken == /\ auth_status' = "IN_PROGRESS"
            /\ UNCHANGED <<receiverAMQPConnectionState, callVars>>

\* Mutant: the state of the stack is not checked before the receive.
GoOnUnchecked == pc' = "receiving"

GoOn == pc' = IF receiverAMQPConnectionState = "INITIALIZED" THEN "receiving"
                                                             ELSE "idle"

TokenInstalled ==
  /\ receiverAMQPConnectionState' =
       IF receiverAMQPConnectionState = "PENDING_AUTHORIZATION"
       THEN "PENDING_RECEIVER_CREATE" ELSE receiverAMQPConnectionState
  /\ GoOn
  /\ UNCHANGED <<auth_status, callVars>>

HandleSASTokenAuth ==
  /\ pc = "sas_token_auth"
  /\ \E status \in GetStatus :
       \/ /\ status \in {"FAILURE", "EXPIRED", "TIMEOUT", "ERROR"}
          /\ AuthFails
          /\ UNCHANGED extRefreshSASToken
       \/ /\ status = "IN_PROGRESS"
          /\ pc' = "authorizing"
          /\ UNCHANGED <<receiverAMQPConnectionState, auth_status, callVars,
                         extRefreshSASToken>>
       \/ /\ status = "IDLE"
          /\ AuthFails \/ (PutToken /\ pc' = "authorizing")
          /\ UNCHANGED extRefreshSASToken
       \/ /\ status = "REFRESH_REQUIRED"
          /\ AuthFails \/ (PutToken /\ GoOn)
          /\ UNCHANGED extRefreshSASToken
       \/ /\ status = "OK" /\ extRefreshSASToken
          /\ AuthFails \/ (PutToken /\ GoOn)
          /\ extRefreshSASToken' = FALSE
       \/ /\ status = "OK" /\ ~extRefreshSASToken
          /\ TokenInstalled
          /\ UNCHANGED extRefreshSASToken
  /\ UNCHANGED <<sessionVars, handles, errored, auth_timeout, credential,
                 waitVars, pastVars, now>>
-----------------------------------------------------------------------------
(* uAMQP and its callbacks, inside connection_dowork, messagereceiver_open  *)
(* and messagereceiver_close.                                               *)

InDoWork == pc \in {"authorizing", "receiving"} /\ calling = "none"

\* Mutant: the arrival of the message is not noted.
OnMessageReceivedUnnoted ==
  /\ InDoWork
  /\ "messageReceiver" \in handles
  /\ heard' = now
  /\ Call("event")
  /\ UNCHANGED <<sessionVars, stackVars, authVars, waitVars, accepted, asked,
                 missed, now, pc>>

\* A message whose body and properties could be read.
OnMessageReceived ==
  /\ InDoWork
  /\ "messageReceiver" \in handles
  /\ wasMessageReceived' = 1
  /\ heard' = now
  /\ Call("event")
  /\ UNCHANGED <<sessionVars, stackVars, authVars, waitTimeoutInMs,
                 lastActivityTimestamp, accepted, asked, missed, now, pc>>

\* EHR_LL_OnStateChanged(ERROR): only the error callback, if there is one.
OnStateChanged ==
  /\ InDoWork \/ (pc \in Closing \cup {"opening"} /\ calling = "none")
  /\ "messageReceiver" \in handles
  /\ ~errored
  /\ errored' = TRUE
  /\ IF onEventReceiveCallback # NULL THEN Call("error") ELSE UNCHANGED callVars
  /\ UNCHANGED <<sessionVars, receiverAMQPConnectionState, handles, authVars,
                 waitVars, pastVars, now, pc>>

\* OnCBSPutTokenOperationComplete in eventhubauth.c.
PutTokenCompletes(status) ==
  /\ InDoWork
  /\ auth_status = "IN_PROGRESS"
  /\ auth_status' = status
  /\ UNCHANGED <<sessionVars, stackVars, auth_timeout, extRefreshSASToken,
                 credential, waitVars, callVars, pastVars, now, pc>>

AuthorizingReturns ==
  /\ pc = "authorizing" /\ calling = "none"
  /\ pc' = "idle"
  /\ UNCHANGED <<sessionVars, stackVars, authVars, waitVars, callVars, pastVars, now>>

\* connection_dowork returns to an initialized receiver, which then looks
\* for a wait time-out.
NoWait == /\ waitTimeoutInMs = 0
          /\ pc' = "idle"
          /\ UNCHANGED <<lastActivityTimestamp, callVars, missed>>

ClockFails == /\ waitTimeoutInMs > 0
              /\ pc' = "idle"
              /\ missed' = (missed \/ wasMessageReceived = 1)
              /\ UNCHANGED <<lastActivityTimestamp, callVars>>

Heard == /\ waitTimeoutInMs > 0
         /\ wasMessageReceived = 1
         /\ lastActivityTimestamp' = now
         /\ missed' = FALSE
         /\ pc' = "idle"
         /\ UNCHANGED callVars

StillWaiting == /\ waitTimeoutInMs > now - lastActivityTimestamp
                /\ wasMessageReceived = 0
                /\ pc' = "idle"
                /\ UNCHANGED <<lastActivityTimestamp, callVars, missed>>

\* The time of the callback itself is part of the next wait.
WaitTimesOut == /\ waitTimeoutInMs > 0
                /\ wasMessageReceived = 0
                /\ now - lastActivityTimestamp >= waitTimeoutInMs
                /\ lastActivityTimestamp' = now
                /\ missed' = FALSE
                /\ IF onEventReceiveCallback # NULL
                   THEN Call("timeout") /\ pc' = "timed_out"
                   ELSE pc' = "idle" /\ UNCHANGED callVars

ReceivingReturns ==
  /\ pc = "receiving" /\ calling = "none"
  /\ NoWait \/ ClockFails \/ Heard \/ StillWaiting \/ WaitTimesOut
  /\ wasMessageReceived' = 0
  /\ UNCHANGED <<sessionVars, stackVars, authVars, waitTimeoutInMs, accepted,
                 asked, heard, now>>
-----------------------------------------------------------------------------
(* Tear down. *)

\* Mutant: the authorization handle is kept.
DeInitializeStackKeepingCbs == /\ handles' = handles \cap {"cbsHandle"}
                               /\ errored' = FALSE
                               /\ UNCHANGED auth_status

\* The end of EventHubAMQP_DeInitializeStack.
DeInitializeStack == /\ handles' = {}
                     /\ errored' = FALSE
                     /\ auth_status' = "NONE"

\* A failed InitializeStackReceiver leaves the rest as it is.
BringUpAbandoned ==
  /\ pc = "closing_init" /\ calling = "none"
  /\ DeInitializeStack
  /\ pc' = "idle"
  /\ UNCHANGED <<sessionVars, receiverAMQPConnectionState, auth_timeout,
                 extRefreshSASToken, credential, waitVars, callVars, pastVars, now>>

\* Mutant: the callbacks stay registered.
TeardownReceiverStackKeeping ==
  /\ DeInitializeStack
  /\ receiverAMQPConnectionState' = "UNINITIALIZED"
  /\ receiverQueryFilter' = NULL
  /\ wasMessageReceived' = 0
  /\ waitTimeoutInMs' = 0
  /\ lastActivityTimestamp' = 0
  /\ extRefreshSASToken' = FALSE
  /\ state' = "INACTIVE"
  /\ UNCHANGED <<onEventReceiveCallback, onEventReceiveEndCallback, auth_timeout,
                 credential, pastVars, now>>

\* Mutant: the stack's state is left behind.
TeardownReceiverStackUp ==
  /\ DeInitializeStack
  /\ receiverQueryFilter' = NULL
  /\ onEventReceiveCallback' = NULL
  /\ wasMessageReceived' = 0
  /\ waitTimeoutInMs' = 0
  /\ lastActivityTimestamp' = 0
  /\ extRefreshSASToken' = FALSE
  /\ state' = "INACTIVE"
  /\ UNCHANGED <<receiverAMQPConnectionState, onEventReceiveEndCallback,
                 auth_timeout, credential, pastVars, now>>

TeardownReceiverStack ==
  /\ DeInitializeStack
  /\ receiverAMQPConnectionState' = "UNINITIALIZED"
  /\ receiverQueryFilter' = NULL
  /\ onEventReceiveCallback' = NULL
  /\ wasMessageReceived' = 0
  /\ waitTimeoutInMs' = 0
  /\ lastActivityTimestamp' = 0
  /\ extRefreshSASToken' = FALSE
  /\ state' = "INACTIVE"
  /\ UNCHANGED <<onEventReceiveEndCallback, auth_timeout, credential, pastVars, now>>

\* DoWork's answer to ReceiveEndAsync: tear down, then the end callback.
ReceiveEnds ==
  /\ pc = "closing_end" /\ calling = "none"
  /\ TeardownReceiverStack
  /\ IF onEventReceiveEndCallback # NULL
     THEN /\ calling' = "end"
          /\ context' = onEventReceiveEndCallback
          /\ pc' = "end_called"
     ELSE pc' = "idle" /\ UNCHANGED callVars

ReceiveFails ==
  /\ pc = "closing_auth" /\ calling = "none"
  /\ TeardownReceiverStack
  /\ pc' = "idle"
  /\ UNCHANGED callVars

DestroyReturns ==
  /\ pc = "closing_destroy" /\ calling = "none"
  /\ TeardownReceiverStack
  /\ pc' = "destroyed"
  /\ UNCHANGED callVars

\* The application's callback returns to the function that called it.
CallbackReturns ==
  /\ calling # "none"
  /\ calling' = "none"
  /\ context' = NULL
  /\ pc' = CASE pc = "auth_failed" -> "closing_auth"
             [] pc \in {"end_called", "timed_out"} -> "idle"
             [] OTHER -> pc
  /\ errored' = (errored /\ pc # "auth_failed")
  /\ onEventReceiveEndCallback' = IF pc = "end_called" THEN NULL
                                  ELSE onEventReceiveEndCallback
  /\ UNCHANGED <<state, onEventReceiveCallback, receiverQueryFilter,
                 receiverAMQPConnectionState, handles, authVars, waitVars,
                 pastVars, now>>

Ended == pc = "destroyed" /\ UNCHANGED vars
-----------------------------------------------------------------------------
Application == \/ \E r \in Receives, wait \in {0, WaitTimeout} : ReceiveAsync(r, wait)
               \/ \E withCallback \in BOOLEAN : ReceiveEndAsync(withCallback)
               \/ RefreshSASTokenAsync

DoWork == DoWorkActive \/ DoWorkEnding

\* The library's own steps, and the calls into uAMQP that do not wait.
Library == \/ MessageReceiverOpenFails
           \/ MessageReceiverOpenReturns
           \/ HandleSASTokenAuth
           \/ BringUpAbandoned
           \/ ReceiveEnds
           \/ ReceiveFails
           \/ DestroyReturns

Uamqp == \/ OnMessageReceived
         \/ OnStateChanged
         \/ \E status \in {"OK", "FAILURE"} : PutTokenCompletes(status)

ConnectionDoworkReturns == AuthorizingReturns \/ ReceivingReturns

Next == \/ Tick
        \/ Application
        \/ DoWork
        \/ Destroy
        \/ Library
        \/ Uamqp
        \/ ConnectionDoworkReturns
        \/ CallbackReturns
        \/ Ended

Spec == Init /\ [][Next]_vars

\* Code that runs goes on, callbacks return and the application keeps calling
\* EventHubReceiver_LL_DoWork.
WorkedSpec == /\ Spec
              /\ WF_vars(Library)
              /\ WF_vars(CallbackReturns)
              /\ WF_vars(DoWork)

\* Memory and the network do not fail for ever: a DoWork that may create
\* handles does so in the end.
RecoveringSpec == WorkedSpec /\ SF_vars(DoWorkActive /\ handles' # {})
-----------------------------------------------------------------------------
\* How far up the stack the handles exist, and where DoWork can be.
Stacks == {{}, Common, Common \cup Receiver}
Points == {"idle", "sas_token_auth", "opening", "authorizing", "receiving",
           "auth_failed", "timed_out", "end_called", "destroyed"} \cup Closing

SessionTypes ==
  /\ state \in {"INACTIVE", "ACTIVE", "INACTIVE_PENDING"}
  /\ {onEventReceiveCallback, onEventReceiveEndCallback, receiverQueryFilter}
       \subseteq Receives \cup {NULL}

StackTypes ==
  /\ receiverAMQPConnectionState \in {"UNINITIALIZED", "PENDING_AUTHORIZATION",
                                      "PENDING_RECEIVER_CREATE", "INITIALIZED"}
  /\ handles \in Stacks
  /\ errored \in BOOLEAN

AuthTypes ==
  /\ auth_status \in {"NONE", "IDLE", "IN_PROGRESS", "OK", "FAILURE"}
  /\ credential \in {"AUTO", "EXT"}
  /\ auth_timeout \in BOOLEAN /\ extRefreshSASToken \in BOOLEAN

WaitTypes ==
  /\ now \in Nat /\ lastActivityTimestamp \in Nat
  /\ waitTimeoutInMs \in {0, WaitTimeout}
  /\ wasMessageReceived \in {0, 1}

CallTypes ==
  /\ pc \in Points
  /\ calling \in {"none", "event", "timeout", "error", "end"}
  /\ context \in Receives \cup {NULL}

PastTypes ==
  /\ asked \cup accepted \subseteq Receives
  /\ heard \in Nat
  /\ missed \in BOOLEAN

TypeOK == SessionTypes /\ StackTypes /\ AuthTypes /\ WaitTypes /\ CallTypes /\ PastTypes

\* Every callback that is called was registered: OnMessageReceived and the two
\* authorization failures of DoWork call through the pointers without a look
\* at them, after uAMQP and application code has run.
NoNullCallback == calling # "none" => context # NULL

\* Each function finds the handles that it passes on without a check.
NoUseOfNullHandle ==
  /\ pc = "sas_token_auth" => "cbsHandle" \in handles
  /\ pc \in {"authorizing", "receiving"} => "connection" \in handles
  /\ pc = "opening" => "messageReceiver" \in handles

\* The parts of the inductive invariant.  A receive is registered, with its
\* filter, from the call that starts it until the tear down; the end callback
\* that DoWork finds is its own.
Registered ==
  /\ state = "INACTIVE" <=> onEventReceiveCallback = NULL
  /\ receiverQueryFilter = onEventReceiveCallback
  /\ onEventReceiveCallback \in accepted \cup {NULL}
  /\ asked \subseteq accepted
  /\ state = "ACTIVE" => /\ onEventReceiveEndCallback = NULL
                         /\ onEventReceiveCallback \notin asked
  /\ state = "INACTIVE_PENDING" /\ onEventReceiveEndCallback # NULL
       => /\ onEventReceiveEndCallback = onEventReceiveCallback
          /\ onEventReceiveCallback \in asked

\* What the state of the stack says about the handles.  It says nothing
\* while the receiver is to be created: a failure may have destroyed them all,
\* or have left a message receiver that is open.  The authorization's handle is
\* one of them and goes with the others.
StackState ==
  /\ "cbsHandle" \in handles <=> auth_status # "NONE"
  /\ receiverAMQPConnectionState = "UNINITIALIZED" => handles = {}
  /\ receiverAMQPConnectionState = "PENDING_AUTHORIZATION" => handles = Common
  /\ receiverAMQPConnectionState = "INITIALIZED" => handles = Common \cup Receiver
  /\ state = "INACTIVE" => receiverAMQPConnectionState = "UNINITIALIZED"

WhereInDoWork ==
  /\ pc \in {"sas_token_auth", "authorizing"} =>
       receiverAMQPConnectionState \in {"PENDING_AUTHORIZATION", "INITIALIZED"}
  /\ pc \in {"receiving", "timed_out"} => receiverAMQPConnectionState = "INITIALIZED"
  /\ pc \in {"opening", "closing_init"} =>
       receiverAMQPConnectionState = "PENDING_RECEIVER_CREATE"
  /\ pc = "opening" => handles = Common \cup Receiver
  /\ pc \in {"auth_failed", "closing_auth", "closing_init"} => state # "INACTIVE"
  /\ pc = "closing_end" => state = "INACTIVE_PENDING"
  /\ pc = "destroyed" => state = "INACTIVE"

CallbackOfCaller ==
  /\ calling = "none" <=> context = NULL
  /\ calling # "none" => pc \notin {"idle", "sas_token_auth", "destroyed"}
  /\ pc = "auth_failed" => calling = "error"
  /\ pc = "timed_out" => calling = "timeout"
  /\ pc = "end_called" <=> calling = "end"

\* lastActivityTimestamp is at least as late as the last message, unless that
\* message is still to be looked at or the clock failed.
ActivityNoted ==
  /\ heard <= now
  /\ waitTimeoutInMs > 0 => lastActivityTimestamp <= now
  /\ waitTimeoutInMs > 0 /\ wasMessageReceived = 0 /\ ~missed
       => heard <= lastActivityTimestamp

IInv == /\ TypeOK
        /\ Registered
        /\ StackState
        /\ WhereInDoWork
        /\ CallbackOfCaller
        /\ ActivityNoted

\* A wait time-out is reported to a receive that got no message for as long,
\* although messages also arrive while a token is refreshed; the exception
\* is a message after which the tick counter could not be read.
QuietWhenTimedOut ==
  [][calling = "none" /\ calling' = "timeout"
       => missed \/ now - heard >= WaitTimeout]_vars

\* Callbacks belong to the receive that is current, whatever their order.
Session == INSTANCE ReceiveSession WITH current <- onEventReceiveCallback
SessionSpec == Session!Spec

\* The call in progress, as far as the wrapper can tell.
Phase == CASE pc \in {"idle", "destroyed"} -> pc
           [] pc = "closing_end" -> "ending"
           [] pc = "end_called" -> "ended"
           [] pc \in {"auth_failed", "closing_auth"} -> "failing"
           [] pc = "closing_destroy" -> "destroying"
           [] OTHER -> "working"

\* The wrapper of eventhubreceiver.c sees no more than LowerReceiver allows,
\* however a stack is brought up, fails and is torn down.
Lower == INSTANCE LowerReceiver WITH receive <- onEventReceiveCallback,
                                     endReceive <- onEventReceiveEndCallback,
                                     pc <- Phase
LowerSpec == Lower!Spec

\* DoWork and its callbacks keep to their half of TokenAuthorization: a token is
\* put only when the handle asks for one, the service answers only between two
\* looks at the handle, and from a failure or any other start of a tear down
\* nothing happens to the handle until it has been destroyed, also when the
\* bring-up is given up half-way.  What the handle reports is its own half,
\* assumed here by GetStatus and checked of eventhubauth.c in EventHubAuthCBS.
AuthorizationSpec == Authorization!Spec

\* When no call is in progress and an end callback is registered, it will be
\* called, unless the receiver is destroyed.
EndIsAnswered ==
  \A r \in Receives :
    pc = "idle" /\ state = "INACTIVE_PENDING" /\ onEventReceiveEndCallback = r
      ~> (calling = "end" /\ context = r) \/ pc = "destroyed"

\* When DoWork has torn down the stack of a receive whose end the application
\* has asked for, the end callback runs (SRS_EVENTHUBRECEIVER_LL_29_611).
EndCallbackCalled ==
  [][state = "INACTIVE_PENDING" /\ state' = "INACTIVE" /\ pc # "closing_destroy"
       /\ onEventReceiveCallback \in asked => calling' = "end"]_vars

\* An active receive without a stack gets one: DoWork brings it up if it has
\* not been brought up (SRS_EVENTHUBRECEIVER_LL_29_451, 29_548).
StackComesUp == state = "ACTIVE" /\ handles = {} ~> handles # {} \/ state # "ACTIVE"
=============================================================================
