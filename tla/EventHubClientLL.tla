------------------------- MODULE EventHubClientLL -------------------------
(***************************************************************************)
(* The low-level sender, eventhubclient_ll.c: the outgoingEvents list, the  *)
(* uAMQP stack that EventHubClient_LL_DoWork brings up, authorizes and      *)
(* tears down, and the confirmation callbacks.                              *)
(*                                                                         *)
(* The API is called by one thread at a time.  Concurrency comes from       *)
(* callbacks: messagesender_send_async, connection_dowork and               *)
(* messagesender_destroy (uAMQP, external) call back into the library,      *)
(* which calls the application's callbacks: the confirmation of an event,   *)
(* before its caller removes the event from the list, or the report of an   *)
(* error or of a new state.  Each of them may call the API again.  pc says  *)
(* which library function is on the stack, confirming which callback is     *)
(* running on top of it.                                                    *)
(*                                                                         *)
(* A member of Events is one list entry: the event of a SendAsync or the    *)
(* batch of a SendBatchAsync.  Once its confirmation has freed it, the next *)
(* SendAsync may use it again, so that the application can send for ever    *)
(* and Events bounds how many entries there are at a time.  A call that     *)
(* returns an error before it changes anything is a stuttering step.        *)
(* Message contents, the exact age of an event and the several handles      *)
(* under the session are abstracted.                                        *)
(***************************************************************************)
EXTENDS Naturals, Sequences

CONSTANTS Events,        \* list entries that the application's sends allocate
          Batches,       \* those of them sent with SendBatchAsync
          NullCallback,  \* those of them sent without a confirmation callback
          Report,        \* the callback for errors or the one for state changes
          None           \* NULL: no entry, the list head, no callback

ASSUME EventsAssumption == /\ None \notin Events
                           /\ Report \notin Events \cup {None}
                           /\ Batches \subseteq Events
                           /\ NullCallback \subseteq Events

VARIABLES
  amqp_state,            \* EVENTHUBCLIENT_AMQP_STATE
  handles,               \* the uAMQP handles that are not NULL
  message_sender_state,  \* last state given to on_message_sender_state_changed
  held,                  \* entries uAMQP holds as the context of a send
  auth_status,           \* cbsStatus of cbs_handle
  auth_timeout,          \* cbs_handle was created with a nonzero timeout
  credential,            \* "AUTO" or "EXT"
  outgoingEvents,        \* the list, as a sequence of entries
  currentStatus,         \* entry -> WAITING_TO_BE_SENT or WAITING_FOR_ACK
  msg_timeout,           \* msg_timeout > 0
  ext_refresh_sas_token, \* a refresh token waits for DoWork
  pc,                    \* the library function that is executing
  next_list_entry,       \* DoWork's loop: the entry it visits next
  current,               \* the entry being given to messagesender_send_async
  confirming,            \* the entry whose callback is running, or Report
  destroying,            \* EventHubClient_LL_Destroy was called
  told,                  \* history: entry -> results of its callback, till freed
  error_reported         \* history: on_error_cb called since the bring-up

netVars  == <<amqp_state, handles, message_sender_state, held>>
authVars == <<auth_status, auth_timeout, credential, ext_refresh_sas_token>>
listVars == <<outgoingEvents, currentStatus, told, confirming>>
loopVars == <<next_list_entry, current>>
vars == <<netVars, authVars, listVars, loopVars, msg_timeout, pc, destroying,
          error_reported>>

Results == {"OK", "ERROR", "TIMEOUT", "DESTROY"}
Common == {"sasl_mechanism", "tls_io", "sasl_io", "connection", "session",
           "cbs_handle"}
Sender == {"link", "message_sender"}
-----------------------------------------------------------------------------
(* The list. *)

Listed == {outgoingEvents[i] : i \in DOMAIN outgoingEvents}

\* The entry after the i-th one, the list head (None) after the last.
EntryAfter(i) == IF i = Len(outgoingEvents) THEN None ELSE outgoingEvents[i + 1]

FirstEntry == IF outgoingEvents = <<>> THEN None ELSE outgoingEvents[1]

\* DList_RemoveEntryList: the list without its k-th entry.
Unlink(k) == [i \in 1..(Len(outgoingEvents) - 1) |->
                outgoingEvents[IF i < k THEN i ELSE i + 1]]

\* Give e its result and run its callback; pc stays with the caller.
Confirm(e, r) == /\ told' = [told EXCEPT ![e] = Append(@, r)]
                 /\ confirming' = e

\* Application code runs between library calls, in the confirmation callback
\* of an entry that has one, and in the callbacks for errors and state changes.
AppMayCall == \/ pc = "idle"
              \/ confirming \notin NullCallback \cup {None}

Init == /\ amqp_state = "UNINITIALIZED"
        /\ handles = {}
        /\ message_sender_state = "IDLE"
        /\ held = {}
        /\ auth_status = "NONE"
        /\ auth_timeout = FALSE
        /\ credential \in {"AUTO", "EXT"}
        /\ outgoingEvents = <<>>
        /\ currentStatus = [e \in Events |-> "WAITING_TO_BE_SENT"]
        /\ msg_timeout = FALSE
        /\ ext_refresh_sas_token = FALSE
        /\ pc = "idle"
        /\ next_list_entry = None
        /\ current = None
        /\ confirming = None
        /\ destroying = FALSE
        /\ told = [e \in Events |-> <<>>]
        /\ error_reported = FALSE
-----------------------------------------------------------------------------
(* Calls of the application. *)

\* Mutant: DList_InsertHeadList in place of DList_InsertTailList.
EnqueueAtHead(e) ==
  /\ AppMayCall
  /\ e \notin Listed \cup {confirming}
  /\ outgoingEvents' = <<e>> \o outgoingEvents
  /\ currentStatus' = [currentStatus EXCEPT ![e] = "WAITING_TO_BE_SENT"]
  /\ UNCHANGED <<netVars, authVars, told, confirming, loopVars, msg_timeout, pc,
                 destroying, error_reported>>

\* SendAsync and SendBatchAsync append a clone at the tail, in a new entry.  From
\* a DESTROY confirmation they read a tick counter that is freed already; what
\* they find is the age of the entry, which nobody looks at any more.
Enqueue(e) ==
  /\ AppMayCall
  /\ e \notin Listed \cup {confirming}
  /\ outgoingEvents' = Append(outgoingEvents, e)
  /\ currentStatus' = [currentStatus EXCEPT ![e] = "WAITING_TO_BE_SENT"]
  /\ UNCHANGED <<netVars, authVars, told, confirming, loopVars, msg_timeout, pc,
                 destroying, error_reported>>

SendAsync(e) == e \notin Batches /\ Enqueue(e)

SendBatchAsync(e) == e \in Batches /\ Enqueue(e)

SetMessageTimeout ==
  /\ AppMayCall
  /\ msg_timeout' \in BOOLEAN
  /\ UNCHANGED <<netVars, authVars, listVars, loopVars, pc, destroying,
                 error_reported>>

RefreshSASTokenAsync ==
  /\ AppMayCall
  /\ credential = "EXT"
  /\ amqp_state = "INITIALIZED"
  /\ ~ext_refresh_sas_token
  /\ ext_refresh_sas_token' = TRUE
  /\ UNCHANGED <<netVars, auth_status, auth_timeout, credential, listVars,
                 loopVars, msg_timeout, pc, destroying, error_reported>>

\* destroy_uamqp_stack starts with messagesender_destroy, which closes an
\* open message sender before it gives up the messages it holds.
StartTeardown ==
  /\ pc' = "teardown"
  /\ message_sender_state' = IF message_sender_state \in {"OPENING", "OPEN"}
                             THEN "CLOSING" ELSE message_sender_state

\* The closing is reported to the state-changed callback.
Destroy ==
  /\ pc = "idle"
  /\ destroying' = TRUE
  /\ StartTeardown
  /\ confirming' = IF message_sender_state \in {"OPENING", "OPEN"}
                   THEN Report ELSE None
  /\ UNCHANGED <<amqp_state, handles, held, authVars, outgoingEvents,
                 currentStatus, told, loopVars, msg_timeout, error_reported>>
-----------------------------------------------------------------------------
(* EventHubClient_LL_DoWork up to the send loop. *)

\* A failure at any point of the bring-up destroys what was created; there
\* is no message sender yet, so nothing is confirmed.  DoWork calls the error
\* callback last, so what that one does it can do after DoWork as well.
InitializeFails ==
  /\ amqp_state \in {"UNINITIALIZED", "PENDING_SENDER_CREATE"}
  /\ amqp_state' = "UNINITIALIZED"
  /\ handles' = {}
  /\ message_sender_state' = "IDLE"
  /\ auth_status' = "NONE"
  /\ ext_refresh_sas_token' = FALSE
  /\ error_reported' = TRUE
  /\ pc' = "idle"
  /\ UNCHANGED <<held, auth_timeout, credential>>

initialize_uamqp_stack_common ==
  /\ amqp_state = "UNINITIALIZED"
  /\ amqp_state' = "PENDING_AUTHORIZATION"
  /\ handles' = Common
  /\ message_sender_state' = "IDLE"
  /\ auth_status' = "IDLE"
  /\ auth_timeout' = msg_timeout
  /\ error_reported' = FALSE
  /\ pc' = "sas_token_auth"
  /\ UNCHANGED <<held, credential, ext_refresh_sas_token>>

initialize_uamqp_sender_stack ==
  /\ amqp_state = "PENDING_SENDER_CREATE"
  /\ amqp_state' = "INITIALIZED"
  /\ handles' = handles \cup Sender
  /\ pc' = "sas_token_auth"
  /\ UNCHANGED <<message_sender_state, held, authVars, error_reported>>

\* Mutant: the state of the message sender is not looked at.
AlreadyInitializedStaysUp ==
  /\ amqp_state \in {"PENDING_AUTHORIZATION", "INITIALIZED"}
  /\ pc' = "sas_token_auth"
  /\ UNCHANGED <<message_sender_state, amqp_state, handles, held, authVars,
                 error_reported>>

\* Nothing to bring up: a message sender in error takes the stack down.
AlreadyInitialized ==
  /\ amqp_state \in {"PENDING_AUTHORIZATION", "INITIALIZED"}
  /\ IF message_sender_state = "ERROR"
     THEN StartTeardown
     ELSE pc' = "sas_token_auth" /\ UNCHANGED message_sender_state
  /\ UNCHANGED <<amqp_state, handles, held, authVars, error_reported>>

DoWork ==
  /\ pc = "idle"
  /\ \/ InitializeFails
     \/ initialize_uamqp_stack_common
     \/ initialize_uamqp_sender_stack
     \/ AlreadyInitialized
  /\ UNCHANGED <<listVars, loopVars, msg_timeout, destroying>>

\* The authorization handle as TokenAuthorization describes it.
Authorization ==
  INSTANCE TokenAuthorization
    WITH status <- auth_status, timed <- auth_timeout,
         pending <- ext_refresh_sas_token,
         report <- IF pc = "teardown" /\ auth_status # "NONE"
                   THEN "torn_down" ELSE "none"

\* The reports of EventHubAuthCBS_GetStatus.
GetStatus == Authorization!MayReport

\* Mutant: one of the two error paths forgets the error callback.
AuthFailsSilently == /\ StartTeardown
                     /\ UNCHANGED <<amqp_state, auth_status, confirming,
                                    error_reported>>

\* The error callback, then destroy_uamqp_stack, whose closing of the message
\* sender may call the state-changed callback: the two count as one.
AuthFails == /\ error_reported' = TRUE
             /\ confirming' = Report
             /\ StartTeardown
             /\ UNCHANGED <<amqp_state, auth_status>>

\* Mutant: the token counts as accepted when it is put.
PutTokenAccepted == /\ auth_status' = "OK"
                    /\ UNCHANGED <<amqp_state, message_sender_state, confirming,
                                   error_reported>>

\* A successful EventHubAuthCBS_Authenticate or _Refresh puts a token.
PutToken == /\ auth_status' = "IN_PROGRESS"
            /\ UNCHANGED <<amqp_state, message_sender_state, confirming,
                           error_reported>>

\* Mutant: amqp_state is not checked before the send loop.
GoOnUnchecked == pc' = "open"

\* DoWork goes on to send once the sender stack is up.
GoOn == pc' = IF amqp_state = "INITIALIZED" THEN "open" ELSE "idle"

TokenInstalled ==
  /\ amqp_state' = IF amqp_state = "PENDING_AUTHORIZATION"
                   THEN "PENDING_SENDER_CREATE" ELSE amqp_state
  /\ auth_status' = "OK"
  /\ GoOn
  /\ UNCHANGED <<message_sender_state, confirming, error_reported>>

handle_sas_token_auth ==
  /\ pc = "sas_token_auth"
  /\ \E status \in GetStatus :
       \/ /\ status \in {"FAILURE", "EXPIRED", "TIMEOUT", "ERROR"}
          /\ AuthFails
          /\ UNCHANGED ext_refresh_sas_token
       \/ /\ status = "IN_PROGRESS"
          /\ pc' = "connection_dowork"
          /\ UNCHANGED <<amqp_state, message_sender_state, auth_status, confirming,
                         ext_refresh_sas_token, error_reported>>
       \/ /\ status = "IDLE"
          /\ AuthFails \/ (PutToken /\ pc' = "connection_dowork")
          /\ UNCHANGED ext_refresh_sas_token
       \/ /\ status = "REFRESH_REQUIRED"
          /\ AuthFails \/ (PutToken /\ GoOn)
          /\ UNCHANGED ext_refresh_sas_token
       \/ /\ status = "OK" /\ ext_refresh_sas_token
          /\ AuthFails \/ (PutToken /\ GoOn)
          /\ ext_refresh_sas_token' = FALSE
       \/ /\ status = "OK" /\ ~ext_refresh_sas_token
          /\ TokenInstalled
          /\ UNCHANGED ext_refresh_sas_token
  /\ UNCHANGED <<handles, held, auth_timeout, credential, outgoingEvents,
                 currentStatus, told, loopVars, msg_timeout, destroying>>

\* messagesender_open on an idle sender; a failure leaves it in error, which
\* the error callback learns last, and ends DoWork.
OpenMessageSender ==
  /\ pc = "open"
  /\ IF message_sender_state = "IDLE"
     THEN \/ message_sender_state' = "OPENING" /\ pc' = "sending"
             /\ UNCHANGED error_reported
          \/ message_sender_state' = "ERROR" /\ pc' = "idle"
             /\ error_reported' = TRUE
     ELSE pc' = "sending" /\ UNCHANGED <<message_sender_state, error_reported>>
  /\ next_list_entry' = IF pc' = "sending" THEN FirstEntry ELSE None
  /\ UNCHANGED <<amqp_state, handles, held, authVars, listVars, current,
                 msg_timeout, destroying>>
-----------------------------------------------------------------------------
(* DoWork's loop over outgoingEvents.  Each step reads the visited entry's  *)
(* successor before it does anything else with the entry.                   *)

\* Mutant: Flink is read after the entry was removed, so the cursor stays.
VisitsReadingFlinkAfter(i) == /\ pc = "sending" /\ confirming = None
                              /\ i \in DOMAIN outgoingEvents
                              /\ outgoingEvents[i] = next_list_entry
                              /\ UNCHANGED next_list_entry

\* The loop visits the i-th entry.
Visits(i) == /\ pc = "sending" /\ confirming = None
             /\ i \in DOMAIN outgoingEvents
             /\ outgoingEvents[i] = next_list_entry
             /\ next_list_entry' = EntryAfter(i)

\* Mutant: after an entry in flight it starts over.
SkipEntryStartingOver(i) ==
  /\ pc = "sending" /\ confirming = None
  /\ i \in DOMAIN outgoingEvents
  /\ outgoingEvents[i] = next_list_entry
  /\ next_list_entry' = FirstEntry
  /\ currentStatus[outgoingEvents[i]] = "WAITING_FOR_ACK"
  /\ UNCHANGED <<netVars, authVars, listVars, current, msg_timeout, pc,
                 destroying, error_reported>>

SkipEntry(i) ==
  /\ Visits(i)
  /\ currentStatus[outgoingEvents[i]] = "WAITING_FOR_ACK"
  /\ UNCHANGED <<netVars, authVars, listVars, current, msg_timeout, pc,
                 destroying, error_reported>>

\* The callbacks of these two paths are called without a check for NULL.
ConfirmUnchecked(e, r) ==
  IF e \in NullCallback
  THEN pc' = "crashed" /\ UNCHANGED <<told, confirming>>
  ELSE Confirm(e, r)

\* No message could be created from the event's data.
CreateMessageFails(i) ==
  LET e == outgoingEvents[i] IN
  /\ Visits(i)
  /\ currentStatus[e] = "WAITING_TO_BE_SENT"
  /\ ConfirmUnchecked(e, "ERROR")
  /\ e \notin NullCallback => UNCHANGED pc
  /\ UNCHANGED <<netVars, authVars, outgoingEvents, currentStatus, current,
                 msg_timeout, destroying, error_reported>>

EventTimesOut(i) ==
  LET e == outgoingEvents[i] IN
  /\ Visits(i)
  /\ currentStatus[e] = "WAITING_TO_BE_SENT"
  /\ msg_timeout
  /\ currentStatus' = [currentStatus EXCEPT ![e] = "WAITING_FOR_ACK"]
  /\ ConfirmUnchecked(e, "TIMEOUT")
  /\ e \notin NullCallback => UNCHANGED pc
  /\ UNCHANGED <<netVars, authVars, outgoingEvents, current, msg_timeout,
                 destroying, error_reported>>

\* Mutant: the entry is not marked, so that the next DoWork sends it again.
CallSendAsyncUnmarked(i) ==
  /\ Visits(i)
  /\ currentStatus[outgoingEvents[i]] = "WAITING_TO_BE_SENT"
  /\ current' = outgoingEvents[i]
  /\ pc' = "send_async"
  /\ UNCHANGED <<netVars, authVars, outgoingEvents, currentStatus, told,
                 confirming, msg_timeout, destroying, error_reported>>

CallSendAsync(i) ==
  /\ Visits(i)
  /\ currentStatus[outgoingEvents[i]] = "WAITING_TO_BE_SENT"
  /\ currentStatus' = [currentStatus EXCEPT ![outgoingEvents[i]] = "WAITING_FOR_ACK"]
  /\ current' = outgoingEvents[i]
  /\ pc' = "send_async"
  /\ UNCHANGED <<netVars, authVars, outgoingEvents, told, confirming,
                 msg_timeout, destroying, error_reported>>

\* messagesender_send_async takes the message; it may complete it, or others,
\* before it returns.
SendAsyncTakes ==
  /\ pc = "send_async" /\ confirming = None
  /\ current # None
  /\ held' = held \cup {current}
  /\ current' = None
  /\ UNCHANGED <<amqp_state, handles, message_sender_state, authVars, listVars,
                 next_list_entry, msg_timeout, pc, destroying, error_reported>>

SendAsyncReturns ==
  /\ pc = "send_async" /\ confirming = None
  /\ current = None
  /\ pc' = "sending"
  /\ UNCHANGED <<netVars, authVars, listVars, loopVars, msg_timeout, destroying,
                 error_reported>>

\* Mutant: the result of messagesender_send_async is ignored.
SendAsyncReturnsNullIgnored ==
  /\ pc = "send_async" /\ confirming = None
  /\ current # None
  /\ pc' = "sending"
  /\ current' = None
  /\ UNCHANGED <<netVars, authVars, listVars, next_list_entry, msg_timeout,
                 destroying, error_reported>>

SendAsyncReturnsNull ==
  /\ pc = "send_async" /\ confirming = None
  /\ current # None
  /\ ConfirmUnchecked(current, "ERROR")
  /\ current \notin NullCallback => pc' = "sending"
  /\ current' = None
  /\ UNCHANGED <<netVars, authVars, outgoingEvents, currentStatus,
                 next_list_entry, msg_timeout, destroying, error_reported>>

EndOfList ==
  /\ pc = "sending" /\ confirming = None
  /\ next_list_entry = None
  /\ pc' = "connection_dowork"
  /\ UNCHANGED <<netVars, authVars, listVars, loopVars, msg_timeout, destroying,
                 error_reported>>

\* Mutant: the callback's caller frees the event and leaves it on the list.
CallbackReturnsKeeping ==
  /\ confirming # None
  /\ confirming' = None
  /\ told' = [e \in Events |-> IF e = confirming THEN <<>> ELSE told[e]]
  /\ UNCHANGED <<netVars, authVars, outgoingEvents, currentStatus, loopVars,
                 msg_timeout, pc, destroying, error_reported>>

\* The application's callback returns and its caller removes the entry and frees
\* it.  EventHubClient_LL_Destroy has removed it already.
CallbackReturns ==
  /\ confirming # None
  /\ confirming' = None
  /\ told' = [e \in Events |-> IF e = confirming THEN <<>> ELSE told[e]]
  /\ IF confirming \in Listed
     THEN \E k \in DOMAIN outgoingEvents :
            /\ outgoingEvents[k] = confirming
            /\ outgoingEvents' = Unlink(k)
     ELSE UNCHANGED outgoingEvents
  /\ UNCHANGED <<netVars, authVars, currentStatus, loopVars, msg_timeout,
                 pc, destroying, error_reported>>
-----------------------------------------------------------------------------
(* uAMQP, inside messagesender_send_async and connection_dowork. *)

InUamqp == pc \in {"send_async", "connection_dowork"} /\ confirming = None

on_message_send_complete(e, r) ==
  /\ InUamqp
  /\ e \in held
  /\ held' = held \ {e}
  /\ Confirm(e, r)
  /\ UNCHANGED <<amqp_state, handles, message_sender_state, authVars,
                 outgoingEvents, currentStatus, loopVars, msg_timeout, pc,
                 destroying, error_reported>>

\* The link attaches, detaches or fails under the message sender.  All but the
\* detaching is reported, a failure to two callbacks that count as one.
on_message_sender_state_changed(new) ==
  /\ InUamqp
  /\ "message_sender" \in handles
  /\ \/ message_sender_state = "OPENING" /\ new \in {"OPEN", "ERROR"}
     \/ message_sender_state = "OPEN" /\ new \in {"IDLE", "ERROR"}
     \/ message_sender_state = "IDLE" /\ new = "ERROR"
  /\ message_sender_state' = new
  /\ confirming' = IF new \in {"OPEN", "ERROR"} THEN Report ELSE None
  /\ error_reported' = (error_reported \/ new = "ERROR")
  /\ UNCHANGED <<amqp_state, handles, held, authVars, outgoingEvents,
                 currentStatus, told, loopVars, msg_timeout, pc, destroying>>

\* OnCBSPutTokenOperationComplete in eventhubauth.c.
PutTokenCompletes(status) ==
  /\ pc = "connection_dowork" /\ confirming = None
  /\ auth_status = "IN_PROGRESS"
  /\ auth_status' = status
  /\ UNCHANGED <<netVars, auth_timeout, credential, ext_refresh_sas_token, listVars,
                 loopVars, msg_timeout, pc, destroying, error_reported>>

ConnectionDoworkReturns ==
  /\ pc = "connection_dowork" /\ confirming = None
  /\ pc' = "idle"
  /\ UNCHANGED <<netVars, authVars, listVars, loopVars, msg_timeout, destroying,
                 error_reported>>
-----------------------------------------------------------------------------
(* destroy_uamqp_stack and EventHubClient_LL_Destroy. *)

\* messagesender_destroy completes what it holds with an error.
TeardownCompletes(e) ==
  /\ pc = "teardown" /\ confirming = None
  /\ e \in held
  /\ held' = held \ {e}
  /\ Confirm(e, "ERROR")
  /\ UNCHANGED <<amqp_state, handles, message_sender_state, authVars,
                 outgoingEvents, currentStatus, loopVars, msg_timeout, pc,
                 destroying, error_reported>>

\* Mutant: the message sender's state survives the message sender.
destroy_uamqp_stack_keeping_state ==
  /\ pc = "teardown" /\ confirming = None
  /\ held = {}
  /\ handles' = {}
  /\ amqp_state' = "UNINITIALIZED"
  /\ auth_status' = "NONE"
  /\ ext_refresh_sas_token' = FALSE
  /\ pc' = IF destroying THEN "draining" ELSE "idle"
  /\ UNCHANGED <<message_sender_state, held, auth_timeout, credential, listVars, loopVars,
                 msg_timeout, destroying, error_reported>>

destroy_uamqp_stack ==
  /\ pc = "teardown" /\ confirming = None
  /\ held = {}
  /\ handles' = {}
  /\ amqp_state' = "UNINITIALIZED"
  /\ message_sender_state' = "IDLE"
  /\ auth_status' = "NONE"
  /\ ext_refresh_sas_token' = FALSE
  /\ pc' = IF destroying THEN "draining" ELSE "idle"
  /\ UNCHANGED <<held, auth_timeout, credential, listVars, loopVars, msg_timeout,
                 destroying, error_reported>>

DestroyConfirms ==
  /\ pc = "draining" /\ confirming = None
  /\ outgoingEvents # <<>>
  /\ Confirm(Head(outgoingEvents), "DESTROY")
  /\ outgoingEvents' = Tail(outgoingEvents)
  /\ UNCHANGED <<netVars, authVars, currentStatus, loopVars, msg_timeout, pc,
                 destroying, error_reported>>

\* Mutant: the rest of the list is freed, nobody is told.
DestroyReturnsDropping ==
  /\ pc = "draining" /\ confirming = None
  /\ outgoingEvents' = <<>>
  /\ pc' = "destroyed"
  /\ UNCHANGED <<netVars, authVars, currentStatus, told, confirming, loopVars,
                 msg_timeout, destroying, error_reported>>

DestroyReturns ==
  /\ pc = "draining" /\ confirming = None
  /\ outgoingEvents = <<>>
  /\ pc' = "destroyed"
  /\ UNCHANGED <<netVars, authVars, listVars, loopVars, msg_timeout, destroying,
                 error_reported>>

\* The handle is gone, or the process is.
Ended == pc \in {"destroyed", "crashed"} /\ UNCHANGED vars
-----------------------------------------------------------------------------
Application == \/ \E e \in Events : SendAsync(e) \/ SendBatchAsync(e)
               \/ SetMessageTimeout
               \/ RefreshSASTokenAsync

SendLoop == \/ \E i \in DOMAIN outgoingEvents :
                 \/ SkipEntry(i)
                 \/ CreateMessageFails(i)
                 \/ EventTimesOut(i)
                 \/ CallSendAsync(i)
            \/ SendAsyncTakes
            \/ SendAsyncReturns
            \/ SendAsyncReturnsNull
            \/ EndOfList

Uamqp == \/ \E e \in Events, r \in {"OK", "ERROR"} : on_message_send_complete(e, r)
         \/ \E new \in {"IDLE", "OPEN", "ERROR"} : on_message_sender_state_changed(new)
         \/ \E status \in {"OK", "FAILURE"} : PutTokenCompletes(status)

\* The library's own steps, which a caller waits for.
Library == \/ handle_sas_token_auth
           \/ OpenMessageSender
           \/ SendLoop
           \/ \E e \in Events : TeardownCompletes(e)
           \/ destroy_uamqp_stack
           \/ DestroyConfirms
           \/ DestroyReturns

Next == \/ Application
        \/ DoWork
        \/ Destroy
        \/ Library
        \/ CallbackReturns
        \/ Uamqp
        \/ ConnectionDoworkReturns
        \/ Ended

Spec == Init /\ [][Next]_vars

\* Callbacks return, uAMQP's calls return, and the library runs on.
FairSpec == /\ Spec
            /\ WF_vars(Library)
            /\ WF_vars(CallbackReturns)
            /\ WF_vars(ConnectionDoworkReturns)

\* The application also keeps calling EventHubClient_LL_DoWork.
WorkedSpec == FairSpec /\ WF_vars(DoWork)
-----------------------------------------------------------------------------
TypeOK ==
  /\ amqp_state \in {"UNINITIALIZED", "PENDING_AUTHORIZATION",
                     "PENDING_SENDER_CREATE", "INITIALIZED"}
  /\ handles \in {{}, Common, Common \cup Sender}
  /\ message_sender_state \in {"IDLE", "OPENING", "OPEN", "CLOSING", "ERROR"}
  /\ held \subseteq Events
  /\ auth_status \in {"NONE", "IDLE", "IN_PROGRESS", "OK", "FAILURE"}
  /\ auth_timeout \in BOOLEAN
  /\ credential \in {"AUTO", "EXT"}
  /\ outgoingEvents \in Seq(Events)
  /\ currentStatus \in [Events -> {"WAITING_TO_BE_SENT", "WAITING_FOR_ACK"}]
  /\ msg_timeout \in BOOLEAN
  /\ ext_refresh_sas_token \in BOOLEAN
  /\ pc \in {"idle", "sas_token_auth", "open", "sending", "send_async",
             "connection_dowork", "teardown", "draining", "destroyed", "crashed"}
  /\ next_list_entry \in Events \cup {None}
  /\ current \in Events \cup {None}
  /\ confirming \in Events \cup {Report, None}
  /\ destroying \in BOOLEAN
  /\ told \in [Events -> Seq(Results)]
  /\ error_reported \in BOOLEAN

\* The list entries that on_message_send_complete would dereference: an entry
\* that uAMQP holds as a context is still on the list, waits for its
\* acknowledgement, was not confirmed yet, and the message sender that holds
\* it exists.  A timed-out, failed or drained entry that uAMQP still held
\* would be freed memory when its completion arrives.
HeldSafe ==
  /\ held # {} => "message_sender" \in handles
  /\ \A e \in held : /\ e \in Listed
                     /\ currentStatus[e] = "WAITING_FOR_ACK"
                     /\ told[e] = <<>>
                     /\ e # current

\* DoWork reads currentListEntry->Flink before it runs any callback and uses
\* it after: whatever uAMQP completed or the application sent meanwhile, that
\* entry was not freed.
CursorSafe == pc \in {"sending", "send_async"} =>
                next_list_entry \in Listed \cup {None}

\* Events go to uAMQP in the order of the list: one that waits to be sent is
\* never ahead of one that waits for its acknowledgement.
InFlightPrefix ==
  \A i, j \in DOMAIN outgoingEvents :
     i < j /\ currentStatus[outgoingEvents[j]] = "WAITING_FOR_ACK"
       => currentStatus[outgoingEvents[i]] = "WAITING_FOR_ACK"

\* No event is stuck: DoWork skips an entry that waits for its
\* acknowledgement, so uAMQP must hold it (or be about to), until its callback
\* runs; also across a teardown of the stack.
NoOrphanedAck ==
  pc # "crashed" =>
    \A e \in Listed : /\ currentStatus[e] = "WAITING_FOR_ACK"
                      /\ told[e] = <<>>
                      => e \in held \cup {current}

\* Whatever path DoWork takes through the bring-up states, the handles that
\* the function on the stack passes to uAMQP and to eventhubauth.c exist.
NoUseOfNullHandle ==
  /\ pc = "sas_token_auth" => "cbs_handle" \in handles
  /\ pc = "connection_dowork" => "connection" \in handles
  /\ pc \in {"open", "sending", "send_async"} => "message_sender" \in handles

\* The inductive invariant: why the four above hold.
UpState == CASE amqp_state = "UNINITIALIZED" -> handles = {}
             [] amqp_state = "INITIALIZED" -> handles = Common \cup Sender
             [] OTHER -> handles = Common

\* Which states of the stack and of the auth handle each function runs in.
WhereInDoWork ==
  /\ amqp_state = "UNINITIALIZED" <=> auth_status = "NONE"
  /\ pc \in {"sas_token_auth", "connection_dowork"} => amqp_state # "UNINITIALIZED"
  /\ pc \in {"open", "sending", "send_async"} => amqp_state = "INITIALIZED"
  /\ pc \in {"draining", "destroyed"} => held = {} /\ current = None
  /\ amqp_state # "INITIALIZED" => /\ held = {} /\ ~ext_refresh_sas_token
                                   /\ message_sender_state = "IDLE"
  /\ pc \in {"draining", "destroyed"} => destroying
  /\ destroying => pc \in {"teardown", "draining", "destroyed"}
  /\ confirming # None => pc \in {"sending", "send_async", "connection_dowork",
                                  "teardown", "draining"}

\* An entry is on the list once and is confirmed once, right before it goes.
ConfirmedOnce ==
  /\ \A i, j \in DOMAIN outgoingEvents :
        outgoingEvents[i] = outgoingEvents[j] => i = j
  /\ \A e \in Events : /\ Len(told[e]) <= 1
                       /\ told[e] # <<>> => e = confirming
  /\ confirming \in Events => told[confirming] # <<>>

\* The entry being sent is on the list and unconfirmed like those held.
CurrentSafe == current # None => /\ pc = "send_async"
                                 /\ current \in Listed
                                 /\ currentStatus[current] = "WAITING_FOR_ACK"
                                 /\ told[current] = <<>>

\* All entries before the cursor are in flight, or being confirmed; the one
\* under it is not confirmed, and while uAMQP may complete entries it still
\* waits to be sent.
CursorInOrder ==
  pc \in {"sending", "send_async"} /\ next_list_entry # None =>
    /\ next_list_entry \in Listed
    /\ told[next_list_entry] = <<>>
    /\ pc = "send_async" => currentStatus[next_list_entry] = "WAITING_TO_BE_SENT"
    /\ \A i, j \in DOMAIN outgoingEvents :
          i < j /\ outgoingEvents[j] = next_list_entry =>
             \/ currentStatus[outgoingEvents[i]] = "WAITING_FOR_ACK"
             \/ outgoingEvents[i] = confirming

IInv == /\ TypeOK
        /\ UpState
        /\ WhereInDoWork
        /\ ConfirmedOnce
        /\ HeldSafe
        /\ CurrentSafe
        /\ InFlightPrefix
        /\ CursorInOrder
        /\ NoOrphanedAck

\* No callback pointer is called when it is NULL: SendAsync accepts an event
\* without a callback (SRS_EVENTHUBCLIENT_LL_04_012, 04_015).
NoNullCall == pc # "crashed"

\* A stack that had come up and that the application did not destroy is never
\* taken down without a call of the error callback since it came up.
NoSilentTeardown ==
  [][amqp_state # "UNINITIALIZED" /\ amqp_state' = "UNINITIALIZED" /\ ~destroying
       => error_reported']_vars

\* Exactly one confirmation for every event the library accepted, before its
\* entry is freed, none for others, and none left when EventHubClient_LL_Destroy
\* returns.
Ledger == INSTANCE ConfirmationLedger
            WITH accepted <- Listed \cup {e \in Events : told[e] # <<>>},
                 closed <- (pc = "destroyed")
LedgerSpec == Ledger!Spec

\* The call in progress, and the events that wait for their confirmation.
Phase == CASE pc \in {"idle", "destroyed"} -> pc
           [] pc \notin {"idle", "destroyed"} /\ destroying -> "destroying"
           [] OTHER -> "working"

Unconfirmed == {e \in Listed : told[e] = <<>>}

\* The wrapper of eventhubclient.c sees no more than LowerSender allows: no event
\* is confirmed outside DoWork and Destroy or in the middle of another's callback,
\* and neither call returns from under a callback.
Lower == INSTANCE LowerSender WITH phase <- Phase, pending <- Unconfirmed
LowerSpec == Lower!Spec

\* DoWork and its callbacks keep to their half of TokenAuthorization: a token is
\* put only when the handle asks for one, the service answers only between two
\* looks at the handle, and from a failure or any other start of a tear down
\* nothing happens to the handle until it has been destroyed.  What the handle
\* reports is its own half, assumed here by GetStatus and checked of
\* eventhubauth.c in EventHubAuthCBS.
AuthorizationSpec == Authorization!Spec

\* Where the library walks a list that the callbacks it calls may extend.
Walking == pc \in {"sending", "send_async", "draining"}

\* EventHubClient_LL_DoWork and EventHubClient_LL_Destroy return, unless the
\* program crashes on an event without a callback.  The exception is the loop over
\* outgoingEvents and the drain of Destroy, which may run on as long as callbacks
\* send, and only as long: neither passes the same entries again, and authorization,
\* connection_dowork and the tear down end whatever their callbacks send.
CallsReturn ==
  \/ pc # "idle" ~> pc \in {"idle", "destroyed", "crashed"}
  \/ <>[]Walking /\ []<><<\E e \in Events : Enqueue(e)>>_vars

\* A message sender in error is always replaced: DoWork takes the stack down
\* so that it can be created again.  A crash may come first, and the DoWork that
\* the error was reported in may be one that callbacks keep walking the list.
ErrorRecovers ==
  \/ message_sender_state = "ERROR" ~> amqp_state = "UNINITIALIZED" \/ pc = "crashed"
  \/ <>[]Walking
=============================================================================
