---------------------- MODULE EventHubClientLL_proofs ----------------------
(***************************************************************************)
(* Proofs about EventHubClientLL, for every set of events.                 *)
(***************************************************************************)
EXTENDS EventHubClientLL, SequenceTheorems, TLAPS

LEMMA InitIInv == Init => IInv
<1> SUFFICES ASSUME Init PROVE IInv
  OBVIOUS
<1> USE DEF Init
<1>1. TypeOK
  <2>1. <<>> \in Seq(Events) /\ told \in [Events -> Seq(Results)]
    BY EmptySeq
  <2> QED BY <2>1 DEF TypeOK
<1>2. Listed = {}
  BY DEF Listed
<1>3. UpState /\ WhereInDoWork /\ CurrentSafe /\ InFlightPrefix
  BY DEF UpState, WhereInDoWork, CurrentSafe, InFlightPrefix
<1>4. ConfirmedOnce /\ HeldSafe /\ CursorInOrder /\ NoOrphanedAck
  BY <1>2, EventsAssumption
  DEF ConfirmedOnce, HeldSafe, CursorInOrder, NoOrphanedAck
<1> QED BY <1>1, <1>3, <1>4 DEF IInv

\* Removing an entry of a list without repetitions keeps the others, in order.
LEMMA UnlinkKeeps ==
  ASSUME outgoingEvents \in Seq(Events), NEW k \in DOMAIN outgoingEvents,
         \A i, j \in DOMAIN outgoingEvents :
            outgoingEvents[i] = outgoingEvents[j] => i = j
  PROVE  /\ Unlink(k) \in Seq(Events)
         /\ Len(Unlink(k)) = Len(outgoingEvents) - 1
         /\ \A i \in 1..(Len(outgoingEvents) - 1) :
              Unlink(k)[i] = outgoingEvents[IF i < k THEN i ELSE i + 1]
         /\ {Unlink(k)[i] : i \in DOMAIN Unlink(k)} = Listed \ {outgoingEvents[k]}
<1> DEFINE n == Len(outgoingEvents) - 1
<1>1. /\ outgoingEvents \in [1..(n + 1) -> Events]
      /\ n \in Nat /\ k \in 1..(n + 1)
  OBVIOUS
<1>2. Unlink(k) \in [1..n -> Events]
  BY <1>1 DEF Unlink
<1>3. Unlink(k) \in Seq(Events) /\ Len(Unlink(k)) = n /\ DOMAIN Unlink(k) = 1..n
  <2> HIDE DEF n
  <2>1. Unlink(k) \in Seq(Events)
    BY <1>1, <1>2, SeqDef
  <2>2. DOMAIN Unlink(k) = 1..n
    BY <1>2
  <2>3. Len(Unlink(k)) \in Nat /\ DOMAIN Unlink(k) = 1..Len(Unlink(k))
    BY <2>1, LenProperties
  <2> QED BY <1>1, <2>1, <2>2, <2>3
<1>4. \A i \in 1..n : Unlink(k)[i] = outgoingEvents[IF i < k THEN i ELSE i + 1]
  BY DEF Unlink
<1>5. ASSUME NEW x \in Listed \ {outgoingEvents[k]}
      PROVE  \E i \in 1..n : Unlink(k)[i] = x
  <2>1. PICK j \in 1..(n + 1) : outgoingEvents[j] = x /\ j # k
    BY <1>1 DEF Listed
  <2>2. CASE j < k
    BY <1>1, <1>4, <2>1, <2>2
  <2>3. CASE j > k
    <3>1. j - 1 \in 1..n /\ ~(j - 1 < k) /\ (j - 1) + 1 = j
      BY <1>1, <2>1, <2>3
    <3> QED BY <1>4, <2>1, <3>1
  <2> QED BY <1>1, <2>1, <2>2, <2>3
<1>6. ASSUME NEW i \in 1..n
      PROVE  Unlink(k)[i] \in Listed \ {outgoingEvents[k]}
  BY <1>1, <1>4 DEF Listed
<1>7. {Unlink(k)[i] : i \in DOMAIN Unlink(k)} = Listed \ {outgoingEvents[k]}
  <2>1. {Unlink(k)[i] : i \in 1..n} = Listed \ {outgoingEvents[k]}
    BY ONLY <1>5, <1>6
  <2> QED BY <1>3, <2>1
<1> QED BY <1>3, <1>4, <1>7

\* A confirmation gives an entry that had none its only result.
LEMMA ConfirmKeeps ==
  ASSUME TypeOK, ConfirmedOnce, confirming = None, None \notin Events,
         NEW e \in Events, NEW r \in Results,
         told[e] = <<>>, Confirm(e, r)
  PROVE  /\ told' \in [Events -> Seq(Results)]
         /\ confirming' = e
         /\ told'[e] # <<>> /\ Len(told'[e]) = 1
         /\ \A x \in Events \ {e} : told'[x] = told[x]
         /\ outgoingEvents' = outgoingEvents => ConfirmedOnce'
<1>1. told \in [Events -> Seq(Results)] /\ told' = [told EXCEPT ![e] = Append(@, r)]
  BY DEF TypeOK, Confirm
<1>2. Append(<<>>, r) \in Seq(Results) /\ Len(Append(<<>>, r)) = 1
  BY EmptySeq, AppendProperties
<1>3. told'[e] = Append(<<>>, r) /\ told' \in [Events -> Seq(Results)]
  BY <1>1, <1>2
<1>4. told'[e] # <<>>
  BY <1>2, <1>3, EmptySeq
<1>5. \A x \in Events \ {e} : told'[x] = told[x]
  BY <1>1
<1>6. confirming' = e
  BY DEF Confirm
<1>7. ASSUME outgoingEvents' = outgoingEvents PROVE ConfirmedOnce'
  <2>1. Listed' = Listed
    BY <1>7 DEF Listed
  <2>2. \A x \in Events : Len(told'[x]) <= 1
    <3>1. Len(told'[e]) <= 1
      BY <1>2, <1>3
    <3>2. ASSUME NEW x \in Events \ {e} PROVE Len(told'[x]) <= 1
      <4>1. told'[x] = told[x] /\ Len(told[x]) <= 1
        BY <1>5 DEF ConfirmedOnce
      <4> QED BY <4>1
    <3> QED BY <3>1, <3>2
  <2>3. \A x \in Events : told'[x] # <<>> => x = e
    BY <1>5 DEF ConfirmedOnce
  <2> QED BY <1>4, <1>6, <1>7, <2>1, <2>2, <2>3 DEF ConfirmedOnce
<1> QED BY <1>2, <1>3, <1>4, <1>5, <1>6, <1>7

\* The actions that change neither the list nor what uAMQP holds preserve
\* everything said about them, as they leave the loop where it stands, or
\* leave it, or return to it from messagesender_send_async.  They may call the
\* callback for errors or state changes.
LEMMA ListUntouched ==
  ASSUME IInv,
         UNCHANGED <<outgoingEvents, currentStatus, told, loopVars, held>>,
         UNCHANGED confirming \/ (confirming = None /\ confirming' = Report),
         held # {} => "message_sender" \in handles',
         \/ UNCHANGED pc
         \/ pc # "crashed" /\ current = None /\ pc' \notin {"sending", "send_async"}
         \/ pc = "send_async" /\ current = None /\ pc' = "sending"
  PROVE  /\ ConfirmedOnce' /\ HeldSafe' /\ CurrentSafe'
         /\ InFlightPrefix' /\ CursorInOrder' /\ NoOrphanedAck'
<1> USE DEF loopVars, Listed
<1>1. ConfirmedOnce' /\ InFlightPrefix'
  BY EventsAssumption DEF IInv, ConfirmedOnce, InFlightPrefix
<1>2. HeldSafe' /\ CurrentSafe' /\ NoOrphanedAck'
  BY DEF IInv, HeldSafe, CurrentSafe, NoOrphanedAck
<1>3. CursorInOrder'
  <2>1. \A i \in DOMAIN outgoingEvents : outgoingEvents[i] # None
    BY EventsAssumption DEF IInv, TypeOK
  <2> QED BY <2>1 DEF IInv, CursorInOrder
<1> QED BY <1>1, <1>2, <1>3

\* Only an initialized stack has a message sender.
LEMMA SenderOnlyWhenInitialized ==
  ASSUME UpState
  PROVE  "message_sender" \in handles <=> amqp_state = "INITIALIZED"
<1>1. "message_sender" \notin Common /\ "message_sender" \in Sender
  BY DEF Common, Sender
<1> QED BY <1>1 DEF UpState
-----------------------------------------------------------------------------
(* The actions that leave the list alone. *)

LEMMA SettersStep ==
  ASSUME IInv, SetMessageTimeout \/ RefreshSASTokenAsync
  PROVE  IInv'
<1> USE DEF SetMessageTimeout, RefreshSASTokenAsync, IInv
<1>1. /\ UNCHANGED <<listVars, loopVars, held, handles, pc>>
      /\ UNCHANGED <<amqp_state, message_sender_state>>
  BY DEF netVars
<1>2. TypeOK'
  <2>1. msg_timeout' \in BOOLEAN /\ ext_refresh_sas_token' \in BOOLEAN
    BY DEF TypeOK, authVars
  <2>2. UNCHANGED <<auth_status, auth_timeout, credential, destroying, error_reported>>
    BY DEF authVars
  <2> QED BY <1>1, <2>1, <2>2 DEF TypeOK, listVars, loopVars
<1>3. UpState' /\ WhereInDoWork'
  BY DEF UpState, WhereInDoWork, netVars, authVars, listVars, loopVars
<1>4. held # {} => "message_sender" \in handles'
  BY <1>1 DEF HeldSafe
<1> QED BY <1>1, <1>2, <1>3, <1>4, ListUntouched DEF listVars

LEMMA DestroyStep == ASSUME IInv, Destroy PROVE IInv'
<1> USE DEF Destroy, StartTeardown, IInv
<1>1. TypeOK' /\ UpState' /\ WhereInDoWork'
  BY DEF TypeOK, UpState, WhereInDoWork, authVars, loopVars
<1>2. /\ UNCHANGED <<outgoingEvents, currentStatus, told, loopVars, held, handles>>
      /\ UNCHANGED confirming \/ (confirming = None /\ confirming' = Report)
      /\ pc # "crashed" /\ current = None /\ pc' \notin {"sending", "send_async"}
      /\ held # {} => "message_sender" \in handles'
  BY DEF CurrentSafe, HeldSafe, WhereInDoWork
<1> QED BY <1>1, <1>2, ListUntouched

LEMMA DoWorkStep == ASSUME IInv, DoWork PROVE IInv'
<1> USE DEF DoWork, IInv
<1>1. /\ UNCHANGED <<listVars, loopVars, msg_timeout, destroying>>
      /\ pc = "idle" /\ current = None
  BY DEF CurrentSafe
<1> USE DEF listVars, loopVars
<1>2. CASE InitializeFails
  <2>1. held = {} /\ held' = {} /\ pc' = "idle"
    BY <1>1, <1>2, SenderOnlyWhenInitialized DEF InitializeFails, HeldSafe
  <2>2. TypeOK'
    BY <1>1, <1>2, <2>1 DEF InitializeFails, TypeOK
  <2>3. UpState' /\ WhereInDoWork'
    BY <1>1, <1>2, <2>1 DEF InitializeFails, UpState, WhereInDoWork
  <2> QED BY <1>1, <2>1, <2>2, <2>3, ListUntouched
<1>3. CASE initialize_uamqp_stack_common
  <2>1. held = {} /\ held' = {} /\ pc' = "sas_token_auth"
    BY <1>3 DEF initialize_uamqp_stack_common, WhereInDoWork
  <2>2. TypeOK'
    BY <1>1, <1>3 DEF initialize_uamqp_stack_common, TypeOK
  <2>3. UpState' /\ WhereInDoWork'
    BY <1>1, <1>3, <2>1 DEF initialize_uamqp_stack_common, UpState, WhereInDoWork
  <2> QED BY <1>1, <2>1, <2>2, <2>3, ListUntouched
<1>4. CASE initialize_uamqp_sender_stack
  <2>1. held = {} /\ held' = {} /\ pc' = "sas_token_auth"
    BY <1>4 DEF initialize_uamqp_sender_stack, WhereInDoWork
  <2>2. handles = Common /\ handles' = Common \cup Sender
    BY <1>4 DEF initialize_uamqp_sender_stack, UpState
  <2>3. TypeOK'
    BY <1>1, <1>4, <2>2 DEF initialize_uamqp_sender_stack, TypeOK, authVars
  <2>4. UpState' /\ WhereInDoWork'
    BY <1>1, <1>4, <2>1, <2>2
    DEF initialize_uamqp_sender_stack, UpState, WhereInDoWork, authVars
  <2> QED BY <1>1, <2>1, <2>3, <2>4, ListUntouched
<1>5. CASE AlreadyInitialized
  <2>1. /\ UNCHANGED <<amqp_state, handles, held, authVars, error_reported>>
        /\ pc' \in {"teardown", "sas_token_auth"}
        /\ message_sender_state' \in {message_sender_state, "CLOSING"}
    BY <1>5 DEF AlreadyInitialized, StartTeardown
  <2>2. message_sender_state' # message_sender_state => amqp_state = "INITIALIZED"
    BY <1>5 DEF AlreadyInitialized, StartTeardown
  <2>3. TypeOK'
    BY <1>1, <2>1 DEF TypeOK, authVars
  <2>4. UpState' /\ WhereInDoWork'
    BY <1>1, <1>5, <2>1, <2>2 DEF AlreadyInitialized, UpState, WhereInDoWork, authVars
  <2> QED BY <1>1, <2>1, <2>3, <2>4, ListUntouched DEF HeldSafe
<1> QED BY <1>2, <1>3, <1>4, <1>5

LEMMA AuthStep == ASSUME IInv, handle_sas_token_auth PROVE IInv'
<1> USE DEF handle_sas_token_auth, IInv
<1>1. /\ UNCHANGED <<handles, held, auth_timeout, credential, outgoingEvents,
                     currentStatus, told, loopVars, msg_timeout, destroying>>
      /\ pc = "sas_token_auth" /\ current = None /\ confirming = None
      /\ amqp_state # "UNINITIALIZED"
  BY DEF CurrentSafe, WhereInDoWork
<1>2. \/ AuthFails
      \/ /\ pc' \in {"connection_dowork", "open", "idle"}
         /\ UNCHANGED <<message_sender_state, confirming, error_reported>>
         /\ \/ UNCHANGED amqp_state
            \/ /\ amqp_state = "PENDING_AUTHORIZATION"
               /\ amqp_state' = "PENDING_SENDER_CREATE"
         /\ auth_status' \in {auth_status, "IN_PROGRESS", "OK"}
         /\ pc' = "open" => amqp_state = "INITIALIZED"
  BY <1>1 DEF PutToken, GoOn, TokenInstalled, GetStatus,
                   Authorization!MayReport
<1>3. ext_refresh_sas_token' \in {ext_refresh_sas_token, FALSE}
  BY <1>1
<1>4. CASE AuthFails
  <2>1. /\ UNCHANGED <<amqp_state, auth_status>>
        /\ error_reported' = TRUE /\ pc' = "teardown" /\ confirming' = Report
        /\ message_sender_state' \in {message_sender_state, "CLOSING"}
        /\ message_sender_state = "IDLE" => message_sender_state' = "IDLE"
    BY <1>4 DEF AuthFails, StartTeardown
  <2>2. TypeOK'
    <3>1. message_sender_state' \in {"IDLE", "OPENING", "OPEN", "CLOSING", "ERROR"}
      BY <2>1 DEF TypeOK
    <3>2. ext_refresh_sas_token' \in BOOLEAN
      BY <1>3 DEF TypeOK
    <3> QED BY <1>1, <2>1, <3>1, <3>2 DEF TypeOK, loopVars
  <2>3. UpState' /\ WhereInDoWork'
    BY <1>1, <1>3, <2>1 DEF UpState, WhereInDoWork
  <2> QED BY <1>1, <2>1, <2>2, <2>3, ListUntouched DEF HeldSafe
<1>5. CASE ~AuthFails
  <2>1. TypeOK'
    <3>1. auth_status' \in {"NONE", "IDLE", "IN_PROGRESS", "OK", "FAILURE"}
      BY <1>2, <1>5 DEF TypeOK
    <3>2. ext_refresh_sas_token' \in BOOLEAN
      BY <1>3 DEF TypeOK
    <3>3. amqp_state' \in {"UNINITIALIZED", "PENDING_AUTHORIZATION",
                           "PENDING_SENDER_CREATE", "INITIALIZED"}
      BY <1>2, <1>5 DEF TypeOK
    <3> QED BY <1>1, <1>2, <1>5, <3>1, <3>2, <3>3 DEF TypeOK, loopVars
  <2>2. UpState' /\ WhereInDoWork'
    BY <1>1, <1>2, <1>3, <1>5 DEF UpState, WhereInDoWork
  <2> QED BY <1>1, <1>2, <1>5, <2>1, <2>2, ListUntouched DEF HeldSafe
<1> QED BY <1>4, <1>5

LEMMA ReturnsStep ==
  ASSUME IInv, SendAsyncReturns \/ EndOfList \/ ConnectionDoworkReturns
                 \/ DestroyReturns \/ Ended
  PROVE  IInv'
<1> USE DEF SendAsyncReturns, EndOfList, ConnectionDoworkReturns, DestroyReturns,
            Ended, IInv
<1>1. UNCHANGED <<netVars, authVars, listVars, loopVars, msg_timeout, destroying,
                  error_reported>>
  BY DEF vars
<1>2. TypeOK' /\ UpState' /\ WhereInDoWork'
  BY <1>1 DEF TypeOK, UpState, WhereInDoWork, netVars, authVars, listVars, loopVars,
              vars
<1>3. \/ UNCHANGED pc
      \/ pc # "crashed" /\ current = None /\ pc' \notin {"sending", "send_async"}
      \/ pc = "send_async" /\ current = None /\ pc' = "sending"
  BY DEF CurrentSafe, vars
<1> QED BY <1>1, <1>2, <1>3, ListUntouched DEF netVars, listVars, HeldSafe

LEMMA CallbacksOfUamqpStep ==
  ASSUME IInv,
         \/ \E new \in {"IDLE", "OPEN", "ERROR"} : on_message_sender_state_changed(new)
         \/ \E status \in {"OK", "FAILURE"} : PutTokenCompletes(status)
  PROVE  IInv'
<1> USE DEF on_message_sender_state_changed, PutTokenCompletes, IInv
<1>1. /\ UNCHANGED <<outgoingEvents, currentStatus, told, loopVars, held, handles, pc,
                     amqp_state>>
      /\ UNCHANGED <<ext_refresh_sas_token, msg_timeout, auth_timeout, credential, destroying>>
      /\ confirming = None /\ confirming' \in {None, Report}
      /\ pc \in {"send_async", "connection_dowork"}
  BY DEF netVars, authVars, listVars, InUamqp
<1>2. /\ message_sender_state' \in {message_sender_state, "IDLE", "OPEN", "ERROR"}
      /\ auth_status' \in {auth_status, "OK", "FAILURE"}
      /\ error_reported' \in {error_reported, TRUE}
      /\ message_sender_state' = message_sender_state \/ amqp_state = "INITIALIZED"
  BY SenderOnlyWhenInitialized DEF netVars, authVars, TypeOK
<1>3. TypeOK'
  <2>1. message_sender_state' \in {"IDLE", "OPENING", "OPEN", "CLOSING", "ERROR"}
    BY <1>2 DEF TypeOK
  <2>2. auth_status' \in {"NONE", "IDLE", "IN_PROGRESS", "OK", "FAILURE"}
    BY <1>2 DEF TypeOK
  <2>3. error_reported' \in BOOLEAN
    BY <1>2 DEF TypeOK
  <2> QED BY <1>1, <2>1, <2>2, <2>3 DEF TypeOK, loopVars
<1>4. UpState' /\ WhereInDoWork'
  BY <1>1, <1>2 DEF UpState, WhereInDoWork, loopVars
<1> QED BY <1>1, <1>3, <1>4, ListUntouched DEF HeldSafe

LEMMA StackDownStep == ASSUME IInv, destroy_uamqp_stack PROVE IInv'
<1> USE DEF destroy_uamqp_stack, IInv
<1>1. /\ UNCHANGED <<held, auth_timeout, credential, listVars, loopVars, msg_timeout, destroying,
                     error_reported>>
      /\ held = {} /\ current = None
      /\ pc = "teardown" /\ pc' \in {"draining", "idle"}
  BY DEF CurrentSafe
<1>2. TypeOK'
  BY <1>1 DEF TypeOK, listVars, loopVars
<1>3. UpState' /\ WhereInDoWork'
  BY <1>1 DEF UpState, WhereInDoWork, listVars, loopVars
<1> QED BY <1>1, <1>2, <1>3, ListUntouched DEF listVars
-----------------------------------------------------------------------------
(* The send loop. *)

LEMMA OpenStep == ASSUME IInv, OpenMessageSender PROVE IInv'
<1> USE DEF OpenMessageSender, IInv
<1>1. /\ UNCHANGED <<amqp_state, handles, held, authVars, listVars, current,
                     msg_timeout, destroying>>
      /\ pc = "open" /\ pc' \in {"sending", "idle"} /\ current = None
      /\ message_sender_state' \in {message_sender_state, "OPENING", "ERROR"}
      /\ error_reported' \in {error_reported, TRUE}
      /\ next_list_entry' = IF pc' = "sending" THEN FirstEntry ELSE None
  BY DEF CurrentSafe
<1>2. confirming = None /\ amqp_state = "INITIALIZED"
  BY <1>1 DEF WhereInDoWork
<1>3. FirstEntry # None => /\ outgoingEvents # <<>>
                           /\ 1 \in DOMAIN outgoingEvents
                           /\ FirstEntry = outgoingEvents[1]
                           /\ FirstEntry \in Listed /\ FirstEntry \in Events
  BY EmptySeq DEF FirstEntry, Listed, TypeOK
<1>4. TypeOK'
  <2>1. next_list_entry' \in Events \cup {None}
    BY <1>1, <1>3
  <2>2. message_sender_state' \in {"IDLE", "OPENING", "OPEN", "CLOSING", "ERROR"}
    BY <1>1 DEF TypeOK
  <2>3. error_reported' \in BOOLEAN
    BY <1>1 DEF TypeOK
  <2> QED BY <1>1, <2>1, <2>2, <2>3 DEF TypeOK, listVars, authVars
<1>5. UpState' /\ WhereInDoWork'
  BY <1>1, <1>2 DEF UpState, WhereInDoWork, listVars, authVars
<1>6. Listed' = Listed
  BY <1>1 DEF Listed, listVars
<1>7. ConfirmedOnce' /\ InFlightPrefix' /\ NoOrphanedAck'
  BY <1>1, <1>6 DEF ConfirmedOnce, InFlightPrefix, NoOrphanedAck, listVars
<1>8. HeldSafe' /\ CurrentSafe'
  BY <1>1, <1>6 DEF HeldSafe, CurrentSafe, listVars
<1>9. CursorInOrder'
  <2>1. CASE pc' # "sending" \/ FirstEntry = None
    BY <1>1, <2>1 DEF CursorInOrder
  <2>2. CASE pc' = "sending" /\ FirstEntry # None
    <3>1. told[FirstEntry] = <<>>
      BY <1>2, <1>3, <2>2, EventsAssumption DEF ConfirmedOnce
    <3>2. \A j \in DOMAIN outgoingEvents : outgoingEvents[j] = FirstEntry => j = 1
      BY <1>3, <2>2 DEF ConfirmedOnce
    <3>3. \A i \in DOMAIN outgoingEvents : ~(i < 1)
      BY DEF TypeOK
    <3> QED BY <1>1, <1>3, <1>6, <2>2, <3>1, <3>2, <3>3 DEF CursorInOrder, listVars
  <2> QED BY <2>1, <2>2
<1> QED BY <1>4, <1>5, <1>7, <1>8, <1>9

\* What a step of the loop that visits the i-th entry knows.
LEMMA VisitsEntry ==
  ASSUME IInv, NEW i \in DOMAIN outgoingEvents, Visits(i)
  PROVE  /\ outgoingEvents[i] \in Listed /\ outgoingEvents[i] \in Events
         /\ told[outgoingEvents[i]] = <<>>
         /\ next_list_entry' # None =>
              /\ i + 1 \in DOMAIN outgoingEvents
              /\ next_list_entry' = outgoingEvents[i + 1]
              /\ next_list_entry' \in Listed
              /\ next_list_entry' # outgoingEvents[i]
              /\ told[next_list_entry'] = <<>>
         /\ next_list_entry' \in Events \cup {None}
         /\ \A k \in DOMAIN outgoingEvents :
              k < i => currentStatus[outgoingEvents[k]] = "WAITING_FOR_ACK"
         /\ \A k, j \in DOMAIN outgoingEvents :
              k < j /\ next_list_entry' # None /\ outgoingEvents[j] = next_list_entry' =>
                currentStatus[outgoingEvents[k]] = "WAITING_FOR_ACK" \/ k = i
<1> USE DEF IInv, Visits
<1>1. /\ outgoingEvents \in [1..Len(outgoingEvents) -> Events]
      /\ Len(outgoingEvents) \in Nat
      /\ i \in 1..Len(outgoingEvents)
  BY LenProperties DEF TypeOK
<1>2. /\ outgoingEvents[i] \in Listed /\ outgoingEvents[i] \in Events
      /\ outgoingEvents[i] # None
  BY <1>1, EventsAssumption DEF Listed
<1>3. told[outgoingEvents[i]] = <<>>
  BY <1>2 DEF CursorInOrder
<1>4. ASSUME next_list_entry' # None
      PROVE  /\ i + 1 \in DOMAIN outgoingEvents
             /\ next_list_entry' = outgoingEvents[i + 1]
             /\ next_list_entry' \in Listed
  BY <1>1, <1>4 DEF EntryAfter, Listed
<1>5. ASSUME next_list_entry' # None
      PROVE  /\ next_list_entry' # outgoingEvents[i]
             /\ told[next_list_entry'] = <<>>
             /\ next_list_entry' \in Events
  <2>1. i # i + 1
    BY <1>1
  <2>2. next_list_entry' # outgoingEvents[i]
    BY <1>4, <1>5, <2>1 DEF ConfirmedOnce
  <2>3. next_list_entry' \in Events
    BY <1>1, <1>4, <1>5
  <2> QED BY <1>4, <1>5, <2>2, <2>3, EventsAssumption DEF ConfirmedOnce
<1>6. ASSUME NEW k \in DOMAIN outgoingEvents, k < i
      PROVE  currentStatus[outgoingEvents[k]] = "WAITING_FOR_ACK"
  <2>1. outgoingEvents[k] # confirming
    BY <1>1, EventsAssumption
  <2> QED BY <1>2, <1>6, <2>1 DEF CursorInOrder
<1>7. ASSUME NEW k \in DOMAIN outgoingEvents, NEW j \in DOMAIN outgoingEvents,
             k < j, next_list_entry' # None, outgoingEvents[j] = next_list_entry'
      PROVE  currentStatus[outgoingEvents[k]] = "WAITING_FOR_ACK" \/ k = i
  <2>1. j = i + 1
    BY <1>4, <1>7 DEF ConfirmedOnce
  <2>2. k < i \/ k = i
    BY <1>1, <1>7, <2>1
  <2> QED BY <1>6, <2>2
<1> QED BY <1>2, <1>3, <1>4, <1>5, <1>6, <1>7

LEMMA SkipStep ==
  ASSUME IInv, NEW i \in DOMAIN outgoingEvents, SkipEntry(i)
  PROVE  IInv'
<1> USE DEF SkipEntry, IInv
<1>1. /\ Visits(i)
      /\ UNCHANGED <<netVars, authVars, listVars, current, msg_timeout, pc,
                     destroying, error_reported>>
      /\ pc = "sending"
  BY DEF Visits
<1> HIDE DEF SkipEntry
<1> USE DEF netVars, authVars, listVars
<1>2. TypeOK'
  BY <1>1, VisitsEntry DEF TypeOK
<1>3. UpState' /\ WhereInDoWork'
  BY <1>1 DEF UpState, WhereInDoWork
<1>4. Listed' = Listed
  BY <1>1 DEF Listed
<1>5. ConfirmedOnce' /\ HeldSafe' /\ CurrentSafe' /\ InFlightPrefix' /\ NoOrphanedAck'
  BY <1>1, <1>4 DEF ConfirmedOnce, HeldSafe, CurrentSafe, InFlightPrefix, NoOrphanedAck
<1>6. CursorInOrder'
  <2>1. currentStatus[outgoingEvents[i]] = "WAITING_FOR_ACK"
    BY DEF SkipEntry
  <2> QED BY <1>1, <1>4, <2>1, VisitsEntry DEF CursorInOrder
<1> QED BY <1>2, <1>3, <1>5, <1>6

LEMMA SendStep ==
  ASSUME IInv, NEW i \in DOMAIN outgoingEvents, CallSendAsync(i)
  PROVE  IInv'
<1> USE DEF IInv
<1> DEFINE e == outgoingEvents[i]
<1>1. /\ Visits(i) /\ pc = "sending" /\ pc' = "send_async" /\ confirming = None
      /\ currentStatus[e] = "WAITING_TO_BE_SENT"
      /\ currentStatus' = [currentStatus EXCEPT ![e] = "WAITING_FOR_ACK"]
      /\ current = None /\ current' = e
      /\ UNCHANGED <<netVars, authVars, outgoingEvents, told, confirming,
                     msg_timeout, destroying, error_reported>>
  BY DEF CallSendAsync, Visits, CurrentSafe
<1> USE DEF netVars, authVars
<1>2. /\ e \in Listed /\ e \in Events /\ told[e] = <<>>
      /\ Listed' = Listed
  BY <1>1, VisitsEntry DEF Listed
<1>3. /\ currentStatus' \in [Events -> {"WAITING_TO_BE_SENT", "WAITING_FOR_ACK"}]
      /\ currentStatus'[e] = "WAITING_FOR_ACK"
      /\ \A x \in Events \ {e} : currentStatus'[x] = currentStatus[x]
  BY <1>1, <1>2 DEF TypeOK
<1> HIDE DEF e
<1>4. TypeOK'
  BY <1>1, <1>2, <1>3, VisitsEntry DEF TypeOK
<1>5. UpState' /\ WhereInDoWork'
  BY <1>1 DEF UpState, WhereInDoWork
<1>6. ConfirmedOnce'
  BY <1>1, <1>2 DEF ConfirmedOnce
<1>7. HeldSafe' /\ CurrentSafe'
  BY <1>1, <1>2, <1>3 DEF HeldSafe, CurrentSafe, TypeOK
<1>8. NoOrphanedAck'
  <2>1. \A x \in Listed : x \in Events
    BY DEF TypeOK, Listed
  <2>2. \A x \in Listed \ {e} : /\ currentStatus'[x] = currentStatus[x]
                                /\ x # current
    BY <1>1, <1>3, <2>1, EventsAssumption
  <2> QED BY <1>1, <1>2, <2>2 DEF NoOrphanedAck
<1>9. InFlightPrefix'
  <2> SUFFICES ASSUME NEW k \in DOMAIN outgoingEvents, NEW j \in DOMAIN outgoingEvents,
                      k < j, currentStatus'[outgoingEvents[j]] = "WAITING_FOR_ACK"
               PROVE  currentStatus'[outgoingEvents[k]] = "WAITING_FOR_ACK"
    BY <1>1 DEF InFlightPrefix
  <2>1. outgoingEvents[k] \in Events /\ outgoingEvents[j] \in Events
    BY DEF TypeOK
  <2>2. CASE j = i
    BY <1>1, <1>3, <2>1, <2>2, VisitsEntry
  <2>3. CASE j # i
    BY <1>1, <1>3, <2>1, <2>3 DEF InFlightPrefix, ConfirmedOnce, e
  <2> QED BY <2>2, <2>3
<1>10. CursorInOrder'
  <2> SUFFICES ASSUME next_list_entry' # None
               PROVE  CursorInOrder'
    BY DEF CursorInOrder
  <2>1. currentStatus'[next_list_entry'] = "WAITING_TO_BE_SENT"
    <3>1. /\ i + 1 \in DOMAIN outgoingEvents /\ i < i + 1
          /\ next_list_entry' = outgoingEvents[i + 1]
          /\ next_list_entry' # e /\ next_list_entry' \in Events
      BY <1>1, VisitsEntry, EventsAssumption DEF TypeOK, e
    <3>2. currentStatus[next_list_entry'] # "WAITING_FOR_ACK"
      BY <1>1, <3>1 DEF InFlightPrefix, e
    <3> QED BY <1>3, <3>1, <3>2 DEF TypeOK
  <2>2. \A k, j \in DOMAIN outgoingEvents :
           k < j /\ outgoingEvents[j] = next_list_entry' =>
             currentStatus'[outgoingEvents[k]] = "WAITING_FOR_ACK"
    BY <1>1, <1>3, VisitsEntry DEF TypeOK, e
  <2> QED BY <1>1, <1>2, <2>1, <2>2, VisitsEntry DEF CursorInOrder
<1> QED BY <1>4, <1>5, <1>6, <1>7, <1>8, <1>9, <1>10

\* The two paths on which the loop confirms the entry it visits; mark is what
\* they leave in its currentStatus.
LEMMA LoopConfirms ==
  ASSUME IInv, NEW i \in DOMAIN outgoingEvents, NEW r \in Results,
         NEW mark \in {"WAITING_TO_BE_SENT", "WAITING_FOR_ACK"},
         Visits(i),
         outgoingEvents[i] \notin NullCallback,
         Confirm(outgoingEvents[i], r),
         currentStatus' = [currentStatus EXCEPT ![outgoingEvents[i]] = mark],
         currentStatus[outgoingEvents[i]] = "WAITING_TO_BE_SENT",
         UNCHANGED <<netVars, authVars, outgoingEvents, current, msg_timeout, pc,
                     destroying, error_reported>>
  PROVE  IInv'
<1>0. /\ outgoingEvents[i] \in Listed /\ outgoingEvents[i] \in Events
      /\ told[outgoingEvents[i]] = <<>>
      /\ next_list_entry' \in Events \cup {None}
      /\ next_list_entry' # None => /\ next_list_entry' \in Listed
                                   /\ next_list_entry' # outgoingEvents[i]
                                   /\ told[next_list_entry'] = <<>>
      /\ \A k \in DOMAIN outgoingEvents :
           k < i => currentStatus[outgoingEvents[k]] = "WAITING_FOR_ACK"
      /\ \A k, j \in DOMAIN outgoingEvents :
           k < j /\ next_list_entry' # None /\ outgoingEvents[j] = next_list_entry' =>
             currentStatus[outgoingEvents[k]] = "WAITING_FOR_ACK" \/ k = i
  BY VisitsEntry
<1> USE DEF IInv, netVars, authVars
<1> DEFINE e == outgoingEvents[i]
<1>1. pc = "sending" /\ confirming = None /\ current = None
  BY DEF Visits, CurrentSafe
<1>2. /\ e \in Listed /\ e \in Events /\ told[e] = <<>>
      /\ Listed' = Listed /\ e # None
      /\ \A x \in Listed : x \in Events
  BY <1>0, EventsAssumption DEF Listed, TypeOK
<1>3. /\ currentStatus' \in [Events -> {"WAITING_TO_BE_SENT", "WAITING_FOR_ACK"}]
      /\ \A x \in Events \ {e} : currentStatus'[x] = currentStatus[x]
  BY <1>2 DEF TypeOK
<1>4. /\ told' \in [Events -> Seq(Results)]
      /\ confirming' = e /\ told'[e] # <<>>
      /\ \A x \in Events \ {e} : told'[x] = told[x]
      /\ ConfirmedOnce'
  BY <1>1, <1>2, ConfirmKeeps, EventsAssumption
<1>5. TypeOK'
  <2>1. confirming' \in Events \cup {None} /\ next_list_entry' \in Events \cup {None}
    BY <1>0, <1>2, <1>4
  <2>2. /\ told' \in [Events -> Seq(Results)]
        /\ currentStatus' \in [Events -> {"WAITING_TO_BE_SENT", "WAITING_FOR_ACK"}]
    BY <1>3, <1>4
  <2>3. (/\ amqp_state \in {"UNINITIALIZED", "PENDING_AUTHORIZATION",
                             "PENDING_SENDER_CREATE", "INITIALIZED"}
         /\ handles \in {{}, Common, Common \cup Sender}
         /\ message_sender_state \in {"IDLE", "OPENING", "OPEN", "CLOSING", "ERROR"}
         /\ held \subseteq Events
         /\ auth_status \in {"NONE", "IDLE", "IN_PROGRESS", "OK", "FAILURE"}
         /\ credential \in {"AUTO", "EXT"})'
    BY DEF TypeOK
  <2>4. /\ auth_timeout' \in BOOLEAN /\ msg_timeout' \in BOOLEAN
        /\ ext_refresh_sas_token' \in BOOLEAN /\ destroying' \in BOOLEAN
        /\ error_reported' \in BOOLEAN
    BY DEF TypeOK
  <2>5. outgoingEvents' \in Seq(Events) /\ pc' = "sending" /\ current' = None
    BY <1>1 DEF TypeOK
  <2> QED BY ONLY <2>1, <2>2, <2>3, <2>4, <2>5 DEF TypeOK
<1>6. UpState' /\ WhereInDoWork'
  BY <1>1, <1>4 DEF UpState, WhereInDoWork
<1>7. HeldSafe' /\ CurrentSafe' /\ NoOrphanedAck'
  <2>1. \A x \in held : x # e
    BY <1>2 DEF HeldSafe
  <2> HIDE DEF e
  <2>2. HeldSafe'
    BY <1>1, <1>2, <1>3, <1>4, <2>1 DEF HeldSafe
  <2>3. CurrentSafe'
    BY <1>1 DEF CurrentSafe
  <2>4. NoOrphanedAck'
    BY <1>1, <1>2, <1>3, <1>4 DEF NoOrphanedAck
  <2> QED BY <2>2, <2>3, <2>4
<1>8. InFlightPrefix'
  <2> SUFFICES ASSUME NEW k \in DOMAIN outgoingEvents, NEW j \in DOMAIN outgoingEvents,
                      k < j, currentStatus'[outgoingEvents[j]] = "WAITING_FOR_ACK"
               PROVE  currentStatus'[outgoingEvents[k]] = "WAITING_FOR_ACK"
    BY DEF InFlightPrefix
  <2>1. outgoingEvents[k] \in Events /\ outgoingEvents[j] \in Events /\ k # j
    BY DEF TypeOK
  <2>2. CASE j = i
    BY <1>3, <2>1, <2>2, <1>0 DEF ConfirmedOnce
  <2>3. CASE j # i
    BY <1>3, <2>1, <2>3 DEF InFlightPrefix, ConfirmedOnce
  <2> QED BY <2>2, <2>3
<1>9. CursorInOrder'
  <2> SUFFICES ASSUME next_list_entry' # None
               PROVE  CursorInOrder'
    BY DEF CursorInOrder
  <2>1. told'[next_list_entry'] = <<>>
    BY <1>4, <1>0
  <2>2. ASSUME NEW k \in DOMAIN outgoingEvents, NEW j \in DOMAIN outgoingEvents,
               k < j, outgoingEvents[j] = next_list_entry'
        PROVE  \/ currentStatus'[outgoingEvents[k]] = "WAITING_FOR_ACK"
               \/ outgoingEvents[k] = confirming'
    <3>1. currentStatus[outgoingEvents[k]] = "WAITING_FOR_ACK" \/ k = i
      BY <1>0, <2>2
    <3>2. CASE outgoingEvents[k] = e
      BY <1>4, <3>2
    <3>3. CASE outgoingEvents[k] # e
      <4>1. outgoingEvents[k] \in Events
        BY <1>2 DEF Listed
      <4>2. currentStatus'[outgoingEvents[k]] = currentStatus[outgoingEvents[k]]
        BY <1>3, <3>3, <4>1
      <4> QED BY <3>1, <3>3, <4>2
    <3> QED BY <3>2, <3>3
  <2> QED BY <1>1, <1>2, <2>1, <2>2, <1>0 DEF CursorInOrder
<1> QED BY <1>5, <1>6, <1>4, <1>7, <1>8, <1>9

\* A NULL callback ends the process: nothing is claimed of the list after.
LEMMA CrashKeeps ==
  ASSUME IInv, pc \in {"sending", "send_async"}, pc' = "crashed",
         UNCHANGED <<netVars, authVars, outgoingEvents, told, confirming, msg_timeout,
                     destroying, error_reported>>,
         confirming = None,
         currentStatus' \in [Events -> {"WAITING_TO_BE_SENT", "WAITING_FOR_ACK"}],
         next_list_entry' \in Events \cup {None},
         current' = None,
         HeldSafe', InFlightPrefix'
  PROVE  IInv'
<1> USE DEF IInv, netVars, authVars
<1>1. Listed' = Listed
  BY DEF Listed
<1>2. TypeOK'
  BY DEF TypeOK
<1>3. UpState' /\ WhereInDoWork'
  BY DEF UpState, WhereInDoWork
<1>4. ConfirmedOnce' /\ CurrentSafe' /\ CursorInOrder' /\ NoOrphanedAck'
  BY <1>1 DEF ConfirmedOnce, CurrentSafe, CursorInOrder, NoOrphanedAck
<1> QED BY <1>2, <1>3, <1>4

LEMMA CreateFailsStep ==
  ASSUME IInv, NEW i \in DOMAIN outgoingEvents, CreateMessageFails(i)
  PROVE  IInv'
<1> USE DEF CreateMessageFails, ConfirmUnchecked
<1>1. CASE outgoingEvents[i] \notin NullCallback
  <2>1. currentStatus' = [currentStatus EXCEPT ![outgoingEvents[i]] = "WAITING_TO_BE_SENT"]
    BY <1>1, VisitsEntry DEF IInv, TypeOK
  <2> QED BY <1>1, <2>1, LoopConfirms DEF Results
<1>2. CASE outgoingEvents[i] \in NullCallback
  <2>1. /\ pc = "sending" /\ pc' = "crashed" /\ confirming = None
        /\ UNCHANGED <<listVars, held, current, handles>> /\ current = None
    BY <1>2 DEF Visits, IInv, CurrentSafe, listVars, netVars
  <2>2. HeldSafe' /\ InFlightPrefix'
    BY <2>1 DEF IInv, HeldSafe, InFlightPrefix, Listed, listVars
  <2> QED BY <1>2, <2>1, <2>2, VisitsEntry, CrashKeeps DEF IInv, TypeOK, listVars
<1> QED BY <1>1, <1>2

LEMMA TimesOutStep ==
  ASSUME IInv, NEW i \in DOMAIN outgoingEvents, EventTimesOut(i)
  PROVE  IInv'
<1> USE DEF EventTimesOut, ConfirmUnchecked
<1>1. CASE outgoingEvents[i] \notin NullCallback
  BY <1>1, LoopConfirms DEF Results
<1>2. CASE outgoingEvents[i] \in NullCallback
  <2> DEFINE e == outgoingEvents[i]
  <2>1. /\ pc = "sending" /\ pc' = "crashed" /\ confirming = None
        /\ UNCHANGED <<outgoingEvents, told, confirming, held, current, handles>>
        /\ current = None
    BY <1>2 DEF Visits, IInv, CurrentSafe, netVars
  <2>2. e \in Events
    BY VisitsEntry
  <2>3. /\ currentStatus' \in [Events -> {"WAITING_TO_BE_SENT", "WAITING_FOR_ACK"}]
        /\ currentStatus'[e] = "WAITING_FOR_ACK"
        /\ \A x \in Events \ {e} : currentStatus'[x] = currentStatus[x]
    BY <2>2 DEF IInv, TypeOK
  <2>4. HeldSafe'
    BY <2>1, <2>3 DEF IInv, TypeOK, HeldSafe, Listed
  <2>5. InFlightPrefix'
    <3> SUFFICES ASSUME NEW k \in DOMAIN outgoingEvents,
                        NEW j \in DOMAIN outgoingEvents,
                        k < j, currentStatus'[outgoingEvents[j]] = "WAITING_FOR_ACK"
                 PROVE  currentStatus'[outgoingEvents[k]] = "WAITING_FOR_ACK"
      BY <2>1 DEF InFlightPrefix
    <3>1. outgoingEvents[k] \in Events /\ outgoingEvents[j] \in Events
      BY DEF IInv, TypeOK
    <3>2. CASE outgoingEvents[j] = e
      BY <2>3, <3>1, <3>2, VisitsEntry DEF IInv, ConfirmedOnce
    <3>3. CASE outgoingEvents[j] # e
      BY <2>3, <3>1, <3>3 DEF IInv, InFlightPrefix
    <3> QED BY <3>2, <3>3
  <2> QED BY <1>2, <2>1, <2>3, <2>4, <2>5, VisitsEntry, CrashKeeps
<1> QED BY <1>1, <1>2

LEMMA TakesStep == ASSUME IInv, SendAsyncTakes PROVE IInv'
<1> USE DEF SendAsyncTakes, IInv, listVars, authVars
<1>1. TypeOK' /\ UpState' /\ WhereInDoWork'
  BY DEF TypeOK, UpState, WhereInDoWork
<1>2. Listed' = Listed
  BY DEF Listed
<1>3. "message_sender" \in handles'
  BY SenderOnlyWhenInitialized DEF WhereInDoWork
<1>4. HeldSafe'
  BY <1>2, <1>3, EventsAssumption DEF HeldSafe, CurrentSafe, TypeOK
<1>5. CurrentSafe' /\ NoOrphanedAck'
  BY <1>2 DEF CurrentSafe, NoOrphanedAck
<1>6. ConfirmedOnce' /\ InFlightPrefix' /\ CursorInOrder'
  BY <1>2 DEF ConfirmedOnce, InFlightPrefix, CursorInOrder
<1> QED BY <1>1, <1>4, <1>5, <1>6

LEMMA ReturnsNullStep == ASSUME IInv, SendAsyncReturnsNull PROVE IInv'
<1> USE DEF SendAsyncReturnsNull, ConfirmUnchecked, IInv, netVars, authVars
<1>1. /\ pc = "send_async" /\ confirming = None /\ current # None
      /\ current \in Listed /\ current \in Events /\ told[current] = <<>>
      /\ UNCHANGED <<netVars, authVars, outgoingEvents, currentStatus,
                     next_list_entry, msg_timeout, destroying, error_reported>>
      /\ current' = None
      /\ Listed' = Listed
  BY DEF CurrentSafe, TypeOK, Listed
<1>2. CASE current \in NullCallback
  <2>1. pc' = "crashed" /\ UNCHANGED <<told, confirming>>
    BY <1>2
  <2>2. HeldSafe' /\ InFlightPrefix'
    BY <1>1, <2>1, EventsAssumption DEF HeldSafe, InFlightPrefix, TypeOK
  <2> QED BY <1>1, <2>1, <2>2, CrashKeeps DEF TypeOK
<1>3. CASE current \notin NullCallback
  <2>1. Confirm(current, "ERROR") /\ pc' = "sending"
    BY <1>3
  <2>2. /\ told' \in [Events -> Seq(Results)]
        /\ confirming' = current /\ told'[current] # <<>>
        /\ \A x \in Events \ {current} : told'[x] = told[x]
        /\ ConfirmedOnce'
    BY <1>1, <2>1, ConfirmKeeps, EventsAssumption DEF Results
  <2>3. TypeOK'
    BY <1>1, <2>1, <2>2 DEF TypeOK
  <2>4. UpState' /\ WhereInDoWork'
    BY <1>1, <2>1, <2>2 DEF UpState, WhereInDoWork
  <2>5. HeldSafe' /\ CurrentSafe'
    BY <1>1, <2>2, EventsAssumption DEF HeldSafe, CurrentSafe, TypeOK
  <2>6. NoOrphanedAck'
    <3>1. \A x \in Listed \ {current} : x \in Events /\ told'[x] = told[x]
      BY <2>2 DEF Listed, TypeOK
    <3> QED BY <1>1, <2>2, <3>1 DEF NoOrphanedAck
  <2>7. InFlightPrefix'
    BY <1>1 DEF InFlightPrefix
  <2>8. CursorInOrder'
    <3> SUFFICES ASSUME next_list_entry # None PROVE CursorInOrder'
      BY <1>1 DEF CursorInOrder
    <3>1. next_list_entry \in Events /\ next_list_entry # current
      BY <1>1 DEF CursorInOrder, CurrentSafe, TypeOK
    <3>2. told'[next_list_entry] = <<>>
      BY <1>1, <2>2, <3>1 DEF CursorInOrder
    <3>3. \A i \in DOMAIN outgoingEvents : outgoingEvents[i] # None
      BY EventsAssumption DEF TypeOK
    <3> QED BY <1>1, <2>1, <3>2, <3>3 DEF CursorInOrder
  <2> QED BY <2>2, <2>3, <2>4, <2>5, <2>6, <2>7, <2>8
<1> QED BY <1>2, <1>3
-----------------------------------------------------------------------------
(* Completions, and the removal that follows each confirmation. *)

\* uAMQP completes an entry it holds, in any of the calls that let it.
LEMMA CompletionStep ==
  ASSUME IInv, NEW e \in held, NEW r \in Results,
         pc \in {"send_async", "connection_dowork", "teardown"}, confirming = None,
         held' = held \ {e}, Confirm(e, r),
         UNCHANGED <<amqp_state, handles, message_sender_state, authVars,
                     outgoingEvents, currentStatus, loopVars, msg_timeout, pc,
                     destroying, error_reported>>
  PROVE  IInv'
<1> USE DEF IInv, authVars, loopVars
<1>1. /\ e \in Events /\ e \in Listed /\ told[e] = <<>> /\ e # current
      /\ currentStatus[e] = "WAITING_FOR_ACK"
      /\ Listed' = Listed
  BY DEF HeldSafe, TypeOK, Listed
<1>2. /\ told' \in [Events -> Seq(Results)]
      /\ confirming' = e /\ told'[e] # <<>>
      /\ \A x \in Events \ {e} : told'[x] = told[x]
      /\ ConfirmedOnce'
  BY <1>1, ConfirmKeeps, EventsAssumption
<1>3. TypeOK' /\ UpState'
  BY <1>1, <1>2 DEF TypeOK, UpState
<1>4. WhereInDoWork'
  BY <1>1, <1>2 DEF WhereInDoWork
<1>5. \A x \in Listed : x \in Events
  BY DEF Listed, TypeOK
<1>6. HeldSafe' /\ CurrentSafe' /\ NoOrphanedAck'
  BY <1>1, <1>2, <1>5 DEF HeldSafe, CurrentSafe, NoOrphanedAck, TypeOK
<1>7. InFlightPrefix'
  BY DEF InFlightPrefix
<1>8. CursorInOrder'
  <2> SUFFICES ASSUME pc = "send_async", next_list_entry # None
               PROVE  CursorInOrder'
    BY DEF CursorInOrder
  <2>1. next_list_entry \in Listed /\ next_list_entry # e
    BY <1>1 DEF CursorInOrder
  <2>2. told'[next_list_entry] = <<>>
    BY <1>2, <1>5, <2>1 DEF CursorInOrder
  <2>3. \A i \in DOMAIN outgoingEvents : outgoingEvents[i] # None
    BY EventsAssumption DEF TypeOK
  <2> QED BY <1>1, <2>1, <2>2, <2>3 DEF CursorInOrder
<1> QED BY <1>2, <1>3, <1>4, <1>6, <1>7, <1>8

LEMMA SendCompletesStep ==
  ASSUME IInv, NEW e \in Events, NEW r \in {"OK", "ERROR"},
         on_message_send_complete(e, r)
  PROVE  IInv'
  BY CompletionStep DEF on_message_send_complete, InUamqp, Results

LEMMA TeardownCompletesStep ==
  ASSUME IInv, NEW e \in Events, TeardownCompletes(e)
  PROVE  IInv'
  BY CompletionStep DEF TeardownCompletes, Results

\* SendAsync and SendBatchAsync, from the application's thread or a callback.
LEMMA EnqueueAppends ==
  ASSUME IInv, NEW e \in Events, Enqueue(e), NEW n, n = Len(outgoingEvents)
  PROVE  /\ n \in Nat /\ DOMAIN outgoingEvents = 1..n
         /\ outgoingEvents' \in Seq(Events)
         /\ DOMAIN outgoingEvents' = 1..(n + 1)
         /\ outgoingEvents'[n + 1] = e
         /\ \A i \in 1..n : outgoingEvents'[i] = outgoingEvents[i]
         /\ e # None /\ told[e] = <<>> /\ e \notin Listed
         /\ \A i \in 1..n : outgoingEvents[i] \in Events /\ outgoingEvents[i] \in Listed
         /\ Listed' = Listed \cup {e} /\ Listed \subseteq Events
<1> USE DEF Enqueue, IInv
<1>1. /\ n \in Nat /\ DOMAIN outgoingEvents = 1..n
      /\ outgoingEvents' \in Seq(Events)
      /\ DOMAIN outgoingEvents' = 1..(n + 1)
      /\ outgoingEvents'[n + 1] = e
      /\ \A i \in 1..n : outgoingEvents'[i] = outgoingEvents[i]
  BY LenProperties, AppendProperties DEF TypeOK
<1>2. /\ outgoingEvents \in Seq(Events) /\ e # None /\ told[e] = <<>> /\ e \notin Listed
      /\ \A i \in 1..n : outgoingEvents[i] \in Events /\ outgoingEvents[i] \in Listed
  <2>1. outgoingEvents \in Seq(Events) /\ e # None /\ told[e] = <<>> /\ e \notin Listed
    BY EventsAssumption DEF TypeOK, ConfirmedOnce
  <2>2. \A i \in 1..n : outgoingEvents[i] \in Events
    BY <2>1, ElementOfSeq
  <2>3. \A i \in 1..n : outgoingEvents[i] \in Listed
    BY <1>1 DEF Listed
  <2> QED BY <2>1, <2>2, <2>3
<1>3. Listed' = Listed \cup {e} /\ Listed \subseteq Events
  <2>1. Listed = {outgoingEvents[i] : i \in 1..n}
    BY <1>1 DEF Listed
  <2>2. Listed' = {outgoingEvents'[i] : i \in 1..(n + 1)}
    BY <1>1 DEF Listed
  <2>3. \A i \in 1..(n + 1) : i \in 1..n \/ i = n + 1
    BY <1>1
  <2>4. 1..n \subseteq 1..(n + 1) /\ n + 1 \in 1..(n + 1)
    BY <1>1
  <2>5. ASSUME NEW x \in Listed' PROVE x \in Listed \cup {e}
    BY <1>1, <2>1, <2>2, <2>3
  <2>6. ASSUME NEW x \in Listed \cup {e} PROVE x \in Listed'
    BY <1>1, <2>1, <2>2, <2>4
  <2> QED BY <1>2, <2>1, <2>5, <2>6
<1> QED BY <1>1, <1>2, <1>3

LEMMA EnqueueStep ==
  ASSUME IInv, NEW e \in Events, Enqueue(e)
  PROVE  IInv'
<1> USE DEF IInv, netVars, authVars, loopVars
<1> DEFINE n == Len(outgoingEvents)
<1> HIDE DEF n
<1>1. /\ n \in Nat /\ DOMAIN outgoingEvents = 1..n
      /\ outgoingEvents' \in Seq(Events)
      /\ DOMAIN outgoingEvents' = 1..(n + 1)
      /\ outgoingEvents'[n + 1] = e
      /\ \A i \in 1..n : outgoingEvents'[i] = outgoingEvents[i]
  BY EnqueueAppends DEF n
<1>2. /\ e # None /\ told[e] = <<>> /\ e \notin Listed
      /\ \A i \in 1..n : outgoingEvents[i] \in Events /\ outgoingEvents[i] \in Listed
  BY EnqueueAppends DEF n
<1>3. Listed' = Listed \cup {e} /\ Listed \subseteq Events
  BY EnqueueAppends DEF n
<1>4. /\ currentStatus' \in [Events -> {"WAITING_TO_BE_SENT", "WAITING_FOR_ACK"}]
      /\ currentStatus'[e] = "WAITING_TO_BE_SENT"
      /\ \A x \in Events \ {e} : currentStatus'[x] = currentStatus[x]
      /\ UNCHANGED <<netVars, authVars, told, confirming, loopVars, msg_timeout, pc,
                     destroying, error_reported>>
  BY DEF Enqueue, TypeOK
<1>5. \A i \in 1..n : currentStatus'[outgoingEvents[i]] = currentStatus[outgoingEvents[i]]
  BY <1>2, <1>4
<1>6. TypeOK'
  BY <1>1, <1>4 DEF TypeOK
<1>7. UpState' /\ WhereInDoWork'
  BY <1>4 DEF UpState, WhereInDoWork
<1>8. ConfirmedOnce'
  <2>1. ASSUME NEW i \in 1..(n + 1), NEW j \in 1..(n + 1),
               outgoingEvents'[i] = outgoingEvents'[j]
        PROVE  i = j
    BY <1>1, <1>2, <2>1 DEF ConfirmedOnce
  <2> QED BY <1>1, <1>2, <1>3, <1>4, <2>1 DEF ConfirmedOnce
<1>9. HeldSafe' /\ CurrentSafe' /\ NoOrphanedAck'
  BY <1>2, <1>3, <1>4 DEF HeldSafe, CurrentSafe, NoOrphanedAck, TypeOK
<1>10. InFlightPrefix'
  <2> SUFFICES ASSUME NEW i \in 1..(n + 1), NEW j \in 1..(n + 1), i < j,
                      currentStatus'[outgoingEvents'[j]] = "WAITING_FOR_ACK"
               PROVE  currentStatus'[outgoingEvents'[i]] = "WAITING_FOR_ACK"
    BY <1>1 DEF InFlightPrefix
  <2>1. j # n + 1
    BY <1>1, <1>4
  <2>2. i \in 1..n /\ j \in 1..n
    BY <1>1, <2>1
  <2> QED BY <1>1, <1>5, <2>2 DEF InFlightPrefix
<1>11. CursorInOrder'
  <2> SUFFICES ASSUME pc \in {"sending", "send_async"}, next_list_entry # None
               PROVE  CursorInOrder'
    BY <1>4 DEF CursorInOrder
  <2>1. next_list_entry \in Listed /\ next_list_entry # e /\ next_list_entry \in Events
    BY <1>2, <1>3 DEF CursorInOrder
  <2>2. ASSUME NEW i \in 1..(n + 1), NEW j \in 1..(n + 1), i < j,
               outgoingEvents'[j] = next_list_entry
        PROVE  \/ currentStatus'[outgoingEvents'[i]] = "WAITING_FOR_ACK"
               \/ outgoingEvents'[i] = confirming
    <3>1. i \in 1..n /\ j \in 1..n
      BY <1>1, <2>1, <2>2
    <3> QED BY <1>1, <1>5, <2>2, <3>1 DEF CursorInOrder
  <2> QED BY <1>1, <1>3, <1>4, <2>1, <2>2 DEF CursorInOrder
<1> QED BY <1>6, <1>7, <1>8, <1>9, <1>10, <1>11

\* EventHubClient_LL_Destroy unlinks the first entry and confirms it.
LEMMA DestroyConfirmsStep == ASSUME IInv, DestroyConfirms PROVE IInv'
<1> USE DEF DestroyConfirms, IInv, netVars, authVars, loopVars
<1> DEFINE n == Len(outgoingEvents) - 1
           e == Head(outgoingEvents)
<1>1. /\ outgoingEvents \in Seq(Events) /\ outgoingEvents # <<>>
      /\ pc = "draining" /\ confirming = None /\ held = {} /\ current = None
      /\ UNCHANGED <<netVars, authVars, currentStatus, loopVars, msg_timeout, pc,
                     destroying, error_reported>>
  BY DEF TypeOK, WhereInDoWork
<1>2. /\ n \in Nat /\ DOMAIN outgoingEvents = 1..(n + 1)
      /\ e = outgoingEvents[1] /\ e \in Events /\ e \in Listed
      /\ outgoingEvents' \in Seq(Events)
      /\ DOMAIN outgoingEvents' = 1..n
      /\ \A i \in 1..n : outgoingEvents'[i] = outgoingEvents[i + 1]
  BY <1>1, HeadTailProperties, LenProperties DEF Listed
<1> HIDE DEF n
<1>3. \A i \in 1..n : i \in 1..(n + 1) /\ i + 1 \in 1..(n + 1)
  BY <1>2
<1>4. told[e] = <<>>
  BY <1>1, <1>2, EventsAssumption DEF ConfirmedOnce
<1>5. /\ told' \in [Events -> Seq(Results)]
      /\ confirming' = e /\ told'[e] # <<>> /\ Len(told'[e]) = 1
      /\ \A x \in Events \ {e} : told'[x] = told[x]
  <2>1. Confirm(e, "DESTROY") /\ "DESTROY" \in Results
    BY DEF Results
  <2> HIDE DEF e
  <2> QED BY <1>1, <1>2, <1>4, <2>1, ConfirmKeeps, EventsAssumption
<1> HIDE DEF e, DestroyConfirms
<1>6. Listed' \subseteq Listed /\ Listed \subseteq Events
  <2> HIDE DEF IInv
  <2>1. ASSUME NEW x \in Listed' PROVE x \in Listed
    <3>1. PICK i \in 1..n : x = outgoingEvents'[i]
      BY <1>2 DEF Listed
    <3> QED BY <1>2, <1>3, <3>1 DEF Listed
  <2>2. Listed \subseteq Events
    BY <1>1, ElementOfSeq DEF Listed
  <2> QED BY <2>1, <2>2
<1>7. TypeOK' /\ UpState' /\ WhereInDoWork'
  BY <1>1, <1>2, <1>5 DEF TypeOK, UpState, WhereInDoWork
<1>8. ConfirmedOnce'
  <2>1. ASSUME NEW i \in 1..n, NEW j \in 1..n, outgoingEvents'[i] = outgoingEvents'[j]
        PROVE  i = j
    <3>1. i + 1 = j + 1
      BY <1>2, <1>3, <2>1 DEF ConfirmedOnce
    <3> QED BY <1>2, <3>1
  <2>2. \A x \in Events : Len(told'[x]) <= 1
    <3>1. Len(told'[e]) <= 1
      BY <1>5
    <3>2. ASSUME NEW x \in Events \ {e} PROVE Len(told'[x]) <= 1
      <4>1. told'[x] = told[x] /\ Len(told[x]) <= 1
        BY <1>5 DEF ConfirmedOnce
      <4> QED BY <4>1
    <3> QED BY <3>1, <3>2
  <2>3. \A x \in Events : told'[x] # <<>> => x = confirming'
    BY <1>1, <1>5, EventsAssumption DEF ConfirmedOnce
  <2> QED BY <1>2, <1>5, <2>1, <2>2, <2>3 DEF ConfirmedOnce
<1>9. HeldSafe' /\ CurrentSafe' /\ NoOrphanedAck' /\ CursorInOrder'
  BY <1>1, <1>5, <1>6 DEF HeldSafe, CurrentSafe, NoOrphanedAck, CursorInOrder
<1>10. InFlightPrefix'
  <2> SUFFICES ASSUME NEW i \in 1..n, NEW j \in 1..n, i < j,
                      currentStatus[outgoingEvents'[j]] = "WAITING_FOR_ACK"
               PROVE  currentStatus[outgoingEvents'[i]] = "WAITING_FOR_ACK"
    BY <1>1, <1>2 DEF InFlightPrefix
  <2>1. i + 1 < j + 1
    BY <1>2
  <2> QED BY <1>2, <1>3, <2>1 DEF InFlightPrefix
<1> QED BY <1>7, <1>8, <1>9, <1>10

\* Where the entries of the list are after the k-th one was removed.
LEMMA RemovalKeeps ==
  ASSUME IInv, NEW k \in DOMAIN outgoingEvents, outgoingEvents' = Unlink(k)
  PROVE  /\ outgoingEvents' \in Seq(Events)
         /\ Listed' = Listed \ {outgoingEvents[k]}
         /\ \A i, j \in DOMAIN outgoingEvents' :
              \E a, b \in DOMAIN outgoingEvents :
                 /\ outgoingEvents'[i] = outgoingEvents[a]
                 /\ outgoingEvents'[j] = outgoingEvents[b]
                 /\ i < j <=> a < b
                 /\ i = j <=> a = b
<1> DEFINE n == Len(outgoingEvents) - 1
<1>1. /\ outgoingEvents \in Seq(Events)
      /\ \A i, j \in DOMAIN outgoingEvents : outgoingEvents[i] = outgoingEvents[j] => i = j
  BY DEF IInv, TypeOK, ConfirmedOnce
<1>2. /\ Unlink(k) \in Seq(Events) /\ Len(Unlink(k)) = n
      /\ \A i \in 1..n : Unlink(k)[i] = outgoingEvents[IF i < k THEN i ELSE i + 1]
      /\ {Unlink(k)[i] : i \in DOMAIN Unlink(k)} = Listed \ {outgoingEvents[k]}
  BY <1>1, UnlinkKeeps
<1>3. /\ n \in Nat /\ k \in 1..(n + 1)
      /\ DOMAIN outgoingEvents = 1..(n + 1) /\ DOMAIN outgoingEvents' = 1..n
  BY <1>1, <1>2, LenProperties
<1>4. Listed' = Listed \ {outgoingEvents[k]}
  BY <1>2 DEF Listed
<1> HIDE DEF n
<1>5. ASSUME NEW i \in DOMAIN outgoingEvents', NEW j \in DOMAIN outgoingEvents'
      PROVE  \E a, b \in DOMAIN outgoingEvents :
                 /\ outgoingEvents'[i] = outgoingEvents[a]
                 /\ outgoingEvents'[j] = outgoingEvents[b]
                 /\ i < j <=> a < b
                 /\ i = j <=> a = b
  <2> DEFINE p == IF i < k THEN i ELSE i + 1
             q == IF j < k THEN j ELSE j + 1
  <2>1. outgoingEvents'[i] = outgoingEvents[p] /\ outgoingEvents'[j] = outgoingEvents[q]
    BY <1>2, <1>3
  <2>2. /\ i \in Int /\ j \in Int /\ k \in Int /\ n \in Int
        /\ 1 <= i /\ i <= n /\ 1 <= j /\ j <= n
    BY <1>3
  <2>3. p \in DOMAIN outgoingEvents /\ q \in DOMAIN outgoingEvents
    BY <1>3, <2>2
  <2>4. i < j <=> p < q
    BY <2>2
  <2>5. i = j <=> p = q
    BY <2>2
  <2> HIDE DEF p, q
  <2> QED BY <2>1, <2>3, <2>4, <2>5
<1>6. outgoingEvents' \in Seq(Events)
  BY <1>2
<1> QED BY <1>4, <1>5, <1>6

LEMMA CallbackReturnsRemoves ==
  ASSUME IInv, CallbackReturns
  PROVE  /\ outgoingEvents' \in Seq(Events)
         /\ Listed' = Listed \ {confirming}
         /\ \A i, j \in DOMAIN outgoingEvents' :
              \E a, b \in DOMAIN outgoingEvents :
                 /\ outgoingEvents'[i] = outgoingEvents[a]
                 /\ outgoingEvents'[j] = outgoingEvents[b]
                 /\ i < j <=> a < b
                 /\ i = j <=> a = b
<1>1. CASE confirming \in Listed
  <2>1. PICK k \in DOMAIN outgoingEvents : /\ outgoingEvents[k] = confirming
                                           /\ outgoingEvents' = Unlink(k)
    BY <1>1 DEF CallbackReturns
  <2> QED BY <2>1, RemovalKeeps
<1>2. CASE confirming \notin Listed
  BY <1>2 DEF CallbackReturns, IInv, TypeOK, Listed
<1> QED BY <1>1, <1>2

\* When a callback returns, nothing that is left was confirmed.
LEMMA EmptyTold ==
  ASSUME IInv,
         told' = [e \in Events |-> IF e = confirming THEN <<>> ELSE told[e]]
  PROVE  /\ told' \in [Events -> Seq(Results)]
         /\ \A x \in Events : told'[x] = <<>>
<1>1. \A x \in Events : told'[x] = <<>>
  BY DEF IInv, ConfirmedOnce
<1>2. <<>> \in Seq(Results)
  BY EmptySeq
<1> QED BY <1>1, <1>2

LEMMA CallbackReturnsStep == ASSUME IInv, CallbackReturns PROVE IInv'
<1> USE DEF IInv, netVars, authVars, loopVars
<1>1. /\ confirming # None /\ confirming' = None
      /\ UNCHANGED <<netVars, authVars, currentStatus, loopVars, msg_timeout,
                     pc, destroying, error_reported>>
      /\ pc \in {"sending", "send_async", "connection_dowork", "teardown", "draining"}
  BY DEF CallbackReturns, WhereInDoWork
<1>2. /\ outgoingEvents' \in Seq(Events)
      /\ Listed' = Listed \ {confirming}
      /\ \A i, j \in DOMAIN outgoingEvents' :
           \E a, b \in DOMAIN outgoingEvents :
              /\ outgoingEvents'[i] = outgoingEvents[a]
              /\ outgoingEvents'[j] = outgoingEvents[b]
              /\ i < j <=> a < b
              /\ i = j <=> a = b
  BY CallbackReturnsRemoves
<1>3. Listed \subseteq Events /\ Listed' \subseteq Events
  BY <1>2, ElementOfSeq DEF Listed, TypeOK
<1>4. /\ told' \in [Events -> Seq(Results)]
      /\ \A x \in Events : told'[x] = <<>>
  BY EmptyTold DEF CallbackReturns
<1>5. TypeOK' /\ UpState' /\ WhereInDoWork'
  BY <1>1, <1>2, <1>4 DEF TypeOK, UpState, WhereInDoWork
<1>6. ConfirmedOnce'
  <2>1. \A i, j \in DOMAIN outgoingEvents' :
           outgoingEvents'[i] = outgoingEvents'[j] => i = j
    BY <1>2 DEF ConfirmedOnce
  <2>2. \A x \in Events : Len(told'[x]) <= 1
    BY <1>4, EmptySeq
  <2> QED BY <1>1, <1>4, <2>1, <2>2, EventsAssumption DEF ConfirmedOnce
<1>7. HeldSafe' /\ CurrentSafe' /\ NoOrphanedAck'
  <2>1. \A x \in Listed : told[x] = <<>> => x # confirming
    BY <1>3 DEF ConfirmedOnce
  <2>2. HeldSafe'
    BY <1>1, <1>2, <1>4, <2>1 DEF HeldSafe, TypeOK
  <2>3. CurrentSafe'
    BY <1>1, <1>2, <1>4, <2>1, EventsAssumption DEF CurrentSafe, TypeOK
  <2>4. \A x \in Listed' : told[x] = <<>>
    BY <1>2, <1>3 DEF ConfirmedOnce
  <2>5. NoOrphanedAck'
    BY <1>1, <1>2, <2>4 DEF NoOrphanedAck
  <2> QED BY <2>2, <2>3, <2>5
<1>8. InFlightPrefix'
  BY <1>1, <1>2 DEF InFlightPrefix
<1>9. CursorInOrder'
  <2> SUFFICES ASSUME pc \in {"sending", "send_async"}, next_list_entry # None
               PROVE  CursorInOrder'
    BY <1>1 DEF CursorInOrder
  <2>1. /\ next_list_entry \in Listed /\ told[next_list_entry] = <<>>
        /\ next_list_entry # confirming
    BY <1>1, <1>3 DEF CursorInOrder, ConfirmedOnce
  <2>2. ASSUME NEW i \in DOMAIN outgoingEvents', NEW j \in DOMAIN outgoingEvents',
               i < j, outgoingEvents'[j] = next_list_entry
        PROVE  currentStatus[outgoingEvents'[i]] = "WAITING_FOR_ACK"
    <3>1. outgoingEvents'[i] # confirming
      BY <1>2 DEF Listed
    <3> QED BY <1>2, <2>2, <3>1 DEF CursorInOrder
  <2> QED BY <1>1, <1>2, <1>3, <1>4, <2>1, <2>2 DEF CursorInOrder
<1> QED BY <1>5, <1>6, <1>7, <1>8, <1>9
-----------------------------------------------------------------------------
LEMMA NextIInv == IInv /\ [Next]_vars => IInv'
<1> SUFFICES ASSUME IInv, [Next]_vars PROVE IInv'
  OBVIOUS
<1>1. CASE Application
  BY <1>1, EnqueueStep, SettersStep DEF Application, SendAsync, SendBatchAsync
<1>2. CASE DoWork
  BY <1>2, DoWorkStep
<1>3. CASE Destroy
  BY <1>3, DestroyStep
<1>4. CASE SendLoop
  BY <1>4, SkipStep, CreateFailsStep, TimesOutStep, SendStep, TakesStep, ReturnsStep,
     ReturnsNullStep DEF SendLoop
<1>5. CASE Library /\ ~SendLoop
  BY <1>5, AuthStep, OpenStep, TeardownCompletesStep, StackDownStep,
     DestroyConfirmsStep, ReturnsStep DEF Library
<1>6. CASE CallbackReturns
  BY <1>6, CallbackReturnsStep
<1>7. CASE Uamqp
  BY <1>7, SendCompletesStep, CallbacksOfUamqpStep DEF Uamqp
<1>8. CASE ConnectionDoworkReturns \/ Ended
  BY <1>8, ReturnsStep
<1>9. CASE UNCHANGED vars
  <2>1. UNCHANGED <<netVars, authVars, listVars, loopVars, msg_timeout, pc,
                    destroying, error_reported>>
    BY <1>9 DEF vars
  <2>2. TypeOK' /\ UpState' /\ WhereInDoWork'
    BY <2>1 DEF IInv, TypeOK, UpState, WhereInDoWork, netVars, authVars, listVars,
                loopVars
  <2> QED BY <2>1, <2>2, ListUntouched DEF IInv, HeldSafe, netVars, listVars
<1> QED BY <1>1, <1>2, <1>3, <1>4, <1>5, <1>6, <1>7, <1>8, <1>9 DEF Next

\* IInv is an inductive invariant of the low-level sender.
THEOREM Inductive == Spec => []IInv
  BY InitIInv, NextIInv, PTL DEF Spec

\* Type correctness, for every set of events.
THEOREM TypeCorrect == Spec => []TypeOK
<1>1. IInv => TypeOK
  BY DEF IInv
<1> QED BY <1>1, Inductive, PTL

\* Every entry that uAMQP will hand back to on_message_send_complete is still
\* allocated, on the list and unconfirmed.
THEOREM HeldEntriesSafe == Spec => []HeldSafe
<1>1. IInv => HeldSafe
  BY DEF IInv
<1> QED BY <1>1, Inductive, PTL

\* DoWork's cached next_list_entry is never a freed entry, whatever the
\* callbacks that run inside messagesender_send_async and the application do.
THEOREM CursorNeverDangles == Spec => []CursorSafe
<1>1. IInv => CursorSafe
  BY DEF IInv, CursorInOrder, CursorSafe, TypeOK
<1> QED BY <1>1, Inductive, PTL

\* The entries in flight are the first ones of the list.
THEOREM InFlightFirst == Spec => []InFlightPrefix
<1>1. IInv => InFlightPrefix
  BY DEF IInv
<1> QED BY <1>1, Inductive, PTL

\* No entry waits for an acknowledgement that nobody can give.
THEOREM NothingOrphaned == Spec => []NoOrphanedAck
<1>1. IInv => NoOrphanedAck
  BY DEF IInv
<1> QED BY <1>1, Inductive, PTL

\* The handles each function on the stack uses exist.
THEOREM HandlesExist == Spec => []NoUseOfNullHandle
<1>1. IInv => NoUseOfNullHandle
  <2> SUFFICES ASSUME IInv PROVE NoUseOfNullHandle
    OBVIOUS
  <2>1. {"cbs_handle", "connection"} \subseteq Common
    BY DEF Common
  <2> QED BY <2>1, SenderOnlyWhenInitialized
          DEF IInv, UpState, WhereInDoWork, NoUseOfNullHandle, TypeOK
<1> QED BY <1>1, Inductive, PTL
-----------------------------------------------------------------------------
(* The sender implements the ledger of confirmations. *)

Accepted == Listed \cup {e \in Events : told[e] # <<>>}

\* A confirmation of an unconfirmed entry of the list is the ledger's.
LEMMA ConfirmIsLedgers ==
  ASSUME IInv, NEW e \in Listed, NEW r \in Results,
         told[e] = <<>>, confirming = None, Confirm(e, r),
         pc # "destroyed", pc' # "destroyed",
         Listed' \cup {e} = Listed
  PROVE  Ledger!Confirm(e, r)
<1>1. /\ e \in Events /\ told \in [Events -> Seq(Results)]
      /\ told' = [told EXCEPT ![e] = Append(@, r)]
  BY DEF IInv, TypeOK, Confirm, Listed
<1>2. Append(<<>>, r) = <<r>>
  BY EmptySeq, AppendProperties
<1>3. told' = [told EXCEPT ![e] = <<r>>]
  BY <1>1, <1>2
<1>4. told'[e] # <<>> /\ \A x \in Events \ {e} : told'[x] = told[x]
  BY <1>1, ConfirmKeeps, EventsAssumption DEF IInv
<1>5. Accepted' = Accepted
  BY <1>1, <1>4 DEF Accepted
<1> QED BY <1>1, <1>3, <1>5 DEF Ledger!Confirm, Accepted

\* A step that leaves the list and the confirmations alone is invisible.
LEMMA LedgerStutters ==
  ASSUME UNCHANGED <<outgoingEvents, told>>, (pc = "destroyed") = (pc' = "destroyed")
  PROVE  UNCHANGED Ledger!vars
  BY DEF Ledger!vars, Listed

LEMMA LedgerInit == Init => Ledger!Init
<1> SUFFICES ASSUME Init PROVE Ledger!Init
  OBVIOUS
<1>1. Accepted = {}
  BY DEF Init, Accepted, Listed
<1> QED BY <1>1 DEF Init, Ledger!Init, Accepted

LEMMA EnqueueIsAccept ==
  ASSUME IInv, IInv', NEW e \in Events, Enqueue(e)
  PROVE  Ledger!Accept(e)
<1>1. Listed' = Listed \cup {e} /\ told[e] = <<>> /\ e \notin Listed
  BY EnqueueAppends
<1>2. pc # "destroyed" /\ pc' # "destroyed" /\ UNCHANGED told
  BY DEF Enqueue, AppMayCall, IInv, WhereInDoWork
<1> QED BY <1>1, <1>2 DEF Ledger!Accept

\* The return of a confirmation callback frees its entry, that of another callback
\* changes nothing.
LEMMA CallbackReturnsIsFree ==
  ASSUME IInv, IInv', CallbackReturns
  PROVE  \/ UNCHANGED told /\ UNCHANGED Accepted /\ UNCHANGED Ledger!vars
         \/ \E e \in Events : /\ e = confirming
                               /\ Accepted' = Accepted \ {e}
                               /\ Ledger!Free(e)
<1>1. /\ UNCHANGED pc /\ confirming # None /\ pc # "destroyed"
      /\ told \in [Events -> Seq(Results)]
      /\ told' = [e \in Events |-> IF e = confirming THEN <<>> ELSE told[e]]
  BY DEF CallbackReturns, IInv, TypeOK, WhereInDoWork
<1>2. Listed' = Listed \ {confirming} /\ Listed \subseteq Events
  <2>1. Listed' = Listed \ {confirming}
    BY CallbackReturnsRemoves
  <2>2. Listed \subseteq Events
    BY ElementOfSeq DEF IInv, TypeOK, Listed
  <2> QED BY <2>1, <2>2
<1>3. ASSUME NEW e \in Events, e = confirming
      PROVE  Accepted' = Accepted \ {e} /\ Ledger!Free(e)
  <2>1. told' = [told EXCEPT ![e] = <<>>]
    BY <1>1, <1>3
  <2>2. told'[e] = <<>> /\ \A x \in Events \ {e} : told'[x] = told[x]
    BY <1>1, <1>3
  <2>3. Accepted' = Accepted \ {e}
    BY <1>2, <1>3, <2>2 DEF Accepted
  <2>4. told[e] # <<>>
    BY <1>3 DEF IInv, ConfirmedOnce
  <2>5. Ledger!Free(e)
    BY <1>1, <2>1, <2>3, <2>4 DEF Ledger!Free, Accepted
  <2> QED BY <2>3, <2>5
<1>4. CASE confirming \notin Events
  <2>1. told' = told
    BY <1>1, <1>4
  <2>2. Listed' = Listed
    BY <1>2, <1>4
  <2> QED BY <1>1, <2>1, <2>2 DEF Ledger!vars, Accepted
<1> QED BY <1>3, <1>4

LEMMA LoopConfirmsIsLedgers ==
  ASSUME IInv, NEW i \in DOMAIN outgoingEvents, Visits(i),
         CreateMessageFails(i) \/ EventTimesOut(i)
  PROVE  Ledger!Next \/ UNCHANGED Ledger!vars
<1> USE DEF CreateMessageFails, EventTimesOut, ConfirmUnchecked
<1>1. /\ pc = "sending" /\ confirming = None /\ Listed' = Listed
      /\ pc' \in {"sending", "crashed"} /\ outgoingEvents' = outgoingEvents
      /\ outgoingEvents[i] \in Listed /\ told[outgoingEvents[i]] = <<>>
      /\ outgoingEvents[i] \in Events
  BY VisitsEntry DEF Visits, Listed
<1>2. CASE outgoingEvents[i] \in NullCallback
  BY <1>1, <1>2, LedgerStutters
<1>3. CASE outgoingEvents[i] \notin NullCallback
  <2>1. PICK r \in Results : Confirm(outgoingEvents[i], r)
    BY <1>3 DEF Results
  <2>2. Ledger!Confirm(outgoingEvents[i], r)
    BY <1>1, <2>1, ConfirmIsLedgers
  <2> QED BY <1>1, <2>2 DEF Ledger!Next
<1> QED BY <1>2, <1>3

LEMMA ReturnsNullIsLedgers ==
  ASSUME IInv, SendAsyncReturnsNull
  PROVE  Ledger!Next \/ UNCHANGED Ledger!vars
<1> USE DEF SendAsyncReturnsNull, ConfirmUnchecked
<1>1. /\ pc = "send_async" /\ confirming = None /\ Listed' = Listed
      /\ pc' \in {"sending", "crashed"} /\ outgoingEvents' = outgoingEvents
      /\ current \in Listed /\ told[current] = <<>> /\ current \in Events
  BY DEF Listed, IInv, CurrentSafe, TypeOK
<1>2. CASE current \in NullCallback
  BY <1>1, <1>2, LedgerStutters
<1>3. CASE current \notin NullCallback
  <2>1. Confirm(current, "ERROR") /\ "ERROR" \in Results
    BY <1>3 DEF Results
  <2>2. Ledger!Confirm(current, "ERROR")
    BY <1>1, <2>1, ConfirmIsLedgers
  <2> QED BY <1>1, <2>1, <2>2 DEF Ledger!Next
<1> QED BY <1>2, <1>3

LEMMA CompletionIsLedgers ==
  ASSUME IInv, NEW e \in Events, NEW r \in {"OK", "ERROR"},
         on_message_send_complete(e, r) \/ TeardownCompletes(e)
  PROVE  Ledger!Next
<1> USE DEF on_message_send_complete, TeardownCompletes, InUamqp
<1>1. /\ confirming = None /\ Listed' = Listed /\ UNCHANGED pc
      /\ pc # "destroyed" /\ e \in Listed /\ told[e] = <<>>
  BY DEF Listed, IInv, HeldSafe
<1>2. PICK q \in Results : Confirm(e, q)
  BY DEF Results
<1>3. Ledger!Confirm(e, q)
  BY <1>1, <1>2, ConfirmIsLedgers
<1> QED BY <1>3 DEF Ledger!Next

LEMMA DestroyConfirmsIsLedgers ==
  ASSUME IInv, DestroyConfirms
  PROVE  Ledger!Next
<1> DEFINE e == Head(outgoingEvents)
<1>1. /\ outgoingEvents \in Seq(Events) /\ outgoingEvents # <<>>
      /\ outgoingEvents' = Tail(outgoingEvents)
      /\ confirming = None /\ pc = "draining" /\ UNCHANGED pc
      /\ Confirm(e, "DESTROY") /\ "DESTROY" \in Results
  BY DEF DestroyConfirms, IInv, TypeOK, Results
<1>2. PICK n \in Nat : n = Len(outgoingEvents) - 1
  BY <1>1, EmptySeq
<1>3. /\ DOMAIN outgoingEvents = 1..(n + 1) /\ DOMAIN outgoingEvents' = 1..n
      /\ e = outgoingEvents[1]
      /\ \A i \in 1..n : outgoingEvents'[i] = outgoingEvents[i + 1]
  BY <1>1, <1>2, HeadTailProperties, LenProperties
<1>4. e \in Listed /\ e \in Events
  BY <1>1, <1>2, <1>3 DEF Listed
<1>5. Listed' \cup {e} = Listed
  <2>1. ASSUME NEW x \in Listed PROVE x \in Listed' \cup {e}
    <3>1. PICK j \in 1..(n + 1) : x = outgoingEvents[j]
      BY <1>3 DEF Listed
    <3>2. j = 1 \/ (j - 1 \in 1..n /\ (j - 1) + 1 = j)
      BY <1>2
    <3>3. CASE j = 1
      BY <1>3, <3>1, <3>3
    <3>4. CASE j - 1 \in 1..n /\ (j - 1) + 1 = j
      <4>1. outgoingEvents'[j - 1] = x
        BY <1>3, <3>1, <3>4
      <4> QED BY <1>3, <3>4, <4>1 DEF Listed
    <3> QED BY <3>2, <3>3, <3>4
  <2>2. ASSUME NEW x \in Listed' PROVE x \in Listed
    <3>1. PICK j \in 1..n : x = outgoingEvents'[j]
      BY <1>3 DEF Listed
    <3>2. j + 1 \in 1..(n + 1)
      BY <1>2
    <3> QED BY <1>3, <3>1, <3>2 DEF Listed
  <2> QED BY <1>4, <2>1, <2>2
<1>6. told[e] = <<>>
  BY <1>1, <1>4, EventsAssumption DEF IInv, ConfirmedOnce
<1> HIDE DEF e
<1>7. Ledger!Confirm(e, "DESTROY")
  BY <1>1, <1>4, <1>5, <1>6, ConfirmIsLedgers
<1> QED BY <1>1, <1>4, <1>7 DEF Ledger!Next

LEMMA DestroyReturnsIsClose ==
  ASSUME IInv, DestroyReturns
  PROVE  Ledger!Close
<1>1. Listed = {} /\ UNCHANGED <<outgoingEvents, told>>
  BY DEF DestroyReturns, Listed, listVars
<1>2. \A e \in Events : told[e] = <<>>
  BY EventsAssumption DEF DestroyReturns, IInv, ConfirmedOnce
<1> QED BY <1>1, <1>2 DEF DestroyReturns, Ledger!Close, Listed

LEMMA LedgerStep ==
  IInv /\ IInv' /\ [Next]_vars => [Ledger!Next]_(Ledger!vars)
<1> SUFFICES ASSUME IInv, IInv', [Next]_vars
             PROVE  Ledger!Next \/ UNCHANGED Ledger!vars
  OBVIOUS
<1> USE DEF listVars, Ledger!Next
<1>1. CASE Application
  <2>1. CASE SetMessageTimeout \/ RefreshSASTokenAsync
    BY <2>1, LedgerStutters DEF SetMessageTimeout, RefreshSASTokenAsync
  <2> QED BY <1>1, <2>1, EnqueueIsAccept DEF Application, SendAsync, SendBatchAsync
<1>2. CASE DoWork \/ Destroy
  BY <1>2, LedgerStutters
  DEF DoWork, Destroy, InitializeFails, initialize_uamqp_stack_common,
      initialize_uamqp_sender_stack, AlreadyInitialized, StartTeardown
<1>3. CASE SendLoop
  <2>1. ASSUME NEW i \in DOMAIN outgoingEvents, SkipEntry(i) \/ CallSendAsync(i)
        PROVE  UNCHANGED Ledger!vars
    BY <2>1, LedgerStutters DEF SkipEntry, CallSendAsync, Visits
  <2>2. ASSUME NEW i \in DOMAIN outgoingEvents, CreateMessageFails(i) \/ EventTimesOut(i)
        PROVE  Ledger!Next \/ UNCHANGED Ledger!vars
    BY <2>2, LoopConfirmsIsLedgers DEF CreateMessageFails, EventTimesOut
  <2>3. CASE SendAsyncTakes \/ SendAsyncReturns \/ EndOfList
    BY <2>3, LedgerStutters DEF SendAsyncTakes, SendAsyncReturns, EndOfList
  <2> QED BY <1>3, <2>1, <2>2, <2>3, ReturnsNullIsLedgers DEF SendLoop
<1>4. CASE Library /\ ~SendLoop
  <2>1. CASE handle_sas_token_auth
    <3>1. pc = "sas_token_auth" /\ pc' # "destroyed" /\ UNCHANGED <<outgoingEvents, told>>
      BY <2>1 DEF handle_sas_token_auth, AuthFails, PutToken, GoOn, TokenInstalled,
                  StartTeardown
    <3> QED BY <3>1, LedgerStutters
  <2>2. CASE OpenMessageSender \/ destroy_uamqp_stack
    BY <2>2, LedgerStutters DEF OpenMessageSender, destroy_uamqp_stack
  <2> QED BY <1>4, <2>1, <2>2, CompletionIsLedgers, DestroyConfirmsIsLedgers,
             DestroyReturnsIsClose DEF Library
<1>5. CASE CallbackReturns
  <2>1. UNCHANGED Ledger!vars \/ \E e \in Events : Ledger!Free(e)
    BY <1>5, CallbackReturnsIsFree
  <2> QED BY <2>1
<1>6. CASE Uamqp
  <2>1. CASE \/ \E new \in {"IDLE", "OPEN", "ERROR"} : on_message_sender_state_changed(new)
             \/ \E status \in {"OK", "FAILURE"} : PutTokenCompletes(status)
    BY <2>1, LedgerStutters DEF on_message_sender_state_changed, PutTokenCompletes
  <2> QED BY <1>6, <2>1, CompletionIsLedgers DEF Uamqp
<1>7. CASE ConnectionDoworkReturns \/ Ended \/ UNCHANGED vars
  BY <1>7, LedgerStutters DEF ConnectionDoworkReturns, Ended, vars
<1> QED BY <1>1, <1>2, <1>3, <1>4, <1>5, <1>6, <1>7 DEF Next

\* The low-level sender implements the ledger: whatever is lost, torn down or
\* sent from a callback, an accepted event is confirmed exactly once before its
\* entry is freed, and before EventHubClient_LL_Destroy returns.
THEOREM ImplementsLedger == Spec => LedgerSpec
<1>1. Spec => []IInv
  BY Inductive
<1> QED BY <1>1, LedgerInit, LedgerStep, PTL DEF Spec, LedgerSpec, Ledger!Spec

\* The error callback has run before DoWork begins to tear a stack down.
Reported == /\ message_sender_state = "ERROR" => error_reported
            /\ pc = "teardown" => destroying \/ error_reported

LEMMA NextReported == Reported /\ [Next]_vars => Reported'
<1> SUFFICES ASSUME Reported, [Next]_vars PROVE Reported'
  OBVIOUS
<1> USE DEF Reported, netVars, authVars, listVars, loopVars
<1>1. CASE Application
  BY <1>1 DEF Application, SendAsync, SendBatchAsync, Enqueue, SetMessageTimeout,
              RefreshSASTokenAsync
<1>2. CASE DoWork
  BY <1>2 DEF DoWork, InitializeFails, initialize_uamqp_stack_common,
              initialize_uamqp_sender_stack, AlreadyInitialized, StartTeardown
<1>3. CASE Destroy
  BY <1>3 DEF Destroy, StartTeardown
<1>4. CASE handle_sas_token_auth \/ OpenMessageSender
  <2>1. CASE handle_sas_token_auth
    BY <2>1 DEF handle_sas_token_auth, AuthFails, PutToken, TokenInstalled, GoOn,
                StartTeardown
  <2>2. CASE OpenMessageSender
    BY <2>2 DEF OpenMessageSender
  <2> QED BY <1>4, <2>1, <2>2
<1>5. CASE SendLoop
  BY <1>5 DEF SendLoop, SkipEntry, CreateMessageFails, EventTimesOut, CallSendAsync,
              Visits, ConfirmUnchecked, SendAsyncTakes, SendAsyncReturns,
              SendAsyncReturnsNull, EndOfList
<1>6. CASE \/ \E e \in Events : TeardownCompletes(e)
           \/ destroy_uamqp_stack \/ DestroyConfirms \/ DestroyReturns
  BY <1>6 DEF TeardownCompletes, destroy_uamqp_stack, DestroyConfirms, DestroyReturns
<1>7. CASE CallbackReturns \/ ConnectionDoworkReturns \/ Ended \/ UNCHANGED vars
  BY <1>7 DEF CallbackReturns, ConnectionDoworkReturns, Ended, vars
<1>8. CASE Uamqp
  BY <1>8 DEF Uamqp, on_message_send_complete, on_message_sender_state_changed,
              PutTokenCompletes
<1> QED BY <1>1, <1>2, <1>3, <1>4, <1>5, <1>6, <1>7, <1>8 DEF Next, Library

\* Only a failed bring-up and destroy_uamqp_stack take a stack down.
LEMMA OnlyTeardownsTakeDown ==
  ASSUME Next, amqp_state # "UNINITIALIZED", amqp_state' = "UNINITIALIZED"
  PROVE  (DoWork /\ InitializeFails) \/ destroy_uamqp_stack
<1> USE DEF netVars, authVars, listVars, loopVars
<1>1. ~(Application \/ Destroy \/ CallbackReturns \/ ConnectionDoworkReturns \/ Ended)
  BY DEF Application, SendAsync, SendBatchAsync, Enqueue, SetMessageTimeout,
         RefreshSASTokenAsync, Destroy, CallbackReturns, ConnectionDoworkReturns,
         Ended, vars
<1>2. ~(handle_sas_token_auth \/ OpenMessageSender)
  BY DEF handle_sas_token_auth, AuthFails, PutToken, TokenInstalled, GoOn,
         StartTeardown, OpenMessageSender
<1>3. ~SendLoop
  BY DEF SendLoop, SkipEntry, CreateMessageFails, EventTimesOut, CallSendAsync,
         Visits, ConfirmUnchecked, SendAsyncTakes, SendAsyncReturns,
         SendAsyncReturnsNull, EndOfList
<1>4. ~((\E e \in Events : TeardownCompletes(e)) \/ DestroyConfirms \/ DestroyReturns
        \/ Uamqp)
  BY DEF TeardownCompletes, DestroyConfirms, DestroyReturns, Uamqp,
         on_message_send_complete, on_message_sender_state_changed, PutTokenCompletes
<1>5. DoWork => InitializeFails
  BY DEF DoWork, InitializeFails, initialize_uamqp_stack_common,
         initialize_uamqp_sender_stack, AlreadyInitialized, StartTeardown
<1> QED BY <1>1, <1>2, <1>3, <1>4, <1>5 DEF Next, Library

\* EventHubClient_LL_DoWork takes no stack down that was up without having
\* called the error callback since it came up.
THEOREM TeardownsReported == Spec => NoSilentTeardown
<1>1. Init => Reported
  BY DEF Init, Reported
<1>2. Reported /\ [Next]_vars => Reported'
  BY NextReported
<1>3. Reported /\ [Next]_vars =>
        [amqp_state # "UNINITIALIZED" /\ amqp_state' = "UNINITIALIZED" /\ ~destroying
           => error_reported']_vars
  BY OnlyTeardownsTakeDown
  DEF Reported, DoWork, InitializeFails, destroy_uamqp_stack
<1> QED BY <1>1, <1>2, <1>3, PTL DEF Spec, NoSilentTeardown
=============================================================================
