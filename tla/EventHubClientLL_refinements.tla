-------------------- MODULE EventHubClientLL_refinements --------------------
(***************************************************************************)
(* What EventHubClientLL implements for its neighbours, for every set of    *)
(* events: the protocol of the authorization handle below it, and the       *)
(* interface that the wrapper of eventhubclient.c is built on.              *)
(***************************************************************************)
EXTENDS EventHubClientLL_proofs

\* Steps that TokenAuthorization does not see: they leave the handle alone and
\* neither begin nor end a tear down.
LEMMA AuthorizationStutters ==
  ASSUME UNCHANGED authVars,
         pc' = "teardown" <=> pc = "teardown"
  PROVE  UNCHANGED Authorization!vars
BY DEF Authorization!vars, authVars

\* A tear down begins, of a stack or, by Destroy, of none.
LEMMA TeardownBegins ==
  ASSUME UNCHANGED authVars, pc # "teardown", pc' = "teardown"
  PROVE  Authorization!Next \/ UNCHANGED Authorization!vars
BY DEF Authorization!Next, Authorization!TearDown, Authorization!vars, authVars

\* The bring-up of EventHubClient_LL_DoWork.
LEMMA DoWorkIsAuthorizations ==
  ASSUME IInv, DoWork PROVE Authorization!Next \/ UNCHANGED Authorization!vars
<1> USE DEF authVars
<1>1. pc = "idle"
  BY DEF DoWork
<1>2. CASE InitializeFails
  BY <1>1, <1>2 DEF InitializeFails, Authorization!Next, Authorization!Destroy
<1>3. CASE initialize_uamqp_stack_common
  <2>1. auth_status = "NONE" /\ auth_timeout' \in BOOLEAN
    BY <1>3 DEF initialize_uamqp_stack_common, IInv, TypeOK, WhereInDoWork
  <2> QED BY <1>1, <1>3, <2>1
          DEF initialize_uamqp_stack_common, Authorization!Next, Authorization!Create
<1>4. CASE initialize_uamqp_sender_stack
  BY <1>1, <1>4, AuthorizationStutters DEF initialize_uamqp_sender_stack
<1>5. CASE AlreadyInitialized
  BY <1>1, <1>5, AuthorizationStutters, TeardownBegins
  DEF AlreadyInitialized, StartTeardown
<1> QED BY <1>2, <1>3, <1>4, <1>5 DEF DoWork

\* handle_sas_token_auth: each of its paths is what the reported status asks for.
LEMMA AuthIsAuthorizations ==
  ASSUME IInv, handle_sas_token_auth
  PROVE  Authorization!Next \/ UNCHANGED Authorization!vars
<1> USE DEF Authorization!Next
<1>1. /\ pc = "sas_token_auth" /\ auth_status # "NONE"
      /\ UNCHANGED <<auth_timeout, credential>>
  BY DEF handle_sas_token_auth, IInv, WhereInDoWork
<1>2. PICK status \in GetStatus :
        \/ /\ status \in {"FAILURE", "EXPIRED", "TIMEOUT", "ERROR"}
           /\ AuthFails
           /\ UNCHANGED ext_refresh_sas_token
        \/ /\ status = "IN_PROGRESS"
           /\ pc' = "connection_dowork"
           /\ UNCHANGED <<auth_status, ext_refresh_sas_token>>
        \/ /\ status = "IDLE"
           /\ AuthFails \/ (PutToken /\ pc' = "connection_dowork")
           /\ UNCHANGED ext_refresh_sas_token
        \/ /\ status = "REFRESH_REQUIRED"
           /\ AuthFails \/ (PutToken /\ GoOn)
           /\ UNCHANGED ext_refresh_sas_token
        \/ /\ status = "OK" /\ ext_refresh_sas_token
           /\ AuthFails \/ (PutToken /\ GoOn)
           /\ ext_refresh_sas_token' = FALSE
        \/ /\ status = "OK" /\ ~ext_refresh_sas_token
           /\ TokenInstalled
           /\ UNCHANGED ext_refresh_sas_token
  BY DEF handle_sas_token_auth
<1>3. Authorization!ActsOn(status)
  BY <1>1, <1>2 DEF GetStatus, Authorization!ActsOn
<1>4. GoOn => pc' # "teardown"
  BY DEF GoOn
<1>5. CASE AuthFails
  <2>1. pc' = "teardown" /\ auth_status' = auth_status
    BY <1>5 DEF AuthFails, StartTeardown
  <2>2. Authorization!Fail
    <3>1. CASE status = "OK" /\ ext_refresh_sas_token /\ ext_refresh_sas_token' = FALSE
      BY <1>1, <1>3, <2>1, <3>1 DEF Authorization!Fail
    <3>2. CASE /\ status \in {"FAILURE", "EXPIRED", "TIMEOUT", "ERROR", "IDLE",
                              "REFRESH_REQUIRED"}
               /\ UNCHANGED ext_refresh_sas_token
      BY <1>1, <1>3, <2>1, <3>2 DEF Authorization!Fail, Authorization!Failures
    <3>3. CASE pc' # "teardown" \/ TokenInstalled
      BY <2>1, <3>3, <1>4 DEF TokenInstalled
    <3> QED BY <1>2, <2>1, <3>1, <3>2, <3>3
  <2> QED BY <2>2
<1>6. CASE PutToken /\ pc' # "teardown" /\ ~AuthFails
  <2>1. auth_status' = "IN_PROGRESS"
    BY <1>6 DEF PutToken
  <2>2. \/ /\ status \in {"IDLE", "REFRESH_REQUIRED"} /\ UNCHANGED ext_refresh_sas_token
        \/ /\ status = "OK" /\ ext_refresh_sas_token /\ ext_refresh_sas_token' = FALSE
        \/ auth_status' = auth_status /\ UNCHANGED ext_refresh_sas_token
        \/ TokenInstalled
    BY <1>2, <1>6
  <2>3. ~TokenInstalled
    BY <2>1 DEF TokenInstalled
  <2>4. CASE auth_status' = auth_status /\ UNCHANGED ext_refresh_sas_token
    BY <1>1, <1>6, <2>4, AuthorizationStutters DEF authVars
  <2> QED BY <1>1, <1>3, <1>6, <2>1, <2>2, <2>3, <2>4 DEF Authorization!Put
<1>7. CASE ~AuthFails /\ ~PutToken
  <2>1. CASE status = "IN_PROGRESS"
    BY <1>1, <1>2, <1>7, <2>1, AuthorizationStutters DEF authVars
  <2>2. CASE status = "OK" /\ TokenInstalled
    <3>1. auth_status' = "OK" /\ pc' # "teardown" /\ ~ext_refresh_sas_token
          /\ UNCHANGED ext_refresh_sas_token
      BY <1>2, <1>4, <1>7, <2>2 DEF TokenInstalled
    <3>2. auth_status = "OK"
      BY <1>1, <2>2 DEF GetStatus, Authorization!MayReport
    <3> QED BY <1>1, <3>1, <3>2, AuthorizationStutters DEF authVars
  <2> QED BY <1>2, <1>7, <2>1, <2>2
<1>8. PutToken => pc' # "teardown" \/ AuthFails
  BY <1>2, <1>4 DEF PutToken, TokenInstalled
<1> QED BY <1>5, <1>6, <1>7, <1>8

\* The tear down ends with the handle, or there was none.
LEMMA TeardownEnds ==
  ASSUME destroy_uamqp_stack
  PROVE  Authorization!Next \/ UNCHANGED Authorization!vars
BY DEF destroy_uamqp_stack, Authorization!Next, Authorization!Destroy

LEMMA AuthorizationStep ==
  IInv /\ [Next]_vars => [Authorization!Next]_(Authorization!vars)
<1> SUFFICES ASSUME IInv, [Next]_vars
             PROVE  Authorization!Next \/ UNCHANGED Authorization!vars
  OBVIOUS
<1>1. CASE Application
  <2>1. CASE RefreshSASTokenAsync
    BY <2>1 DEF RefreshSASTokenAsync, Authorization!Next, Authorization!RequestRefresh
  <2> QED BY <1>1, <2>1, AuthorizationStutters
          DEF Application, SendAsync, SendBatchAsync, Enqueue, SetMessageTimeout
<1>2. CASE DoWork
  BY <1>2, DoWorkIsAuthorizations
<1>3. CASE Destroy
  BY <1>3, TeardownBegins DEF Destroy, StartTeardown
<1>4. CASE Library
  <2>1. CASE handle_sas_token_auth
    BY <2>1, AuthIsAuthorizations
  <2>2. CASE OpenMessageSender
    BY <2>2, AuthorizationStutters DEF OpenMessageSender
  <2>3. CASE SendLoop
    BY <2>3, AuthorizationStutters
    DEF SendLoop, SkipEntry, CreateMessageFails, EventTimesOut, CallSendAsync, Visits,
        ConfirmUnchecked, SendAsyncTakes, SendAsyncReturns, SendAsyncReturnsNull,
        EndOfList
  <2>4. CASE destroy_uamqp_stack
    BY <2>4, TeardownEnds
  <2>5. CASE \/ \E e \in Events : TeardownCompletes(e)
             \/ DestroyConfirms \/ DestroyReturns
    BY <2>5, AuthorizationStutters DEF TeardownCompletes, DestroyConfirms, DestroyReturns
  <2> QED BY <1>4, <2>1, <2>2, <2>3, <2>4, <2>5 DEF Library
<1>5. CASE CallbackReturns
  BY <1>5, AuthorizationStutters DEF CallbackReturns
<1>6. CASE Uamqp
  <2>1. ASSUME NEW status \in {"OK", "FAILURE"}, PutTokenCompletes(status)
        PROVE  Authorization!Next
    BY <2>1 DEF PutTokenCompletes, Authorization!Next, Authorization!PutCompletes
  <2> QED BY <1>6, <2>1, AuthorizationStutters
          DEF Uamqp, on_message_send_complete, on_message_sender_state_changed
<1>7. CASE ConnectionDoworkReturns \/ Ended \/ UNCHANGED vars
  BY <1>7, AuthorizationStutters DEF ConnectionDoworkReturns, Ended, vars
<1> QED BY <1>1, <1>2, <1>3, <1>4, <1>5, <1>6, <1>7 DEF Next

\* The low-level sender keeps to TokenAuthorization, the protocol that
\* eventhubauth.c is shown to provide, through every bring-up and tear down.
THEOREM ImplementsAuthorization == Spec => AuthorizationSpec
<1>1. Init => Authorization!Init
  BY DEF Init, Authorization!Init
<1> QED BY <1>1, AuthorizationStep, Inductive, PTL
        DEF Spec, AuthorizationSpec, Authorization!Spec
-----------------------------------------------------------------------------
(* The sender implements what eventhubclient.c relies on.  The ledger of       *)
(* confirmations says which events are pending, the proof adds when.           *)

\* The phase is a matter of pc; a call of Destroy is told by its flag.
LEMMA PhaseOf ==
  ASSUME IInv
  PROVE  /\ pc = "idle" => Phase = "idle" /\ ~destroying
         /\ pc = "destroyed" => Phase = "destroyed" /\ destroying
         /\ pc \notin {"idle", "destroyed"} /\ destroying => Phase = "destroying"
         /\ pc \notin {"idle", "destroyed"} /\ ~destroying => Phase = "working"
         /\ confirming # None => pc \notin {"idle", "destroyed"}
         /\ pc \notin {"teardown", "draining", "destroyed"} => ~destroying
BY DEF Phase, IInv, WhereInDoWork

\* The pending events are those that the ledger has accepted and not confirmed.
LEMMA UnconfirmedOfLedger ==
  /\ Unconfirmed = {e \in Accepted : told[e] = <<>>}
  /\ Unconfirmed' = {e \in Accepted' : told'[e] = <<>>}
BY DEF Unconfirmed, Accepted

\* A confirmation of the ledger takes one pending event away; none of its other
\* steps lengthens what an event was told.
LEMMA ConfirmIsLowers ==
  ASSUME IInv, NEW e \in Events, NEW r \in Results, Confirm(e, r),
         confirming = None,
         Ledger!Next \/ UNCHANGED Ledger!vars,
         UNCHANGED Phase, Phase \in {"working", "destroying"}
  PROVE  Lower!Confirm(e)
<1>1. told \in [Events -> Seq(Results)]
  BY DEF IInv, TypeOK
<1>2. told'[e] = Append(told[e], r) /\ confirming' = e
  BY <1>1 DEF Confirm
<1>3. told'[e] # told[e]
  BY <1>1, <1>2, AppendProperties
<1>4. PICK x \in Events, q \in Results : Ledger!Confirm(x, q)
  <2>1. told'[e] # <<>>
    BY <1>1, <1>2, AppendProperties
  <2>2. ASSUME NEW x \in Events, Ledger!Free(x) PROVE FALSE
    <3>1. told' = [told EXCEPT ![x] = <<>>]
      BY <2>2 DEF Ledger!Free
    <3>2. told'[e] \in {told[e], <<>>}
      BY <1>1, <3>1
    <3> QED BY <1>3, <2>1, <3>2
  <2> QED BY <1>3, <2>2 DEF Ledger!Next, Ledger!Accept, Ledger!Close, Ledger!vars
<1>5. /\ x = e /\ e \in Accepted /\ told[e] = <<>>
      /\ Accepted' = Accepted
      /\ \A y \in Events \ {e} : told'[y] = told[y]
  BY <1>1, <1>3, <1>4 DEF Ledger!Confirm, Accepted
<1>6. told'[e] # <<>>
  BY <1>3, <1>5
<1>7. Accepted \subseteq Events
  BY DEF Accepted, Listed, IInv, TypeOK
<1>8. e \in Unconfirmed /\ Unconfirmed' = Unconfirmed \ {e}
  BY <1>5, <1>6, <1>7, UnconfirmedOfLedger
<1> QED BY <1>2, <1>8 DEF Lower!Confirm

\* A step that leaves the list and the confirmations alone moves the phase at most.
LEMMA UnconfirmedUntouched ==
  ASSUME UNCHANGED <<outgoingEvents, told>> PROVE UNCHANGED Unconfirmed
BY DEF Unconfirmed, Listed

\* A callback for errors or state changes, in one phase.
LEMMA ReportIsLowers ==
  ASSUME UNCHANGED <<outgoingEvents, told>>, confirming = None, confirming' = Report,
         \/ Phase = "working" /\ Phase' = "working"
         \/ Phase = "idle" /\ Phase' = "destroying"
  PROVE  Lower!Next
BY UnconfirmedUntouched DEF Lower!Next, Lower!ReportError, Lower!Destroy

LEMMA PhaseMoves ==
  ASSUME IInv, IInv', UNCHANGED <<outgoingEvents, told, confirming>>,
         \/ UNCHANGED Phase
         \/ Phase = "idle" /\ Phase' \in {"working", "destroying"}
         \/ Phase = "working" /\ Phase' = "idle" /\ confirming = None
  PROVE  Lower!Next \/ UNCHANGED Lower!vars
BY UnconfirmedUntouched
DEF Lower!Next, Lower!DoWork, Lower!Destroy, Lower!DoWorkReturns, Lower!vars

LEMMA EnqueueIsLowers ==
  ASSUME IInv, IInv', NEW e \in Events, Enqueue(e) PROVE Lower!Accept(e)
<1>1. /\ UNCHANGED <<told, confirming, pc, destroying>>
      /\ AppMayCall /\ told[e] = <<>> /\ e \notin Listed /\ e # confirming
  BY EnqueueAppends DEF Enqueue
<1>2. UNCHANGED Phase /\ Phase # "destroyed" /\ (Phase = "idle" \/ confirming # None)
  BY <1>1, PhaseOf DEF Phase, AppMayCall
<1>3. Listed' = Listed \cup {e}
  BY EnqueueAppends
<1>4. e \notin Unconfirmed /\ Unconfirmed' = Unconfirmed \cup {e}
  BY <1>1, <1>3 DEF Unconfirmed
<1> QED BY <1>1, <1>2, <1>4 DEF Lower!Accept

LEMMA CallbackReturnsIsLowers ==
  ASSUME IInv, IInv', CallbackReturns PROVE Lower!CallbackReturns
<1>1. UNCHANGED Phase
  BY DEF CallbackReturns, Phase
<1>2. UNCHANGED Unconfirmed
  <2>1. CASE UNCHANGED <<told, Accepted>>
    BY <2>1, UnconfirmedOfLedger
  <2>2. CASE confirming \in Events /\ Accepted' = Accepted \ {confirming}
    <3>1. told[confirming] # <<>> /\ told \in [Events -> Seq(Results)]
      BY <2>2 DEF IInv, ConfirmedOnce, TypeOK
    <3>2. \A x \in Events \ {confirming} : told'[x] = told[x]
      BY DEF CallbackReturns
    <3>3. Accepted \subseteq Events
      BY DEF Accepted, Listed, IInv, TypeOK
    <3> QED BY <2>2, <3>1, <3>2, <3>3, UnconfirmedOfLedger
  <2> QED BY <2>1, <2>2, CallbackReturnsIsFree
<1> QED BY <1>1, <1>2 DEF CallbackReturns, Lower!CallbackReturns

\* The send loop works in one phase, whatever it confirms.
LEMMA SendLoopIsLowers ==
  ASSUME IInv, IInv', SendLoop, Ledger!Next \/ UNCHANGED Ledger!vars
  PROVE  Lower!Next \/ UNCHANGED Lower!vars
<1>1. /\ pc \in {"sending", "send_async"} /\ confirming = None
      /\ UNCHANGED destroying
      /\ pc' \in {"sending", "send_async", "connection_dowork", "crashed"}
  BY DEF SendLoop, SkipEntry, CreateMessageFails, EventTimesOut, CallSendAsync,
         Visits, ConfirmUnchecked, SendAsyncTakes, SendAsyncReturns,
         SendAsyncReturnsNull, EndOfList
<1>2. Phase = "working" /\ Phase' = "working"
  BY <1>1, PhaseOf DEF Phase
<1>3. \/ UNCHANGED <<outgoingEvents, told, confirming>>
      \/ \E e \in Events, r \in Results : Confirm(e, r)
  <2>1. ASSUME NEW i \in DOMAIN outgoingEvents,
               CreateMessageFails(i) \/ EventTimesOut(i)
        PROVE  \/ UNCHANGED <<outgoingEvents, told, confirming>>
               \/ \E e \in Events, r \in Results : Confirm(e, r)
    <3>1. outgoingEvents[i] \in Events /\ {"ERROR", "TIMEOUT"} \subseteq Results
      BY <2>1, VisitsEntry DEF CreateMessageFails, EventTimesOut, Results
    <3> QED BY <2>1, <3>1 DEF CreateMessageFails, EventTimesOut, ConfirmUnchecked
  <2>2. CASE SendAsyncReturnsNull
    <3>1. current \in Events /\ "ERROR" \in Results
      BY <2>2 DEF SendAsyncReturnsNull, IInv, TypeOK, Results
    <3> QED BY <2>2, <3>1 DEF SendAsyncReturnsNull, ConfirmUnchecked
  <2>3. ASSUME NEW i \in DOMAIN outgoingEvents, SkipEntry(i) \/ CallSendAsync(i)
        PROVE  UNCHANGED <<outgoingEvents, told, confirming>>
    BY <2>3 DEF SkipEntry, CallSendAsync, listVars
  <2>4. CASE SendAsyncTakes \/ SendAsyncReturns \/ EndOfList
    BY <2>4 DEF SendAsyncTakes, SendAsyncReturns, EndOfList, listVars
  <2> QED BY <2>1, <2>2, <2>3, <2>4 DEF SendLoop
<1> QED BY <1>1, <1>2, <1>3, ConfirmIsLowers, PhaseMoves DEF Lower!Next

\* What uAMQP completes, inside a call or because its sender is destroyed.
LEMMA CompletionIsLowers ==
  ASSUME IInv, IInv', NEW e \in Events, NEW r \in Results,
         \/ on_message_send_complete(e, r)
         \/ r = "ERROR" /\ TeardownCompletes(e),
         Ledger!Next \/ UNCHANGED Ledger!vars
  PROVE  Lower!Next
<1>1. /\ pc \in {"send_async", "connection_dowork", "teardown"} /\ confirming = None
      /\ UNCHANGED <<pc, destroying>> /\ Confirm(e, r)
  BY DEF on_message_send_complete, TeardownCompletes, InUamqp
<1>2. UNCHANGED Phase /\ Phase \in {"working", "destroying"}
  BY <1>1 DEF Phase
<1> QED BY <1>1, <1>2, ConfirmIsLowers DEF Lower!Next

\* EventHubClient_LL_Destroy, once the stack is down.
LEMMA DrainIsLowers ==
  ASSUME IInv, IInv', DestroyConfirms \/ DestroyReturns,
         Ledger!Next \/ UNCHANGED Ledger!vars
  PROVE  Lower!Next
<1>1. /\ pc = "draining" /\ confirming = None /\ destroying /\ UNCHANGED destroying
      /\ Phase = "destroying"
  BY PhaseOf DEF DestroyConfirms, DestroyReturns, IInv, WhereInDoWork
<1>2. CASE DestroyConfirms
  <2>1. /\ Head(outgoingEvents) \in Events /\ "DESTROY" \in Results
        /\ Confirm(Head(outgoingEvents), "DESTROY") /\ pc' = "draining"
    BY <1>1, <1>2 DEF DestroyConfirms, IInv, TypeOK, Results
  <2>2. Phase' = "destroying"
    BY <1>1, <2>1 DEF Phase
  <2> QED BY <1>1, <2>1, <2>2, ConfirmIsLowers DEF Lower!Next
<1>3. CASE DestroyReturns
  <2>1. Unconfirmed = {} /\ UNCHANGED <<outgoingEvents, told, confirming>>
    BY <1>3 DEF DestroyReturns, Unconfirmed, Listed, listVars
  <2>2. Phase' = "destroyed"
    BY <1>3 DEF DestroyReturns, Phase
  <2> QED BY <1>1, <2>1, <2>2, UnconfirmedUntouched DEF Lower!Next, Lower!DestroyReturns
<1> QED BY <1>2, <1>3

LEMMA LowerStep ==
  IInv /\ IInv' /\ [Next]_vars => [Lower!Next]_(Lower!vars)
<1> SUFFICES ASSUME IInv, IInv', [Next]_vars
             PROVE  Lower!Next \/ UNCHANGED Lower!vars
  OBVIOUS
<1>1. Ledger!Next \/ UNCHANGED Ledger!vars
  BY LedgerStep
<1>2. CASE Application
  <2>1. ASSUME NEW e \in Events, Enqueue(e) PROVE Lower!Next
    BY <2>1, EnqueueIsLowers DEF Lower!Next
  <2>2. CASE SetMessageTimeout \/ RefreshSASTokenAsync
    BY <2>2, PhaseMoves DEF SetMessageTimeout, RefreshSASTokenAsync, listVars, Phase
  <2> QED BY <1>2, <2>1, <2>2 DEF Application, SendAsync, SendBatchAsync
<1>3. CASE DoWork
  <2>1. /\ UNCHANGED <<outgoingEvents, told, confirming, destroying>>
        /\ pc = "idle" /\ pc' \in {"idle", "sas_token_auth", "teardown"}
    BY <1>3 DEF DoWork, InitializeFails, initialize_uamqp_stack_common, listVars,
                initialize_uamqp_sender_stack, AlreadyInitialized, StartTeardown
  <2>2. Phase = "idle" /\ Phase' \in {"idle", "working"}
    BY <2>1, PhaseOf DEF Phase
  <2> QED BY <2>1, <2>2, PhaseMoves
<1>4. CASE Destroy
  <2>1. /\ UNCHANGED <<outgoingEvents, told>>
        /\ confirming = None /\ confirming' \in {None, Report}
        /\ Phase = "idle" /\ Phase' = "destroying"
    BY <1>4 DEF Destroy, StartTeardown, Phase, IInv, WhereInDoWork
  <2> QED BY <2>1, PhaseMoves, ReportIsLowers
<1>5. CASE Library
  <2>1. CASE handle_sas_token_auth \/ OpenMessageSender
    <3>1. /\ UNCHANGED <<outgoingEvents, told, destroying>>
          /\ pc \in {"sas_token_auth", "open"} /\ confirming = None /\ ~destroying
      BY <2>1 DEF handle_sas_token_auth, OpenMessageSender, listVars, IInv,
                  WhereInDoWork
    <3>2. /\ pc' # "destroyed"
          /\ UNCHANGED confirming \/ (confirming' = Report /\ pc' = "teardown")
      <4>1. CASE handle_sas_token_auth
        BY <4>1 DEF handle_sas_token_auth, AuthFails, PutToken, TokenInstalled, GoOn,
                    StartTeardown
      <4>2. CASE OpenMessageSender
        BY <4>2 DEF OpenMessageSender, listVars
      <4> QED BY <2>1, <4>1, <4>2
    <3>3. /\ Phase = "working" /\ Phase' \in {"working", "idle"}
          /\ pc' = "teardown" => Phase' = "working"
      BY <3>1, <3>2 DEF Phase
    <3> QED BY <3>1, <3>2, <3>3, PhaseMoves, ReportIsLowers
  <2>2. CASE SendLoop
    BY <1>1, <2>2, SendLoopIsLowers
  <2>3. ASSUME NEW e \in Events, TeardownCompletes(e) PROVE Lower!Next
    BY <1>1, <2>3, CompletionIsLowers DEF Results
  <2>4. CASE destroy_uamqp_stack
    <3>1. /\ UNCHANGED <<outgoingEvents, told, confirming, destroying>>
          /\ pc = "teardown" /\ confirming = None
          /\ pc' = IF destroying THEN "draining" ELSE "idle"
      BY <2>4 DEF destroy_uamqp_stack, listVars
    <3>2. CASE destroying
      BY <3>1, <3>2, PhaseMoves DEF Phase
    <3>3. CASE ~destroying
      BY <3>1, <3>3, PhaseMoves DEF Phase
    <3> QED BY <3>2, <3>3
  <2>5. CASE DestroyConfirms \/ DestroyReturns
    BY <1>1, <2>5, DrainIsLowers
  <2> QED BY <1>5, <2>1, <2>2, <2>3, <2>4, <2>5 DEF Library
<1>6. CASE CallbackReturns
  BY <1>6, CallbackReturnsIsLowers DEF Lower!Next
<1>7. CASE Uamqp
  <2>1. ASSUME NEW e \in Events, NEW r \in {"OK", "ERROR"},
               on_message_send_complete(e, r)
        PROVE  Lower!Next
    BY <1>1, <2>1, CompletionIsLowers DEF Results
  <2>2. ASSUME NEW new \in {"IDLE", "OPEN", "ERROR"},
               on_message_sender_state_changed(new)
        PROVE  Lower!Next \/ UNCHANGED Lower!vars
    <3>1. /\ UNCHANGED <<outgoingEvents, told, pc, destroying>>
          /\ pc \in {"send_async", "connection_dowork"}
          /\ confirming = None /\ confirming' \in {None, Report}
      BY <2>2 DEF on_message_sender_state_changed, InUamqp
    <3>2. Phase = "working" /\ Phase' = "working"
      BY <3>1, PhaseOf DEF Phase
    <3> QED BY <3>1, <3>2, PhaseMoves, ReportIsLowers
  <2>3. CASE \E status \in {"OK", "FAILURE"} : PutTokenCompletes(status)
    BY <2>3, PhaseMoves DEF PutTokenCompletes, listVars, Phase
  <2> QED BY <1>7, <2>1, <2>2, <2>3 DEF Uamqp
<1>8. CASE ConnectionDoworkReturns
  <2>1. /\ UNCHANGED <<outgoingEvents, told, confirming, destroying>>
        /\ pc = "connection_dowork" /\ confirming = None /\ pc' = "idle"
    BY <1>8 DEF ConnectionDoworkReturns, listVars
  <2>2. Phase = "working" /\ Phase' = "idle"
    BY <2>1, PhaseOf DEF Phase
  <2> QED BY <2>1, <2>2, PhaseMoves
<1>9. CASE Ended \/ UNCHANGED vars
  BY <1>9, PhaseMoves DEF Ended, vars, listVars, Phase
<1> QED BY <1>2, <1>3, <1>4, <1>5, <1>6, <1>7, <1>8, <1>9 DEF Next

\* The low-level sender implements LowerSender: events are confirmed only inside
\* EventHubClient_LL_DoWork and EventHubClient_LL_Destroy, one at a time, and
\* neither returns under a callback or, Destroy, before the last confirmation.
THEOREM ImplementsLower == Spec => LowerSpec
<1>1. Init => Lower!Init
  <2> SUFFICES ASSUME Init PROVE Lower!Init
    OBVIOUS
  <2>1. Unconfirmed = {}
    BY DEF Init, Unconfirmed, Listed
  <2> QED BY <2>1 DEF Init, Lower!Init, Phase
<1> QED BY <1>1, LowerStep, Inductive, PTL DEF Spec, LowerSpec, Lower!Spec
=============================================================================
