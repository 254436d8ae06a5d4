# A TLA+ development of azure-event-hubs-c

This directory specifies the Azure Event Hubs C client library
(`src/eventhub_client`) in TLA+, model-checks it with TLC and proves the most
important results with TLAPS. Definitions keep the names of the C source;
`PROJECT.json` maps each of them to the lines it stands for.

## 1. Inventory

The library has two halves, a sender and a receiver, each in two layers. The
lower layer (`_ll`) has no threads: the application, or the upper layer's worker
thread, drives it by calling `..._LL_DoWork`. Below both lie uAMQP and
azure-c-shared-utility, which are submodules and not part of this tree.

| Component | State it keeps | Operations | Talks to |
|---|---|---|---|
| `eventhubclient_ll.c` low-level sender | `outgoingEvents` list, `amqp_state`, the uAMQP handles, `message_sender_state`, `msg_timeout`, a pending refresh token | `SendAsync`, `SendBatchAsync`, `RefreshSASTokenAsync`, `SetMessageTimeout`, setters, `DoWork`, `Destroy` | calls uAMQP and `eventhubauth.c`; is called back by uAMQP (`on_message_send_complete`, `on_message_sender_state_changed`); calls the application's confirmation, state and error callbacks |
| `eventhubauth.c` CBS authorization | `cbsStatus`, `cbOperation`, creation and put times, token strings | `Create`, `Authenticate`, `Refresh`, `GetStatus`, `Destroy`, `SASTokenParse` | `cbs_put_token_async`, which calls back `OnCBSPutTokenOperationComplete`; the wall clock |
| `eventhubclient.c` sender wrapper | a lock, a worker thread handle, `threadEnabled` | blocking `Send`, `SendBatch`, the async calls, `Destroy` | a thread that calls `EventHubClient_LL_DoWork` under the lock; a condition variable per blocking send |
| `eventhubreceiver_ll.c` low-level receiver | receiver ACTIVE / INACTIVE, stack state, callbacks, wait-timeout clock | `ReceiveFromStartTimestampAsync`, `ReceiveEndAsync`, `RefreshSASTokenAsync`, `DoWork`, `Destroy` | uAMQP message receiver, `eventhubauth.c` |
| `eventhubreceiver.c` receiver wrapper | a second ACTIVE / INACTIVE, a worker thread, a list of callbacks to dispatch | the same calls, thread-safe | a thread that runs `DoWork` under the lock and the callbacks outside it |
| `eventdata.c`, `kvp_parser.c` | one value each | constructors, accessors, `kvp_parser_parse` | – |

Hard behaviours, each listed with its line under `hazards` in `PROJECT.json`:

- **Re-entrant callbacks.** `DoWork` walks a linked list and calls, in the middle
  of the walk, uAMQP functions and application callbacks that remove entries
  from the same list and append others.
- **Ownership across layers.** uAMQP holds the address of a list entry as the
  context of a send until it completes it; the library must not free that entry
  for any other reason meanwhile.
- **A bring-up spread over several calls.** `amqp_state` goes through four values in
  successive `DoWork` calls, each of which may fail, time out or be torn down.
- **Clocks.** Token expiry, refresh and put time-outs are differences of unsigned
  wall-clock seconds.
- **Threads.** The two wrappers share state between the application's threads and
  a worker, with condition variables and a dispatch list.

What makes each component correct:

- Low-level sender: every accepted event is confirmed exactly once and before the
  client is gone; no freed list entry or NULL handle is used; events reach uAMQP
  in the order of the list; no event gets stuck; `DoWork` and `Destroy` return unless
  callbacks send for ever; a stack is not torn down without telling the application; a sender in error is
  replaced.
- Authorization: a token is never reported usable when it is due for refresh; a put
  that is never answered ends in a time-out; a token string is deleted once.
- Sender wrapper: a blocking send returns, with the result of its own event.
- Low-level receiver: the end callback runs once for each receive whose end was asked
  for; no callback is told about a receive that is over; a failed stack is brought up again.
- Receiver wrapper: each callback gets the contexts of the receive it is about, in the
  order of the reports and never after the end; cloned event data is destroyed once; the
  two layers agree on ACTIVE; an end is answered; Destroy returns, and waits for the worker.

## 2. Plan

The most important behaviour first. Sections 3 to 7 describe what exists.

1. **`EventHubClientLL`** with the abstract **`ConfirmationLedger`** and **`LowerSender`** it
   implements, and the proofs of all. *Done.*
2. **`EventHubAuthCBS`**, the authorization handle together with the token handling
   of its callers, the protocol **`TokenAuthorization`** between the two, and the proofs. *Done.*
3. **`EventHubClient`**, the threads above the low-level sender, and its proofs. It
   uses that layer as `LowerSender` allows. *Done.*
4. **`EventHubReceiverLL`** with the abstract **`ReceiveSession`** it implements, and the
   proofs of both. *Done.*
5. **`EventHubReceiver`**, the threads above the low-level receiver, composed with
   **`LowerReceiver`**, the interface that `EventHubReceiverLL` is proved to implement, the
   abstract **`ReceiveService`** it implements, and its proofs. *Done.*
6. Left: the string functions (`kvp_parser.c`, SAS tokens) against reference definitions.

Composition. Each interface between two components is a module of its own, and both sides
are checked and proved against it:

| Interface | Offered by | Used by |
|---|---|---|
| `TokenAuthorization` | `EventHubAuthCBS` (`AuthorizationSpec`) | `EventHubClientLL`, `EventHubReceiverLL` (`AuthorizationSpec`) |
| `LowerSender` | `EventHubClientLL` (`LowerSpec`) | `EventHubClient` (`UsesLowerSender`) |
| `LowerReceiver` | `EventHubReceiverLL` (`LowerSpec`) | `EventHubReceiver`, whose steps of the lower layer are the actions of an instance |
| `ConfirmationLedger` | `EventHubClientLL` (`LedgerSpec`) | the application |
| `ReceiveSession`, `ReceiveService` | `EventHubReceiverLL` (`SessionSpec`), `EventHubReceiver` (`ServiceSpec`) | the wrapper, the application |

All are safety specifications: a user that implements one takes no step which the interface
does not have, and a provider shows no other. They do not say that a provider must answer;
the modules of the users state that as fairness (section 4).

## 3. The modules and the code

### `EventHubClientLL` (eventhubclient_ll.c), `ConfirmationLedger` and `LowerSender`

One member of `Events` is one node of `outgoingEvents`, a single event or a batch. A node
that was confirmed and freed may be allocated for the next send, so that the application,
and its callbacks, can send for ever with as many nodes as there are in the list at a time.
The code runs on one thread and calls back; the model keeps its call stack in two
variables. `pc` is the library function that is executing, `confirming` the entry
whose confirmation callback runs on top of it, or `Report` for a callback that is told an
error or a new state of the message sender. An application call is enabled when
no library function runs or inside such a callback (`AppMayCall`), which is where
the re-entrancy comes from; so the confirmations of `Destroy` may send too. Where an error is
told to two callbacks, one after the other, they count as one. The error callback that
`DoWork` calls last, when the stack cannot be created or opened, gets no step of its own:
what it sends is sent between this `DoWork` and the next.

| Model | Code |
|---|---|
| `amqp_state`, `message_sender_state`, `msg_timeout`, `ext_refresh_sas_token`, `outgoingEvents` | the members of `EVENTHUBCLIENT_LL` of these names; `msg_timeout` as "above zero" |
| `handles` | which of the uAMQP handles are not NULL; those under the session as one group |
| `currentStatus` | `currentStatus` of an `EVENT_DATA_LIST` node |
| `next_list_entry` | `next_list_entry` of `DoWork`'s loop (line 1807), read before the node is worked on |
| `held` | nodes whose address uAMQP keeps as the context of `messagesender_send_async` |
| `current` | the node given to a `messagesender_send_async` that has not returned |
| `told`, `error_reported` | history: what an entry was confirmed with until it is freed, and whether the error callback has run. No guard of the code's steps reads them |

The loop of `DoWork` is a step per entry and call: `SkipEntry`, `CreateMessageFails`,
`EventTimesOut`, `CallSendAsync` / `SendAsyncTakes` / `SendAsyncReturns` /
`SendAsyncReturnsNull`, and `CallbackReturns` for the code after a callback that unlinks
and frees the node. `destroy_uamqp_stack` begins in `StartTeardown` and ends in the
action of its name; between them `messagesender_destroy` completes what uAMQP holds.

uAMQP is external. What is assumed of it, from how the code uses it:
`messagesender_open` takes an idle sender to OPENING or reports ERROR; the link may
attach, detach or fail at any time that uAMQP runs; `messagesender_send_async` calls
back at most once for each message it took, and not at all for one it refused;
`messagesender_destroy` completes the messages it holds with an error before it
returns; nothing calls back after that.

`ConfirmationLedger` is what an application relies on: an accepted event is
confirmed exactly once before its entry is freed, and none is left when the client is
gone. `LedgerSpec` is its specification under the mapping `accepted <- ` entries that are
listed or being confirmed, `closed <- pc = "destroyed"`.

`LowerSender` is what the wrapper builds on: whether a call is in progress (`Phase`), which
events wait for their confirmation (`Unconfirmed`) and which callback runs, if any. Confirmations
come one at a time and inside `DoWork` and `Destroy` only, a callback may send more, and
`Destroy` returns when nothing is left. What the list, the cursor and uAMQP do is not
visible in it.

### `EventHubAuthCBS` (eventhubauth.c) and `TokenAuthorization`

A handle and the part of `DoWork` that drives it (`handle_sas_token_auth` in the
sender, `HandleSASTokenAuth` in the receiver: the same decisions). `handling` is where
that caller is: idle, the status it was told and acts on, ERROR, or in
`connection_dowork`, where the put completes. `now` is the wall clock in seconds; it
moves between any two steps, may be set back, and reading it may fail wherever the
code reads it. `Elapsed` subtracts as `uint64_t` does. A token is its expiration time;
`putting` is the one in an unanswered put and `granted` the last one the service
accepted: both are the service's side, no code reads them.

`strings` are the STRINGs that have been allocated and not deleted, with a flag for a
second deletion. An allocation may return a handle that was deleted before, as
`malloc` does. `sasTokenHandle` and `extSASToken` are the members of these names; the
other strings of the struct have a single owner and are left out.

`TokenAuthorization` is the authorization without its clock: the status of the handle, which
reports `GetStatus` may give for it, and what the caller makes of a report. The handle's side
decides by age and time which report it is; the low-level layers decide what to do with it, and
do both in one step, so that the report is visible in between only where the code destroys a
stack (`"torn_down"`). `AuthorizationSpec` of each of the three modules is its specification.
`GetStatus` of the two low-level modules is `MayReport` of that one, so that what they assume of
the handle is what `EventHubAuthCBS` is shown to do.

### `EventHubClient` (eventhubclient.c)

Application threads (`Senders`) inside a blocking `EventHubClient_Send` or `SendBatch`,
events of the asynchronous calls (`Asyncs`), the worker `EventhubClientThread`, and
`EventHubClient_Destroy`. What an application thread does under `lockInfo` is one step,
since nothing it touches is visible without the lock; the worker holds the lock over
a whole `DoWork`, so a callback runs in steps while it does. A blocking send is
"sent" after its section, "waiting" in `Condition_Wait`, "woken" after it. The callback
first stores status and result, then posts, in two steps: a sender may begin to wait
in between. The lower layer is `outgoing` (what it has to confirm), `posting` and
`LowerPhase`, under which the steps are those of `LowerSender`. `SpuriousSpec` adds wake-ups nobody posted, which POSIX and Windows
condition variables allow; `Spec` has none.

Assumed: callbacks do not call back into the wrapper (its lock is held), and Destroy
is called when no other call needs the client; a blocking send that has left its section under
the lock does not, as it uses its own context only.

### `EventHubReceiverLL` (eventhubreceiver_ll.c), `ReceiveSession` and `LowerReceiver`

A member of `Receives` is one accepted `ReceiveFromStartTimestampAsync`, with or without a
wait time-out. As in the sender, `pc` is the library function that executes and `calling`
the application's callback that runs on top of it, given `context`. The API may be called
between library calls and inside a callback, except for `DoWork` and `Destroy`, which are
called between library calls only.

| Model | Code |
|---|---|
| `state`, `receiverAMQPConnectionState`, `waitTimeoutInMs`, `lastActivityTimestamp`, `wasMessageReceived`, `extRefreshSASToken` | the members of `EVENTHUBRECEIVER_LL_STRUCT` of these names |
| `onEventReceiveCallback`, `onEventReceiveEndCallback`, `receiverQueryFilter` | the receive these pointers belong to; the event and the error callback are one, as the code sets and clears them together |
| `handles` | which members of `receiverAMQPConnection` are not NULL |
| `errored` | whether uAMQP's message receiver reported ERROR, which it repeats only after another state |
| `accepted`, `asked`, `heard`, `missed` | history: what was started, whose end callback was asked for, the time of the last message, and whether it was lost to a clock that could not be read |

`DoWork` is a step for what it does before uAMQP runs (`DoWorkActive`, `DoWorkEnding`), then
`HandleSASTokenAuth`, uAMQP's callbacks inside `connection_dowork` (`Uamqp`), and the look at
the clock after it (`ReceivingReturns`). A tear down begins with `messagereceiver_close`
(`StartClosing`), inside which uAMQP may report ERROR and the error callback may call the
API, and ends with the handles gone (`TeardownReceiverStack`, or `BringUpAbandoned` when a
step of the bring-up failed).

Assumed of uAMQP: `link_create` fails without a session; callbacks come only inside
`connection_dowork`, `messagereceiver_open` and `messagereceiver_close`.

`ReceiveSession` is what the application relies on: one receive at a time, a callback gets
the context of the receive that is current, the end callback comes with its end, only if
asked for. `SessionSpec` is its specification with `current <- onEventReceiveCallback`.

`LowerReceiver` is what the wrapper relies on, which is more: the order of state change and
callback inside `DoWork` and `Destroy`, and that errors alone are reported during a tear down.
`LowerSpec` maps the places of `pc` to seven phases (`Phase`): idle, working, ending,
failing, ended, destroying, destroyed. Bring-up, authorization and time are not visible in it.

### `EventHubReceiver` (eventhubreceiver.c) and `ReceiveService`

Application threads call, the worker runs `DoWork` of `LowerReceiver` under the lock, whose
callbacks queue dispatches (`EHR_OnAsyncCB`), copies the application's callbacks, unlocks and
hands the queue to the copies. As in `EventHubClient`, an application's call under the lock
is one step.

| Model | Code |
|---|---|
| `state`, `threadState`, `threadHandle`, `receiveCallbackList` | the members of `EVENTHUBRECEIVER_STRUCT` of these names; the handle as "not NULL" |
| `onEventReceiveCallback`, `onEventReceiveEndCallback` | the receive whose callbacks and contexts are set; event and error callback are one, as the code sets and clears them together |
| `worker` | where the worker is: before its test, at `Lock`, in `DoWork` (where it has the lock), processing the queue, ended |
| `callbacks` | its local copy, NULL until assigned: after a failed `Lock` the code passes it on all the same |
| `running` | the dispatch whose callback runs, with the context it was given |
| `cloned` | the `dataHandle`s that `EventData_Clone` made and nobody destroyed |
| `destroying` | where `EventHubReceiver_Destroy` is |
| `ll_state` .. `context` | the state of `LowerReceiver` |
| `started`, `asked`, `ended`, `lost`, `erred`, `reported`, `last`, `at` | history, and the `receive` and `n` of a dispatch with them: no guard reads them, but that a receive starts once and that reports are bounded |

A callback runs without the lock, so it may call the API like any thread does; those
calls are the steps other threads may take while `running` is set, and they go on while Destroy
waits for the worker that runs it (`AppMayCall`). The header forbids
`Destroy` in a callback. A failed `malloc` or clone drops a report (`lost`, when it was an
end); a thread that cannot be created leaves the lower receiver started.

`ReceiveService` is what the application relies on: callbacks come one at a time, in the order
of what they report, and never turn back to a receive once one of a later receive has come or
its end callback was called; an end is reported only if asked for; nothing is called from when
Destroy takes the lower layer down. `ServiceSpec` is its specification with
`calling <- ` the context of the running dispatch and `closed <- ` Destroy past its join.

## 4. The runs

| Run | Question | Instance and why it is enough |
|---|---|---|
| `ll` | Are the nodes, the cursor, the in-flight set and the handles consistent, is every event confirmed once, is every teardown reported, do `DoWork` and `Destroy` return, and is a sender in error replaced? | Three entries: one before, at and after the cursor, which is what the loop's hazards need; callbacks can append to a list being walked. Two that fail in turn and are sent again by their callbacks are enough for a `DoWork` that never returns. One entry is for batches. Both kinds of credential, chosen in the initial state. The only bound is three entries at a time; they are sent again without limit, and stacks come and go. Every event has a callback here, as with three entries a `DoWork` that never returns needs them all; one without a callback is in `ll_null`, and the proofs are for any mix. |
| `ll_null` | Finding: a NULL callback is called. | Two entries, one without a callback. |
| `auth` | Is the service's token as young as the status says, does a put end, who owns the strings? | Both credentials. Expiration 3, refresh 2, time-outs 0 and 2, clock 0..6: a token is created, refreshed and expires within the clock; `Wrap` 16 exceeds every sum, so a difference wraps only where 64 bits would. Three handles, of which at most two are live beside a fresh one. |
| `auth_expired`, `auth_twice` | Findings about external tokens. | The same, external tokens only. |
| `client` | Contexts, results, the worker's life, and that waiting senders and Destroy return. | Two senders and one asynchronous event: two waits, one of which may be woken by the other's event if that were possible. Each may send again and again. |
| `client_lost`, `client_spurious` | Findings about the condition variable. | The same. |
| `receiver` | Are callbacks, handles and the wait clock of the receiver consistent, and is the end of a receive answered, and is the wrapper's view of it right? | Two receives, since what is left of one can only harm the next; wait time-out 2 and clock 0..3: a wait may end, be reset by a message and end again. Stacks come and go without limit. |
| `wrapper` | Are queue, callbacks and event data of the thread-safe receiver consistent, whatever threads and failures do, are ends answered and does Destroy return? | Two receives: one whose dispatches are still queued or running when the other starts. `MaxReports` 4: reports before and after an end, of both receives; ends and the queue are not bounded otherwise. |
| `receiver_end`, `receiver_stuck` | Findings about the end callback and the failed bring-up. | The same, with a shorter clock. |

Properties. Each run also checks `IInv`, the inductive invariant of section 5, of which the
type invariant `TypeOK` is the first part.

- `HeldSafe`, `CursorSafe`: the two pointers that outlive a call, uAMQP's context and the
  loop's next entry, never point to freed memory.
- `InFlightPrefix`: events reach uAMQP in the order of the list, across reconnections.
- `NoOrphanedAck`: an entry marked WAITING_FOR_ACK, which the loop skips, is one that
  uAMQP will complete, so no event is stuck.
- `NoUseOfNullHandle`: each function finds the handles it uses.
- `NoSilentTeardown`: the error callback has been called before a stack goes down.
- `LedgerSpec`: refinement, exactly one confirmation of each event before its entry is freed.
- `LowerSpec` of `EventHubClientLL`: refinement, the wrapper's view of the low-level sender:
  confirmations one at a time, never between calls, none left when Destroy returns.
- `AuthorizationSpec`: refinement, the protocol of tokens. The handle reports only what its
  status allows, whatever the clock does: that is its half, checked in `auth`. Theirs is checked in
  `ll` and `receiver`, where the reports are those of the protocol by definition: both low-level
  layers put a token only when told to, and from a failure on do nothing with the handle but
  destroy it.
- `CallsReturn`: `DoWork` and `Destroy` return, or else the walk over the list (`Walking`) goes
  on for ever and callbacks send for ever in it. This exception is what the code does, see
  section 6; the property says that there is no other: no walk turns back, nothing waits,
  and bring-up, authorization, `connection_dowork` and tear down end whatever callbacks send.
- `ErrorRecovers`: a message sender in error is torn down, with the same exception.
- `OnlyFreshTokensUsed`: told OK, the service's token is at least a refresh margin away from its
  expiry; told REFRESH_REQUIRED, it has not expired. It survives failures between
  the store of the creation time and the put, and a clock set back.
- `StringsOwned`: no token string is leaked; with a generated token none is deleted twice.
- `PutEnds`: a put with a time-out leads to an authorized or replaced handle.
- `ContextsSafe`, `WorkerOwnsLowerLayer`, `ResultIsItsOwn`: no context is freed before its
  callback, no `DoWork` on a destroyed client, no foreign result.
- `UsesLowerSender`: refinement, the threads call the low-level sender, which has no lock of its
  own, one at a time and not once it is destroyed.
- `WaitersReturn`, `DestroyFinishes`: what the wait gets right, and the end of the worker.
- `NoNullCallback`: the callbacks that `DoWork` and `OnMessageReceived` call without a check
  are registered, whatever earlier callbacks did.
- `QuietWhenTimedOut`: a wait time-out means that no message came for as long, also when
  messages came while a token was refreshed; the exception is a message after which the
  clock could not be read, which the code forgets (line 1887).
- `SessionSpec`: refinement, callbacks belong to the current receive.
- `LowerSpec` of `EventHubReceiverLL`: refinement, the wrapper's view of the low-level receiver.
- `CallsOwnReceive`: a dispatch does not say which receive it is about and the callbacks
  are copied when `DoWork` is over; still a callback never gets the contexts of another
  receive, though receives end and start while the queue is processed.
- `ServiceSpec`: refinement, callbacks in the order of the reports and of the receives, none
  after the end of its receive, ends only where asked for.
- `NothingDropped`: the code drops a dispatch that finds no callback, which happens to an
  error of a tear down only.
- `DataOwned`: no cloned event is leaked, or destroyed before its callback has returned.
- `QuietWhenDestroyed`, `DestroyFinishes`: Destroy waits for the worker, wherever it is, and
  is not kept waiting for ever.
- `EndIsAnswered` of `EventHubReceiver`: an ended receive is given up by the lower layer and, if
  asked for, its end callback runs, unless there was no memory or Destroy came.
- `EndIsAnswered` of `EventHubReceiverLL`: once no call is in progress and an end callback is
  registered, it comes.
  The finding `receiver_end` is about ends that are torn down, or cleared, before that.

Deadlock is checked in every run but the three of `EventHubClient`, which does end: a
destroyed client with all senders back has no step left. In the low-level modules the
ended states stutter explicitly (`Ended`).

### Fairness

`FairSpec` of `EventHubClientLL`: the library's own steps, the return of callbacks and
of uAMQP calls are weakly fair, that is, code that runs goes on running. `WorkedSpec` adds
that `DoWork` is called again, which the requirements ask of the application and the
wrapper's worker does. Nothing is assumed of the network.
`FairSpec` of `EventHubAuthCBS`: `DoWork` is called again, the clock advances, and it is
set back finitely often only; each time it is set back a put may start over.
`FairSpec` of `EventHubClient`: every thread is scheduled, `Lock` does not fail for ever
(strong fairness of `WorkerLocks`), and the lower layer confirms each event it accepted
(strong fairness of `Confirm`, since `DoWork` comes and goes). The last is a promise about
the network that the lower layer does not keep without a time-out; the liveness of a
blocking send depends on it in the code as well. That `DoWork` returns under the worker is
justified although it need not in `EventHubClientLL`: the worker holds the lock, so that nothing
is sent while `DoWork` walks the list, from a callback or by another thread.
`WorkedSpec` of `EventHubReceiverLL`: the library's own steps, the return of callbacks and
`DoWork` are weakly fair. `RecoveringSpec` adds that a `DoWork` which may create handles
does so in the end (strong fairness), so that `receiver_stuck` refutes what the code does
and not the memory it gets.
`FairSpec` of `EventHubReceiver`: the worker and the caller of Destroy are scheduled (weak
fairness of `Library`), the application's callbacks return, `Lock` does not fail for ever
(strong fairness of `WorkerLocks`: the lock comes and goes), and `connection_dowork` does not
report for ever without returning (strong fairness of `LowerWorks`).

## 5. What is proved

All by TLAPS, for every value of the constants under the named assumptions, which
say that NULL is not an entry, a handle, a context or a receive, that the periods are what
`EventHubAuthCBS_Create` accepts (0 < refresh <= expiration), and that times do not
overflow 64 bits.

- `EventHubClientLL_proofs`: `Inductive` proves `[]IInv`. The four safety properties do not
  follow from one another alone: `HeldSafe` needs that an entry is confirmed once
  (`ConfirmedOnce`: what was told something is being confirmed) and that the entry being sent is like one already held (`CurrentSafe`);
  `InFlightPrefix` and `CursorSafe` need that all entries before the cursor are in flight
  or being confirmed, and that the one under it still waits while uAMQP may complete
  entries (`CursorInOrder`); which handles exist follows from `amqp_state` (`UpState`) and
  where each function runs (`WhereInDoWork`). From it follow `TypeCorrect`, `HeldEntriesSafe`,
  `CursorNeverDangles`, `InFlightFirst`, `NothingOrphaned`, `HandlesExist`, and
  `ImplementsLedger`: each step is one step of the ledger or none. `TeardownsReported` rests on
  a small invariant of its own (`Reported`).
- `EventHubClientLL_refinements`: `ImplementsLower` and `ImplementsAuthorization`. For the first,
  what is pending is read off the ledger (`UnconfirmedOfLedger`), so that a step of the ledger
  tells which event is accepted or confirmed, and `PhaseMoves` which call it belongs to. For
  the second, `AuthorizationStutters`, `TeardownBegins` and `TeardownEnds` prove once what the
  many steps share that lead to and from a tear down.
- `EventHubAuthCBS_proofs`: `Inductive`, `TypeCorrect`, `TokensOwned` and `FreshTokens`. The key
  part is `Stamped`: what `sasTokenCreateTimestamp` says fits the token in the put, and the
  granted one unless the caller was handed an error and will destroy the handle.
  `ImplementsAuthorization` proves that age and clock decide only among the reports that
  `TokenAuthorization` allows.
  `ElapsedIsAge` shows that an unsigned difference below the expiration period is the
  true age.
- `EventHubClient_proofs`: `Inductive`, `TypeCorrect`, `ContextsAllocated`, `WorkerRuns`,
  `OwnResult` and `UsesLower`, for any number of threads. `SendInStep` ties the state of a send, its
  context and the pending callback together; `ThreadInStep` ties the thread handle, the
  worker and Destroy together.
- `EventHubReceiverLL_proofs`: `Inductive` proves `[]IInv`, for any set of receives and any wait
  time-out. `Registered` ties the state, the callbacks, the filter and the end callback to one
  receive; `StackState` says what the stack's state says of the handles, and claims nothing
  while the receiver is to be created, where a failure may have destroyed them all;
  `WhereInDoWork` carries the state that a function saw across the callbacks it makes;
  `ActivityNoted` relates the wait clock to the last message. `StartClosingStep` proves once
  what the four beginnings of a tear down share. From it follow `TypeCorrect`,
  `CallbacksSet`, `HandlesExist`, `TimeoutsQuiet`, `ImplementsSession`, `ImplementsLower` and
  `ImplementsAuthorization`; the last needs that there is a handle exactly where its status
  says so, also in the states that a failed bring-up leaves.
- `EventHubReceiver_proofs`: `Inductive` proves `[]IInv`, for any set of receives and queues of
  any length. `CallsOwnReceive` does not follow from the queue alone. `QueueInStep` says that
  every queued dispatch finds the callbacks of its receive, among the members while the
  worker has the lock and among the copies afterwards, and that the queue is empty wherever
  the copies are not assigned (a failed `Lock`) or calls could change the members before they
  are copied. `LevelsInStep` ties the two layers to the same receive, unless the worker could
  not be created or the lower layer failed, which it has reported by then (`erred`).
  `QueueInOrder` has the end of a receive behind everything else in the queue, from
  which nothing is called after it; `Over` keeps receives that ended out of the queue;
  `Ordered` says that a queue is about one receive, one that is not before that of the last
  callback and not after that of the lower layer, and `EndsAsked` that an end in the queue was
  asked for. From it follow `TypeCorrect`, `OwnReceive`, `DataIsOwned`, `DestroyedQuietly`,
  `Delivered`, and `ImplementsService`: each step is one of the service or none. `QueueAppend`
  and `QueueTail` say what the two operations on the list do to the set of its dispatches and
  to their places, `StartAppends` what starting a receive does to the order of receives, and
  `OrderStays` covers `Ordered` in all steps that call nobody and start nothing.

Only model-checked: all liveness (`CallsReturn`, `ErrorRecovers`, `PutEnds`, `WaitersReturn`,
`DestroyFinishes` and `EndIsAnswered` of each module), which is out of the prover's reach (it needs ENABLED of the fair actions), and the refuted
properties of section 6.

## 6. Findings

Each is a run that TLC ends with a counterexample; `PROJECT.json` quotes the lines.

- `ll_null`: `DoWork` calls the callback of an event that has none when the event times out or
  its message cannot be built or sent (eventhubclient_ll.c:1904, 1918).
- `auth_expired`: the expiry check of external tokens is inverted (eventhubauth.c:907).
- `auth_twice`: an external token is held by two members and deleted for each
  (eventhubauth.c:955, 833, 853).
- `client_lost`: a confirmation that comes before the sender waits is lost and the blocking
  send never returns (eventhubclient.c:432, 512).
- `client_spurious`: a wake-up without a post ends the send with an error and frees the
  context of a callback still to come (same lines).
- `receiver_end`: a receive ended from the error callback of a failed authorization loses its
  end callback, although `ReceiveEndAsync` returned OK (eventhubreceiver_ll.c:1837, 1844). So
  does one that is started and ended inside the end callback of the one before (line 1808).
- `receiver_stuck`: after a failure to create the message receiver the stack is destroyed but
  its state stays PENDING_RECEIVER_CREATE; no later `DoWork` can bring it up, and the
  application is not told (eventhubreceiver_ll.c:987, 1041).

Met on the way, without a run, as no document says anything of it: the loop of `DoWork`
(eventhubclient_ll.c:1803-1931) and the drain of `Destroy` (1248-1265) take up what callbacks
append to the list meanwhile. With two entries whose messages cannot be built or that time out,
and whose callbacks send again, the appended entry always lies after `next_list_entry`, and
`DoWork` does not return; one entry is not enough, since the list head was saved before its
callback runs. `Destroy` does not return if each DESTROY confirmation sends again. The model
has both behaviours, and without its exception `CallsReturn` fails on each.

Also without a run: after a failed authorization the lower receiver is INACTIVE
and the wrapper still ACTIVE. A new receive is then refused because "there is an exiting
Receiver instance" (eventhubreceiver.c:434-437) and `ReceiveEndAsync` by the lower layer
(eventhubreceiver_ll.c:1403), so that only Destroy is left. `LevelsInStep` allows this state,
and says that it is reached in no other way. A worker that cannot be created (line 473) leaves
the opposite: the lower receiver ACTIVE, the wrapper INACTIVE, and every later receive refused.

The requirements name a refresh period of 4800 s for an expiration of 3600 s
(SRS_EVENTHUBCLIENT_LL_29_110); the code uses 48 * 60 = 2880 s. With the documented
values `EventHubAuthCBS_Create` would refuse to create the handle.

## 7. What is not modelled

- `eventdata.c`: values with one owner; the clone that crosses components is `cloned` of
  `EventHubReceiver`. `kvp_parser.c`: a pure function over strings, called once to split a SAS
  token; the protocols see only that it succeeds or fails.
- Of the receiver wrapper: construction, `RefreshSASTokenAsync` and `SetConnectionTracing`,
  which pass a call on under the lock, the result codes of dispatches, and a
  `ThreadAPI_Join` that fails, after which the code destroys the receiver under its worker.
- Of the low-level receiver: construction, the checks of SAS token strings,
  `SetConnectionTracing`, the decoding of messages (one that cannot be read is a stutter),
  and handles that leak when the clock fails after the receiver was created (line 1051).
- Of the sender: the construction from a connection string or a token, the encoding of
  messages and batches (a choice between success and failure), the registration of the error
  and state-changed callbacks, `SetLogTrace`, and the exact age of an event (the time-out is a
  choice once `msg_timeout` is set). `SendAsync` from a DESTROY confirmation reads the tick
  counter that `Destroy` has freed already (line 1244): what it reads is an error, which is a
  stutter, or the age of an entry that only the drain sees, which does not look at it.
- Of the authorization: `SASTokenParse`, URIs and keys, `cbsAuthCompleteTimestamp`, which
  nothing reads.
- Of the sender wrapper: the setters and `RefreshSASTokenAsync`, which pass a call on under the
  lock, and its construction.
- The samples, the tests and the C# consumer: users of the library.
