---------------------- MODULE EventHubReceiver_proofs ----------------------
(***************************************************************************)
(* Proofs about EventHubReceiver, for any set of receives and any bound of  *)
(* what the lower layer reports.                                            *)
(***************************************************************************)
EXTENDS EventHubReceiver, TLAPS

\* What adding at the tail and removing at the head do to the set of queued
\* dispatches and to the places in the queue.
LEMMA QueueAppend ==
  ASSUME receiveCallbackList \in Seq(Dispatches), NEW d \in Dispatches,
         receiveCallbackList' = Append(receiveCallbackList, d)
  PROVE  /\ Queue' = Queue \cup {d} /\ Queue \subseteq Dispatches
         /\ receiveCallbackList' \in Seq(Dispatches)
         /\ DOMAIN receiveCallbackList' = 1..(Len(receiveCallbackList) + 1)
         /\ receiveCallbackList'[Len(receiveCallbackList) + 1] = d
         /\ \A i \in DOMAIN receiveCallbackList :
              receiveCallbackList'[i] = receiveCallbackList[i]
         /\ DOMAIN receiveCallbackList = 1..Len(receiveCallbackList)
         /\ Len(receiveCallbackList) \in Nat
<1> DEFINE n == Len(receiveCallbackList)
<1>1. /\ receiveCallbackList' \in Seq(Dispatches)
      /\ n \in Nat /\ DOMAIN receiveCallbackList = 1..n
      /\ DOMAIN receiveCallbackList' = 1..(n + 1)
      /\ receiveCallbackList'[n + 1] = d
      /\ \A i \in 1..n : receiveCallbackList'[i] = receiveCallbackList[i]
  OBVIOUS
<1>2. Queue \subseteq Dispatches
  BY DEF Queue
<1> HIDE DEF n
<1>3. Queue' = Queue \cup {d}
  <2>1. ASSUME NEW x \in Queue' PROVE x \in Queue \cup {d}
    <3>1. PICK i \in 1..(n + 1) : x = receiveCallbackList'[i]
      BY <1>1 DEF Queue
    <3> QED BY <1>1, <3>1 DEF Queue
  <2>2. ASSUME NEW x \in Queue PROVE x \in Queue'
    <3>1. PICK i \in 1..n : x = receiveCallbackList[i]
      BY <1>1 DEF Queue
    <3>2. i \in DOMAIN receiveCallbackList' /\ receiveCallbackList'[i] = x
      BY <1>1, <3>1
    <3> QED BY <3>2 DEF Queue
  <2>3. d \in Queue'
    BY <1>1 DEF Queue
  <2> QED BY <2>1, <2>2, <2>3
<1> QED BY <1>1, <1>2, <1>3 DEF n

LEMMA QueueTail ==
  ASSUME receiveCallbackList \in Seq(Dispatches), receiveCallbackList # <<>>,
         receiveCallbackList' = Tail(receiveCallbackList)
  PROVE  /\ Queue = {Head(receiveCallbackList)} \cup Queue'
         /\ Head(receiveCallbackList) \in Dispatches
         /\ Head(receiveCallbackList) = receiveCallbackList[1]
         /\ receiveCallbackList' \in Seq(Dispatches)
         /\ Len(receiveCallbackList) \in Nat \ {0}
         /\ DOMAIN receiveCallbackList = 1..Len(receiveCallbackList)
         /\ DOMAIN receiveCallbackList' = 1..(Len(receiveCallbackList) - 1)
         /\ \A i \in DOMAIN receiveCallbackList' :
              /\ i + 1 \in DOMAIN receiveCallbackList
              /\ receiveCallbackList'[i] = receiveCallbackList[i + 1]
<1> DEFINE n == Len(receiveCallbackList)
<1>1. /\ receiveCallbackList' \in Seq(Dispatches)
      /\ n \in Nat \ {0} /\ DOMAIN receiveCallbackList = 1..n
      /\ DOMAIN receiveCallbackList' = 1..(n - 1)
      /\ Head(receiveCallbackList) = receiveCallbackList[1]
      /\ \A i \in 1..(n - 1) : receiveCallbackList'[i] = receiveCallbackList[i + 1]
  OBVIOUS
<1>2. Head(receiveCallbackList) \in Dispatches
  OBVIOUS
<1> HIDE DEF n
<1>3. Queue = {Head(receiveCallbackList)} \cup Queue'
  <2>1. ASSUME NEW x \in Queue' PROVE x \in Queue
    <3>1. PICK i \in 1..(n - 1) : x = receiveCallbackList'[i]
      BY <1>1 DEF Queue
    <3>2. i + 1 \in DOMAIN receiveCallbackList /\ receiveCallbackList[i + 1] = x
      BY <1>1, <3>1
    <3> QED BY <3>2 DEF Queue
  <2>2. ASSUME NEW x \in Queue PROVE x \in {Head(receiveCallbackList)} \cup Queue'
    <3>1. PICK i \in 1..n : x = receiveCallbackList[i]
      BY <1>1 DEF Queue
    <3>2. CASE i = 1
      BY <1>1, <3>1, <3>2
    <3>3. CASE i # 1
      <4>1. i - 1 \in DOMAIN receiveCallbackList' /\ receiveCallbackList'[i - 1] = x
        BY <1>1, <3>1, <3>3
      <4> QED BY <4>1 DEF Queue
    <3> QED BY <3>2, <3>3
  <2>3. Head(receiveCallbackList) \in Queue
    BY <1>1 DEF Queue
  <2> QED BY <2>1, <2>2, <2>3
<1> QED BY <1>1, <1>2, <1>3 DEF n

LEMMA QueueEmpty ==
  ASSUME receiveCallbackList = <<>>
  PROVE  Queue = {} /\ DOMAIN receiveCallbackList = {}
BY DEF Queue

LEMMA QueueAbout ==
  ASSUME QueueTypes
  PROVE  /\ Queue \subseteq Dispatches
         /\ \A d \in Queue : d.receive \in Receives /\ d.receive # NULL
<1>1. Queue \subseteq Dispatches
  BY DEF QueueTypes, Queue
<1> QED BY <1>1, WrapperAssumption DEF Dispatches

\* Nothing is queued when the worker is not between DoWork and the end of its
\* processing, and the lower layer is not being destroyed.
LEMMA NothingQueued ==
  ASSUME IInv, worker \notin {"dowork", "process"}, destroying # "LL_Destroy"
  PROVE  receiveCallbackList = <<>> /\ Queue = {} /\ DOMAIN receiveCallbackList = {}
BY QueueEmpty DEF IInv, QueueInStep

\* The order of the receives that were started, and what starting one more does to
\* it: that one comes after all others, which keep their order.
LEMMA BeforeSelf ==
  ASSUME started \in Seq(Receives), NEW r \in Started
  PROVE  Service!Before(r, r)
BY DEF Started, Service!Started, Service!Before

LEMMA TurnsStay ==
  ASSUME UNCHANGED <<started, at>>
  PROVE  /\ Started' = Started
         /\ \A p, q : Service!Before(p, q)' <=> Service!Before(p, q)
         /\ \A q : Service!InTurn(q)' <=> Service!InTurn(q)
BY DEF Started, Service!Started, Service!Before, Service!InTurn

LEMMA StartAppends ==
  ASSUME started \in Seq(Receives), NEW r \in Receives, started' = Append(started, r)
  PROVE  /\ started' \in Seq(Receives)
         /\ Started' = Started \cup {r}
         /\ \A p, q : Service!Before(p, q) => Service!Before(p, q)'
         /\ \A p \in Started \cup {r} : Service!Before(p, r)'
<1> DEFINE n == Len(started)
<1>1. /\ started' \in Seq(Receives)
      /\ n \in Nat /\ DOMAIN started = 1..n /\ DOMAIN started' = 1..(n + 1)
      /\ started'[n + 1] = r
      /\ \A i \in 1..n : started'[i] = started[i]
  OBVIOUS
<1> HIDE DEF n
<1>2. \A i \in 1..n : i \in 1..(n + 1) /\ i <= n + 1
  BY <1>1
<1>3. n + 1 \in 1..(n + 1)
  BY <1>1
<1>4. Started' = Started \cup {r}
  <2>1. ASSUME NEW x \in Started' PROVE x \in Started \cup {r}
    <3>1. PICK i \in 1..(n + 1) : x = started'[i]
      BY <1>1 DEF Started, Service!Started
    <3>2. i \in 1..n \/ i = n + 1
      BY <1>1, <3>1
    <3> QED BY <1>1, <3>1, <3>2 DEF Started, Service!Started
  <2>2. ASSUME NEW x \in Started PROVE x \in Started'
    <3>1. PICK i \in 1..n : x = started[i]
      BY <1>1 DEF Started, Service!Started
    <3> QED BY <1>1, <1>2, <3>1 DEF Started, Service!Started
  <2>3. r \in Started'
    BY <1>1, <1>3 DEF Started, Service!Started
  <2> QED BY <2>1, <2>2, <2>3
<1>5. ASSUME NEW p, NEW q, Service!Before(p, q) PROVE Service!Before(p, q)'
  <2>1. PICK i, j \in 1..n : i <= j /\ started[i] = p /\ started[j] = q
    BY <1>1, <1>5 DEF Service!Before
  <2>2. /\ i \in DOMAIN started' /\ j \in DOMAIN started'
        /\ i <= j /\ started'[i] = p /\ started'[j] = q
    BY <1>1, <1>2, <2>1
  <2> QED BY <2>2 DEF Service!Before
<1>6. ASSUME NEW p \in Started \cup {r} PROVE Service!Before(p, r)'
  <2>1. PICK i \in 1..(n + 1) : started'[i] = p
    BY <1>1, <1>4, <1>6 DEF Started, Service!Started
  <2>2. /\ i \in DOMAIN started' /\ n + 1 \in DOMAIN started'
        /\ i <= n + 1 /\ started'[i] = p /\ started'[n + 1] = r
    BY <1>1, <1>3, <2>1
  <2> QED BY <2>2 DEF Service!Before
<1> QED BY <1>1, <1>4, <1>5, <1>6

\* The order is as good as before when no receive is started and no callback
\* called, the queue does not grow and the lower layer turns to no other receive.
LEMMA OrderStays ==
  ASSUME Ordered, UNCHANGED <<started, at>>, Queue' \subseteq Queue,
         {ll_receive', context'} \subseteq {ll_receive, context, NULL},
         ll_pc' \notin {"idle", "destroyed"} =>
           \A d \in Queue' : d.receive \in {ll_receive', context'}
  PROVE  Ordered'
<1>1. at' \in Started' \cup {NULL}
  BY TurnsStay DEF Ordered
<1>2. \A d \in Queue' : Service!InTurn(d.receive)'
  BY TurnsStay DEF Ordered
<1>3. ASSUME NEW r \in {ll_receive', context'} \ {NULL}
      PROVE  /\ Service!InTurn(r)'
             /\ \A d \in Queue' : Service!Before(d.receive, r)'
  <2>1. r \in {ll_receive, context} \ {NULL}
    OBVIOUS
  <2>2. Service!InTurn(r) /\ \A d \in Queue : Service!Before(d.receive, r)
    BY <2>1 DEF Ordered
  <2> QED BY <2>2, TurnsStay
<1>4. \A d, e \in Queue' : d.receive = e.receive
  BY DEF Ordered
<1> QED BY <1>1, <1>2, <1>3, <1>4 DEF Ordered

\* The initial states satisfy the invariant.
LEMMA InitIInv == Init => IInv
<1> SUFFICES ASSUME Init PROVE IInv
  OBVIOUS
<1> USE WrapperAssumption, QueueEmpty DEF Init, Lower!Init
<1>1. UserTypes /\ WorkerTypes
  BY DEF UserTypes, WorkerTypes
<1>2. QueueTypes
  BY DEF QueueTypes
<1>3. LowerTypes /\ PastTypes
  BY DEF LowerTypes, PastTypes, Kinds
<1>4. CallsOwnReceive /\ DataOwned /\ WorkerInStep
  BY DEF CallsOwnReceive, DataOwned, WorkerInStep
<1>5. LowerInStep /\ LevelsInStep /\ QueueInStep
  BY DEF LowerInStep, LevelsInStep, QueueInStep
<1>6. QueueInOrder /\ Over
  BY DEF QueueInOrder, Over
<1>7. Ordered /\ EndsAsked
  BY DEF Ordered, EndsAsked
<1> QED BY <1>1, <1>2, <1>3, <1>4, <1>5, <1>6, <1>7 DEF IInv, TypeOK
-----------------------------------------------------------------------------
(* Every step preserves the invariant: one lemma per action, one step per     *)
(* conjunct that the action can disturb.                                     *)

\* What the lower layer does by itself: it reports, or its DoWork returns.
LEMMA LowerStep == IInv /\ (LowerReports \/ LowerWorks) => IInv'
<1> SUFFICES ASSUME IInv, LowerReports \/ LowerWorks PROVE IInv'
  OBVIOUS
<1> USE DEF IInv, TypeOK
<1>1. /\ UNCHANGED <<userVars, threadVars, worker, callbacks, running, listVars,
                     destroying, started, asked, calledVars, reportVars>>
      /\ Queue' = Queue
      /\ worker = "dowork" \/ destroying = "LL_Destroy"
  BY DEF LowerReports, LowerWorks, Queue, listVars
<1>2. /\ calling = "none"
      /\ \/ /\ UNCHANGED <<ll_state, ll_receive, ll_end>>
            /\ \/ /\ calling' \in {"event", "timeout", "error"} /\ context' = ll_receive
                  /\ ll_receive # NULL
                  /\ \/ ll_pc = "working" /\ ll_pc' = "working"
                     \/ ll_pc = "working" /\ ll_pc' = "failing" /\ calling' = "error"
                     \/ /\ calling' = "error" /\ ll_pc' = ll_pc
                        /\ ll_pc \in {"ending", "failing", "destroying"}
               \/ UNCHANGED <<calling, context>> /\ ll_pc = "working" /\ ll_pc' = "idle"
         \/ /\ UNCHANGED ll_end /\ ll_state' = "INACTIVE" /\ ll_receive' = NULL
            /\ ll_pc \in {"ending", "failing"}
            /\ \/ /\ ll_pc = "ending" /\ ll_end # NULL /\ ll_pc' = "ended"
                  /\ calling' = "end" /\ context' = ll_end
               \/ UNCHANGED <<calling, context>> /\ ll_pc' = "idle"
  <2>1. CASE Lower!Fail \/ \E k \in {"event", "timeout", "error"} : Lower!Report(k)
    BY <2>1 DEF Lower!Fail, Lower!Report, LowerInStep
  <2>2. CASE Lower!WorkReturns \/ Lower!TornDown
    BY <2>2 DEF Lower!WorkReturns, Lower!TornDown, Lower!callVars
  <2> QED BY <2>1, <2>2 DEF LowerReports, LowerWorks
<1>3. UserTypes' /\ WorkerTypes' /\ QueueTypes' /\ PastTypes'
  BY <1>1 DEF UserTypes, WorkerTypes, QueueTypes, PastTypes, userVars, threadVars, listVars,
              calledVars, reportVars
<1>4. LowerTypes'
  BY <1>2 DEF LowerTypes, Kinds
<1>5. CallsOwnReceive' /\ DataOwned' /\ QueueInStep'
  BY <1>1 DEF CallsOwnReceive, DataOwned, QueueInStep, userVars, listVars, calledVars
<1>6. WorkerInStep'
  BY <1>1, <1>2 DEF WorkerInStep, threadVars
<1>7. LowerInStep'
  BY <1>2 DEF LowerInStep, LowerTypes
<1>8. LevelsInStep'
  BY <1>1, <1>2 DEF LevelsInStep, LowerInStep, userVars, threadVars, reportVars
<1>9. QueueInOrder'
  BY <1>1, <1>2 DEF QueueInOrder, listVars, calledVars, reportVars
<1>10. Over'
  <2>1. {ll_receive', context'} \subseteq {ll_receive, context, NULL}
    BY <1>2 DEF LowerInStep, LevelsInStep
  <2>2. NULL \notin {d.receive : d \in Queue}
    BY QueueAbout
  <2>3. ll_receive' \in {ll_receive, NULL}
    BY <1>2
  <2>4. Started' = Started
    BY <1>1, TurnsStay DEF calledVars
  <2> QED BY <1>1, <2>1, <2>2, <2>3, <2>4 DEF Over, calledVars
<1>11. Ordered'
  <2>1. {ll_receive', context'} \subseteq {ll_receive, context, NULL}
    BY <1>2 DEF LowerInStep, LevelsInStep
  <2>2. ll_pc \notin {"idle", "destroyed"} /\ context = NULL
    BY <1>2 DEF LowerInStep
  <2>3. ASSUME ll_pc' \notin {"idle", "destroyed"}, NEW d \in Queue
        PROVE  d.receive \in {ll_receive', context'}
    <3>1. d.receive = ll_receive
      BY <2>2, QueueAbout DEF Ordered
    <3>2. ll_receive \in {ll_receive', context'}
      BY <1>2, <2>3 DEF LowerInStep, LevelsInStep
    <3> QED BY <3>1, <3>2
  <2> QED BY <1>1, <2>1, <2>3, OrderStays DEF calledVars
<1>12. EndsAsked'
  BY <1>1 DEF EndsAsked, userVars
<1> QED BY <1>3, <1>4, <1>5, <1>6, <1>7, <1>8, <1>9, <1>10, <1>11, <1>12

\* A dispatch joins the queue, or is lost, and the lower layer goes on.
LEMMA OnAsyncCBStep == IInv /\ EHR_OnAsyncCB => IInv'
<1> SUFFICES ASSUME IInv, EHR_OnAsyncCB PROVE IInv'
  OBVIOUS
<1> USE DEF IInv, TypeOK
<1> DEFINE d == DispatchCreateHelper
<1>1. /\ UNCHANGED <<userVars, threadVars, worker, callbacks, running, destroying,
                     started, asked, calledVars>>
      /\ reported' = reported + 1 /\ reported \in Nat /\ last \in Nat /\ last' = last
      /\ calling # "none"
      /\ erred' = IF calling = "error" THEN erred \cup {context} ELSE erred
  BY DEF EHR_OnAsyncCB, PastTypes, calledVars
<1>2. /\ UNCHANGED <<ll_state, ll_receive>>
      /\ ll_pc' = "idle" \/ ll_pc' = ll_pc
      /\ ll_pc' # "ended"
      /\ ll_end' \in {ll_end, NULL}
      /\ ll_end' # ll_end => ll_pc = "ended"
      /\ calling' = "none" /\ context' = NULL
      /\ ll_pc' = "idle" => ll_pc \in {"working", "ended"}
  BY DEF EHR_OnAsyncCB, Lower!Return, LowerTypes, LowerInStep
<1>3. /\ ll_pc \in {"working", "ending", "failing", "ended", "destroying"}
      /\ worker = "dowork" \/ destroying = "LL_Destroy"
  BY <1>1 DEF LowerTypes, LowerInStep, WorkerInStep
<1>4. d \in Dispatches
  BY <1>1 DEF DispatchCreateHelper, Dispatches, LowerTypes, LowerInStep
<1>5. d.type = calling /\ d.receive = context /\ d.n = reported + 1
  BY DEF DispatchCreateHelper
<1> HIDE DEF d
<1>6. \/ AsyncDispatchCallbackListAdd(d) /\ UNCHANGED lost
      \/ /\ lost' = IF calling = "end" THEN lost \cup {context} ELSE lost
         /\ UNCHANGED listVars
  BY DEF EHR_OnAsyncCB, d
<1>7. UserTypes' /\ WorkerTypes' /\ LowerTypes'
  BY <1>1, <1>2 DEF UserTypes, WorkerTypes, LowerTypes, userVars, threadVars
<1>8. PastTypes'
  BY <1>1, <1>4, <1>5, <1>6 DEF PastTypes, calledVars, Dispatches
<1>9. CallsOwnReceive' /\ WorkerInStep'
  BY <1>1, <1>2, <1>3 DEF CallsOwnReceive, WorkerInStep, threadVars
<1>10. LowerInStep'
  BY <1>1, <1>2, <1>3 DEF LowerInStep
<1>11. LevelsInStep'
  <2>1. /\ ll_pc' # "ended"
        /\ ll_pc' = "failing" => ll_pc = "failing" /\ calling = "error" /\ context = ll_receive
    BY <1>1, <1>2, <1>3 DEF LowerInStep, LowerTypes, Kinds
  <2>2. erred \subseteq erred' /\ (calling = "error" => context \in erred')
    BY <1>1
  <2>3. ll_pc' = "destroyed" <=> ll_pc = "destroyed"
    BY <1>2, <1>3
  <2>4. ll_state = "INACTIVE_PENDING" => ll_end' = ll_end
    BY <1>2 DEF LowerInStep
  <2> QED BY <1>1, <1>2, <2>1, <2>2, <2>3, <2>4 DEF LevelsInStep, userVars, threadVars
<1>12. /\ \A e \in Queue : e.receive = context
       /\ ll_receive \in {context, NULL} /\ context # NULL
       /\ ll_pc' \notin {"idle", "destroyed"} => ll_receive = context
  <2>1. /\ calling = "end" => ll_receive = NULL /\ ll_pc' = "idle"
        /\ calling # "end" => ll_receive = context
        /\ context # NULL
    BY <1>1, <1>2, <1>3 DEF LowerInStep, LowerTypes, Kinds
  <2>2. ASSUME NEW e \in Queue PROVE e.receive \in {ll_receive, context} \ {NULL}
    BY <1>3, QueueAbout DEF Ordered
  <2> QED BY <2>1, <2>2
<1>13. CASE UNCHANGED listVars
  <2>1. Queue' = Queue /\ UNCHANGED <<receiveCallbackList, cloned>>
    BY <1>13 DEF Queue, listVars
  <2>2. QueueTypes' /\ DataOwned' /\ QueueInStep'
    BY <1>1, <2>1 DEF QueueTypes, DataOwned, QueueInStep, userVars, calledVars
  <2>3. Queue \subseteq Dispatches
    BY DEF Queue, QueueTypes
  <2>4. QueueInOrder'
    <3>1. \A e \in Queue : e.n \in (last + 1)..(reported + 1)
      BY <1>1, <2>3 DEF QueueInOrder, Dispatches
    <3>2. ll_pc' # "idle" => ll_pc # "idle"
      BY <1>2
    <3> QED BY <1>1, <2>1, <3>1, <3>2 DEF QueueInOrder
  <2>5. Over'
    BY <1>1, <1>2, <2>1, TurnsStay DEF Over, calledVars
  <2>6. Ordered'
    BY <1>1, <1>2, <1>12, <2>1, OrderStays DEF calledVars
  <2>7. EndsAsked'
    BY <1>1, <2>1 DEF EndsAsked, userVars
  <2> QED BY <1>7, <1>8, <1>9, <1>10, <1>11, <2>2, <2>4, <2>5, <2>6, <2>7
<1>14. CASE AsyncDispatchCallbackListAdd(d)
  <2> DEFINE n == Len(receiveCallbackList)
  <2>1. /\ receiveCallbackList' = Append(receiveCallbackList, d)
        /\ cloned' = IF calling = "event" THEN cloned \cup {reported + 1} ELSE cloned
    BY <1>5, <1>14 DEF AsyncDispatchCallbackListAdd
  <2>2. /\ Queue' = Queue \cup {d} /\ Queue \subseteq Dispatches
        /\ receiveCallbackList' \in Seq(Dispatches)
        /\ n \in Nat
        /\ DOMAIN receiveCallbackList = 1..n
        /\ DOMAIN receiveCallbackList' = 1..(n + 1)
        /\ receiveCallbackList'[n + 1] = d
        /\ \A i \in 1..n : receiveCallbackList'[i] = receiveCallbackList[i]
    BY <1>4, <2>1, QueueAppend DEF QueueTypes
  <2> HIDE DEF n
  <2>3. QueueTypes'
    BY <1>1, <2>1, <2>2 DEF QueueTypes
  <2>4. DataOwned'
    BY <1>1, <1>5, <2>1, <2>2 DEF DataOwned
  <2>5. QueueInStep'
    <3>1. worker = "dowork" =>
            Finds(d, onEventReceiveCallback, onEventReceiveEndCallback)
      BY <1>3, <1>5 DEF Finds, LowerInStep, LevelsInStep, WorkerInStep, LowerTypes,
                        UserTypes, Kinds
    <3> QED BY <1>1, <1>3, <2>2, <3>1 DEF QueueInStep, WorkerInStep, userVars
  <2>6. QueueInOrder'
    <3>1. /\ last <= reported
          /\ \A e \in Queue : e.type # "end" /\ e.n \in (last + 1)..reported
      BY <1>3 DEF QueueInOrder
    <3>2. \A e \in Queue' : e.n \in (last + 1)..(reported + 1)
      BY <1>1, <1>5, <2>2, <3>1 DEF Dispatches
    <3>3. ASSUME NEW i \in 1..(n + 1), NEW j \in 1..(n + 1), i < j
          PROVE  /\ receiveCallbackList'[i].n < receiveCallbackList'[j].n
                 /\ receiveCallbackList'[i].type # "end"
      <4>1. i \in 1..n /\ receiveCallbackList[i] \in Queue
        BY <2>2, <3>3 DEF Queue
      <4>2. CASE j \in 1..n
        BY <2>2, <3>3, <4>1, <4>2 DEF QueueInOrder
      <4>3. CASE j = n + 1
        <5>1. receiveCallbackList[i].n < reported + 1
          BY <1>1, <2>2, <3>1, <4>1 DEF Dispatches
        <5> QED BY <1>5, <2>2, <3>1, <4>1, <4>3, <5>1
      <4> QED BY <2>2, <3>3, <4>2, <4>3
    <3>4. ll_pc' # "idle" => \A e \in Queue' : e.type # "end"
      BY <1>2, <1>3, <1>5, <2>2, <3>1 DEF LowerInStep
    <3> QED BY <1>1, <2>2, <3>1, <3>2, <3>3, <3>4 DEF QueueInOrder
  <2>7. Over'
    <3>1. context \in Started \ ended
      BY <1>12 DEF Over
    <3>2. calling = "end" => ll_receive = NULL
      BY DEF LowerInStep
    <3>3. Started' = Started
      BY <1>1, TurnsStay DEF calledVars
    <3> QED BY <1>1, <1>2, <1>4, <1>5, <2>2, <3>1, <3>2, <3>3, WrapperAssumption
            DEF Over, calledVars, Dispatches
  <2>8. Ordered'
    <3>1. /\ UNCHANGED <<started, at>>
          /\ context \in Started /\ Service!InTurn(context)
          /\ \A e \in Queue' : e.receive = context
          /\ Service!Before(context, context)
      BY <1>1, <1>5, <1>12, <2>2, BeforeSelf DEF calledVars, Over, Ordered, PastTypes
    <3>2. at' \in Started' \cup {NULL}
      BY <3>1, TurnsStay DEF Ordered
    <3>3. \A e \in Queue' : Service!InTurn(e.receive)'
      BY <3>1, TurnsStay
    <3>4. \A r \in {ll_receive', context'} \ {NULL} :
            /\ Service!InTurn(r)'
            /\ \A e \in Queue' : Service!Before(e.receive, r)'
      BY <1>2, <1>12, <3>1, TurnsStay
    <3>5. ll_pc' \notin {"idle", "destroyed"} =>
            \A e \in Queue' : e.receive \in {ll_receive', context'}
      BY <1>2, <1>12, <3>1
    <3> QED BY <3>1, <3>2, <3>3, <3>4, <3>5 DEF Ordered
  <2>9. EndsAsked'
    <3>1. calling = "end" => context \in asked
      BY <1>12 DEF LowerInStep, LevelsInStep, EndsAsked
    <3> QED BY <1>1, <1>5, <2>2, <3>1 DEF EndsAsked, userVars
  <2> QED BY <1>7, <1>8, <1>9, <1>10, <1>11, <2>3, <2>4, <2>5, <2>6, <2>7, <2>8, <2>9
<1> QED BY <1>6, <1>13, <1>14

\* The worker between its stations: it looks at threadState, finds that it cannot
\* lock, copies the callbacks when DoWork is done, and sleeps.
LEMMA WorkerStep ==
  IInv /\ (WorkerChecks \/ LockFails \/ DoWorkReturns \/ WorkerSleeps) => IInv'
<1> SUFFICES ASSUME IInv, WorkerChecks \/ LockFails \/ DoWorkReturns \/ WorkerSleeps
             PROVE IInv'
  OBVIOUS
<1> USE DEF IInv, TypeOK
<1>1. /\ UNCHANGED <<userVars, threadVars, running, listVars, destroying, lowerVars,
                     started, asked, calledVars, reportVars>>
      /\ Queue' = Queue
      /\ ll_pc \notin {"working", "ending", "failing", "ended"}
      /\ destroying \in {"LL_Destroy", "destroyed"} => worker' = "ended"
      /\ worker # "none" /\ worker' # "none"
      /\ running = NULL
      /\ worker' \in {"check", "lock", "process", "ended"}
  BY DEF WorkerChecks, LockFails, DoWorkReturns, WorkerSleeps, Queue, listVars, WorkerInStep
<1>2. \/ callbacks' = NULL \/ callbacks' = callbacks
      \/ callbacks' = [event |-> onEventReceiveCallback, end |-> onEventReceiveEndCallback]
  BY DEF WorkerChecks, LockFails, DoWorkReturns, WorkerSleeps
<1>3. /\ UserTypes' /\ QueueTypes' /\ LowerTypes' /\ PastTypes'
      /\ CallsOwnReceive' /\ DataOwned' /\ LowerInStep' /\ LevelsInStep'
      /\ QueueInOrder' /\ Over' /\ Ordered' /\ EndsAsked'
  <2>1. UserTypes' /\ QueueTypes' /\ LowerTypes' /\ PastTypes'
    BY <1>1 DEF UserTypes, QueueTypes, LowerTypes, PastTypes, userVars, listVars, lowerVars,
                calledVars, reportVars
  <2>2. CallsOwnReceive' /\ DataOwned' /\ LowerInStep' /\ LevelsInStep'
    BY <1>1 DEF CallsOwnReceive, DataOwned, LowerInStep, LevelsInStep, userVars, threadVars,
                listVars, lowerVars, calledVars, reportVars
  <2>3. QueueInOrder' /\ Over'
    BY <1>1, TurnsStay DEF QueueInOrder, Over, listVars, lowerVars, calledVars, reportVars
  <2>4. Ordered'
    BY <1>1, OrderStays DEF Ordered, lowerVars, calledVars
  <2>5. EndsAsked'
    BY <1>1 DEF EndsAsked, userVars
  <2> QED BY <2>1, <2>2, <2>3, <2>4, <2>5
<1>4. WorkerTypes'
  BY <1>1, <1>2 DEF WorkerTypes, UserTypes, Copies, threadVars
<1>5. WorkerInStep'
  BY <1>1 DEF WorkerInStep, threadVars, lowerVars
<1>6. QueueInStep'
  <2>1. CASE WorkerChecks \/ LockFails \/ WorkerSleeps
    <3>1. receiveCallbackList = <<>> /\ Queue = {}
      BY <1>1, <2>1, QueueEmpty DEF WorkerChecks, LockFails, WorkerSleeps, QueueInStep,
                                      WorkerInStep
    <3> QED BY <1>1, <3>1 DEF QueueInStep, listVars
  <2>2. CASE DoWorkReturns
    <3>1. /\ worker' = "process" /\ callbacks' # NULL
          /\ callbacks'.event = onEventReceiveCallback
          /\ callbacks'.end = onEventReceiveEndCallback
          /\ \A d \in Queue : Finds(d, onEventReceiveCallback, onEventReceiveEndCallback)
      BY <2>2, NullAssumption DEF DoWorkReturns, QueueInStep, UserTypes, Copies
    <3> QED BY <1>1, <3>1 DEF QueueInStep
  <2> QED BY <2>1, <2>2
<1> QED BY <1>3, <1>4, <1>5, <1>6

\* The worker takes the lock and enters DoWork with an empty queue.
LEMMA WorkerLocksStep == IInv /\ WorkerLocks => IInv'
<1> SUFFICES ASSUME IInv, WorkerLocks PROVE IInv'
  OBVIOUS
<1> USE DEF IInv, TypeOK
<1>1. /\ UNCHANGED <<userVars, threadVars, callbacks, running, listVars, destroying,
                     started, asked, calledVars, reportVars>>
      /\ UNCHANGED <<ll_state, ll_receive, ll_end, calling, context>>
      /\ worker = "lock" /\ worker' = "dowork"
      /\ \/ ll_pc' = ll_pc
         \/ ll_pc = "idle" /\ ll_state = "ACTIVE" /\ ll_pc' = "working"
         \/ ll_pc = "idle" /\ ll_state = "INACTIVE_PENDING" /\ ll_pc' = "ending"
  BY DEF WorkerLocks, Lower!Work, Lower!callVars, lowerVars, LowerTypes
<1>2. Queue = {} /\ DOMAIN receiveCallbackList = {}
  BY <1>1, NothingQueued DEF WorkerInStep
<1>3. Queue' = {} /\ UNCHANGED receiveCallbackList
  BY <1>1, <1>2 DEF Queue, listVars
<1>4. UserTypes' /\ QueueTypes' /\ LowerTypes' /\ PastTypes' /\ WorkerTypes'
  BY <1>1 DEF UserTypes, QueueTypes, LowerTypes, PastTypes, WorkerTypes, userVars, threadVars,
              listVars, calledVars, reportVars
<1>5. CallsOwnReceive' /\ DataOwned'
  BY <1>1, <1>2, <1>3 DEF CallsOwnReceive, DataOwned, listVars, calledVars
<1>6. WorkerInStep'
  BY <1>1 DEF WorkerInStep, threadVars
<1>7. LowerInStep' /\ LevelsInStep'
  BY <1>1 DEF LowerInStep, LevelsInStep, userVars, threadVars, reportVars
<1>8. QueueInStep'
  BY <1>1, <1>3 DEF QueueInStep
<1>9. QueueInOrder' /\ Over'
  BY <1>1, <1>2, <1>3, TurnsStay DEF QueueInOrder, Over, calledVars, reportVars
<1>10. Ordered'
  BY <1>1, <1>3, OrderStays DEF calledVars
<1>11. EndsAsked'
  BY <1>1, <1>3 DEF EndsAsked, userVars
<1> QED BY <1>4, <1>5, <1>6, <1>7, <1>8, <1>9, <1>10, <1>11

\* What the dispatch at the head of the queue finds among the copied callbacks.
LEMMA HeadFinds ==
  ASSUME IInv, worker = "process", receiveCallbackList # <<>>,
         NEW d, d = Head(receiveCallbackList)
  PROVE  /\ d \in Dispatches /\ d \in Queue
         /\ CallbackFor(d) \in {d.receive, NULL} /\ d.receive # NULL
         /\ d.type # "error" => CallbackFor(d) = d.receive
<1>1. d \in Dispatches /\ d \in Queue
  BY DEF IInv, TypeOK, QueueTypes, Queue
<1>2. Finds(d, callbacks.event, callbacks.end) /\ d.type \in Kinds
  BY <1>1 DEF IInv, QueueInStep, Dispatches
<1>3. d.receive # NULL
  BY <1>1, WrapperAssumption DEF Dispatches
<1> QED BY <1>1, <1>2, <1>3 DEF Finds, CallbackFor, Kinds

\* The dispatch at the head of the queue is handed to its callback, or dropped.
LEMMA ProcessStep == IInv /\ AsyncDispatchCallbackListProcess => IInv'
<1> SUFFICES ASSUME IInv, AsyncDispatchCallbackListProcess PROVE IInv'
  OBVIOUS
<1> USE DEF IInv, TypeOK
<1> DEFINE d == Head(receiveCallbackList)
           n == Len(receiveCallbackList)
<1>1. /\ UNCHANGED <<userVars, threadVars, worker, callbacks, cloned, destroying,
                     lowerVars, started, asked, reportVars>>
      /\ worker = "process" /\ running = NULL
      /\ receiveCallbackList # <<>> /\ receiveCallbackList' = Tail(receiveCallbackList)
      /\ callbacks # NULL
  BY DEF AsyncDispatchCallbackListProcess, QueueInStep
<1>2. /\ Queue = {d} \cup Queue'
      /\ d \in Dispatches /\ d = receiveCallbackList[1]
      /\ receiveCallbackList' \in Seq(Dispatches)
      /\ n \in Nat \ {0}
      /\ DOMAIN receiveCallbackList = 1..n
      /\ DOMAIN receiveCallbackList' = 1..(n - 1)
      /\ \A i \in 1..(n - 1) : receiveCallbackList'[i] = receiveCallbackList[i + 1]
  BY <1>1, QueueTail DEF QueueTypes
<1> HIDE DEF n
<1>3. \/ CallbackFor(d) = NULL /\ UNCHANGED <<running, last, ended, at>>
      \/ /\ CallbackFor(d) # NULL /\ CallbackFor(d) = d.receive
         /\ running' = [dispatch |-> d, context |-> d.receive]
         /\ last' = d.n /\ at' = d.receive
         /\ ended' = IF d.type = "end" THEN ended \cup {d.receive} ELSE ended
  BY <1>1, HeadFinds DEF AsyncDispatchCallbackListProcess, calledVars
<1>4. /\ \A e \in Queue' : d.n < e.n /\ e \in Queue
      /\ d.type = "end" => Queue' = {}
      /\ d \in Queue /\ d.n \in Nat /\ d.receive \in Receives
  <2>1. ASSUME NEW e \in Queue' PROVE d.n < e.n /\ d.type # "end"
    <3>1. PICK i \in 1..(n - 1) : e = receiveCallbackList'[i]
      BY <1>2 DEF Queue
    <3>2. 1 \in 1..n /\ i + 1 \in 1..n /\ 1 < i + 1
      BY <1>2, <3>1
    <3> QED BY <1>2, <3>1, <3>2 DEF QueueInOrder
  <2> QED BY <1>2, <2>1 DEF Dispatches
<1>5. running' # NULL => CallbackFor(d) # NULL
  BY <1>1, <1>3
<1> HIDE DEF d
<1>6. UserTypes' /\ WorkerTypes' /\ LowerTypes'
  BY <1>1 DEF UserTypes, WorkerTypes, LowerTypes, userVars, threadVars, lowerVars
<1>7. QueueTypes'
  BY <1>1, <1>2, <1>3, <1>4 DEF QueueTypes, Calls
<1>8. PastTypes'
  BY <1>1, <1>3, <1>4 DEF PastTypes, reportVars
<1>9. CallsOwnReceive'
  BY <1>1, <1>3 DEF CallsOwnReceive
<1>10. DataOwned'
  <2>1. cloned = {e.n : e \in {e \in Queue : e.type = "event"}}
    BY <1>1 DEF DataOwned
  <2>2. CASE d.type = "event"
    <3>1. cloned = {e.n : e \in {e \in Queue' : e.type = "event"}} \cup {d.n}
      BY <1>2, <2>1, <2>2
    <3>2. running' # NULL /\ running'.dispatch = d /\ last' = d.n
      <4>1. CallbackFor(d) # NULL
        BY <1>1, <2>2, HeadFinds DEF d
      <4>2. [dispatch |-> d, context |-> d.receive] \in Calls
        BY <1>2, <1>4 DEF Calls
      <4> QED BY <1>3, <4>1, <4>2, NullAssumption
    <3> QED BY <1>1, <2>2, <3>1, <3>2 DEF DataOwned
  <2>3. CASE d.type # "event"
    <3>1. cloned = {e.n : e \in {e \in Queue' : e.type = "event"}}
      BY <1>2, <2>1, <2>3
    <3>2. running' # NULL => running'.dispatch = d
      BY <1>1, <1>3
    <3> QED BY <1>1, <2>3, <3>1, <3>2 DEF DataOwned
  <2> QED BY <2>2, <2>3
<1>11. WorkerInStep' /\ LowerInStep' /\ LevelsInStep'
  BY <1>1 DEF WorkerInStep, LowerInStep, LevelsInStep, userVars, threadVars, lowerVars,
              reportVars
<1>12. QueueInStep'
  BY <1>1, <1>4 DEF QueueInStep
<1>13. QueueInOrder'
  <2>1. /\ last \in Nat /\ reported \in Nat /\ last < d.n /\ d.n <= reported
        /\ reported' = reported
        /\ \A e \in Queue : e.n \in (last + 1)..reported
    BY <1>1, <1>4 DEF QueueInOrder, PastTypes, reportVars
  <2>2. last' \in {last, d.n} /\ (running' # NULL => running'.dispatch.n = last')
    BY <1>1, <1>3
  <2>3. \A e \in Queue' : e.n \in (last' + 1)..reported'
    BY <1>4, <2>1, <2>2
  <2>4. \A i, j \in DOMAIN receiveCallbackList' : i < j =>
          /\ receiveCallbackList'[i].n < receiveCallbackList'[j].n
          /\ receiveCallbackList'[i].type # "end"
    BY <1>2 DEF QueueInOrder
  <2>5. UNCHANGED ll_pc
    BY <1>1 DEF lowerVars
  <2> QED BY <1>4, <2>1, <2>2, <2>3, <2>4, <2>5 DEF QueueInOrder
<1>14. Over'
  <2>1. UNCHANGED <<started, ll_receive, context, ll_pc, calling>> /\ Started' = Started
    BY <1>1 DEF lowerVars, Started, Service!Started
  <2>2. CASE ended' = ended
    BY <1>4, <2>1, <2>2 DEF Over
  <2>3. CASE d.type = "end" /\ ended' = ended \cup {d.receive}
    <3>1. d.receive # ll_receive /\ d.receive \in Started
      BY <1>4, <2>3 DEF Over
    <3>2. calling = "none" /\ context = NULL
      BY <1>1 DEF LowerInStep, WorkerInStep, LowerTypes
    <3> QED BY <1>4, <2>1, <2>3, <3>1, <3>2 DEF Over
  <2> QED BY <1>3, <2>2, <2>3
<1>15. Ordered'
  <2>1. /\ UNCHANGED <<started, ll_receive, context, ll_pc>>
        /\ context = NULL /\ ll_pc \in {"idle", "destroyed"} \cup {"destroying"}
    BY <1>1 DEF lowerVars, LowerInStep, WorkerInStep, LowerTypes
  <2>2. CASE at' = at
    <3>1. ll_pc' \notin {"idle", "destroyed"} =>
            \A e \in Queue' : e.receive \in {ll_receive', context'}
      BY <1>4, <2>1 DEF Ordered
    <3> QED BY <1>4, <2>1, <2>2, <3>1, OrderStays
  <2>3. CASE at' = d.receive
    <3> PICK c \in Receives : c = d.receive
      BY <1>4
    <3>1. /\ c \in Started /\ Service!Before(c, c)
          /\ \A e \in Queue' : e.receive = c
          /\ ll_receive # NULL => ll_receive \in Started /\ Service!Before(c, ll_receive)
      BY <1>4, BeforeSelf, WrapperAssumption DEF Over, Ordered, PastTypes
    <3>2. Started' = Started
      BY <2>1 DEF Started, Service!Started
    <3>3. ASSUME NEW q \in Started, Service!Before(c, q)
          PROVE  Service!InTurn(q)' /\ Service!Before(c, q)'
      BY <2>1, <2>3, <3>2, <3>3 DEF Service!InTurn, Service!Before, Started
    <3>4. \A r \in {ll_receive', context'} \ {NULL} :
            /\ Service!InTurn(r)'
            /\ \A e \in Queue' : Service!Before(e.receive, r)'
      BY <2>1, <3>1, <3>3
    <3>5. \A e \in Queue' : Service!InTurn(e.receive)'
      BY <3>1, <3>3
    <3>6. ll_pc' \notin {"idle", "destroyed"} =>
            \A e \in Queue' : e.receive \in {ll_receive', context'}
      BY <1>4, <2>1 DEF Ordered
    <3> QED BY <2>3, <3>1, <3>2, <3>4, <3>5, <3>6 DEF Ordered
  <2> QED BY <1>3, <2>2, <2>3
<1>16. EndsAsked'
  BY <1>1, <1>4 DEF EndsAsked, userVars
<1> QED BY <1>6, <1>7, <1>8, <1>9, <1>10, <1>11, <1>12, <1>13, <1>14, <1>15, <1>16

\* The callback returns and the data of its event is destroyed.
LEMMA CallbackReturnsStep == IInv /\ CallbackReturns => IInv'
<1> SUFFICES ASSUME IInv, CallbackReturns PROVE IInv'
  OBVIOUS
<1> USE DEF IInv, TypeOK
<1>1. /\ UNCHANGED <<userVars, threadVars, worker, callbacks, receiveCallbackList,
                     destroying, lowerVars, started, asked, calledVars, reportVars>>
      /\ running # NULL /\ running' = NULL
      /\ cloned' = cloned \ {last}
      /\ Queue' = Queue
      /\ last \in Nat /\ reported \in Nat
  BY DEF CallbackReturns, Queue, QueueInOrder, PastTypes
<1>2. UserTypes' /\ WorkerTypes' /\ QueueTypes' /\ LowerTypes' /\ PastTypes'
  BY <1>1 DEF UserTypes, WorkerTypes, QueueTypes, LowerTypes, PastTypes, userVars, threadVars,
              lowerVars, calledVars, reportVars
<1>3. CallsOwnReceive' /\ WorkerInStep' /\ LowerInStep' /\ LevelsInStep'
  BY <1>1 DEF CallsOwnReceive, WorkerInStep, LowerInStep, LevelsInStep, userVars, threadVars,
              lowerVars, reportVars
<1>4. DataOwned'
  <2>1. \A d \in Queue : d.n # last
    BY <1>1 DEF QueueInOrder
  <2> QED BY <1>1, <2>1 DEF DataOwned
<1>5. QueueInStep' /\ QueueInOrder' /\ Over'
  BY <1>1, TurnsStay DEF QueueInStep, QueueInOrder, Over, userVars, lowerVars, calledVars,
                         reportVars
<1>6. Ordered' /\ EndsAsked'
  <2>1. Ordered'
    BY <1>1, OrderStays DEF Ordered, lowerVars, calledVars
  <2> QED BY <1>1, <2>1 DEF EndsAsked, userVars
<1> QED BY <1>2, <1>3, <1>4, <1>5, <1>6

\* No call of the lower layer is under way when the lock is free and the
\* application may call.
LEMMA LowerIdle ==
  ASSUME IInv, LockFree, AppMayCall
  PROVE  /\ ll_pc = "idle" /\ calling = "none" /\ context = NULL
         /\ destroying \in {"no", "joining"}
<1>1. ll_pc = "idle"
  BY DEF AppMayCall, IInv, TypeOK, LowerTypes, WorkerInStep, LockFree
<1> QED BY <1>1 DEF AppMayCall, IInv, LowerInStep

\* A receive starts: its callbacks replace those of the one before, of which
\* the queue may still hold dispatches.
LEMMA ReceiveStep ==
  ASSUME NEW r \in Receives, IInv, ExecuteCommonReceiveFromStartTimestampAsync(r)
  PROVE  IInv'
<1> USE DEF IInv, TypeOK
<1>1. /\ UNCHANGED <<callbacks, running, listVars, destroying, asked, calledVars, reportVars>>
      /\ UNCHANGED <<ll_pc, calling, context>>
      /\ destroying \in {"no", "joining"} /\ worker # "dowork"
      /\ r \notin Started /\ r # NULL
      /\ started' \in Seq(Receives) /\ Started' = Started \cup {r}
      /\ state = "INACTIVE" /\ ll_state = "INACTIVE"
      /\ ll_state' = "ACTIVE" /\ ll_receive' = r /\ ll_end' = NULL
      /\ ll_pc = "idle" /\ calling = "none" /\ context = NULL
      /\ Queue' = Queue
  BY WrapperAssumption, LowerIdle, StartAppends
     DEF ExecuteCommonReceiveFromStartTimestampAsync, LockFree, Lower!Start, Lower!callVars,
         Queue, listVars, PastTypes
<1>2. \/ /\ threadHandle' = TRUE /\ state' = "ACTIVE" /\ onEventReceiveCallback' = r
         /\ onEventReceiveEndCallback' = NULL
         /\ \/ threadHandle /\ UNCHANGED <<threadState, worker>>
            \/ ~threadHandle /\ threadState' = "RUN" /\ worker' = "check"
      \/ ~threadHandle /\ threadState' = "END" /\ UNCHANGED <<userVars, threadHandle, worker>>
  BY DEF ExecuteCommonReceiveFromStartTimestampAsync, CreateThread
<1>3. QueueTypes' /\ PastTypes' /\ CallsOwnReceive' /\ DataOwned'
  BY <1>1 DEF QueueTypes, PastTypes, CallsOwnReceive, DataOwned, listVars, calledVars, reportVars
<1>4. UserTypes' /\ WorkerTypes'
  BY <1>1, <1>2 DEF UserTypes, WorkerTypes, userVars
<1>5. LowerTypes' /\ LowerInStep'
  BY <1>1 DEF LowerTypes, LowerInStep
<1>6. WorkerInStep'
  BY <1>1, <1>2 DEF WorkerInStep
<1>7. LevelsInStep'
  BY <1>1, <1>2 DEF LevelsInStep, userVars
<1>8. QueueInStep'
  <2>1. CASE worker' = worker
    BY <1>1, <2>1 DEF QueueInStep, listVars
  <2>2. CASE ~threadHandle
    <3>1. receiveCallbackList = <<>> /\ Queue = {} /\ worker' \in {"none", "check"}
      BY <1>1, <1>2, <2>2, NothingQueued DEF WorkerInStep
    <3> QED BY <1>1, <3>1 DEF QueueInStep, listVars
  <2> QED BY <1>2, <2>1, <2>2
<1>9. QueueInOrder'
  BY <1>1 DEF QueueInOrder, listVars, calledVars, reportVars
<1>10. Over'
  BY <1>1 DEF Over, calledVars
<1>11. Ordered'
  <2>1. /\ at' = at /\ at \in Started \cup {NULL}
        /\ \A d \in Queue : Service!InTurn(d.receive) /\ d.receive \in Started
    BY <1>1 DEF Ordered, Over, calledVars
  <2>2. /\ \A p, q : Service!Before(p, q) => Service!Before(p, q)'
        /\ \A p \in Started \cup {r} : Service!Before(p, r)'
    BY StartAppends DEF ExecuteCommonReceiveFromStartTimestampAsync, PastTypes
  <2>3. \A q : Service!InTurn(q) => Service!InTurn(q)'
    BY <1>1, <2>1, <2>2 DEF Service!InTurn, Started
  <2>4. Service!InTurn(r)'
    BY <1>1, <2>1, <2>2 DEF Service!InTurn, Started
  <2> QED BY <1>1, <2>1, <2>2, <2>3, <2>4 DEF Ordered
<1>12. EndsAsked'
  BY <1>1, <1>2 DEF EndsAsked, userVars
<1> QED BY <1>3, <1>4, <1>5, <1>6, <1>7, <1>8, <1>9, <1>10, <1>11, <1>12

\* A receive is ended: both layers forget its callbacks and keep its end callback.
LEMMA ReceiveEndStep ==
  ASSUME NEW withCallback \in BOOLEAN, IInv, EventHubReceiver_ReceiveEndAsync(withCallback)
  PROVE  IInv'
<1> USE DEF IInv, TypeOK
<1>1. /\ UNCHANGED <<threadVars, worker, callbacks, running, listVars, destroying, started,
                     calledVars, reportVars, ll_receive, ll_pc, calling, context>>
      /\ destroying \in {"no", "joining"} /\ worker # "dowork"
      /\ state = "ACTIVE" /\ state' = "INACTIVE"
      /\ onEventReceiveCallback' = NULL
      /\ ll_state = "ACTIVE" /\ ll_state' = "INACTIVE_PENDING"
      /\ threadHandle /\ onEventReceiveCallback = ll_receive /\ ll_receive # NULL
      /\ ll_pc = "idle" /\ calling = "none" /\ context = NULL
      /\ Queue' = Queue
  BY LowerIdle
     DEF EventHubReceiver_ReceiveEndAsync, LockFree, Lower!RequestEnd, Lower!callVars, Queue,
         listVars, LevelsInStep
<1>2. /\ onEventReceiveEndCallback' \in {ll_receive, NULL}
      /\ ll_end' = onEventReceiveEndCallback'
      /\ asked' \subseteq asked \cup {ll_receive} /\ asked \subseteq asked'
      /\ onEventReceiveEndCallback' \in asked' \cup {NULL}
  BY <1>1 DEF EventHubReceiver_ReceiveEndAsync, Lower!RequestEnd
<1>3. QueueTypes' /\ WorkerTypes' /\ CallsOwnReceive' /\ DataOwned'
  BY <1>1 DEF QueueTypes, WorkerTypes, CallsOwnReceive, DataOwned, threadVars, listVars,
              calledVars
<1>4. UserTypes' /\ PastTypes' /\ LowerTypes'
  BY <1>1, <1>2 DEF UserTypes, PastTypes, LowerTypes, calledVars, reportVars
<1>5. WorkerInStep' /\ LowerInStep'
  BY <1>1 DEF WorkerInStep, LowerInStep, threadVars
<1>6. LevelsInStep'
  BY <1>1, <1>2 DEF LevelsInStep, threadVars
<1>7. QueueInStep' /\ QueueInOrder' /\ Over'
  BY <1>1, TurnsStay DEF QueueInStep, QueueInOrder, Over, listVars, calledVars, reportVars
<1>8. Ordered' /\ EndsAsked'
  <2>1. Ordered'
    BY <1>1, OrderStays DEF calledVars
  <2> QED BY <1>1, <1>2, <2>1 DEF EndsAsked
<1> QED BY <1>3, <1>4, <1>5, <1>6, <1>7, <1>8

\* EventHubReceiver_Destroy, up to where the lower layer is destroyed.
LEMMA DestroyStep == IInv /\ (EventHubReceiver_Destroy \/ ThreadAPI_Join) => IInv'
<1> SUFFICES ASSUME IInv, EventHubReceiver_Destroy \/ ThreadAPI_Join PROVE IInv'
  OBVIOUS
<1> USE DEF IInv, TypeOK
<1>1. /\ UNCHANGED <<userVars, threadHandle, worker, callbacks, running, listVars, started,
                     asked, calledVars, reportVars>>
      /\ UNCHANGED <<ll_state, ll_receive, ll_end, calling, context>>
      /\ threadState' \in {threadState, "END"}
      /\ destroying \in {"no", "joining"}
      /\ Queue' = Queue
      /\ \/ destroying' = "joining" /\ ll_pc' = ll_pc
         \/ /\ destroying' = "LL_Destroy" /\ ll_pc = "idle" /\ ll_pc' = "destroying"
            /\ worker \in {"none", "ended"}
  <2>1. CASE EventHubReceiver_Destroy
    BY <2>1 DEF EventHubReceiver_Destroy, Lower!Destroy, Lower!callVars, Queue, listVars,
                lowerVars, WorkerInStep
  <2>2. CASE ThreadAPI_Join
    BY <2>2 DEF ThreadAPI_Join, Lower!Destroy, Lower!callVars, Queue, listVars, threadVars
  <2> QED BY <2>1, <2>2
<1>2. UserTypes' /\ QueueTypes' /\ PastTypes' /\ CallsOwnReceive' /\ DataOwned'
  BY <1>1 DEF UserTypes, QueueTypes, PastTypes, CallsOwnReceive, DataOwned, userVars, listVars,
              calledVars, reportVars
<1>3. WorkerTypes' /\ LowerTypes'
  BY <1>1 DEF WorkerTypes, LowerTypes
<1>4. WorkerInStep' /\ LowerInStep' /\ LevelsInStep'
  BY <1>1 DEF WorkerInStep, LowerInStep, LevelsInStep, userVars, reportVars
<1>5. QueueInStep'
  <2>1. destroying # "LL_Destroy"
    BY <1>1
  <2> QED BY <1>1, <2>1 DEF QueueInStep, userVars, listVars
<1>6. QueueInOrder'
  <2>1. CASE ll_pc' = ll_pc
    BY <1>1, <2>1 DEF QueueInOrder, listVars, calledVars, reportVars
  <2>2. CASE worker \in {"none", "ended"}
    <3>1. Queue = {}
      BY <1>1, <2>2, NothingQueued
    <3> QED BY <1>1, <3>1 DEF QueueInOrder, listVars, calledVars, reportVars
  <2> QED BY <1>1, <2>1, <2>2
<1>7. Over'
  BY <1>1, TurnsStay DEF Over, calledVars
<1>8. Ordered' /\ EndsAsked'
  <2>1. ll_pc' \notin {"idle", "destroyed"} =>
          \A d \in Queue' : d.receive \in {ll_receive', context'}
    <3>1. CASE ll_pc' = ll_pc
      BY <1>1, <3>1 DEF Ordered
    <3>2. CASE worker \in {"none", "ended"}
      BY <1>1, <3>2, NothingQueued
    <3> QED BY <1>1, <3>1, <3>2
  <2>2. Ordered'
    BY <1>1, <2>1, OrderStays DEF calledVars
  <2> QED BY <1>1, <2>2 DEF EndsAsked, userVars
<1> QED BY <1>2, <1>3, <1>4, <1>5, <1>6, <1>7, <1>8

\* The lower layer is destroyed and the queue is freed with its data.
LEMMA DestroyReturnsStep == IInv /\ DestroyReturns => IInv'
<1> SUFFICES ASSUME IInv, DestroyReturns PROVE IInv'
  OBVIOUS
<1> USE DEF IInv, TypeOK
<1>1. /\ UNCHANGED <<userVars, threadVars, worker, callbacks, running, started, asked,
                     calledVars, reportVars, ll_end, calling, context>>
      /\ destroying = "LL_Destroy" /\ destroying' = "destroyed"
      /\ ll_pc' = "destroyed" /\ ll_state' = "INACTIVE" /\ ll_receive' = NULL
      /\ receiveCallbackList' = <<>>
      /\ cloned' = cloned \ {receiveCallbackList[i].n : i \in DOMAIN receiveCallbackList}
      /\ calling = "none" /\ context = NULL
      /\ worker \in {"none", "ended"} /\ running = NULL
  BY DEF DestroyReturns, Lower!DestroyReturns, Lower!callVars, AsyncDispatchCallbackListDeInit,
         WorkerInStep, LowerInStep
<1>2. Queue' = {} /\ DOMAIN receiveCallbackList' = {}
  BY <1>1 DEF Queue
<1>3. cloned' = {}
  <2>1. ASSUME NEW x \in cloned
        PROVE  x \in {receiveCallbackList[i].n : i \in DOMAIN receiveCallbackList}
    <3>1. PICK d \in Queue : x = d.n
      BY <1>1 DEF DataOwned
    <3>2. PICK i \in DOMAIN receiveCallbackList : d = receiveCallbackList[i]
      BY DEF Queue
    <3> QED BY <3>1, <3>2
  <2> QED BY <1>1, <2>1
<1>4. QueueTypes' /\ CallsOwnReceive' /\ DataOwned'
  <2>1. QueueTypes'
    BY <1>1, <1>3 DEF QueueTypes
  <2>2. CallsOwnReceive' /\ running' = NULL
    BY <1>1 DEF CallsOwnReceive
  <2> QED BY <1>2, <1>3, <2>1, <2>2 DEF DataOwned
<1>5. UserTypes' /\ WorkerTypes' /\ LowerTypes' /\ PastTypes'
  BY <1>1 DEF UserTypes, WorkerTypes, LowerTypes, PastTypes, userVars, threadVars, calledVars,
              reportVars
<1>6. WorkerInStep' /\ LowerInStep' /\ LevelsInStep'
  BY <1>1 DEF WorkerInStep, LowerInStep, LevelsInStep, userVars, threadVars
<1>7. QueueInStep'
  BY <1>1, <1>2 DEF QueueInStep
<1>8. QueueInOrder' /\ Over'
  BY <1>1, <1>2, TurnsStay DEF QueueInOrder, Over, calledVars, reportVars
<1>9. Ordered' /\ EndsAsked'
  <2>1. Ordered'
    BY <1>1, <1>2, OrderStays DEF calledVars
  <2> QED BY <1>1, <1>2, <2>1 DEF EndsAsked, userVars
<1> QED BY <1>4, <1>5, <1>6, <1>7, <1>8, <1>9

LEMMA StutterStep == IInv /\ UNCHANGED vars => IInv'
<1> SUFFICES ASSUME IInv, UNCHANGED vars PROVE IInv'
  OBVIOUS
<1> USE DEF IInv, TypeOK, vars
<1>1. Queue' = Queue
  BY DEF Queue, listVars
<1>2. UserTypes' /\ WorkerTypes' /\ QueueTypes' /\ LowerTypes' /\ PastTypes'
  BY DEF UserTypes, WorkerTypes, QueueTypes, LowerTypes, PastTypes, userVars, threadVars,
         listVars, lowerVars, calledVars, reportVars
<1>3. CallsOwnReceive' /\ DataOwned' /\ WorkerInStep' /\ LowerInStep' /\ LevelsInStep'
  BY <1>1 DEF CallsOwnReceive, DataOwned, WorkerInStep, LowerInStep, LevelsInStep, userVars,
              threadVars, listVars, lowerVars, calledVars, reportVars
<1>4. QueueInStep' /\ QueueInOrder' /\ Over'
  BY <1>1, TurnsStay DEF QueueInStep, QueueInOrder, Over, userVars, listVars, lowerVars,
                         calledVars, reportVars
<1>5. Ordered' /\ EndsAsked'
  <2>1. Ordered'
    BY <1>1, OrderStays DEF Ordered, lowerVars, calledVars
  <2> QED BY <1>1, <2>1 DEF EndsAsked, userVars
<1> QED BY <1>2, <1>3, <1>4, <1>5

LEMMA NextIInv == IInv /\ [Next]_vars => IInv'
BY LowerStep, OnAsyncCBStep, WorkerStep, WorkerLocksStep, ProcessStep, CallbackReturnsStep,
   ReceiveStep, ReceiveEndStep, DestroyStep, DestroyReturnsStep, StutterStep
   DEF Next, Application, Library, Ended
-----------------------------------------------------------------------------
\* The invariant holds in every reachable state.
THEOREM Inductive == Spec => []IInv
BY InitIInv, NextIInv, PTL DEF Spec

\* Every variable keeps its type.
THEOREM TypeCorrect == Spec => []TypeOK
<1>1. IInv => TypeOK
  BY DEF IInv
<1> QED BY <1>1, Inductive, PTL

\* A callback is called with the contexts of the receive its dispatch is about.
THEOREM OwnReceive == Spec => []CallsOwnReceive
<1>1. IInv => CallsOwnReceive
  BY DEF IInv
<1> QED BY <1>1, Inductive, PTL

\* The clones of event data are those of the queued and running dispatches.
THEOREM DataIsOwned == Spec => []DataOwned
<1>1. IInv => DataOwned
  BY DEF IInv
<1> QED BY <1>1, Inductive, PTL

\* The worker is gone and no callback runs when the lower layer is destroyed.
THEOREM DestroyedQuietly == Spec => []QuietWhenDestroyed
<1>1. IInv => QuietWhenDestroyed
  BY DEF IInv, WorkerInStep, QuietWhenDestroyed
<1> QED BY <1>1, Inductive, PTL

\* Initially no receive was started and no callback called.
LEMMA ServiceInit == Init => Service!Init
BY DEF Init, Service!Init

\* What the application is not concerned in.
LEMMA ServiceIdle ==
  ASSUME UNCHANGED <<started, asked, calledVars, running>>,
         destroying' \in {"LL_Destroy", "destroyed"}
           <=> destroying \in {"LL_Destroy", "destroyed"}
  PROVE  UNCHANGED Service!vars
<1>1. (destroying \in {"LL_Destroy", "destroyed"})'
        = (destroying \in {"LL_Destroy", "destroyed"})
  OBVIOUS
<1> QED BY <1>1 DEF Service!vars, calledVars

\* A callback is entered for the receive whose turn it is.
LEMMA ServiceProcess ==
  IInv /\ AsyncDispatchCallbackListProcess => [Service!Next]_(Service!vars)
<1> SUFFICES ASSUME IInv, AsyncDispatchCallbackListProcess
             PROVE  [Service!Next]_(Service!vars)
  OBVIOUS
<1> DEFINE d == Head(receiveCallbackList)
<1>1. /\ d \in Dispatches /\ d \in Queue
      /\ CallbackFor(d) \in {d.receive, NULL} /\ d.receive # NULL
  BY HeadFinds DEF AsyncDispatchCallbackListProcess
<1>2. CASE CallbackFor(d) = NULL
  BY <1>2, ServiceIdle DEF AsyncDispatchCallbackListProcess
<1>3. CASE CallbackFor(d) # NULL
  <2> PICK c \in Receives : c = d.receive
    BY <1>1 DEF Dispatches
  <2>1. /\ running' = [dispatch |-> d, context |-> c] /\ running = NULL
        /\ last' = d.n /\ at' = c
        /\ ended' = IF d.type = "end" THEN ended \cup {c} ELSE ended
        /\ UNCHANGED <<started, asked, destroying>>
    BY <1>1, <1>3 DEF AsyncDispatchCallbackListProcess
  <2>2. running' # NULL /\ running'.context = c
    <3>1. [dispatch |-> d, context |-> c] \in Calls
      BY <1>1 DEF Calls
    <3> QED BY <2>1, <3>1, NullAssumption
  <2>3. /\ Service!InTurn(c) /\ c \notin ended
        /\ d.type = "end" => c \in asked
        /\ d.n \in Nat /\ d.n > last
    BY <1>1 DEF IInv, TypeOK, PastTypes, Ordered, Over, EndsAsked, QueueInOrder, Dispatches
  <2>4. ~(destroying \in {"LL_Destroy", "destroyed"})
    BY DEF AsyncDispatchCallbackListProcess, IInv, WorkerInStep
  <2>5. (destroying \in {"LL_Destroy", "destroyed"})'
          = (destroying \in {"LL_Destroy", "destroyed"})
    BY <2>1
  <2>6. Service!Call(c)
    BY <2>1, <2>2, <2>3, <2>4, <2>5 DEF Service!Call
  <2>7. Service!CallWithReport(c) \/ Service!CallWithEnd(c)
    BY <2>1, <2>3, <2>6 DEF Service!CallWithReport, Service!CallWithEnd
  <2> QED BY <2>7 DEF Service!Next
<1> QED BY <1>2, <1>3

\* Every step is one of the promised service, or none of the application's business.
LEMMA ServiceStep == IInv /\ [Next]_vars => [Service!Next]_(Service!vars)
<1> SUFFICES ASSUME IInv, [Next]_vars PROVE [Service!Next]_(Service!vars)
  OBVIOUS
<1>1. ASSUME NEW r \in Receives, ExecuteCommonReceiveFromStartTimestampAsync(r)
      PROVE  Service!Next
  <2>1. Service!Start(r)
    BY <1>1
       DEF ExecuteCommonReceiveFromStartTimestampAsync, AppMayCall, Service!Start, Started,
           calledVars
  <2> QED BY <2>1 DEF Service!Next
<1>2. ASSUME NEW withCallback \in BOOLEAN, EventHubReceiver_ReceiveEndAsync(withCallback)
      PROVE  [Service!Next]_(Service!vars)
  <2>1. CASE withCallback
    <3> PICK r : r = onEventReceiveCallback
      OBVIOUS
    <3>1. r \in Receives /\ r \in Service!Started \ ended
      BY <1>2 DEF EventHubReceiver_ReceiveEndAsync, Lower!RequestEnd, IInv, TypeOK, UserTypes,
                  LevelsInStep, Over, Started
    <3>2. Service!AskForEnd(r)
      BY <1>2, <2>1, <3>1
         DEF EventHubReceiver_ReceiveEndAsync, AppMayCall, Service!AskForEnd, calledVars
    <3> QED BY <3>1, <3>2 DEF Service!Next
  <2>2. CASE ~withCallback
    BY <1>2, <2>2, ServiceIdle DEF EventHubReceiver_ReceiveEndAsync
  <2> QED BY <2>1, <2>2
<1>3. CASE CallbackReturns
  <2>1. Service!Return
    BY <1>3, WrapperAssumption
       DEF CallbackReturns, Service!Return, IInv, TypeOK, QueueTypes, Calls, calledVars
  <2> QED BY <2>1 DEF Service!Next
<1>4. CASE EventHubReceiver_Destroy \/ ThreadAPI_Join
  <2>1. /\ UNCHANGED <<started, asked, calledVars, running>>
        /\ destroying \in {"no", "joining"}
        /\ \/ destroying' = "joining"
           \/ destroying' = "LL_Destroy" /\ running = NULL
    BY <1>4 DEF EventHubReceiver_Destroy, ThreadAPI_Join, IInv, WorkerInStep
  <2>2. CASE destroying' = "joining"
    BY <2>1, <2>2, ServiceIdle
  <2>3. CASE destroying' = "LL_Destroy" /\ running = NULL
    <3>1. Service!Close
      BY <2>1, <2>3 DEF Service!Close, calledVars
    <3> QED BY <3>1 DEF Service!Next
  <2> QED BY <2>1, <2>2, <2>3
<1>5. CASE DestroyReturns
  BY <1>5, ServiceIdle DEF DestroyReturns
<1>6. CASE \/ WorkerChecks \/ LockFails \/ EHR_OnAsyncCB \/ DoWorkReturns \/ WorkerSleeps
           \/ WorkerLocks \/ LowerReports \/ LowerWorks \/ UNCHANGED vars
  <2>1. UNCHANGED <<started, asked, calledVars, running, destroying>>
    BY <1>6 DEF WorkerChecks, LockFails, EHR_OnAsyncCB, DoWorkReturns, WorkerSleeps,
                WorkerLocks, LowerReports, LowerWorks, vars
  <2> QED BY <2>1, ServiceIdle
<1> QED BY <1>1, <1>2, <1>3, <1>4, <1>5, <1>6, ServiceProcess
        DEF Next, Application, Library, Ended

\* The receiver implements ReceiveService: the application's callbacks keep their
\* order over any number of receives, whatever the two threads do.
THEOREM ImplementsService == Spec => ServiceSpec
BY ServiceInit, ServiceStep, Inductive, PTL DEF Spec, ServiceSpec, Service!Spec

\* A queued message, wait time-out or end reaches its callback.
THEOREM Delivered == Spec => NothingDropped
<1>1. IInv /\ [Next]_vars =>
        [worker = "process" /\ receiveCallbackList' # receiveCallbackList
           /\ Head(receiveCallbackList).type # "error"
           => running' # NULL /\ running'.dispatch = Head(receiveCallbackList)]_vars
  <2> SUFFICES ASSUME IInv, Next, worker = "process",
                      receiveCallbackList' # receiveCallbackList,
                      Head(receiveCallbackList).type # "error"
               PROVE  running' # NULL /\ running'.dispatch = Head(receiveCallbackList)
    OBVIOUS
  <2>0. calling = "none" /\ destroying # "LL_Destroy"
    BY DEF IInv, TypeOK, LowerTypes, WorkerInStep, LowerInStep
  <2>1. AsyncDispatchCallbackListProcess
    BY <2>0 DEF Next, Application, ExecuteCommonReceiveFromStartTimestampAsync,
           EventHubReceiver_ReceiveEndAsync, Library, WorkerChecks, LockFails, EHR_OnAsyncCB,
           DoWorkReturns, WorkerSleeps, ThreadAPI_Join, DestroyReturns, WorkerLocks,
           LowerReports, LowerWorks, CallbackReturns, EventHubReceiver_Destroy, Ended, vars,
           listVars
  <2> DEFINE d == Head(receiveCallbackList)
  <2>2. d \in Dispatches /\ CallbackFor(d) = d.receive /\ d.receive # NULL
    BY <2>1, HeadFinds DEF AsyncDispatchCallbackListProcess
  <2>3. running' = [dispatch |-> d, context |-> d.receive]
    BY <2>1, <2>2 DEF AsyncDispatchCallbackListProcess
  <2>4. running' \in Calls
    BY <2>2, <2>3 DEF Calls, Dispatches
  <2> QED BY <2>3, <2>4, NullAssumption
<1> QED BY <1>1, Inductive, PTL DEF Spec, NothingDropped
=============================================================================
