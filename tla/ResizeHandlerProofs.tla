------------------------- MODULE ResizeHandlerProofs -------------------------
(***************************************************************************)
(* The safety properties of ResizeHandler, for every set of namespaces and *)
(* sizes, every number of requests and every channel capacity.             *)
(***************************************************************************)
EXTENDS ResizeHandler, TLAPS

-----------------------------------------------------------------------------
(* The inductive invariant, conjunct by conjunct. *)

\* inProgress holds exactly the namespaces that have a goroutine.
MarksMatchWorkers ==
  /\ \A w \in workers : w.event.ns \in inProgress
  /\ \A ns \in inProgress : \E w \in workers : w.event.ns = ns

\* Only a namespace in progress has a pending event.
PendingInProgress ==
  \A ns \in Namespaces : pending[ns] # NoEvent => ns \in inProgress

\* The maps hold events of the namespace they are indexed by, and recent only
\* namespaces with a cache entry.
KeyedByNamespace ==
  \A ns \in Namespaces :
    /\ pending[ns] # NoEvent => pending[ns].ns = ns
    /\ cache[ns] # NoEvent => cache[ns].ns = ns
    /\ latest[ns] # NoEvent => latest[ns].ns = ns
    /\ ns \in recent => cache[ns] # NoEvent

\* The finished, the executing and the pending event of a namespace were
\* received in that order, and the newest one not before any of them.
OrderedByReceipt ==
  /\ \A ns \in Namespaces :
       /\ latest[ns] # NoEvent => latest[ns].id <= received
       /\ pending[ns] # NoEvent =>
            latest[ns] # NoEvent /\ pending[ns].id <= latest[ns].id
       /\ cache[ns] # NoEvent =>
            latest[ns] # NoEvent /\ cache[ns].id <= latest[ns].id
  /\ \A w \in workers :
       /\ latest[w.event.ns] # NoEvent
       /\ w.event.id <= latest[w.event.ns].id
       /\ cache[w.event.ns] # NoEvent => cache[w.event.ns].id < w.event.id
       /\ pending[w.event.ns] # NoEvent =>
            w.event.id < pending[w.event.ns].id

\* A published result is not newer than what its namespace is executing, and
\* older as long as the executing goroutine has not published; nor is it newer
\* than what finished last in a namespace without a goroutine.
ResultsBehind ==
  \A i \in 1..Len(results) :
    LET r == results[i].event
    IN  /\ \A w \in workers :
             w.event.ns = r.ns =>
               /\ r.id <= w.event.id
               /\ w.phase # "done" => r.id < w.event.id
        /\ r.ns \notin inProgress =>
             cache[r.ns] # NoEvent /\ r.id <= cache[r.ns].id

\* The inductive invariant: each part is needed for a step of another.
IInv ==
  /\ TypeOK
  /\ OneResizePerNamespace
  /\ MarksMatchWorkers
  /\ PendingInProgress
  /\ KeyedByNamespace
  /\ OrderedByReceipt
  /\ NoQuickScaleDown
  /\ NewestRequestKept
  /\ ResultsBehind
  /\ ResultsInOrder

-----------------------------------------------------------------------------
(* Types. *)

\* A new goroutine and a goroutine that advances are goroutines.
LEMMA WorkerTypes ==
  /\ \A e \in Event : NewWorker(e) \in Worker
  /\ \A w \in Worker, p \in Phase, ok \in BOOLEAN :
       [event |-> w.event, phase |-> p, ok |-> ok] \in Worker
  BY DEF NewWorker, Worker, Phase

\* The event ReceiveRequest builds is an event.
LEMMA RequestType ==
  ASSUME NEW ns \in Namespaces, NEW new \in Sizes,
         received \in 0..MaxRequests, received < MaxRequests
  PROVE  [id |-> received + 1, ns |-> ns, new |-> new] \in Event
  BY MaxRequestsAssumption DEF Event

\* The maps and channels are empty at first.
LEMMA InitTypeOK == Init => TypeOK
  BY MaxRequestsAssumption DEF Init, TypeOK

\* Every step of the handler keeps the types.
LEMMA NextTypeOK == TypeOK /\ [Next]_vars => TypeOK'
<1> SUFFICES ASSUME TypeOK, [Next]_vars
             PROVE  TypeOK'
  OBVIOUS
<1> USE DEF TypeOK
<1>1. ASSUME NEW ns \in Namespaces, NEW new \in Sizes, ReceiveRequest(ns, new)
      PROVE  TypeOK'
  <2> DEFINE e == [id |-> received + 1, ns |-> ns, new |-> new]
  <2>1. e \in Event /\ e.ns = ns
    BY <1>1, RequestType DEF ReceiveRequest
  <2>2. received' \in 0..MaxRequests
    BY <1>1, MaxRequestsAssumption DEF ReceiveRequest
  <2>3. latest' \in [Namespaces -> Event \cup {NoEvent}]
    BY <1>1, <2>1 DEF ReceiveRequest
  <2>4. CASE KeepPending(e)
    BY <1>1, <2>1, <2>2, <2>3, <2>4 DEF ReceiveRequest, KeepPending
  <2>5. CASE ResizeNow(e)
    BY <1>1, <2>1, <2>2, <2>3, <2>5, WorkerTypes DEF ReceiveRequest, ResizeNow, Resize
  <2>6. QED
    BY <1>1, <2>4, <2>5 DEF ReceiveRequest
<1>2. ASSUME NEW w \in workers, NEW ok \in BOOLEAN, ApiReturns(w, ok)
      PROVE  TypeOK'
  BY <1>2, WorkerTypes DEF ApiReturns, Advance, Phase
<1>3. ASSUME NEW w \in workers, PublishResult(w)
      PROVE  TypeOK'
  <2>1. workers' \in SUBSET Worker
    BY <1>3, WorkerTypes DEF PublishResult, Advance, Phase, Worker
  <2>2. [event |-> w.event, ok |-> w.ok] \in Result
    BY DEF Result, Worker
  <2>3. results' \in Seq(Result)
    BY <1>3, <2>2 DEF PublishResult
  <2>4. QED
    BY <1>3, <2>1, <2>3 DEF PublishResult
<1>4. ASSUME NEW w \in workers, ReceiveDone(w)
      PROVE  TypeOK'
  <2>1. w.event \in Event /\ w.event.ns \in Namespaces
    BY DEF Worker, Event
  <2>2. CASE GoIdle(w)
    BY <1>4, <2>1, <2>2 DEF ReceiveDone, Finish, GoIdle
  <2>3. CASE TakePending(w)
    <3>1. pending[w.event.ns] \in Event
      BY <2>1, <2>3 DEF TakePending
    <3>2. pending[w.event.ns].ns \in Namespaces
      BY <3>1 DEF Event
    <3>3. NewWorker(pending[w.event.ns]) \in Worker
      BY <3>1, WorkerTypes
    <3>4. inProgress' \in SUBSET Namespaces /\ workers' \in SUBSET Worker
          /\ refused' \in SUBSET Event
      BY <2>3, <3>1, <3>2, <3>3 DEF TakePending, Resize
    <3>5. QED
      BY <1>4, <2>1, <2>3, <3>4 DEF ReceiveDone, Finish, TakePending
  <2>4. QED
    BY <1>4, <2>2, <2>3 DEF ReceiveDone, Finish
<1>5. CASE ConsumeResult
  <2>1. results' \in Seq(Result)
    BY <1>5 DEF ConsumeResult
  <2>2. QED
    BY <1>5, <2>1 DEF ConsumeResult
<1>6. ASSUME NEW ns \in Namespaces, MinutePasses(ns)
      PROVE  TypeOK'
  BY <1>6 DEF MinutePasses
<1>7. CASE UNCHANGED vars
  BY <1>7 DEF vars
<1>8. QED
  BY <1>1, <1>2, <1>3, <1>4, <1>5, <1>6, <1>7 DEF Next, WorkerStep

\* The variables of the handler keep their types: nothing is executed, cached or
\* published that was not received.
THEOREM TypeCorrect == Spec => []TypeOK
<1>1. QED
  BY InitTypeOK, NextTypeOK, PTL DEF Spec

-----------------------------------------------------------------------------
(* Every action preserves the invariant. *)

\* The fields of requests, goroutines and results.
LEMMA FieldTypes ==
  /\ \A e \in Event :
       /\ e.id \in Nat /\ e.ns \in Namespaces /\ e.new \in Sizes
       /\ e.new.cpu \in Nat /\ e.new.memory \in Nat
  /\ \A w \in Worker : w.event \in Event /\ w.phase \in Phase /\ w.ok \in BOOLEAN
  /\ \A r \in Result : r.event \in Event
  BY SizesAssumption DEF Event, Worker, Result

\* What a goroutine executes has been received.
LEMMA WorkersReceived ==
  ASSUME IInv
  PROVE  \A w \in workers : w.event.id <= received
<1> USE FieldTypes DEF IInv, TypeOK
<1>1. received \in Nat
  BY MaxRequestsAssumption
<1>2. ASSUME NEW w \in workers
      PROVE  w.event.id <= received
  <2>1. w.event.id \in Nat /\ w.event.ns \in Namespaces
    OBVIOUS
  <2>2. latest[w.event.ns] # NoEvent /\ w.event.id <= latest[w.event.ns].id
    BY DEF OrderedByReceipt
  <2>3. latest[w.event.ns].id \in Nat /\ latest[w.event.ns].id <= received
    BY <2>1, <2>2 DEF OrderedByReceipt
  <2>4. QED
    BY <1>1, <2>1, <2>2, <2>3
<1>3. QED
  BY <1>2

\* A request that finds its namespace in progress becomes the pending event.
LEMMA KeepPendingInv ==
  ASSUME IInv, TypeOK', NEW ns \in Namespaces, NEW new \in Sizes,
         ReceiveRequest(ns, new),
         KeepPending([id |-> received + 1, ns |-> ns, new |-> new])
  PROVE  IInv'
<1> DEFINE e == [id |-> received + 1, ns |-> ns, new |-> new]
<1> USE FieldTypes DEF IInv, TypeOK
<1>1. /\ ns \in inProgress
      /\ pending' = [pending EXCEPT ![ns] = e]
      /\ latest' = [latest EXCEPT ![ns] = e]
      /\ received' = received + 1
      /\ UNCHANGED <<inProgress, workers, refused, cache, recent, results>>
  BY DEF ReceiveRequest, KeepPending
<1>2. e \in Event /\ e # NoEvent /\ e.id = received + 1 /\ e.ns = ns
  BY RequestType, NoEventAssumption DEF ReceiveRequest
<1> HIDE DEF e
<1>3. OneResizePerNamespace' /\ MarksMatchWorkers' /\ PendingInProgress'
  BY <1>1 DEF OneResizePerNamespace, MarksMatchWorkers, PendingInProgress
<1>4. KeyedByNamespace' /\ NoQuickScaleDown'
  BY <1>1, <1>2 DEF KeyedByNamespace, NoQuickScaleDown
<1>5. OrderedByReceipt'
  <2>1. \A w \in workers : w.event.id <= received
    BY WorkersReceived
  <2>2. ASSUME NEW m \in Namespaces
        PROVE  (/\ latest[m] # NoEvent => latest[m].id <= received
                /\ pending[m] # NoEvent =>
                     latest[m] # NoEvent /\ pending[m].id <= latest[m].id
                /\ cache[m] # NoEvent =>
                     latest[m] # NoEvent /\ cache[m].id <= latest[m].id)'
    BY <1>1, <1>2 DEF OrderedByReceipt
  <2>3. ASSUME NEW w \in workers
        PROVE  (/\ latest[w.event.ns] # NoEvent
                /\ w.event.id <= latest[w.event.ns].id
                /\ cache[w.event.ns] # NoEvent => cache[w.event.ns].id < w.event.id
                /\ pending[w.event.ns] # NoEvent =>
                     w.event.id < pending[w.event.ns].id)'
    BY <1>1, <1>2, <2>1 DEF OrderedByReceipt
  <2>4. QED
    BY <1>1, <2>2, <2>3 DEF OrderedByReceipt
<1>6. NewestRequestKept'
  BY <1>1, <1>2 DEF NewestRequestKept
<1>7. ResultsBehind' /\ ResultsInOrder'
  BY <1>1 DEF ResultsBehind, ResultsInOrder
<1>8. QED
  BY <1>3, <1>4, <1>5, <1>6, <1>7

\* A request that finds its namespace idle starts a goroutine or is refused.
LEMMA ResizeNowInv ==
  ASSUME IInv, TypeOK', NEW ns \in Namespaces, NEW new \in Sizes,
         ReceiveRequest(ns, new),
         ResizeNow([id |-> received + 1, ns |-> ns, new |-> new])
  PROVE  IInv'
<1> DEFINE e == [id |-> received + 1, ns |-> ns, new |-> new]
<1> DEFINE n == NewWorker(e)
<1> USE FieldTypes DEF IInv, TypeOK
<1>1. /\ ns \notin inProgress
      /\ latest' = [latest EXCEPT ![ns] = e]
      /\ received' = received + 1
      /\ UNCHANGED <<pending, cache, recent, results>>
  BY DEF ReceiveRequest, ResizeNow, Resize
<1>2. e \in Event /\ e # NoEvent /\ e.id = received + 1 /\ e.ns = ns /\ e.new = new
  BY RequestType, NoEventAssumption DEF ReceiveRequest
<1>3. n \in Worker /\ n.event = e /\ n.phase = "calling"
  BY <1>2, WorkerTypes DEF NewWorker
<1>4. received \in Nat
  BY MaxRequestsAssumption
<1>5. \A w \in workers : w.event.ns # ns
  BY <1>1 DEF MarksMatchWorkers
<1>6. pending[ns] = NoEvent
  BY <1>1 DEF PendingInProgress
<1>7. cache[ns] # NoEvent => cache[ns].id <= received
  BY <1>4 DEF OrderedByReceipt
<1>8. \A i \in 1..Len(results) :
        results[i].event.ns = ns =>
          cache[ns] # NoEvent /\ results[i].event.id <= cache[ns].id
  BY <1>1 DEF ResultsBehind
<1>9. CASE /\ ~Refuses(cache[ns], ns \in recent, e)
           /\ workers' = workers \cup {n}
           /\ inProgress' = inProgress \cup {ns}
           /\ UNCHANGED refused
  <2> HIDE DEF e, n
  <2>1. OneResizePerNamespace'
    BY <1>2, <1>3, <1>5, <1>9 DEF OneResizePerNamespace
  <2>2. MarksMatchWorkers'
    BY <1>2, <1>3, <1>9 DEF MarksMatchWorkers
  <2>3. PendingInProgress'
    BY <1>1, <1>9 DEF PendingInProgress
  <2>4. KeyedByNamespace'
    BY <1>1, <1>2, <1>9 DEF KeyedByNamespace
  <2>5. OrderedByReceipt'
    <3>1. ASSUME NEW m \in Namespaces
          PROVE  (/\ latest[m] # NoEvent => latest[m].id <= received
                  /\ pending[m] # NoEvent =>
                       latest[m] # NoEvent /\ pending[m].id <= latest[m].id
                  /\ cache[m] # NoEvent =>
                       latest[m] # NoEvent /\ cache[m].id <= latest[m].id)'
      BY <1>1, <1>2, <1>4, <1>6, <1>7, <1>9 DEF OrderedByReceipt
    <3>2. ASSUME NEW w \in workers'
          PROVE  (/\ latest[w.event.ns] # NoEvent
                  /\ w.event.id <= latest[w.event.ns].id
                  /\ cache[w.event.ns] # NoEvent => cache[w.event.ns].id < w.event.id
                  /\ pending[w.event.ns] # NoEvent =>
                       w.event.id < pending[w.event.ns].id)'
      <4>1. CASE w = n
        BY <1>1, <1>2, <1>3, <1>4, <1>6, <1>7, <4>1
      <4>2. CASE w \in workers
        BY <1>1, <1>2, <1>5, <4>2 DEF OrderedByReceipt
      <4>3. QED
        BY <1>9, <4>1, <4>2
    <3>3. QED
      BY <3>1, <3>2 DEF OrderedByReceipt
  <2>6. NoQuickScaleDown'
    <3>1. ns \in recent => ~Shrinks(new, cache[ns].new)
      BY <1>2, <1>9 DEF Refuses, KeyedByNamespace
    <3>2. ns \in recent => new.cpu >= cache[ns].new.cpu /\ new.memory >= cache[ns].new.memory
      <4>1. CASE ns \in recent
        <5>1. cache[ns] \in Event
          BY <4>1 DEF KeyedByNamespace
        <5>2. QED
          BY <3>1, <4>1, <5>1, SizesAssumption DEF Shrinks
      <4>2. QED
        BY <4>1
    <3>3. QED
      BY <1>1, <1>2, <1>3, <1>9, <3>2 DEF NoQuickScaleDown
  <2>7. NewestRequestKept'
    BY <1>1, <1>2, <1>3, <1>9 DEF NewestRequestKept
  <2>8. ResultsBehind'
    BY <1>1, <1>2, <1>3, <1>4, <1>7, <1>8, <1>9 DEF ResultsBehind
  <2>9. ResultsInOrder'
    BY <1>1 DEF ResultsInOrder
  <2>10. QED
    BY <2>1, <2>2, <2>3, <2>4, <2>5, <2>6, <2>7, <2>8, <2>9
<1>10. CASE /\ refused' = refused \cup {e}
            /\ UNCHANGED <<inProgress, workers>>
  <2> HIDE DEF e
  <2>1. /\ OneResizePerNamespace' /\ MarksMatchWorkers' /\ PendingInProgress'
        /\ ResultsBehind' /\ ResultsInOrder' /\ NoQuickScaleDown'
    BY <1>1, <1>10 DEF OneResizePerNamespace, MarksMatchWorkers,
       PendingInProgress, ResultsBehind, ResultsInOrder, NoQuickScaleDown
  <2>2. KeyedByNamespace'
    BY <1>1, <1>2, <1>10 DEF KeyedByNamespace
  <2>3. OrderedByReceipt'
    <3>1. ASSUME NEW m \in Namespaces
          PROVE  (/\ latest[m] # NoEvent => latest[m].id <= received
                  /\ pending[m] # NoEvent =>
                       latest[m] # NoEvent /\ pending[m].id <= latest[m].id
                  /\ cache[m] # NoEvent =>
                       latest[m] # NoEvent /\ cache[m].id <= latest[m].id)'
      BY <1>1, <1>2, <1>4, <1>6, <1>7 DEF OrderedByReceipt
    <3>2. ASSUME NEW w \in workers
          PROVE  (/\ latest[w.event.ns] # NoEvent
                  /\ w.event.id <= latest[w.event.ns].id
                  /\ cache[w.event.ns] # NoEvent => cache[w.event.ns].id < w.event.id
                  /\ pending[w.event.ns] # NoEvent =>
                       w.event.id < pending[w.event.ns].id)'
      BY <1>1, <1>2, <1>5 DEF OrderedByReceipt
    <3>3. QED
      BY <1>10, <3>1, <3>2 DEF OrderedByReceipt
  <2>4. NewestRequestKept'
    BY <1>1, <1>2, <1>10 DEF NewestRequestKept
  <2>5. QED
    BY <2>1, <2>2, <2>3, <2>4
<1>11. Resize(e, workers)
  BY DEF ResizeNow
<1>12. inProgress \ {e.ns} = inProgress /\ e.ns = ns /\ cache' = cache /\ recent' = recent
  BY <1>1, <1>2
<1>13. QED
  BY <1>9, <1>10, <1>11, <1>12 DEF Resize

\* The done message of the only goroutine of a namespace, nothing pending.
LEMMA GoIdleInv ==
  ASSUME IInv, TypeOK', NEW w \in workers, ReceiveDone(w), GoIdle(w)
  PROVE  IInv'
<1> DEFINE ns == w.event.ns
<1> USE FieldTypes DEF IInv, TypeOK
<1>1. /\ w.event \in Event /\ ns \in Namespaces /\ w.event # NoEvent
      /\ pending[ns] = NoEvent
      /\ w.phase = "done"
  BY NoEventAssumption DEF ReceiveDone, Finish, GoIdle
<1>2. /\ cache' = [cache EXCEPT ![ns] = w.event]
      /\ recent' = recent \cup {ns}
      /\ workers' = workers \ {w}
      /\ inProgress' = inProgress \ {ns}
      /\ UNCHANGED <<received, pending, results, latest, refused>>
  BY DEF ReceiveDone, Finish, GoIdle
<1>3. \A v \in workers : v.event.ns = ns => v = w
  BY DEF OneResizePerNamespace
<1>4. OneResizePerNamespace' /\ PendingInProgress'
  BY <1>1, <1>2 DEF OneResizePerNamespace, PendingInProgress
<1>5. MarksMatchWorkers'
  BY <1>2, <1>3 DEF MarksMatchWorkers
<1>6. KeyedByNamespace'
  BY <1>1, <1>2 DEF KeyedByNamespace
<1>7. OrderedByReceipt'
  <2>1. ASSUME NEW m \in Namespaces
        PROVE  (/\ latest[m] # NoEvent => latest[m].id <= received
                /\ pending[m] # NoEvent =>
                     latest[m] # NoEvent /\ pending[m].id <= latest[m].id
                /\ cache[m] # NoEvent =>
                     latest[m] # NoEvent /\ cache[m].id <= latest[m].id)'
    BY <1>1, <1>2 DEF OrderedByReceipt
  <2>2. ASSUME NEW v \in workers'
        PROVE  (/\ latest[v.event.ns] # NoEvent
                /\ v.event.id <= latest[v.event.ns].id
                /\ cache[v.event.ns] # NoEvent => cache[v.event.ns].id < v.event.id
                /\ pending[v.event.ns] # NoEvent =>
                     v.event.id < pending[v.event.ns].id)'
    BY <1>1, <1>2, <1>3 DEF OrderedByReceipt
  <2>3. QED
    BY <2>1, <2>2 DEF OrderedByReceipt
<1>8. NoQuickScaleDown'
  BY <1>1, <1>2, <1>3 DEF NoQuickScaleDown
<1>9. NewestRequestKept'
  <2>1. latest[ns] # NoEvent /\ latest[ns] # cache[ns]
    <3>1. /\ latest[ns] # NoEvent
          /\ w.event.id <= latest[ns].id
          /\ cache[ns] # NoEvent => cache[ns].id < w.event.id
      BY DEF OrderedByReceipt
    <3>2. /\ w.event.id \in Nat
          /\ cache[ns] # NoEvent => cache[ns].id \in Nat
      BY <1>1
    <3>3. QED
      BY <1>1, <3>1, <3>2
  <2>2. latest[ns] = w.event \/ latest[ns] \in refused
    <3>1. ASSUME NEW v \in workers, v.event = latest[ns]
          PROVE  v.event = w.event
      <4>1. latest[ns].ns = ns
        BY <1>1, <2>1 DEF KeyedByNamespace
      <4>2. QED
        BY <1>3, <3>1, <4>1
    <3>2. QED
      BY <1>1, <2>1, <3>1 DEF NewestRequestKept
  <2>3. ASSUME NEW m \in Namespaces, m # ns
        PROVE  (\/ latest[m] \in {pending[m], cache[m]} \cup refused
                \/ \E v \in workers : v.event = latest[m])'
    <3>1. CASE latest[m] = w.event
      BY <1>1, <2>3, <3>1 DEF KeyedByNamespace
    <3>2. QED
      BY <1>1, <1>2, <2>3, <3>1 DEF NewestRequestKept
  <2>4. QED
    BY <1>1, <1>2, <2>2, <2>3 DEF NewestRequestKept
<1>10. ResultsBehind'
  <2>1. ASSUME NEW i \in 1..Len(results)
        PROVE  LET r == results[i].event
               IN  /\ \A v \in workers' :
                        v.event.ns = r.ns =>
                          /\ r.id <= v.event.id
                          /\ v.phase # "done" => r.id < v.event.id
                   /\ r.ns \notin inProgress' =>
                        cache'[r.ns] # NoEvent /\ r.id <= cache'[r.ns].id
    BY <1>1, <1>2, <1>3 DEF ResultsBehind
  <2>2. QED
    BY <1>2, <2>1 DEF ResultsBehind
<1>11. ResultsInOrder'
  BY <1>2 DEF ResultsInOrder
<1>12. QED
  BY <1>4, <1>5, <1>6, <1>7, <1>8, <1>9, <1>10, <1>11

\* The done message with an event pending, which starts or is refused.
LEMMA TakePendingInv ==
  ASSUME IInv, TypeOK', NEW w \in workers, ReceiveDone(w), TakePending(w)
  PROVE  IInv'
<1> DEFINE ns == w.event.ns
           e == pending[ns]
           n == NewWorker(e)
<1> USE FieldTypes DEF IInv, TypeOK
<1>1. /\ w.event \in Event /\ ns \in Namespaces /\ w.event # NoEvent
      /\ e \in Event /\ e # NoEvent
      /\ w.phase = "done"
  BY NoEventAssumption DEF ReceiveDone, Finish, TakePending
<1>2. /\ cache' = [cache EXCEPT ![ns] = w.event]
      /\ recent' = recent \cup {ns}
      /\ pending' = [pending EXCEPT ![ns] = NoEvent]
      /\ UNCHANGED <<received, results, latest>>
  BY DEF ReceiveDone, Finish, TakePending
<1>3. \A v \in workers : v.event.ns = ns => v = w
  BY DEF OneResizePerNamespace
<1>4. /\ e.ns = ns
      /\ w.event.id < e.id
      /\ latest[ns] # NoEvent
      /\ e.id <= latest[ns].id
  BY <1>1 DEF OrderedByReceipt, KeyedByNamespace
<1>5. n \in Worker /\ n.event = e /\ n.phase = "calling"
  BY <1>1, WorkerTypes DEF NewWorker
<1>7. KeyedByNamespace'
  BY <1>1, <1>2 DEF KeyedByNamespace
<1>8. ASSUME NEW m \in Namespaces
      PROVE  (/\ latest[m] # NoEvent => latest[m].id <= received
              /\ pending[m] # NoEvent =>
                   latest[m] # NoEvent /\ pending[m].id <= latest[m].id
              /\ cache[m] # NoEvent =>
                   latest[m] # NoEvent /\ cache[m].id <= latest[m].id)'
  BY <1>1, <1>2 DEF OrderedByReceipt
<1>6. latest[ns] = e \/ latest[ns] \in refused
  <2>1. latest[ns] # cache[ns] /\ latest[ns] # w.event
    <3>1. /\ latest[ns] # NoEvent
          /\ w.event.id <= latest[ns].id
          /\ cache[ns] # NoEvent => cache[ns].id < w.event.id
      BY DEF OrderedByReceipt
    <3>2. /\ w.event.id \in Nat
          /\ cache[ns] # NoEvent => cache[ns].id \in Nat
      BY <1>1
    <3>3. QED
      BY <1>1, <1>4, <3>1, <3>2
  <2>2. ASSUME NEW v \in workers, v.event = latest[ns]
        PROVE  FALSE
    <3>1. latest[ns].ns = ns
      BY <1>1, <1>4 DEF KeyedByNamespace
    <3>2. QED
      BY <1>3, <2>1, <2>2, <3>1
  <2>3. QED
    BY <1>1, <2>1, <2>2 DEF NewestRequestKept
<1>9. ResultsInOrder'
  BY <1>2 DEF ResultsInOrder
<1>10. \A i \in 1..Len(results) :
         results[i].event.ns = ns => results[i].event.id <= w.event.id
  BY DEF ResultsBehind
<1>11. CASE /\ ~Refuses(cache'[ns], ns \in recent', e)
            /\ workers' = (workers \ {w}) \cup {n}
            /\ UNCHANGED <<inProgress, refused>>
  <2> HIDE DEF n
  <2>1. OneResizePerNamespace'
    BY <1>1, <1>3, <1>4, <1>5, <1>11 DEF OneResizePerNamespace
  <2>2. MarksMatchWorkers' /\ PendingInProgress'
    BY <1>1, <1>2, <1>3, <1>4, <1>5, <1>11 DEF MarksMatchWorkers, PendingInProgress
  <2>3. OrderedByReceipt'
    <3>1. ASSUME NEW v \in workers'
          PROVE  (/\ latest[v.event.ns] # NoEvent
                  /\ v.event.id <= latest[v.event.ns].id
                  /\ cache[v.event.ns] # NoEvent => cache[v.event.ns].id < v.event.id
                  /\ pending[v.event.ns] # NoEvent =>
                       v.event.id < pending[v.event.ns].id)'
      <4>1. CASE v = n
        BY <1>1, <1>2, <1>4, <1>5, <4>1
      <4>2. CASE v \in workers /\ v # w
        BY <1>1, <1>2, <1>3, <4>2 DEF OrderedByReceipt
      <4>3. QED
        BY <1>11, <4>1, <4>2
    <3>2. QED
      BY <1>8, <3>1 DEF OrderedByReceipt
  <2>4. NoQuickScaleDown'
    <3>1. e.new.cpu >= w.event.new.cpu /\ e.new.memory >= w.event.new.memory
      BY <1>1, <1>2, <1>11, SizesAssumption DEF Refuses, Shrinks
    <3>2. QED
      BY <1>1, <1>2, <1>3, <1>4, <1>5, <1>11, <3>1 DEF NoQuickScaleDown
  <2>5. NewestRequestKept'
    <3>1. ASSUME NEW m \in Namespaces, m # ns
          PROVE  (\/ latest[m] \in {pending[m], cache[m]} \cup refused
                  \/ \E v \in workers : v.event = latest[m])'
      <4>1. CASE latest[m] = w.event
        BY <1>1, <3>1, <4>1 DEF KeyedByNamespace
      <4>2. QED
        BY <1>1, <1>2, <1>11, <3>1, <4>1 DEF NewestRequestKept
    <3>2. QED
      BY <1>1, <1>2, <1>5, <1>6, <1>11, <3>1 DEF NewestRequestKept
  <2>6. ResultsBehind'
    <3>1. ASSUME NEW i \in 1..Len(results)
          PROVE  LET r == results[i].event
                 IN  /\ \A v \in workers' :
                          v.event.ns = r.ns =>
                            /\ r.id <= v.event.id
                            /\ v.phase # "done" => r.id < v.event.id
                     /\ r.ns \notin inProgress' =>
                          cache'[r.ns] # NoEvent /\ r.id <= cache'[r.ns].id
      BY <1>1, <1>2, <1>3, <1>4, <1>5, <1>10, <1>11 DEF ResultsBehind, MarksMatchWorkers
    <3>2. QED
      BY <1>2, <3>1 DEF ResultsBehind
  <2>7. QED
    BY <1>7, <1>9, <2>1, <2>2, <2>3, <2>4, <2>5, <2>6
<1>12. CASE /\ workers' = workers \ {w}
            /\ inProgress' = inProgress \ {ns}
            /\ refused' = refused \cup {e}
  <2>1. OneResizePerNamespace' /\ MarksMatchWorkers' /\ PendingInProgress'
    BY <1>1, <1>2, <1>3, <1>12 DEF OneResizePerNamespace, MarksMatchWorkers,
       PendingInProgress
  <2>2. OrderedByReceipt'
    <3>1. ASSUME NEW v \in workers'
          PROVE  (/\ latest[v.event.ns] # NoEvent
                  /\ v.event.id <= latest[v.event.ns].id
                  /\ cache[v.event.ns] # NoEvent => cache[v.event.ns].id < v.event.id
                  /\ pending[v.event.ns] # NoEvent =>
                       v.event.id < pending[v.event.ns].id)'
      BY <1>1, <1>2, <1>3, <1>12 DEF OrderedByReceipt
    <3>2. QED
      BY <1>8, <3>1 DEF OrderedByReceipt
  <2>3. NoQuickScaleDown'
    BY <1>1, <1>2, <1>3, <1>12 DEF NoQuickScaleDown
  <2>4. NewestRequestKept'
    <3>1. ASSUME NEW m \in Namespaces, m # ns
          PROVE  (\/ latest[m] \in {pending[m], cache[m]} \cup refused
                  \/ \E v \in workers : v.event = latest[m])'
      <4>1. CASE latest[m] = w.event
        BY <1>1, <3>1, <4>1 DEF KeyedByNamespace
      <4>2. QED
        BY <1>1, <1>2, <1>12, <3>1, <4>1 DEF NewestRequestKept
    <3>2. QED
      BY <1>1, <1>2, <1>5, <1>6, <1>12, <3>1 DEF NewestRequestKept
  <2>5. ResultsBehind'
    <3>1. ASSUME NEW i \in 1..Len(results)
          PROVE  LET r == results[i].event
                 IN  /\ \A v \in workers' :
                          v.event.ns = r.ns =>
                            /\ r.id <= v.event.id
                            /\ v.phase # "done" => r.id < v.event.id
                     /\ r.ns \notin inProgress' =>
                          cache'[r.ns] # NoEvent /\ r.id <= cache'[r.ns].id
      BY <1>1, <1>2, <1>3, <1>10, <1>12 DEF ResultsBehind
    <3>2. QED
      BY <1>2, <3>1 DEF ResultsBehind
  <2>6. QED
    BY <1>7, <1>9, <2>1, <2>2, <2>3, <2>4, <2>5
<1>13. ns \in inProgress
  BY DEF MarksMatchWorkers
<1>14. Resize(e, workers \ {w})
  BY DEF TakePending
<1>15. inProgress \cup {e.ns} = inProgress /\ e.ns = ns
  BY <1>4, <1>13
<1>16. QED
  BY <1>11, <1>12, <1>14, <1>15 DEF Resize

\* A goroutine that goes on with the same event, when the results stay or the
\* goroutine appends its own.
LEMMA ApiReturnsInv ==
  ASSUME IInv, TypeOK', NEW w \in workers, NEW ok \in BOOLEAN, ApiReturns(w, ok)
  PROVE  IInv'
<1> DEFINE n == [event |-> w.event, phase |-> "returned", ok |-> ok]
<1> USE FieldTypes DEF IInv, TypeOK
<1>1. /\ w.phase = "calling"
      /\ workers' = (workers \ {w}) \cup {n}
      /\ UNCHANGED <<received, inProgress, pending, cache, recent, results,
                     latest, refused>>
  BY DEF ApiReturns, Advance
<1>2. n.event = w.event /\ n.phase = "returned"
  OBVIOUS
<1> HIDE DEF n
<1>3. OneResizePerNamespace' /\ MarksMatchWorkers' /\ PendingInProgress'
  BY <1>1, <1>2 DEF OneResizePerNamespace, MarksMatchWorkers, PendingInProgress
<1>4. KeyedByNamespace' /\ ResultsInOrder'
  BY <1>1 DEF KeyedByNamespace, ResultsInOrder
<1>5. OrderedByReceipt' /\ NoQuickScaleDown'
  BY <1>1, <1>2 DEF OrderedByReceipt, NoQuickScaleDown
<1>6. NewestRequestKept'
  BY <1>1, <1>2 DEF NewestRequestKept
<1>7. ResultsBehind'
  BY <1>1, <1>2 DEF ResultsBehind
<1>8. QED
  BY <1>3, <1>4, <1>5, <1>6, <1>7

\* A goroutine publishes its result, or drops it when the channel is full.
LEMMA PublishResultInv ==
  ASSUME IInv, TypeOK', NEW w \in workers, PublishResult(w)
  PROVE  IInv'
<1> DEFINE n == [event |-> w.event, phase |-> "done", ok |-> w.ok]
           r == [event |-> w.event, ok |-> w.ok]
<1> USE FieldTypes DEF IInv, TypeOK
<1>1. /\ w.phase = "returned"
      /\ workers' = (workers \ {w}) \cup {n}
      /\ results' = results \/ results' = Append(results, r)
      /\ UNCHANGED <<received, inProgress, pending, cache, recent, latest, refused>>
  BY DEF PublishResult, Advance
<1>2. /\ n.event = w.event /\ n.phase = "done"
      /\ r \in Result /\ r.event = w.event
  BY DEF Result
<1> HIDE DEF n, r
<1>3. \A v \in workers : v.event.ns = w.event.ns => v = w
  BY DEF OneResizePerNamespace
<1>4. OneResizePerNamespace' /\ MarksMatchWorkers' /\ PendingInProgress'
  BY <1>1, <1>2 DEF OneResizePerNamespace, MarksMatchWorkers, PendingInProgress
<1>5. KeyedByNamespace'
  BY <1>1 DEF KeyedByNamespace
<1>6. OrderedByReceipt' /\ NoQuickScaleDown'
  BY <1>1, <1>2 DEF OrderedByReceipt, NoQuickScaleDown
<1>7. NewestRequestKept'
  BY <1>1, <1>2 DEF NewestRequestKept
<1>8. ASSUME NEW i \in 1..Len(results)
      PROVE  /\ results[i].event \in Event
             /\ results[i].event.ns = w.event.ns => results[i].event.id < w.event.id
             /\ \A v \in workers' :
                  v.event.ns = results[i].event.ns =>
                    /\ results[i].event.id <= v.event.id
                    /\ v.phase # "done" => results[i].event.id < v.event.id
             /\ results[i].event.ns \notin inProgress' =>
                  /\ cache'[results[i].event.ns] # NoEvent
                  /\ results[i].event.id <= cache'[results[i].event.ns].id
  BY <1>1, <1>2 DEF ResultsBehind
<1>9. CASE results' = results
  <2>1. ResultsBehind'
    BY <1>8, <1>9 DEF ResultsBehind
  <2>2. ResultsInOrder'
    BY <1>9 DEF ResultsInOrder
  <2>3. QED
    BY <1>4, <1>5, <1>6, <1>7, <2>1, <2>2
<1>10. CASE results' = Append(results, r)
  <2>1. /\ Len(results') = Len(results) + 1
        /\ \A i \in 1..Len(results) : results'[i] = results[i]
        /\ results'[Len(results) + 1] = r
        /\ Len(results) \in Nat
    BY <1>2, <1>10
  <2>2. ResultsBehind'
    <3>1. ASSUME NEW i \in 1..Len(results')
          PROVE  LET q == results'[i].event
                 IN  /\ \A v \in workers' :
                          v.event.ns = q.ns =>
                            /\ q.id <= v.event.id
                            /\ v.phase # "done" => q.id < v.event.id
                     /\ q.ns \notin inProgress' =>
                          cache'[q.ns] # NoEvent /\ q.id <= cache'[q.ns].id
      <4>1. CASE i \in 1..Len(results)
        BY <1>8, <2>1, <4>1
      <4>2. CASE i = Len(results) + 1
        BY <1>1, <1>2, <1>3, <2>1, <4>2 DEF MarksMatchWorkers
      <4>3. QED
        BY <2>1, <4>1, <4>2
    <3>2. QED
      BY <3>1 DEF ResultsBehind
  <2>3. ResultsInOrder'
    <3>1. ASSUME NEW i \in 1..Len(results'), NEW j \in 1..Len(results'),
                 i < j, results'[i].event.ns = results'[j].event.ns
          PROVE  results'[i].event.id < results'[j].event.id
      <4>1. i \in 1..Len(results) /\ results'[i] = results[i]
        BY <2>1, <3>1
      <4>2. CASE j \in 1..Len(results)
        <5>1. results'[j] = results[j]
          BY <2>1, <4>2
        <5>2. QED
          BY <3>1, <4>1, <4>2, <5>1 DEF ResultsInOrder
      <4>3. CASE j = Len(results) + 1
        BY <1>2, <1>8, <2>1, <3>1, <4>1, <4>3
      <4>4. QED
        BY <2>1, <4>2, <4>3
    <3>2. QED
      BY <3>1 DEF ResultsInOrder
  <2>4. QED
    BY <1>4, <1>5, <1>6, <1>7, <2>2, <2>3
<1>11. QED
  BY <1>1, <1>9, <1>10

\* The oldest result leaves the channel.
LEMMA ConsumeResultInv ==
  ASSUME IInv, TypeOK', ConsumeResult
  PROVE  IInv'
<1> USE DEF IInv, TypeOK
<1>1. UNCHANGED <<received, inProgress, pending, cache, recent, workers,
                  latest, refused>>
  BY DEF ConsumeResult
<1>2. /\ Len(results') = Len(results) - 1
      /\ Len(results) \in Nat
      /\ \A i \in 1..Len(results') :
            results'[i] = results[i + 1] /\ i + 1 \in 1..Len(results)
  BY DEF ConsumeResult
<1>3. OneResizePerNamespace' /\ MarksMatchWorkers' /\ PendingInProgress'
  BY <1>1 DEF OneResizePerNamespace, MarksMatchWorkers, PendingInProgress
<1>4. KeyedByNamespace' /\ OrderedByReceipt' /\ NoQuickScaleDown' /\ NewestRequestKept'
  BY <1>1 DEF KeyedByNamespace, OrderedByReceipt, NoQuickScaleDown, NewestRequestKept
<1>5. ResultsBehind'
  <2>1. ASSUME NEW i \in 1..Len(results')
        PROVE  LET r == results'[i].event
               IN  /\ \A w \in workers' :
                        w.event.ns = r.ns =>
                          /\ r.id <= w.event.id
                          /\ w.phase # "done" => r.id < w.event.id
                   /\ r.ns \notin inProgress' =>
                        cache'[r.ns] # NoEvent /\ r.id <= cache'[r.ns].id
    <3>1. i + 1 \in 1..Len(results) /\ results'[i] = results[i + 1]
      BY <1>2
    <3>2. ResultsBehind
      OBVIOUS
    <3> QED
      BY ONLY <1>1, <3>1, <3>2 DEF ResultsBehind
  <2>2. QED
    BY <2>1 DEF ResultsBehind
<1>6. ResultsInOrder'
  <2>1. ASSUME NEW i \in 1..Len(results'), NEW j \in 1..Len(results'),
               i < j, results'[i].event.ns = results'[j].event.ns
        PROVE  results'[i].event.id < results'[j].event.id
    <3>1. /\ i + 1 \in 1..Len(results) /\ results'[i] = results[i + 1]
          /\ j + 1 \in 1..Len(results) /\ results'[j] = results[j + 1]
          /\ i + 1 < j + 1
      BY <1>2, <2>1
    <3>2. QED
      BY <2>1, <3>1 DEF ResultsInOrder
  <2>2. QED
    BY <2>1 DEF ResultsInOrder
<1>7. QED
  BY <1>3, <1>4, <1>5, <1>6

\* A minute that passes only lifts a restriction.
LEMMA MinutePassesInv ==
  ASSUME IInv, TypeOK', NEW ns \in Namespaces, MinutePasses(ns)
  PROVE  IInv'
<1> USE DEF IInv, MinutePasses
<1>1. OneResizePerNamespace' /\ MarksMatchWorkers' /\ PendingInProgress'
  BY DEF OneResizePerNamespace, MarksMatchWorkers, PendingInProgress
<1>2. KeyedByNamespace' /\ OrderedByReceipt' /\ NoQuickScaleDown' /\ NewestRequestKept'
  BY DEF KeyedByNamespace, OrderedByReceipt, NoQuickScaleDown, NewestRequestKept
<1>3. ResultsBehind' /\ ResultsInOrder'
  BY DEF ResultsBehind, ResultsInOrder
<1>4. QED
  BY <1>1, <1>2, <1>3

\* With nothing received there is nothing to be out of order.
LEMMA InitIInv == Init => IInv
<1> SUFFICES ASSUME Init
             PROVE  IInv
  OBVIOUS
<1>1. TypeOK
  BY InitTypeOK
<1>2. OneResizePerNamespace /\ MarksMatchWorkers /\ PendingInProgress
  BY DEF Init, OneResizePerNamespace, MarksMatchWorkers, PendingInProgress
<1>3. KeyedByNamespace /\ OrderedByReceipt /\ NoQuickScaleDown /\ NewestRequestKept
  BY DEF Init, KeyedByNamespace, OrderedByReceipt, NoQuickScaleDown, NewestRequestKept
<1>4. ResultsBehind /\ ResultsInOrder
  BY DEF Init, ResultsBehind, ResultsInOrder
<1>5. QED
  BY <1>1, <1>2, <1>3, <1>4 DEF IInv

\* Every step keeps the invariant, by the lemmas about actions and parts above.
LEMMA NextIInv == IInv /\ [Next]_vars => IInv'
<1> SUFFICES ASSUME IInv, [Next]_vars
             PROVE  IInv'
  OBVIOUS
<1>1. TypeOK'
  BY NextTypeOK DEF IInv
<1>2. ASSUME NEW ns \in Namespaces, NEW new \in Sizes, ReceiveRequest(ns, new)
      PROVE  IInv'
  BY <1>1, <1>2, KeepPendingInv, ResizeNowInv DEF ReceiveRequest
<1>3. ASSUME NEW w \in workers, WorkerStep(w)
      PROVE  IInv'
  <2>1. ASSUME NEW ok \in BOOLEAN, ApiReturns(w, ok)
        PROVE  IInv'
    BY <1>1, <2>1, ApiReturnsInv
  <2>2. CASE PublishResult(w)
    BY <1>1, <2>2, PublishResultInv
  <2>3. CASE ReceiveDone(w)
    BY <1>1, <2>3, GoIdleInv, TakePendingInv DEF ReceiveDone, Finish
  <2>4. QED
    BY <1>3, <2>1, <2>2, <2>3 DEF WorkerStep
<1>4. CASE ConsumeResult
  BY <1>1, <1>4, ConsumeResultInv
<1>5. ASSUME NEW ns \in Namespaces, MinutePasses(ns)
      PROVE  IInv'
  BY <1>1, <1>5, MinutePassesInv
<1>6. CASE UNCHANGED vars
  <2> USE <1>6 DEF IInv, vars
  <2>1. OneResizePerNamespace' /\ MarksMatchWorkers' /\ PendingInProgress'
    BY DEF OneResizePerNamespace, MarksMatchWorkers, PendingInProgress
  <2>2. KeyedByNamespace' /\ OrderedByReceipt' /\ NoQuickScaleDown' /\ NewestRequestKept'
    BY DEF KeyedByNamespace, OrderedByReceipt, NoQuickScaleDown, NewestRequestKept
  <2>3. ResultsBehind' /\ ResultsInOrder'
    BY DEF ResultsBehind, ResultsInOrder
  <2>4. QED
    BY <1>1, <2>1, <2>2, <2>3
<1>7. QED
  BY <1>2, <1>3, <1>4, <1>5, <1>6 DEF Next

\* The invariant holds in every state the handler reaches.
THEOREM InvariantHolds == Spec => []IInv
<1>1. QED
  BY InitIInv, NextIInv, PTL DEF Spec

-----------------------------------------------------------------------------
(* The properties. *)

\* The endpoint never executes two resizes of one namespace.
THEOREM Exclusion == Spec => []OneResizePerNamespace
<1>1. IInv => OneResizePerNamespace
  BY DEF IInv
<1>2. QED
  BY <1>1, InvariantHolds, PTL

\* No namespace stays marked, and no event stays pending, without a goroutine
\* that will send the done message that releases it.
THEOREM NotWedged == Spec => []NoWedgedNamespace
<1>1. IInv => NoWedgedNamespace
  BY DEF IInv, NoWedgedNamespace, MarksMatchWorkers, PendingInProgress
<1>2. QED
  BY <1>1, InvariantHolds, PTL

\* No executing resize lowers CPU or memory below the resize that finished
\* within the last minute.
THEOREM QuickScaleDownImpossible == Spec => []NoQuickScaleDown
<1>1. IInv => NoQuickScaleDown
  BY DEF IInv
<1>2. QED
  BY <1>1, InvariantHolds, PTL

\* The handler forgets only requests that a newer one replaces.
THEOREM NewestNotLost == Spec => []NewestRequestKept
<1>1. IInv => NewestRequestKept
  BY DEF IInv
<1>2. QED
  BY <1>1, InvariantHolds, PTL

\* The watcher reads the results of a namespace in the order of the requests.
THEOREM ResultsOrdered == Spec => []ResultsInOrder
<1>1. IInv => ResultsInOrder
  BY DEF IInv
<1>2. QED
  BY <1>1, InvariantHolds, PTL

-----------------------------------------------------------------------------
(* The handler implements SerialResizes. *)

\* The refinement mapping, spelled out: the calls of the endpoint for ns,
CallsOf(ns) == {w.event.id : w \in {v \in InFlight(ns) : v.phase = "calling"}}

\* of all namespaces,
Calls == [ns \in Namespaces |-> CallsOf(ns)]

\* and the last request each has called for.
Last == [ns \in Namespaces |-> LastCalled(ns)]

\* What the mapping gives for a namespace with one goroutine, and with none.
Mapped ==
  /\ \A w \in workers :
       /\ LastCalled(w.event.ns) = w.event.id
       /\ w.phase = "calling" => CallsOf(w.event.ns) = {w.event.id}
       /\ w.phase # "calling" => CallsOf(w.event.ns) = {}
  /\ \A ns \in Namespaces \ inProgress :
       /\ CallsOf(ns) = {}
       /\ cache[ns] # NoEvent => LastCalled(ns) = cache[ns].id
       /\ cache[ns] = NoEvent => LastCalled(ns) = 0

\* The invariant gives those values.
LEMMA MappingValues == IInv => Mapped
<1> SUFFICES ASSUME IInv
             PROVE  Mapped
  OBVIOUS
<1> USE DEF IInv
<1>1. ASSUME NEW w \in workers
      PROVE  /\ LastCalled(w.event.ns) = w.event.id
             /\ w.phase = "calling" => CallsOf(w.event.ns) = {w.event.id}
             /\ w.phase # "calling" => CallsOf(w.event.ns) = {}
  <2>1. InFlight(w.event.ns) = {w}
    BY DEF InFlight, OneResizePerNamespace
  <2>2. (CHOOSE v \in InFlight(w.event.ns) : TRUE) = w
    BY <2>1
  <2>3. QED
    BY <2>1, <2>2 DEF LastCalled, CallsOf
<1>2. ASSUME NEW ns \in Namespaces \ inProgress
      PROVE  /\ CallsOf(ns) = {}
             /\ cache[ns] # NoEvent => LastCalled(ns) = cache[ns].id
             /\ cache[ns] = NoEvent => LastCalled(ns) = 0
  <2>1. InFlight(ns) = {}
    BY DEF InFlight, MarksMatchWorkers
  <2>2. QED
    BY <2>1 DEF LastCalled, CallsOf
<1>3. QED
  BY <1>1, <1>2 DEF Mapped

\* Only the cache and the goroutines of a namespace count in the mapping.
LEMMA MappingFrame ==
  ASSUME NEW ns \in Namespaces, cache'[ns] = cache[ns],
         \A v : v.event.ns = ns => (v \in workers' <=> v \in workers)
  PROVE  CallsOf(ns)' = CallsOf(ns) /\ LastCalled(ns)' = LastCalled(ns)
<1>1. InFlight(ns)' = InFlight(ns)
  BY DEF InFlight
<1>2. QED
  BY <1>1 DEF CallsOf, LastCalled

\* The mapping changes only at one namespace.
LEMMA MappingExcept ==
  ASSUME NEW ns \in Namespaces,
         \A m \in Namespaces \ {ns} : cache'[m] = cache[m],
         \A v : v.event.ns # ns => (v \in workers' <=> v \in workers)
  PROVE  /\ Calls' = [Calls EXCEPT ![ns] = CallsOf(ns)']
         /\ Last' = [Last EXCEPT ![ns] = LastCalled(ns)']
<1>1. \A m \in Namespaces \ {ns} :
        CallsOf(m)' = CallsOf(m) /\ LastCalled(m)' = LastCalled(m)
  BY MappingFrame
<1>2. QED
  BY <1>1 DEF Calls, Last

\* A step that leaves cache and the goroutines alone is a stutter.
LEMMA MappingUnchanged ==
  ASSUME UNCHANGED <<cache, workers>>
  PROVE  UNCHANGED <<Calls, Last>>
  BY DEF Calls, Last, CallsOf, LastCalled, InFlight

\* The actions of SerialResizes under the mapping: a call starts,
CallStep(ns, k) ==
  /\ Calls[ns] = {}
  /\ k > Last[ns]
  /\ Calls' = [Calls EXCEPT ![ns] = {k}]
  /\ Last' = [Last EXCEPT ![ns] = k]

\* a call returns,
ReturnStep(ns) ==
  /\ Calls[ns] # {}
  /\ Calls' = [Calls EXCEPT ![ns] = {}]
  /\ UNCHANGED Last

\* one of them, or nothing that SerialResizes sees.
AbstractStep ==
  \/ \E ns \in Namespaces :
       ReturnStep(ns) \/ \E k \in 1..MaxRequests : CallStep(ns, k)
  \/ UNCHANGED <<Calls, Last>>

\* The step that receives a request calls the endpoint or is a stutter.
LEMMA RequestSimulated ==
  ASSUME IInv, IInv', Mapped, Mapped', NEW ns \in Namespaces, NEW new \in Sizes,
         ReceiveRequest(ns, new)
  PROVE  AbstractStep
<1> DEFINE e == [id |-> received + 1, ns |-> ns, new |-> new]
<1> USE FieldTypes DEF IInv, TypeOK
<1>1. e \in Event /\ e.ns = ns /\ e.id = received + 1
  BY RequestType DEF ReceiveRequest
<1>2. received \in Nat /\ e.id \in 1..MaxRequests
  BY <1>1, MaxRequestsAssumption DEF Event
<1>3. cache' = cache /\ (KeepPending(e) \/ ResizeNow(e))
  BY DEF ReceiveRequest
<1>4. CASE workers' = workers
  BY <1>3, <1>4, MappingUnchanged DEF AbstractStep
<1>5. CASE ResizeNow(e) /\ workers' = workers \cup {NewWorker(e)}
  <2>1. NewWorker(e).event = e /\ NewWorker(e).phase = "calling"
    BY DEF NewWorker
  <2>2. Calls' = [Calls EXCEPT ![ns] = CallsOf(ns)'] /\ Last' = [Last EXCEPT ![ns] = LastCalled(ns)']
    BY <1>1, <1>3, <1>5, <2>1, MappingExcept
  <2>3. CallsOf(ns)' = {e.id} /\ LastCalled(ns)' = e.id
    <3> HIDE DEF e
    <3>1. PICK v \in workers' : v.event = e /\ v.phase = "calling"
      BY <1>5, <2>1
    <3>2. v.event.ns = ns
      BY <1>1, <3>1
    <3>3. LastCalled(ns)' = v.event.id /\ CallsOf(ns)' = {v.event.id}
      BY <3>1, <3>2 DEF Mapped
    <3>4. QED
      BY <3>1, <3>3
  <2>4. Calls[ns] = {} /\ e.id > Last[ns]
    <3>1. ns \notin inProgress
      BY <1>1, <1>5 DEF ResizeNow
    <3>2. cache[ns] # NoEvent => cache[ns].id <= received
      BY <1>2 DEF OrderedByReceipt
    <3>3. QED
      BY <1>1, <1>2, <3>1, <3>2 DEF Mapped, Calls, Last
  <2>5. QED
    BY <1>2, <2>2, <2>3, <2>4 DEF AbstractStep, CallStep
<1>6. QED
  BY <1>3, <1>4, <1>5 DEF KeepPending, ResizeNow, Resize

\* The step that takes a done message calls the endpoint or is a stutter.
LEMMA DoneSimulated ==
  ASSUME IInv, IInv', Mapped, Mapped', NEW w \in workers, ReceiveDone(w)
  PROVE  AbstractStep
<1> DEFINE ns == w.event.ns
           e == pending[ns]
<1> USE FieldTypes DEF IInv, TypeOK
<1>1. /\ w.event \in Event /\ ns \in Namespaces /\ w.phase = "done"
      /\ w.event # NoEvent
      /\ cache' = [cache EXCEPT ![ns] = w.event]
      /\ GoIdle(w) \/ TakePending(w)
  BY NoEventAssumption DEF ReceiveDone, Finish
<1>2. Calls[ns] = {} /\ Last[ns] = w.event.id
  BY <1>1 DEF Mapped, Calls, Last
<1>3. CASE workers' = workers \ {w} /\ inProgress' = inProgress \ {ns}
  <2>1. Calls' = [Calls EXCEPT ![ns] = CallsOf(ns)'] /\ Last' = [Last EXCEPT ![ns] = LastCalled(ns)']
    BY <1>1, <1>3, MappingExcept
  <2>2. CallsOf(ns)' = {} /\ LastCalled(ns)' = w.event.id
    BY <1>1, <1>3 DEF Mapped
  <2>3. Calls' = Calls
    BY <1>2, <2>1, <2>2 DEF Calls
  <2>4. Last' = Last
    BY <1>2, <2>1, <2>2 DEF Last
  <2>5. QED
    BY <2>3, <2>4 DEF AbstractStep
<1>4. CASE e # NoEvent /\ workers' = (workers \ {w}) \cup {NewWorker(e)}
  <2>1. NewWorker(e).event = e /\ NewWorker(e).phase = "calling"
    BY DEF NewWorker
  <2>2. e \in Event /\ e.ns = ns /\ w.event.id < e.id /\ e.id \in 1..MaxRequests
    <3>1. e \in Event
      BY <1>1, <1>4
    <3>2. e.ns = ns
      BY <1>1, <1>4 DEF KeyedByNamespace
    <3>3. w.event.id < e.id
      BY <1>4 DEF OrderedByReceipt
    <3>4. QED
      BY <3>1, <3>2, <3>3 DEF Event
  <2>3. Calls' = [Calls EXCEPT ![ns] = CallsOf(ns)'] /\ Last' = [Last EXCEPT ![ns] = LastCalled(ns)']
    BY <1>1, <1>4, <2>1, <2>2, MappingExcept
  <2>4. CallsOf(ns)' = {e.id} /\ LastCalled(ns)' = e.id
    <3> HIDE DEF e
    <3>1. PICK v \in workers' : v.event = e /\ v.phase = "calling"
      BY <1>4, <2>1
    <3>2. v.event.ns = ns
      BY <2>2, <3>1
    <3>3. LastCalled(ns)' = v.event.id /\ CallsOf(ns)' = {v.event.id}
      BY <3>1, <3>2 DEF Mapped
    <3>4. QED
      BY <3>1, <3>3
  <2>5. QED
    BY <1>1, <1>2, <2>2, <2>3, <2>4 DEF AbstractStep, CallStep
<1>5. TakePending(w) => e # NoEvent /\ e.ns = ns
  BY <1>1 DEF TakePending, KeyedByNamespace
<1>6. QED
  BY <1>1, <1>3, <1>4, <1>5 DEF GoIdle, TakePending, Resize

\* The endpoint's answer is a return, the publication of the result a stutter.
LEMMA AdvanceSimulated ==
  ASSUME IInv, IInv', Mapped, Mapped', NEW w \in workers,
         NEW p \in {"returned", "done"}, NEW ok \in BOOLEAN,
         Advance(w, p, ok), cache' = cache,
         p = "returned" => w.phase = "calling",
         p = "done" => w.phase = "returned"
  PROVE  AbstractStep
<1> DEFINE ns == w.event.ns
           n == [event |-> w.event, phase |-> p, ok |-> ok]
<1> USE FieldTypes DEF IInv, TypeOK
<1>1. /\ w.event \in Event /\ ns \in Namespaces
      /\ workers' = (workers \ {w}) \cup {n} /\ n.event = w.event /\ n.phase = p
  BY DEF Advance
<1> HIDE DEF n
<1>2. Calls' = [Calls EXCEPT ![ns] = CallsOf(ns)'] /\ Last' = [Last EXCEPT ![ns] = LastCalled(ns)']
  BY <1>1, MappingExcept
<1>3. CallsOf(ns)' = {} /\ LastCalled(ns)' = w.event.id
  BY <1>1 DEF Mapped
<1>4. Last[ns] = w.event.id
  BY <1>1 DEF Mapped, Last
<1>5. p = "returned" => Calls[ns] = {w.event.id}
  BY <1>1 DEF Mapped, Calls
<1>6. p = "done" => Calls[ns] = {}
  BY <1>1 DEF Mapped, Calls
<1>7. Last' = Last
  BY <1>2, <1>3, <1>4 DEF Last
<1>8. CASE p = "returned"
  BY <1>1, <1>2, <1>3, <1>5, <1>7, <1>8 DEF AbstractStep, ReturnStep
<1>9. CASE p = "done"
  <2>1. Calls' = Calls
    BY <1>2, <1>3, <1>6, <1>9 DEF Calls
  <2>2. QED
    BY <1>7, <2>1 DEF AbstractStep
<1>10. QED
  BY <1>8, <1>9

\* Every step of the handler is a step of SerialResizes or a stutter.
LEMMA StepSimulated == IInv /\ IInv' /\ Mapped /\ Mapped' /\ [Next]_vars => AbstractStep
<1> SUFFICES ASSUME IInv, IInv', Mapped, Mapped', [Next]_vars
             PROVE  AbstractStep
  OBVIOUS
<1>1. ASSUME NEW ns \in Namespaces, NEW new \in Sizes, ReceiveRequest(ns, new)
      PROVE  AbstractStep
  BY <1>1, RequestSimulated
<1>2. ASSUME NEW w \in workers, WorkerStep(w)
      PROVE  AbstractStep
  <2>1. ASSUME NEW ok \in BOOLEAN, ApiReturns(w, ok)
        PROVE  AbstractStep
    BY <2>1, AdvanceSimulated DEF ApiReturns
  <2>2. CASE PublishResult(w)
    <3>1. w.ok \in BOOLEAN
      BY FieldTypes DEF IInv, TypeOK
    <3>2. QED
      BY <2>2, <3>1, AdvanceSimulated DEF PublishResult
  <2>3. CASE ReceiveDone(w)
    BY <2>3, DoneSimulated
  <2>4. QED
    BY <1>2, <2>1, <2>2, <2>3 DEF WorkerStep
<1>3. CASE ConsumeResult \/ (\E ns \in Namespaces : MinutePasses(ns)) \/ UNCHANGED vars
  BY <1>3, MappingUnchanged DEF ConsumeResult, MinutePasses, vars, AbstractStep
<1>4. QED
  BY <1>1, <1>2, <1>3 DEF Next

\* Every behaviour of the handler is one of SerialResizes: calls for one
\* namespace do not overlap and follow the order of their requests.
THEOREM Refinement == Spec => ImplementsSerialResizes
<1>1. Init => Serial!Init
  <2> SUFFICES ASSUME Init
               PROVE  Serial!Init
    OBVIOUS
  <2>1. Mapped /\ \A ns \in Namespaces : ns \notin inProgress /\ cache[ns] = NoEvent
    BY InitIInv, MappingValues DEF Init
  <2>2. QED
    BY <2>1 DEF Mapped, CallsOf, Serial!Init
<1>2. AbstractStep => [Serial!Next]_(Serial!vars)
  BY DEF AbstractStep, CallStep, ReturnStep, Calls, Last, CallsOf,
     Serial!Next, Serial!Call, Serial!Return, Serial!vars
<1>3. IInv /\ IInv' /\ [Next]_vars => [Serial!Next]_(Serial!vars)
  <2>1. IInv' => Mapped'
    BY MappingValues, PTL
  <2>2. QED
    BY <1>2, <2>1, MappingValues, StepSimulated
<1>4. QED
  BY <1>1, <1>3, InvariantHolds, PTL DEF Spec, ImplementsSerialResizes, Serial!Spec
=============================================================================
