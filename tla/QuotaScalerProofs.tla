-------------------------- MODULE QuotaScalerProofs --------------------------
(***************************************************************************)
(* The safety properties of QuotaScaler, for every set of sizes and        *)
(* demands and every number of evaluations, failures and changes.          *)
(***************************************************************************)
EXTENDS QuotaScaler, FiniteSetTheorems, TLAPS

-----------------------------------------------------------------------------
(* The inductive invariant. *)

\* What the handler keeps, whoever sends it requests: it has one worker or none,
\* marked in inProgress, and a worker within the minute was not to be refused.
HandlerInv ==
  /\ pending \in [{Namespace} -> Handler!Event \cup {NoEvent}]
  /\ cache \in [{Namespace} -> Handler!Event \cup {NoEvent}]
  /\ recent \in SUBSET {Namespace}
  /\ workers \in SUBSET Handler!Worker
  /\ \A w \in workers : Calling(w)
  /\ \/ workers = {} /\ inProgress = {}
     \/ \E w : workers = {w} /\ inProgress = {Namespace}
  /\ recent # {} => /\ cache[Namespace] # NoEvent
                    /\ \A w \in workers : Covers(w.event.new, cache[Namespace].new)

\* As long as nothing fails the quota is what the cache says, or what the worker
\* has called for when the endpoint has done that.
CacheCurrent ==
  failures = 0 =>
    /\ strays = {}
    /\ executed => \A w \in workers : hard = w.event.new
    /\ ~executed /\ cache[Namespace] # NoEvent => hard = cache[Namespace].new

\* The types, and what ties handler, endpoint and quota together.
IInv == TypeOK /\ IsFiniteSet(evaluations) /\ HandlerInv /\ CacheCurrent

-----------------------------------------------------------------------------
(* Values. *)

\* What an evaluation comes to is what its policies demand, or that and the quota.
LEMMA ForcedIsJoin ==
  ASSUME NEW d \in [cpu : Nat, memory : Nat], NEW k \in [cpu : Nat, memory : Nat]
  PROVE  ForceNoScaleDownWhenScaleUp(d, k) \in {d, AtLeast(d, k)}
<1>1. CASE d.cpu > k.cpu
  <2>1. AtLeast(d, k) = [d EXCEPT !.memory = Larger(d.memory, k.memory)]
    BY <1>1 DEF AtLeast, Larger
  <2> QED
    BY <1>1, <2>1 DEF ForceNoScaleDownWhenScaleUp
<1>2. CASE d.cpu <= k.cpu /\ d.memory > k.memory
  <2>1. AtLeast(d, k) = [d EXCEPT !.cpu = Larger(d.cpu, k.cpu)]
    BY <1>2 DEF AtLeast, Larger
  <2> QED
    BY <1>2, <2>1 DEF ForceNoScaleDownWhenScaleUp
<1>3. CASE d.cpu <= k.cpu /\ d.memory <= k.memory
  BY <1>3 DEF ForceNoScaleDownWhenScaleUp
<1> QED
  BY <1>1, <1>2, <1>3

\* Sizes are pairs of naturals, and so is what an evaluation asks for.
LEMMA SizeTypes ==
  /\ \A s \in Sizes : s \in [cpu : Nat, memory : Nat]
  /\ \A e \in Snapshot : Desired(e) \in Sizes
  /\ \A e \in Handler!Event :
       e.ns = Namespace /\ e.new \in Sizes /\ NamespacePatch(e) = e.new /\ e # NoEvent
  /\ \A w \in Handler!Worker : w.event \in Handler!Event
  /\ \A s \in Sizes : Request(s) \in Handler!Event
<1> USE SizesAssumption
<1>1. \A s \in Sizes : s \in [cpu : Nat, memory : Nat]
  OBVIOUS
<1>2. \A e \in Snapshot : Desired(e) \in Sizes
  BY <1>1, ForcedIsJoin DEF Snapshot, Desired
<1>3. ASSUME NEW e \in Handler!Event
      PROVE  e.ns = Namespace /\ e.new \in Sizes /\ NamespacePatch(e) = e.new /\ e # NoEvent
  <2>1. e.ns = Namespace /\ e.new \in Sizes /\ e.id = 1 /\ e # NoEvent
    BY NoEventAssumption DEF Handler!Event
  <2>2. NamespacePatch(e) = e.new
    BY <2>1, <1>1 DEF NamespacePatch
  <2> QED
    BY <2>1, <2>2
<1>4. \A w \in Handler!Worker : w.event \in Handler!Event
  BY DEF Handler!Worker
<1>5. \A s \in Sizes : Request(s) \in Handler!Event
  BY DEF Request, Handler!Event
<1> QED
  BY <1>1, <1>2, <1>3, <1>4, <1>5

\* A request that is not refused covers what the last resize left.
LEMMA NotRefused ==
  ASSUME NEW p \in Handler!Event \cup {NoEvent}, NEW e \in Handler!Event,
         p # NoEvent, ~Handler!Refuses(p, TRUE, e)
  PROVE  Covers(e.new, p.new)
<1>1. e.new \in [cpu : Nat, memory : Nat] /\ p.new \in [cpu : Nat, memory : Nat]
  BY SizeTypes
<1> QED
  BY <1>1 DEF Handler!Refuses, Handler!Shrinks, Covers

\* An evaluation more, or one less.
LEMMA EvaluationSets ==
  ASSUME NEW S, IsFiniteSet(S), NEW x
  PROVE  /\ IsFiniteSet(S \cup {x}) /\ IsFiniteSet(S \ {x})
         /\ Cardinality(S) < MaxCalls => Cardinality(S \cup {x}) <= MaxCalls
         /\ Cardinality(S) <= MaxCalls => Cardinality(S \ {x}) <= MaxCalls
<1>1. Cardinality(S) \in Nat /\ MaxCalls \in Nat
  BY FS_CardinalityType, BoundsAssumption
<1>2. /\ IsFiniteSet(S \cup {x})
      /\ Cardinality(S \cup {x}) = IF x \in S THEN Cardinality(S) ELSE Cardinality(S) + 1
  BY FS_AddElement
<1>3. /\ IsFiniteSet(S \ {x})
      /\ Cardinality(S \ {x}) = IF x \in S THEN Cardinality(S) - 1 ELSE Cardinality(S)
  BY FS_RemoveElement
<1> QED
  BY <1>1, <1>2, <1>3

-----------------------------------------------------------------------------
(* The handler. *)

\* The new worker executes what it was started for.
LEMMA NewWorkers ==
  ASSUME NEW e \in Handler!Event
  PROVE  /\ Handler!NewWorker(e) \in Handler!Worker
         /\ Handler!NewWorker(e).event = e
         /\ Handler!NewWorker(e).phase = "calling"
  BY DEF Handler!NewWorker, Handler!Worker, Handler!Phase

\* A request that is received leaves the invariant of the handler.
LEMMA ReceiveInv ==
  ASSUME HandlerInv, NEW e \in Handler!Event, UNCHANGED <<cache, recent>>,
         Handler!KeepPending(e) \/ Handler!ResizeNow(e)
  PROVE  HandlerInv'
<1> DEFINE n == Handler!NewWorker(e)
<1> USE SizeTypes DEF HandlerInv, Calling
<1>1. e.ns = Namespace /\ n \in Handler!Worker /\ n.event = e /\ n.phase = "calling"
  BY NewWorkers
<1> HIDE DEF n
<1>2. CASE Handler!KeepPending(e)
  BY <1>1, <1>2 DEF Handler!KeepPending
<1>3. CASE Handler!ResizeNow(e)
  <2>1. workers = {} /\ UNCHANGED pending
    BY <1>1, <1>3 DEF Handler!ResizeNow
  <2>2. CASE workers' = {n} /\ inProgress' = {Namespace}
             /\ ~Handler!Refuses(cache[Namespace], Namespace \in recent, e)
    <3>1. recent # {} => Covers(e.new, cache[Namespace].new)
      BY <2>2, NotRefused
    <3> QED
      BY <1>1, <2>1, <2>2, <3>1
  <2>3. CASE workers' = {} /\ inProgress' = {}
    BY <2>1, <2>3
  <2> QED
    BY <1>1, <1>3, <2>1, <2>2, <2>3 DEF Handler!ResizeNow, Handler!Resize, n
<1> QED
  BY <1>2, <1>3

\* So does a worker that is done; what it executed is in the cache.
LEMMA FinishInv ==
  ASSUME HandlerInv, NEW w \in workers, Handler!Finish(w)
  PROVE  HandlerInv' /\ cache'[Namespace] = w.event
<1> USE SizeTypes DEF HandlerInv, Calling
<1>1. w.event \in Handler!Event /\ w.event.ns = Namespace /\ w.event # NoEvent
  OBVIOUS
<1>2. workers = {w} /\ inProgress = {Namespace}
  OBVIOUS
<1>3. /\ cache' \in [{Namespace} -> Handler!Event \cup {NoEvent}]
      /\ cache'[Namespace] = w.event
      /\ recent' = {Namespace}
  BY <1>1 DEF Handler!Finish
<1>4. CASE Handler!GoIdle(w)
  BY <1>1, <1>2, <1>3, <1>4 DEF Handler!GoIdle
<1>5. CASE Handler!TakePending(w)
  <2> DEFINE e == pending[Namespace]
             n == Handler!NewWorker(e)
  <2>1. e \in Handler!Event /\ e.ns = Namespace
    BY <1>1, <1>5 DEF Handler!TakePending
  <2>2. n \in Handler!Worker /\ n.event = e /\ n.phase = "calling"
    BY <2>1, NewWorkers
  <2> HIDE DEF n
  <2>3. pending' \in [{Namespace} -> Handler!Event \cup {NoEvent}]
    BY <1>1, <1>5 DEF Handler!TakePending
  <2>4. CASE workers' = {n} /\ inProgress' = {Namespace}
             /\ ~Handler!Refuses(w.event, TRUE, e)
    <3>1. Covers(e.new, w.event.new)
      BY <1>1, <2>1, <2>4, NotRefused
    <3> QED
      BY <1>1, <1>3, <2>2, <2>3, <2>4, <3>1
  <2>5. CASE workers' = {} /\ inProgress' = {}
    BY <1>1, <1>3, <2>3, <2>5
  <2> QED
    BY <1>1, <1>2, <1>3, <1>5, <2>1, <2>4, <2>5 DEF Handler!TakePending, Handler!Resize, n
<1> QED
  BY <1>3, <1>4, <1>5 DEF Handler!Finish

-----------------------------------------------------------------------------
(* Every action preserves the invariant. *)

\* The types of the handler's variables in TypeOK follow.
LEMMA InitInv == Init => IInv
<1> SUFFICES ASSUME Init
             PROVE  IInv
  OBVIOUS
<1> USE SizesAssumption, BoundsAssumption DEF Init
<1>1. HandlerInv
  BY DEF HandlerInv
<1>2. IsFiniteSet(evaluations) /\ Cardinality(evaluations) = 0
  BY FS_EmptySet
<1>3. TypeOK
  <2>1. hard \in Sizes /\ demand \in Sizes /\ need \in Sizes
    OBVIOUS
  <2>2. quota \in Snapshot /\ quotaEvents = <<quota>>
    BY <2>1 DEF Now, Snapshot
  <2>3. quotaEvents \in Seq(Snapshot)
    BY ONLY <2>2
  <2>4. 0 \in 0..MaxChanges /\ 0 \in 0..MaxFailures /\ 0 <= MaxCalls
    OBVIOUS
  <2> QED
    BY <1>2, <2>1, <2>2, <2>3, <2>4 DEF TypeOK
<1>4. CacheCurrent
  BY DEF CacheCurrent
<1> QED
  BY <1>1, <1>2, <1>3, <1>4 DEF IInv

\* A copy of the quota as it is, and a watch that reports one more.
LEMMA CopyTypes ==
  ASSUME TypeOK, NEW s \in Sizes, NEW d \in Sizes
  PROVE  /\ Now \in Snapshot /\ <<Now>> \in Seq(Snapshot)
         /\ [hard |-> s, demand |-> d] \in Snapshot
         /\ Append(quotaEvents, [hard |-> s, demand |-> d]) \in Seq(Snapshot)
<1> DEFINE x == [hard |-> s, demand |-> d]
<1>1. Now \in Snapshot /\ x \in Snapshot /\ quotaEvents \in Seq(Snapshot)
  BY DEF TypeOK, Now, Snapshot
<1> HIDE DEF x
<1>2. <<Now>> \in Seq(Snapshot) /\ Append(quotaEvents, x) \in Seq(Snapshot)
  BY ONLY <1>1
<1> QED
  BY <1>1, <1>2 DEF x

\* A quota that changes changes to a size, and its watch reports it.
LEMMA ResizedTypes ==
  ASSUME TypeOK, NEW patch \in Sizes, Resized(patch)
  PROVE  /\ hard' \in Sizes /\ quotaEvents' \in Seq(Snapshot)
         /\ UNCHANGED <<demand, need, changes, quota, due, podEvents, evaluations>>
<1>1. demand \in Sizes
  BY DEF TypeOK
<1> QED
  BY <1>1, CopyTypes DEF TypeOK, Resized

\* What is evaluated is a copy of the quota, with what pods need or without.
LEMMA WithPodsTypes ==
  ASSUME TypeOK
  PROVE  /\ WithPods \in Snapshot /\ WithPods.hard = quota.hard
         /\ WithPods.demand \in {quota.demand, AtLeast(quota.demand, need)}
<1>1. quota \in Snapshot /\ AtLeast(quota.demand, need) \in Sizes
  BY SizesAssumption DEF TypeOK, Snapshot
<1> QED
  BY <1>1 DEF WithPods, Snapshot

\* A failure is counted.
LEMMA FailureCounts ==
  ASSUME TypeOK, Fails
  PROVE  failures' \in 0..MaxFailures /\ failures' # 0 /\ (failures' > 0) = TRUE
<1>1. failures \in 0..MaxFailures /\ failures < MaxFailures /\ failures' = failures + 1
  BY DEF TypeOK, Fails
<1> QED
  BY <1>1, BoundsAssumption

\* A call that ends, however it does.
LEMMA ReturnsInv ==
  ASSUME IInv, NEW w \in workers, Returns(w)
  PROVE  /\ HandlerInv' /\ executed' = FALSE
         /\ cache'[Namespace] = w.event
         /\ workers = {w}
         /\ pending'[Namespace] \in Handler!Event \cup {NoEvent}
         /\ cache'[Namespace] \in Handler!Event \cup {NoEvent}
         /\ workers' \in SUBSET Handler!Worker
<1>1. HandlerInv' /\ cache'[Namespace] = w.event
  BY FinishInv DEF Returns, IInv
<1> QED
  BY <1>1 DEF HandlerInv, IInv, Returns

\* One step for each action: those of the watcher leave the handler alone, and the
\* other way round, but for the evaluation that ends and the endpoint that resizes.
LEMMA NextInv == IInv /\ [Next]_vars => IInv'
<1> SUFFICES ASSUME IInv, [Next]_vars
             PROVE  IInv'
  OBVIOUS
<1> USE SizesAssumption, BoundsAssumption, SizeTypes DEF IInv
<1>1. ASSUME NEW d \in Demands, ChangeDemand(d)
      PROVE  IInv'
  <2> USE <1>1 DEF ChangeDemand, handler, network
  <2>1. TypeOK'
    <3>1. quotaEvents' \in Seq(Snapshot)
      BY CopyTypes DEF TypeOK
    <3>2. changes' \in 0..MaxChanges
      BY DEF TypeOK
    <3> QED
      BY <3>1, <3>2 DEF TypeOK, Calling
  <2>2. HandlerInv' /\ CacheCurrent'
    BY DEF HandlerInv, CacheCurrent, Calling
  <2> QED
    BY <2>1, <2>2
<1>2. ASSUME NEW d \in Demands, PodsCreated(d)
       PROVE  IInv'
  <2> USE <1>2 DEF PodsCreated, watcher, handler, network
  <2>1. TypeOK'
    <3>1. need' \in Sizes /\ changes' \in 0..MaxChanges
      BY DEF TypeOK
    <3> QED
      BY <3>1 DEF TypeOK, Calling
  <2>2. HandlerInv' /\ CacheCurrent'
    BY DEF HandlerInv, CacheCurrent, Calling
  <2> QED
    BY <2>1, <2>2
<1>3. CASE PodsStart
  <2> USE <1>3 DEF PodsStart, handler, network
  <2>1. TypeOK'
    <3>1. quotaEvents' \in Seq(Snapshot)
      BY CopyTypes DEF TypeOK
    <3> QED
      BY <3>1 DEF TypeOK, Calling
  <2>2. HandlerInv' /\ CacheCurrent'
    BY DEF HandlerInv, CacheCurrent, Calling
  <2> QED
    BY <2>1, <2>2
<1>4. CASE PodRefused
  <2> USE <1>4 DEF PodRefused, cluster, handler, network
  <2>1. TypeOK'
    BY DEF TypeOK, Calling
  <2>2. HandlerInv' /\ CacheCurrent'
    BY DEF HandlerInv, CacheCurrent, Calling
  <2> QED
    BY <2>1, <2>2
<1>5. CASE QuotaEvent
  <2> USE <1>5 DEF QuotaEvent, cluster, handler, network
  <2>1. TypeOK'
    <3>1. quotaEvents \in Seq(Snapshot) /\ quotaEvents # <<>>
      BY DEF TypeOK
    <3>2. Head(quotaEvents) \in Snapshot /\ Tail(quotaEvents) \in Seq(Snapshot)
      BY ONLY <3>1
    <3> QED
      BY <3>2 DEF TypeOK, Calling
  <2>2. HandlerInv' /\ CacheCurrent'
    BY DEF HandlerInv, CacheCurrent, Calling
  <2> QED
    BY <2>1, <2>2
<1>6. CASE Tick
  <2> USE <1>6 DEF Tick, cluster, handler, network
  <2>1. WithPods \in Snapshot
    BY WithPodsTypes
  <2>2. /\ IsFiniteSet(evaluations')
        /\ Cardinality(evaluations') <= MaxCalls
    BY EvaluationSets
  <2>3. TypeOK'
    BY <2>1, <2>2 DEF TypeOK, Calling
  <2>4. HandlerInv' /\ CacheCurrent'
    BY DEF HandlerInv, CacheCurrent, Calling
  <2> QED
    BY <2>2, <2>3, <2>4
<1>7. CASE Restart
  <2> USE <1>7 DEF Restart, cluster, handler, network
  <2>1. TypeOK'
    <3>1. Now \in Snapshot /\ <<Now>> \in Seq(Snapshot)
      BY CopyTypes DEF TypeOK
    <3> QED
      BY <3>1 DEF TypeOK, Calling
  <2>2. HandlerInv' /\ CacheCurrent'
    BY DEF HandlerInv, CacheCurrent, Calling
  <2> QED
    BY <2>1, <2>2
<1>8. ASSUME NEW e \in evaluations, EvaluationEnds(e)
      PROVE  IInv'
  <2> USE <1>8 DEF EvaluationEnds, cluster, network
  <2>1. e \in Snapshot /\ Request(Desired(e)) \in Handler!Event
    BY DEF TypeOK
  <2>2. IsFiniteSet(evaluations') /\ Cardinality(evaluations') <= MaxCalls
    BY EvaluationSets DEF TypeOK
  <2>3. HandlerInv'
    <3>1. CASE UNCHANGED handler
      BY <3>1 DEF HandlerInv, handler, Calling
    <3> QED
      BY <2>1, <3>1, ReceiveInv
  <2>4. UNCHANGED cache /\ (executed => UNCHANGED workers)
    <3>1. executed => inProgress = {Namespace}
      BY DEF TypeOK, HandlerInv
    <3> QED
      BY <2>1, <3>1 DEF handler, Handler!KeepPending, Handler!ResizeNow
  <2>5. CacheCurrent'
    BY <2>4 DEF CacheCurrent
  <2>6. TypeOK'
    BY <2>2, <2>3, <2>4 DEF TypeOK, HandlerInv, Calling
  <2> QED
    BY <2>2, <2>3, <2>5, <2>6
<1>9. CASE MinutePasses
  <2> USE <1>9 DEF MinutePasses, Handler!MinutePasses, cluster, watcher, network
  <2>1. TypeOK'
    BY DEF TypeOK, Calling
  <2>2. HandlerInv' /\ CacheCurrent'
    BY DEF HandlerInv, CacheCurrent, Calling
  <2> QED
    BY <2>1, <2>2
<1>10. ASSUME NEW w \in workers, Accept(w)
      PROVE  IInv'
  <2> USE <1>10 DEF Accept, handler
  <2>1. w.event.new \in Sizes /\ NamespacePatch(w.event) = w.event.new /\ workers = {w}
    BY DEF HandlerInv
  <2>2. hard' = w.event.new
    BY <2>1 DEF Resized
  <2>3. TypeOK' /\ UNCHANGED evaluations
    BY <2>1, ResizedTypes DEF TypeOK, Calling
  <2>4. HandlerInv' /\ CacheCurrent'
    BY <2>1, <2>2 DEF HandlerInv, CacheCurrent, Calling
  <2> QED
    BY <2>3, <2>4
<1>11. ASSUME NEW w \in workers, Answered(w)
      PROVE  IInv'
  <2> USE <1>11 DEF Answered, cluster, watcher
  <2>1. TypeOK' /\ HandlerInv'
    BY ReturnsInv DEF TypeOK
  <2>2. CacheCurrent'
    BY ReturnsInv DEF CacheCurrent
  <2> QED
    BY <2>1, <2>2
<1>12. ASSUME NEW w \in workers, Rejected(w)
       PROVE  IInv'
  <2> USE <1>12 DEF Rejected, Fails, cluster, watcher
  <2>1. TypeOK' /\ HandlerInv'
    <3>1. failures' \in 0..MaxFailures
      BY FailureCounts
    <3> QED
      BY <3>1, ReturnsInv DEF TypeOK
  <2>2. CacheCurrent'
    BY FailureCounts DEF CacheCurrent
  <2> QED
    BY <2>1, <2>2
<1>13. ASSUME NEW w \in workers, AnswerLost(w)
       PROVE  IInv'
  <2> USE <1>13 DEF AnswerLost, Fails, cluster, watcher
  <2>1. NamespacePatch(w.event) \in Sizes
    BY DEF TypeOK
  <2>2. TypeOK' /\ HandlerInv'
    <3>1. failures' \in 0..MaxFailures
      BY FailureCounts
    <3>2. strays' \in SUBSET Sizes
      BY <2>1 DEF TypeOK
    <3> QED
      BY <3>1, <3>2, ReturnsInv DEF TypeOK
  <2>3. CacheCurrent'
    BY FailureCounts DEF CacheCurrent
  <2> QED
    BY <2>2, <2>3
<1>14. ASSUME NEW patch \in strays, StrayEnds(patch)
       PROVE  IInv'
  <2> USE <1>14 DEF StrayEnds, handler
  <2>1. patch \in Sizes /\ failures # 0
    BY DEF TypeOK, CacheCurrent
  <2>2. /\ hard' \in Sizes /\ quotaEvents' \in Seq(Snapshot) /\ quota' \in Snapshot
        /\ UNCHANGED <<demand, need, changes, due, podEvents, evaluations>>
    BY <2>1, ResizedTypes DEF TypeOK, cluster, watcher
  <2>3. TypeOK'
    BY <2>2 DEF TypeOK, Calling
  <2>4. HandlerInv' /\ CacheCurrent'
    BY <2>1 DEF HandlerInv, CacheCurrent, Calling
  <2> QED
    BY <2>2, <2>3, <2>4
<1>15. CASE NewProcess
  <2> USE <1>15 DEF NewProcess, Fails, cluster
  <2>1. LastCalls \subseteq Sizes
    <3>1. \A w \in workers : NamespacePatch(w.event) \in Sizes
      BY DEF TypeOK
    <3>2. \A e \in {pending[Namespace]} \ {NoEvent} : NamespacePatch(e) \in Sizes
      BY DEF TypeOK
    <3>3. \A e \in evaluations : Desired(e) \in Sizes
      BY DEF TypeOK
    <3> QED
      BY <3>1, <3>2, <3>3 DEF LastCalls
  <2>2. IsFiniteSet(evaluations') /\ Cardinality(evaluations') = 0
    BY FS_EmptySet
  <2>3. strays' \subseteq Sizes
    BY <2>1 DEF TypeOK
  <2>4. TypeOK'
    <3>1. failures' \in 0..MaxFailures /\ 0 <= MaxCalls
      BY FailureCounts
    <3>2. Now \in Snapshot /\ <<Now>> \in Seq(Snapshot)
      BY CopyTypes DEF TypeOK
    <3> QED
      BY <2>2, <2>3, <3>1, <3>2 DEF TypeOK
  <2>5. HandlerInv' /\ CacheCurrent'
    BY FailureCounts DEF HandlerInv, CacheCurrent
  <2> QED
    BY <2>2, <2>4, <2>5
<1>16. CASE UNCHANGED vars
  <2> USE <1>16 DEF vars, cluster, watcher, handler, network
  <2>1. TypeOK'
    BY DEF TypeOK, Calling
  <2>2. HandlerInv' /\ CacheCurrent'
    BY DEF HandlerInv, CacheCurrent, Calling
  <2> QED
    BY <2>1, <2>2
<1> QED
  BY <1>1, <1>2, <1>3, <1>4, <1>5, <1>6, <1>7, <1>8, <1>9, <1>10, <1>11, <1>12, <1>13,
     <1>14, <1>15, <1>16
  DEF Next, CallStep

\* The invariant holds in every behaviour.
LEMMA Invariance == Spec => []IInv
  BY InitInv, NextInv, PTL DEF Spec

-----------------------------------------------------------------------------
(* The theorems. *)

\* Whatever fails, the variables keep their types: in particular the endpoint
\* never answers a call that no worker waits for (executed).
THEOREM TypeCorrect == Spec => []TypeOK
<1>1. IInv => TypeOK
  BY DEF IInv
<1> QED
  BY <1>1, Invariance, PTL

\* Without failures an idle handler holds back no request that only raises the
\* quota and was computed from the quota as it is: what the cache has is what
\* the quota is.
THEOREM ScaleUpsProceed == Spec => []ScaleUpProceeds
<1>1. IInv => ScaleUpProceeds
  <2> SUFFICES ASSUME IInv, NEW e \in evaluations, failures = 0,
                      Covers(Desired(e), hard), HeldBack(e)
               PROVE  FALSE
    BY DEF ScaleUpProceeds, Raises
  <2>1. ~executed
    BY DEF HeldBack, IInv, HandlerInv, TypeOK
  <2>2. cache[Namespace] # NoEvent /\ Handler!Shrinks(Desired(e), cache[Namespace].new)
    BY DEF HeldBack, Handler!Refuses, Request
  <2>3. hard = cache[Namespace].new
    BY <2>1, <2>2 DEF IInv, CacheCurrent
  <2>4. hard \in [cpu : Nat, memory : Nat] /\ Desired(e) \in [cpu : Nat, memory : Nat]
    BY SizeTypes DEF IInv, TypeOK
  <2> QED
    BY <2>2, <2>3, <2>4 DEF Covers, Handler!Shrinks
<1> QED
  BY <1>1, Invariance, PTL

\* Without failures no step shrinks the quota within the minute of a resize,
\* however old the evaluation behind it.
THEOREM NoShrink == Spec => NoShrinkWithinMinute
<1> DEFINE A == failures' = 0 /\ recent # {} /\ recent' # {} => Covers(hard', hard)
<1>1. IInv /\ [Next]_vars => [A]_vars
  <2> SUFFICES ASSUME IInv, Next, failures' = 0, recent # {}
               PROVE  Covers(hard', hard)
    OBVIOUS
  <2> USE SizeTypes DEF IInv
  <2>1. \A s \in Sizes : Covers(s, s)
    BY DEF Covers
  <2>2. failures = 0
    <3>1. ~Fails
      BY FailureCounts
    <3> QED
      BY <3>1 DEF Next, CallStep, ChangeDemand, PodsCreated, PodsStart, PodRefused, QuotaEvent, Tick, Restart,
                  EvaluationEnds, MinutePasses, Accept, Answered, Rejected, AnswerLost, StrayEnds, NewProcess, network
  <2>3. CASE UNCHANGED hard
    BY <2>1, <2>3 DEF TypeOK
  <2>4. ASSUME NEW w \in workers, Accept(w)
        PROVE  Covers(hard', hard)
    <3>1. hard' = w.event.new
      BY <2>4 DEF Accept, Resized, TypeOK
    <3>2. hard = cache[Namespace].new
      BY <2>2, <2>4 DEF Accept, CacheCurrent, HandlerInv
    <3> QED
      BY <3>1, <3>2 DEF HandlerInv
  <2>5. strays = {}
    BY <2>2 DEF CacheCurrent
  <2> QED
    BY <2>3, <2>4, <2>5
    DEF Next, CallStep, ChangeDemand, PodsCreated, PodsStart, PodRefused, QuotaEvent, Tick, Restart,
        EvaluationEnds, MinutePasses, Answered, Rejected, AnswerLost, NewProcess, cluster
<1> QED
  BY <1>1, Invariance, PTL DEF NoShrinkWithinMinute, Spec

-----------------------------------------------------------------------------
(* The promise. *)

\* What is in a sequence.
Heard(s) == {s[i] : i \in DOMAIN s}

\* A sequence with one more element.
LEMMA HeardMore ==
  ASSUME NEW S, NEW s \in Seq(S), NEW e \in S
  PROVE  Heard(Append(s, e)) \subseteq Heard(s) \cup {e}
<1> DEFINE n == Len(s)
           t == Append(s, e)
<1>1. /\ n \in Nat /\ DOMAIN s = 1..n /\ DOMAIN t = 1..(n + 1)
      /\ \A i \in 1..n : t[i] = s[i]
      /\ t[n + 1] = e
  OBVIOUS
<1> HIDE DEF n, t
<1>2. Heard(t) \subseteq Heard(s) \cup {e}
  BY <1>1 DEF Heard
<1> QED
  BY <1>2 DEF t

\* A sequence without its first element.
LEMMA HeardFirst ==
  ASSUME NEW S, NEW s \in Seq(S), s # <<>>
  PROVE  Head(s) \in Heard(s) /\ Heard(Tail(s)) \subseteq Heard(s)
<1> DEFINE n == Len(s) - 1
           t == Tail(s)
           h == Head(s)
<1>1. /\ n \in Nat /\ DOMAIN s = 1..(n + 1) /\ DOMAIN t = 1..n
      /\ s[1] = h
      /\ \A i \in 1..n : t[i] = s[i + 1]
  OBVIOUS
<1> HIDE DEF n, t, h
<1>2. h \in Heard(s) /\ Heard(t) \subseteq Heard(s)
  BY <1>1 DEF Heard
<1> QED
  BY <1>2 DEF t, h

\* What is known of the quota grows by nothing but a copy of it.
LEMMA KnownSteps ==
  ASSUME IInv
  PROVE  /\ UNCHANGED <<quota, quotaEvents>> => Known' = Known
         /\ quota' = Now /\ quotaEvents' = <<Now>> => Known' \subseteq {Now}
         /\ \A x \in Snapshot :
              quota' = quota /\ quotaEvents' = Append(quotaEvents, x) => Known' \subseteq Known \cup {x}
         /\ QuotaEvent => Known' \subseteq Known
<1>1. Known = {quota} \cup Heard(quotaEvents) /\ quotaEvents \in Seq(Snapshot)
  BY DEF Known, Heard, IInv, TypeOK
<1>2. Known' = {quota'} \cup Heard(quotaEvents')
  BY DEF Known, Heard
<1>3. Heard(<<Now>>) \subseteq {Now}
  BY DEF Heard
<1>4. ASSUME NEW x \in Snapshot, quota' = quota, quotaEvents' = Append(quotaEvents, x)
      PROVE  Known' \subseteq Known \cup {x}
  <2>1. Heard(quotaEvents') \subseteq Heard(quotaEvents) \cup {x}
    BY <1>1, <1>4, HeardMore
  <2> QED
    BY <1>1, <1>2, <1>4, <2>1
<1>5. ASSUME QuotaEvent
      PROVE  Known' \subseteq Known
  <2>1. quotaEvents # <<>> /\ quota' = Head(quotaEvents) /\ quotaEvents' = Tail(quotaEvents)
    BY <1>5 DEF QuotaEvent
  <2>2. quota' \in Heard(quotaEvents) /\ Heard(quotaEvents') \subseteq Heard(quotaEvents)
    BY <1>1, <2>1, HeardFirst
  <2> QED
    BY <1>1, <1>2, <2>2
<1> QED
  BY <1>1, <1>2, <1>3, <1>4, <1>5

\* What may still be set: what the worker calls for, what is pending and what the
\* evaluations come to.
LEMMA Calls ==
  ASSUME NEW x
  PROVE  x \in LastCalls <=>
           \/ \E w \in workers : Calling(w) /\ ~executed /\ x = NamespacePatch(w.event)
           \/ pending[Namespace] # NoEvent /\ x = NamespacePatch(pending[Namespace])
           \/ \E e \in evaluations : DiffersFrom(Desired(e), e.hard) /\ x = Desired(e)
  BY DEF LastCalls

\* It grows by nothing when none of these does.
LEMMA FewerCalls ==
  ASSUME evaluations' \subseteq evaluations,
         pending' = pending, workers' = workers, executed' = executed
  PROVE  LastCalls' \subseteq LastCalls
  BY DEF LastCalls, Calling

\* A request that is received is one that its evaluation had come to.
LEMMA ReceiveCalls ==
  ASSUME IInv, NEW e \in evaluations, EvaluationEnds(e)
  PROVE  LastCalls' \subseteq LastCalls
<1> DEFINE r == Request(Desired(e))
           n == Handler!NewWorker(r)
<1>1. CASE UNCHANGED handler
  BY <1>1, FewerCalls DEF EvaluationEnds, handler, network
<1>2. CASE /\ DiffersFrom(Desired(e), e.hard)
           /\ Handler!KeepPending(r) \/ Handler!ResizeNow(r)
  <2>1. r \in Handler!Event /\ NamespacePatch(r) = Desired(e) /\ r.ns = Namespace
    <3>1. e \in Snapshot
      BY DEF IInv, TypeOK
    <3>2. Desired(e) \in Sizes /\ r \in Handler!Event
      BY <3>1, SizeTypes
    <3>3. NamespacePatch(r) = r.new /\ r.new = Desired(e)
      BY <3>2, SizeTypes DEF Request
    <3> QED
      BY <3>2, <3>3, SizeTypes
  <2>2. n.event = r
    BY <2>1, NewWorkers
  <2> HIDE DEF r, n
  <2>3. pending' = pending \/ pending'[Namespace] = r
    BY <1>2, <2>1 DEF Handler!KeepPending, Handler!ResizeNow, IInv, HandlerInv
  <2>4. workers' \subseteq workers \cup {n}
    BY <1>2 DEF Handler!KeepPending, Handler!ResizeNow, Handler!Resize, n
  <2>5. executed' = executed /\ evaluations' \subseteq evaluations
    BY DEF EvaluationEnds, network
  <2>6. Desired(e) \in LastCalls
    BY <1>2, Calls
  <2>7. ASSUME NEW x \in LastCalls'
        PROVE  x \in LastCalls
    <3>1. \/ \E w \in workers' : w.phase = "calling" /\ ~executed /\ x = NamespacePatch(w.event)
          \/ pending'[Namespace] # NoEvent /\ x = NamespacePatch(pending'[Namespace])
          \/ \E d \in evaluations : DiffersFrom(Desired(d), d.hard) /\ x = Desired(d)
      BY <2>5, <2>7 DEF LastCalls, Calling
    <3>2. CASE \E w \in workers' : w.phase = "calling" /\ ~executed /\ x = NamespacePatch(w.event)
      BY <2>1, <2>2, <2>4, <2>6, <3>2, Calls DEF Calling
    <3>3. CASE pending'[Namespace] # NoEvent /\ x = NamespacePatch(pending'[Namespace])
      BY <2>1, <2>3, <2>6, <3>3, Calls
    <3> QED
      BY <3>1, <3>2, <3>3, Calls
  <2> QED
    BY <2>7
<1> QED
  BY <1>1, <1>2 DEF EvaluationEnds

\* A call that ends leaves what was pending, if it starts that.
LEMMA ReturnCalls ==
  ASSUME IInv, NEW w \in workers, Returns(w), UNCHANGED evaluations
  PROVE  LastCalls' \subseteq LastCalls
<1> DEFINE p == pending[Namespace]
           n == Handler!NewWorker(p)
<1>1. w.event.ns = Namespace /\ workers = {w} /\ executed' = FALSE
  BY ReturnsInv, SizeTypes DEF IInv, TypeOK
<1>2. pending \in [{Namespace} -> Handler!Event \cup {NoEvent}]
  BY DEF IInv, HandlerInv
<1>3. CASE p = NoEvent
  <2>1. workers' = {} /\ pending' = pending
    BY <1>1, <1>3 DEF Returns, Handler!Finish, Handler!GoIdle, Handler!TakePending
  <2> QED
    BY <1>3, <2>1 DEF LastCalls
<1>4. CASE p # NoEvent
  <2>1. p \in Handler!Event /\ p.ns = Namespace
    BY <1>2, <1>4, SizeTypes
  <2>2. n.event = p
    BY <2>1, NewWorkers
  <2>3. Handler!TakePending(w)
    BY <1>1, <1>4 DEF Returns, Handler!Finish, Handler!GoIdle
  <2>4. pending'[Namespace] = NoEvent
    BY <1>1, <1>2, <2>3 DEF Handler!TakePending
  <2>5. workers' \subseteq {n}
    BY <1>1, <2>3 DEF Handler!TakePending, Handler!Resize
  <2> HIDE DEF n
  <2>6. ASSUME NEW x \in LastCalls'
        PROVE  x \in LastCalls
    <3>1. \/ \E v \in workers' : x = NamespacePatch(v.event)
          \/ \E d \in evaluations : DiffersFrom(Desired(d), d.hard) /\ x = Desired(d)
      BY <2>4, <2>6 DEF LastCalls, Calling
    <3> QED
      BY <1>4, <2>2, <2>5, <3>1, Calls
  <2> QED
    BY <2>6
<1> QED
  BY <1>3, <1>4

\* What an evaluation comes to answers its demand, for the quota it looks at.
LEMMA DesiredAnswers ==
  ASSUME NEW e \in Snapshot, DiffersFrom(Desired(e), e.hard)
  PROVE  Promise!Answers(Desired(e), e.demand, e.hard)
<1> DEFINE d == e.demand
           k == e.hard
           s == Desired(e)
<1>1. d \in [cpu : Nat, memory : Nat] /\ k \in [cpu : Nat, memory : Nat]
  BY SizesAssumption DEF Snapshot
<1>2. s = ForceNoScaleDownWhenScaleUp(d, k) /\ DiffersFrom(s, k)
  BY DEF Desired
<1> HIDE DEF d, k, s
<1>3. /\ s.cpu \in Nat /\ s.memory \in Nat
      /\ s.cpu \in {d.cpu, k.cpu} /\ s.memory \in {d.memory, k.memory}
      /\ s.cpu >= d.cpu /\ s.memory >= d.memory
      /\ s.cpu > k.cpu => s.memory >= k.memory
      /\ s.memory > k.memory => s.cpu >= k.cpu
  <2>1. CASE d.cpu > k.cpu
    <3>1. s = [d EXCEPT !.memory = Larger(d.memory, k.memory)]
      BY <1>1, <1>2, <2>1 DEF ForceNoScaleDownWhenScaleUp
    <3> QED
      BY <1>1, <2>1, <3>1 DEF Larger
  <2>2. CASE d.cpu <= k.cpu /\ d.memory > k.memory
    <3>1. s = [d EXCEPT !.cpu = Larger(d.cpu, k.cpu)]
      BY <1>1, <1>2, <2>2 DEF ForceNoScaleDownWhenScaleUp
    <3> QED
      BY <1>1, <2>2, <3>1 DEF Larger
  <2>3. CASE d.cpu <= k.cpu /\ d.memory <= k.memory
    <3>1. s = d
      BY <1>1, <1>2, <2>3 DEF ForceNoScaleDownWhenScaleUp
    <3> QED
      BY <1>1, <2>3, <3>1
  <2> QED
    BY <1>1, <2>1, <2>2, <2>3
<1>4. s # k
  BY <1>2 DEF DiffersFrom
<1>5. Promise!Answers(s, d, k)
  BY <1>1, <1>3, <1>4 DEF Promise!Answers, Promise!AtLeastIn, Promise!Fields
<1> QED
  BY <1>5 DEF s, d, k

\* An evaluation that is started asks for what answers a demand that was known.
LEMMA TickPromised ==
  ASSUME IInv, Tick
  PROVE  Promise!Ask \/ UNCHANGED Promise!vars
<1> DEFINE e == WithPods
<1>1. /\ e \in Snapshot /\ e.hard = quota.hard
      /\ e.demand \in {quota.demand, Promise!Join(quota.demand, need)}
  BY WithPodsTypes DEF IInv, AtLeast, Larger, Promise!Join, Promise!Fields
<1>2. /\ evaluations' = evaluations \cup {e}
      /\ UNCHANGED <<hard, demand, need, quota, quotaEvents, pending, workers, recent,
                     executed, strays, failures>>
  BY DEF Tick, cluster, handler, network
<1> HIDE DEF e
<1>3. Known' = Known /\ quota \in Known
  BY <1>2 DEF Known
<1>4. CASE ~DiffersFrom(Desired(e), e.hard)
  <2>1. LastCalls' = LastCalls
    BY <1>2, <1>4 DEF LastCalls, Calling
  <2> QED
    BY <1>2, <1>3, <2>1 DEF Promise!vars
<1>5. CASE DiffersFrom(Desired(e), e.hard)
  <2>1. LastCalls' = LastCalls \cup {Desired(e)}
    BY <1>2, <1>5 DEF LastCalls, Calling
  <2>2. Promise!Answers(Desired(e), e.demand, quota.hard) /\ Desired(e) \in Sizes
    BY <1>1, <1>5, DesiredAnswers, SizeTypes
  <2>3. (LastCalls \cup strays)' = (LastCalls \cup strays) \cup {Desired(e)}
    BY <1>2, <2>1
  <2> QED
    BY <1>1, <1>2, <1>3, <2>2, <2>3 DEF Promise!Ask
<1> QED
  BY <1>4, <1>5

\* What the endpoint does was asked for, and is no shrink while that is barred.
LEMMA AcceptPromised ==
  ASSUME IInv, NEW w \in workers, Accept(w)
  PROVE  Promise!Resize
<1> DEFINE s == NamespacePatch(w.event)
<1>1. s = w.event.new /\ s \in Sizes /\ hard \in Sizes
  BY SizeTypes DEF IInv, TypeOK
<1>2. Calling(w) /\ ~executed /\ executed' = TRUE /\ Resized(s)
  BY DEF Accept
<1>3. UNCHANGED <<demand, need, quota, evaluations, pending, recent, workers, strays, failures>>
  BY <1>2 DEF Accept, Resized, handler
<1>4. s \in LastCalls
  BY <1>2, Calls
<1>5. /\ hard' = s
      /\ quotaEvents' = quotaEvents \/ quotaEvents' = Append(quotaEvents, Promise!Copy(s, demand))
  BY <1>2 DEF Resized, Promise!Copy
<1>6. failures = 0 /\ recent # {} => Promise!AtLeastIn(s, hard)
  <2> SUFFICES ASSUME failures = 0, recent # {}
               PROVE  Promise!AtLeastIn(s, hard)
    OBVIOUS
  <2>1. hard = cache[Namespace].new /\ Covers(w.event.new, cache[Namespace].new)
    BY <1>2 DEF IInv, CacheCurrent, HandlerInv
  <2> QED
    BY <1>1, <2>1 DEF Covers, Promise!AtLeastIn, Promise!Fields
<1> HIDE DEF s
<1>7. Known' \subseteq Known \cup {Promise!Copy(s, demand)}
  <2>1. Promise!Copy(s, demand) \in Snapshot
    BY <1>1 DEF Promise!Copy, Snapshot, IInv, TypeOK
  <2> QED
    BY <1>3, <1>5, <2>1, KnownSteps
<1>8. LastCalls' \subseteq LastCalls
  BY <1>2, <1>3 DEF LastCalls
<1>9. failures \in Nat
  BY BoundsAssumption DEF IInv, TypeOK
<1>10. ~(failures > 0) /\ recent # {} => Promise!AtLeastIn(s, hard)
  BY <1>6, <1>9
<1>11. Promise!Learn(Promise!Copy(s, demand)) /\ Promise!Drop
  BY <1>3, <1>7, <1>8 DEF Promise!Learn, Promise!Drop
<1> QED
  BY <1>3, <1>4, <1>5, <1>10, <1>11 DEF Promise!Resize

\* A call nobody waits for is one that failed.
LEMMA StrayPromised ==
  ASSUME IInv, NEW patch \in strays, StrayEnds(patch)
  PROVE  Promise!Resize \/ Promise!Wait
<1>1. patch \in Sizes /\ failures > 0
  BY BoundsAssumption DEF IInv, TypeOK, CacheCurrent
<1>2. UNCHANGED <<evaluations, pending, recent, workers, executed, failures>> /\ strays' \subseteq strays
  BY DEF StrayEnds, Resized, handler, watcher
<1>3. LastCalls' \subseteq LastCalls
  BY <1>2, FewerCalls
<1>4. Promise!Drop
  BY <1>2, <1>3 DEF Promise!Drop
<1>5. CASE Resized(patch)
  <2>1. /\ hard' = patch /\ UNCHANGED <<demand, need, quota>>
        /\ \/ quotaEvents' = quotaEvents
           \/ quotaEvents' = Append(quotaEvents, Promise!Copy(patch, demand))
    BY <1>5 DEF Resized, Promise!Copy
  <2>2. Known' \subseteq Known \cup {Promise!Copy(patch, demand)}
    <3>1. Promise!Copy(patch, demand) \in Snapshot
      BY <1>1 DEF Promise!Copy, Snapshot, IInv, TypeOK
    <3> QED
      BY <2>1, <3>1, KnownSteps
  <2> QED
    BY <1>1, <1>2, <1>4, <2>1, <2>2 DEF Promise!Resize, Promise!Learn
<1>6. CASE UNCHANGED <<cluster, watcher>>
  <2>1. UNCHANGED <<hard, demand, need, quota, quotaEvents>>
    BY <1>6 DEF cluster, watcher
  <2>2. Known' = Known
    BY <2>1 DEF Known
  <2> QED
    BY <1>2, <1>4, <2>1, <2>2 DEF Promise!Wait, Promise!Learn
<1> QED
  BY <1>5, <1>6 DEF StrayEnds

\* A call that ends has been answered, or has failed.
LEMMA ReturnPromised ==
  ASSUME IInv, NEW w \in workers, Answered(w) \/ Rejected(w) \/ AnswerLost(w)
  PROVE  Promise!Answered \/ Promise!Fail
<1>1. Returns(w) /\ UNCHANGED <<cluster, watcher>>
  BY DEF Answered, Rejected, AnswerLost
<1>2. UNCHANGED <<hard, demand, need, quota, quotaEvents, evaluations>>
  BY <1>1 DEF cluster, watcher
<1>3. Known' = Known
  BY <1>2 DEF Known
<1>4. LastCalls' \subseteq LastCalls
  BY <1>1, <1>2, ReturnCalls
<1>5. recent' # {}
  BY <1>1 DEF Returns, Handler!Finish
<1>6. CASE Answered(w)
  <2>1. UNCHANGED <<strays, failures>>
    BY <1>6 DEF Answered
  <2> QED
    BY <1>2, <1>3, <1>4, <1>5, <2>1 DEF Promise!Answered, Promise!Drop
<1>7. CASE Rejected(w) \/ AnswerLost(w)
  <2>1. failures' > 0
    BY <1>7, FailureCounts DEF Rejected, AnswerLost, IInv
  <2>2. strays' \subseteq strays \cup LastCalls
    <3>1. ~executed => NamespacePatch(w.event) \in LastCalls
      BY <1>1, Calls DEF Returns
    <3> QED
      BY <1>7, <3>1 DEF Rejected, AnswerLost
  <2>3. (failures' > 0) = TRUE
    BY <2>1
  <2> QED
    BY <1>2, <1>3, <1>4, <2>2, <2>3 DEF Promise!Fail, Promise!Learn, Promise!Drop
<1> QED
  BY <1>6, <1>7

\* What an old process calls for on its way out was asked for.
LEMMA NewProcessPromised ==
  ASSUME IInv, NewProcess
  PROVE  Promise!Fail
<1>1. /\ quota' = Now /\ quotaEvents' = <<Now>> /\ UNCHANGED <<hard, demand, need>>
      /\ evaluations' = {} /\ workers' = {} /\ pending'[Namespace] = NoEvent
      /\ strays' \subseteq strays \cup LastCalls
  BY DEF NewProcess, cluster
<1>2. LastCalls' = {}
  BY <1>1 DEF LastCalls
<1>3. Known' \subseteq {Promise!Copy(hard, demand)}
  BY <1>1, KnownSteps DEF Now, Promise!Copy
<1>4. (failures' > 0) = TRUE
  BY FailureCounts DEF NewProcess, IInv
<1> QED
  BY <1>1, <1>2, <1>3, <1>4 DEF Promise!Fail, Promise!Learn, Promise!Drop

\* The other steps set nothing and ask for nothing.
LEMMA OthersPromised ==
  ASSUME IInv,
         \/ \E d \in Demands : ChangeDemand(d) \/ PodsCreated(d)
         \/ PodsStart \/ PodRefused \/ QuotaEvent \/ Restart
         \/ \E e \in evaluations : EvaluationEnds(e)
         \/ MinutePasses
  PROVE  Promise!Demand \/ Promise!Wait
<1>1. UNCHANGED <<hard, strays, failures, executed>>
  BY DEF ChangeDemand, PodsCreated, PodsStart, PodRefused, QuotaEvent, Restart, EvaluationEnds, MinutePasses,
         cluster, network
<1>2. ASSUME (\E d \in Demands : ChangeDemand(d) \/ PodsCreated(d)) \/ PodsStart
      PROVE  Promise!Demand
  <2>1. /\ UNCHANGED <<quota, evaluations, pending, workers, recent>>
        /\ demand' \in Sizes /\ need' \in Sizes
        /\ \/ quotaEvents' = quotaEvents
           \/ quotaEvents' = Append(quotaEvents, Promise!Copy(hard, demand'))
    BY <1>2, SizesAssumption
    DEF ChangeDemand, PodsCreated, PodsStart, watcher, handler, IInv, TypeOK, Promise!Copy
  <2>2. Promise!Copy(hard, demand') \in Snapshot
    BY <2>1 DEF IInv, TypeOK, Snapshot, Promise!Copy
  <2>3. Known' \subseteq Known \cup {Promise!Copy(hard, demand')}
    BY <2>1, <2>2, KnownSteps
  <2>4. LastCalls' = LastCalls
    BY <1>1, <2>1 DEF LastCalls, Calling
  <2> QED
    BY <1>1, <2>1, <2>3, <2>4 DEF Promise!Demand, Promise!Learn
<1>3. ASSUME PodRefused \/ QuotaEvent \/ Restart
      PROVE  Promise!Wait
  <2>1. UNCHANGED <<demand, need, evaluations, pending, workers, recent>>
    BY <1>3 DEF PodRefused, QuotaEvent, Restart, cluster, handler
  <2>2. LastCalls' \subseteq LastCalls
    BY <1>1, <2>1, FewerCalls
  <2>3. Known' \subseteq Known \cup {Promise!Copy(hard, demand)}
    BY <1>3, KnownSteps DEF PodRefused, Restart, Now, Promise!Copy
  <2> QED
    BY <1>1, <2>1, <2>2, <2>3 DEF Promise!Wait, Promise!Learn, Promise!Drop
<1>4. ASSUME NEW e \in evaluations, EvaluationEnds(e)
      PROVE  Promise!Wait
  <2>1. UNCHANGED <<demand, need, quota, quotaEvents, recent>>
    BY <1>4 DEF EvaluationEnds, cluster, handler
  <2>2. Known' = Known
    BY <2>1 DEF Known
  <2>3. LastCalls' \subseteq LastCalls
    BY <1>4, ReceiveCalls
  <2> QED
    BY <1>1, <2>1, <2>2, <2>3 DEF Promise!Wait, Promise!Learn, Promise!Drop
<1>5. ASSUME MinutePasses
      PROVE  Promise!Wait
  <2>1. /\ UNCHANGED <<demand, need, quota, quotaEvents, evaluations, pending, workers>>
        /\ recent' \subseteq recent
    BY <1>5 DEF MinutePasses, Handler!MinutePasses, cluster, watcher
  <2>2. Known' = Known /\ LastCalls' \subseteq LastCalls
    BY <1>1, <2>1, FewerCalls DEF Known
  <2>3. (recent' # {}) \in {recent # {}, FALSE}
    BY <2>1
  <2> QED
    BY <1>1, <2>1, <2>2, <2>3 DEF Promise!Wait, Promise!Learn, Promise!Drop
<1> QED
  BY <1>2, <1>3, <1>4, <1>5

\* Whatever is lost, overtaken or done too late, whenever a process is replaced
\* and for every demand, the quota is set to nothing but what answers a demand of
\* its namespace: the composition implements what JustifiedResizes promises.
THEOREM ResizesAreJustified == Spec => ResizesJustified
<1>1. Init => Promise!Init
  <2> SUFFICES ASSUME Init
               PROVE  Promise!Init
    OBVIOUS
  <2>1. /\ hard \in Sizes /\ demand \in Sizes /\ need = demand
        /\ quota = Promise!Copy(hard, demand) /\ quotaEvents = <<quota>> /\ evaluations = {} /\ workers = {}
        /\ pending[Namespace] = NoEvent /\ recent = {} /\ strays = {} /\ failures = 0
    BY SizesAssumption DEF Init, Now, Promise!Copy
  <2>2. Known = {quota}
    BY <2>1 DEF Known
  <2>3. LastCalls \cup strays = {}
    BY <2>1 DEF LastCalls
  <2>4. (recent # {}) = FALSE /\ (failures > 0) = FALSE
    BY <2>1
  <2> QED
    BY <2>1, <2>2, <2>3, <2>4 DEF Promise!Init
<1>2. IInv /\ [Next]_vars => [Promise!Next]_(Promise!vars)
  <2> SUFFICES ASSUME IInv, [Next]_vars
               PROVE  Promise!Next \/ UNCHANGED Promise!vars
    OBVIOUS
  <2>1. CASE UNCHANGED vars
    <3>1. Known' = Known /\ LastCalls' = LastCalls
      BY <2>1 DEF Known, LastCalls, Calling, vars, cluster, watcher, handler, network
    <3> QED
      BY <2>1, <3>1 DEF Promise!vars, vars, cluster, handler, network
  <2>2. CASE Next
    BY <2>2, TickPromised, AcceptPromised, StrayPromised, ReturnPromised, NewProcessPromised, OthersPromised
    DEF Next, CallStep, Promise!Next
  <2> QED
    BY <2>1, <2>2
<1> QED
  BY <1>1, <1>2, Invariance, PTL DEF Spec, ResizesJustified, Promise!Spec
=============================================================================
