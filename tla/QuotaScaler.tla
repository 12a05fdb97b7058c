----------------------------- MODULE QuotaScaler -----------------------------
(***************************************************************************)
(* The autoscaler of one namespace as a whole: the watcher, the evaluation *)
(* goroutines it starts, the resize handler (ResizeHandler), and an        *)
(* endpoint that is called over a network, as InvokeResizeApi calls it.    *)
(*                                                                         *)
(* What the policies make of the use of a quota is one size here, demand,  *)
(* and what refused pods ask for on top of it another, need: ScalingLoop   *)
(* is about how they come about.  Answers and calls get lost, calls take   *)
(* effect after their caller has given up, and a new process takes over    *)
(* from an old one that is on its way out.  The results of the handler,    *)
(* which decide nothing, are left out.                                     *)
(***************************************************************************)
EXTENDS Resources, Sequences, FiniteSets

CONSTANTS
  Namespace,   \* the namespace
  Sizes,       \* the sizes a quota may have
  StartHard,   \* the size it has at first
  Demands,     \* what the scaler may want it to have once pods have come or gone
  StartDemand, \* what it wants it to have at first
  NoEvent,     \* a key a Go map does not hold
  MaxChanges,  \* bound: changes of demand and need by the workloads
  MaxFailures, \* bound: calls that fail, and processes
  MaxCalls     \* bound: evaluations running before another is started

ASSUME SizesAssumption ==
  /\ Sizes \subseteq [cpu : Nat, memory : Nat]
  /\ StartHard \in Sizes
  /\ Demands \subseteq Sizes /\ StartDemand \in Sizes
  /\ \A s, t \in Sizes : AtLeast(s, t) \in Sizes
ASSUME BoundsAssumption == MaxChanges \in Nat /\ MaxFailures \in Nat /\ MaxCalls \in Nat
ASSUME NoEventAssumption == NoEvent \notin [id : {1}, ns : {Namespace}, new : Sizes]

VARIABLES
  hard,        \* Spec.Hard of the ResourceQuota
  demand,      \* the size its scaler asks for in view of Status.Used
  need,        \* the size it takes for the pods that wait as well
  quotaEvents, \* what the quota watch has yet to deliver
  quota,       \* Quotas[Namespace], as the watcher knows it
  due,         \* Namespace is a key of Events
  podEvents,   \* and Events[Namespace] holds Events of refused pods
  evaluations, \* the goroutines of UpdateNs
  inProgress, pending, cache, recent, workers,   \* those of ResizeHandler
  executed,    \* the endpoint has done what the worker calls for
  strays,      \* calls under way that nobody waits for
  changes,     \* how often the demand has changed
  failures     \* how many calls and processes have failed

cluster == <<hard, demand, need, changes>>
watcher == <<quotaEvents, quota, due, podEvents, evaluations>>
handler == <<inProgress, pending, cache, recent, workers>>
network == <<executed, strays, failures>>
vars    == <<cluster, watcher, handler, network>>

-----------------------------------------------------------------------------
\* A copy of the quota: its size and, for its use, what the policies make of it.
Snapshot == [hard : Sizes, demand : Sizes]

Now == [hard |-> hard, demand |-> demand]

\* The request for a size.  Requests need no numbers here.
Request(new) == [id |-> 1, ns |-> Namespace, new |-> new]

\* The handler, without the history it keeps and without readers of results.
Handler == INSTANCE ResizeHandler WITH
  Namespaces <- {Namespace}, MaxRequests <- 1, ResultCap <- 1,
  received <- 1, results <- <<>>, latest <- <<>>, refused <- [id : {1}, ns : {Namespace}, new : Sizes]

\* Faulty variant: the body says memory for CPU.
PatchMixed(e) == [cpu |-> e.new.memory, memory |-> e.new.memory]

\* The body of the PATCH.
NamespacePatch(e) == [cpu |-> e.new.cpu, memory |-> e.new.memory]

Calling(w) == w \in workers /\ w.phase = "calling"

Init ==
  /\ hard = StartHard
  /\ demand = StartDemand /\ need = demand
  /\ quota = Now
  /\ quotaEvents = <<quota>>
  /\ due = FALSE /\ podEvents = FALSE
  /\ evaluations = {}
  /\ inProgress = {} /\ recent = {} /\ workers = {}
  /\ pending = [ns \in {Namespace} |-> NoEvent]
  /\ cache = [ns \in {Namespace} |-> NoEvent]
  /\ executed = FALSE
  /\ strays = {}
  /\ changes = 0
  /\ failures = 0

Fails == failures < MaxFailures /\ failures' = failures + 1

-----------------------------------------------------------------------------
(* The cluster. *)

\* Pods come and go: the use of the quota changes, and its watch reports it.
ChangeDemand(d) ==
  /\ changes < MaxChanges
  /\ changes' = changes + 1
  /\ d # demand
  /\ demand' = d /\ need' = d
  /\ quotaEvents' = Append(quotaEvents, [hard |-> hard, demand |-> d])
  /\ UNCHANGED <<hard, quota, due, podEvents, evaluations, handler, network>>

Covers(size, d) == \A f \in {"cpu", "memory"} : size[f] >= d[f]

Waiting == need # demand

\* A workload is to have more pods, which count for nothing until they start.
PodsCreated(d) ==
  /\ changes < MaxChanges
  /\ changes' = changes + 1
  /\ need' = AtLeast(demand, d)
  /\ need' # need
  /\ UNCHANGED <<hard, demand, watcher, handler, network>>

PodsStart ==
  /\ Waiting /\ Covers(hard, need)
  /\ demand' = need
  /\ quotaEvents' = Append(quotaEvents, [hard |-> hard, demand |-> need])
  /\ UNCHANGED <<hard, need, changes, quota, due, podEvents, evaluations, handler,
                 network>>

\* A pod that finds no room is refused, and an Event says so: nothing else does.
PodRefused ==
  /\ Waiting /\ ~Covers(hard, need)
  /\ due' = TRUE /\ podEvents' = TRUE
  /\ UNCHANGED <<cluster, quotaEvents, quota, evaluations, handler, network>>

\* A call takes effect; a patch that changes nothing makes no event.
Resized(patch) ==
  /\ hard' = patch
  /\ quotaEvents' = IF patch = hard THEN quotaEvents
                    ELSE Append(quotaEvents, [hard |-> patch, demand |-> demand])
  /\ UNCHANGED <<demand, need, changes, quota, due, podEvents, evaluations>>

-----------------------------------------------------------------------------
(* The watcher. *)

QuotaEvent ==
  /\ quotaEvents # <<>>
  /\ quota' = Head(quotaEvents)
  /\ quotaEvents' = Tail(quotaEvents)
  /\ due' = TRUE
  /\ UNCHANGED <<cluster, podEvents, evaluations, handler, network>>

\* What the Events of the batch ask for beside what is used, once read.
WithPods ==
  IF podEvents /\ Waiting THEN [quota EXCEPT !.demand = AtLeast(@, need)] ELSE quota

\* The ticker: UpdateNs starts an evaluation of the quota as the watcher knows it,
\* with the Events, which no later one gets to see.
Tick ==
  /\ due
  /\ Cardinality(evaluations) < MaxCalls
  /\ evaluations' = evaluations \cup {WithPods}
  /\ due' = FALSE /\ podEvents' = FALSE
  /\ UNCHANGED <<cluster, quotaEvents, quota, handler, network>>

\* The hour, or one watch, is over: List, new watches, which report first what exists.
Restart ==
  /\ quota' = Now
  /\ quotaEvents' = <<Now>>
  /\ due' = FALSE /\ podEvents' = FALSE
  /\ UNCHANGED <<cluster, evaluations, handler, network>>

\* What UpdateQuotaIfRequired ends with.
Desired(e) == ForceNoScaleDownWhenScaleUp(e.demand, e.hard)

\* The quota is what it should be, or RunEventHandler receives a request.
EvaluationEnds(e) ==
  /\ e \in evaluations
  /\ evaluations' = evaluations \ {e}
  /\ \/ ~DiffersFrom(Desired(e), e.hard) /\ UNCHANGED handler
     \/ /\ DiffersFrom(Desired(e), e.hard)
        /\ UNCHANGED <<cache, recent>>
        /\ Handler!KeepPending(Request(Desired(e))) \/ Handler!ResizeNow(Request(Desired(e)))
  /\ UNCHANGED <<cluster, quotaEvents, quota, due, podEvents, network>>

-----------------------------------------------------------------------------
(* The handler. *)

MinutePasses ==
  /\ Handler!MinutePasses(Namespace)
  /\ UNCHANGED <<cluster, watcher, network>>

-----------------------------------------------------------------------------
(* The endpoint and the way there. *)

\* Faulty variant: what one call has done is taken for what the next one does.
ReturnsUnread(w) == Calling(w) /\ Handler!Finish(w) /\ UNCHANGED executed

\* resizeAsync ends, with or without an error, and the handler learns of it.
Returns(w) == Calling(w) /\ Handler!Finish(w) /\ executed' = FALSE

\* The endpoint does what it is called for; its answer is on the way.
Accept(w) ==
  /\ Calling(w) /\ ~executed
  /\ executed' = TRUE
  /\ Resized(NamespacePatch(w.event))
  /\ UNCHANGED <<handler, strays, failures>>

\* The response is read: status 200, whatever the body says.
Answered(w) ==
  /\ executed
  /\ Returns(w)
  /\ UNCHANGED <<cluster, watcher, strays, failures>>

\* No token, no CA file, no connection, or a status other than 200: an error,
\* and nothing was done.
Rejected(w) ==
  /\ ~executed
  /\ Fails
  /\ Returns(w)
  /\ UNCHANGED <<cluster, watcher, strays>>

\* The connection breaks, or the five minutes of HttpPatch are over: an error,
\* whatever the endpoint has done or has yet to do.
AnswerLost(w) ==
  /\ Fails
  /\ Returns(w)
  /\ strays' = IF executed THEN strays ELSE strays \cup {NamespacePatch(w.event)}
  /\ UNCHANGED <<cluster, watcher>>

\* A call nobody waits for is executed after all, or is not.
StrayEnds(patch) ==
  /\ patch \in strays
  /\ strays' = strays \ {patch}
  /\ Resized(patch) \/ UNCHANGED <<cluster, watcher>>
  /\ UNCHANGED <<handler, executed, failures>>

\* What an old process may still call for on its way out.
LastCalls ==
  {NamespacePatch(w.event) : w \in {v \in workers : Calling(v) /\ ~executed}}
  \cup {NamespacePatch(e) : e \in {pending[Namespace]} \ {NoEvent}}
  \cup {Desired(e) : e \in {x \in evaluations : DiffersFrom(Desired(x), x.hard)}}

\* A crash, or a rolling update: the maps of the new process are empty.
NewProcess ==
  /\ Fails
  /\ \E calls \in SUBSET LastCalls : strays' = strays \cup calls
  /\ quota' = Now
  /\ quotaEvents' = <<Now>>
  /\ due' = FALSE /\ podEvents' = FALSE
  /\ evaluations' = {}
  /\ inProgress' = {} /\ recent' = {} /\ workers' = {}
  /\ pending' = [ns \in {Namespace} |-> NoEvent]
  /\ cache' = [ns \in {Namespace} |-> NoEvent]
  /\ executed' = FALSE
  /\ UNCHANGED cluster

-----------------------------------------------------------------------------
CallStep(w) == Accept(w) \/ Answered(w) \/ Rejected(w) \/ AnswerLost(w)

Next ==
  \/ \E d \in Demands : ChangeDemand(d) \/ PodsCreated(d)
  \/ PodsStart \/ PodRefused
  \/ QuotaEvent \/ Tick \/ Restart
  \/ \E e \in evaluations : EvaluationEnds(e)
  \/ MinutePasses
  \/ \E w \in workers : CallStep(w)
  \/ \E patch \in strays : StrayEnds(patch)
  \/ NewProcess

\* No evaluation, no call and no minute lasts forever: the goroutines run, and a call
\* ends, if only by its deadline.  A pod that is refused is tried again, and starts if
\* there is room for good; what the policies ask for makes no Events.  The hours do not
\* all end before a quota event was delivered, or before a tick has followed it or an
\* Event of a pod.  That hours end at all is not assumed here.
Fairness ==
  /\ SF_vars(QuotaEvent) /\ SF_vars(Tick) /\ SF_vars(podEvents /\ Tick)
  /\ WF_vars(PodRefused) /\ WF_vars(PodsStart)
  /\ \A e \in Snapshot : []<>(e \notin evaluations)
  /\ []<>(recent = {})
  /\ []<>(workers = {}) \/ []<><<\E w \in workers : CallStep(w)>>_vars
  /\ \A patch \in Sizes : []<>(patch \notin strays)

Spec == Init /\ [][Next]_vars

FairSpec == Spec /\ Fairness

-----------------------------------------------------------------------------
TypeOK ==
  /\ hard \in Sizes
  /\ demand \in Sizes /\ need \in Sizes
  /\ quota \in Snapshot
  /\ quotaEvents \in Seq(Snapshot)
  /\ due \in BOOLEAN /\ podEvents \in BOOLEAN
  /\ evaluations \in SUBSET Snapshot
  /\ Cardinality(evaluations) <= MaxCalls
  /\ pending[Namespace] \in Handler!Event \cup {NoEvent}
  /\ cache[Namespace] \in Handler!Event \cup {NoEvent}
  /\ workers \in SUBSET Handler!Worker
  /\ executed => \E w \in workers : Calling(w)
  /\ strays \in SUBSET Sizes
  /\ changes \in 0..MaxChanges
  /\ failures \in 0..MaxFailures

\* As long as nothing has failed, no quota shrinks within the minute of a resize,
\* however old the evaluation that asks for it: the handler compares a request
\* with the last resize, and that is what the quota has (resize, the cache).
NoShrinkWithinMinute ==
  [][failures' = 0 /\ recent # {} /\ recent' # {} => Covers(hard', hard)]_vars

\* As long as nothing has failed, an idle handler holds back no request of an
\* evaluation that knows the quota as it is and only raises it (resize).
Raises(e) == Covers(Desired(e), hard) /\ Desired(e) # hard

HeldBack(e) ==
  /\ Namespace \notin inProgress
  /\ Handler!Refuses(cache[Namespace], Namespace \in recent, Request(Desired(e)))

ScaleUpProceeds ==
  \A e \in evaluations : failures = 0 /\ e.hard = hard /\ Raises(e) => ~HeldBack(e)

\* A request that only raises the quota is never held back (readme.md, "There is
\* no time limitation on scaling up").
NoLimitOnScaleUp == \A e \in evaluations : Raises(e) => ~HeldBack(e)

\* Its promise: what is known of the quota is what the watcher has and is yet to
\* be told, and what may still be set is what is evaluated, pending or called for.
Known == {quota} \cup {quotaEvents[i] : i \in DOMAIN quotaEvents}

Promise == INSTANCE JustifiedResizes WITH
  known <- Known, asked <- LastCalls \cup strays,
  recent <- recent # {}, faulty <- failures > 0

\* The quota is set to nothing but what answers a demand of its namespace, no
\* request is mixed with another or changed on its way, and none is carried out
\* that was not made, whatever fails and whenever (UpdateQuotaIfRequired,
\* RunEventHandler, InvokeResizeApi).
ResizesJustified == Promise!Spec

\* Whatever was lost, refused, overtaken or done too late: pods that are refused get
\* room without waiting for the hour to end, by way of their Events.
RefusedPodsGetRoom ==
  Waiting /\ ~Covers(hard, need) ~> ~Waiting \/ Covers(hard, need)

\* An evaluation without their Events takes the room back before the pods use it.
TakesBack == Waiting /\ Covers(hard, need) /\ ~Covers(hard', need')

\* And if hours end, the pods all start and the quota ends up with what is demanded
\* and no more, unless their room is taken back again and again.
Converges ==
  []<><<Restart>>_vars => \/ []<><<TakesBack>>_vars
                          \/ <>[](~Waiting /\ hard = demand)
=============================================================================
