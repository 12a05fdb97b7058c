# A verification of quota-scaler

quota-scaler resizes the ResourceQuota of every Kubernetes namespace that has a
QuotaAutoscaler, so that the quota follows what the pods of the namespace use.
This directory holds TLA+ models of its code, the TLC configurations that check
them, and proofs that TLAPS checks. Paths such as `internal/watchers.go` are
relative to the root of the repository.

## 1. Inventory

| Part | Code | State | Operations | Model |
|---|---|---|---|---|
| Stream set-up | `cmd/quota-scaler/main.go` | four watches | List, Watch, serve, start anew | `QuotaWatcher` |
| Watcher loop | `internal/watchers.go` | maps `Scalers`, `Quotas`, `Events`; goroutines | select over scaler, quota and Event watches, ticker, results | `QuotaWatcher` |
| Evaluation | `UpdateQuotaIfRequired` in `internal/watchers.go` | none | quota x scaler x events -> resize | `QuotaUpdate` |
| Policies | `internal/scaling.go` | none | validation, activation, scale up and down | `Scaling`, `Float64` |
| Pod events | `internal/pod_event.go` | none | what refused pods need | `PodEvents` |
| Resource arithmetic | `pkg/resources`, `pkg/utils` | none | Add, Replace, Limit, Max, ... | `Resources` |
| Resize handler | `RunEventHandler` in `internal/resize_api.go` | maps `inProgress`, `pending`, `cache`; goroutines; three channels | receive request, receive done, publish result | `ResizeHandler`, `SerialResizes` |
| Resize endpoint | `InvokeResizeApiStub` | the quota's `spec.hard` | patch cpu, memory and their limits | `ScalingLoop` (the patch) |
| Remote endpoint | `InvokeResizeApi`, `HttpPatch` in `pkg/utils` | calls under way | PATCH with a deadline of five minutes | `QuotaScaler` |
| Client set-up | `pkg/kubeconfig` | none | read a configuration, make a client, or end the process | `StartProcess` in `QuotaWatcher` |
| The whole, for a namespace | all of the above | all of the above | | `QuotaScaler` |
| Cluster | Kubernetes | quotas, workloads, pods, Events | admission, controllers, watches | external, in `ScalingLoop`, `QuotaWatcher` and `QuotaScaler` |

How they interact. `main` lists the QuotaAutoscalers, starts four watches and
calls `WatchQuotas`, which returns when one of them ends (hourly), whereupon
`main` begins again with empty maps. `WatchQuotas` is one goroutine: a change of
a scaler makes it call `UpdateNs` at once; changes of quotas and Events of
refused pods put their namespace into `Events`, and every five seconds the
ticker calls `UpdateNs` for each namespace there. `UpdateNs` starts a goroutine
with copies of scaler and quota, which computes the resources desired and sends
a request on `ResizeNsChan`. `RunEventHandler`, another goroutine, starts a
`resizeAsync` goroutine for the request or keeps it in `pending`;
`resizeAsync` calls the endpoint, publishes a result on `ResizeResultChan`,
which the watcher loop turns into an Event of the namespace, and reports on
`eventDoneChan`. The quota the endpoint has changed comes back as a quota event.

Hard to get right, and to test:

* the handler: requests that arrive during a call, the done message, the pending
  request and the minute of the cache, in every order;
* the watcher: List, Get and four watches that race with each other and with the
  changes of the cluster; state lost in the hourly restart and in crashes;
  Events delivered twice or thrown away; unordered evaluation goroutines;
* the arithmetic: percentages rounded down, a minimal and a maximal step, bounds,
  and the rule that a scale up is no scale down, composed in a fixed order;
* the loop: policies of both directions, Events and pods that retry, over time;
* the whole: evaluations that work with an old quota, a call whose answer is lost
  and that takes effect later, a failed resize in the cache, a crash or a rolling
  update in which the old process still calls the endpoint.

`PROJECT.json` lists every such hazard at its line with the properties that
cover it, or the reason why none does yet.

## 2. The modules

`SerialResizes` is the abstract specification of the handler: the calls of one
namespace never overlap and are made in the order of the requests, some of which
may be left out.

`ResizeHandler` is `RunEventHandler` with its goroutines. `ReceiveRequest` and
`ReceiveDone` are the two branches of the select, with everything that follows
from the receive, the closure `resize` being the operator `Resize(e, others)`.
`ApiReturns`, `PublishResult` and the second half of `ReceiveDone` are the steps
of `resizeAsync`. A send on an unbuffered channel and its receive are one step.
Time is a set: a namespace is in `recent` from the done message until
`MinutePasses`. The maps `inProgress`, `pending` and `cache` are a set of
namespaces and two functions with `NoEvent` for a missing key. `received` numbers
the requests; `latest` and `refused` are history. `Old`, `ResourceQuota` and
storage travel through unchanged and are left out.

`Float64`, `Resources`, `Scaling`, `PodEvents` and `QuotaUpdate` are the pure
part of an evaluation, function by function. `Float64` gives the truncated
result of `float64(p)/float64(t)*float64(c)` exactly, for the 31-bit operands TLC
can hold: it is the floor of p*c/t, or one less in the cases in which the product
is a whole number and the quotient was rounded down far enough. CPU is in
millicores; memory in megabytes where the code has converted it, and in tenths
of a megabyte where it is still a Quantity, so that `ScaledValue`'s rounding up
is a real conversion. A policy may say 0: the code then divides by 0 in floating
point, and what converting the infinity to an integer yields is the parameter
`IntOfInfinity`. A field of a scaler that is empty or does not parse is `Unset`.
`AskedBy` and `ApplyPolicies` of `QuotaUpdate` are the two policies of a direction
and the order in which they are asked.

`ScalingLoop` closes the loop for one namespace: workloads are created, scaled
and deleted, the quota admits or refuses their pods, Events reach the watcher,
and ticks and edits of the scaler evaluate and resize. An evaluation and its
resize are one step, refused as `resize` refuses it within the minute of the
last one. A tick may come at any time; in the code it looks at a namespace after
a quota event or an Event, and after each restart. Up to `MaxFailures` ticks fail
to fetch some of the objects their Events name: the set `unreached`, whose
pods are then not counted although their Events are spent. The minute is a wall
clock (`resize_api.go:103`): `MinutePasses` waits for nobody, so a pod that was given
room may retry too late and find it scaled away again. `TakesBack` names that step,
and `Restless` what may keep a namespace from coming to rest: pods that the maximum
keeps out, or room that is taken back again and again. A Job or Challenge that has
got all its pods by the time its Event is read is still given the room of one
(`pod_event.go:82,92-97,127`, the "excessive quota" of the known issues in the
readme): such a workload is `Overtaken`, and `Paid` counts that pod by name.

`QuotaWatcher` is the watcher loop with the loop of `main` around it. Objects are
versions. `stage` is where `main` is; `stream[k]` what watch `k` has yet to
deliver: first the objects that existed when it was started, then each change,
in order. `StartProcess` is `main` up to its loop, with a client that can be made
or not. The actions `ScalerEvent`, `QuotaEvent`, `NamespacedEvent` (for each
Event watch) and `Tick` are the branches of the select, with the `Register...`
functions and `UpdateNs` inside. `Crash` loses everything; it stands for the
panics of `main`, for a watch that sends an error (a failed type assertion), and
for the data race of two evaluations on one `Status.Used` map. The List of quotas
and the Get of a missing quota may fail. Two evaluations of a namespace with the
same arguments are one element of `calls`.

`QuotaScaler` composes the watcher, the evaluations, the handler and the endpoint
for one namespace. The handler is an INSTANCE of `ResizeHandler`, whose actions it
takes: a request is `KeepPending` or `ResizeNow` when an evaluation ends, and
`Finish` when a call does. The endpoint is behind a network: it accepts a call,
does it and answers (`Accept`, `Answered`), refuses it (`Rejected`), or the
answer is lost (`AnswerLost`) and the call, now one of the `strays`, takes effect
later or never. `NewProcess` is a crash or a rolling update: the new process has
empty maps, and whatever the old one still calls for joins the strays. `Restart`
is the end of an hour. What the policies make of the use of a quota is one size,
`demand`, and what it takes to let waiting pods in as well is another, `need`: how
they come about is the matter of `ScalingLoop`. An Event comes only when a pod is
really refused (`PodRefused`: it waits and the quota does not cover it); a demand of
the policies makes none. What Events ask for reaches the one tick that carries them
(`Tick`, `WithPods`), and no later one. A copy of the quota, as the watch delivers it
and an evaluation keeps it, has the size and the use of the same moment
(`Snapshot`). A quota watch that lags behind, and evaluations that end in any order,
are in it.

`JustifiedResizes` is the abstract specification of the whole: the quota is set to
nothing but sizes that answer a demand of its namespace, with or without what its
waiting pods need, for the quota as it was once and is still taken to be, and, as
long as nothing has failed, to nothing smaller within the minute. It knows no
evaluations, handler or network, only the copies that are `known` of the quota and
what has been `asked` for and may still be set.

`SumTheorems`, `ScalingProofs`, `ScalingLoopProofs`, `ResizeHandlerProofs`,
`QuotaScalerProofs` and `QuotaWatcherProofs` hold the proofs of section 4.

The operators marked "Faulty variant" stand next to the definitions they deviate
from, each in the way a slip in the code would; with one of them in its place
the property that is paired with it in `PROJECT.json` fails.

## 3. The runs

| Run | Shows | Bounds |
|---|---|---|
| `handler` | six invariants, the refinement of `SerialResizes`, and that the newest request of a namespace is finished or refused, also when nobody reads the results | 2 namespaces, 3 requests, 4 sizes (CPU and memory large or small), results channel of 2 |
| `scaling` | bounds, no mixed resizes, refused pods covered and paid for once in CPU and memory (but for one pod of a Job that has overtaken its Event), a policy of 100 keeps what is used, a scale up is not taken back by the next evaluation where the policies leave a band | 2 workloads (a ReplicaSet of two containers, a Job), up to 2 pods each, scalers of 100, with a band, and with a scale up at 0; 2 start sizes, 4 changes, 2 events in a batch, 1 tick that fetches too little |
| `scaling_live` | unless the maximum keeps pods out or their room is taken back again and again: resizes end, the use ends within the thresholds or at a bound, refused pods start; a scale down is not taken back by the next evaluation unless it is a steep one | as `scaling`, 3 changes, without the scale up at 0 |
| `watcher` | the maps follow the cluster, with the exceptions named; evaluations start with the quota their scaler asks for; restarts mend the exceptions; refusals are considered | 1 namespace, 2 quotas, 4 changes, 1 failure, an evaluation at a time beside the select |
| `system` | while nothing fails, no scale up is held back and no quota shrinks within a minute; whatever fails, the composition implements `JustifiedResizes`, refused pods get room by way of their Events, and if hours end the pods start and the quota ends as demanded, unless their room is taken back again and again | 1 namespace, 2 evaluations at once, 1 change (of the demand, or pods that need more), 1 failure of any kind |

Why the bounds are enough. In `handler` three requests of one namespace fill all
the places a request can be in (executing, pending, replaced), with a second
namespace beside it to show that they do not interfere; the code treats
namespaces independently. In `scaling` the numbers are real: pods that
limit more CPU than ten times their request, memory that is no whole number of
megabytes, maxima low enough to be reached and one above the default maximum.
In `watcher` four changes suffice to create scaler and quota and to delete or
rename and create again; the maps are keyed by namespace, so one is enough.
In `system` two evaluations can overtake each other, one change makes the older
of them wrong or makes pods wait, what they need and what they already use together
are the largest of the sizes, and one failure leaves a stray call, a failed
resize in the cache, or a second process, in each place where it can happen.

Runs that find a disagreement of the code with what its documentation says, one
property each; `PROJECT.json` quotes the lines under "findings":

| Run | The code |
|---|---|
| `max_cpu_step` | reads the maximal CPU step from `minCpuStep` (`scaling.go:61`) |
| `used_within_hard` | scales below what is used, on a percentage rounded down |
| `limits_within_hard` | loses a CPU limit in a division by ten |
| `stub_memory` | writes `limits.memory` in thousandths of a byte (`resize_api.go:220`) |
| `cpu_limited_pods` | never provides the memory of a pod that limits only its CPU |
| `coupled` | evaluates a scaler against the quota it named before |
| `scale_up_held_back` | compares a scale up with a resize that failed, and refuses it for a minute |

Two texts disagree with the code about a duration, which no run can show, for the
models know only that an interval passes: `resize_api.go:103` bars a scale down for
`time.Minute`, while the comment in the next line says "Scale down is allowed
max once per hour", and `readme.md:132-133` "after a couple of minutes of inactivity".
The models take the minute of the code.

### Assumptions

* *The endpoint.* `ResizeApiFunc` is meant to be replaced. The passing runs of
  `ScalingLoop` take an endpoint that does what the stub's comments say
  (`LimitUnit = "M"`); `stub_memory` takes the stub as it stands.
* *Fairness of the handler.* The goroutines of a namespace run and the handler
  receives from them: the Go scheduler and the random choice of `select`. That the
  endpoint returns is earned by the five minutes of `HttpPatch`; for the stub, which
  passes `context.TODO()`, it is an assumption.
* *Fairness of the loop.* Controllers fill in the quota's status, start admissible
  pods and retry refused ones. Ticks come again: changes of the quota, Events and
  the hourly restart put the namespace into `Events`. Nothing is assumed of how soon a
  pod retries: controllers back off, the minute runs on, and under a policy of 100
  what a pod was given may be taken back before it does, again and again. `Settles`,
  `KeepsBand` and `PodsStart` name that (`TakesBack`) beside pods that the maximum
  keeps out (`KeptOut`), and hold in every other behaviour.
* *Fairness of the watcher.* `main` goes on and its watches end within the hour;
  not every hour ends before its watches have delivered an Event and a tick has
  followed (strong fairness of `NamespacedEvent` and of `RefusalTick`). Crashes and
  failed calls are bounded by `MaxFailures`, hence finitely many.
* *Fairness of the whole.* No evaluation, call, stray or minute lasts forever. A pod
  that is refused is tried again, which makes an Event, and one that has room for good
  starts; nothing makes an Event of what the policies ask for, so a scale up of theirs
  that was lost or refused waits for the next change of the quota or the end of the
  hour. `QuotaEvent`, `Tick`, and `Tick` with Events are strongly fair: an end of the
  hour resets what they wait for, and not every hour ends before the five seconds to a
  tick. That the Events of a batch are read when its tick starts the evaluation is a
  simplification: the code reads them in the goroutine, shortly after. That hours end is
  no assumption of the specification: `RefusedPodsGetRoom` holds without it, and
  `Converges` names it as its premise. How soon a pod retries, and which of two
  evaluations ends first, is open.

## 4. The proofs

The theorems hold for all values of the constants that satisfy the assumptions
named in the modules: any sets of namespaces, quotas, workloads, scalers and
sizes, any bounds. The assumptions say that quantities and percentages are
natural numbers, that sets are finite where the code has finite maps, and that
the values standing for something absent (`NoEvent`, `NoResize`, `Absent`) are not
among the others. Every safety property of the passing runs is a theorem.

**`ResizeHandlerProofs`** proves of the handler `TypeCorrect`, the five safety
invariants of run `handler` (`Exclusion`, `NotWedged`,
`QuickScaleDownImpossible`, `NewestNotLost`, `ResultsOrdered`), and
`Refinement`: `Spec => ImplementsSerialResizes`, under the mapping at
the end of `ResizeHandler`. None of these invariants is inductive alone. `IInv`
says in addition, for each namespace: it has a goroutine exactly when it is in
progress; its pending request is the latest and newer than the one executing,
which is newer than the one in the cache; results that were published belong to
requests no newer than the one executing, and strictly older while it has not
published its own; everything received is numbered up to `received`. With
exclusion these give the order of results and calls; with the link of goroutines
and `inProgress` they give that nothing is wedged; the minute of the cache and the
order of the two sizes give the impossibility of a quick scale down.

**`ScalingLoopProofs`** proves of the control loop its types, and that no resize
mixes directions (`NoMixedResizes`), leaves the bounds (`ResizesWithinBounds`), or,
under policies of 100, takes away what is used (`UsedIsKept`). These are about
single steps, so the type invariant carries them; the work is in the evaluation.
`ScalingProofs` follows `UpdateQuotaIfRequired` call by call: the settings a
scaler has after validation, what an active policy asks for, what the Events
add, what the clamping and `ForceNoScaleDownWhenScaleUp` leave of it, in a
lemma each; `Evaluated` puts them together. It holds for every integer that the
infinity may become, since a step or a limit replaces it and the bounds come after
it; of the float64 product it uses only that it is natural, as a policy of 100
does not compute one.

`EventsAreCovered` and `EventsAreCountedOnce` are about the refused pods. What the
code reads of a container, with its rounding to megabytes, is set against what the
quota counts for it (`ContainerRead`), multiplied by the replicas that are missing
and summed over the workloads whose Events are in the batch, each once
(`EventsRead`). They need hypotheses on the containers, which the first instance of
`MCScalingLoop` satisfies: the first, that a container with limits has requests, no
larger than its memory limit (`LimitsCoverRequests`; `cpu_limited_pods` is what
happens without it); the second, that the quota counts memory limits and that what
has requests has limits (`MemoryIsLimited`). The second speaks of CPU and memory, and
of what is granted beyond the use, pod by pod: the pods that are missing and, for a Job
that has overtaken its Event, the one that nobody misses (`Paid`). The sums are functions over finite
sets: `SumTheorems` proves, from the definition of `SumFunction` in the library,
that sums of naturals are naturals, monotone, additive, homogeneous, and depend on
nothing that adds zero.

`ScalingUpIsNotUndone` and `ScalingDownIsNotUndone` say that two evaluations at the
same use do not contradict each other. They need the arithmetic of the policies.
`TruncatedBounds` brackets the float64 product: it is never above the quotient, and
at most one below the quotient rounded down. So the percentage u of a use satisfies
c*u <= 100*used <= c*(u+1) for a quota c, and a policy with threshold t wants a w
with t*w <= u*c <= t*(w+1). For a scale up, `NoOvershoot`: the use stays above a
threshold d < t, provided that the minimal step fits in the band,
d*(c + step) < (t+1)*c (`LeavesBand`). For a scale down from c to r,
`NoUndershoot`: the use stays below the threshold q provided that the step fits and
c + t < (q + 1 - t)*r (`ShrinksGradually`): in one step the quota may shrink to
about one part in as many as the band has points, 1/21 with 50-70%. Beyond
that the point lost in rounding is worth more than the band; `used_within_hard` is
such a case. The bounds, the order of several policies and
`ForceNoScaleDownWhenScaleUp` come on top (`NotUndone`, `NotTakenBack`). Policies of
100 are left to `UsedIsKept`.

**`QuotaScalerProofs`** proves of the composition its types, `ScaleUpsProceed`,
`NoShrink` and `ResizesAreJustified`. The invariant: the handler has one call or
none, marked in `inProgress`; and, as long as nothing has failed, nothing is astray and the quota
is what the cache says, or what the call asked for once the endpoint has done it.
That is what makes it sound to compare a request with the cache and not with the
quota, and what a failure breaks (`scale_up_held_back`).

`ResizesAreJustified` is the refinement of `JustifiedResizes`, whatever calls and
processes fail. Under its mapping `known` is what the watcher has and is yet to be
told, each with the demand of its moment, `asked` what is evaluated, pending, called
for or astray. The proof has a
lemma for each kind of step. An evaluation adds to `asked` only when it is
started; a request that is received, replaced, refused or lost with its process adds
nothing (`ReceiveCalls`, `ReturnCalls`); what the endpoint does is in it; that
`ForceNoScaleDownWhenScaleUp` leaves an answer to the demand is `DesiredAnswers`, and
that it is one of the sizes `ForcedIsJoin`.

**`QuotaWatcherProofs`** proves of the watcher its types, `WatcherFollowsScalers`,
`WatcherFollowsQuotas` and `EvaluationsStartCoupled`. The first two properties speak
of a watch that has nothing more to deliver; the invariant must speak of what is under way. It says that the last
change that a stream holds about an object is how the cluster has the object
(`LastWords`); that a map is right about every object of which its stream tells
nothing (`ScalersInv`, `QuotasInv`); and that, before the select, what the stream of
quotas does not tell of does not exist (`AllTold`), which is why it does no harm
that the List comes after the watch. From `QuotasInv` also follows that whatever
starts an evaluation finds scaler and quota fit for each other, although they come
from two watches (`EvaluationsStartCoupled`); the exception `uncoupled` is the one the
run `coupled` shows.

### Only model-checked

* The liveness properties (`RequestsSettle`, `Settles`, `KeepsBand`, `PodsStart`,
  `Mends`, `RefusalsConsidered`, `RefusedPodsGetRoom`, `Converges`): liveness under
  fairness is out of reach of the provers used.

Neither checked nor proved: that `Float64` is what a processor computes. It was
derived from the rounding rules of IEEE 754.

## 5. Not modelled

* `logging`: output only. Of `kubeconfig`, whether it succeeds; not which file,
  token or environment it reads.
* `PublishNamespaceEvent`: its effect is an Event nothing reads; the receive that
  triggers it is `ConsumeResult`.
* The workload name and the messages of `InvokeResizeApi`.
* The generated client, informers, listers and deep copies: only List and Watch
  are used, which are in `QuotaWatcher` as the API server's behaviour.
* A second QuotaAutoscaler in a namespace: the readme takes one for granted; see the
  hazards.
* The storage of a quota, carried for the log, and `periodMinutes` of a policy, which
  nothing reads.
* In `QuotaScaler`, edits of the scaler and more than one namespace: they are in
  `QuotaWatcher`, and the handler keeps namespaces apart (`ResizeHandler`).

## 6. Plan

Done: the handler and its abstract specification; evaluation and control loop; the
watcher and its restarts; the composition with the endpoint, crashes and rolling
updates, and its abstract specification; proofs of the safety properties of all
four, and of both refinements.

What could follow: that, while nothing fails, the handler inside `QuotaScaler`
implements `SerialResizes` as it does alone; a bound on the number of resizes until
the loop settles, by which `Settles` could be approached without liveness;
`QuotaWatcher` with several QuotaAutoscalers in a namespace, of which one is
deleted.
