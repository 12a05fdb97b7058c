---------------------------- MODULE ResizeHandler ----------------------------
(***************************************************************************)
(* RunEventHandler of internal/resize_api.go: one goroutine that owns the  *)
(* maps inProgress, pending and cache and selects over ResizeNsChan and    *)
(* eventDoneChan, and the resizeAsync goroutines it starts, one for each   *)
(* call of the resize endpoint.                                            *)
(*                                                                         *)
(* The two channels are unbuffered: a send and its receive are one step.   *)
(* The minute in which a scale down is refused is a set of namespaces,     *)
(* recent, that each leaves when its minute has passed.                    *)
(***************************************************************************)
EXTENDS Naturals, Sequences

CONSTANTS
  Namespaces,   \* the namespaces that have a QuotaAutoscaler
  Sizes,        \* the values New of a request takes: CPU and memory
  MaxRequests,  \* bound: how many requests are made in a behaviour
  ResultCap,    \* capacity of ResizeResultChan (1024 in the code)
  NoEvent       \* a key a Go map does not hold

ASSUME SizesAssumption == Sizes \subseteq [cpu : Nat, memory : Nat]
ASSUME MaxRequestsAssumption == MaxRequests \in Nat
ASSUME ResultCapAssumption == ResultCap \in Nat \ {0}

\* NamespaceResizeEvent.  The number says which receive from ResizeNsChan
\* delivered it; Old and ResourceQuota only travel to the endpoint.
Event == [id : 1..MaxRequests, ns : Namespaces, new : Sizes]

ASSUME NoEventAssumption == NoEvent \notin Event

VARIABLES
  received,    \* how many requests RunEventHandler has received
  inProgress,  \* the namespaces whose key holds true
  pending,     \* pending[ns]: the request that waits for ns
  cache,       \* cache[ns]: the request that finished last for ns
  recent,      \* the namespaces whose cache.Timestamp is under a minute old
  workers,     \* the resizeAsync goroutines
  results,     \* what ResizeResultChan holds
  latest,      \* history: the last request received for ns
  refused      \* history: the requests resize() returned false for

vars == <<received, inProgress, pending, cache, recent, workers, results,
          latest, refused>>

-----------------------------------------------------------------------------
Phase == {"calling", "returned", "done"}

Worker == [event : Event, phase : Phase, ok : BOOLEAN]

Result == [event : Event, ok : BOOLEAN]

\* go resizeAsync(event): the goroutine's first step is the endpoint call.
NewWorker(e) == [event |-> e, phase |-> "calling", ok |-> TRUE]

\* Faulty variant: both have to shrink.
ShrinksBoth(new, old) == new.cpu < old.cpu /\ new.memory < old.memory

Shrinks(new, old) == new.cpu < old.cpu \/ new.memory < old.memory

\* Faulty variants: no second resize within the minute; no minute.
RefusesAny(previous, isRecent, e) == previous # NoEvent /\ isRecent

RefusesForever(previous, isRecent, e) ==
  previous # NoEvent /\ Shrinks(e.new, previous.new)

\* resize() gives up the request e when ns finished previous under a minute ago.
Refuses(previous, isRecent, e) ==
  previous # NoEvent /\ isRecent /\ Shrinks(e.new, previous.new)

Init ==
  /\ received = 0
  /\ inProgress = {}
  /\ pending = [ns \in Namespaces |-> NoEvent]
  /\ cache = [ns \in Namespaces |-> NoEvent]
  /\ recent = {}
  /\ workers = {}
  /\ results = <<>>
  /\ latest = [ns \in Namespaces |-> NoEvent]
  /\ refused = {}

-----------------------------------------------------------------------------
\* resize(event), with what its callers make of its answer: e starts a goroutine
\* beside the others and ns is in progress, or e is given up and ns is idle.
Resize(e, others) ==
  \/ /\ ~Refuses(cache'[e.ns], e.ns \in recent', e)
     /\ workers' = others \cup {NewWorker(e)}
     /\ inProgress' = inProgress \cup {e.ns}
     /\ UNCHANGED refused
  \/ /\ Refuses(cache'[e.ns], e.ns \in recent', e)
     /\ workers' = others
     /\ inProgress' = inProgress \ {e.ns}
     /\ refused' = refused \cup {e}

\* Faulty variant: the event that waits already is kept.
KeepOldest(e) ==
  /\ e.ns \in inProgress
  /\ pending' = [pending EXCEPT ![e.ns] = IF @ = NoEvent THEN e ELSE @]
  /\ UNCHANGED <<inProgress, workers, refused>>

\* Faulty variant: the event is executed beside the one in progress.
StartBeside(e) ==
  /\ e.ns \in inProgress
  /\ workers' = workers \cup {NewWorker(e)}
  /\ UNCHANGED <<inProgress, pending, refused>>

\* event := <-ResizeNsChan while the endpoint is at work for its namespace:
\* the event replaces the one that was pending.
KeepPending(e) ==
  /\ e.ns \in inProgress
  /\ pending' = [pending EXCEPT ![e.ns] = e]
  /\ UNCHANGED <<inProgress, workers, refused>>

\* The same receive for an idle namespace.
ResizeNow(e) ==
  /\ e.ns \notin inProgress
  /\ Resize(e, workers)
  /\ UNCHANGED pending

ReceiveRequest(ns, new) ==
  /\ received < MaxRequests
  /\ received' = received + 1
  /\ UNCHANGED <<cache, recent, results>>
  /\ LET e == [id |-> received + 1, ns |-> ns, new |-> new]
     IN  /\ latest' = [latest EXCEPT ![ns] = e]
         /\ KeepPending(e) \/ ResizeNow(e)

\* Faulty variant: the namespace stays marked.
GoIdleMarked(w) ==
  /\ pending[w.event.ns] = NoEvent
  /\ workers' = workers \ {w}
  /\ UNCHANGED <<inProgress, pending, refused>>

\* Faulty variant: whether the key is there is not asked, and the zero value of an
\* event is executed.
GoWithZeroEvent(w) ==
  /\ pending[w.event.ns] = NoEvent
  /\ workers' = (workers \ {w})
                 \cup {NewWorker([id |-> 0, ns |-> "", new |-> [cpu |-> 0, memory |-> 0]])}
  /\ UNCHANGED <<inProgress, pending, refused>>

\* ns := <-eventDoneChan with nothing pending: the namespace becomes idle.
GoIdle(w) ==
  /\ pending[w.event.ns] = NoEvent
  /\ workers' = workers \ {w}
  /\ inProgress' = inProgress \ {w.event.ns}
  /\ UNCHANGED <<pending, refused>>

\* Faulty variant: the pending event is not deleted.
TakePendingAgain(w) ==
  /\ pending[w.event.ns] # NoEvent
  /\ Resize(pending[w.event.ns], workers \ {w})
  /\ UNCHANGED pending

\* The receive with an event pending.  resize() measures it against the resize
\* that has just finished, w's, whose minute has just begun.
TakePending(w) ==
  /\ pending[w.event.ns] # NoEvent
  /\ pending' = [pending EXCEPT ![w.event.ns] = NoEvent]
  /\ Resize(pending[w.event.ns], workers \ {w})

\* The receive from eventDoneChan and all that follows from it.
Finish(w) ==
  /\ cache' = [cache EXCEPT ![w.event.ns] = w.event]
  /\ recent' = recent \cup {w.event.ns}
  /\ GoIdle(w) \/ TakePending(w)
  /\ UNCHANGED <<received, results, latest>>

ReceiveDone(w) ==
  /\ w \in workers
  /\ w.phase = "done"
  /\ Finish(w)

-----------------------------------------------------------------------------
Advance(w, phase, ok) ==
  workers' = (workers \ {w}) \cup {[event |-> w.event, phase |-> phase, ok |-> ok]}

\* ResizeApiFunc(event) returns, with or without an error.
ApiReturns(w, ok) ==
  /\ w \in workers
  /\ w.phase = "calling"
  /\ Advance(w, "returned", ok)
  /\ UNCHANGED <<received, inProgress, pending, cache, recent, results,
                 latest, refused>>

\* Faulty variant: a select without the default case; a full channel blocks.
PublishBlocking(w) ==
  /\ w \in workers
  /\ w.phase = "returned"
  /\ Advance(w, "done", w.ok)
  /\ Len(results) < ResultCap
  /\ results' = Append(results, [event |-> w.event, ok |-> w.ok])
  /\ UNCHANGED <<received, inProgress, pending, cache, recent, latest, refused>>

\* publishResizeResult: a send that never blocks; a full channel drops the
\* result.  Then the deferred send on eventDoneChan waits for the handler.
PublishResult(w) ==
  /\ w \in workers
  /\ w.phase = "returned"
  /\ Advance(w, "done", w.ok)
  /\ \/ /\ Len(results) < ResultCap
        /\ results' = Append(results, [event |-> w.event, ok |-> w.ok])
     \/ /\ Len(results) >= ResultCap
        /\ UNCHANGED results
  /\ UNCHANGED <<received, inProgress, pending, cache, recent, latest, refused>>

\* The watcher takes a result out of ResizeResultChan.
ConsumeResult ==
  /\ results # <<>>
  /\ results' = Tail(results)
  /\ UNCHANGED <<received, inProgress, pending, cache, recent, workers,
                 latest, refused>>

\* previous.Timestamp.Add(time.Minute).After(time.Now()) becomes false.
MinutePasses(ns) ==
  /\ ns \in recent
  /\ recent' = recent \ {ns}
  /\ UNCHANGED <<received, inProgress, pending, cache, workers, results,
                 latest, refused>>

WorkerStep(w) ==
  \/ \E ok \in BOOLEAN : ApiReturns(w, ok)
  \/ PublishResult(w)
  \/ ReceiveDone(w)

Next ==
  \/ \E ns \in Namespaces, new \in Sizes : ReceiveRequest(ns, new)
  \/ \E w \in workers : WorkerStep(w)
  \/ ConsumeResult
  \/ \E ns \in Namespaces : MinutePasses(ns)

\* The goroutines of a namespace run and the handler receives from them, which
\* the Go scheduler and the random choice of select give.  That the endpoint
\* returns is an assumption about it: the stub calls it without a deadline.
\* Nothing obliges anyone to make requests or to read results.
Fairness ==
  \A ns \in Namespaces :
    WF_vars(\E w \in workers : w.event.ns = ns /\ WorkerStep(w))

Spec == Init /\ [][Next]_vars

FairSpec == Spec /\ Fairness

-----------------------------------------------------------------------------
\* The types of the variables: what is executed, cached and published are requests
\* that were received, never the zero value of a key the maps do not hold.
TypeOK ==
  /\ received \in 0..MaxRequests
  /\ inProgress \in SUBSET Namespaces
  /\ pending \in [Namespaces -> Event \cup {NoEvent}]
  /\ cache \in [Namespaces -> Event \cup {NoEvent}]
  /\ recent \in SUBSET Namespaces
  /\ workers \in SUBSET Worker
  /\ results \in Seq(Result)
  /\ latest \in [Namespaces -> Event \cup {NoEvent}]
  /\ refused \in SUBSET Event

\* A namespace never has two resizeAsync goroutines, so its quota is never
\* resized by two calls at once (inProgress in RunEventHandler).
OneResizePerNamespace ==
  \A v, w \in workers : v.event.ns = w.event.ns => v = w

\* A namespace marked in progress, and one with a pending event, has a goroutine
\* whose done message will unmark it and pick the event up: no namespace is
\* wedged with inProgress left true, no pending event is stranded.
NoWedgedNamespace ==
  \A ns \in Namespaces :
    ns \in inProgress \/ pending[ns] # NoEvent =>
      \E w \in workers : w.event.ns = ns

\* As long as the minute of the last finished resize runs, the resize that
\* is executing asks for no less CPU and no less memory than that one did
\* (resize() against the cache), whatever waited in pending meanwhile.
NoQuickScaleDown ==
  \A w \in workers :
    w.event.ns \in recent =>
      /\ w.event.new.cpu >= cache[w.event.ns].new.cpu
      /\ w.event.new.memory >= cache[w.event.ns].new.memory

\* The newest request of a namespace is executing, pending, finished last, or
\* was refused as a quick scale down: only older ones are replaced.
NewestRequestKept ==
  \A ns \in Namespaces :
    \/ latest[ns] \in {pending[ns], cache[ns]} \cup refused
    \/ \E w \in workers : w.event = latest[ns]

\* The results of a namespace lie in ResizeResultChan in the order of its
\* requests: a goroutine publishes before the handler starts the next one.
ResultsInOrder ==
  \A i, j \in 1..Len(results) :
    i < j /\ results[i].event.ns = results[j].event.ns =>
      results[i].event.id < results[j].event.id

\* The handler implements SerialResizes.
InFlight(ns) == {w \in workers : w.event.ns = ns}

LastCalled(ns) ==
  CASE InFlight(ns) # {} -> (CHOOSE w \in InFlight(ns) : TRUE).event.id
    [] InFlight(ns) = {} /\ cache[ns] # NoEvent -> cache[ns].id
    [] OTHER -> 0

Serial == INSTANCE SerialResizes WITH
  Requests <- 1..MaxRequests,
  calls <- [ns \in Namespaces |->
             {w.event.id : w \in {v \in InFlight(ns) : v.phase = "calling"}}],
  last <- [ns \in Namespaces |-> LastCalled(ns)]

ImplementsSerialResizes == Serial!Spec

\* Request e has been executed, or one received after it, or e was refused.
Settled(e) ==
  \/ e \in refused
  \/ cache[e.ns] # NoEvent /\ cache[e.ns].id >= e.id

\* Request k is the last one received for ns.
IsNewest(ns, k) == latest[ns] # NoEvent /\ latest[ns].id = k

\* Once the newest request of a namespace has been received it is finished or
\* refused, unless a newer one takes its place: eventDoneChan always finds the
\* handler ready and leads to the pending event.
RequestsSettle ==
  \A ns \in Namespaces, k \in 1..MaxRequests :
    IsNewest(ns, k) ~> (~IsNewest(ns, k) \/ Settled(latest[ns]))
=============================================================================
