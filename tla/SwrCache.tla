------------------------------ MODULE SwrCache ------------------------------
(***************************************************************************)
(* The response cache of the ingest API (lib/cache-helper.ts over          *)
(* plugins/redis.ts): stale-while-revalidate reads, computations that are  *)
(* shared between the requests for one key and throttled over all keys,    *)
(* and invalidation after a mutation.                                      *)
(*                                                                         *)
(* The value of a key is the version of the data it was computed from. A   *)
(* request and the computation it may start have the same name. Redis      *)
(* executes the calls of the one connection in the order they were issued, *)
(* so a call takes effect where it is issued and its answer comes later.   *)
(***************************************************************************)
EXTENDS Naturals, Sequences, FiniteSets

CONSTANTS Request,         \* withCache calls that may be under way at once
          Watched,         \* the calls whose answer is awaited below
          None,            \* no request, no entry, nothing read
          Key,             \* cache keys
          Mode,            \* which forms of withCache are used: see Modes
          MaxConcurrent,   \* MAX_CONCURRENT_COMPUTES
          MaxChanges,      \* bound: changes of the data of one key, and restarts
          MaxRestarts      \* bound: restarts of the API

(* What a cold miss does: wait for the computation, return the fallback at  *)
(* once, or return it after coldWaitMs.                                     *)
Modes == {"plain", "fallback", "coldWait"}

ASSUME RequestAssumption == None \notin Request /\ IsFiniteSet(Request)
ASSUME WatchedAssumption == Watched \subseteq Request
ASSUME SlotsAssumption == MaxConcurrent \in Nat \ {0}
ASSUME ModeAssumption == Mode \subseteq Modes

VARIABLES
  data,         \* data[k]: the version of the data behind k
  entry,        \* entry[k]: what Redis holds under k
  inFlight,     \* inFlight[k]: the computation a request for k joins
  active,       \* activeComputes
  queue,        \* computeQueue
  compute,      \* compute[r]: the computation r started
  seen,         \* seen[r]: the version that computation has read
  request,      \* request[r]: the call itself, up to its answer
  store,        \* store[r]: its store(), which may outlive the answer
  toInvalidate, \* toInvalidate[k]: mutations that have yet to call invalidate
  restarts,
  quiet,        \* history: see NoOldEntry
  cut           \* history: the version of k when it was last invalidated

cacheVars == <<entry, inFlight, active, queue, compute, seen, request, store>>
vars == <<cacheVars, data, toInvalidate, restarts, quiet, cut>>

Version == Nat
NoRequest == [at |-> "idle"]
NoStore == [at |-> "none"]

(* hit: cache.get returned a value. since: history, what was cut when it came. *)
Requests == {NoRequest}
     \cup [at : {"get"}, key : Key, mode : Modes, hit : BOOLEAN, since : Version]
     \cup [at : {"wait"}, key : Key, mode : Modes, since : Version]
Stores == {NoStore}
     \cup [at : {"compute"}, key : Key, of : Request]
     \cup [at : {"set"}, key : Key, version : Version]

TypeOK ==
  /\ data \in [Key -> Version]
  /\ entry \in [Key -> Version \cup {None}]
  /\ inFlight \in [Key -> Request \cup {None}]
  /\ active \in Nat
  /\ queue \in Seq(Request)
  /\ compute \in [Request -> {"none", "queued", "running"}]
  /\ seen \in [Request -> Version \cup {None}]
  /\ request \in [Request -> Requests]
  /\ store \in [Request -> Stores]
  /\ toInvalidate \in [Key -> Nat]
  /\ restarts \in Nat
  /\ quiet \in [Key -> Version]
  /\ cut \in [Key -> Version]

Init ==
  /\ data = [k \in Key |-> 0]
  /\ entry = [k \in Key |-> None]
  /\ inFlight = [k \in Key |-> None]
  /\ active = 0
  /\ queue = <<>>
  /\ compute = [r \in Request |-> "none"]
  /\ seen = [r \in Request |-> None]
  /\ request = [r \in Request |-> NoRequest]
  /\ store = [r \in Request |-> NoStore]
  /\ toInvalidate = [k \in Key |-> 0]
  /\ restarts = 0
  /\ quiet = [k \in Key |-> 0]
  /\ cut = [k \in Key |-> 0]
-----------------------------------------------------------------------------
(* The computations under way, and those that hold a slot. *)
Pending == {r \in Request : compute[r] # "none"}
Running == {r \in Request : compute[r] = "running"}

(* A request calls withCache and awaits cache.get; an error of Redis is     *)
(* swallowed and reads as a miss.                                           *)
Get(r, k, m) ==
  /\ request[r] = NoRequest /\ store[r] = NoStore
  /\ \E hit \in {entry[k] # None, FALSE} :
       request' = [request EXCEPT ![r] =
         [at |-> "get", key |-> k, mode |-> m, hit |-> hit, since |-> cut[k]]]
  /\ UNCHANGED <<data, entry, inFlight, active, queue, compute, seen, store,
                 toInvalidate, restarts, quiet, cut>>

(* acquireComputeSlot. *)
AcquireSlot(r) ==
  IF active < MaxConcurrent
  THEN /\ active' = active + 1
       /\ compute' = [compute EXCEPT ![r] = "running"]
       /\ UNCHANGED queue
  ELSE /\ queue' = Append(queue, r)
       /\ compute' = [compute EXCEPT ![r] = "queued"]
       /\ UNCHANGED active

(* Faulty: the next in the queue is not woken. *)
ReleaseOnly(s) ==
  /\ active' = active - 1
  /\ compute' = [compute EXCEPT ![s] = "none"]
  /\ UNCHANGED queue

(* Faulty: the resolver pushed last is called (pop for shift). *)
ReleaseNewest(s) ==
  IF queue = <<>>
  THEN /\ active' = active - 1
       /\ compute' = [compute EXCEPT ![s] = "none"]
       /\ UNCHANGED queue
  ELSE /\ UNCHANGED active
       /\ compute' = [compute EXCEPT ![s] = "none", ![queue[Len(queue)]] = "running"]
       /\ queue' = SubSeq(queue, 1, Len(queue) - 1)

(* releaseComputeSlot at the end of s; the resolver it calls counts again.  *)
ReleaseSlot(s) ==
  IF queue = <<>>
  THEN /\ active' = active - 1
       /\ compute' = [compute EXCEPT ![s] = "none"]
       /\ UNCHANGED queue
  ELSE /\ UNCHANGED active
       /\ compute' = [compute EXCEPT ![s] = "none", ![Head(queue)] = "running"]
       /\ queue' = Tail(queue)

(* Faulty: every store() computes for itself. *)
StartStoreAlone(r, k) ==
  /\ store' = [store EXCEPT ![r] = [at |-> "compute", key |-> k, of |-> r]]
  /\ inFlight' = [inFlight EXCEPT ![k] = r]
  /\ AcquireSlot(r)

(* store() up to its first await: computeOnce joins the computation in      *)
(* flight for the key, or starts one and registers it.                      *)
StartStore(r, k) ==
  IF inFlight[k] # None
  THEN /\ store' = [store EXCEPT ![r] = [at |-> "compute", key |-> k, of |-> inFlight[k]]]
       /\ UNCHANGED <<inFlight, active, queue, compute>>
  ELSE /\ store' = [store EXCEPT ![r] = [at |-> "compute", key |-> k, of |-> r]]
       /\ inFlight' = [inFlight EXCEPT ![k] = r]
       /\ AcquireSlot(r)

(* withCache after its await, with a usable value: it is the answer, and a  *)
(* stale one is refreshed in the background. Any value may be fresh or      *)
(* stale: how long freshUntil lasts is left out.                            *)
AnswerHit(r) ==
  /\ request[r].at = "get" /\ request[r].hit
  /\ request' = [request EXCEPT ![r] = NoRequest]
  /\ \/ UNCHANGED <<store, inFlight, active, queue, compute>>
     \/ StartStore(r, request[r].key)
  /\ UNCHANGED <<data, entry, seen, toInvalidate, restarts, quiet, cut>>

(* Without one: the computation is started, and the request waits for it    *)
(* unless it has a fallback to answer with.                                 *)
Miss(r) ==
  /\ request[r].at = "get" /\ ~request[r].hit
  /\ request' = [request EXCEPT ![r] =
       IF @.mode = "fallback" THEN NoRequest
       ELSE [at |-> "wait", key |-> @.key, mode |-> @.mode, since |-> @.since]]
  /\ StartStore(r, request[r].key)
  /\ UNCHANGED <<data, entry, seen, toInvalidate, restarts, quiet, cut>>

(* coldWaitMs passes: the fallback is the answer, store() goes on. *)
ColdWaitEnds(r) ==
  /\ request[r].at = "wait" /\ request[r].mode = "coldWait"
  /\ request' = [request EXCEPT ![r] = NoRequest]
  /\ UNCHANGED <<data, entry, inFlight, active, queue, compute, seen, store,
                 toInvalidate, restarts, quiet, cut>>

(* The query of a running computation reads the data. *)
ReadData(s) ==
  /\ compute[s] = "running" /\ seen[s] = None
  /\ seen' = [seen EXCEPT ![s] = data[store[s].key]]
  /\ UNCHANGED <<data, entry, inFlight, active, queue, compute, request, store,
                 toInvalidate, restarts, quiet, cut>>

Joined(s) == {r \in Request : store[r].at = "compute" /\ store[r].of = s}

(* The computation ends: its slot is released, and finally() removes what   *)
(* is in flight for its key, whichever computation that is.                 *)
EndCompute(s) ==
  /\ ReleaseSlot(s)
  /\ inFlight' = [inFlight EXCEPT ![store[s].key] = None]
  /\ seen' = [seen EXCEPT ![s] = None]

(* It succeeded: every store() that awaits it calls cache.set. *)
ComputeDone(s) ==
  /\ compute[s] = "running" /\ seen[s] # None
  /\ EndCompute(s)
  /\ store' = [r \in Request |->
       IF r \in Joined(s) THEN [at |-> "set", key |-> store[s].key, version |-> seen[s]]
       ELSE store[r]]
  /\ \/ entry' = [entry EXCEPT ![store[s].key] = seen[s]]
     \/ UNCHANGED entry
  /\ UNCHANGED <<data, request, toInvalidate, restarts, quiet, cut>>

(* Faulty: the slot is released on success only, not in a finally. *)
FailsWithSlot(s) ==
  /\ compute[s] = "running"
  /\ compute' = [compute EXCEPT ![s] = "none"]
  /\ inFlight' = [inFlight EXCEPT ![store[s].key] = None]
  /\ seen' = [seen EXCEPT ![s] = None]
  /\ store' = [r \in Request |-> IF r \in Joined(s) THEN NoStore ELSE store[r]]
  /\ request' = [r \in Request |->
       IF r \in Joined(s) /\ request[r].at = "wait" THEN NoRequest ELSE request[r]]
  /\ UNCHANGED <<data, entry, active, queue, toInvalidate, restarts, quiet, cut>>

(* It failed: every store() rejects, and a request that waits for one       *)
(* answers with its fallback or with an error.                              *)
ComputeFails(s) ==
  /\ compute[s] = "running"
  /\ EndCompute(s)
  /\ store' = [r \in Request |-> IF r \in Joined(s) THEN NoStore ELSE store[r]]
  /\ request' = [r \in Request |->
       IF r \in Joined(s) /\ request[r].at = "wait" THEN NoRequest ELSE request[r]]
  /\ UNCHANGED <<data, entry, toInvalidate, restarts, quiet, cut>>

(* cache.set returns: store() does too, and a request that waits answers.   *)
SetReturns(r) ==
  /\ store[r].at = "set"
  /\ store' = [store EXCEPT ![r] = NoStore]
  /\ request' = [request EXCEPT ![r] = IF @.at = "wait" THEN NoRequest ELSE @]
  /\ UNCHANGED <<data, entry, inFlight, active, queue, compute, seen,
                 toInvalidate, restarts, quiet, cut>>
-----------------------------------------------------------------------------
(* The data behind k change, by a mutation that will invalidate k or not.   *)
Change(k) ==
  /\ data[k] + restarts < MaxChanges
  /\ data' = [data EXCEPT ![k] = @ + 1]
  /\ \/ toInvalidate' = [toInvalidate EXCEPT ![k] = @ + 1]
     \/ UNCHANGED toInvalidate
  /\ UNCHANGED <<cacheVars, restarts, quiet, cut>>

(* Faulty: the entry is deleted and the computation in flight is kept. *)
InvalidateEntryOnly(k) ==
  /\ toInvalidate[k] > 0
  /\ toInvalidate' = [toInvalidate EXCEPT ![k] = @ - 1]
  /\ cut' = [cut EXCEPT ![k] = data[k]]
  /\ entry' = [entry EXCEPT ![k] = None]
  /\ UNCHANGED <<data, inFlight, active, queue, compute, seen, request, store,
                 restarts, quiet>>

(* Faulty: only the computation in flight is forgotten. *)
InvalidateFlightOnly(k) ==
  /\ toInvalidate[k] > 0
  /\ toInvalidate' = [toInvalidate EXCEPT ![k] = @ - 1]
  /\ inFlight' = [inFlight EXCEPT ![k] = None]
  /\ cut' = [cut EXCEPT ![k] = data[k]]
  /\ quiet' = IF \E s \in Running : store[s].key = k /\ seen[s] # None
              THEN quiet ELSE [quiet EXCEPT ![k] = data[k]]
  /\ UNCHANGED <<data, entry, active, queue, compute, seen, request, store, restarts>>

(* invalidate(k): the computation in flight is forgotten and the entry is   *)
(* deleted, or Redis fails and it stays. quiet: history, kept only when the *)
(* entry is gone and no computation has read the data already.              *)
Invalidate(k) ==
  /\ toInvalidate[k] > 0
  /\ toInvalidate' = [toInvalidate EXCEPT ![k] = @ - 1]
  /\ inFlight' = [inFlight EXCEPT ![k] = None]
  /\ cut' = [cut EXCEPT ![k] = data[k]]
  /\ \/ /\ entry' = [entry EXCEPT ![k] = None]
        /\ quiet' = IF \E s \in Running : store[s].key = k /\ seen[s] # None
                    THEN quiet ELSE [quiet EXCEPT ![k] = data[k]]
     \/ UNCHANGED <<entry, quiet>>
  /\ UNCHANGED <<data, active, queue, compute, seen, request, store, restarts>>

(* Redis drops an entry: its retention ends. *)
Evict(k) ==
  /\ entry[k] # None
  /\ entry' = [entry EXCEPT ![k] = None]
  /\ UNCHANGED <<data, inFlight, active, queue, compute, seen, request, store,
                 toInvalidate, restarts, quiet, cut>>

(* The API restarts; Redis and the database stay. *)
Restart ==
  /\ restarts < MaxRestarts /\ \A k \in Key : data[k] + restarts < MaxChanges
  /\ restarts' = restarts + 1
  /\ inFlight' = [k \in Key |-> None]
  /\ active' = 0
  /\ queue' = <<>>
  /\ compute' = [r \in Request |-> "none"]
  /\ seen' = [r \in Request |-> None]
  /\ request' = [r \in Request |-> NoRequest]
  /\ store' = [r \in Request |-> NoStore]
  /\ toInvalidate' = [k \in Key |-> 0]
  /\ UNCHANGED <<data, entry, quiet, cut>>

Next ==
  \/ \E r \in Request :
       \/ \E k \in Key, m \in Mode : Get(r, k, m)
       \/ AnswerHit(r) \/ Miss(r) \/ ColdWaitEnds(r)
       \/ ReadData(r) \/ ComputeDone(r) \/ ComputeFails(r) \/ SetReturns(r)
  \/ \E k \in Key : Change(k) \/ Invalidate(k) \/ Evict(k)
  \/ Restart

Spec == Init /\ [][Next]_vars

(* Redis answers, or its client gives up; a query ends. *)
Fairness ==
  \A r \in Request :
    /\ WF_vars(AnswerHit(r) \/ Miss(r))
    /\ WF_vars(ReadData(r) \/ ComputeDone(r) \/ ComputeFails(r))
    /\ WF_vars(SetReturns(r))

FairSpec == Spec /\ Fairness
-----------------------------------------------------------------------------
(* activeComputes counts the computations that run, never more than         *)
(* MAX_CONCURRENT_COMPUTES, and nothing waits in computeQueue while a slot  *)
(* is free: no failure, restart or burst leaks or loses a slot.             *)
SlotsCounted ==
  /\ active = Cardinality(Running)
  /\ active <= MaxConcurrent
  /\ queue # <<>> => active = MaxConcurrent

(* Only queued computations are in computeQueue, all of them, and once.     *)
QueueExact ==
  /\ \A i \in 1..Len(queue) : compute[queue[i]] = "queued"
  /\ \A r \in Request : compute[r] = "queued" => \E i \in 1..Len(queue) : queue[i] = r
  /\ \A i, j \in 1..Len(queue) : queue[i] = queue[j] => i = j

(* No failure, restart or burst corrupts the throttle: see its two parts.   *)
SlotsExact == SlotsCounted /\ QueueExact

(* The counter and the list of resolvers are a fair semaphore.              *)
Slots == INSTANCE ComputeSlots WITH Task <- Request,
                                    holders <- Running,
                                    waiting <- queue

ImplementsSlots == Slots!Spec

(* A request that joins or starts a computation gets data no older than the *)
(* last invalidation before it came, even when a computation from before    *)
(* that invalidation is still under way (why invalidate clears inFlight).   *)
WaitersSeeInvalidation ==
  \A r \in Request : request[r].at = "wait" /\ store[r].at = "set" =>
    store[r].version >= request[r].since

(* What was invalidated does not come back, if no computation had read the  *)
(* data before: no store, refresh or restart puts an older value in Redis.  *)
NoOldEntry ==
  \A k \in Key : entry[k] # None => entry[k] >= quiet[k]

(* What invalidate promises in its own comment: a refresh that started just *)
(* before the mutation cannot repopulate the key with older data. It can.   *)
NotRepopulated ==
  [][\A k \in Key : entry'[k] \notin {None, entry[k]} => entry'[k] >= cut'[k]]_vars

(* Requests for one key share their computation: a second one is under way  *)
(* only if the key was invalidated while the first was (its finally() then  *)
(* unregisters the second, so later ones can follow, but never more at once *)
(* than invalidations).                                                     *)
SharedComputes ==
  \A k \in Key : Cardinality({s \in Pending : store[s].key = k}) <= 1 + cut[k]

(* Every request is answered, however many wait for slots. The calls are    *)
(* interchangeable: what holds of one watched call holds of all of them.    *)
EveryRequestAnswered ==
  \A r \in Watched : request[r] # NoRequest ~> request[r] = NoRequest
=============================================================================
