--------------------------- MODULE SwrCacheProofs ---------------------------
(***************************************************************************)
(* Proofs about SwrCache, for any number of requests, keys, slots,         *)
(* mutations and restarts.                                                 *)
(***************************************************************************)
EXTENDS SwrCache, FiniteSetTheorems, TLAPS

(* A computation under way is the one its request's store() waits for. *)
Computing ==
  \A r \in Request : compute[r] # "none" => store[r].at = "compute" /\ store[r].of = r

(* A call that still awaits cache.get has not begun to store. *)
Asking == \A r \in Request : request[r].at = "get" => store[r] = NoStore

(* Only a computation with a slot has read anything. *)
Reading == \A r \in Request : seen[r] # None => compute[r] = "running"

Base == TypeOK /\ Computing /\ Asking /\ Reading /\ QueueExact /\ SlotsCounted

LEMMA BaseInit == Init => Base
<1> SUFFICES ASSUME Init PROVE Base
  OBVIOUS
<1>1. <<>> \in Seq(Request)
  OBVIOUS
<1>2. TypeOK
  BY <1>1 DEF Init, TypeOK, Version, Requests, Stores
<1>3. Running = {} /\ Cardinality({}) = 0
  BY FS_EmptySet DEF Init, Running
<1>4. SlotsCounted
  BY <1>3, SlotsAssumption DEF Init, SlotsCounted
<1>. QED  BY <1>2, <1>4 DEF Init, Base, Computing, Asking, Reading, QueueExact, NoRequest, NoStore

(* What a step does to the throttle. *)
Acquires == \E r \in Request : compute[r] = "none" /\ AcquireSlot(r)
Releases == \E s \in Request : compute[s] = "running" /\ ReleaseSlot(s)
Forgets == active' = 0 /\ queue' = <<>> /\ compute' = [r \in Request |-> "none"]
SlotStep == Acquires \/ Releases \/ Forgets \/ UNCHANGED <<active, queue, compute>>

LEMMA FreeToStart ==
  ASSUME Base, NEW r \in Request, request[r].at = "get"
  PROVE  store[r] = NoStore /\ compute[r] = "none" /\ seen[r] = None
BY DEF Base, TypeOK, Computing, Asking, Reading, NoStore

LEMMA EverySlotStep == Base /\ [Next]_vars => SlotStep
<1> SUFFICES ASSUME Base, [Next]_vars PROVE SlotStep
  OBVIOUS
<1>1. ASSUME NEW r \in Request, AnswerHit(r) \/ Miss(r) PROVE SlotStep
  <2>1. request[r].at = "get"
    BY <1>1 DEF AnswerHit, Miss
  <2>2. compute[r] = "none"
    BY <2>1, FreeToStart
  <2>3. AcquireSlot(r) \/ UNCHANGED <<active, queue, compute>>
    BY <1>1 DEF AnswerHit, Miss, StartStore
  <2>. QED  BY <2>2, <2>3 DEF SlotStep, Acquires
<1>2. ASSUME NEW s \in Request, ComputeDone(s) \/ ComputeFails(s) PROVE SlotStep
  BY <1>2 DEF ComputeDone, ComputeFails, EndCompute, SlotStep, Releases
<1>3. CASE Restart
  BY <1>3 DEF Restart, SlotStep, Forgets
<1>4. ASSUME NEW r \in Request,
             ColdWaitEnds(r) \/ ReadData(r) \/ SetReturns(r) \/ \E k \in Key, m \in Mode : Get(r, k, m)
      PROVE  SlotStep
  BY <1>4 DEF ColdWaitEnds, ReadData, SetReturns, Get, SlotStep
<1>5. ASSUME NEW k \in Key, Change(k) \/ Invalidate(k) \/ Evict(k) PROVE SlotStep
  BY <1>5 DEF Change, Invalidate, Evict, SlotStep, cacheVars
<1>6. CASE UNCHANGED vars
  BY <1>6 DEF vars, cacheVars, SlotStep
<1>. QED  BY <1>1, <1>2, <1>3, <1>4, <1>5, <1>6 DEF Next

(* The throttle keeps its types and its queue. *)
LEMMA SlotTypes ==
  ASSUME Base, SlotStep
  PROVE  /\ queue' \in Seq(Request)
         /\ compute' \in [Request -> {"none", "queued", "running"}]
         /\ QueueExact'
<1>0. active \in Nat /\ queue \in Seq(Request)
      /\ compute \in [Request -> {"none", "queued", "running"}] /\ QueueExact
  BY DEF Base, TypeOK
<1>1. ASSUME NEW r \in Request, compute[r] = "none", AcquireSlot(r)
      PROVE  /\ queue' \in Seq(Request)
             /\ compute' \in [Request -> {"none", "queued", "running"}]
             /\ QueueExact'
  <2>1. CASE active < MaxConcurrent
    BY <1>0, <1>1, <2>1 DEF AcquireSlot, QueueExact
  <2>2. CASE ~(active < MaxConcurrent)
    <3>1. /\ queue' = Append(queue, r) /\ active' = active
          /\ compute' = [compute EXCEPT ![r] = "queued"]
      BY <1>1, <2>2 DEF AcquireSlot
    <3>2. /\ queue' \in Seq(Request) /\ Len(queue') = Len(queue) + 1 /\ queue'[Len(queue) + 1] = r
          /\ \A i \in 1..Len(queue) : queue'[i] = queue[i] /\ queue[i] \in Request
          /\ Len(queue) \in Nat
      BY <1>0, <3>1
    <3>3. \A i \in 1..Len(queue) : queue[i] # r
      BY <1>0, <1>1 DEF QueueExact
    <3>4. \A i \in 1..Len(queue') : i \in 1..Len(queue) \/ i = Len(queue) + 1
      BY <3>2
    <3>5. /\ Len(queue) + 1 \in 1..Len(queue')
          /\ \A i \in 1..Len(queue) : i \in 1..Len(queue')
      BY <3>2
    <3>6. \A i \in 1..Len(queue') : compute'[queue'[i]] = "queued"
      BY <1>0, <3>1, <3>2, <3>4 DEF QueueExact
    <3>7. \A x \in Request : compute'[x] = "queued" => \E i \in 1..Len(queue') : queue'[i] = x
      BY <1>0, <3>1, <3>2, <3>5 DEF QueueExact
    <3>8. \A i, j \in 1..Len(queue') : queue'[i] = queue'[j] => i = j
      BY <1>0, <3>2, <3>3, <3>4 DEF QueueExact
    <3>. QED  BY <1>0, <3>1, <3>2, <3>6, <3>7, <3>8 DEF QueueExact
  <2>. QED  BY <2>1, <2>2
<1>2. ASSUME NEW s \in Request, compute[s] = "running", ReleaseSlot(s)
      PROVE  /\ queue' \in Seq(Request)
             /\ compute' \in [Request -> {"none", "queued", "running"}]
             /\ QueueExact'
  <2>1. CASE queue = <<>>
    BY <1>0, <1>2, <2>1 DEF ReleaseSlot, QueueExact
  <2>2. CASE queue # <<>>
    <3>1. /\ queue' = Tail(queue) /\ active' = active
          /\ compute' = [compute EXCEPT ![s] = "none", ![Head(queue)] = "running"]
      BY <1>2, <2>2 DEF ReleaseSlot
    <3>2. /\ queue' \in Seq(Request) /\ Len(queue) = Len(queue') + 1 /\ Head(queue) = queue[1]
          /\ \A i \in 1..Len(queue') : queue'[i] = queue[i + 1]
          /\ Len(queue') \in Nat
      BY <1>0, <2>2, <3>1
    <3>3. /\ Head(queue) \in Request /\ Head(queue) # s
          /\ 1 \in 1..Len(queue)
          /\ \A i \in 1..Len(queue') : i + 1 \in 1..Len(queue) /\ i + 1 # 1
      BY <1>0, <1>2, <2>2, <3>2 DEF QueueExact
    <3>4. \A x \in Request : compute'[x] = IF x = Head(queue) THEN "running"
                                           ELSE IF x = s THEN "none" ELSE compute[x]
      BY <1>0, <3>1, <3>3
    <3>5. \A i \in 1..Len(queue') : compute'[queue'[i]] = "queued"
      <4> SUFFICES ASSUME NEW i \in 1..Len(queue') PROVE compute'[queue'[i]] = "queued"
        OBVIOUS
      <4>1. queue'[i] \in Request /\ queue'[i] = queue[i + 1] /\ compute[queue[i + 1]] = "queued"
        BY <1>0, <3>2, <3>3 DEF QueueExact
      <4>2. queue[i + 1] # queue[1]
        BY <1>0, <3>3 DEF QueueExact
      <4>. QED  BY <1>2, <3>2, <3>4, <4>1, <4>2
    <3>6. \A x \in Request : compute'[x] = "queued" => \E i \in 1..Len(queue') : queue'[i] = x
      <4> SUFFICES ASSUME NEW x \in Request, compute'[x] = "queued"
                   PROVE  \E i \in 1..Len(queue') : queue'[i] = x
        OBVIOUS
      <4>1. compute[x] = "queued" /\ x # Head(queue)
        BY <3>4
      <4>2. PICK j \in 1..Len(queue) : queue[j] = x
        BY <1>0, <4>1 DEF QueueExact
      <4>3. j # 1
        BY <3>2, <4>1, <4>2
      <4>4. j - 1 \in 1..Len(queue') /\ (j - 1) + 1 = j
        BY <3>2, <4>3
      <4>. QED  BY <3>2, <4>2, <4>4
    <3>7. \A i, j \in 1..Len(queue') : queue'[i] = queue'[j] => i = j
      <4> SUFFICES ASSUME NEW i \in 1..Len(queue'), NEW j \in 1..Len(queue'), queue'[i] = queue'[j]
                   PROVE  i = j
        OBVIOUS
      <4>1. queue[i + 1] = queue[j + 1] /\ i + 1 \in 1..Len(queue) /\ j + 1 \in 1..Len(queue)
        BY <3>2, <3>3
      <4>2. i + 1 = j + 1
        BY <1>0, <4>1 DEF QueueExact
      <4>. QED  BY <3>2, <4>2
    <3>. QED  BY <1>0, <3>1, <3>2, <3>3, <3>5, <3>6, <3>7 DEF QueueExact
  <2>. QED  BY <2>1, <2>2
<1>3. CASE Forgets
  <2>1. <<>> \in Seq(Request)
    OBVIOUS
  <2>. QED  BY <1>3, <2>1 DEF Forgets, QueueExact
<1>4. CASE UNCHANGED <<active, queue, compute>>
  BY <1>0, <1>4 DEF QueueExact
<1>. QED  BY <1>1, <1>2, <1>3, <1>4 DEF SlotStep, Acquires, Releases

LEMMA RunningFinite == IsFiniteSet(Running) /\ Cardinality(Running) \in Nat
<1>1. IsFiniteSet(Request) /\ Running \subseteq Request
  BY RequestAssumption DEF Running
<1>. QED  BY <1>1, FS_Subset, FS_CardinalityType

(* Which computations run after a step, and how many: the counter follows. *)
LEMMA SlotCount ==
  ASSUME Base, SlotStep
  PROVE  active' \in Nat /\ SlotsCounted'
<1>0. /\ active \in Nat /\ queue \in Seq(Request) /\ active = Cardinality(Running)
      /\ active <= MaxConcurrent /\ (queue # <<>> => active = MaxConcurrent)
      /\ compute \in [Request -> {"none", "queued", "running"}] /\ QueueExact
      /\ MaxConcurrent \in Nat \ {0}
  BY SlotsAssumption DEF Base, TypeOK, SlotsCounted
<1>1. ASSUME NEW r \in Request, compute[r] = "none", AcquireSlot(r)
      PROVE  active' \in Nat /\ SlotsCounted'
  <2>1. CASE active < MaxConcurrent
    <3>1. Running' = Running \cup {r} /\ r \notin Running
      BY <1>0, <1>1, <2>1 DEF AcquireSlot, Running
    <3>2. Cardinality(Running') = Cardinality(Running) + 1
      BY <3>1, RunningFinite, FS_AddElement
    <3>. QED  BY <1>0, <1>1, <2>1, <3>2 DEF AcquireSlot, SlotsCounted
  <2>2. CASE ~(active < MaxConcurrent)
    <3>1. Running' = Running
      BY <1>0, <1>1, <2>2 DEF AcquireSlot, Running
    <3>2. active' = active /\ active = MaxConcurrent
      BY <1>0, <1>1, <2>2 DEF AcquireSlot
    <3>. QED  BY <1>0, <3>1, <3>2 DEF SlotsCounted
  <2>. QED  BY <2>1, <2>2
<1>2. ASSUME NEW s \in Request, compute[s] = "running", ReleaseSlot(s)
      PROVE  active' \in Nat /\ SlotsCounted'
  <2>0. s \in Running /\ Cardinality(Running \ {s}) = Cardinality(Running) - 1
        /\ IsFiniteSet(Running \ {s}) /\ Cardinality(Running \ {s}) \in Nat
    BY <1>2, RunningFinite, FS_RemoveElement, FS_CardinalityType DEF Running
  <2>1. CASE queue = <<>>
    <3>1. Running' = Running \ {s} /\ active' = active - 1 /\ queue' = <<>>
      BY <1>0, <1>2, <2>1 DEF ReleaseSlot, Running
    <3>. QED  BY <1>0, <2>0, <3>1 DEF SlotsCounted
  <2>2. CASE queue # <<>>
    <3>1. Head(queue) \in Request /\ compute[Head(queue)] = "queued"
      BY <1>0, <2>2 DEF QueueExact
    <3>2. /\ Running' = (Running \ {s}) \cup {Head(queue)} /\ active' = active
          /\ Head(queue) \notin Running \ {s}
      BY <1>0, <1>2, <2>2, <3>1 DEF ReleaseSlot, Running
    <3>3. Cardinality(Running') = Cardinality(Running \ {s}) + 1
      BY <2>0, <3>2, FS_AddElement
    <3>. QED  BY <1>0, <2>0, <2>2, <3>2, <3>3 DEF SlotsCounted
  <2>. QED  BY <2>1, <2>2
<1>3. CASE Forgets
  <2>1. Running' = {} /\ Cardinality({}) = 0
    BY <1>3, FS_EmptySet DEF Forgets, Running
  <2>. QED  BY <1>0, <1>3, <2>1 DEF Forgets, SlotsCounted
<1>4. CASE UNCHANGED <<active, queue, compute>>
  BY <1>0, <1>4 DEF SlotsCounted, Running
<1>. QED  BY <1>1, <1>2, <1>3, <1>4 DEF SlotStep, Acquires, Releases

(* The type of everything but the throttle. *)
RestTyped ==
  /\ data \in [Key -> Version]
  /\ entry \in [Key -> Version \cup {None}]
  /\ inFlight \in [Key -> Request \cup {None}]
  /\ seen \in [Request -> Version \cup {None}]
  /\ request \in [Request -> Requests]
  /\ store \in [Request -> Stores]
  /\ toInvalidate \in [Key -> Nat]
  /\ restarts \in Nat
  /\ quiet \in [Key -> Version]
  /\ cut \in [Key -> Version]

LEMMA ComputingKey ==
  ASSUME Base, NEW s \in Request, compute[s] # "none"
  PROVE  store[s].at = "compute" /\ store[s].of = s /\ store[s].key \in Key
BY DEF Base, TypeOK, Computing, Stores, NoStore

(* AnswerHit and Miss may begin a store(). *)
LEMMA StartStoreTypes ==
  ASSUME RestTyped, NEW r \in Request, NEW k \in Key, StartStore(r, k)
  PROVE  store' \in [Request -> Stores] /\ inFlight' \in [Key -> Request \cup {None}]
<1>1. CASE inFlight[k] # None
  <2>1. [at |-> "compute", key |-> k, of |-> inFlight[k]] \in Stores
    BY <1>1 DEF RestTyped, Stores
  <2>. QED  BY <1>1, <2>1 DEF StartStore, RestTyped
<1>2. CASE inFlight[k] = None
  <2>1. [at |-> "compute", key |-> k, of |-> r] \in Stores
    BY DEF Stores
  <2>. QED  BY <1>2, <2>1 DEF StartStore, RestTyped
<1>. QED  BY <1>1, <1>2

LEMMA RestTypes == Base /\ [Next]_vars => RestTyped'
<1> SUFFICES ASSUME Base, [Next]_vars PROVE RestTyped'
  OBVIOUS
<1>0. RestTyped
  BY DEF Base, TypeOK, RestTyped
<1>1. ASSUME NEW r \in Request, NEW k \in Key, NEW m \in Mode, Get(r, k, m) PROVE RestTyped'
  <2>1. PICK hit \in {entry[k] # None, FALSE} : request' = [request EXCEPT ![r] =
           [at |-> "get", key |-> k, mode |-> m, hit |-> hit, since |-> cut[k]]]
    BY <1>1 DEF Get
  <2>2. [at |-> "get", key |-> k, mode |-> m, hit |-> hit, since |-> cut[k]] \in Requests
    BY <1>0, ModeAssumption DEF RestTyped, Requests
  <2>3. request' \in [Request -> Requests]
    BY <1>0, <2>1, <2>2 DEF RestTyped
  <2>. QED  BY <1>0, <1>1, <2>3 DEF Get, RestTyped
<1>2. ASSUME NEW r \in Request, AnswerHit(r) PROVE RestTyped'
  <2>1. request[r].key \in Key
    BY <1>0, <1>2 DEF AnswerHit, RestTyped, Requests, NoRequest
  <2>2. store' \in [Request -> Stores] /\ inFlight' \in [Key -> Request \cup {None}]
    BY <1>0, <1>2, <2>1, StartStoreTypes DEF AnswerHit, RestTyped
  <2>3. request' \in [Request -> Requests]
    BY <1>0, <1>2 DEF AnswerHit, RestTyped, Requests
  <2>. QED  BY <1>0, <1>2, <2>2, <2>3 DEF AnswerHit, RestTyped
<1>3. ASSUME NEW r \in Request, Miss(r) PROVE RestTyped'
  <2>1. request[r].key \in Key /\ request[r].mode \in Modes /\ request[r].since \in Version
    BY <1>0, <1>3 DEF Miss, RestTyped, Requests, NoRequest
  <2>2. store' \in [Request -> Stores] /\ inFlight' \in [Key -> Request \cup {None}]
    BY <1>0, <1>3, <2>1, StartStoreTypes DEF Miss
  <2>3. [at |-> "wait", key |-> request[r].key, mode |-> request[r].mode,
         since |-> request[r].since] \in Requests /\ NoRequest \in Requests
    BY <2>1 DEF Requests
  <2>4. request' \in [Request -> Requests]
    BY <1>0, <1>3, <2>3 DEF Miss, RestTyped
  <2>. QED  BY <1>0, <1>3, <2>2, <2>4 DEF Miss, RestTyped
<1>4. ASSUME NEW r \in Request, ColdWaitEnds(r) PROVE RestTyped'
  BY <1>0, <1>4 DEF ColdWaitEnds, RestTyped, Requests
<1>5. ASSUME NEW s \in Request, ReadData(s) PROVE RestTyped'
  <2>1. store[s].key \in Key
    BY <1>5, ComputingKey DEF ReadData
  <2>2. seen' \in [Request -> Version \cup {None}]
    BY <1>0, <1>5, <2>1 DEF ReadData, RestTyped
  <2>. QED  BY <1>0, <1>5, <2>2 DEF ReadData, RestTyped
<1>6. ASSUME NEW s \in Request, ComputeDone(s) PROVE RestTyped'
  <2>1. store[s].key \in Key /\ seen[s] \in Version
    BY <1>0, <1>6, ComputingKey DEF ComputeDone, RestTyped
  <2>2. [at |-> "set", key |-> store[s].key, version |-> seen[s]] \in Stores
    BY <2>1 DEF Stores
  <2>3. store' \in [Request -> Stores]
    BY <1>0, <1>6, <2>2 DEF ComputeDone, RestTyped
  <2>4. entry' \in [Key -> Version \cup {None}]
    BY <1>0, <1>6, <2>1 DEF ComputeDone, RestTyped
  <2>. QED  BY <1>0, <1>6, <2>3, <2>4 DEF ComputeDone, EndCompute, RestTyped
<1>7. ASSUME NEW s \in Request, ComputeFails(s) PROVE RestTyped'
  <2>1. NoStore \in Stores /\ NoRequest \in Requests
    BY DEF Stores, Requests
  <2>2. store' \in [Request -> Stores] /\ request' \in [Request -> Requests]
    BY <1>0, <1>7, <2>1 DEF ComputeFails, RestTyped
  <2>. QED  BY <1>0, <1>7, <2>2 DEF ComputeFails, EndCompute, RestTyped
<1>8. ASSUME NEW r \in Request, SetReturns(r) PROVE RestTyped'
  <2>1. NoStore \in Stores /\ NoRequest \in Requests
    BY DEF Stores, Requests
  <2>. QED  BY <1>0, <1>8, <2>1 DEF SetReturns, RestTyped
<1>9. ASSUME NEW k \in Key, Change(k) PROVE RestTyped'
  <2>1. data' \in [Key -> Version] /\ toInvalidate' \in [Key -> Nat]
    BY <1>0, <1>9 DEF Change, RestTyped, Version
  <2>. QED  BY <1>0, <1>9, <2>1 DEF Change, cacheVars, RestTyped
<1>10. ASSUME NEW k \in Key, Invalidate(k) PROVE RestTyped'
  <2>1. toInvalidate' \in [Key -> Nat]
    BY <1>0, <1>10 DEF Invalidate, RestTyped
  <2>2. quiet' \in [Key -> Version] /\ entry' \in [Key -> Version \cup {None}]
    BY <1>0, <1>10 DEF Invalidate, RestTyped
  <2>. QED  BY <1>0, <1>10, <2>1, <2>2 DEF Invalidate, RestTyped
<1>11. ASSUME NEW k \in Key, Evict(k) PROVE RestTyped'
  BY <1>0, <1>11 DEF Evict, RestTyped
<1>12. CASE Restart
  BY <1>0, <1>12 DEF Restart, RestTyped, Stores, Requests
<1>13. CASE UNCHANGED vars
  BY <1>0, <1>13 DEF vars, cacheVars, RestTyped
<1>. QED  BY <1>1, <1>2, <1>3, <1>4, <1>5, <1>6, <1>7, <1>8, <1>9, <1>10, <1>11, <1>12, <1>13 DEF Next

LEMMA OrderKept == Base /\ [Next]_vars => (Computing /\ Asking /\ Reading)'
<1> SUFFICES ASSUME Base, [Next]_vars PROVE (Computing /\ Asking /\ Reading)'
  OBVIOUS
<1>0. /\ TypeOK /\ Computing /\ Asking /\ Reading /\ QueueExact
      /\ compute \in [Request -> {"none", "queued", "running"}]
      /\ store \in [Request -> Stores] /\ request \in [Request -> Requests]
      /\ seen \in [Request -> Version \cup {None}] /\ queue \in Seq(Request)
  BY DEF Base, TypeOK
<1>1. ASSUME NEW r \in Request, AnswerHit(r) \/ Miss(r) PROVE (Computing /\ Asking /\ Reading)'
  <2>1. request[r].at = "get"
    BY <1>1 DEF AnswerHit, Miss
  <2>2. store[r] = NoStore /\ compute[r] = "none" /\ seen[r] = None
    BY <2>1, FreeToStart
  <2>3. /\ seen' = seen /\ request'[r].at # "get"
        /\ \A x \in Request \ {r} : request'[x] = request[x] /\ store'[x] = store[x]
                                    /\ compute'[x] = compute[x]
    BY <1>0, <1>1 DEF AnswerHit, Miss, StartStore, AcquireSlot, NoRequest
  <2>4. compute'[r] # "none" => store'[r].at = "compute" /\ store'[r].of = r
    BY <1>0, <1>1, <2>2 DEF AnswerHit, Miss, StartStore, AcquireSlot
  <2>. QED  BY <1>0, <2>2, <2>3, <2>4 DEF Computing, Asking, Reading
<1>2. ASSUME NEW s \in Request, compute[s] = "running", EndCompute(s)
      PROVE  /\ compute'[s] = "none" /\ seen'[s] = None
             /\ \A x \in Request : compute'[x] # "none" => compute[x] # "none" /\ x # s
             /\ \A x \in Request \ {s} : seen'[x] = seen[x]
             /\ \A x \in Request \ {s} : compute[x] = "running" => compute'[x] = "running"
  <2>1. seen' = [seen EXCEPT ![s] = None]
    BY <1>2 DEF EndCompute
  <2>2. CASE queue = <<>>
    BY <1>0, <1>2, <2>1, <2>2 DEF EndCompute, ReleaseSlot
  <2>3. CASE queue # <<>>
    <3>1. Head(queue) \in Request /\ compute[Head(queue)] = "queued"
      BY <1>0, <2>3 DEF QueueExact
    <3>. QED  BY <1>0, <1>2, <2>1, <2>3, <3>1 DEF EndCompute, ReleaseSlot
  <2>. QED  BY <2>2, <2>3
<1>3. ASSUME NEW s \in Request, ComputeDone(s) \/ ComputeFails(s)
      PROVE  (Computing /\ Asking /\ Reading)'
  <2>1. compute[s] = "running" /\ EndCompute(s)
    BY <1>3 DEF ComputeDone, ComputeFails
  <2>2. \A x \in Request : x \notin Joined(s) => store'[x] = store[x]
    BY <1>0, <1>3 DEF ComputeDone, ComputeFails
  <2>3. \A x \in Request : request'[x].at = "get" => request'[x] = request[x]
    BY <1>0, <1>3 DEF ComputeDone, ComputeFails, NoRequest
  <2>4. \A x \in Joined(s) : store[x].at = "compute" /\ store[x].of = s
    BY DEF Joined
  <2>5. Computing'
    BY <1>0, <1>2, <2>1, <2>2, <2>4 DEF Computing
  <2>6. Asking'
    BY <1>0, <2>2, <2>3, <2>4 DEF Asking, NoStore
  <2>7. Reading'
    BY <1>0, <1>2, <2>1 DEF Reading
  <2>. QED  BY <2>5, <2>6, <2>7
<1>4. ASSUME NEW r \in Request, NEW k \in Key, NEW m \in Mode, Get(r, k, m)
      PROVE  (Computing /\ Asking /\ Reading)'
  BY <1>0, <1>4 DEF Get, Computing, Asking, Reading
<1>5. ASSUME NEW r \in Request, ColdWaitEnds(r) PROVE (Computing /\ Asking /\ Reading)'
  BY <1>0, <1>5 DEF ColdWaitEnds, Computing, Asking, Reading, NoRequest
<1>6. ASSUME NEW s \in Request, ReadData(s) PROVE (Computing /\ Asking /\ Reading)'
  BY <1>0, <1>6 DEF ReadData, Computing, Asking, Reading
<1>7. ASSUME NEW r \in Request, SetReturns(r) PROVE (Computing /\ Asking /\ Reading)'
  <2>1. compute[r] = "none"
    BY <1>0, <1>7 DEF SetReturns, Computing
  <2>2. /\ UNCHANGED <<compute, seen>> /\ store'[r] = NoStore
        /\ \A x \in Request \ {r} : store'[x] = store[x] /\ request'[x] = request[x]
    BY <1>0, <1>7 DEF SetReturns
  <2>. QED  BY <1>0, <2>1, <2>2 DEF Computing, Asking, Reading
<1>8. ASSUME NEW k \in Key, Change(k) \/ Invalidate(k) \/ Evict(k)
      PROVE  (Computing /\ Asking /\ Reading)'
  BY <1>0, <1>8 DEF Change, Invalidate, Evict, cacheVars, Computing, Asking, Reading
<1>9. CASE Restart
  BY <1>0, <1>9 DEF Restart, Computing, Asking, Reading, NoRequest
<1>10. CASE UNCHANGED vars
  BY <1>0, <1>10 DEF vars, cacheVars, Computing, Asking, Reading
<1>. QED  BY <1>1, <1>3, <1>4, <1>5, <1>6, <1>7, <1>8, <1>9, <1>10 DEF Next

LEMMA BaseNext == Base /\ [Next]_vars => Base'
BY EverySlotStep, SlotTypes, SlotCount, RestTypes, OrderKept DEF Base, TypeOK, RestTyped

LEMMA BaseHolds == Spec => []Base
BY BaseInit, BaseNext, PTL DEF Spec

(* Every variable keeps its type. *)
THEOREM CacheTypeCorrect == Spec => []TypeOK
BY BaseHolds, PTL DEF Base

(* The slot counter and the queue of resolvers are exact: no slot leaks, no *)
(* computation is forgotten, whatever fails and whenever the API restarts.  *)
THEOREM ThrottleExact == Spec => []SlotsExact
<1>1. Base => SlotsExact
  BY DEF Base, SlotsExact
<1>. QED  BY <1>1, BaseHolds, PTL

(* ComputeSlots counts with a Cardinality of its own. *)
LEMMA SameCardinality == Slots!Cardinality(Running) = Cardinality(Running)
BY DEF Slots!Cardinality, Slots!IsFiniteSet, Cardinality, IsFiniteSet

(* The throttle of cache-helper.ts is a fair semaphore: every step of the   *)
(* cache is a step of ComputeSlots or leaves it alone.                      *)
THEOREM ThrottleImplementsSlots == Spec => ImplementsSlots
<1>1. Init => Slots!Init
  BY DEF Init, Slots!Init, Running
<1>2. Base /\ [Next]_vars => [Slots!Next]_Slots!vars
  <2> SUFFICES ASSUME Base, [Next]_vars PROVE [Slots!Next]_Slots!vars
    OBVIOUS
  <2>0. /\ active = Cardinality(Running) /\ active <= MaxConcurrent /\ active \in Nat
        /\ compute \in [Request -> {"none", "queued", "running"}] /\ queue \in Seq(Request)
        /\ QueueExact /\ MaxConcurrent \in Nat
    BY SlotsAssumption DEF Base, TypeOK, SlotsCounted
  <2>1. ASSUME NEW r \in Request, compute[r] = "none", AcquireSlot(r) PROVE Slots!Acquire(r)
    <3>1. CASE active < MaxConcurrent
      <4>1. Running' = Running \cup {r} /\ r \notin Running /\ queue' = queue
        BY <2>0, <2>1, <3>1 DEF AcquireSlot, Running
      <4>. QED  BY <2>0, <3>1, <4>1, SameCardinality DEF Slots!Acquire
    <3>2. CASE ~(active < MaxConcurrent)
      <4>1. Running' = Running /\ r \notin Running /\ queue' = Append(queue, r)
        BY <2>0, <2>1, <3>2 DEF AcquireSlot, Running
      <4>2. Cardinality(Running) = MaxConcurrent
        BY <2>0, <3>2
      <4>. QED  BY <4>1, <4>2, SameCardinality DEF Slots!Acquire
    <3>. QED  BY <3>1, <3>2
  <2>2. ASSUME NEW s \in Request, compute[s] = "running", ReleaseSlot(s) PROVE Slots!Release(s)
    <3>0. s \in Running
      BY <2>2 DEF Running
    <3>1. CASE queue = <<>>
      <4>1. Running' = Running \ {s} /\ queue' = queue
        BY <2>0, <2>2, <3>1 DEF ReleaseSlot, Running
      <4>. QED  BY <3>0, <3>1, <4>1 DEF Slots!Release
    <3>2. CASE queue # <<>>
      <4>1. Head(queue) \in Request /\ compute[Head(queue)] = "queued"
        BY <2>0, <3>2 DEF QueueExact
      <4>2. Running' = (Running \ {s}) \cup {Head(queue)} /\ queue' = Tail(queue)
        BY <2>0, <2>2, <3>2, <4>1 DEF ReleaseSlot, Running
      <4>. QED  BY <3>0, <3>2, <4>2 DEF Slots!Release
    <3>. QED  BY <3>1, <3>2
  <2>3. CASE Forgets
    BY <2>3 DEF Forgets, Running, Slots!Next, Slots!Forget
  <2>4. CASE UNCHANGED <<active, queue, compute>>
    BY <2>4 DEF Running, Slots!vars
  <2>5. SlotStep
    BY EverySlotStep
  <2>. QED  BY <2>1, <2>2, <2>3, <2>4, <2>5 DEF SlotStep, Acquires, Releases, Slots!Next
<1>. QED  BY <1>1, <1>2, BaseHolds, PTL DEF Spec, ImplementsSlots, Slots!Spec
-----------------------------------------------------------------------------
(* How a step changes what a computation has read. *)
LEMMA SeenStep ==
  ASSUME Base, [Next]_vars, NEW s \in Request, seen'[s] # None
  PROVE  /\ compute[s] = "running" /\ store'[s] = store[s] /\ store[s].key \in Key
         /\ \/ seen'[s] = seen[s]
            \/ seen'[s] = data[store[s].key] /\ UNCHANGED <<data, quiet, cut>>
<1>0. /\ Computing /\ Asking /\ Reading /\ seen \in [Request -> Version \cup {None}]
      /\ store \in [Request -> Stores] /\ request \in [Request -> Requests]
  BY DEF Base, TypeOK
<1>1. ASSUME seen'[s] = seen[s], store'[s] = store[s]
      PROVE  compute[s] = "running" /\ store[s].key \in Key
  BY <1>0, <1>1, ComputingKey DEF Reading
<1>2. ASSUME NEW r \in Request, AnswerHit(r) \/ Miss(r)
      PROVE  seen'[s] = seen[s] /\ store'[s] = store[s]
  <2>1. r # s
    BY <1>2, FreeToStart DEF AnswerHit, Miss
  <2>. QED  BY <1>0, <1>2, <2>1 DEF AnswerHit, Miss, StartStore
<1>3. ASSUME NEW r \in Request, ComputeDone(r) \/ ComputeFails(r)
      PROVE  seen'[s] = seen[s] /\ store'[s] = store[s]
  <2>1. seen' = [seen EXCEPT ![r] = None]
    BY <1>3 DEF ComputeDone, ComputeFails, EndCompute
  <2>2. s # r /\ seen'[s] = seen[s]
    BY <1>0, <2>1
  <2>3. s \notin Joined(r)
    BY <1>0, <2>2 DEF Joined, Reading, Computing
  <2>. QED  BY <1>0, <1>3, <2>2, <2>3 DEF ComputeDone, ComputeFails
<1>4. ASSUME NEW r \in Request,
             ColdWaitEnds(r) \/ \E k \in Key, m \in Mode : Get(r, k, m)
      PROVE  seen'[s] = seen[s] /\ store'[s] = store[s]
  BY <1>4 DEF ColdWaitEnds, Get
<1>5. ASSUME NEW r \in Request, SetReturns(r) PROVE seen'[s] = seen[s] /\ store'[s] = store[s]
  <2>1. r # s
    BY <1>0, <1>5 DEF SetReturns, Computing, Reading
  <2>. QED  BY <1>0, <1>5, <2>1 DEF SetReturns
<1>6. ASSUME NEW r \in Request, ReadData(r), r = s
      PROVE  /\ compute[s] = "running" /\ store'[s] = store[s] /\ store[s].key \in Key
             /\ seen'[s] = data[store[s].key] /\ UNCHANGED <<data, quiet, cut>>
  BY <1>0, <1>6, ComputingKey DEF ReadData
<1>7. ASSUME NEW r \in Request, ReadData(r), r # s
      PROVE  seen'[s] = seen[s] /\ store'[s] = store[s]
  BY <1>0, <1>7 DEF ReadData
<1>8. ASSUME NEW k \in Key, Change(k) \/ Invalidate(k) \/ Evict(k)
      PROVE  seen'[s] = seen[s] /\ store'[s] = store[s]
  BY <1>8 DEF Change, Invalidate, Evict, cacheVars
<1>9. ~Restart
  BY DEF Restart
<1>10. CASE UNCHANGED vars
  BY <1>1, <1>10 DEF vars, cacheVars
<1>. QED  BY <1>1, <1>2, <1>3, <1>4, <1>5, <1>6, <1>7, <1>8, <1>9, <1>10 DEF Next

(* How a step changes the data, the entries and the two histories. *)
LEMMA EntryStep ==
  ASSUME Base, [Next]_vars, NEW k \in Key
  PROVE  /\ data'[k] = data[k] \/ data'[k] = data[k] + 1
         /\ cut'[k] = cut[k] \/ (cut'[k] = data[k] /\ data' = data)
         /\ \/ quiet'[k] = quiet[k]
            \/ /\ quiet'[k] = data[k] /\ data' = data /\ entry'[k] = None
               /\ \A s \in Running : store[s].key = k => seen[s] = None
         /\ \/ entry'[k] \in {entry[k], None}
            \/ /\ quiet' = quiet
               /\ \E s \in Request : seen[s] # None /\ store[s].key = k /\ entry'[k] = seen[s]
<1>0. TypeOK
  BY DEF Base
<1>1. ASSUME NEW s \in Request, ComputeDone(s)
      PROVE  /\ UNCHANGED <<data, cut, quiet>>
             /\ \/ entry'[k] = entry[k]
                \/ seen[s] # None /\ store[s].key = k /\ entry'[k] = seen[s]
  BY <1>0, <1>1 DEF ComputeDone, TypeOK
<1>2. ASSUME NEW r \in Request,
             \/ AnswerHit(r) \/ Miss(r) \/ ColdWaitEnds(r) \/ ReadData(r) \/ ComputeFails(r)
             \/ SetReturns(r) \/ \E x \in Key, m \in Mode : Get(r, x, m)
      PROVE  UNCHANGED <<data, cut, quiet, entry>>
  BY <1>2 DEF AnswerHit, Miss, ColdWaitEnds, ReadData, ComputeFails, SetReturns, Get
<1>3. ASSUME NEW x \in Key, Change(x)
      PROVE  (data'[k] = data[k] \/ data'[k] = data[k] + 1) /\ UNCHANGED <<cut, quiet, entry>>
  BY <1>0, <1>3 DEF Change, cacheVars, TypeOK
<1>4. ASSUME NEW x \in Key, Evict(x)
      PROVE  UNCHANGED <<data, cut, quiet>> /\ entry'[k] \in {entry[k], None}
  BY <1>0, <1>4 DEF Evict, TypeOK
<1>5. ASSUME NEW x \in Key, Invalidate(x), x # k
      PROVE  data' = data /\ cut'[k] = cut[k] /\ quiet'[k] = quiet[k] /\ entry'[k] = entry[k]
  BY <1>0, <1>5 DEF Invalidate, TypeOK
<1>6. CASE Invalidate(k)
  <2>1. data' = data /\ cut'[k] = data[k]
    BY <1>0, <1>6 DEF Invalidate, TypeOK
  <2>2. CASE entry' = entry /\ quiet' = quiet
    BY <2>1, <2>2
  <2>3. CASE /\ entry' = [entry EXCEPT ![k] = None]
             /\ quiet' = IF \E s \in Running : store[s].key = k /\ seen[s] # None
                         THEN quiet ELSE [quiet EXCEPT ![k] = data[k]]
    <3>1. entry'[k] = None
      BY <1>0, <2>3 DEF TypeOK
    <3>. QED  BY <1>0, <2>1, <2>3, <3>1 DEF TypeOK
  <2>. QED  BY <1>6, <2>2, <2>3 DEF Invalidate
<1>7. CASE Restart
  BY <1>7 DEF Restart
<1>8. CASE UNCHANGED vars
  BY <1>8 DEF vars, cacheVars
<1>. QED  BY <1>1, <1>2, <1>3, <1>4, <1>5, <1>6, <1>7, <1>8 DEF Next

(* What was read was read no earlier than the history says, and the history *)
(* is no newer than the data.                                               *)
HistoryBehind == \A k \in Key : quiet[k] <= data[k] /\ cut[k] <= data[k]
ReadSinceQuiet == \A s \in Request : seen[s] # None => seen[s] >= quiet[store[s].key]
Fresh == HistoryBehind /\ ReadSinceQuiet /\ NoOldEntry

LEMMA FreshNext == Base /\ Fresh /\ [Next]_vars => Fresh'
<1> SUFFICES ASSUME Base, Fresh, [Next]_vars PROVE Fresh'
  OBVIOUS
<1>0. /\ data \in [Key -> Nat] /\ quiet \in [Key -> Nat] /\ cut \in [Key -> Nat]
      /\ entry \in [Key -> Nat \cup {None}] /\ seen \in [Request -> Nat \cup {None}]
  BY DEF Base, TypeOK, Version
<1>1. HistoryBehind'
  <2> SUFFICES ASSUME NEW k \in Key PROVE quiet'[k] <= data'[k] /\ cut'[k] <= data'[k]
    BY DEF HistoryBehind
  <2>1. quiet[k] <= data[k] /\ cut[k] <= data[k]
    BY DEF Fresh, HistoryBehind
  <2>. QED  BY <1>0, <2>1, EntryStep
<1>2. ReadSinceQuiet'
  <2> SUFFICES ASSUME NEW s \in Request, seen'[s] # None
               PROVE  seen'[s] >= quiet'[store'[s].key]
    BY DEF ReadSinceQuiet
  <2> DEFINE k == store[s].key
  <2>1. compute[s] = "running" /\ store'[s] = store[s] /\ k \in Key
    BY SeenStep
  <2>2. CASE seen'[s] = seen[s]
    <3>1. seen[s] >= quiet[k]
      BY <2>2 DEF Fresh, ReadSinceQuiet
    <3>2. quiet'[k] = quiet[k]
      BY <2>1, <2>2, EntryStep DEF Running
    <3>. QED  BY <2>1, <2>2, <3>1, <3>2
  <2>3. CASE seen'[s] = data[k] /\ UNCHANGED <<data, quiet, cut>>
    <3>1. quiet[k] <= data[k]
      BY <2>1 DEF Fresh, HistoryBehind
    <3>. QED  BY <1>0, <2>1, <2>3, <3>1
  <2>. QED  BY <2>2, <2>3, SeenStep
<1>3. NoOldEntry'
  <2> SUFFICES ASSUME NEW k \in Key, entry'[k] # None PROVE entry'[k] >= quiet'[k]
    BY DEF NoOldEntry
  <2>1. CASE entry'[k] = entry[k]
    <3>1. entry[k] >= quiet[k]
      BY <2>1 DEF Fresh, NoOldEntry
    <3>2. quiet'[k] = quiet[k]
      BY EntryStep
    <3>. QED  BY <2>1, <3>1, <3>2
  <2>2. CASE quiet' = quiet
             /\ \E s \in Request : seen[s] # None /\ store[s].key = k /\ entry'[k] = seen[s]
    BY <2>2 DEF Fresh, ReadSinceQuiet
  <2>. QED  BY <2>1, <2>2, EntryStep
<1>. QED  BY <1>1, <1>2, <1>3 DEF Fresh

(* What was invalidated stays out of Redis, unless a computation had read   *)
(* the data before: neither shared computations, nor background refreshes,  *)
(* nor a restart put an older value there.                                  *)
THEOREM InvalidatedStaysOut == Spec => []NoOldEntry
<1>1. Init => Fresh
  BY DEF Init, Fresh, HistoryBehind, ReadSinceQuiet, NoOldEntry
<1>2. Base /\ Fresh /\ [Next]_vars => Fresh'
  BY FreshNext
<1>3. Spec => []Fresh
  BY <1>1, <1>2, BaseHolds, PTL DEF Spec
<1>. QED  BY <1>3, PTL DEF Fresh
-----------------------------------------------------------------------------
(* A store() waits for a computation that is under way, of its own key; so  *)
(* is the one a new request would join, and that one has not read the data  *)
(* before the last invalidation.                                            *)
JoinsPending ==
  \A r \in Request : store[r].at = "compute" =>
    compute[store[r].of] # "none" /\ store[store[r].of].key = store[r].key
FlightPending ==
  \A k \in Key : inFlight[k] # None =>
    /\ compute[inFlight[k]] # "none" /\ store[inFlight[k]].key = k
    /\ seen[inFlight[k]] # None => seen[inFlight[k]] >= cut[k]

(* A request knows of no later invalidation than there has been, and what   *)
(* it waits for is not older than the one it knows of.                      *)
SinceCut == \A r \in Request : request[r] # NoRequest => request[r].since <= cut[request[r].key]
WaitsForNew ==
  \A r \in Request : request[r].at = "wait" =>
    \/ /\ store[r].at = "compute" /\ store[r].key = request[r].key
       /\ seen[store[r].of] # None => seen[store[r].of] >= request[r].since
    \/ store[r].at = "set" /\ store[r].version >= request[r].since

Served == JoinsPending /\ FlightPending /\ SinceCut /\ WaitsForNew

LEMMA ServedTypes ==
  ASSUME Base
  PROVE  /\ Computing /\ Asking /\ Reading /\ QueueExact
         /\ cut \in [Key -> Nat] /\ data \in [Key -> Nat] /\ queue \in Seq(Request)
         /\ seen \in [Request -> Nat \cup {None}]
         /\ compute \in [Request -> {"none", "queued", "running"}]
         /\ inFlight \in [Key -> Request \cup {None}]
         /\ store \in [Request -> Stores] /\ request \in [Request -> Requests]
BY DEF Base, TypeOK, Version

(* The shapes of a call and of a store. *)
LEMMA RequestShape ==
  ASSUME Base, NEW r \in Request
  PROVE  /\ request[r] # NoRequest <=> request[r].at \in {"get", "wait"}
         /\ request[r] # NoRequest => request[r].key \in Key /\ request[r].since \in Nat
         /\ store[r].at \in {"none", "compute", "set"}
         /\ store[r].at # "none" => store[r].key \in Key
         /\ store[r].at = "compute" => store[r].of \in Request
         /\ store[r].at = "set" => store[r].version \in Nat
BY ServedTypes DEF Requests, Stores, NoRequest, NoStore, Version

(* A request comes back from Redis and begins a store() for its key. *)
LEMMA ServedStart ==
  ASSUME Base, Fresh, Served, NEW r \in Request, AnswerHit(r) \/ Miss(r)
  PROVE  Served'
<1>0. /\ request[r].at = "get" /\ store[r] = NoStore /\ compute[r] = "none" /\ seen[r] = None
      /\ UNCHANGED <<data, seen, cut>>
      /\ JoinsPending /\ FlightPending /\ SinceCut /\ WaitsForNew
  BY FreeToStart DEF AnswerHit, Miss, Served
<1> DEFINE k == request[r].key
<1>1. k \in Key /\ request[r].since <= cut[k] /\ request[r].since \in Nat /\ cut[k] \in Nat
  BY <1>0, RequestShape, ServedTypes DEF SinceCut
<1>2. /\ \A x \in Request \ {r} : request'[x] = request[x] /\ store'[x] = store[x]
                                  /\ compute'[x] = compute[x]
      /\ compute'[r] \in {"none", "queued", "running"}
      /\ \/ UNCHANGED <<store, inFlight, compute>> \/ StartStore(r, k)
  BY <1>0, ServedTypes DEF AnswerHit, Miss, StartStore, AcquireSlot
<1>3. \/ request'[r] = NoRequest
      \/ /\ request'[r].at = "wait" /\ request'[r].key = k
         /\ request'[r].since = request[r].since /\ StartStore(r, k)
  BY <1>0, ServedTypes DEF AnswerHit, Miss
<1>4. \A x \in Request : store[x].at = "compute" => store[x].of # r /\ store[x].of \in Request
  BY <1>0, RequestShape DEF JoinsPending
<1>5. \A x \in Key : inFlight[x] # None => inFlight[x] # r /\ inFlight[x] \in Request
  BY <1>0, ServedTypes DEF FlightPending
<1>6. CASE request'[r] = NoRequest /\ UNCHANGED <<store, inFlight, compute>>
  <2>1. JoinsPending' /\ FlightPending'
    BY <1>0, <1>6 DEF JoinsPending, FlightPending
  <2>2. SinceCut'
    BY <1>0, <1>2, <1>6 DEF SinceCut
  <2>3. WaitsForNew'
    BY <1>0, <1>2, <1>6 DEF WaitsForNew, NoRequest
  <2>. QED  BY <2>1, <2>2, <2>3 DEF Served
<1>7. CASE StartStore(r, k)
  <2> DEFINE s == store'[r].of
  <2>1. /\ store'[r].at = "compute" /\ store'[r].key = k /\ s \in Request
        /\ compute'[s] # "none" /\ store'[s].key = k /\ inFlight'[k] = s
        /\ seen'[s] # None => seen'[s] >= cut[k]
    <3>1. CASE inFlight[k] # None
      <4>1. /\ store'[r] = [at |-> "compute", key |-> k, of |-> inFlight[k]]
            /\ UNCHANGED <<inFlight, compute>>
        BY <1>7, <3>1, ServedTypes DEF StartStore
      <4>2. /\ inFlight[k] \in Request \ {r} /\ compute[inFlight[k]] # "none"
            /\ store[inFlight[k]].key = k
            /\ seen[inFlight[k]] # None => seen[inFlight[k]] >= cut[k]
        BY <1>0, <1>1, <1>5, <3>1 DEF FlightPending
      <4>. QED  BY <1>0, <1>2, <4>1, <4>2
    <3>2. CASE inFlight[k] = None
      <4>1. /\ store'[r] = [at |-> "compute", key |-> k, of |-> r] /\ inFlight'[k] = r
            /\ compute'[r] # "none"
        BY <1>1, <1>7, <3>2, ServedTypes DEF StartStore, AcquireSlot
      <4>. QED  BY <1>0, <4>1
    <3>. QED  BY <3>1, <3>2
  <2>2. \A x \in Key \ {k} : inFlight'[x] = inFlight[x]
    BY <1>7, ServedTypes DEF StartStore
  <2>3. JoinsPending'
    BY <1>0, <1>2, <1>4, <2>1 DEF JoinsPending
  <2>4. FlightPending'
    BY <1>0, <1>1, <1>2, <1>5, <2>1, <2>2 DEF FlightPending
  <2>5. SinceCut'
    BY <1>0, <1>1, <1>2, <1>3 DEF SinceCut
  <2>6. seen'[s] # None => seen'[s] >= request[r].since
    BY <1>0, <1>1, <2>1, ServedTypes
  <2>7. WaitsForNew'
    BY <1>0, <1>2, <1>3, <2>1, <2>6 DEF WaitsForNew, NoRequest
  <2>. QED  BY <2>3, <2>4, <2>5, <2>7 DEF Served
<1>. QED  BY <1>2, <1>3, <1>6, <1>7

(* What the end of a computation leaves behind. *)
LEMMA AfterEnd ==
  ASSUME Base, NEW s \in Request, compute[s] = "running", EndCompute(s)
  PROVE  /\ \A x \in Request : x # s /\ compute[x] # "none" => compute'[x] # "none"
         /\ \A x \in Request \ {s} : seen'[x] = seen[x]
         /\ \A k \in Key : inFlight'[k] # None => inFlight'[k] = inFlight[k] /\ k # store[s].key
<1>0. store[s].key \in Key
  BY ComputingKey
<1>1. CASE queue = <<>>
  BY <1>0, <1>1, ServedTypes DEF EndCompute, ReleaseSlot
<1>2. CASE queue # <<>>
  <2>1. Head(queue) \in Request
    BY <1>2, ServedTypes
  <2>. QED  BY <1>0, <1>2, <2>1, ServedTypes DEF EndCompute, ReleaseSlot
<1>. QED  BY <1>1, <1>2

LEMMA ServedEnd ==
  ASSUME Base, Fresh, Served, NEW s \in Request, ComputeDone(s) \/ ComputeFails(s)
  PROVE  Served'
<1>0. /\ compute[s] = "running" /\ EndCompute(s) /\ UNCHANGED <<data, cut>>
      /\ JoinsPending /\ FlightPending /\ SinceCut /\ WaitsForNew
  BY DEF ComputeDone, ComputeFails, Served
<1>1. /\ \A x \in Request \ Joined(s) : store'[x] = store[x] /\ request'[x] = request[x]
      /\ \A x \in Request : request'[x] \in {request[x], NoRequest}
      /\ \A x \in Joined(s) : store'[x].at # "compute"
  <2>0. \A x \in Joined(s) : x \in Request
    BY DEF Joined
  <2>1. CASE ComputeDone(s)
    BY <2>0, <2>1 DEF ComputeDone
  <2>2. CASE ComputeFails(s)
    BY <2>0, <2>2 DEF ComputeFails, NoStore
  <2>. QED  BY <2>1, <2>2
<1>2. /\ store[s].at = "compute" /\ store[s].of = s /\ store[s].key \in Key
      /\ \A x \in Request : x # s /\ compute[x] # "none" => x \notin Joined(s)
  BY <1>0, ComputingKey DEF Joined
<1>3. \A x \in Request \ Joined(s) : store[x].at = "compute" =>
        /\ store[x].of \in Request \ {s} /\ compute[store[x].of] # "none"
        /\ store[x].of \notin Joined(s)
  BY <1>0, <1>2, RequestShape DEF Joined, JoinsPending
<1>4. JoinsPending'
  BY <1>0, <1>1, <1>3, AfterEnd DEF JoinsPending
<1>5. \A k \in Key : inFlight'[k] # None =>
        inFlight'[k] = inFlight[k] /\ inFlight[k] \in Request \ {s} /\ compute[inFlight[k]] # "none"
  <2> SUFFICES ASSUME NEW k \in Key, inFlight'[k] # None
               PROVE  /\ inFlight'[k] = inFlight[k] /\ inFlight[k] \in Request \ {s}
                      /\ compute[inFlight[k]] # "none"
    OBVIOUS
  <2>1. inFlight'[k] = inFlight[k] /\ k # store[s].key
    BY <1>0, AfterEnd
  <2>2. inFlight[k] # None /\ inFlight[k] \in Request
    BY <2>1, ServedTypes
  <2>3. compute[inFlight[k]] # "none" /\ store[inFlight[k]].key = k
    BY <1>0, <2>2 DEF FlightPending
  <2>. QED  BY <2>1, <2>2, <2>3
<1>6. FlightPending'
  BY <1>0, <1>1, <1>2, <1>5, AfterEnd DEF FlightPending
<1>7. SinceCut'
  BY <1>0, <1>1 DEF SinceCut
<1>8. WaitsForNew'
  <2> SUFFICES ASSUME NEW x \in Request, request'[x].at = "wait"
               PROVE  \/ /\ store'[x].at = "compute" /\ store'[x].key = request'[x].key
                         /\ seen'[store'[x].of] # None =>
                              seen'[store'[x].of] >= request'[x].since
                      \/ store'[x].at = "set" /\ store'[x].version >= request'[x].since
    BY DEF WaitsForNew
  <2>1. request'[x] = request[x]
    BY <1>1 DEF NoRequest
  <2>2. CASE x \in Joined(s)
    <3>1. ~ComputeFails(s)
      BY <2>1, <2>2, ServedTypes DEF ComputeFails, NoRequest
    <3>2. seen[s] # None /\ store'[x].at = "set" /\ store'[x].version = seen[s]
      BY <2>2, <3>1 DEF ComputeDone
    <3>3. seen[s] >= request[x].since
      BY <1>0, <2>1, <2>2, <3>2 DEF WaitsForNew, Joined
    <3>. QED  BY <2>1, <3>2, <3>3
  <2>3. CASE x \notin Joined(s)
    BY <1>0, <1>1, <1>3, <2>1, <2>3, AfterEnd DEF WaitsForNew
  <2>. QED  BY <2>2, <2>3
<1>. QED  BY <1>4, <1>6, <1>7, <1>8 DEF Served
LEMMA ServedNext == Base /\ Fresh /\ Served /\ [Next]_vars => Served'
<1> SUFFICES ASSUME Base, Fresh, Served, [Next]_vars PROVE Served'
  OBVIOUS
<1>0. /\ JoinsPending /\ FlightPending /\ SinceCut /\ WaitsForNew
      /\ \A k \in Key : cut[k] <= data[k]
  BY DEF Served, Fresh, HistoryBehind
<1>1. ASSUME NEW r \in Request, AnswerHit(r) \/ Miss(r) PROVE Served'
  BY <1>1, ServedStart
<1>2. ASSUME NEW s \in Request, ComputeDone(s) \/ ComputeFails(s) PROVE Served'
  BY <1>2, ServedEnd
<1>3. ASSUME NEW r \in Request, NEW k \in Key, NEW m \in Mode, Get(r, k, m) PROVE Served'
  <2>1. /\ UNCHANGED <<inFlight, compute, seen, store, cut>>
        /\ request'[r].at = "get" /\ request'[r].key = k /\ request'[r].since = cut[k]
        /\ \A x \in Request \ {r} : request'[x] = request[x]
    <3>1. PICK hit \in {entry[k] # None, FALSE} : request' = [request EXCEPT ![r] =
             [at |-> "get", key |-> k, mode |-> m, hit |-> hit, since |-> cut[k]]]
      BY <1>3 DEF Get
    <3>2. UNCHANGED <<inFlight, compute, seen, store, cut>>
      BY <1>3 DEF Get
    <3>. QED  BY <3>1, <3>2, ServedTypes
  <2>2. JoinsPending' /\ FlightPending'
    BY <1>0, <2>1 DEF JoinsPending, FlightPending
  <2>3. SinceCut'
    <3>1. cut[k] <= cut[k]
      BY ServedTypes
    <3>. QED  BY <1>0, <2>1, <3>1 DEF SinceCut
  <2>4. WaitsForNew'
    BY <1>0, <2>1 DEF WaitsForNew
  <2>. QED  BY <2>2, <2>3, <2>4 DEF Served
<1>4. ASSUME NEW r \in Request, ColdWaitEnds(r) PROVE Served'
  <2>1. /\ UNCHANGED <<inFlight, compute, seen, store, cut>>
        /\ \A x \in Request : request'[x] \in {request[x], NoRequest}
    BY <1>4, ServedTypes DEF ColdWaitEnds
  <2>2. JoinsPending' /\ FlightPending'
    BY <1>0, <2>1 DEF JoinsPending, FlightPending
  <2>3. SinceCut' /\ WaitsForNew'
    BY <1>0, <2>1 DEF SinceCut, WaitsForNew, NoRequest
  <2>. QED  BY <2>2, <2>3 DEF Served
<1>5. ASSUME NEW s \in Request, ReadData(s) PROVE Served'
  <2>1. /\ UNCHANGED <<inFlight, compute, request, store, cut>>
        /\ seen'[s] = data[store[s].key] /\ store[s].key \in Key
        /\ \A x \in Request \ {s} : seen'[x] = seen[x]
    BY <1>5, ServedTypes, ComputingKey DEF ReadData
  <2>2. JoinsPending'
    BY <1>0, <2>1 DEF JoinsPending
  <2>3. FlightPending'
    <3> SUFFICES ASSUME NEW k \in Key, inFlight[k] # None, seen'[inFlight[k]] # None
                 PROVE  seen'[inFlight[k]] >= cut[k]
      BY <1>0, <2>1 DEF FlightPending
    <3>1. inFlight[k] \in Request /\ store[inFlight[k]].key = k
      BY <1>0, ServedTypes DEF FlightPending
    <3>2. CASE inFlight[k] = s
      BY <1>0, <2>1, <3>1, <3>2, ServedTypes
    <3>3. CASE inFlight[k] # s
      BY <1>0, <2>1, <3>1, <3>3 DEF FlightPending
    <3>. QED  BY <3>2, <3>3
  <2>4. SinceCut'
    BY <1>0, <2>1 DEF SinceCut
  <2>5. WaitsForNew'
    <3> SUFFICES ASSUME NEW x \in Request, request[x].at = "wait", store[x].at = "compute",
                        store[x].key = request[x].key, seen'[store[x].of] # None
                 PROVE  seen'[store[x].of] >= request[x].since
      BY <1>0, <2>1 DEF WaitsForNew
    <3>1. /\ store[x].of \in Request /\ store[store[x].of].key = request[x].key
          /\ request[x].key \in Key /\ request[x].since \in Nat
          /\ request[x].since <= cut[request[x].key]
      BY <1>0, RequestShape DEF JoinsPending, SinceCut
    <3>2. CASE store[x].of = s
      BY <1>0, <2>1, <3>1, <3>2, ServedTypes
    <3>3. CASE store[x].of # s
      <4>1. seen'[store[x].of] = seen[store[x].of]
        BY <2>1, <3>1, <3>3
      <4>. QED  BY <1>0, <4>1 DEF WaitsForNew
    <3>. QED  BY <3>2, <3>3
  <2>. QED  BY <2>2, <2>3, <2>4, <2>5 DEF Served
<1>6. ASSUME NEW r \in Request, SetReturns(r) PROVE Served'
  <2>1. /\ UNCHANGED <<inFlight, compute, seen, cut>> /\ store[r].at = "set"
        /\ store'[r].at = "none" /\ request'[r].at # "wait"
        /\ \A x \in Request : request'[x] \in {request[x], NoRequest}
        /\ \A x \in Request \ {r} : store'[x] = store[x]
    BY <1>6, ServedTypes DEF SetReturns, NoStore, NoRequest
  <2>2. compute[r] = "none"
    BY <2>1, ComputingKey
  <2>3. JoinsPending' /\ FlightPending'
    <3>1. ASSUME NEW x \in Request, store'[x].at = "compute"
          PROVE  /\ compute'[store'[x].of] # "none"
                 /\ store'[store'[x].of].key = store'[x].key
      <4>1. store'[x] = store[x]
        BY <2>1, <3>1
      <4>2. /\ store[x].of \in Request /\ compute[store[x].of] # "none"
            /\ store[store[x].of].key = store[x].key
        BY <1>0, <3>1, <4>1, RequestShape DEF JoinsPending
      <4>3. store'[store[x].of] = store[store[x].of]
        BY <2>1, <2>2, <4>2
      <4>. QED  BY <2>1, <4>1, <4>2, <4>3
    <3>2. ASSUME NEW k \in Key, inFlight[k] # None PROVE store'[inFlight[k]] = store[inFlight[k]]
      <4>1. inFlight[k] \in Request /\ compute[inFlight[k]] # "none"
        BY <1>0, <3>2, ServedTypes DEF FlightPending
      <4>. QED  BY <2>1, <2>2, <4>1
    <3>3. JoinsPending'
      BY <3>1 DEF JoinsPending
    <3>4. FlightPending'
      BY <1>0, <2>1, <3>2 DEF FlightPending
    <3>. QED  BY <3>3, <3>4
  <2>4. SinceCut'
    BY <1>0, <2>1 DEF SinceCut
  <2>5. WaitsForNew'
    <3> SUFFICES ASSUME NEW x \in Request, request'[x].at = "wait"
                 PROVE  request'[x] = request[x] /\ store'[x] = store[x]
      BY <1>0, <2>1 DEF WaitsForNew
    <3>. QED  BY <2>1 DEF NoRequest
  <2>. QED  BY <2>3, <2>4, <2>5 DEF Served
<1>7. ASSUME NEW k \in Key, Change(k) \/ Evict(k) PROVE Served'
  <2>1. UNCHANGED <<inFlight, compute, seen, request, store, cut>>
    BY <1>7 DEF Change, Evict, cacheVars
  <2>. QED  BY <1>0, <2>1 DEF Served, JoinsPending, FlightPending, SinceCut, WaitsForNew
<1>8. ASSUME NEW k \in Key, Invalidate(k) PROVE Served'
  <2>1. /\ UNCHANGED <<compute, seen, request, store>> /\ inFlight'[k] = None
        /\ cut'[k] = data[k] /\ cut'[k] >= cut[k]
        /\ \A x \in Key \ {k} : inFlight'[x] = inFlight[x] /\ cut'[x] = cut[x]
    BY <1>0, <1>8, ServedTypes DEF Invalidate
  <2>2. JoinsPending' /\ FlightPending' /\ WaitsForNew'
    BY <1>0, <2>1 DEF JoinsPending, FlightPending, WaitsForNew
  <2>3. SinceCut'
    <3> SUFFICES ASSUME NEW x \in Request, request[x] # NoRequest
                 PROVE  request[x].since <= cut'[request[x].key]
      BY <2>1 DEF SinceCut
    <3>1. /\ request[x].key \in Key /\ request[x].since \in Nat
          /\ request[x].since <= cut[request[x].key]
      BY <1>0, RequestShape DEF SinceCut
    <3>. QED  BY <2>1, <3>1, ServedTypes
  <2>. QED  BY <2>2, <2>3 DEF Served
<1>9. CASE Restart
  BY <1>9 DEF Restart, Served, JoinsPending, FlightPending, SinceCut, WaitsForNew,
              NoStore, NoRequest
<1>10. CASE UNCHANGED vars
  BY <1>0, <1>10 DEF vars, cacheVars, Served, JoinsPending, FlightPending, SinceCut, WaitsForNew
<1>. QED  BY <1>1, <1>2, <1>3, <1>4, <1>5, <1>6, <1>7, <1>8, <1>9, <1>10 DEF Next

(* A request that waits gets data no older than the last invalidation       *)
(* before it came, whichever computation it joined and whatever else was    *)
(* under way: invalidate() has taken the older ones out of inFlight.        *)
THEOREM NobodyWaitsForOld == Spec => []WaitersSeeInvalidation
<1>1. Init => Fresh
  BY DEF Init, Fresh, HistoryBehind, ReadSinceQuiet, NoOldEntry
<1>2. Init => Served
  BY DEF Init, Served, JoinsPending, FlightPending, SinceCut, WaitsForNew, NoStore, NoRequest
<1>3. Spec => [](Base /\ Fresh /\ Served)
  BY <1>1, <1>2, BaseHolds, FreshNext, ServedNext, PTL DEF Spec
<1>4. Served => WaitersSeeInvalidation
  BY DEF Served, WaitsForNew, WaitersSeeInvalidation
<1>. QED  BY <1>3, <1>4, PTL
-----------------------------------------------------------------------------
(* The computations of one key, and whether one of them can be joined. *)
PendingOf(k) == {s \in Pending : store[s].key = k}
Joinable(k) == IF inFlight[k] = None THEN 0 ELSE 1

(* Every computation but the one in flight was put aside by an invalidation *)
(* of its own, and mutations invalidate at most once each.                  *)
PutAside(k) ==
  /\ Cardinality(PendingOf(k)) <= cut[k] + Joinable(k)
  /\ Cardinality(PendingOf(k)) + toInvalidate[k] <= data[k] + Joinable(k)

LEMMA PendingCounts ==
  ASSUME NEW k \in Key
  PROVE  IsFiniteSet(PendingOf(k)) /\ Cardinality(PendingOf(k)) \in Nat
<1>1. PendingOf(k) \subseteq Request
  BY DEF PendingOf, Pending
<1>2. IsFiniteSet(PendingOf(k))
  BY <1>1, RequestAssumption, FS_Subset
<1>. QED  BY <1>2, FS_CardinalityType

(* A request joins the computation in flight or adds one that others join. *)
LEMMA AsideStart ==
  ASSUME Base, NEW r \in Request, AnswerHit(r) \/ Miss(r), NEW k \in Key, PutAside(k)
  PROVE  PutAside(k)'
<1>0. /\ request[r].at = "get" /\ store[r] = NoStore /\ compute[r] = "none"
      /\ UNCHANGED <<data, cut, toInvalidate>> /\ request[r].key \in Key
      /\ UNCHANGED <<store, inFlight, compute>> \/ StartStore(r, request[r].key)
      /\ Cardinality(PendingOf(k)) \in Nat /\ data[k] \in Nat /\ cut[k] \in Nat
      /\ toInvalidate[k] \in Nat
  BY FreeToStart, RequestShape, PendingCounts DEF AnswerHit, Miss, NoRequest, Base, TypeOK, Version
<1>1. CASE UNCHANGED <<store, inFlight, compute>>
  BY <1>0, <1>1 DEF PutAside, Joinable, PendingOf, Pending
<1>2. CASE StartStore(r, request[r].key) /\ inFlight[request[r].key] # None
  <2>1. /\ UNCHANGED <<inFlight, compute>>
        /\ \A x \in Request \ {r} : store'[x] = store[x]
    BY <1>2, ServedTypes DEF StartStore
  <2>2. PendingOf(k)' = PendingOf(k)
    BY <1>0, <2>1 DEF PendingOf, Pending
  <2>. QED  BY <1>0, <2>1, <2>2 DEF PutAside, Joinable
<1>3. CASE StartStore(r, request[r].key) /\ inFlight[request[r].key] = None
  <2>1. /\ inFlight' = [inFlight EXCEPT ![request[r].key] = r]
        /\ store'[r].key = request[r].key /\ compute'[r] # "none"
        /\ \A x \in Request \ {r} : store'[x] = store[x] /\ compute'[x] = compute[x]
    BY <1>3, ServedTypes DEF StartStore, AcquireSlot
  <2>2. r \notin PendingOf(k)
    BY <1>0 DEF PendingOf, Pending
  <2>3. CASE k = request[r].key
    <3>1. PendingOf(k)' = PendingOf(k) \cup {r}
      BY <2>1, <2>3 DEF PendingOf, Pending
    <3>2. Cardinality(PendingOf(k)') = Cardinality(PendingOf(k)) + 1
      BY <2>2, <3>1, PendingCounts, FS_AddElement
    <3>3. Joinable(k) = 0 /\ Joinable(k)' = 1
      BY <1>3, <2>1, <2>3, ServedTypes, RequestAssumption DEF Joinable
    <3>. QED  BY <1>0, <3>2, <3>3 DEF PutAside
  <2>4. CASE k # request[r].key
    <3>1. PendingOf(k)' = PendingOf(k)
      BY <2>1, <2>2, <2>4 DEF PendingOf, Pending
    <3>2. Joinable(k)' = Joinable(k)
      BY <2>1, <2>4, ServedTypes DEF Joinable
    <3>. QED  BY <1>0, <3>1, <3>2 DEF PutAside
  <2>. QED  BY <2>3, <2>4
<1>. QED  BY <1>0, <1>1, <1>2, <1>3

(* A computation that ends is one less, and unregisters whatever is there. *)
LEMMA AsideEnd ==
  ASSUME Base, NEW s \in Request, ComputeDone(s) \/ ComputeFails(s), NEW k \in Key, PutAside(k)
  PROVE  PutAside(k)'
<1>0. /\ compute[s] = "running" /\ EndCompute(s) /\ UNCHANGED <<data, cut, toInvalidate>>
      /\ Cardinality(PendingOf(k)) \in Nat /\ data[k] \in Nat /\ cut[k] \in Nat
      /\ toInvalidate[k] \in Nat
  BY PendingCounts DEF ComputeDone, ComputeFails, Base, TypeOK, Version
<1>1. \A x \in Request \ Joined(s) : store'[x] = store[x]
  BY DEF ComputeDone, ComputeFails
<1>2. /\ store[s].key \in Key
      /\ \A x \in Request : x # s /\ compute[x] # "none" => x \notin Joined(s)
  BY <1>0, ComputingKey DEF Joined
<1>3. compute'[s] = "none" /\ \A x \in Request \ {s} : compute'[x] # "none" <=> compute[x] # "none"
  <2>1. CASE queue = <<>>
    BY <1>0, <2>1, ServedTypes DEF EndCompute, ReleaseSlot
  <2>2. CASE queue # <<>>
    <3>1. Head(queue) \in Request /\ compute[Head(queue)] = "queued" /\ Head(queue) # s
      BY <1>0, <2>2, ServedTypes DEF QueueExact
    <3>. QED  BY <1>0, <2>2, <3>1, ServedTypes DEF EndCompute, ReleaseSlot
  <2>. QED  BY <2>1, <2>2
<1>4. PendingOf(k)' = PendingOf(k) \ {s}
  BY <1>1, <1>2, <1>3 DEF PendingOf, Pending
<1>5. inFlight' = [inFlight EXCEPT ![store[s].key] = None]
  BY <1>0 DEF EndCompute
<1>6. CASE k = store[s].key
  <2>1. s \in PendingOf(k)
    BY <1>0, <1>6 DEF PendingOf, Pending
  <2>2. Cardinality(PendingOf(k)') = Cardinality(PendingOf(k)) - 1
    BY <1>4, <2>1, PendingCounts, FS_RemoveElement
  <2>3. Joinable(k)' = 0 /\ Joinable(k) \in {0, 1}
    BY <1>5, <1>6, ServedTypes DEF Joinable
  <2>. QED  BY <1>0, <2>2, <2>3 DEF PutAside
<1>7. CASE k # store[s].key
  <2>1. PendingOf(k)' = PendingOf(k)
    BY <1>4, <1>7 DEF PendingOf
  <2>2. Joinable(k)' = Joinable(k)
    BY <1>2, <1>5, <1>7, ServedTypes DEF Joinable
  <2>. QED  BY <1>0, <2>1, <2>2 DEF PutAside
<1>. QED  BY <1>6, <1>7

LEMMA AsideNext == ASSUME Base, [Next]_vars, NEW k \in Key, PutAside(k) PROVE PutAside(k)'
<1>0. /\ Cardinality(PendingOf(k)) \in Nat /\ data[k] \in Nat /\ cut[k] \in Nat
      /\ toInvalidate[k] \in Nat /\ Joinable(k) \in {0, 1}
      /\ data \in [Key -> Nat] /\ toInvalidate \in [Key -> Nat]
  BY PendingCounts DEF Base, TypeOK, Version, Joinable
<1>1. ASSUME NEW r \in Request, AnswerHit(r) \/ Miss(r) PROVE PutAside(k)'
  BY <1>1, AsideStart
<1>2. ASSUME NEW s \in Request, ComputeDone(s) \/ ComputeFails(s) PROVE PutAside(k)'
  BY <1>2, AsideEnd
<1>3. ASSUME NEW r \in Request,
             ColdWaitEnds(r) \/ ReadData(r) \/ \E j \in Key, m \in Mode : Get(r, j, m)
      PROVE  PutAside(k)'
  BY <1>3 DEF ColdWaitEnds, ReadData, Get, PutAside, PendingOf, Pending, Joinable
<1>4. ASSUME NEW r \in Request, SetReturns(r) PROVE PutAside(k)'
  <2>1. /\ UNCHANGED <<inFlight, compute, data, cut, toInvalidate>> /\ store[r].at = "set"
        /\ \A x \in Request \ {r} : store'[x] = store[x]
    BY <1>4, ServedTypes DEF SetReturns
  <2>2. compute[r] = "none"
    BY <2>1, ComputingKey
  <2>3. PendingOf(k)' = PendingOf(k)
    BY <2>1, <2>2 DEF PendingOf, Pending
  <2>. QED  BY <2>1, <2>3 DEF PutAside, Joinable
<1>5. ASSUME NEW j \in Key, Change(j) \/ Evict(j) PROVE PutAside(k)'
  <2>1. UNCHANGED <<inFlight, compute, store, cut>>
    BY <1>5 DEF Change, Evict, cacheVars
  <2>2. \/ data'[k] = data[k] /\ toInvalidate'[k] = toInvalidate[k]
        \/ data'[k] = data[k] + 1 /\ toInvalidate'[k] \in {toInvalidate[k], toInvalidate[k] + 1}
    BY <1>0, <1>5 DEF Change, Evict
  <2>3. PendingOf(k)' = PendingOf(k) /\ Joinable(k)' = Joinable(k)
    BY <2>1 DEF PendingOf, Pending, Joinable
  <2>. QED  BY <1>0, <2>1, <2>2, <2>3 DEF PutAside
<1>6. ASSUME NEW j \in Key, Invalidate(j) PROVE PutAside(k)'
  <2>1. PendingOf(k)' = PendingOf(k) /\ UNCHANGED data
    BY <1>6 DEF Invalidate, PendingOf, Pending
  <2>2. CASE k = j
    <3>1. /\ toInvalidate[k] > 0 /\ toInvalidate'[k] = toInvalidate[k] - 1
          /\ cut'[k] = data[k] /\ Joinable(k)' = 0
      BY <1>0, <1>6, <2>2, ServedTypes DEF Invalidate, Joinable
    <3>. QED  BY <1>0, <2>1, <3>1 DEF PutAside
  <2>3. CASE k # j
    <3>1. /\ toInvalidate'[k] = toInvalidate[k] /\ cut'[k] = cut[k] /\ Joinable(k)' = Joinable(k)
      BY <1>0, <1>6, <2>3, ServedTypes DEF Invalidate, Joinable
    <3>. QED  BY <1>0, <2>1, <3>1 DEF PutAside
  <2>. QED  BY <2>2, <2>3
<1>7. CASE Restart
  <2>1. /\ PendingOf(k)' = {} /\ toInvalidate'[k] = 0 /\ UNCHANGED <<data, cut>>
        /\ Joinable(k)' = 0
    BY <1>7 DEF Restart, PendingOf, Pending, Joinable
  <2>. QED  BY <1>0, <2>1, FS_EmptySet DEF PutAside
<1>8. CASE UNCHANGED vars
  BY <1>8 DEF vars, cacheVars, PutAside, PendingOf, Pending, Joinable
<1>. QED  BY <1>1, <1>2, <1>3, <1>4, <1>5, <1>6, <1>7, <1>8 DEF Next

(* Requests for one key share their computation: what is under way besides  *)
(* the one in flight was put aside by invalidations, one by each at most.   *)
THEOREM ComputationsAreShared == Spec => []SharedComputes
<1> DEFINE Aside == \A k \in Key : PutAside(k)
<1>1. Init => Aside
  <2> SUFFICES ASSUME Init, NEW k \in Key PROVE PutAside(k)
    OBVIOUS
  <2>1. PendingOf(k) = {} /\ Joinable(k) = 0 /\ cut[k] = 0 /\ data[k] = 0 /\ toInvalidate[k] = 0
    BY DEF Init, PendingOf, Pending, Joinable
  <2>. QED  BY <2>1, FS_EmptySet DEF PutAside
<1>2. Base /\ Aside /\ [Next]_vars => Aside'
  BY AsideNext
<1>3. Base /\ Aside => SharedComputes
  <2> SUFFICES ASSUME Base, NEW k \in Key, PutAside(k)
               PROVE  Cardinality({s \in Pending : store[s].key = k}) <= 1 + cut[k]
    BY DEF SharedComputes
  <2>1. /\ Cardinality(PendingOf(k)) \in Nat /\ cut[k] \in Nat /\ Joinable(k) \in {0, 1}
        /\ Cardinality(PendingOf(k)) <= cut[k] + Joinable(k)
    BY PendingCounts, ServedTypes DEF Joinable, PutAside
  <2>. QED  BY <2>1 DEF PendingOf
<1> HIDE DEF Aside
<1>. QED  BY <1>1, <1>2, <1>3, BaseHolds, PTL DEF Spec
=============================================================================
