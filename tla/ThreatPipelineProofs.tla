----------------------- MODULE ThreatPipelineProofs -----------------------
(***************************************************************************)
(* Proofs about ThreatPipeline, for any addresses and hits, any sizes of   *)
(* the batches and of the drain, and any number of stops.                  *)
(***************************************************************************)
EXTENDS ThreatPipeline, Integers, FiniteSetTheorems, SequenceTheorems, TLAPS

(* An evaluation is about an address, and the direct alert of a hit starts  *)
(* when its handler ends.                                                   *)
JobsFit ==
  /\ \A h \in Hit : job[h] # Read
  /\ \A h \in Hit : place[h] \in {"unsent", "handled"} => job[h] = Idle

(* OneAlertPerCooldown, by cases. *)
Free(k) == sent[k] = 0 /\ Sending(k) = {} /\ k \notin wasted
Claimed(k) ==
  \/ sent[k] = 1 /\ Sending(k) = {} /\ k \notin wasted
  \/ sent[k] = 0 /\ (\E s \in Sender : Sending(k) = {s}) /\ k \notin wasted
  \/ sent[k] = 0 /\ Sending(k) = {} /\ k \in wasted
KeysExact == \A k \in Key : IF k \in live THEN Claimed(k) ELSE Free(k)

(* The flush that the shutdown awaits holds what it promised. *)
Promises ==
  /\ life = "flushing" => promised = final
  /\ FlushedAtShutdown

Places ==
  /\ place \in [Hit -> {"unsent", "handled", "queued", "flying", "stored", "dropped", "lost"}]
  /\ flights \subseteq SUBSET Hit
  /\ final \subseteq Hit
  /\ life \in {"up", "flushing", "closing", "down"}
  /\ promised \subseteq Hit
  /\ settled \subseteq Hit

Workers ==
  /\ pending \in Seq(Ip)
  /\ batch \in Seq(Ip)
  /\ job \in [Sender -> Jobs]

Alerts ==
  /\ live \subseteq Key
  /\ sent \in [Key -> Nat]
  /\ wasted \subseteq Key

IInv ==
  /\ Places /\ Workers /\ Alerts /\ stops \in Nat
  /\ JobsFit
  /\ EvaluationsBounded /\ EachIpOnce /\ BatchExact
  /\ NoHitForgotten /\ KeysExact /\ Promises

LEMMA Parts == IInv => TypeOK
BY DEF IInv, Places, Workers, Alerts, TypeOK

(* Addresses and hits. *)
LEMMA Senders ==
  /\ Sender = Ip \cup Hit /\ Ip \cap Hit = {}
  /\ \A h \in Hit : IpOf[h] \in Ip
  /\ IsFiniteSet(Ip) /\ IsFiniteSet(Hit) /\ \A s \in Hit : s \notin Ip
  /\ Evaluated \subseteq Hit
BY HitAssumption DEF Sender, Evaluated

LEMMA KeyFields == \A k \in Key : k[2] \in Ip
BY DEF Key

LEMMA DirectKey ==
  ASSUME NEW kind \in {"canary"} \cup Node, NEW ip \in Ip
  PROVE  <<kind, ip>> \in Key
BY DEF Key

LEMMA DueKeys ==
  ASSUME NEW ip \in Ip, NEW due \in SUBSET Fires[ip]
  PROVE  due \X {ip} \in SUBSET Key
<1>1. due \subseteq Check
  BY LimitAssumption
<1>. QED  BY <1>1 DEF Key
-----------------------------------------------------------------------------
(* Queues of addresses. *)

Unique(q) == \A i, j \in 1..Len(q) : q[i] = q[j] => i = j

LEMMA InQueueIs ==
  ASSUME NEW q \in Seq(Ip)
  PROVE  /\ Len(q) \in Nat /\ InQueue(q) \subseteq Ip
         /\ \A x : x \in InQueue(q) <=> \E i \in 1..Len(q) : x = q[i]
         /\ InQueue(<<>>) = {} /\ (q = <<>> <=> Len(q) = 0)
<1>1. Len(q) \in Nat /\ \A i \in 1..Len(q) : q[i] \in Ip
  BY ElementOfSeq, LenProperties
<1>2. \A x : x \in InQueue(q) <=> \E i \in 1..Len(q) : x = q[i]
  BY DEF InQueue
<1>3. InQueue(<<>>) = {}
  BY DEF InQueue
<1>. QED  BY <1>1, <1>2, <1>3, EmptySeq

LEMMA Cut ==
  ASSUME NEW q \in Seq(Ip), Unique(q), NEW m \in 1..(Len(q) + 1), NEW n \in (m - 1)..Len(q)
  PROVE  LET c == SubSeq(q, m, n) IN
         /\ c \in Seq(Ip) /\ Len(c) = n - m + 1 /\ Unique(c)
         /\ \A x : x \in InQueue(c) <=> \E i \in m..n : x = q[i]
<1> DEFINE c == SubSeq(q, m, n)
<1>1. Len(q) \in Nat /\ m \in Int /\ n \in Int /\ \A i \in m..n : q[i] \in Ip
  BY ElementOfSeq, LenProperties
<1>2. /\ c \in Seq(Ip) /\ Len(c) = IF m <= n THEN n - m + 1 ELSE 0
      /\ \A i \in 1..(n - m + 1) : c[i] = q[m + i - 1]
  BY <1>1, SubSeqProperties
<1>3. Len(c) = n - m + 1
  BY <1>1, <1>2
<1> HIDE DEF c
<1>4. Unique(c)
  <2> SUFFICES ASSUME NEW i \in 1..Len(c), NEW j \in 1..Len(c), c[i] = c[j] PROVE i = j
    BY DEF Unique
  <2>0. i \in 1..(n - m + 1) /\ j \in 1..(n - m + 1)
    BY <1>3
  <2>1. q[m + i - 1] = q[m + j - 1]
    BY <1>2, <2>0
  <2>2. m + i - 1 \in 1..Len(q) /\ m + j - 1 \in 1..Len(q)
    BY <1>1, <2>0
  <2>3. m + i - 1 = m + j - 1
    BY <2>1, <2>2 DEF Unique
  <2>. QED  BY <1>1, <2>0, <2>3
<1>5. ASSUME NEW x PROVE x \in InQueue(c) <=> \E i \in m..n : x = q[i]
  <2>1. ASSUME NEW i \in 1..Len(c), x = c[i] PROVE \E j \in m..n : x = q[j]
    <3>1. m + i - 1 \in m..n /\ x = q[m + i - 1]
      BY <1>1, <1>2, <1>3, <2>1
    <3>. QED  BY <3>1
  <2>2. ASSUME NEW j \in m..n, x = q[j] PROVE \E i \in 1..Len(c) : x = c[i]
    <3>1. j - m + 1 \in 1..Len(c) /\ m + (j - m + 1) - 1 = j
      BY <1>1, <1>3
    <3>2. c[j - m + 1] = q[m + (j - m + 1) - 1]
      BY <1>2, <1>3, <3>1
    <3>. QED  BY <2>2, <3>1, <3>2
  <2>. QED  BY <2>1, <2>2 DEF InQueue
<1>. QED  BY <1>2, <1>3, <1>4, <1>5 DEF c

LEMMA UniqueCount ==
  ASSUME NEW q \in Seq(Ip), Unique(q)
  PROVE  IsFiniteSet(InQueue(q)) /\ Cardinality(InQueue(q)) = Len(q)
<1> DEFINE f == [i \in 1..Len(q) |-> q[i]]
<1>1. Len(q) \in Nat
  BY LenProperties
<1>2. IsFiniteSet(1..Len(q)) /\ Cardinality(1..Len(q)) = Len(q)
  <2>1. 1 \in Int /\ Len(q) \in Int /\ (IF 1 > Len(q) THEN 0 ELSE Len(q) - 1 + 1) = Len(q)
    BY <1>1
  <2> DEFINE n == Len(q)
  <2> HIDE DEF n
  <2>2. IsFiniteSet(1..n) /\ Cardinality(1..n) = IF 1 > n THEN 0 ELSE n - 1 + 1
    <3>1. n \in Int
      BY <2>1 DEF n
    <3>. QED  BY <3>1, FS_Interval
  <2>. QED  BY <2>1, <2>2 DEF n
<1>3. f \in Bijection(1..Len(q), InQueue(q))
  <2>1. \A x : x \in InQueue(q) <=> \E i \in 1..Len(q) : x = q[i]
    BY DEF InQueue
  <2>2. f \in [1..Len(q) -> InQueue(q)]
    BY <2>1
  <2>3. \A i, j \in 1..Len(q) : f[i] = f[j] => i = j
    BY DEF Unique
  <2>4. \A x \in InQueue(q) : \E i \in 1..Len(q) : f[i] = x
    BY <2>1
  <2> HIDE DEF f
  <2>. QED  BY <2>2, <2>3, <2>4 DEF Bijection, Injection, Surjection, IsInjective
<1>4. ExistsBijection(1..Len(q), InQueue(q))
  BY <1>3 DEF ExistsBijection
<1>. QED  BY <1>2, <1>4, FS_Bijection

(* An address that is scheduled waits, once, and the others wait still.     *)
LEMMA Scheduled ==
  ASSUME pending \in Seq(Ip), Unique(pending), NEW ip \in Ip, Schedule(ip)
  PROVE  /\ pending' \in Seq(Ip) /\ Unique(pending)'
         /\ \A x : x \in InQueue(pending)' <=>
                   x \in InQueue(pending) \/ (x = ip /\ ip \notin Internal)
<1>1. CASE ip \in Internal \cup InQueue(pending)
  BY <1>1 DEF Schedule, Unique, InQueue
<1>2. CASE ip \notin Internal \cup InQueue(pending)
  <2>1. pending' = Append(pending, ip) /\ Len(pending) \in Nat
    BY <1>2, LenProperties DEF Schedule
  <2>2. /\ pending' \in Seq(Ip) /\ Len(pending') = Len(pending) + 1
        /\ \A i \in 1..Len(pending) : pending'[i] = pending[i]
        /\ pending'[Len(pending) + 1] = ip
    BY <2>1, AppendProperties
  <2>3. \A i \in 1..Len(pending) : pending[i] # ip
    BY <1>2 DEF InQueue
  <2>4. Unique(pending)'
    <3> SUFFICES ASSUME NEW i \in 1..Len(pending'), NEW j \in 1..Len(pending'), pending'[i] = pending'[j]
                 PROVE  i = j
      BY DEF Unique
    <3>1. CASE i \in 1..Len(pending) /\ j \in 1..Len(pending)
      BY <2>2, <3>1 DEF Unique
    <3>2. CASE i = Len(pending) + 1 \/ j = Len(pending) + 1
      BY <2>1, <2>2, <2>3, <3>2
    <3>. QED  BY <2>1, <2>2, <3>1, <3>2
  <2>5. ASSUME NEW x PROVE x \in InQueue(pending)' <=> x \in InQueue(pending) \/ x = ip
    <3>1. x \in InQueue(pending)' <=> \E i \in 1..Len(pending') : x = pending'[i]
      BY DEF InQueue
    <3>2. x \in InQueue(pending) <=> \E i \in 1..Len(pending) : x = pending[i]
      BY DEF InQueue
    <3>3. 1..Len(pending') = 1..Len(pending) \cup {Len(pending) + 1}
      BY <2>1, <2>2
    <3>. QED  BY <2>2, <3>1, <3>2, <3>3
  <2>. QED  BY <1>2, <2>2, <2>4, <2>5
<1>. QED  BY <1>1, <1>2

LEMMA InitIInv == Init => IInv
<1> SUFFICES ASSUME Init PROVE IInv
  OBVIOUS
<1>1. Places /\ Alerts /\ stops \in Nat
  BY DEF Init, Places, Alerts
<1>2. Workers
  BY EmptySeq DEF Init, Workers, Jobs
<1>3. JobsFit
  BY Senders DEF Init, JobsFit, Idle, Read
<1>4. Evaluating = {} /\ Queued = {} /\ \A k \in Key : Sending(k) = {}
  BY Senders DEF Init, Evaluating, Queued, Sending, Idle
<1>5. EvaluationsBounded /\ EachIpOnce /\ BatchExact
  <2>1. Len(pending) = 0 /\ Len(batch) = 0 /\ InQueue(batch) = {}
    BY EmptySeq, InQueueIs DEF Init
  <2>2. Cardinality({}) = 0 /\ MaxSize > 0 /\ MaxConcurrent >= 0
    BY FS_EmptySet, LimitAssumption
  <2>. QED  BY <1>4, <2>1, <2>2 DEF Init, EvaluationsBounded, EachIpOnce, BatchExact
<1>6. KeysExact
  BY <1>4 DEF Init, KeysExact, Free
<1>7. NoHitForgotten /\ Promises
  BY Senders DEF Init, NoHitForgotten, Promises, FlushedAtShutdown
<1>. QED  BY <1>1, <1>2, <1>3, <1>5, <1>6, <1>7 DEF IInv
-----------------------------------------------------------------------------
(* The end of a job, or its next alert. *)

LEMMA TailCut ==
  ASSUME NEW q \in Seq(Ip), Unique(q), q # <<>>
  PROVE  /\ Tail(q) \in Seq(Ip) /\ Unique(Tail(q))
         /\ Head(q) \in InQueue(q) /\ Head(q) \in Ip /\ Head(q) \notin InQueue(Tail(q))
         /\ \A x : x \in InQueue(q) <=> x = Head(q) \/ x \in InQueue(Tail(q))
<1>1. Len(q) \in Nat \ {0} /\ Head(q) = q[1] /\ Head(q) \in Ip
  BY EmptySeq, HeadTailProperties
<1>2. Tail(q) = SubSeq(q, 2, Len(q))
  BY TailIsSubSeq
<1>3. /\ Tail(q) \in Seq(Ip) /\ Unique(Tail(q))
      /\ \A x : x \in InQueue(Tail(q)) <=> \E i \in 2..Len(q) : x = q[i]
  <2>1. 2 \in 1..(Len(q) + 1) /\ Len(q) \in (2 - 1)..Len(q)
    BY <1>1
  <2>2. LET c == SubSeq(q, 2, Len(q)) IN
        /\ c \in Seq(Ip) /\ Unique(c)
        /\ \A x : x \in InQueue(c) <=> \E i \in 2..Len(q) : x = q[i]
    BY <2>1, Cut
  <2>. QED  BY <1>2, <2>2
<1>4. 1..Len(q) = {1} \cup 2..Len(q) /\ 1 \notin 2..Len(q) /\ 1 \in 1..Len(q)
  BY <1>1
<1>5. \A x : x \in InQueue(q) <=> \E i \in 1..Len(q) : x = q[i]
  BY DEF InQueue
<1>6. Head(q) \notin InQueue(Tail(q))
  BY <1>1, <1>3, <1>4 DEF Unique
<1>. QED  BY <1>1, <1>3, <1>4, <1>5, <1>6

Checking(due) == [at |-> "check", due |-> due]

LEMMA JobKinds ==
  /\ Idle \in Jobs /\ Read \in Jobs /\ Idle # Read /\ Read.at = "read" /\ Idle.at = "idle"
  /\ \A due \in SUBSET Key : /\ Checking(due) \in Jobs /\ Checking(due) # Idle /\ Checking(due) # Read
                             /\ Checking(due).at = "check" /\ Checking(due).due = due
BY DEF Jobs, Idle, Read, Checking

LEMMA ProceedFields ==
  ASSUME Workers, EachIpOnce, NEW s \in Sender, job[s] # Idle, NEW due \in SUBSET Key, Proceed(s, due)
  PROVE  /\ job' \in [Sender -> Jobs] /\ batch' \in Seq(Ip)
         /\ job'[s] = IF due = {} THEN Idle ELSE Checking(due)
         /\ \/ /\ batch' = batch /\ (s \in Ip /\ due = {} => batch = <<>>)
               /\ \A x \in Sender \ {s} : job'[x] = job[x]
            \/ /\ s \in Ip /\ due = {} /\ batch # <<>> /\ batch' = Tail(batch)
               /\ Head(batch) \in Ip \ {s} /\ job[Head(batch)] = Idle /\ job'[Head(batch)] = Read
               /\ \A x \in Sender \ {s, Head(batch)} : job'[x] = job[x]
<1>0. job \in [Sender -> Jobs] /\ batch \in Seq(Ip) /\ Unique(batch)
  BY DEF Workers, EachIpOnce, Unique
<1>1. CASE due # {}
  BY <1>0, <1>1, JobKinds DEF Proceed, Checking
<1>2. CASE due = {} /\ s \in Ip /\ batch # <<>>
  <2>1. job' = [job EXCEPT ![s] = Idle, ![Head(batch)] = Read] /\ batch' = Tail(batch)
    BY <1>2 DEF Proceed
  <2>2. Head(batch) \in InQueue(batch) /\ Head(batch) \in Ip /\ Tail(batch) \in Seq(Ip)
    BY <1>0, <1>2, TailCut
  <2>3. Head(batch) # s /\ job[Head(batch)] = Idle
    BY <1>2, <2>2 DEF EachIpOnce, Evaluating
  <2>4. Head(batch) \in Sender
    BY <2>2, Senders
  <2>. QED  BY <1>0, <1>2, <2>1, <2>2, <2>3, <2>4, JobKinds
<1>3. CASE due = {} /\ ~(s \in Ip /\ batch # <<>>)
  <2>1. job' = [job EXCEPT ![s] = Idle] /\ batch' = batch
    BY <1>3 DEF Proceed
  <2>. QED  BY <1>0, <1>3, <2>1, JobKinds
<1>. QED  BY <1>1, <1>2, <1>3

LEMMA ProceedQueues ==
  ASSUME Workers, EachIpOnce, EvaluationsBounded, NEW s \in Sender, job[s] # Idle,
         NEW due \in SUBSET Key, Proceed(s, due), pending' = pending
  PROVE  EvaluationsBounded' /\ EachIpOnce'
<1>0. batch \in Seq(Ip) /\ Unique(batch) /\ IsFiniteSet(Evaluating) /\ MaxConcurrent \in Nat \ {0}
  <2>1. Evaluating \subseteq Ip
    BY DEF Evaluating
  <2>. QED  BY <2>1, Senders, FS_Subset, LimitAssumption DEF Workers, EachIpOnce, Unique
<1>1. \A i, j \in 1..Len(pending') : pending'[i] = pending'[j] => i = j
  BY DEF EachIpOnce
<1>2. Cardinality(Evaluating) \in Nat
  BY <1>0, FS_CardinalityType
<1>3. job'[s] = Idle <=> due = {}
  BY ProceedFields, JobKinds
<1>4. CASE /\ batch' = batch /\ (s \in Ip /\ due = {} => batch = <<>>)
           /\ \A x \in Sender \ {s} : job'[x] = job[x]
  <2>1. CASE due = {} /\ s \in Ip
    <3>1. Evaluating' = Evaluating \ {s} /\ batch' = <<>>
      BY <1>3, <1>4, <2>1, Senders DEF Evaluating
    <3>2. Cardinality(Evaluating') <= Cardinality(Evaluating) /\ Cardinality(Evaluating') \in Nat
      <4>1. Cardinality(Evaluating \ {s}) <= Cardinality(Evaluating)
        BY <1>0, FS_Subset
      <4>2. Cardinality(Evaluating \ {s}) \in Nat
        BY <1>0, FS_RemoveElement, FS_CardinalityType
      <4>. QED  BY <3>1, <4>1, <4>2
    <3>3. Cardinality(Evaluating') <= MaxConcurrent
      BY <1>0, <1>2, <3>2 DEF EvaluationsBounded
    <3>4. InQueue(batch)' \cap Evaluating' = {}
      BY <1>4, <3>1 DEF EachIpOnce
    <3>. QED  BY <1>1, <1>4, <3>1, <3>3, <3>4 DEF EvaluationsBounded, EachIpOnce
  <2>2. CASE ~(due = {} /\ s \in Ip)
    <3>1. Evaluating' = Evaluating
      BY <1>3, <1>4, <2>2, Senders DEF Evaluating
    <3>. QED  BY <1>1, <1>4, <3>1 DEF EvaluationsBounded, EachIpOnce
  <2>. QED  BY <2>1, <2>2
<1>5. CASE /\ s \in Ip /\ due = {} /\ batch # <<>> /\ batch' = Tail(batch)
           /\ Head(batch) \in Ip \ {s} /\ job[Head(batch)] = Idle /\ job'[Head(batch)] = Read
           /\ \A x \in Sender \ {s, Head(batch)} : job'[x] = job[x]
  <2> DEFINE h == Head(batch)
  <2>1. Evaluating' = (Evaluating \ {s}) \cup {h} /\ s \in Evaluating /\ h \notin Evaluating \ {s}
    BY <1>3, <1>5, Senders, JobKinds DEF Evaluating
  <2>2. IsFiniteSet(Evaluating \ {s}) /\ Cardinality(Evaluating \ {s}) = Cardinality(Evaluating) - 1
    BY <1>0, <2>1, FS_RemoveElement
  <2>3. Cardinality((Evaluating \ {s}) \cup {h}) = Cardinality(Evaluating \ {s}) + 1
    BY <2>1, <2>2, FS_AddElement
  <2>4. Cardinality(Evaluating') = Cardinality(Evaluating) - 1 + 1
    BY <2>1, <2>2, <2>3
  <2>5. Cardinality(Evaluating') = Cardinality(Evaluating)
    BY <1>2, <2>4
  <2>6. /\ Unique(Tail(batch)) /\ h \notin InQueue(Tail(batch))
        /\ InQueue(Tail(batch)) \subseteq InQueue(batch)
    BY <1>0, <1>5, TailCut
  <2>7. InQueue(batch)' = InQueue(Tail(batch)) /\ Unique(batch)'
    BY <1>5, <2>6 DEF InQueue, Unique
  <2>8. InQueue(batch)' \cap Evaluating' = {}
    BY <2>1, <2>6, <2>7 DEF EachIpOnce
  <2>9. EachIpOnce'
    BY <1>1, <2>7, <2>8 DEF EachIpOnce, Unique
  <2>10. EvaluationsBounded'
    BY <1>5, <2>5 DEF EvaluationsBounded
  <2>. QED  BY <2>9, <2>10
<1>. QED  BY <1>4, <1>5, ProceedFields

(* Whatever a job ends with, the hits of its address are read, or wait for  *)
(* another evaluation.                                                      *)
LEMMA ProceedKeeps ==
  ASSUME IInv, NEW s \in Sender, job[s] # Idle, NEW due \in SUBSET Key, Proceed(s, due),
         UNCHANGED <<hitVars, pending, stops>>,
         settled \subseteq settled', settled' \subseteq Hit,
         job[s] = Read => s \in Ip /\ Accepted(s) \subseteq settled'
  PROVE  /\ Places' /\ Workers' /\ stops' \in Nat
         /\ JobsFit' /\ EvaluationsBounded' /\ EachIpOnce' /\ BatchExact'
         /\ NoHitForgotten' /\ Promises'
         /\ \A k \in Key : Sending(k)' = Sending(k) \ {s}
<1>0. /\ Places /\ Workers /\ EvaluationsBounded /\ EachIpOnce /\ JobsFit
      /\ UNCHANGED <<place, flights, final, life, promised, pending, stops>>
  BY DEF IInv, hitVars
<1>1. /\ job' \in [Sender -> Jobs] /\ batch' \in Seq(Ip)
      /\ job'[s] = IF due = {} THEN Idle ELSE Checking(due)
      /\ \/ /\ batch' = batch /\ (s \in Ip /\ due = {} => batch = <<>>)
            /\ \A x \in Sender \ {s} : job'[x] = job[x]
         \/ /\ s \in Ip /\ due = {} /\ batch # <<>> /\ batch' = Tail(batch)
            /\ Head(batch) \in Ip \ {s} /\ job[Head(batch)] = Idle /\ job'[Head(batch)] = Read
            /\ \A x \in Sender \ {s, Head(batch)} : job'[x] = job[x]
  BY <1>0, ProceedFields
<1>2. /\ job'[s] # Read /\ job'[s].at # "send"
      /\ \A x \in Sender \ {s} : \/ job'[x] = job[x]
                                 \/ x \in Ip /\ job[x] = Idle /\ job'[x] = Read
  BY <1>1, JobKinds
<1>3. JobsFit'
  <2> SUFFICES ASSUME NEW h \in Hit
               PROVE  job'[h] # Read /\ (place[h] \in {"unsent", "handled"} => job'[h] = Idle)
    BY <1>0 DEF JobsFit
  <2>1. h \in Sender /\ h \notin Ip
    BY Senders
  <2>2. CASE h = s
    BY <1>0, <1>2, <2>2 DEF JobsFit
  <2>3. CASE h # s
    BY <1>0, <1>2, <2>1, <2>3 DEF JobsFit
  <2>. QED  BY <2>2, <2>3
<1>4. EvaluationsBounded' /\ EachIpOnce'
  BY <1>0, ProceedQueues
<1>5. \A k \in Key : Sending(k)' = Sending(k) \ {s}
  BY <1>2, JobKinds DEF Sending
<1>6. NoHitForgotten'
  <2> SUFFICES ASSUME NEW h \in Evaluated, h \notin settled',
                      place[h] \in {"queued", "flying", "stored"}
               PROVE  \/ IpOf[h] \in InQueue(pending) \/ IpOf[h] \in InQueue(batch)'
                      \/ job'[IpOf[h]] = Read
    BY <1>0 DEF NoHitForgotten, InQueue
  <2>1. \/ IpOf[h] \in InQueue(pending) \/ IpOf[h] \in InQueue(batch) \/ job[IpOf[h]] = Read
    BY DEF IInv, NoHitForgotten
  <2>2. IpOf[h] \in Ip /\ IpOf[h] \in Sender
    BY Senders
  <2>3. CASE job[IpOf[h]] = Read
    <3>1. IpOf[h] # s
      <4>1. h \in Accepted(IpOf[h])
        BY DEF Accepted
      <4>. QED  BY <2>3, <4>1
    <3>. QED  BY <1>2, <2>2, <2>3, <3>1, JobKinds
  <2>4. CASE IpOf[h] \in InQueue(batch)
    <3>1. batch' = batch => IpOf[h] \in InQueue(batch)'
      BY <2>4 DEF InQueue
    <3>2. ASSUME batch # <<>>, batch' = Tail(batch), job'[Head(batch)] = Read
          PROVE  IpOf[h] \in InQueue(batch)' \/ job'[IpOf[h]] = Read
      <4>1. IpOf[h] = Head(batch) \/ IpOf[h] \in InQueue(Tail(batch))
        BY <1>0, <2>4, <3>2, TailCut DEF Workers, EachIpOnce, Unique
      <4>. QED  BY <3>2, <4>1 DEF InQueue
    <3>. QED  BY <1>1, <3>1, <3>2
  <2>. QED  BY <2>1, <2>3, <2>4
<1>7. Places' /\ Workers' /\ stops' \in Nat
  BY <1>0, <1>1 DEF IInv, Places, Workers
<1>8. BatchExact' /\ Promises'
  BY <1>0 DEF IInv, BatchExact, Queued, Promises, FlushedAtShutdown
<1>. QED  BY <1>3, <1>4, <1>5, <1>6, <1>7, <1>8

(* The fields of a job. *)
LEMMA JobFields ==
  ASSUME Workers, NEW s \in Sender
  PROVE  /\ job[s] \in Jobs
         /\ job[s].at \in {"check", "send"} => job[s].due \in SUBSET Key /\ job[s] # Idle /\ job[s] # Read
         /\ job[s].at = "send" => job[s].key \in Key /\ s \in Sending(job[s].key)
         /\ \A k \in Key : s \in Sending(k) <=> job[s].at = "send" /\ job[s].key = k
<1>1. job[s] \in Jobs
  BY DEF Workers
<1>. QED  BY <1>1 DEF Jobs, Idle, Read, Sending

LEMMA ReadKeeps ==
  ASSUME IInv, NEW ip \in Ip, ReadHits(ip) \/ ReadFails(ip)
  PROVE  IInv'
<1>1. /\ job[ip] = Read /\ settled' = settled \cup Accepted(ip)
      /\ UNCHANGED <<hitVars, pending, alertVars, stops>>
  BY DEF ReadHits, ReadFails
<1>2. PICK due \in SUBSET Key : Proceed(ip, due)
  <2>1. CASE ReadHits(ip)
    BY <2>1, DueKeys DEF ReadHits
  <2>2. CASE ReadFails(ip)
    BY <2>2 DEF ReadFails
  <2>. QED  BY <2>1, <2>2
<1>3. ip \in Sender /\ job[ip] # Idle /\ settled' \subseteq Hit /\ ip \in Ip
  BY <1>1, Senders, JobKinds DEF IInv, Places, Accepted
<1>4. /\ Places' /\ Workers' /\ stops' \in Nat
      /\ JobsFit' /\ EvaluationsBounded' /\ EachIpOnce' /\ BatchExact'
      /\ NoHitForgotten' /\ Promises'
      /\ \A k \in Key : Sending(k)' = Sending(k) \ {ip}
  BY <1>1, <1>2, <1>3, ProceedKeeps
<1>5. \A k \in Key : Sending(k)' = Sending(k)
  BY <1>1, <1>3, <1>4, JobKinds DEF Sending
<1>6. KeysExact' /\ Alerts'
  BY <1>1, <1>5 DEF IInv, Alerts, KeysExact, Free, Claimed, alertVars
<1>. QED  BY <1>4, <1>6 DEF IInv

LEMMA ClaimKeeps ==
  ASSUME IInv, NEW s \in Sender, NEW k \in Key, Claim(s, k)
  PROVE  IInv'
<1>0. /\ Workers /\ Alerts /\ KeysExact
      /\ job[s].at = "check" /\ k \in job[s].due /\ job[s] # Idle /\ job[s] # Read
      /\ job[s].due \in SUBSET Key /\ job[s].due \ {k} \in SUBSET Key
      /\ UNCHANGED <<place, flights, final, life, promised, pending, settled, sent, wasted, stops>>
  BY JobFields DEF IInv, Claim, hitVars
<1>1. CASE k \in live
  <2>1. Proceed(s, job[s].due \ {k}) /\ live' = live
    BY <1>1 DEF Claim
  <2>2. /\ Places' /\ Workers' /\ stops' \in Nat
        /\ JobsFit' /\ EvaluationsBounded' /\ EachIpOnce' /\ BatchExact'
        /\ NoHitForgotten' /\ Promises'
        /\ \A c \in Key : Sending(c)' = Sending(c) \ {s}
    <3>1. settled \subseteq settled' /\ settled' \subseteq Hit /\ UNCHANGED <<hitVars, pending, stops>>
      BY <1>0 DEF IInv, Places, hitVars
    <3>. QED  BY <1>0, <2>1, <3>1, ProceedKeeps
  <2>3. \A c \in Key : Sending(c)' = Sending(c)
    BY <1>0, <2>2 DEF Sending
  <2>4. KeysExact' /\ Alerts'
    BY <1>0, <2>1, <2>3 DEF Alerts, KeysExact, Free, Claimed
  <2>. QED  BY <2>2, <2>4 DEF IInv
<1>2. CASE k \notin live
  <2> DEFINE t == [at |-> "send", due |-> job[s].due, key |-> k]
  <2>1. job' = [job EXCEPT ![s] = t] /\ live' = live \cup {k} /\ batch' = batch
    BY <1>2 DEF Claim
  <2>2. t \in Jobs /\ t # Idle /\ t # Read /\ t.at = "send" /\ t.key = k
    BY <1>0 DEF Jobs, Idle, Read
  <2> HIDE DEF t
  <2>3. /\ job' \in [Sender -> Jobs] /\ job'[s] = t
        /\ \A x \in Sender \ {s} : job'[x] = job[x]
    BY <1>0, <2>1, <2>2 DEF Workers
  <2>4. Sending(k)' = Sending(k) \cup {s} /\ \A c \in Key \ {k} : Sending(c)' = Sending(c)
    BY <1>0, <2>2, <2>3 DEF Sending
  <2>5. Workers' /\ Alerts'
    BY <1>0, <2>1, <2>3 DEF Workers, Alerts
  <2>6. KeysExact'
    <3>1. Free(k)
      BY <1>0, <1>2 DEF KeysExact
    <3>2. Claimed(k)'
      BY <1>0, <2>4, <3>1 DEF Free, Claimed
    <3>3. ASSUME NEW c \in Key, c # k PROVE IF c \in live' THEN Claimed(c)' ELSE Free(c)'
      BY <1>0, <2>1, <2>4, <3>3 DEF KeysExact, Free, Claimed
    <3>. QED  BY <2>1, <3>2, <3>3 DEF KeysExact
  <2>7. Evaluating' = Evaluating
    BY <1>0, <2>2, <2>3, Senders DEF Evaluating
  <2>8. \A x \in Sender : (job'[x] = Read <=> job[x] = Read) /\ (job'[x] = Idle <=> job[x] = Idle)
    BY <1>0, <2>2, <2>3
  <2>9. JobsFit' /\ NoHitForgotten'
    BY <1>0, <2>1, <2>8, Senders DEF IInv, JobsFit, NoHitForgotten, InQueue
  <2>10. Places' /\ BatchExact' /\ Promises' /\ EvaluationsBounded' /\ EachIpOnce'
    BY <1>0, <2>1, <2>7 DEF IInv, Places, BatchExact, Queued, Promises, FlushedAtShutdown,
                            EvaluationsBounded, EachIpOnce, InQueue
  <2>. QED  BY <1>0, <2>5, <2>6, <2>9, <2>10 DEF IInv
<1>. QED  BY <1>1, <1>2

(* An upsert whose answer is lost claims a key that was free. *)
LEMMA Claims ==
  ASSUME Workers, NEW senders, senders \subseteq {s \in Sender : job[s].at = "check"},
         NEW claimed \in Claimable(senders)
  PROVE  claimed \subseteq Key \ live
<1>1. \A s \in senders : job[s].due \subseteq Key
  <2>1. \A s \in senders : s \in Sender /\ job[s].at \in {"check", "send"}
    OBVIOUS
  <2>. QED  BY <2>1, JobFields
<1>2. claimed \subseteq (UNION {job[s].due : s \in senders}) \ live
  BY DEF Claimable
<1>. QED  BY <1>1, <1>2

LEMMA ClaimFailsKeeps == ASSUME IInv, NEW s \in Sender, ClaimFails(s) PROVE IInv'
<1>0. /\ Workers /\ Alerts /\ KeysExact
      /\ job[s].at = "check" /\ job[s] # Idle /\ job[s] # Read
      /\ Proceed(s, {}) /\ {} \in SUBSET Key
      /\ UNCHANGED <<hitVars, pending, settled, sent, stops>>
  BY JobFields DEF IInv, ClaimFails
<1>a. PICK claimed \in Claimable({s}) : live' = live \cup claimed /\ wasted' = wasted \cup claimed
  BY DEF ClaimFails
<1>b. {s} \subseteq {x \in Sender : job[x].at = "check"}
  BY <1>0
<1>c. claimed \subseteq Key \ live
  BY <1>0, <1>a, <1>b, Claims
<1>1. /\ Places' /\ Workers' /\ stops' \in Nat
      /\ JobsFit' /\ EvaluationsBounded' /\ EachIpOnce' /\ BatchExact'
      /\ NoHitForgotten' /\ Promises'
      /\ \A c \in Key : Sending(c)' = Sending(c) \ {s}
  <2>1. settled \subseteq settled' /\ settled' \subseteq Hit /\ UNCHANGED <<hitVars, pending, stops>>
    BY <1>0 DEF IInv, Places
  <2>. QED  BY <1>0, <2>1, ProceedKeeps
<1>2. \A c \in Key : Sending(c)' = Sending(c)
  BY <1>0, <1>1 DEF Sending
<1>3. KeysExact' /\ Alerts'
  BY <1>0, <1>a, <1>c, <1>2 DEF Alerts, KeysExact, Free, Claimed
<1>. QED  BY <1>1, <1>3 DEF IInv

(* An alert that is on its way is sent or given up: once, for it is the     *)
(* only one of its key.                                                     *)
LEMMA SendKeeps ==
  ASSUME IInv, NEW s \in Sender, Send(s) \/ AttributionFails(s)
  PROVE  IInv'
<1>a. PICK k \in Key : k = job[s].key
  BY JobFields DEF IInv, Send, AttributionFails
<1>0. /\ Workers /\ Alerts /\ KeysExact
      /\ job[s].at = "send" /\ job[s] # Idle /\ job[s] # Read
      /\ k \in Key /\ s \in Sending(k) /\ \A c \in Key \ {k} : s \notin Sending(c)
      /\ UNCHANGED <<hitVars, pending, settled, live, stops>>
      /\ \E due \in SUBSET Key : Proceed(s, due)
  <2>1. job[s].at = "send"
    BY DEF Send, AttributionFails
  <2>2. job[s].due \ {k} \in SUBSET Key /\ {} \in SUBSET Key
    BY <2>1, JobFields DEF IInv
  <2>. QED  BY <1>a, <2>1, <2>2, JobFields DEF IInv, Send, AttributionFails
<1>1. /\ Places' /\ Workers' /\ stops' \in Nat
      /\ JobsFit' /\ EvaluationsBounded' /\ EachIpOnce' /\ BatchExact'
      /\ NoHitForgotten' /\ Promises'
      /\ \A c \in Key : Sending(c)' = Sending(c) \ {s}
  <2>1. settled \subseteq settled' /\ settled' \subseteq Hit /\ UNCHANGED <<hitVars, pending, stops>>
    BY <1>0 DEF IInv, Places
  <2>. QED  BY <1>0, <2>1, ProceedKeeps
<1>2. k \in live /\ sent[k] = 0 /\ k \notin wasted /\ Sending(k) = {s}
  BY <1>0 DEF KeysExact, Claimed, Free
<1>3. Sending(k)' = {} /\ \A c \in Key \ {k} : Sending(c)' = Sending(c)
  <2>1. Sending(k)' = Sending(k) \ {s} /\ \A c \in Key \ {k} : Sending(c)' = Sending(c) \ {s}
    BY <1>1
  <2>2. ASSUME NEW c \in Key \ {k} PROVE Sending(c)' = Sending(c)
    BY <1>0, <2>1
  <2>. QED  BY <1>2, <2>1, <2>2
<1>4. \/ sent' = [sent EXCEPT ![k] = @ + 1] /\ wasted' = wasted
      \/ sent' = sent /\ wasted' = wasted \cup {k}
  BY <1>a DEF Send, AttributionFails
<1>5. Alerts'
  BY <1>0, <1>4 DEF Alerts
<1>6. KeysExact'
  <2>1. Claimed(k)'
    BY <1>0, <1>2, <1>3, <1>4 DEF Claimed, Alerts
  <2>2. ASSUME NEW c \in Key, c # k PROVE IF c \in live' THEN Claimed(c)' ELSE Free(c)'
    BY <1>0, <1>3, <1>4, <2>2 DEF KeysExact, Free, Claimed, Alerts
  <2>. QED  BY <1>0, <1>2, <2>1, <2>2 DEF KeysExact
<1>. QED  BY <1>1, <1>5, <1>6 DEF IInv

LEMMA ExpireKeeps == ASSUME IInv, NEW k \in Key, Expire(k) PROVE IInv'
<1>0. /\ Alerts /\ KeysExact /\ k \in live /\ Sending(k) = {}
      /\ live' = live \ {k} /\ sent' = [sent EXCEPT ![k] = 0] /\ wasted' = wasted \ {k}
      /\ UNCHANGED <<place, flights, final, life, promised, pending, batch, settled, job, stops>>
  BY DEF IInv, Expire, hitVars, queueVars
<1>1. Alerts' /\ \A c \in Key : Sending(c)' = Sending(c)
  BY <1>0 DEF Alerts, Sending
<1>2. KeysExact'
  <2>1. Free(k)'
    BY <1>0, <1>1 DEF Free, Alerts
  <2>2. ASSUME NEW c \in Key, c # k PROVE IF c \in live' THEN Claimed(c)' ELSE Free(c)'
    BY <1>0, <1>1, <2>2 DEF KeysExact, Free, Claimed, Alerts
  <2>. QED  BY <1>0, <2>1, <2>2 DEF KeysExact
<1>. QED  BY <1>0, <1>1, <1>2 DEF IInv, Places, Workers, JobsFit, EvaluationsBounded, EachIpOnce,
          Evaluating, InQueue, BatchExact, Queued, NoHitForgotten, Promises, FlushedAtShutdown
-----------------------------------------------------------------------------
(* Hits on their way. *)

Counts(to) == to \in {"queued", "flying", "stored"}
Fresh(to) == to \in {"unsent", "handled"}

(* A flush takes the whole queue, and nothing that is on its way already.   *)
LEMMA Departs ==
  ASSUME Places, BatchExact, NEW q \in SUBSET Hit, Queued \subseteq q,
         \A h \in q : place[h] # "flying",
         place' = Move(q, "flying"), flights' = flights \cup ({q} \ {{}})
  PROVE  /\ BatchExact' /\ flights' \subseteq SUBSET Hit
         /\ place' \in [Hit -> {"unsent", "handled", "queued", "flying", "stored", "dropped", "lost"}]
         /\ \A h \in q : place'[h] = "flying"
         /\ \A h \in Hit \ q : place'[h] = place[h]
<1>1. /\ \A h \in q : place'[h] = "flying"
      /\ \A h \in Hit \ q : place'[h] = place[h]
      /\ place' \in [Hit -> {"unsent", "handled", "queued", "flying", "stored", "dropped", "lost"}]
  BY DEF Move, Places
<1>2. flights' \subseteq SUBSET Hit
  BY DEF Places
<1>3. UNION flights' = (UNION flights) \cup q
  <2>1. CASE q = {}
    <3>1. flights' = flights
      BY <2>1
    <3>. QED  BY <2>1, <3>1
  <2>2. CASE q # {}
    <3>1. flights' = flights \cup {q}
      BY <2>2
    <3>2. UNION (flights \cup {q}) = (UNION flights) \cup q
      OBVIOUS
    <3>. QED  BY <3>1, <3>2
  <2>. QED  BY <2>1, <2>2
<1>4. {h \in Hit : place'[h] = "flying"} = {h \in Hit : place[h] = "flying"} \cup q
  BY <1>1
<1>5. \A b \in flights : b \cap q = {}
  BY DEF BatchExact, Places
<1>6. \A b, c \in flights' : b # c => b \cap c = {}
  BY <1>5 DEF BatchExact
<1>7. Queued' = {}
  BY <1>1 DEF Queued
<1>8. Cardinality(Queued') < MaxSize
  BY <1>7, FS_EmptySet, LimitAssumption
<1>. QED  BY <1>1, <1>2, <1>3, <1>4, <1>6, <1>8 DEF BatchExact

(* What keeps NoHitForgotten while hits move: those that come new into the  *)
(* count are settled, or their address is scheduled.                        *)
LEMMA HitsKept ==
  ASSUME IInv, settled \subseteq settled', batch' = batch,
         InQueue(pending) \subseteq InQueue(pending)',
         \A ip \in Ip : job[ip] = Read => job'[ip] = Read,
         NEW new \in SUBSET Hit,
         \A h \in Hit \ new : Counts(place'[h]) => Counts(place[h]),
         \A h \in new \cap Evaluated : h \in settled' \/ IpOf[h] \in InQueue(pending)'
  PROVE  NoHitForgotten'
<1> SUFFICES ASSUME NEW h \in Evaluated, h \notin settled', Counts(place'[h])
             PROVE  \/ IpOf[h] \in InQueue(pending)' \/ IpOf[h] \in InQueue(batch)'
                    \/ job'[IpOf[h]] = Read
  BY DEF NoHitForgotten, Counts
<1>1. CASE h \in new
  BY <1>1
<1>2. CASE h \notin new
  <2>1. h \notin settled /\ Counts(place[h])
    BY <1>2, Senders
  <2>2. \/ IpOf[h] \in InQueue(pending) \/ IpOf[h] \in InQueue(batch) \/ job[IpOf[h]] = Read
    BY <2>1 DEF IInv, NoHitForgotten, Counts
  <2>. QED  BY <2>2, Senders DEF InQueue
<1>. QED  BY <1>1, <1>2

(* The end of an ingest handler: the address is scheduled, a direct alert   *)
(* starts, or both.                                                         *)
LEMMA HandlerKeeps ==
  ASSUME IInv, NEW h \in Hit, Fresh(place[h]), ~Fresh(place'[h]),
         \A x \in Hit \ {h} : /\ Fresh(place'[x]) => Fresh(place[x])
                              /\ Counts(place'[x]) => Counts(place[x]),
         Places', BatchExact', Promises',
         job' = job \/ \E kind \in {"canary"} \cup Node, ip \in Ip : Direct(h, kind, ip),
         Schedule(IpOf[h]),
         UNCHANGED <<batch, settled, live, sent, wasted, stops>>
  PROVE  IInv'
<1>0. Workers /\ Alerts /\ KeysExact /\ JobsFit /\ EachIpOnce /\ EvaluationsBounded
  BY DEF IInv
<1>1. h \in Sender /\ h \notin Ip /\ IpOf[h] \in Ip /\ job[h] = Idle
  BY <1>0, Senders DEF JobsFit, Fresh
<1>2. /\ job' \in [Sender -> Jobs]
      /\ job'[h] # Read /\ job'[h].at # "send"
      /\ \A x \in Sender \ {h} : job'[x] = job[x]
  <2>1. CASE job' = job
    BY <1>0, <1>1, <2>1, JobKinds DEF Workers
  <2>2. ASSUME NEW kind \in {"canary"} \cup Node, NEW ip \in Ip, Direct(h, kind, ip)
        PROVE  /\ job' \in [Sender -> Jobs]
               /\ job'[h] # Read /\ job'[h].at # "send"
               /\ \A x \in Sender \ {h} : job'[x] = job[x]
    <3>1. {<<kind, ip>>} \in SUBSET Key
      BY DirectKey
    <3>2. job' = [job EXCEPT ![h] = Checking({<<kind, ip>>})]
      BY <2>2 DEF Direct, Checking
    <3>. QED  BY <1>0, <1>1, <3>1, <3>2, JobKinds DEF Workers
  <2>. QED  BY <2>1, <2>2
<1>3. /\ pending' \in Seq(Ip) /\ Unique(pending)'
      /\ InQueue(pending) \subseteq InQueue(pending)'
      /\ h \in Evaluated => IpOf[h] \in InQueue(pending)'
  <2>1. pending \in Seq(Ip) /\ Unique(pending)
    BY <1>0 DEF Workers, EachIpOnce, Unique
  <2>. QED  BY <1>1, <2>1, Scheduled DEF Evaluated
<1>4. Workers' /\ Alerts'
  BY <1>0, <1>2, <1>3 DEF Workers, Alerts
<1>5. Evaluating' = Evaluating /\ \A k \in Key : Sending(k)' = Sending(k)
  BY <1>1, <1>2, Senders, JobKinds DEF Evaluating, Sending
<1>6. EvaluationsBounded' /\ EachIpOnce'
  BY <1>0, <1>3, <1>5 DEF EvaluationsBounded, EachIpOnce, Unique, InQueue
<1>7. JobsFit'
  BY <1>0, <1>1, <1>2, Senders DEF JobsFit, Fresh
<1>8. KeysExact'
  BY <1>0, <1>5 DEF KeysExact, Free, Claimed
<1>9. NoHitForgotten'
  <2>1. \A ip \in Ip : job[ip] = Read => job'[ip] = Read
    BY <1>1, <1>2, Senders
  <2>2. /\ {h} \in SUBSET Hit /\ settled \subseteq settled'
        /\ \A x \in Hit \ {h} : Counts(place'[x]) => Counts(place[x])
        /\ \A x \in {h} \cap Evaluated : x \in settled' \/ IpOf[x] \in InQueue(pending)'
    BY <1>3
  <2>. QED  BY <1>3, <2>1, <2>2, HitsKept
<1>. QED  BY <1>4, <1>6, <1>7, <1>8, <1>9 DEF IInv

LEMMA ProtocolEventKeeps == ASSUME IInv, NEW h \in Hit, ProtocolEvent(h) PROVE IInv'
<1>0. /\ Places /\ BatchExact /\ Promises
      /\ life \in {"up", "flushing"} /\ place[h] = "unsent" /\ Enqueue(h)
      /\ UNCHANGED <<final, life, promised, batch, settled, live, sent, wasted, stops>>
      /\ Schedule(IpOf[h])
  BY DEF IInv, ProtocolEvent, alertVars
<1>a. job' = job \/ \E kind \in {"canary"} \cup Node, ip \in Ip : Direct(h, kind, ip)
  <2>1. h \in Deception => NodeOf[h] \in Node /\ Origins[h] \subseteq Ip
    BY HitAssumption
  <2>. QED  BY <2>1 DEF ProtocolEvent
<1> DEFINE q == Queued \cup {h}
<1>1. q \in SUBSET Hit /\ Queued \subseteq q /\ q # {} /\ \A x \in q : place[x] # "flying"
  BY <1>0 DEF Queued
<1>2. /\ BatchExact' /\ flights' \subseteq SUBSET Hit
      /\ place' \in [Hit -> {"unsent", "handled", "queued", "flying", "stored", "dropped", "lost"}]
      /\ place'[h] \in {"queued", "flying"}
      /\ \A x \in Hit \ {h} : place'[x] = place[x] \/ (place[x] = "queued" /\ place'[x] = "flying")
  <2>1. CASE Cardinality(q) >= MaxSize
    <3>1. place' = Move(q, "flying") /\ flights' = flights \cup ({q} \ {{}})
      BY <1>0, <1>1, <2>1 DEF Enqueue
    <3>2. /\ BatchExact' /\ flights' \subseteq SUBSET Hit
          /\ place' \in [Hit -> {"unsent", "handled", "queued", "flying", "stored", "dropped", "lost"}]
          /\ \A x \in q : place'[x] = "flying"
          /\ \A x \in Hit \ q : place'[x] = place[x]
      <4> HIDE DEF q
      <4>. QED  BY <1>0, <1>1, <3>1, Departs
    <3>. QED  BY <3>2 DEF Queued
  <2>2. CASE ~(Cardinality(q) >= MaxSize)
    <3>1. place' = Move({h}, "queued") /\ flights' = flights
      BY <2>2 DEF Enqueue, ProtocolEvent
    <3>2. /\ place'[h] = "queued" /\ \A x \in Hit \ {h} : place'[x] = place[x]
          /\ place' \in [Hit -> {"unsent", "handled", "queued", "flying", "stored", "dropped", "lost"}]
      BY <1>0, <3>1 DEF Move, Places
    <3>3. Queued' = q /\ {x \in Hit : place'[x] = "flying"} = {x \in Hit : place[x] = "flying"}
      BY <1>0, <3>2 DEF Queued
    <3>4. Cardinality(q) < MaxSize
      <4>1. IsFiniteSet(q)
        BY <1>1, Senders, FS_Subset
      <4>2. Cardinality(q) \in Nat /\ MaxSize \in Nat
        BY <4>1, FS_CardinalityType, LimitAssumption
      <4>. QED  BY <2>2, <4>2
    <3>5. BatchExact'
      <4> HIDE DEF q
      <4>. QED  BY <1>0, <3>1, <3>3, <3>4 DEF BatchExact
    <3>. QED  BY <1>0, <3>1, <3>2, <3>5 DEF Places
  <2>. QED  BY <2>1, <2>2
<1>3. Places' /\ Promises'
  BY <1>0, <1>2 DEF Places, Promises, FlushedAtShutdown
<1>4. /\ Fresh(place[h]) /\ ~Fresh(place'[h])
      /\ \A x \in Hit \ {h} : /\ Fresh(place'[x]) => Fresh(place[x])
                              /\ Counts(place'[x]) => Counts(place[x])
  BY <1>0, <1>2 DEF Fresh, Counts
<1>. QED  BY <1>0, <1>a, <1>2, <1>3, <1>4, HandlerKeeps

LEMMA WebHitInsertedKeeps == ASSUME IInv, NEW h \in Hit, WebHitInserted(h) PROVE IInv'
<1>0. /\ Places /\ BatchExact /\ Promises
      /\ place[h] = "handled" /\ place' = Move({h}, "stored") /\ Schedule(IpOf[h])
      /\ UNCHANGED <<flights, final, life, promised, batch, settled, live, sent, wasted, stops>>
  BY DEF IInv, WebHitInserted, alertVars
<1>1. /\ place'[h] = "stored" /\ \A x \in Hit \ {h} : place'[x] = place[x]
      /\ place' \in [Hit -> {"unsent", "handled", "queued", "flying", "stored", "dropped", "lost"}]
  BY <1>0 DEF Move, Places
<1>2. Queued' = Queued /\ {x \in Hit : place'[x] = "flying"} = {x \in Hit : place[x] = "flying"}
  BY <1>0, <1>1 DEF Queued
<1>3. Places' /\ BatchExact' /\ Promises'
  BY <1>0, <1>1, <1>2 DEF Places, BatchExact, Promises, FlushedAtShutdown
<1>4. /\ Fresh(place[h]) /\ ~Fresh(place'[h])
      /\ \A x \in Hit \ {h} : /\ Fresh(place'[x]) => Fresh(place[x])
                              /\ Counts(place'[x]) => Counts(place[x])
  BY <1>0, <1>1 DEF Fresh, Counts
<1>5. job' = job \/ \E kind \in {"canary"} \cup Node, ip \in Ip : Direct(h, kind, ip)
  BY Senders DEF WebHitInserted
<1>. QED  BY <1>0, <1>3, <1>4, <1>5, HandlerKeeps

(* A step that moves hits only. *)
LEMMA MoveKeeps ==
  ASSUME IInv, UNCHANGED <<pending, batch, job, live, sent, wasted>>, stops' \in Nat,
         Places', BatchExact', Promises', settled \subseteq settled',
         \A h \in Hit : /\ Fresh(place'[h]) => Fresh(place[h])
                        /\ Counts(place'[h]) => Counts(place[h]) \/ h \in settled'
  PROVE  IInv'
<1>1. Workers' /\ Alerts' /\ KeysExact' /\ EvaluationsBounded' /\ EachIpOnce'
  <2>1. Workers /\ Alerts /\ KeysExact /\ EvaluationsBounded /\ EachIpOnce
    BY DEF IInv
  <2>2. Workers'
    BY <2>1 DEF Workers
  <2>3. Alerts'
    BY <2>1 DEF Alerts
  <2>4. \A k \in Key : Sending(k)' = Sending(k)
    BY DEF Sending
  <2>5. KeysExact'
    BY <2>1, <2>4 DEF KeysExact, Free, Claimed
  <2>6. Evaluating' = Evaluating
    BY DEF Evaluating
  <2>7. EvaluationsBounded'
    BY <2>1, <2>6 DEF EvaluationsBounded
  <2>8. EachIpOnce'
    BY <2>1, <2>6 DEF EachIpOnce, InQueue
  <2>. QED  BY <2>2, <2>3, <2>5, <2>7, <2>8
<1>2. JobsFit'
  BY DEF IInv, JobsFit, Fresh
<1>3. NoHitForgotten'
  <2>1. InQueue(pending)' = InQueue(pending)
    BY DEF InQueue
  <2>2. settled' \in SUBSET Hit
    BY DEF Places
  <2>. QED  BY <2>1, <2>2, HitsKept
<1>. QED  BY <1>1, <1>2, <1>3 DEF IInv

LEMMA InsertWebHitKeeps == ASSUME IInv, NEW h \in Hit, InsertWebHit(h) PROVE IInv'
<1>0. /\ Places /\ BatchExact /\ Promises /\ stops \in Nat
      /\ place[h] = "unsent"
      /\ UNCHANGED <<flights, final, life, promised, pending, batch, job, live, sent, wasted, stops>>
  BY DEF IInv, InsertWebHit, alertVars
<1>1. PICK to \in {"handled", "stored"} :
        /\ place' = Move({h}, to)
        /\ settled' = settled \/ settled' = settled \cup {h}
        /\ to = "stored" => h \in settled'
  BY DEF InsertWebHit
<1>2. /\ place'[h] = to /\ \A x \in Hit \ {h} : place'[x] = place[x]
      /\ place' \in [Hit -> {"unsent", "handled", "queued", "flying", "stored", "dropped", "lost"}]
  BY <1>0, <1>1 DEF Move, Places
<1>3. Queued' = Queued /\ {x \in Hit : place'[x] = "flying"} = {x \in Hit : place[x] = "flying"}
  BY <1>0, <1>1, <1>2 DEF Queued
<1>4. Places' /\ BatchExact'
  BY <1>0, <1>1, <1>2, <1>3 DEF Places, BatchExact
<1>5. Promises'
  BY <1>0, <1>1, <1>2 DEF Places, Promises, FlushedAtShutdown
<1>6. \A x \in Hit : /\ Fresh(place'[x]) => Fresh(place[x])
                     /\ Counts(place'[x]) => Counts(place[x]) \/ x \in settled'
  BY <1>0, <1>1, <1>2 DEF Fresh, Counts
<1>7. settled \subseteq settled'
  BY <1>1
<1>. QED  BY <1>0, <1>4, <1>5, <1>6, <1>7, MoveKeeps

LEMMA FlushKeeps == ASSUME IInv, Flush PROVE IInv'
<1>0. /\ Places /\ BatchExact /\ Promises /\ stops \in Nat
      /\ life = "up" /\ Queued # {} /\ Queued \in SUBSET Hit
      /\ place' = Move(Queued, "flying") /\ flights' = flights \cup ({Queued} \ {{}})
      /\ UNCHANGED <<final, life, promised, pending, batch, settled, job, live, sent, wasted, stops>>
      /\ \A h \in Queued : place[h] = "queued"
  BY DEF IInv, Flush, queueVars, alertVars, Queued
<1>1. /\ BatchExact' /\ flights' \subseteq SUBSET Hit
      /\ place' \in [Hit -> {"unsent", "handled", "queued", "flying", "stored", "dropped", "lost"}]
      /\ \A h \in Queued : place'[h] = "flying"
      /\ \A h \in Hit \ Queued : place'[h] = place[h]
  BY <1>0, Departs
<1>2. Places' /\ Promises'
  BY <1>0, <1>1 DEF Places, Promises, FlushedAtShutdown
<1>3. \A x \in Hit : /\ Fresh(place'[x]) => Fresh(place[x])
                     /\ Counts(place'[x]) => Counts(place[x]) \/ x \in settled'
  BY <1>0, <1>1 DEF Fresh, Counts
<1>. QED  BY <1>0, <1>1, <1>2, <1>3, MoveKeeps

LEMMA ShutdownKeeps == ASSUME IInv, Shutdown PROVE IInv'
<1>0. /\ Places /\ BatchExact /\ Promises /\ stops' \in Nat
      /\ life = "up" /\ Queued \in SUBSET Hit
      /\ promised' = Queued /\ final' = Queued
      /\ place' = Move(Queued, "flying") /\ flights' = flights \cup ({Queued} \ {{}})
      /\ life' = IF Queued = {} THEN "closing" ELSE "flushing"
      /\ UNCHANGED <<pending, batch, settled, job, live, sent, wasted>>
      /\ \A h \in Queued : place[h] = "queued"
  BY DEF IInv, Shutdown, queueVars, alertVars, Queued
<1>1. /\ BatchExact' /\ flights' \subseteq SUBSET Hit
      /\ place' \in [Hit -> {"unsent", "handled", "queued", "flying", "stored", "dropped", "lost"}]
      /\ \A h \in Queued : place'[h] = "flying"
      /\ \A h \in Hit \ Queued : place'[h] = place[h]
  BY <1>0, Departs
<1>2. Places' /\ Promises'
  BY <1>0, <1>1 DEF Places, Promises, FlushedAtShutdown
<1>3. \A x \in Hit : /\ Fresh(place'[x]) => Fresh(place[x])
                     /\ Counts(place'[x]) => Counts(place[x]) \/ x \in settled'
  BY <1>0, <1>1 DEF Fresh, Counts
<1>. QED  BY <1>0, <1>1, <1>2, <1>3, MoveKeeps

(* The flush that ends takes none of the hits of another with it.           *)
LEMMA FlushEndsKeeps == ASSUME IInv, NEW b \in flights, FlushEnds(b) PROVE IInv'
<1>0. /\ Places /\ BatchExact /\ Promises /\ stops \in Nat
      /\ flights' = flights \ {b} /\ b \in SUBSET Hit
      /\ life' = IF life = "flushing" /\ b = final THEN "closing" ELSE life
      /\ UNCHANGED <<final, promised, pending, batch, settled, job, live, sent, wasted, stops>>
      /\ \A h \in b : place[h] = "flying"
  BY DEF IInv, FlushEnds, queueVars, alertVars, Places, BatchExact
<1>1. PICK to \in {"stored", "dropped"} : place' = Move(b, to)
  BY DEF FlushEnds
<1>2. /\ \A h \in b : place'[h] = to
      /\ \A h \in Hit \ b : place'[h] = place[h]
      /\ place' \in [Hit -> {"unsent", "handled", "queued", "flying", "stored", "dropped", "lost"}]
  BY <1>0, <1>1 DEF Move, Places
<1>3. Queued' = Queued
  BY <1>0, <1>2 DEF Queued
<1>4. UNION flights' = (UNION flights) \ b
  <2>1. \A c \in flights \ {b} : c \cap b = {}
    BY <1>0 DEF BatchExact
  <2>2. UNION (flights \ {b}) = (UNION flights) \ b
    BY <2>1
  <2>. QED  BY <1>0, <2>2
<1>5. {x \in Hit : place'[x] = "flying"} = {x \in Hit : place[x] = "flying"} \ b
  BY <1>0, <1>2
<1>6. BatchExact'
  BY <1>0, <1>3, <1>4, <1>5 DEF BatchExact
<1>7. Places' /\ Promises'
  BY <1>0, <1>2 DEF Places, Promises, FlushedAtShutdown
<1>8. \A x \in Hit : /\ Fresh(place'[x]) => Fresh(place[x])
                     /\ Counts(place'[x]) => Counts(place[x]) \/ x \in settled'
  BY <1>0, <1>2 DEF Fresh, Counts
<1>. QED  BY <1>0, <1>6, <1>7, <1>8, MoveKeeps

LEMMA BootKeeps == ASSUME IInv, Boot PROVE IInv'
<1>0. /\ Places /\ BatchExact /\ stops \in Nat
      /\ life' = "up" /\ promised' = {}
      /\ UNCHANGED <<place, flights, final, pending, batch, settled, job, live, sent, wasted, stops>>
  BY DEF IInv, Boot, queueVars, alertVars
<1>1. Places' /\ BatchExact' /\ Promises'
  BY <1>0 DEF Places, BatchExact, Queued, Promises, FlushedAtShutdown
<1>. QED  BY <1>0, <1>1, MoveKeeps

LEMMA OtherActivityKeeps == ASSUME IInv, NEW ip \in Ip, OtherActivity(ip) PROVE IInv'
<1>0. /\ Workers /\ EachIpOnce /\ Schedule(ip)
      /\ UNCHANGED <<place, flights, final, life, promised, batch, settled, job, live, sent, wasted, stops>>
  BY DEF IInv, OtherActivity, hitVars, alertVars
<1>1. /\ pending' \in Seq(Ip) /\ Unique(pending)'
      /\ InQueue(pending) \subseteq InQueue(pending)'
  BY <1>0, Scheduled DEF Workers, EachIpOnce, Unique
<1>2. Workers' /\ EachIpOnce'
  <2>1. Evaluating' = Evaluating /\ InQueue(batch)' = InQueue(batch)
    BY <1>0 DEF Evaluating, InQueue
  <2>. QED  BY <1>0, <1>1, <2>1 DEF Workers, EachIpOnce, Unique
<1>3. NoHitForgotten'
  <2>1. {} \in SUBSET Hit /\ \A h \in Hit \ {} : Counts(place'[h]) => Counts(place[h])
    BY <1>0
  <2>. QED  BY <1>0, <1>1, <2>1, HitsKept
<1>. QED  BY <1>0, <1>2, <1>3 DEF IInv, Places, Alerts, JobsFit, EvaluationsBounded, Evaluating,
             BatchExact, Queued, KeysExact, Free, Claimed, Sending, Promises, FlushedAtShutdown

(* A stop leaves no hit on its way and no job under way. *)
LEMMA DieKeeps ==
  ASSUME IInv, Die, life' = "down", stops' \in Nat,
         promised' = {} \/ (promised' = promised /\ life = "closing")
  PROVE  IInv'
<1>0. /\ Places /\ Workers /\ Alerts /\ BatchExact /\ Promises /\ KeysExact
      /\ flights' = {} /\ final' = {} /\ pending' = <<>> /\ batch' = <<>>
      /\ settled' = {h \in Evaluated : place[h] # "unsent"}
      /\ job' = [s \in Sender |-> Idle]
      /\ UNCHANGED sent
  BY DEF IInv, Die
<1>a. PICK claimed \in Claimable({s \in Sender : job[s].at = "check"}) :
        /\ live' = live \cup claimed
        /\ wasted' = wasted \cup claimed \cup {k \in Key : Sending(k) # {}}
  BY DEF Die
<1>b. claimed \subseteq Key \ live
  BY <1>0, Claims
<1>1. PICK done \in SUBSET flights :
        place' = [h \in Hit |->
          IF place[h] = "handled" \/ h \in UNION done THEN "stored"
          ELSE IF place[h] \in {"queued", "flying"} THEN "lost"
          ELSE place[h]]
  BY DEF Die
<1>2. \A h \in Hit : h \in UNION done => place[h] = "flying"
  BY <1>0 DEF BatchExact
<1>3. \A h \in Hit : /\ place[h] \in {"handled", "queued", "flying"} => place'[h] \in {"stored", "lost"}
                     /\ place[h] \in {"unsent", "stored", "dropped", "lost"} => place'[h] = place[h]
  BY <1>1, <1>2
<1>4. \A h \in Hit :
        place[h] \in {"unsent", "handled", "queued", "flying", "stored", "dropped", "lost"}
  BY <1>0 DEF Places
<1>5. Places'
  <2>1. place' \in [Hit -> {"unsent", "handled", "queued", "flying", "stored", "dropped", "lost"}]
    <3>1. \A h \in Hit :
            place'[h] \in {"unsent", "handled", "queued", "flying", "stored", "dropped", "lost"}
      BY <1>3, <1>4
    <3>. QED  BY <1>1, <3>1
  <2>2. settled' \subseteq Hit /\ promised' \subseteq Hit
    BY <1>0, Senders DEF Places
  <2>. QED  BY <1>0, <2>1, <2>2 DEF Places
<1>6. Workers' /\ Alerts' /\ JobsFit'
  <2>1. <<>> \in Seq(Ip)
    BY EmptySeq
  <2>2. \A h \in Hit : h \in Sender
    BY Senders
  <2>. QED  BY <1>0, <1>a, <1>b, <2>1, <2>2, JobKinds DEF Workers, Alerts, JobsFit
<1>7. Evaluating' = {} /\ Queued' = {} /\ {h \in Hit : place'[h] = "flying"} = {}
      /\ \A k \in Key : Sending(k)' = {}
  <2>1. Evaluating' = {}
    BY <1>0, Senders DEF Evaluating
  <2>2. \A k \in Key : Sending(k)' = {}
    BY <1>0, JobKinds DEF Sending
  <2>3. \A h \in Hit : place'[h] \notin {"queued", "flying"}
    BY <1>3, <1>4
  <2>. QED  BY <2>1, <2>2, <2>3 DEF Queued
<1>8. EvaluationsBounded' /\ EachIpOnce' /\ BatchExact'
  <2>1. Len(pending') = 0 /\ Len(batch') = 0 /\ InQueue(batch)' = {}
    BY <1>0, EmptySeq DEF InQueue
  <2>2. Cardinality({}) = 0 /\ MaxSize > 0 /\ MaxConcurrent >= 0
    BY FS_EmptySet, LimitAssumption
  <2>3. EvaluationsBounded'
    BY <1>0, <1>7, <2>2 DEF EvaluationsBounded
  <2>4. EachIpOnce'
    BY <1>7, <2>1 DEF EachIpOnce
  <2>5. BatchExact'
    <3>1. UNION flights' = {}
      BY <1>0
    <3>. QED  BY <1>0, <1>7, <2>2, <3>1 DEF BatchExact
  <2>. QED  BY <2>3, <2>4, <2>5
<1>9. KeysExact'
  <2> SUFFICES ASSUME NEW k \in Key PROVE IF k \in live' THEN Claimed(k)' ELSE Free(k)'
    BY DEF KeysExact
  <2>1. IF k \in live THEN Claimed(k) ELSE Free(k)
    BY <1>0 DEF KeysExact
  <2>2. /\ k \in wasted' <=> k \in wasted \/ k \in claimed \/ Sending(k) # {}
        /\ k \in live' <=> k \in live \/ k \in claimed
    BY <1>a
  <2>3. sent'[k] = sent[k] /\ Sending(k)' = {}
    BY <1>0, <1>7
  <2>. QED  BY <1>b, <2>1, <2>2, <2>3 DEF Free, Claimed
<1>10. NoHitForgotten'
  <2>1. \A h \in Evaluated : Counts(place'[h]) => h \in settled'
    BY <1>0, <1>3, <1>4, Senders DEF Counts
  <2>. QED  BY <2>1 DEF NoHitForgotten, Counts
<1>11. Promises'
  BY <1>0, <1>3 DEF Places, Promises, FlushedAtShutdown
<1>. QED  BY <1>0, <1>5, <1>6, <1>8, <1>9, <1>10, <1>11 DEF IInv

LEMMA StopKeeps == ASSUME IInv, Exit \/ Crash PROVE IInv'
<1>1. /\ Die /\ stops' \in Nat
      /\ promised' = {} \/ (promised' = promised /\ life = "closing")
  BY DEF IInv, Exit, Crash
<1>2. life' = "down"
  BY <1>1 DEF Die
<1>. QED  BY <1>1, <1>2, DieKeeps

(* A drain starts when no worker is at work and nothing is left of the last *)
(* batch: the first addresses of the queue are in the hands of the workers, *)
(* those after them in the batch, and the others wait still.                *)
LEMMA DrainKeeps == ASSUME IInv, Drain PROVE IInv'
<1> DEFINE n == Lesser(MaxDrainBatch, Len(pending))
           w == Lesser(MaxConcurrent, n)
           first == InQueue(SubSeq(pending, 1, w))
<1>0. /\ Places /\ Workers /\ Alerts /\ JobsFit /\ KeysExact /\ EachIpOnce /\ EvaluationsBounded
      /\ Evaluating = {} /\ pending # <<>>
      /\ job' = [s \in Sender |-> IF s \in first THEN Read ELSE job[s]]
      /\ batch' = SubSeq(pending, w + 1, n)
      /\ pending' = SubSeq(pending, n + 1, Len(pending))
      /\ UNCHANGED <<place, flights, final, life, promised, settled, live, sent, wasted, stops>>
  BY DEF IInv, Drain, hitVars, alertVars
<1>1. /\ pending \in Seq(Ip) /\ Unique(pending) /\ Len(pending) \in Nat /\ Len(pending) # 0
      /\ MaxDrainBatch \in Nat \ {0} /\ MaxConcurrent \in Nat \ {0}
  BY <1>0, LimitAssumption, LenProperties, EmptySeq DEF Workers, EachIpOnce, Unique
<1>2. /\ n \in Nat /\ 0 < n /\ n <= Len(pending)
      /\ w \in Nat /\ 0 < w /\ w <= n /\ w <= MaxConcurrent /\ (w < n => w = MaxConcurrent)
  BY <1>1 DEF Lesser
<1> HIDE DEF n, w
<1>3. /\ Len(SubSeq(pending, 1, w)) = w
      /\ Unique(SubSeq(pending, 1, w)) /\ SubSeq(pending, 1, w) \in Seq(Ip)
      /\ \A x : x \in first <=> \E i \in 1..w : x = pending[i]
  <2>1. 1 \in 1..(Len(pending) + 1) /\ w \in (1 - 1)..Len(pending)
    BY <1>1, <1>2
  <2>2. LET c == SubSeq(pending, 1, w) IN
        /\ c \in Seq(Ip) /\ Len(c) = w - 1 + 1 /\ Unique(c)
        /\ \A x : x \in InQueue(c) <=> \E i \in 1..w : x = pending[i]
    BY <1>1, <2>1, Cut
  <2>. QED  BY <1>2, <2>2
<1>4. /\ batch' \in Seq(Ip) /\ Len(batch') = n - w /\ Unique(batch)'
      /\ \A x : x \in InQueue(batch)' <=> \E i \in (w + 1)..n : x = pending[i]
  <2>1. w + 1 \in 1..(Len(pending) + 1) /\ n \in ((w + 1) - 1)..Len(pending)
    BY <1>1, <1>2
  <2>2. LET c == SubSeq(pending, w + 1, n) IN
        /\ c \in Seq(Ip) /\ Len(c) = n - (w + 1) + 1 /\ Unique(c)
        /\ \A x : x \in InQueue(c) <=> \E i \in (w + 1)..n : x = pending[i]
    BY <1>1, <2>1, Cut
  <2>3. n - (w + 1) + 1 = n - w
    BY <1>2
  <2>4. Unique(batch)' <=> Unique(SubSeq(pending, w + 1, n))
    BY <1>0 DEF Unique
  <2>5. InQueue(batch)' = InQueue(SubSeq(pending, w + 1, n))
    BY <1>0 DEF InQueue
  <2>. QED  BY <1>0, <2>2, <2>3, <2>4, <2>5
<1>5. /\ pending' \in Seq(Ip) /\ Unique(pending)'
      /\ \A x : x \in InQueue(pending)' <=> \E i \in (n + 1)..Len(pending) : x = pending[i]
  <2>1. n + 1 \in 1..(Len(pending) + 1) /\ Len(pending) \in ((n + 1) - 1)..Len(pending)
    BY <1>1, <1>2
  <2>2. LET c == SubSeq(pending, n + 1, Len(pending)) IN
        /\ c \in Seq(Ip) /\ Unique(c)
        /\ \A x : x \in InQueue(c) <=> \E i \in (n + 1)..Len(pending) : x = pending[i]
    BY <1>1, <2>1, Cut
  <2>3. Unique(pending)' <=> Unique(SubSeq(pending, n + 1, Len(pending)))
    BY <1>0 DEF Unique
  <2>4. InQueue(pending)' = InQueue(SubSeq(pending, n + 1, Len(pending)))
    BY <1>0 DEF InQueue
  <2>. QED  BY <1>0, <2>2, <2>3, <2>4
<1>6. first \subseteq Ip
  BY <1>3, InQueueIs
<1> HIDE DEF first
<1>7. /\ \A s \in Sender : job'[s] = IF s \in first THEN Read ELSE job[s]
      /\ \A s \in first : s \in Ip /\ s \in Sender /\ job[s] = Idle
      /\ job' \in [Sender -> Jobs]
  <2>1. \A s \in first : s \in Ip /\ s \in Sender /\ job[s] = Idle
    BY <1>0, <1>6, Senders DEF Evaluating
  <2>. QED  BY <1>0, <2>1, JobKinds DEF Workers
<1>8. Evaluating' = first
  BY <1>0, <1>6, <1>7, Senders, JobKinds DEF Evaluating
<1>9. Cardinality(first) = w
  BY <1>3, UniqueCount DEF first
<1>10. EvaluationsBounded'
  <2>1. batch' # <<>> => w = MaxConcurrent
    <3>1. batch' # <<>> => Len(batch') \in Nat \ {0}
      BY <1>4, EmptySeq
    <3>. QED  BY <1>2, <1>4, <3>1
  <2>. QED  BY <1>2, <1>8, <1>9, <2>1 DEF EvaluationsBounded
<1>11. EachIpOnce'
  <2>1. ASSUME NEW x, x \in InQueue(batch)', x \in first PROVE FALSE
    <3>1. PICK i \in 1..w : x = pending[i]
      BY <1>3, <2>1
    <3>2. PICK j \in (w + 1)..n : x = pending[j]
      BY <1>4, <2>1
    <3>3. i \in 1..Len(pending) /\ j \in 1..Len(pending) /\ i # j
      BY <1>1, <1>2
    <3>. QED  BY <1>1, <3>1, <3>2, <3>3 DEF Unique
  <2>2. InQueue(batch)' \cap Evaluating' = {}
    BY <1>8, <2>1
  <2>. QED  BY <1>4, <1>5, <2>2 DEF EachIpOnce, Unique
<1>12. JobsFit'
  BY <1>0, <1>6, <1>7, Senders DEF JobsFit
<1>13. KeysExact'
  <2>1. \A k \in Key : Sending(k)' = Sending(k)
    BY <1>7, JobKinds DEF Sending
  <2>. QED  BY <1>0, <2>1 DEF KeysExact, Free, Claimed
<1>14. NoHitForgotten'
  <2> SUFFICES ASSUME NEW h \in Evaluated, h \notin settled, Counts(place[h])
               PROVE  \/ IpOf[h] \in InQueue(pending)' \/ IpOf[h] \in InQueue(batch)'
                      \/ job'[IpOf[h]] = Read
    BY <1>0 DEF NoHitForgotten, Counts
  <2>1. \/ IpOf[h] \in InQueue(pending) \/ IpOf[h] \in InQueue(batch) \/ job[IpOf[h]] = Read
    BY DEF IInv, NoHitForgotten, Counts
  <2>2. IpOf[h] \in Ip /\ IpOf[h] \in Sender
    BY Senders
  <2>3. job[IpOf[h]] # Read
    BY <1>0, <2>2, JobKinds DEF Evaluating
  <2>4. batch = <<>>
    <3>1. Cardinality(Evaluating) = 0
      BY <1>0, FS_EmptySet
    <3>. QED  BY <1>0, <1>1, <3>1 DEF EvaluationsBounded
  <2>5. IpOf[h] \notin InQueue(batch)
    BY <2>4, EmptySeq DEF InQueue
  <2>6. PICK i \in 1..Len(pending) : IpOf[h] = pending[i]
    BY <2>1, <2>3, <2>5 DEF InQueue
  <2>7. i \in 1..w \/ i \in (w + 1)..n \/ i \in (n + 1)..Len(pending)
    BY <1>1, <1>2
  <2>. QED  BY <1>3, <1>4, <1>5, <1>7, <2>2, <2>6, <2>7
<1>. QED  BY <1>0, <1>4, <1>5, <1>7, <1>10, <1>11, <1>12, <1>13, <1>14
          DEF IInv, Places, Workers, Alerts, BatchExact, Queued, Promises, FlushedAtShutdown
-----------------------------------------------------------------------------
LEMMA IInvNext == IInv /\ [Next]_vars => IInv'
<1> SUFFICES ASSUME IInv, [Next]_vars PROVE IInv'
  OBVIOUS
<1>1. CASE UNCHANGED vars
  <2>1. UNCHANGED <<place, flights, final, life, promised, pending, batch, settled, job, live, sent,
                    wasted, stops>>
    BY <1>1 DEF vars, hitVars, queueVars, alertVars
  <2>2. /\ Places' /\ Workers' /\ Alerts' /\ stops' \in Nat /\ JobsFit' /\ Promises'
        /\ BatchExact' /\ EvaluationsBounded'
    BY <2>1 DEF IInv, Places, Workers, Alerts, JobsFit, Promises, FlushedAtShutdown, BatchExact, Queued,
                EvaluationsBounded, Evaluating
  <2>3. EachIpOnce' /\ NoHitForgotten'
    BY <2>1 DEF IInv, EachIpOnce, InQueue, Evaluating, NoHitForgotten
  <2>4. KeysExact'
    BY <2>1 DEF IInv, KeysExact, Free, Claimed, Sending
  <2>. QED  BY <2>2, <2>3, <2>4 DEF IInv
<1>2. ASSUME NEW h \in Hit,
             ProtocolEvent(h) \/ InsertWebHit(h) \/ WebHitInserted(h) \/ AttributionFails(h)
      PROVE  IInv'
  BY <1>2, ProtocolEventKeeps, InsertWebHitKeeps, WebHitInsertedKeeps, SendKeeps, Senders
<1>3. CASE Flush \/ \E b \in flights : FlushEnds(b)
  BY <1>3, FlushKeeps, FlushEndsKeeps
<1>4. ASSUME NEW ip \in Ip, OtherActivity(ip) \/ ReadHits(ip) \/ ReadFails(ip) PROVE IInv'
  BY <1>4, OtherActivityKeeps, ReadKeeps
<1>5. ASSUME NEW s \in Sender, ClaimFails(s) \/ Send(s) \/ \E k \in Key : Claim(s, k) PROVE IInv'
  BY <1>5, ClaimFailsKeeps, SendKeeps, ClaimKeeps
<1>6. CASE \E k \in Key : Expire(k)
  BY <1>6, ExpireKeeps
<1>7. CASE Drain \/ Shutdown \/ Exit \/ Crash \/ Boot
  BY <1>7, DrainKeeps, ShutdownKeeps, StopKeeps, BootKeeps
<1>. QED  BY <1>1, <1>2, <1>3, <1>4, <1>5, <1>6, <1>7 DEF Next

THEOREM IInvHolds == Spec => []IInv
BY InitIInv, IInvNext, PTL DEF Spec

(* The variables have their types, for any hits and any limits.             *)
THEOREM PipelineTypeCorrect == Spec => []TypeOK
BY IInvHolds, Parts, PTL

(* The workers, the queue of addresses and the batches of hits are exact,   *)
(* whatever overlaps and for any sizes.                                     *)
THEOREM PipelineQueuesExact == Spec => []QueuesExact
<1>1. IInv => QueuesExact
  BY DEF IInv, QueuesExact
<1>. QED  BY <1>1, IInvHolds, PTL

(* No accepted hit is left behind by the evaluations, other than by a fault *)
(* the model names.                                                         *)
THEOREM EveryHitCounts == Spec => []NoHitForgotten
<1>1. IInv => NoHitForgotten
  BY DEF IInv
<1>. QED  BY <1>1, IInvHolds, PTL

(* A key has one alert from its claim until it expires, for any number of   *)
(* evaluations and direct alerts that race for it.                          *)
THEOREM CooldownHolds == Spec => []OneAlertPerCooldown
<1>1. IInv => OneAlertPerCooldown
  <2> SUFFICES ASSUME IInv, NEW k \in Key
               PROVE  sent[k] + Cardinality(Sending(k)) + (IF k \in wasted THEN 1 ELSE 0)
                        = IF k \in live THEN 1 ELSE 0
    BY DEF OneAlertPerCooldown
  <2>1. IF k \in live THEN Claimed(k) ELSE Free(k)
    BY DEF IInv, KeysExact
  <2>2. Cardinality({}) = 0 /\ \A s : Cardinality({s}) = 1
    BY FS_EmptySet, FS_Singleton
  <2>3. \/ sent[k] = 1 /\ Cardinality(Sending(k)) = 0 /\ k \notin wasted /\ k \in live
        \/ sent[k] = 0 /\ Cardinality(Sending(k)) = 1 /\ k \notin wasted /\ k \in live
        \/ sent[k] = 0 /\ Cardinality(Sending(k)) = 0 /\ k \in wasted /\ k \in live
        \/ sent[k] = 0 /\ Cardinality(Sending(k)) = 0 /\ k \notin wasted /\ k \notin live
    BY <2>1, <2>2 DEF Free, Claimed
  <2>. QED  BY <2>3
<1>. QED  BY <1>1, IInvHolds, PTL

(* The shutdown does not close the server before what it took over is in    *)
(* the tables or has failed.                                                *)
THEOREM ShutdownFlushes == Spec => []FlushedAtShutdown
<1>1. IInv => FlushedAtShutdown
  BY DEF IInv, Promises
<1>. QED  BY <1>1, IInvHolds, PTL
=============================================================================
