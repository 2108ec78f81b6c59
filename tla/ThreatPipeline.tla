--------------------------- MODULE ThreatPipeline ---------------------------
(***************************************************************************)
(* From an ingested hit to an alert, inside the ingest API: web hits that  *)
(* are inserted by their handler (modules/web), protocol hits that wait in *)
(* memory for a batch (lib/protocol-batch.ts), the queue of addresses to   *)
(* evaluate and the workers that drain it (lib/threat-alerts.ts, lib/      *)
(* cron.ts), the alerts with their cooldowns, and the shutdown of main.ts. *)
(*                                                                         *)
(* One process runs it all, so what happens between two awaits is one      *)
(* step. The aggregate queries of an evaluation are read on the primary,   *)
(* as when no replica is configured, and at one moment.                    *)
(***************************************************************************)
EXTENDS Naturals, Sequences, FiniteSets

CONSTANTS Ip,             \* addresses
          Internal,       \* those of internal networks: isInternalIp
          WebHit,         \* hits on the web sensors that face the internet
          ProtocolHit,    \* hits on the other sensors
          IpOf,           \* IpOf[h]: the address a hit comes from
          Canary,         \* web hits that replay a leaked credential
          Deception,      \* protocol hits on the traps of the internal network
          Node,           \* those traps
          NodeOf,         \* NodeOf[h]: the one that was hit
          Origins,        \* bound: Origins[h]: the addresses its alert may name
          Check,          \* the checks of an evaluation
          Fires,          \* bound: Fires[ip]: those that may fire for ip
          MaxSize,        \* MAX_SIZE of the batch
          MaxDrainBatch,  \* MAX_DRAIN_BATCH
          MaxConcurrent,  \* MAX_CONCURRENT_EVALUATIONS
          MaxStops        \* bound: shutdowns and crashes

Hit == WebHit \cup ProtocolHit

ASSUME HitAssumption ==
  /\ WebHit \cap ProtocolHit = {} /\ Ip \cap Hit = {}
  /\ IsFiniteSet(Hit) /\ IsFiniteSet(Ip) /\ Internal \subseteq Ip
  /\ IpOf \in [Hit -> Ip] /\ Canary \subseteq WebHit /\ Deception \subseteq ProtocolHit
  /\ NodeOf \in [Deception -> Node] /\ Origins \in [Deception -> SUBSET Ip]
(* Other hits from internal addresses are ignored before anything else.     *)
ASSUME IgnoredAssumption == \A h \in Hit : IpOf[h] \in Internal => h \in Deception
ASSUME LimitAssumption ==
  /\ MaxSize \in Nat \ {0} /\ MaxDrainBatch \in Nat \ {0} /\ MaxConcurrent \in Nat \ {0}
  /\ Fires \in [Ip -> SUBSET Check]
  /\ Check \cap Node = {} /\ "canary" \notin Check \cup Node

VARIABLES
  place,     \* place[h]: how far a hit has come
  flights,   \* the createMany calls under way, as the sets of their hits
  final,     \* the flush that the shutdown awaits
  life,      \* the process
  pending,   \* pendingThreatIps: a Set iterates in the order of insertion
  batch,     \* what the workers of the drain have yet to take
  job,       \* job[s]: an evaluation of s, or the direct alert of the hit s
  live,      \* the keys in threat_alert_cooldown that have not expired
  sent,      \* sent[k]: alerts handed to the channels since k last expired
  wasted,    \* history: claimed keys whose alert an error or a stop prevented
  settled,   \* history: hits an evaluation has read, or missed: see NoHitForgotten
  promised,  \* history: hits that were in the queue when the shutdown began
  stops

hitVars == <<place, flights, final, life, promised>>
queueVars == <<pending, batch, settled>>
alertVars == <<live, sent, wasted>>
vars == <<hitVars, queueVars, job, alertVars, stops>>

Sender == Ip \cup Hit
(* The keys of the cooldowns: a check, the canary or a trap, and an address. *)
Key == (Check \cup {"canary"} \cup Node) \X Ip

(* due: the alerts yet to send. key: the one being sent. *)
Idle == [at |-> "idle"]
Read == [at |-> "read"]
Jobs == {Idle, Read} \cup [at : {"check"}, due : SUBSET Key]
                     \cup [at : {"send"}, due : SUBSET Key, key : Key]

TypeOK ==
  /\ place \in [Hit -> {"unsent", "handled", "queued", "flying", "stored", "dropped", "lost"}]
  /\ flights \subseteq SUBSET Hit
  /\ final \subseteq Hit
  /\ life \in {"up", "flushing", "closing", "down"}
  /\ pending \in Seq(Ip)
  /\ batch \in Seq(Ip)
  /\ job \in [Sender -> Jobs]
  /\ live \subseteq Key
  /\ sent \in [Key -> Nat]
  /\ wasted \subseteq Key
  /\ settled \subseteq Hit
  /\ promised \subseteq Hit
  /\ stops \in Nat

Init ==
  /\ place = [h \in Hit |-> "unsent"]
  /\ flights = {}
  /\ final = {}
  /\ life = "up"
  /\ pending = <<>>
  /\ batch = <<>>
  /\ job = [s \in Sender |-> Idle]
  /\ live = {}
  /\ sent = [k \in Key |-> 0]
  /\ wasted = {}
  /\ settled = {}
  /\ promised = {}
  /\ stops = 0
-----------------------------------------------------------------------------
(* protocol-batch.ts *)

Queued == {h \in Hit : place[h] = "queued"}
InQueue(seq) == {seq[i] : i \in 1..Len(seq)}

Move(hits, to) == [h \in Hit |-> IF h \in hits THEN to ELSE place[h]]

(* enqueueProtocolHit: a full queue is flushed at once. *)
Enqueue(h) ==
  LET q == Queued \cup {h} IN
  IF Cardinality(q) >= MaxSize
  THEN /\ place' = Move(q, "flying")
       /\ flights' = flights \cup {q}
  ELSE /\ place' = Move({h}, "queued")
       /\ UNCHANGED flights

(* The timer's flush() takes the whole queue; the one before it may be      *)
(* under way still.                                                         *)
Flush ==
  /\ life = "up" /\ Queued # {}
  /\ flights' = flights \cup {Queued}
  /\ place' = Move(Queued, "flying")
  /\ UNCHANGED <<final, life, promised, queueVars, job, alertVars, stops>>

(* createMany stores the batch, or fails and the batch is dropped. The      *)
(* shutdown goes on when the flush it awaits has ended.                     *)
FlushEnds(b) ==
  /\ life # "down" /\ b \in flights
  /\ flights' = flights \ {b}
  /\ \E to \in {"stored", "dropped"} : place' = Move(b, to)
  /\ life' = IF life = "flushing" /\ b = final THEN "closing" ELSE life
  /\ UNCHANGED <<final, promised, queueVars, job, alertVars, stops>>
-----------------------------------------------------------------------------
(* Ingest handlers *)

(* Faulty: an address is thought to be dealt with while it is evaluated. *)
ScheduleUnlessRunning(ip) ==
  pending' = IF ip \in Internal \cup InQueue(pending) \/ job[ip] # Idle THEN pending
             ELSE Append(pending, ip)

(* scheduleThreatAlert: an internal address is never evaluated, and one     *)
(* that waits already keeps its turn.                                       *)
Schedule(ip) ==
  pending' = IF ip \in Internal \cup InQueue(pending) THEN pending ELSE Append(pending, ip)

(* evaluateCanaryAlert and evaluateDeceptionAlert start at once, not queued *)
(* behind an evaluation.                                                    *)
Direct(h, kind, ip) == job' = [job EXCEPT ![h] = [at |-> "check", due |-> {<<kind, ip>>}]]

(* processProtocolEvent answers when the hit is in the queue. The alert of  *)
(* a trap names the address of the session its hit fell in, or the hit's;   *)
(* when that query fails the job ends as if the claim had failed.           *)
ProtocolEvent(h) ==
  /\ life \in {"up", "flushing"} /\ h \in ProtocolHit /\ place[h] = "unsent"
  /\ Enqueue(h)
  /\ Schedule(IpOf[h])
  /\ IF h \in Deception
     THEN \E ip \in Origins[h] : Direct(h, NodeOf[h], ip)
     ELSE UNCHANGED job
  /\ UNCHANGED <<final, life, promised, batch, settled, alertVars, stops>>

(* insertWebHit commits the row; its answer may be an error all the same,   *)
(* and then the handler ends, and a repetition is a duplicate that          *)
(* schedules nothing.                                                       *)
InsertWebHit(h) ==
  /\ life # "down" /\ h \in WebHit /\ place[h] = "unsent"
  /\ \/ /\ place' = Move({h}, "handled")
        /\ UNCHANGED settled
     \/ /\ place' = Move({h}, "stored")
        /\ settled' = settled \cup {h}
  /\ UNCHANGED <<flights, final, life, promised, pending, batch, job, alertVars, stops>>

(* The handler goes on after the insert. *)
WebHitInserted(h) ==
  /\ life # "down" /\ place[h] = "handled"
  /\ place' = Move({h}, "stored")
  /\ Schedule(IpOf[h])
  /\ IF h \in Canary THEN Direct(h, "canary", IpOf[h]) ELSE UNCHANGED job
  /\ UNCHANGED <<flights, final, life, promised, batch, settled, alertVars, stops>>

(* Events that are stored elsewhere (the sessions of modules/ingest) keep   *)
(* scheduling their addresses.                                              *)
OtherActivity(ip) ==
  /\ life \in {"up", "flushing"}
  /\ Schedule(ip)
  /\ UNCHANGED <<hitVars, batch, settled, job, alertVars, stops>>
-----------------------------------------------------------------------------
(* The drain *)

Evaluating == {ip \in Ip : job[ip] # Idle}
Lesser(a, b) == IF a < b THEN a ELSE b

(* Faulty: the tick does not look whether the last drain has ended. *)
DrainOverlaps ==
  /\ life # "down" /\ pending # <<>>
  /\ LET n == Lesser(MaxDrainBatch, Len(pending))
         w == Lesser(MaxConcurrent, n)
     IN /\ job' = [s \in Sender |-> IF s \in InQueue(SubSeq(pending, 1, w)) THEN Read ELSE job[s]]
        /\ batch' = batch \o SubSeq(pending, w + 1, n)
        /\ pending' = SubSeq(pending, n + 1, Len(pending))
  /\ UNCHANGED <<hitVars, settled, alertVars, stops>>

(* The tick of the cron, when no drain is under way (so runningThreatAlerts *)
(* is empty): the first addresses of the set become the batch, and the      *)
(* workers take the first of those.                                         *)
Drain ==
  /\ life # "down" /\ Evaluating = {} /\ pending # <<>>
  /\ LET n == Lesser(MaxDrainBatch, Len(pending))
         w == Lesser(MaxConcurrent, n)
     IN /\ job' = [s \in Sender |-> IF s \in InQueue(SubSeq(pending, 1, w)) THEN Read ELSE job[s]]
        /\ batch' = SubSeq(pending, w + 1, n)
        /\ pending' = SubSeq(pending, n + 1, Len(pending))
  /\ UNCHANGED <<hitVars, settled, alertVars, stops>>

(* The job s has the alerts due left to send. Without any, or by an error   *)
(* that runEvaluation or the direct alert swallows, it ends, and a worker   *)
(* takes the next address.                                                  *)
Proceed(s, due) ==
  IF due # {}
  THEN /\ job' = [job EXCEPT ![s] = [at |-> "check", due |-> due]]
       /\ UNCHANGED batch
  ELSE IF s \in Ip /\ batch # <<>>
  THEN /\ job' = [job EXCEPT ![s] = Idle, ![Head(batch)] = Read]
       /\ batch' = Tail(batch)
  ELSE /\ job' = [job EXCEPT ![s] = Idle]
       /\ UNCHANGED batch

(* The hits that evaluations are about. *)
Evaluated == {h \in Hit : IpOf[h] \notin Internal}

(* The hits of ip that have been accepted. Those that are queued for the    *)
(* tables or on their way are not in them.                                  *)
Accepted(ip) == {h \in Evaluated : IpOf[h] = ip /\ place[h] # "unsent"}

(* The queries of evaluateThreatAlert return, and any checks fire. *)
ReadHits(ip) ==
  /\ job[ip] = Read
  /\ settled' = settled \cup Accepted(ip)
  /\ \E due \in SUBSET Fires[ip] : Proceed(ip, due \X {ip})
  /\ UNCHANGED <<hitVars, pending, alertVars, stops>>

(* One of them fails: the evaluation ends and is not repeated. *)
ReadFails(ip) ==
  /\ job[ip] = Read
  /\ settled' = settled \cup Accepted(ip)
  /\ Proceed(ip, {})
  /\ UNCHANGED <<hitVars, pending, alertVars, stops>>
-----------------------------------------------------------------------------
(* sendAlertOnce *)

(* Faulty: the alerts stored so far are asked, so that two senders that     *)
(* ask before either has stored its own both send.                          *)
ClaimByAlerts(s, k) ==
  /\ job[s].at = "check" /\ k \in job[s].due
  /\ IF sent[k] > 0 \/ k \in wasted
     THEN /\ Proceed(s, job[s].due \ {k})
          /\ UNCHANGED live
     ELSE /\ job' = [job EXCEPT ![s] = [at |-> "send", due |-> @.due, key |-> k]]
          /\ live' = live \cup {k}
          /\ UNCHANGED batch
  /\ UNCHANGED <<hitVars, pending, settled, sent, wasted, stops>>

(* shouldSendAlert: one upsert claims the key, unless its cooldown lasts.   *)
(* The order of the checks is left open.                                    *)
Claim(s, k) ==
  /\ job[s].at = "check" /\ k \in job[s].due
  /\ IF k \in live
     THEN /\ Proceed(s, job[s].due \ {k})
          /\ UNCHANGED live
     ELSE /\ job' = [job EXCEPT ![s] = [at |-> "send", due |-> @.due, key |-> k]]
          /\ live' = live \cup {k}
          /\ UNCHANGED batch
  /\ UNCHANGED <<hitVars, pending, settled, sent, wasted, stops>>

(* The keys in a set of senders' hands that upserts under way may claim: at *)
(* most one for each sender.                                                *)
Claimable(senders) ==
  {c \in SUBSET ((UNION {job[s].due : s \in senders}) \ live) :
     \A s \in senders : Cardinality(c \cap job[s].due) <= 1}

(* The upsert fails, or its answer is lost and it has claimed the key for   *)
(* nothing: the alerts that are due are given up.                           *)
ClaimFails(s) ==
  /\ job[s].at = "check"
  /\ \E claimed \in Claimable({s}) : live' = live \cup claimed /\ wasted' = wasted \cup claimed
  /\ Proceed(s, {})
  /\ UNCHANGED <<hitVars, pending, settled, sent, stops>>

(* resolveClientId does not await the query for a sensor inside its try: an *)
(* error of it ends the alert of a hit, whose key stays claimed.            *)
AttributionFails(h) ==
  /\ h \in Hit /\ job[h].at = "send"
  /\ wasted' = wasted \cup {job[h].key}
  /\ Proceed(h, {})
  /\ UNCHANGED <<hitVars, pending, settled, live, sent, stops>>

(* The alert is stored and handed to the channels; their errors are         *)
(* swallowed.                                                               *)
Send(s) ==
  /\ job[s].at = "send"
  /\ sent' = [sent EXCEPT ![job[s].key] = @ + 1]
  /\ Proceed(s, job[s].due \ {job[s].key})
  /\ UNCHANGED <<hitVars, pending, settled, live, wasted, stops>>

Sending(k) == {s \in Sender : job[s].at = "send" /\ job[s].key = k}

(* A cooldown ends: minutes after its key was claimed, when the alert it    *)
(* was claimed for has long been sent or given up.                          *)
Expire(k) ==
  /\ k \in live /\ Sending(k) = {}
  /\ live' = live \ {k}
  /\ sent' = [sent EXCEPT ![k] = 0]
  /\ wasted' = wasted \ {k}
  /\ UNCHANGED <<hitVars, queueVars, job, stops>>
-----------------------------------------------------------------------------
(* main.ts *)

(* Faulty: the server is closed without waiting for the flush. *)
ShutdownAtOnce ==
  /\ life = "up" /\ stops < MaxStops
  /\ stops' = stops + 1
  /\ promised' = Queued
  /\ final' = Queued
  /\ flights' = flights \cup ({Queued} \ {{}})
  /\ place' = Move(Queued, "flying")
  /\ life' = "closing"
  /\ UNCHANGED <<queueVars, job, alertVars>>

(* SIGTERM: the timer is stopped and what is queued is flushed, while the   *)
(* server still accepts.                                                    *)
Shutdown ==
  /\ life = "up" /\ stops < MaxStops
  /\ stops' = stops + 1
  /\ promised' = Queued
  /\ final' = Queued
  /\ flights' = flights \cup ({Queued} \ {{}})
  /\ place' = Move(Queued, "flying")
  /\ life' = IF Queued = {} THEN "closing" ELSE "flushing"
  /\ UNCHANGED <<queueVars, job, alertVars>>

(* The memory of the process is gone. A statement that was under way is     *)
(* executed or not.                                                         *)
Die ==
  /\ life' = "down"
  /\ \E done \in SUBSET flights :
       place' = [h \in Hit |->
         IF place[h] = "handled" \/ h \in UNION done THEN "stored"
         ELSE IF place[h] \in {"queued", "flying"} THEN "lost"
         ELSE place[h]]
  /\ flights' = {}
  /\ final' = {}
  /\ pending' = <<>>
  /\ batch' = <<>>
  /\ settled' = {h \in Evaluated : place[h] # "unsent"}
  /\ job' = [s \in Sender |-> Idle]
  /\ \E claimed \in Claimable({s \in Sender : job[s].at = "check"}) :
       /\ live' = live \cup claimed
       /\ wasted' = wasted \cup claimed \cup {k \in Key : Sending(k) # {}}
  /\ UNCHANGED sent

(* app.close() has returned, and the process exits. *)
Exit ==
  /\ life = "closing"
  /\ Die
  /\ UNCHANGED <<promised, stops>>

Crash ==
  /\ life # "down" /\ stops < MaxStops
  /\ Die
  /\ promised' = {}
  /\ stops' = stops + 1

Boot ==
  /\ life = "down"
  /\ life' = "up"
  /\ promised' = {}
  /\ UNCHANGED <<place, flights, final, queueVars, job, alertVars, stops>>

Next ==
  \/ \E h \in Hit : ProtocolEvent(h) \/ InsertWebHit(h) \/ WebHitInserted(h)
                    \/ AttributionFails(h)
  \/ Flush \/ \E b \in flights : FlushEnds(b)
  \/ \E ip \in Ip : OtherActivity(ip) \/ ReadHits(ip) \/ ReadFails(ip)
  \/ Drain
  \/ \E s \in Sender : ClaimFails(s) \/ Send(s) \/ \E k \in Key : Claim(s, k)
  \/ \E k \in Key : Expire(k)
  \/ Shutdown \/ Exit \/ Crash \/ Boot

Spec == Init /\ [][Next]_vars

-----------------------------------------------------------------------------
(* A drain never runs more than MAX_CONCURRENT_EVALUATIONS evaluations, and *)
(* no worker is idle while its batch still holds addresses.                 *)
EvaluationsBounded ==
  /\ Cardinality(Evaluating) <= MaxConcurrent
  /\ batch # <<>> => Cardinality(Evaluating) = MaxConcurrent

(* An address waits once, and no two workers ever get the same address.     *)
EachIpOnce ==
  /\ \A i, j \in 1..Len(pending) : pending[i] = pending[j] => i = j
  /\ \A i, j \in 1..Len(batch) : batch[i] = batch[j] => i = j
  /\ InQueue(batch) \cap Evaluating = {}

(* Concurrent flushes never hold the same hit, and between them they hold   *)
(* every hit that has left the queue and is not settled.                    *)
BatchExact ==
  /\ UNION flights = {h \in Hit : place[h] = "flying"}
  /\ \A b, c \in flights : b # c => b \cap c = {}
  /\ Cardinality(Queued) < MaxSize

(* The three queues of the pipeline, whatever overlaps: see the parts.      *)
QueuesExact == EvaluationsBounded /\ EachIpOnce /\ BatchExact

(* A hit in the tables that no evaluation has read has its address waiting  *)
(* for one, whatever arrives while a drain is under way. The exceptions are *)
(* in settled too: the hit was in the batch still when the evaluation it    *)
(* asked for read the tables, or that evaluation or its insert failed, or   *)
(* the process stopped.                                                     *)
NoHitForgotten ==
  \A h \in Evaluated \ settled :
    place[h] \in {"queued", "flying", "stored"} =>
      \/ IpOf[h] \in InQueue(pending) \cup InQueue(batch)
      \/ job[IpOf[h]] = Read

(* A key that is claimed has one alert until it expires: it is on its way,  *)
(* was sent, or was given up after the claim; a key that is free has none.  *)
(* The hits of one attacker on one trap race for their key.                 *)
OneAlertPerCooldown ==
  \A k \in Key :
    sent[k] + Cardinality(Sending(k)) + (IF k \in wasted THEN 1 ELSE 0)
      = IF k \in live THEN 1 ELSE 0

(* What was queued at SIGTERM is stored, or its insert failed, before the   *)
(* server is closed.                                                        *)
FlushedAtShutdown ==
  life \in {"closing", "down"} => \A h \in promised : place[h] \in {"stored", "dropped"}

=============================================================================
