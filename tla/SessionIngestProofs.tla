------------------------ MODULE SessionIngestProofs ------------------------
(***************************************************************************)
(* Proofs about SessionIngest, for a session of any length, any number of  *)
(* requests at once, batches of any size and any number of faults.         *)
(***************************************************************************)
EXTENDS SessionIngest, Integers, FiniteSetTheorems, TLAPS

Busy(a) == attempt[a] # Idle

(* The events of its batch that a handler has dealt with. *)
Done(t) == IF t.at = "answer" THEN t.first..t.last ELSE t.first..(t.event - 1)

(* A handler goes through its batch in order: what it has dealt with is     *)
(* stored, noted as failed or left out, what it has in hand has reached the *)
(* step it is at, and only what is stored is due. A close on its way into the       *)
(* events has ended the session, or came before the session had a row.      *)
Sound(a) == LET t == attempt[a] IN Busy(a) =>
  /\ t.first <= t.event /\ t.event <= t.last
  /\ t.at = "lookup" => internal
  /\ t.at \in {"find", "classify", "update"} => Log[t.event] = "closed"
  /\ t.at \in {"classify", "update", "create"} => row # NoRow
  /\ t.at = "upsert" /\ Log[t.event] = "closed" => t.event \in early
  /\ t.at = "create" /\ Log[t.event] = "closed" => row.endedAt = t.event \/ t.event \in early
  /\ Done(t) \subseteq events \cup t.failed \cup LeftOut
  /\ t.due \subseteq events

(* Only a session that has a row has an end, and its close is its end.      *)
RowSound ==
  /\ row # NoRow <=> row.startedAt # None
  /\ row = NoRow => row.endedAt = None
  /\ row.endedAt # None => Log[row.endedAt] = "closed"

Buffered == \A b \in buffer : b[1] <= b[2]

IInv ==
  /\ TypeOK /\ RowSound /\ Buffered /\ cutOff \subseteq events
  /\ \A a \in Attempt : Sound(a)
  /\ AnsweredIsStored /\ CloseEndsSession /\ StoredIsScheduled

LEMMA Lengths == /\ Len(Log) \in Nat /\ Event = 1..Len(Log) /\ Event \subseteq Nat
                 /\ \A e \in Event : Log[e] \in Kinds
BY LogAssumption DEF Event

LEMMA InitIInv == Init => IInv
<1> SUFFICES ASSUME Init PROVE IInv
  OBVIOUS
<1>1. TypeOK
  BY Lengths DEF Init, TypeOK, Attempts, NoRow
<1>2. RowSound /\ Buffered /\ \A a \in Attempt : Sound(a)
  BY DEF Init, RowSound, Buffered, Sound, Busy, NoRow
<1>. QED  BY <1>1, <1>2 DEF Init, IInv, AnsweredIsStored, CloseEndsSession, StoredIsScheduled

(* The fields of a handler. *)
LEMMA Fields ==
  ASSUME TypeOK, NEW a \in Attempt, attempt[a].at # "idle" \/ attempt[a] # Idle
  PROVE  /\ Busy(a)
         /\ attempt[a].at \in {"lookup", "find", "upsert", "classify", "update", "create", "answer"}
         /\ attempt[a].first \in Event /\ attempt[a].last \in Event /\ attempt[a].event \in Event
         /\ attempt[a].waits \in BOOLEAN
         /\ attempt[a].due \subseteq Event /\ attempt[a].failed \subseteq Event
         /\ attempt[a] \in [at : {"lookup", "find", "upsert", "classify", "update", "create", "answer"},
                            first : Event, last : Event, event : Event, waits : BOOLEAN,
                            due : SUBSET Event, failed : SUBSET Event]
BY DEF TypeOK, Attempts, Idle, Busy

(* A step of one handler leaves the others sound when the tables grow.      *)
Grows ==
  /\ row # NoRow => row' # NoRow
  /\ \A e \in Event : Log[e] = "closed" /\ row.endedAt = e => row'.endedAt = e
  /\ events \subseteq events' /\ early \subseteq early'
  /\ internal' = internal /\ LeftOut \subseteq LeftOut'

LEMMA OthersSound ==
  ASSUME IInv, Grows, NEW a \in Attempt, Sound(a)',
         \A x \in Attempt \ {a} : attempt'[x] = attempt[x]
  PROVE  \A x \in Attempt : Sound(x)'
<1> SUFFICES ASSUME NEW x \in Attempt, x # a PROVE Sound(x)'
  OBVIOUS
<1>1. Sound(x) /\ attempt'[x] = attempt[x] /\ TypeOK
  BY DEF IInv
<1>2. Busy(x) => attempt[x].event \in Event
  BY <1>1, Fields DEF Busy
<1>. QED  BY <1>1, <1>2 DEF Grows, Sound, Busy, Done

(* The next event of a batch, or its end. *)
LEMMA OnwardFields ==
  ASSUME TypeOK, NEW a \in Attempt, attempt[a] # Idle, attempt[a].at # "answer",
         attempt[a].first <= attempt[a].event, attempt[a].event <= attempt[a].last,
         NEW due \in SUBSET Event, NEW failed \in SUBSET Event, Onward(a, due, failed)
  PROVE  LET t == attempt[a] u == attempt'[a] IN
         /\ attempt' \in [Attempt -> Attempts]
         /\ \A x \in Attempt \ {a} : attempt'[x] = attempt[x]
         /\ u # Idle /\ u.due = due /\ u.failed = failed
         /\ u.first <= u.event /\ u.event <= u.last
         /\ u.at \in {"lookup", "find", "upsert", "answer"}
         /\ u.at = "lookup" => internal
         /\ u.at = "upsert" => Log[u.event] # "closed"
         /\ u.at = "find" => Log[u.event] = "closed"
         /\ Done(u) = Done(t) \cup {t.event}
<1> DEFINE t == attempt[a]
           more == t.event # t.last
           next1 == IF more THEN t.event + 1 ELSE t.event
           at1 == IF more THEN FirstStep(t.event + 1) ELSE "answer"
           u == [t EXCEPT !.due = due, !.failed = failed, !.event = next1, !.at = at1]
<1>1. /\ t \in [at : {"lookup", "find", "upsert", "classify", "update", "create", "answer"},
               first : Event, last : Event, event : Event, waits : BOOLEAN,
               due : SUBSET Event, failed : SUBSET Event]
      /\ t.first \in Nat /\ t.last \in Event /\ t.event \in Event /\ t.event \in Nat /\ t.last \in Nat
  BY Fields, Lengths
<1>2. next1 \in Event /\ t.event <= next1 /\ next1 <= t.last
  BY <1>1, Lengths
<1>3. /\ at1 \in {"lookup", "find", "upsert", "answer"}
      /\ at1 = "lookup" => internal
      /\ at1 = "upsert" => Log[next1] # "closed"
      /\ at1 = "find" => Log[next1] = "closed"
  BY DEF FirstStep
<1>4. attempt' = [attempt EXCEPT ![a] = u] /\ attempt \in [Attempt -> Attempts]
  BY DEF Onward, TypeOK
<1>5. /\ u \in [at : {"lookup", "find", "upsert", "classify", "update", "create", "answer"},
               first : Event, last : Event, event : Event, waits : BOOLEAN,
               due : SUBSET Event, failed : SUBSET Event]
      /\ u.due = due /\ u.failed = failed /\ u.event = next1 /\ u.at = at1
      /\ u.first = t.first /\ u.last = t.last
  <2> HIDE DEF next1, at1, t
  <2>. QED  BY <1>1, <1>2, <1>3
<1>6. Done(u) = Done(t) \cup {t.event}
  <2>1. Done(t) = t.first..(t.event - 1)
    BY DEF Done
  <2>2. CASE more
    <3>1. Done(u) = t.first..t.event
      <4>1. u.at # "answer" /\ u.event - 1 = t.event
        BY <1>1, <1>5, <2>2 DEF FirstStep
      <4>. QED  BY <1>5, <4>1 DEF Done
    <3>. QED  BY <1>1, <2>1, <3>1
  <2>3. CASE ~more
    <3>1. Done(u) = t.first..t.event
      BY <1>5, <2>3 DEF Done
    <3>. QED  BY <1>1, <2>1, <3>1
  <2>. QED  BY <2>2, <2>3
<1>7. attempt'[a] = u
  BY <1>4
<1>8. u \in Attempts /\ u # Idle
  <2> HIDE DEF u
  <2>. QED  BY <1>3, <1>5 DEF Attempts, Idle
<1>9. attempt' \in [Attempt -> Attempts] /\ \A x \in Attempt \ {a} : attempt'[x] = attempt[x]
  <2> HIDE DEF u
  <2>. QED  BY <1>4, <1>8
<1>10. u.first <= u.event /\ u.event <= u.last
  <2>1. t.first <= t.event /\ next1 \in Nat
    BY <1>2, Lengths
  <2> HIDE DEF u, at1, next1, t
  <2>. QED  BY <1>1, <1>2, <1>5, <2>1
<1>11. /\ u.at \in {"lookup", "find", "upsert", "answer"}
       /\ u.at = "lookup" => internal
       /\ u.at = "upsert" => Log[u.event] # "closed"
       /\ u.at = "find" => Log[u.event] = "closed"
  <2> HIDE DEF u, at1, next1, t
  <2>. QED  BY <1>3, <1>5
<1> HIDE DEF u, at1, next1
<1>. QED  BY <1>5, <1>6, <1>7, <1>8, <1>9, <1>10, <1>11
(* Nothing that a step stores, schedules or notes is taken back. *)
LEMMA HandleKeeps ==
  ASSUME IInv, NEW a \in Attempt, attempt[a] = Idle, NEW first \in Event, NEW last \in Event,
         first <= last, Handle(a, first, last), next' \in 1..(Len(Log) + 1), buffer' \subseteq Event \X Event,
         Buffered', UNCHANGED <<inside, tables, scheduled, alerted, history, faults>>
  PROVE  IInv'
<1> DEFINE t == [at |-> FirstStep(first), first |-> first, last |-> last, event |-> first,
                 waits |-> TRUE, due |-> {}, failed |-> {}]
<1>0. TypeOK /\ first \in Nat
  BY Lengths DEF IInv
<1>1. /\ FirstStep(first) \in {"lookup", "find", "upsert"}
      /\ FirstStep(first) = "lookup" => internal
      /\ FirstStep(first) = "upsert" => Log[first] # "closed"
      /\ FirstStep(first) = "find" => Log[first] = "closed"
  BY DEF FirstStep
<1>2. attempt' = [attempt EXCEPT ![a] = t]
  BY DEF Handle
<1>3. t \in Attempts /\ t # Idle
  BY <1>1 DEF Attempts, Idle
<1>4. /\ attempt' \in [Attempt -> Attempts] /\ attempt'[a] = t
      /\ \A x \in Attempt \ {a} : attempt'[x] = attempt[x]
  <2> HIDE DEF t
  <2>. QED  BY <1>0, <1>2, <1>3 DEF TypeOK, inside
<1>5. Done(t) = {}
  BY <1>0, <1>1 DEF Done
<1>6. Sound(a)'
  <2>1. Sound(a)' <=> LET u == attempt'[a] IN (u # Idle =>
          /\ u.first <= u.event /\ u.event <= u.last
          /\ u.at = "lookup" => internal
          /\ u.at \in {"find", "classify", "update"} => Log[u.event] = "closed"
          /\ u.at \in {"classify", "update", "create"} => row # NoRow
          /\ u.at = "upsert" /\ Log[u.event] = "closed" => u.event \in early
          /\ u.at = "create" /\ Log[u.event] = "closed" => row.endedAt = u.event \/ u.event \in early
          /\ Done(u) \subseteq events \cup u.failed \cup LeftOut
          /\ u.due \subseteq events)
    BY DEF Sound, Busy, Done, tables, history, inside, LeftOut
  <2>2. /\ t.first <= t.event /\ t.event <= t.last /\ t.at \in {"lookup", "find", "upsert"}
        /\ t.at = "lookup" => internal
        /\ t.at = "upsert" => Log[t.event] # "closed"
        /\ t.at = "find" => Log[t.event] = "closed"
        /\ t.due = {}
    BY <1>0, <1>1
  <2> HIDE DEF t
  <2>. QED  BY <1>4, <1>5, <2>1, <2>2
<1>7. Grows
  BY DEF Grows, tables, history, inside, LeftOut
<1>8. \A x \in Attempt : Sound(x)'
  BY <1>4, <1>6, <1>7, OthersSound
<1>9. TypeOK'
  BY <1>0, <1>4 DEF TypeOK, tables, history, inside
<1>10. StoredIsScheduled'
  BY <1>4 DEF IInv, StoredIsScheduled, tables, history, inside
<1>11. (RowSound /\ cutOff \subseteq events /\ AnsweredIsStored /\ CloseEndsSession)'
  BY DEF IInv, RowSound, AnsweredIsStored, CloseEndsSession, tables, history, inside, LeftOut
<1>. QED  BY <1>8, <1>9, <1>10, <1>11 DEF IInv

LEMMA SendKeeps == ASSUME IInv, NEW a \in Attempt, Send(a) PROVE IInv'
<1>1. PICK last \in Event : last >= next /\ Handle(a, next, last) /\ next' = last + 1
  BY DEF Send
<1>2. next \in Event /\ next \in Nat /\ last \in Nat /\ next' \in 1..(Len(Log) + 1)
  BY <1>1, Lengths DEF IInv, TypeOK, inside
<1>3. /\ attempt[a] = Idle /\ buffer' = buffer
      /\ UNCHANGED <<inside, tables, scheduled, alerted, history, faults>>
  BY DEF Send
<1>4. buffer' \subseteq Event \X Event /\ Buffered'
  BY <1>3 DEF IInv, TypeOK, Buffered, inside
<1>. QED  BY <1>1, <1>2, <1>3, <1>4, HandleKeeps

LEMMA ResendKeeps == ASSUME IInv, NEW a \in Attempt, Resend(a) PROVE IInv'
<1>1. PICK b \in buffer : Handle(a, b[1], b[2]) /\ buffer' = buffer \ {b}
  BY DEF Resend
<1>2. b[1] \in Event /\ b[2] \in Event /\ b[1] <= b[2]
  BY DEF IInv, TypeOK, Buffered, inside
<1>3. /\ attempt[a] = Idle /\ next' = next
      /\ UNCHANGED <<inside, tables, scheduled, alerted, history, faults>>
  BY DEF Resend
<1>4. /\ buffer' \subseteq Event \X Event /\ Buffered' /\ next' \in 1..(Len(Log) + 1)
  BY <1>1, <1>3 DEF IInv, TypeOK, Buffered, inside
<1>. QED  BY <1>1, <1>2, <1>3, <1>4, HandleKeeps
LEMMA TimesOutKeeps == ASSUME IInv, NEW a \in Attempt, TimesOut(a) PROVE IInv'
<1> DEFINE t == attempt[a]
           u == attempt'[a]
<1>0. /\ TypeOK /\ t # Idle /\ attempt' = [attempt EXCEPT ![a].waits = FALSE]
      /\ buffer' = buffer \cup {<<t.first, t.last>>} /\ faults' = faults + 1
      /\ UNCHANGED <<next, inside, tables, scheduled, alerted, history>>
      /\ Sound(a)
  BY DEF IInv, TimesOut
<1>1. /\ t \in [at : {"lookup", "find", "upsert", "classify", "update", "create", "answer"},
               first : Event, last : Event, event : Event, waits : BOOLEAN,
               due : SUBSET Event, failed : SUBSET Event]
      /\ t.first <= t.event /\ t.event <= t.last
      /\ t.first \in Nat /\ t.last \in Nat /\ t.event \in Nat
  BY <1>0, Fields, Lengths DEF Sound, Busy, inside, LeftOut
<1>2. /\ u = [t EXCEPT !.waits = FALSE] /\ \A x \in Attempt \ {a} : attempt'[x] = attempt[x]
  BY <1>0 DEF TypeOK, inside
<1>3. /\ u.at = t.at /\ u.first = t.first /\ u.last = t.last /\ u.event = t.event
      /\ u.due = t.due /\ u.failed = t.failed /\ u \in Attempts /\ u # Idle
  BY <1>1, <1>2 DEF Attempts, Idle
<1>4. attempt' \in [Attempt -> Attempts]
  <2>1. attempt' = [attempt EXCEPT ![a] = u] /\ attempt \in [Attempt -> Attempts]
    BY <1>0 DEF TypeOK, inside
  <2>. QED  BY <1>3, <2>1
<1>5. TypeOK' /\ Buffered'
  <2>1. t.first \in Event /\ t.last \in Event /\ t.first <= t.last
    BY <1>1
  <2>2. buffer' \subseteq Event \X Event /\ \A b \in buffer' : b[1] <= b[2]
    BY <1>0, <2>1 DEF IInv, TypeOK, Buffered, inside
  <2>. QED  BY <1>0, <1>4, <2>2 DEF TypeOK, Buffered, tables, history, inside
<1>6. Sound(a)' /\ Grows
  <2>1. Done(u) = Done(t)
    BY <1>3 DEF Done
  <2>. QED  BY <1>0, <1>3, <2>1 DEF Sound, Busy, Done, Grows, tables, history, inside, LeftOut
<1>7. \A x \in Attempt : Sound(x)'
  BY <1>2, <1>6, OthersSound
<1>8. StoredIsScheduled'
  BY <1>0, <1>2, <1>3 DEF IInv, StoredIsScheduled, tables, history, inside
<1>9. (RowSound /\ cutOff \subseteq events /\ AnsweredIsStored /\ CloseEndsSession)'
  BY <1>0 DEF IInv, RowSound, AnsweredIsStored, CloseEndsSession, tables, history, inside, LeftOut
<1>. QED  BY <1>5, <1>7, <1>8, <1>9 DEF IInv

(* A handler that moves on within its event. *)
LEMMA GotoFields ==
  ASSUME TypeOK, NEW a \in Attempt, attempt[a].at \in {"lookup", "find", "upsert", "classify", "update"},
         NEW at \in {"upsert", "classify", "update", "create"}, Goto(a, at)
  PROVE  LET t == attempt[a] u == attempt'[a] IN
         /\ attempt' \in [Attempt -> Attempts]
         /\ \A x \in Attempt \ {a} : attempt'[x] = attempt[x]
         /\ t # Idle /\ u # Idle /\ u.at = at /\ u.first = t.first /\ u.last = t.last
         /\ u.event = t.event /\ u.due = t.due /\ u.failed = t.failed /\ u.event \in Event
         /\ Done(u) = Done(t)
<1> DEFINE t == attempt[a]
           u == [t EXCEPT !.at = at]
<1>1. /\ t # Idle
      /\ t \in [at : {"lookup", "find", "upsert", "classify", "update", "create", "answer"},
               first : Event, last : Event, event : Event, waits : BOOLEAN,
               due : SUBSET Event, failed : SUBSET Event]
  BY Fields DEF Idle
<1>2. /\ u.at = at /\ u.first = t.first /\ u.last = t.last /\ u.event = t.event
      /\ u.due = t.due /\ u.failed = t.failed /\ u \in Attempts /\ u # Idle
  BY <1>1 DEF Attempts, Idle
<1>3. attempt' = [attempt EXCEPT ![a] = u] /\ attempt \in [Attempt -> Attempts]
  BY DEF Goto, TypeOK, inside
<1> HIDE DEF u
<1>4. /\ attempt' \in [Attempt -> Attempts] /\ attempt'[a] = u
      /\ \A x \in Attempt \ {a} : attempt'[x] = attempt[x]
  BY <1>2, <1>3
<1>5. Done(u) = Done(t)
  BY <1>2 DEF Done
<1>. QED  BY <1>1, <1>2, <1>4, <1>5

(* An attempt that is still in hand keeps what is due. *)
LEMMA ScheduledKept ==
  ASSUME IInv, NEW D, NEW a \in Attempt, attempt[a] # Idle, attempt'[a] # Idle,
         attempt'[a].due = attempt[a].due \cup D, scheduled' = scheduled,
         \A x \in Attempt \ {a} : attempt'[x] = attempt[x],
         (events' \cap Evaluated) \ cutOff' \subseteq ((events \cap Evaluated) \ cutOff) \cup D,
         internal' = internal, mirrored \subseteq mirrored', internal => D \subseteq mirrored'
  PROVE  StoredIsScheduled'
BY DEF IInv, StoredIsScheduled, Evaluated, inside

LEMMA ScheduledStays ==
  ASSUME IInv, NEW a \in Attempt, attempt[a] # Idle, attempt'[a] # Idle,
         attempt'[a].due = attempt[a].due, UNCHANGED <<scheduled, events, cutOff, internal, mirrored>>,
         \A x \in Attempt \ {a} : attempt'[x] = attempt[x]
  PROVE  StoredIsScheduled'
BY DEF IInv, StoredIsScheduled, Evaluated

LEMMA UpsertedKeeps ==
  ASSUME IInv, NEW e \in Event
  PROVE  LET r == Upserted(e) IN
         /\ r \in [login : {"yes", "no", None}, startedAt : Event \cup {None},
                   endedAt : Event \cup {None}]
         /\ r # NoRow /\ r.startedAt # None /\ r.endedAt = row.endedAt
<1>1. /\ row \in [login : {"yes", "no", None}, startedAt : Event \cup {None},
                   endedAt : Event \cup {None}]
      /\ row # NoRow <=> row.startedAt # None
      /\ row = NoRow => row.endedAt = None
  BY DEF IInv, TypeOK, RowSound, inside
<1>2. None \notin Event /\ LoginOf(e) \in {"yes", "no", None}
  BY LogAssumption DEF LoginOf
<1>3. Kept(LoginOf(e), row.login) \in {"yes", "no", None}
  BY <1>1, <1>2 DEF Kept
<1>4. CASE row = NoRow
  BY <1>1, <1>2, <1>4 DEF Upserted, NoRow
<1>5. CASE row # NoRow
  <2>1. Upserted(e) = [row EXCEPT !.login = Kept(LoginOf(e), row.login)]
    BY <1>5 DEF Upserted
  <2>. QED  BY <1>1, <1>3, <1>5, <2>1 DEF NoRow
<1>. QED  BY <1>4, <1>5

LEMMA UpsertKeeps == ASSUME IInv, NEW a \in Attempt, Upsert(a) PROVE IInv'
<1> DEFINE t == attempt[a]
           u == attempt'[a]
<1>0. /\ TypeOK /\ t.at = "upsert" /\ row' = Upserted(t.event) /\ Goto(a, "create")
      /\ UNCHANGED <<next, buffer, inside, events, scheduled, alerted, history, faults>> /\ Sound(a)
      /\ t.event \in Event
  BY Fields DEF IInv, Upsert
<1>1. /\ attempt' \in [Attempt -> Attempts] /\ t # Idle /\ u # Idle /\ u.at = "create"
      /\ u.first = t.first /\ u.last = t.last /\ u.event = t.event
      /\ u.due = t.due /\ u.failed = t.failed /\ Done(u) = Done(t)
      /\ \A x \in Attempt \ {a} : attempt'[x] = attempt[x]
  BY <1>0, GotoFields
<1>2. /\ row' \in [login : {"yes", "no", None}, startedAt : Event \cup {None},
                   endedAt : Event \cup {None}]
      /\ row' # NoRow /\ row'.startedAt # None /\ row'.endedAt = row.endedAt
  BY <1>0, UpsertedKeeps
<1>3. TypeOK'
  BY <1>0, <1>1, <1>2 DEF TypeOK, history, inside
<1>4. Grows
  BY <1>0, <1>2 DEF Grows, history, inside, LeftOut
<1>5. Sound(a)'
  BY <1>0, <1>1, <1>2 DEF Sound, Busy, Done, history, inside, LeftOut
<1>6. \A x \in Attempt : Sound(x)'
  BY <1>1, <1>4, <1>5, OthersSound
<1>7. StoredIsScheduled'
  <2>1. u.due = t.due /\ UNCHANGED <<scheduled, events, cutOff, internal, mirrored>>
    BY <1>0, <1>1 DEF inside, tables, history
  <2>. QED  BY <1>1, <2>1, ScheduledStays
<1>8. (RowSound /\ Buffered /\ cutOff \subseteq events /\ AnsweredIsStored /\ CloseEndsSession)'
  BY <1>0, <1>2 DEF IInv, RowSound, Buffered, AnsweredIsStored, CloseEndsSession, history, inside, LeftOut
<1>. QED  BY <1>3, <1>6, <1>7, <1>8 DEF IInv

LEMMA FindKeeps == ASSUME IInv, NEW a \in Attempt, Find(a) PROVE IInv'
<1> DEFINE t == attempt[a]
           u == attempt'[a]
           at == IF row = NoRow THEN "upsert" ELSE "classify"
<1>0. /\ TypeOK /\ t.at = "find" /\ Goto(a, at)
      /\ early' = IF row = NoRow THEN early \cup {t.event} ELSE early
      /\ UNCHANGED <<next, buffer, inside, row, events, scheduled, alerted, answered, reported, cutOff, faults>>
      /\ Sound(a) /\ t.event \in Event
  BY Fields DEF IInv, Find, tables, inside
<1>1. /\ attempt' \in [Attempt -> Attempts] /\ t # Idle /\ u # Idle /\ u.at = at
      /\ u.first = t.first /\ u.last = t.last /\ u.event = t.event
      /\ u.due = t.due /\ u.failed = t.failed /\ Done(u) = Done(t)
      /\ \A x \in Attempt \ {a} : attempt'[x] = attempt[x]
  BY <1>0, GotoFields
<1>2. TypeOK'
  BY <1>0, <1>1 DEF TypeOK, inside
<1>3. Grows
  BY <1>0 DEF Grows, inside, LeftOut
<1>4. Sound(a)'
  BY <1>0, <1>1 DEF Sound, Busy, Done, inside, LeftOut
<1>5. \A x \in Attempt : Sound(x)'
  BY <1>1, <1>3, <1>4, OthersSound
<1>6. StoredIsScheduled'
  <2>1. u.due = t.due /\ UNCHANGED <<scheduled, events, cutOff, internal, mirrored>>
    BY <1>0, <1>1 DEF inside, tables, history
  <2>. QED  BY <1>1, <2>1, ScheduledStays
<1>7. (RowSound /\ Buffered /\ cutOff \subseteq events /\ AnsweredIsStored /\ CloseEndsSession)'
  BY <1>0 DEF IInv, RowSound, Buffered, AnsweredIsStored, CloseEndsSession, inside, LeftOut
<1>. QED  BY <1>2, <1>5, <1>6, <1>7 DEF IInv

LEMMA ClassifyKeeps == ASSUME IInv, NEW a \in Attempt, Classify(a) PROVE IInv'
<1> DEFINE t == attempt[a]
           u == attempt'[a]
<1>0. /\ TypeOK /\ t.at = "classify" /\ Goto(a, "update")
      /\ UNCHANGED <<next, buffer, inside, tables, scheduled, alerted, history, faults>>
      /\ Sound(a)
  BY DEF IInv, Classify
<1>1. /\ attempt' \in [Attempt -> Attempts] /\ t # Idle /\ u # Idle /\ u.at = "update"
      /\ u.first = t.first /\ u.last = t.last /\ u.event = t.event
      /\ u.due = t.due /\ u.failed = t.failed /\ Done(u) = Done(t)
      /\ \A x \in Attempt \ {a} : attempt'[x] = attempt[x]
  BY <1>0, GotoFields
<1>2. TypeOK' /\ Grows
  BY <1>0, <1>1 DEF TypeOK, Grows, tables, history, inside, LeftOut
<1>3. Sound(a)'
  BY <1>0, <1>1 DEF Sound, Busy, Done, tables, history, inside, LeftOut
<1>4. \A x \in Attempt : Sound(x)'
  BY <1>1, <1>2, <1>3, OthersSound
<1>5. StoredIsScheduled'
  <2>1. u.due = t.due /\ UNCHANGED <<scheduled, events, cutOff, internal, mirrored>>
    BY <1>0, <1>1 DEF inside, tables, history
  <2>. QED  BY <1>1, <2>1, ScheduledStays
<1>6. (RowSound /\ Buffered /\ cutOff \subseteq events /\ AnsweredIsStored /\ CloseEndsSession)'
  BY <1>0 DEF IInv, RowSound, Buffered, AnsweredIsStored, CloseEndsSession, tables, history, inside, LeftOut
<1>. QED  BY <1>2, <1>4, <1>5, <1>6 DEF IInv

(* The end of a session is its only close, so that writing it again does    *)
(* not take the end of another away.                                        *)
LEMMA UpdatedKeeps ==
  ASSUME IInv, NEW e \in Event, Log[e] = "closed", row # NoRow,
         row' = [row EXCEPT !.endedAt = e]
  PROVE  /\ row' \in [login : {"yes", "no", None}, startedAt : Event \cup {None},
                      endedAt : Event \cup {None}]
         /\ row' # NoRow /\ row'.startedAt # None /\ row'.endedAt = e
         /\ \A d \in Event : Log[d] = "closed" => row'.endedAt = d
<1>1. /\ row \in [login : {"yes", "no", None}, startedAt : Event \cup {None},
                   endedAt : Event \cup {None}]
      /\ row.startedAt # None
  BY DEF IInv, TypeOK, RowSound, inside
<1>2. row'.endedAt = e /\ row'.startedAt # None
  BY <1>1
<1>3. row' # NoRow
  BY <1>2 DEF NoRow
<1>4. \A d \in Event : Log[d] = "closed" => row'.endedAt = d
  BY <1>2, CloseAssumption
<1>. QED  BY <1>1, <1>2, <1>3, <1>4

LEMMA UpdateKeeps == ASSUME IInv, NEW a \in Attempt, Update(a) PROVE IInv'
<1> DEFINE t == attempt[a]
           u == attempt'[a]
<1>0. /\ TypeOK /\ t.at = "update" /\ Goto(a, "create")
      /\ row' = [row EXCEPT !.endedAt = t.event]
      /\ UNCHANGED <<next, buffer, inside, events, scheduled, alerted, history, faults>>
      /\ Sound(a) /\ t.event \in Event
  BY Fields DEF IInv, Update
<1>1. /\ attempt' \in [Attempt -> Attempts] /\ t # Idle /\ u # Idle /\ u.at = "create"
      /\ u.first = t.first /\ u.last = t.last /\ u.event = t.event
      /\ u.due = t.due /\ u.failed = t.failed /\ Done(u) = Done(t)
      /\ \A x \in Attempt \ {a} : attempt'[x] = attempt[x]
  BY <1>0, GotoFields
<1>2. Log[t.event] = "closed" /\ row # NoRow
  BY <1>0, <1>1 DEF Sound, Busy, inside, LeftOut
<1>3. /\ row' \in [login : {"yes", "no", None}, startedAt : Event \cup {None},
                   endedAt : Event \cup {None}]
      /\ row' # NoRow /\ row'.startedAt # None /\ row'.endedAt = t.event
      /\ \A d \in Event : Log[d] = "closed" => row'.endedAt = d
  BY <1>0, <1>2, UpdatedKeeps
<1>4. TypeOK' /\ Grows
  BY <1>0, <1>1, <1>3 DEF TypeOK, Grows, history, inside, LeftOut
<1>5. Sound(a)'
  BY <1>0, <1>1, <1>2, <1>3 DEF Sound, Busy, Done, history, inside, LeftOut
<1>6. \A x \in Attempt : Sound(x)'
  BY <1>1, <1>4, <1>5, OthersSound
<1>7. StoredIsScheduled'
  <2>1. u.due = t.due /\ UNCHANGED <<scheduled, events, cutOff, internal, mirrored>>
    BY <1>0, <1>1 DEF inside, tables, history
  <2>. QED  BY <1>1, <2>1, ScheduledStays
<1>8. (RowSound /\ Buffered /\ cutOff \subseteq events /\ AnsweredIsStored)'
  BY <1>0, <1>2, <1>3 DEF IInv, RowSound, Buffered, AnsweredIsStored, history, inside, LeftOut
<1>9. CloseEndsSession'
  BY <1>0, <1>3 DEF IInv, TypeOK, CloseEndsSession, history, inside
<1>. QED  BY <1>4, <1>6, <1>8, <1>7, <1>9 DEF IInv

(* What a handler that goes on leaves: D is what became due, and the event  *)
(* it had in hand is stored or has failed.                                  *)
LEMMA OnwardKeeps ==
  ASSUME IInv, NEW a \in Attempt, attempt[a] # Idle, attempt[a].at # "answer",
         NEW D \in SUBSET Event, NEW failed \in SUBSET Event,
         Onward(a, attempt[a].due \cup D, failed), D \subseteq events', Grows,
         attempt[a].failed \subseteq failed, attempt[a].event \in events' \cup failed \cup LeftOut',
         mirrored \subseteq mirrored', internal => D \subseteq mirrored',
         scheduled' = scheduled,
         (events' \cap Evaluated) \ cutOff' \subseteq ((events \cap Evaluated) \ cutOff) \cup D
  PROVE  /\ attempt' \in [Attempt -> Attempts]
         /\ \A x \in Attempt : Sound(x)'
         /\ StoredIsScheduled'
<1> DEFINE t == attempt[a]
           u == attempt'[a]
<1>0. TypeOK /\ Sound(a)
  BY DEF IInv
<1>1. /\ t.first <= t.event /\ t.event <= t.last /\ Done(t) \subseteq events \cup t.failed \cup LeftOut
      /\ t.due \subseteq events /\ t.due \cup D \in SUBSET Event
  BY <1>0, Fields DEF Sound, Busy, inside, LeftOut
<1>2. /\ attempt' \in [Attempt -> Attempts]
      /\ \A x \in Attempt \ {a} : attempt'[x] = attempt[x]
      /\ u # Idle /\ u.due = t.due \cup D /\ u.failed = failed
      /\ u.first <= u.event /\ u.event <= u.last
      /\ u.at \in {"lookup", "find", "upsert", "answer"}
      /\ u.at = "lookup" => internal
      /\ u.at = "upsert" => Log[u.event] # "closed"
      /\ u.at = "find" => Log[u.event] = "closed"
      /\ Done(u) = Done(t) \cup {t.event}
  BY <1>0, <1>1, OnwardFields
<1>3. Done(u) \subseteq events' \cup u.failed \cup LeftOut' /\ u.due \subseteq events'
  BY <1>1, <1>2 DEF Grows, inside, LeftOut
<1>4. Sound(a)'
  <2>1. Done(attempt[a])' = Done(u)
    BY DEF Done
  <2> HIDE DEF t
  <2>. QED  BY <1>2, <1>3, <2>1 DEF Sound, Busy, Grows
<1>5. \A x \in Attempt : Sound(x)'
  BY <1>2, <1>4, OthersSound
<1>6. StoredIsScheduled'
  BY <1>2, ScheduledKept DEF Grows
<1>. QED  BY <1>2, <1>5, <1>6

(* The lookup goes on to store the event, or leaves it out. *)
LEMMA LookupKeeps == ASSUME IInv, NEW a \in Attempt, Lookup(a) PROVE IInv'
<1> DEFINE t == attempt[a]
           u == attempt'[a]
<1>0. /\ TypeOK /\ t.at = "lookup" /\ t # Idle /\ t.at # "answer" /\ Sound(a)
      /\ UNCHANGED <<next, buffer, internal, mirrored, row, events, scheduled, alerted,
                     answered, reported, cutOff, early, faults>>
      /\ t.event \in Event /\ t.due \subseteq Event /\ t.failed \subseteq Event
  BY Fields DEF IInv, Lookup, tables, history, Idle
<1>1. internal
  BY <1>0 DEF Sound, Busy
<1>2. CASE t.event \notin Noise /\ Goto(a, "upsert") /\ UNCHANGED dropped
  <2>1. /\ attempt' \in [Attempt -> Attempts] /\ u # Idle /\ u.at = "upsert"
        /\ u.first = t.first /\ u.last = t.last /\ u.event = t.event
        /\ u.due = t.due /\ u.failed = t.failed /\ Done(u) = Done(t)
        /\ \A x \in Attempt \ {a} : attempt'[x] = attempt[x]
    BY <1>0, <1>2, GotoFields
  <2>2. TypeOK' /\ Grows
    BY <1>0, <1>2, <2>1 DEF TypeOK, Grows, LeftOut
  <2>3. Log[t.event] # "closed"
    BY <1>0, <1>2 DEF Noise
  <2>4. Sound(a)'
    BY <1>0, <1>2, <2>1, <2>3 DEF Sound, Busy, Done, LeftOut
  <2>5. \A x \in Attempt : Sound(x)'
    BY <2>1, <2>2, <2>4, OthersSound
  <2>6. StoredIsScheduled'
    <3>1. u.due = t.due /\ UNCHANGED <<scheduled, events, cutOff, internal, mirrored>>
      BY <1>0, <2>1
    <3>. QED  BY <1>0, <2>1, <3>1, ScheduledStays
  <2>7. (RowSound /\ Buffered /\ cutOff \subseteq events /\ AnsweredIsStored /\ CloseEndsSession)'
    BY <1>0, <1>2 DEF IInv, RowSound, Buffered, AnsweredIsStored, CloseEndsSession, LeftOut
  <2>. QED  BY <2>2, <2>5, <2>6, <2>7 DEF IInv
<1>3. CASE Onward(a, t.due, t.failed) /\ dropped' = dropped \cup {t.event}
  <2>1. Grows /\ t.event \in LeftOut' /\ LeftOut \subseteq LeftOut'
    BY <1>0, <1>1, <1>3 DEF Grows, LeftOut
  <2>2. /\ attempt' \in [Attempt -> Attempts]
        /\ \A x \in Attempt : Sound(x)'
        /\ StoredIsScheduled'
    <3>1. Onward(a, t.due \cup {}, t.failed)
      <4>1. t.due \cup {} = t.due
        OBVIOUS
      <4>. QED  BY <1>3, <4>1
    <3>2. /\ {} \in SUBSET Event /\ {} \subseteq events' /\ {} \subseteq mirrored'
          /\ t.failed \in SUBSET Event /\ t.failed \subseteq t.failed
          /\ t.event \in events' \cup t.failed \cup LeftOut'
          /\ (events' \cap Evaluated) \ cutOff' \subseteq ((events \cap Evaluated) \ cutOff) \cup {}
          /\ scheduled' = scheduled /\ mirrored \subseteq mirrored'
      BY <1>0, <2>1
    <3>. QED  BY <1>0, <2>1, <3>1, <3>2, OnwardKeeps
  <2>3. TypeOK'
    BY <1>0, <1>3, <2>2 DEF TypeOK
  <2>4. (RowSound /\ Buffered /\ cutOff \subseteq events /\ AnsweredIsStored /\ CloseEndsSession)'
    BY <1>0, <2>1 DEF IInv, RowSound, Buffered, AnsweredIsStored, CloseEndsSession
  <2>. QED  BY <2>2, <2>3, <2>4 DEF IInv
<1>. QED  BY <1>0, <1>2, <1>3 DEF Lookup

LEMMA CreateKeeps == ASSUME IInv, NEW a \in Attempt, Create(a) PROVE IInv'
<1> DEFINE t == attempt[a]
           D == IF t.event \in events THEN {} ELSE {t.event} \cap Evaluated
<1>0. /\ TypeOK /\ t.at = "create" /\ events' = events \cup {t.event}
      /\ UNCHANGED <<next, buffer, internal, dropped, row, scheduled, history, faults>>
      /\ Sound(a) /\ t # Idle /\ t.event \in Event
      /\ t.due \subseteq Event /\ t.failed \subseteq Event
  BY Fields DEF IInv, Create, Idle
<1>1. Onward(a, t.due \cup D, t.failed)
  <2>1. CASE t.event \in events
    <3>1. t.due \cup D = t.due
      BY <2>1
    <3>. QED  BY <2>1, <3>1 DEF Create
  <2>2. CASE t.event \notin events
    BY <2>2 DEF Create
  <2>. QED  BY <2>1, <2>2
<1>2. /\ D \in SUBSET Event /\ D \subseteq events' /\ mirrored' \subseteq Event
      /\ mirrored \subseteq mirrored' /\ (internal => D \subseteq mirrored')
  BY <1>0 DEF Create, Mirror, TypeOK
<1>3. Grows
  BY <1>0 DEF Grows, history, inside, LeftOut
<1>4. (events' \cap Evaluated) \ cutOff' \subseteq ((events \cap Evaluated) \ cutOff) \cup D
  BY <1>0 DEF history, inside
<1>5. /\ attempt' \in [Attempt -> Attempts]
      /\ \A x \in Attempt : Sound(x)'
      /\ StoredIsScheduled'
  <2> HIDE DEF D
  <2>. QED  BY <1>0, <1>1, <1>2, <1>3, <1>4, OnwardKeeps
<1>6. alerted' \in Nat
  BY <1>0 DEF Create, TypeOK, inside
<1>7. TypeOK'
  BY <1>0, <1>2, <1>5, <1>6 DEF TypeOK, history, inside
<1>8. CloseEndsSession'
  <2>1. row # NoRow /\ (Log[t.event] = "closed" => row.endedAt = t.event \/ t.event \in early)
    BY <1>0 DEF Sound, Busy, inside, LeftOut
  <2>. QED  BY <1>0, <2>1 DEF IInv, CloseEndsSession, history, inside
<1>9. (RowSound /\ Buffered /\ cutOff \subseteq events /\ AnsweredIsStored)'
  BY <1>0 DEF IInv, RowSound, Buffered, AnsweredIsStored, history, inside, LeftOut
<1>. QED  BY <1>5, <1>7, <1>8, <1>9 DEF IInv

(* A call that fails has had its effect or not, and what it stored without  *)
(* the rest of its step is cut off.                                         *)
LEMMA FailsKeeps == ASSUME IInv, NEW a \in Attempt, Fails(a) PROVE IInv'
<1> DEFINE t == attempt[a]
<1>0. /\ TypeOK /\ t # Idle /\ t.at # "answer" /\ faults' = faults + 1
      /\ Onward(a, t.due, t.failed \cup {t.event})
      /\ UNCHANGED <<next, buffer, inside, scheduled, alerted, answered, reported, early>>
      /\ Sound(a) /\ t.event \in Event
      /\ t.due \subseteq Event /\ t.failed \cup {t.event} \in SUBSET Event
  BY Fields DEF IInv, Fails
<1>1. /\ row' \in [login : {"yes", "no", None}, startedAt : Event \cup {None},
                   endedAt : Event \cup {None}]
      /\ row # NoRow => row' # NoRow
      /\ \A d \in Event : Log[d] = "closed" /\ row.endedAt = d => row'.endedAt = d
      /\ RowSound'
      /\ events \subseteq events' /\ events' \subseteq Event
      /\ cutOff' \subseteq Event /\ cutOff' \subseteq events'
      /\ (events' \cap Evaluated) \ cutOff' \subseteq (events \cap Evaluated) \ cutOff
      /\ CloseEndsSession'
  <2>0. TypeOK /\ RowSound /\ cutOff \subseteq events /\ CloseEndsSession
    BY DEF IInv
  <2>1. CASE UNCHANGED <<tables, cutOff>>
    BY <1>0, <2>0, <2>1 DEF TypeOK, RowSound, CloseEndsSession, tables, inside
  <2>2. CASE t.at = "upsert" /\ row' = Upserted(t.event) /\ UNCHANGED <<events, cutOff>>
    <3>1. /\ row' \in [login : {"yes", "no", None}, startedAt : Event \cup {None},
                       endedAt : Event \cup {None}]
          /\ row' # NoRow /\ row'.startedAt # None /\ row'.endedAt = row.endedAt
      BY <1>0, <2>2, UpsertedKeeps
    <3>. QED  BY <1>0, <2>0, <2>2, <3>1 DEF TypeOK, RowSound, CloseEndsSession, inside
  <2>3. CASE t.at = "update" /\ row' = [row EXCEPT !.endedAt = t.event]
             /\ UNCHANGED <<events, cutOff>>
    <3>1. Log[t.event] = "closed" /\ row # NoRow
      BY <1>0, <2>3 DEF Sound, Busy, inside, LeftOut
    <3>2. /\ row' \in [login : {"yes", "no", None}, startedAt : Event \cup {None},
                       endedAt : Event \cup {None}]
          /\ row' # NoRow /\ row'.startedAt # None /\ row'.endedAt = t.event
          /\ \A d \in Event : Log[d] = "closed" => row'.endedAt = d
      BY <1>0, <2>3, <3>1, UpdatedKeeps
    <3>3. RowSound'
      BY <3>1, <3>2 DEF RowSound
    <3>4. CloseEndsSession'
      BY <1>0, <2>0, <2>3, <3>2 DEF TypeOK, CloseEndsSession, inside
    <3>. QED  BY <1>0, <2>0, <2>3, <3>2, <3>3, <3>4 DEF TypeOK, inside
  <2>4. CASE /\ t.at = "create" /\ events' = events \cup {t.event}
             /\ cutOff' = cutOff \cup ({t.event} \ events) /\ UNCHANGED row
    <3>1. row # NoRow /\ (Log[t.event] = "closed" => row.endedAt = t.event \/ t.event \in early)
      BY <1>0, <2>4 DEF Sound, Busy, inside, LeftOut
    <3>2. CloseEndsSession'
      BY <1>0, <2>0, <2>4, <3>1 DEF CloseEndsSession
    <3>. QED  BY <1>0, <2>0, <2>4, <3>2 DEF TypeOK, RowSound, inside
  <2>. QED  BY <2>1, <2>2, <2>3, <2>4 DEF Fails
<1>2. Grows
  BY <1>0, <1>1 DEF Grows, inside, LeftOut
<1>3. /\ attempt' \in [Attempt -> Attempts]
      /\ \A x \in Attempt : Sound(x)'
      /\ StoredIsScheduled'
  <2>1. t.due = t.due \cup {}
    OBVIOUS
  <2>2. Onward(a, t.due \cup {}, t.failed \cup {t.event})
    BY <1>0, <2>1
  <2>3. /\ {} \in SUBSET Event /\ {} \subseteq events' /\ t.failed \subseteq t.failed \cup {t.event}
        /\ t.event \in events' \cup (t.failed \cup {t.event})
        /\ (events' \cap Evaluated) \ cutOff' \subseteq ((events \cap Evaluated) \ cutOff) \cup {}
        /\ scheduled' = scheduled /\ mirrored \subseteq mirrored' /\ {} \subseteq mirrored'
    BY <1>0, <1>1 DEF inside
  <2>. QED  BY <1>0, <1>2, <2>2, <2>3, OnwardKeeps
<1>4. TypeOK'
  BY <1>0, <1>1, <1>3 DEF TypeOK, inside
<1>5. (Buffered /\ AnsweredIsStored)'
  BY <1>0, <1>1 DEF IInv, Buffered, AnsweredIsStored, inside, LeftOut
<1>. QED  BY <1>1, <1>3, <1>4, <1>5 DEF IInv

(* The answer covers what the handler has dealt with. *)
LEMMA AnswerKeeps == ASSUME IInv, NEW a \in Attempt, Answer(a) PROVE IInv'
<1> DEFINE t == attempt[a]
<1>0. /\ TypeOK /\ t # Idle /\ t.at = "answer" /\ Sound(a)
      /\ scheduled' = scheduled \cup t.due
      /\ answered' = IF t.waits THEN answered \cup t.first..t.last ELSE answered
      /\ reported' = IF t.waits THEN reported \cup t.failed ELSE reported
      /\ attempt' = [attempt EXCEPT ![a] = Idle]
      /\ UNCHANGED <<next, buffer, inside, tables, alerted, cutOff, early, faults>>
      /\ t.first \in Event /\ t.last \in Event
      /\ t.due \subseteq Event /\ t.failed \subseteq Event
  BY Fields DEF IInv, Answer, Idle
<1>1. t.first..t.last \subseteq Event /\ t.first..t.last \subseteq events \cup t.failed \cup LeftOut
  <2>1. Done(t) = t.first..t.last /\ Done(t) \subseteq events \cup t.failed \cup LeftOut
    BY <1>0 DEF Sound, Busy, Done, inside, LeftOut
  <2>. QED  BY <1>0, <2>1, Lengths
<1>2. /\ attempt' \in [Attempt -> Attempts] /\ attempt'[a] = Idle
      /\ \A x \in Attempt \ {a} : attempt'[x] = attempt[x]
  BY <1>0 DEF TypeOK, Attempts, inside
<1>3. TypeOK'
  <2>1. answered' \subseteq Event /\ reported' \subseteq Event /\ scheduled' \subseteq Event
    BY <1>0, <1>1 DEF TypeOK, inside
  <2>. QED  BY <1>0, <1>2, <2>1 DEF TypeOK, tables, inside
<1>4. Sound(a)' /\ Grows
  BY <1>0, <1>2 DEF Sound, Busy, Grows, tables, inside, LeftOut
<1>5. \A x \in Attempt : Sound(x)'
  BY <1>2, <1>4, OthersSound
<1>6. AnsweredIsStored'
  BY <1>0, <1>1 DEF IInv, AnsweredIsStored, tables, inside, LeftOut
<1>7. StoredIsScheduled'
  <2>0. \A e \in (events \cap Evaluated) \ cutOff : internal => e \in mirrored
    BY DEF IInv, StoredIsScheduled
  <2> SUFFICES ASSUME NEW e \in (events \cap Evaluated) \ cutOff, e \notin scheduled'
               PROVE  \E x \in Attempt : attempt'[x] # Idle /\ e \in attempt'[x].due
    BY <1>0, <2>0 DEF StoredIsScheduled, tables, Evaluated, inside
  <2>1. PICK x \in Attempt : attempt[x] # Idle /\ e \in attempt[x].due
    BY <1>0 DEF IInv, StoredIsScheduled, inside
  <2>2. x # a
    BY <1>0, <2>1
  <2>. QED  BY <1>2, <2>1, <2>2
<1>8. (RowSound /\ Buffered /\ cutOff \subseteq events /\ CloseEndsSession)'
  BY <1>0 DEF IInv, RowSound, Buffered, CloseEndsSession, tables, inside
<1>. QED  BY <1>3, <1>5, <1>6, <1>7, <1>8 DEF IInv

(* What is due in a handler that a restart ends is cut off. *)
LEMMA RestartKeeps == ASSUME IInv, Restart PROVE IInv'
<1> DEFINE cut == UNION {attempt[a].due : a \in {x \in Attempt : attempt[x] # Idle}}
           sent == {<<attempt[a].first, attempt[a].last>> :
                      a \in {x \in Attempt : attempt[x] # Idle /\ attempt[x].waits}}
<1>0. /\ TypeOK /\ faults' = faults + 1
      /\ buffer' = buffer \cup sent /\ cutOff' = cutOff \cup cut
      /\ attempt' = [a \in Attempt |-> Idle]
      /\ UNCHANGED <<next, inside, tables, scheduled, alerted, answered, reported, early>>
  BY DEF IInv, Restart
<1>1. ASSUME NEW a \in Attempt, attempt[a] # Idle
      PROVE  /\ attempt[a].first \in Event /\ attempt[a].last \in Event
             /\ attempt[a].first <= attempt[a].last /\ attempt[a].due \subseteq events
  <2>1. /\ attempt[a].first \in Event /\ attempt[a].last \in Event /\ attempt[a].event \in Event
        /\ Sound(a)
    BY <1>0, <1>1, Fields DEF IInv
  <2>. QED  BY <1>1, <2>1, Lengths DEF Sound, Busy, inside, LeftOut
<1>2. cut \subseteq events
  BY <1>1
<1>3. sent \subseteq Event \X Event /\ \A b \in sent : b[1] <= b[2]
  BY <1>1
<1>4. TypeOK' /\ Buffered'
  <2>1. attempt' \in [Attempt -> Attempts]
    BY <1>0 DEF Attempts
  <2>2. buffer' \subseteq Event \X Event /\ Buffered'
    <3> HIDE DEF sent
    <3>. QED  BY <1>0, <1>3 DEF IInv, TypeOK, Buffered, inside
  <2>3. cutOff' \subseteq Event
    <3> HIDE DEF cut
    <3>. QED  BY <1>0, <1>2 DEF TypeOK, inside
  <2>. QED  BY <1>0, <2>1, <2>2, <2>3 DEF TypeOK, tables, inside
<1>5. \A x \in Attempt : Sound(x)'
  BY <1>0 DEF Sound, Busy, inside, LeftOut
<1>6. StoredIsScheduled'
  <2>0. \A e \in (events \cap Evaluated) \ cutOff : internal => e \in mirrored
    BY DEF IInv, StoredIsScheduled
  <2> SUFFICES ASSUME NEW e \in (events \cap Evaluated) \ cutOff', e \notin scheduled PROVE FALSE
    BY <1>0, <2>0 DEF StoredIsScheduled, tables, Evaluated, inside
  <2>1. PICK x \in Attempt : attempt[x] # Idle /\ e \in attempt[x].due
    BY <1>0 DEF IInv, StoredIsScheduled, inside
  <2>2. e \in cut
    BY <2>1
  <2>. QED  BY <1>0, <2>2
<1>7. (cutOff \subseteq events)'
  <2> HIDE DEF cut
  <2>. QED  BY <1>0, <1>2 DEF IInv, tables, inside
<1>8. (RowSound /\ AnsweredIsStored /\ CloseEndsSession)'
  BY <1>0 DEF IInv, RowSound, AnsweredIsStored, CloseEndsSession, tables, inside, LeftOut
<1>. QED  BY <1>4, <1>5, <1>6, <1>7, <1>8 DEF IInv

LEMMA IInvNext == IInv /\ [Next]_vars => IInv'
<1> SUFFICES ASSUME IInv, [Next]_vars PROVE IInv'
  OBVIOUS
<1>1. CASE UNCHANGED vars
  <2>1. UNCHANGED <<next, buffer, attempt, internal, mirrored, dropped, row, events, scheduled, alerted, answered, reported,
                    cutOff, early, faults>>
    BY <1>1 DEF vars, tables, history, inside
  <2>2. \A a \in Attempt : Sound(a)'
    BY <2>1 DEF IInv, Sound, Busy, Done, inside, LeftOut
  <2>. QED  BY <2>1, <2>2 DEF IInv, TypeOK, RowSound, Buffered, AnsweredIsStored,
                              CloseEndsSession, StoredIsScheduled, inside, LeftOut
<1>2. CASE Restart
  BY <1>2, RestartKeeps
<1>3. ASSUME NEW a \in Attempt,
             Send(a) \/ Resend(a) \/ TimesOut(a) \/ HandlerStep(a) \/ Fails(a)
      PROVE  IInv'
  BY <1>3, SendKeeps, ResendKeeps, TimesOutKeeps, FailsKeeps, UpsertKeeps, FindKeeps,
     ClassifyKeeps, LookupKeeps, UpdateKeeps, CreateKeeps, AnswerKeeps DEF HandlerStep
<1>. QED  BY <1>1, <1>2, <1>3 DEF Next

THEOREM IInvHolds == Spec => []IInv
BY InitIInv, IInvNext, PTL DEF Spec
-----------------------------------------------------------------------------
(* The variables have their types, whatever the session and its faults.     *)
THEOREM SessionTypeCorrect == Spec => []TypeOK
<1>1. IInv => TypeOK
  BY DEF IInv
<1>. QED  BY <1>1, IInvHolds, PTL

(* What Vector has its 200 for is stored or was counted as failed: however  *)
(* many attempts have a batch in hand, and whatever fails in them.          *)
THEOREM AnswersAreHonest == Spec => []AnsweredIsStored
<1>1. IInv => AnsweredIsStored
  BY DEF IInv
<1>. QED  BY <1>1, IInvHolds, PTL

(* No event is stored before its session, and a stored close has ended it,  *)
(* unless it was handled before the session had a row.                      *)
THEOREM StoredCloseEnds == Spec => []CloseEndsSession
<1>1. IInv => CloseEndsSession
  BY DEF IInv
<1>. QED  BY <1>1, IInvHolds, PTL

(* What is stored and worth an evaluation is queued for one, or in the hand *)
(* of a handler that will queue it, unless a fault cut that handler off.    *)
THEOREM StoredGetsEvaluated == Spec => []StoredIsScheduled
<1>1. IInv => StoredIsScheduled
  BY DEF IInv
<1>. QED  BY <1>1, IInvHolds, PTL
-----------------------------------------------------------------------------
Logins(S) == {e \in S : Log[e] = "success"}

LEMMA Counted ==
  LoginReportedOnce <=> /\ alerted <= Cardinality(Logins(events))
                        /\ alerted >= Cardinality(Logins(events \ cutOff))
BY DEF LoginReportedOnce, Logins

LEMMA LoginsCount ==
  ASSUME NEW S \in SUBSET Event
  PROVE  /\ IsFiniteSet(Logins(S)) /\ Cardinality(Logins(S)) \in Nat
         /\ \A T \in SUBSET S : Cardinality(Logins(T)) <= Cardinality(Logins(S))
         /\ \A e \in Event \ S : Cardinality(Logins(S \cup {e})) =
              IF Log[e] = "success" THEN Cardinality(Logins(S)) + 1 ELSE Cardinality(Logins(S))
<1>1. IsFiniteSet(Event)
  BY Lengths, FS_Interval
<1>2. IsFiniteSet(Logins(S)) /\ Cardinality(Logins(S)) \in Nat
  BY <1>1, FS_Subset, FS_CardinalityType DEF Logins
<1>3. ASSUME NEW T \in SUBSET S PROVE Cardinality(Logins(T)) <= Cardinality(Logins(S))
  <2>1. Logins(T) \subseteq Logins(S)
    BY DEF Logins
  <2>. QED  BY <1>2, <2>1, FS_Subset
<1>4. ASSUME NEW e \in Event \ S
      PROVE  Cardinality(Logins(S \cup {e})) =
               IF Log[e] = "success" THEN Cardinality(Logins(S)) + 1 ELSE Cardinality(Logins(S))
  <2>1. CASE Log[e] = "success"
    <3>1. Logins(S \cup {e}) = Logins(S) \cup {e} /\ e \notin Logins(S)
      BY <2>1 DEF Logins
    <3>. QED  BY <1>2, <2>1, <3>1, FS_AddElement
  <2>2. CASE Log[e] # "success"
    <3>1. Logins(S \cup {e}) = Logins(S)
      BY <2>2 DEF Logins
    <3>. QED  BY <2>2, <3>1
  <2>. QED  BY <2>1, <2>2
<1>. QED  BY <1>2, <1>3, <1>4

(* Only the attempt that stores a login reports it, in the same step unless *)
(* a fault comes between.                                                   *)
LEMMA LoginsNext == IInv /\ LoginReportedOnce /\ [Next]_vars => LoginReportedOnce'
<1> SUFFICES ASSUME IInv, LoginReportedOnce, [Next]_vars PROVE LoginReportedOnce'
  OBVIOUS
<1> DEFINE all == Cardinality(Logins(events))
           whole == Cardinality(Logins(events \ cutOff))
           all1 == Cardinality(Logins(events'))
           whole1 == Cardinality(Logins(events' \ cutOff'))
<1>1. /\ events \subseteq Event /\ cutOff \subseteq events /\ alerted \in Nat
      /\ events \ cutOff \in SUBSET Event
  BY DEF IInv, TypeOK
<1>2. alerted <= all /\ alerted >= whole /\ all \in Nat /\ whole \in Nat
  BY <1>1, Counted, LoginsCount
<1>3. ASSUME alerted' <= all1, alerted' >= whole1 PROVE LoginReportedOnce'
  BY <1>3 DEF LoginReportedOnce, Logins
<1>4. CASE UNCHANGED <<alerted, events, cutOff>>
  BY <1>2, <1>3, <1>4
<1>5. ASSUME NEW a \in Attempt, Create(a) PROVE LoginReportedOnce'
  <2> DEFINE e == attempt[a].event
  <2>1. e \in Event /\ events' = events \cup {e} /\ cutOff' = cutOff
    BY <1>5, Fields DEF IInv, Create, history
  <2>2. CASE e \in events
    <3>1. events' = events /\ alerted' = alerted
      BY <1>5, <2>1, <2>2 DEF Create
    <3>. QED  BY <1>4, <2>1, <3>1
  <2>3. CASE e \notin events
    <3>1. alerted' = IF Log[e] = "success" THEN alerted + 1 ELSE alerted
      BY <1>5, <2>3 DEF Create
    <3>2. events' \ cutOff' = (events \ cutOff) \cup {e}
      BY <1>1, <2>1, <2>3
    <3>3. all1 = IF Log[e] = "success" THEN all + 1 ELSE all
      BY <1>1, <2>1, <2>3, LoginsCount
    <3>4. whole1 = IF Log[e] = "success" THEN whole + 1 ELSE whole
      <4>1. e \in Event \ (events \ cutOff)
        BY <2>1, <2>3
      <4>2. Cardinality(Logins((events \ cutOff) \cup {e})) =
              IF Log[e] = "success" THEN whole + 1 ELSE whole
        <5> HIDE DEF e
        <5>. QED  BY <1>1, <4>1, LoginsCount
      <4>. QED  BY <3>2, <4>2
    <3> HIDE DEF all, whole, all1, whole1, e
    <3>5. alerted' <= all1 /\ alerted' >= whole1
      BY <1>1, <1>2, <3>1, <3>3, <3>4
    <3>. QED  BY <1>3, <3>5
  <2>. QED  BY <2>2, <2>3
<1>6. ASSUME alerted' = alerted, events \subseteq events', events' \subseteq Event,
             events' \ cutOff' \subseteq events \ cutOff
      PROVE  LoginReportedOnce'
  <2>1. all <= all1 /\ all1 \in Nat
    <3>1. events' \in SUBSET Event /\ events \in SUBSET events'
      BY <1>6
    <3>. QED  BY <3>1, LoginsCount
  <2>2. whole1 <= whole /\ whole1 \in Nat
    <3>1. events' \ cutOff' \in SUBSET Event /\ events' \ cutOff' \in SUBSET (events \ cutOff)
      BY <1>6
    <3>. QED  BY <1>1, <3>1, LoginsCount
  <2> HIDE DEF all, whole, all1, whole1
  <2>3. alerted' <= all1 /\ alerted' >= whole1
    BY <1>1, <1>2, <1>6, <2>1, <2>2
  <2>. QED  BY <1>3, <2>3
<1>7. ASSUME NEW a \in Attempt, Fails(a) PROVE LoginReportedOnce'
  <2>1. attempt[a].event \in Event /\ alerted' = alerted
    BY <1>7, Fields DEF IInv, Fails
  <2>2. \/ UNCHANGED <<events, cutOff>>
        \/ /\ events' = events \cup {attempt[a].event}
           /\ cutOff' = cutOff \cup ({attempt[a].event} \ events)
    BY <1>7 DEF Fails, tables
  <2>3. /\ events \subseteq events' /\ events' \subseteq Event
        /\ events' \ cutOff' \subseteq events \ cutOff
    BY <1>1, <2>1, <2>2
  <2>. QED  BY <1>6, <2>1, <2>3
<1>8. CASE Restart
  <2>1. events' = events /\ alerted' = alerted /\ cutOff \subseteq cutOff'
    BY <1>8 DEF Restart, tables
  <2>. QED  BY <1>1, <1>6, <2>1
<1>9. ASSUME NEW a \in Attempt,
             \/ Send(a) \/ Resend(a) \/ TimesOut(a) \/ Lookup(a) \/ Upsert(a) \/ Find(a)
             \/ Classify(a) \/ Update(a) \/ Answer(a)
      PROVE  UNCHANGED <<alerted, events, cutOff>>
  BY <1>9 DEF Send, Resend, TimesOut, Lookup, Upsert, Find, Classify, Update, Answer, tables, history
<1>10. CASE UNCHANGED vars
  BY <1>4, <1>10 DEF vars, tables, history
<1>. QED  BY <1>4, <1>5, <1>7, <1>8, <1>9, <1>10 DEF Next, HandlerStep

(* A stored successful login is reported once, and at most once when its    *)
(* handler was cut off: for any number of logins and of attempts.           *)
THEOREM LoginsReportedOnce == Spec => []LoginReportedOnce
<1>1. Init => LoginReportedOnce
  <2> SUFFICES ASSUME Init PROVE LoginReportedOnce
    OBVIOUS
  <2>1. Logins(events) = {} /\ Logins(events \ cutOff) = {} /\ alerted = 0
    BY DEF Init, Logins
  <2>. QED  BY <2>1, Counted, FS_EmptySet
<1>. QED  BY <1>1, LoginsNext, IInvHolds, PTL DEF Spec
=============================================================================
