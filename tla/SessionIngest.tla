--------------------------- MODULE SessionIngest ---------------------------
(***************************************************************************)
(* The events of one Cowrie session on their way into the database: Vector *)
(* posts the log in batches (vector/conf.d/cowrie.toml), the handler of    *)
(* /ingest/cowrie/vector processes a batch event by event                  *)
(* (modules/ingest), and each event writes the session's row and its own   *)
(* (modules/sessions, modules/events).                                     *)
(*                                                                         *)
(* Vector delivers at least once: a request it gives up on may still be    *)
(* processed while its batch is sent again, and batches may overtake each  *)
(* other. Every database call is a step, for the API serves all requests   *)
(* between them. An event is named by its place in the log.                *)
(***************************************************************************)
EXTENDS Naturals, Sequences, FiniteSets

CONSTANTS Log,        \* the kinds of the session's events, in the order they happen
          None,
          Attempt,    \* requests of Vector that may be processed at once
          MaxBatch,   \* max_events of a batch
          MaxFaults   \* bound: failed calls, timeouts and restarts

Kinds == {"connect", "failed", "success", "command", "closed"}
Event == 1..Len(Log)

ASSUME LogAssumption == Log \in Seq(Kinds) /\ None \notin Event
(* Cowrie closes a session once. *)
ASSUME CloseAssumption ==
  \A d, e \in Event : Log[d] = "closed" /\ Log[e] = "closed" => d = e
ASSUME NoneAssumption == None \notin {"yes", "no"}
ASSUME BatchAssumption == MaxBatch \in Nat \ {0} /\ IsFiniteSet(Attempt)

VARIABLES
  next,       \* the first event that Vector has not sent yet
  buffer,     \* batches in its disk buffer that are to be sent again
  attempt,    \* attempt[a]: the handler of a request
  internal,   \* the session comes from an internal address
  row,        \* the row in sessions
  events,     \* the rows in session_events
  scheduled,  \* events whose address was handed on for an evaluation
  alerted,    \* how often a successful login was reported to Discord
  mirrored,   \* events handed on as hits of the trap node the session is on
  answered,   \* history: events of the batches Vector has had its 200 for
  reported,   \* history: events listed in the errors of an answer, or left out by one
  cutOff,     \* history: stored events whose handler did not go on
  early,      \* history: events handled as the close of a session that had no row
  dropped,    \* history: events left out for their internal address
  faults

tables == <<row, events>>
history == <<answered, reported, cutOff, early>>
inside == <<internal, mirrored, dropped>>
vars == <<next, buffer, attempt, inside, tables, scheduled, alerted, history, faults>>

NoRow == [login |-> None, startedAt |-> None, endedAt |-> None]
Idle == [at |-> "idle"]

(* waits: Vector still waits for the answer. event: the one in hand. due:   *)
(* ipsToEvaluate, as the events that put the address there. failed: errors. *)
Attempts == {Idle} \cup
  [at : {"lookup", "find", "upsert", "classify", "update", "create", "answer"}, first : Event,
   last : Event, event : Event, waits : BOOLEAN, due : SUBSET Event, failed : SUBSET Event]

TypeOK ==
  /\ next \in 1..(Len(Log) + 1)
  /\ buffer \subseteq Event \X Event
  /\ attempt \in [Attempt -> Attempts]
  /\ internal \in BOOLEAN
  /\ mirrored \subseteq Event
  /\ dropped \subseteq Event
  /\ row \in [login : {"yes", "no", None}, startedAt : Event \cup {None},
              endedAt : Event \cup {None}]
  /\ events \subseteq Event
  /\ scheduled \subseteq Event
  /\ alerted \in Nat
  /\ answered \subseteq Event
  /\ reported \subseteq Event
  /\ cutOff \subseteq Event
  /\ early \subseteq Event
  /\ faults \in Nat

Init ==
  /\ next = 1
  /\ buffer = {}
  /\ attempt = [a \in Attempt |-> Idle]
  /\ internal \in BOOLEAN
  /\ mirrored = {}
  /\ dropped = {}
  /\ row = NoRow
  /\ events = {}
  /\ scheduled = {}
  /\ alerted = 0
  /\ answered = {}
  /\ reported = {}
  /\ cutOff = {}
  /\ early = {}
  /\ faults = 0
-----------------------------------------------------------------------------
(* Vector *)

(* processLine begins with the sensor of an event from an internal address; *)
(* with the row, where the close of a session looks for it; or with one     *)
(* upsert.                                                                  *)
FirstStep(e) ==
  IF internal THEN "lookup" ELSE IF Log[e] = "closed" THEN "find" ELSE "upsert"

Handle(a, first, last) ==
  attempt' = [attempt EXCEPT ![a] =
    [at |-> FirstStep(first), first |-> first, last |-> last, event |-> first,
     waits |-> TRUE, due |-> {}, failed |-> {}]]

(* The next lines of the log are a batch. *)
Send(a) ==
  /\ attempt[a] = Idle
  /\ \E last \in Event :
       /\ last >= next /\ last < next + MaxBatch
       /\ Handle(a, next, last)
       /\ next' = last + 1
  /\ UNCHANGED <<buffer, inside, tables, scheduled, alerted, history, faults>>

(* A batch without an answer is sent again. *)
Resend(a) ==
  /\ attempt[a] = Idle
  /\ \E b \in buffer : Handle(a, b[1], b[2]) /\ buffer' = buffer \ {b}
  /\ UNCHANGED <<next, inside, tables, scheduled, alerted, history, faults>>

(* Vector gives a request up after timeout_secs, or the connection breaks;  *)
(* its handler goes on.                                                     *)
TimesOut(a) ==
  /\ faults < MaxFaults /\ faults' = faults + 1
  /\ attempt[a] # Idle /\ attempt[a].waits
  /\ attempt' = [attempt EXCEPT ![a].waits = FALSE]
  /\ buffer' = buffer \cup {<<attempt[a].first, attempt[a].last>>}
  /\ UNCHANGED <<next, inside, tables, scheduled, alerted, history>>
-----------------------------------------------------------------------------
(* The handler *)

Goto(a, at) == attempt' = [attempt EXCEPT ![a].at = at]

(* a with the event in hand dealt with, and with those that are due and     *)
(* that failed.                                                             *)
Onward(a, due, failed) ==
  LET t == attempt[a] IN
  attempt' = [attempt EXCEPT ![a] =
    [t EXCEPT !.due = due, !.failed = failed,
              !.event = IF @ = t.last THEN @ ELSE @ + 1,
              !.at = IF t.event = t.last THEN "answer" ELSE FirstStep(t.event + 1)]]

Kept(new, old) == IF new = None THEN old ELSE new

(* extractSessionData: what an event says about its session. *)
LoginOf(e) ==
  IF Log[e] = "success" THEN "yes" ELSE IF Log[e] = "failed" THEN "no" ELSE None

(* session.upsert: creates the row with this event as its start, or writes  *)
(* what the event says over what the row has.                               *)
Upserted(e) ==
  IF row = NoRow
  THEN [login |-> LoginOf(e), startedAt |-> e, endedAt |-> None]
  ELSE [row EXCEPT !.login = Kept(LoginOf(e), @)]

(* COWRIE_NOISE_EVENTS *)
Noise == {e \in Event : Log[e] \in {"connect", "closed"}}

(* isDeceptionSensor: of a session from an internal address only what       *)
(* happens on a trap node is kept, and none of the noise. The answer is     *)
(* cached for a while, and the sensor's row may come after the events.      *)
Lookup(a) ==
  LET t == attempt[a] IN
  /\ t.at = "lookup"
  /\ \/ t.event \notin Noise /\ Goto(a, "upsert") /\ UNCHANGED dropped
     \/ Onward(a, t.due, t.failed) /\ dropped' = dropped \cup {t.event}
  /\ UNCHANGED <<next, buffer, internal, mirrored, tables, scheduled, alerted, history, faults>>

Upsert(a) ==
  /\ attempt[a].at = "upsert"
  /\ row' = Upserted(attempt[a].event)
  /\ Goto(a, "create")
  /\ UNCHANGED <<next, buffer, inside, events, scheduled, alerted, history, faults>>

(* Faulty: the close of an unknown session goes on as if it were known. *)
FindNothing(a) ==
  /\ attempt[a].at = "find"
  /\ Goto(a, IF row = NoRow THEN "create" ELSE "classify")
  /\ UNCHANGED <<next, buffer, inside, tables, scheduled, alerted, history, faults>>

(* The close of a session that has no row is upserted like any event. *)
Find(a) ==
  /\ attempt[a].at = "find"
  /\ Goto(a, IF row = NoRow THEN "upsert" ELSE "classify")
  /\ early' = IF row = NoRow THEN early \cup {attempt[a].event} ELSE early
  /\ UNCHANGED <<next, buffer, inside, tables, scheduled, alerted, answered, reported, cutOff, faults>>

(* classifySession reads the session and its events; its verdict is left    *)
(* out.                                                                     *)
Classify(a) ==
  /\ attempt[a].at = "classify"
  /\ Goto(a, "update")
  /\ UNCHANGED <<next, buffer, inside, tables, scheduled, alerted, history, faults>>

Update(a) ==
  /\ attempt[a].at = "update"
  /\ row' = [row EXCEPT !.endedAt = attempt[a].event]
  /\ Goto(a, "create")
  /\ UNCHANGED <<next, buffer, inside, events, scheduled, alerted, history, faults>>

(* shouldEvaluateThreat *)
Evaluated == {e \in Event : Log[e] \in {"success", "failed", "command"}}

(* A new event of a trap node is a hit of the node too.                     *)
Mirror(e) ==
  mirrored' = IF internal /\ e \in Evaluated THEN mirrored \cup {e} ELSE mirrored

(* Faulty: a duplicate is taken for a new event. *)
CreateAnyway(a) ==
  LET e == attempt[a].event IN
  /\ attempt[a].at = "create"
  /\ events' = events \cup {e}
  /\ alerted' = IF Log[e] = "success" THEN alerted + 1 ELSE alerted
  /\ Mirror(e)
  /\ Onward(a, attempt[a].due \cup ({e} \cap Evaluated), attempt[a].failed)
  /\ UNCHANGED <<next, buffer, internal, dropped, row, scheduled, history, faults>>

(* createIfNotExists: skipDuplicates makes one attempt the one that created *)
(* the event, and only that one reports a login and queues the address.     *)
Create(a) ==
  LET e == attempt[a].event IN
  /\ attempt[a].at = "create"
  /\ events' = events \cup {e}
  /\ IF e \in events
     THEN /\ Onward(a, attempt[a].due, attempt[a].failed)
          /\ UNCHANGED <<alerted, mirrored>>
     ELSE /\ Onward(a, attempt[a].due \cup ({e} \cap Evaluated), attempt[a].failed)
          /\ alerted' = IF Log[e] = "success" THEN alerted + 1 ELSE alerted
          /\ Mirror(e)
  /\ UNCHANGED <<next, buffer, internal, dropped, row, scheduled, history, faults>>

(* Faulty: an error ends the loop, and the answer is 200 all the same. *)
FailsBatch(a) ==
  /\ faults < MaxFaults /\ faults' = faults + 1
  /\ attempt[a] # Idle /\ attempt[a].at # "answer"
  /\ attempt' = [attempt EXCEPT ![a].at = "answer", ![a].failed = @ \cup {attempt[a].event}]
  /\ UNCHANGED <<next, buffer, inside, tables, scheduled, alerted, history>>

(* A database call fails, before or after its effect: the error is noted,   *)
(* and the loop goes on with the next event.                                *)
Fails(a) ==
  LET t == attempt[a] IN
  /\ faults < MaxFaults /\ faults' = faults + 1
  /\ t # Idle /\ t.at # "answer"
  /\ Onward(a, t.due, t.failed \cup {t.event})
  /\ \/ UNCHANGED <<tables, cutOff>>
     \/ /\ t.at = "upsert"
        /\ row' = Upserted(t.event)
        /\ UNCHANGED <<events, cutOff>>
     \/ /\ t.at = "update"
        /\ row' = [row EXCEPT !.endedAt = t.event]
        /\ UNCHANGED <<events, cutOff>>
     \/ /\ t.at = "create"
        /\ events' = events \cup {t.event}
        /\ cutOff' = cutOff \cup ({t.event} \ events)
        /\ UNCHANGED row
  /\ UNCHANGED <<next, buffer, inside, scheduled, alerted, answered, reported, early>>

(* Faulty: a handler whose caller has gone queues nothing. *)
AnswerIfAwaited(a) ==
  LET t == attempt[a] IN
  /\ t.at = "answer"
  /\ scheduled' = IF t.waits THEN scheduled \cup t.due ELSE scheduled
  /\ answered' = IF t.waits THEN answered \cup t.first..t.last ELSE answered
  /\ reported' = IF t.waits THEN reported \cup t.failed ELSE reported
  /\ attempt' = [attempt EXCEPT ![a] = Idle]
  /\ UNCHANGED <<next, buffer, inside, tables, alerted, cutOff, early, faults>>

(* The addresses are handed to scheduleThreatAlert, which ignores internal  *)
(* ones, and the answer is 200, whatever failed.                            *)
Answer(a) ==
  LET t == attempt[a] IN
  /\ t.at = "answer"
  /\ scheduled' = scheduled \cup t.due
  /\ answered' = IF t.waits THEN answered \cup t.first..t.last ELSE answered
  /\ reported' = IF t.waits THEN reported \cup t.failed ELSE reported
  /\ attempt' = [attempt EXCEPT ![a] = Idle]
  /\ UNCHANGED <<next, buffer, inside, tables, alerted, cutOff, early, faults>>

(* Faulty: the batches in flight when the connection breaks are not kept.   *)
RestartDropsBatches ==
  /\ faults < MaxFaults /\ faults' = faults + 1
  /\ cutOff' = cutOff \cup UNION {attempt[a].due : a \in {x \in Attempt : attempt[x] # Idle}}
  /\ attempt' = [a \in Attempt |-> Idle]
  /\ UNCHANGED <<next, buffer, inside, tables, scheduled, alerted, answered, reported, early>>

(* The API restarts: what a handler has in hand is gone, and Vector sends   *)
(* the batches of the requests it was waiting for again.                    *)
Restart ==
  /\ faults < MaxFaults /\ faults' = faults + 1
  /\ buffer' = buffer \cup {<<attempt[a].first, attempt[a].last>> :
                             a \in {x \in Attempt : attempt[x] # Idle /\ attempt[x].waits}}
  /\ cutOff' = cutOff \cup UNION {attempt[a].due : a \in {x \in Attempt : attempt[x] # Idle}}
  /\ attempt' = [a \in Attempt |-> Idle]
  /\ UNCHANGED <<next, inside, tables, scheduled, alerted, answered, reported, early>>

HandlerStep(a) ==
  Lookup(a) \/ Upsert(a) \/ Find(a) \/ Classify(a) \/ Update(a) \/ Create(a) \/ Answer(a)

Next ==
  \/ \E a \in Attempt :
       Send(a) \/ Resend(a) \/ TimesOut(a) \/ HandlerStep(a) \/ Fails(a)
  \/ Restart

Spec == Init /\ [][Next]_vars

(* A handler runs to its end, and Vector goes on sending: old batches too.  *)
FairSpec ==
  /\ Spec
  /\ \A a \in Attempt : WF_vars(HandlerStep(a))
  /\ WF_vars(\E a \in Attempt : Send(a))
  /\ WF_vars(\E a \in Attempt : Resend(a))
-----------------------------------------------------------------------------
(* What Vector may forget is in the tables, or the answer that made it      *)
(* forget counted an error for it: a failure does not hide others. Only a   *)
(* session from an internal address has events that are answered as if they *)
(* were duplicates and are nowhere.                                         *)
LeftOut == IF internal THEN dropped ELSE {}
AnsweredIsStored == answered \subseteq events \cup reported \cup LeftOut

(* No event comes before its session, and the close of a session that is    *)
(* stored has ended it, in whatever order the attempts run; except a close  *)
(* that was handled before the session had a row: the upsert has no end to  *)
(* write, whether it creates the row or finds that another has by then, and *)
(* the session looks open until its close comes again.                      *)
CloseEndsSession ==
  /\ events # {} => row # NoRow
  /\ \A e \in events : Log[e] = "closed" => row.endedAt = e \/ e \in early

(* A stored successful login is reported once, however often its event      *)
(* comes and however many attempts have it in hand; one whose handler was   *)
(* cut off, at most once.                                                   *)
LoginReportedOnce ==
  LET Logins(S) == {e \in S : Log[e] = "success"} IN
  /\ alerted <= Cardinality(Logins(events))
  /\ alerted >= Cardinality(Logins(events \ cutOff))

(* A stored event that is worth an evaluation has its address handed on, or *)
(* a handler that will do it, unless that one was cut off: a repetition     *)
(* finds a duplicate and does nothing. On a trap node it is a hit too.      *)
StoredIsScheduled ==
  \A e \in (events \cap Evaluated) \ cutOff :
    /\ e \in scheduled \/ \E a \in Attempt : attempt[a] # Idle /\ e \in attempt[a].due
    /\ internal => e \in mirrored

(* Every event of the log is answered at last, and stays stored or counted  *)
(* as failed, through timeouts and restarts: batches wait on disk.          *)
EveryEventAnswered == <>(answered = Event)

=============================================================================
