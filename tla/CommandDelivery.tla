--------------------------- MODULE CommandDelivery ---------------------------
(***************************************************************************)
(* Delivery of remote-control commands to one sensor: operators queue and  *)
(* cancel rows over REST; the server claims queued rows and hands them to  *)
(* the sensor over a WebSocket or in the answer of an HTTP poll; the agent *)
(* runs a handler and reports; a sweep expires what never finished.        *)
(* Sensors share no state here (every query filters on sensorId), so the   *)
(* module describes one sensor.                                            *)
(***************************************************************************)
EXTENDS Naturals, FiniteSets, Sequences, SensorCommandState

CONSTANTS MaxCommands,   \* bound: how many commands are ever queued
          ConfigApply,   \* those whose action is config.apply, not status.get
          Conn,          \* identities of WebSocket connections (each used once)
          NoConn,        \* "no connection"
          Rest,          \* REST requests that may be in progress together
          Poll,          \* the server side of an HTTP poll
          DeliverLimit,  \* findDeliverable's limit (5 in the code)
          Thread,        \* the agent's threads, "ws" and "poll"
          MaxFaults      \* bound: crashes, restarts, HTTP timeouts and
                         \* failing queries

(* Commands are named by their place in createdAt order. *)
Command == 1..MaxCommands

ASSUME BoundsAssumption == /\ MaxCommands \in Nat
                           /\ DeliverLimit \in Nat \ {0}
                           /\ ConfigApply \subseteq Nat
                           /\ Thread \subseteq {"ws", "poll"}
                           /\ MaxFaults \in Nat

ASSUME NamesAssumption == /\ NoConn \notin Conn
                          /\ Rest \cap Conn = {}
                          /\ Poll \notin Rest \cup Conn

(* Everything that runs attemptDelivery or claimDeliverable: a REST        *)
(* request, the hello of a connection, a poll.                             *)
Delivery == Rest \cup Conn \cup {Poll}

VARIABLES
    status,     \* sensor_commands.status of every row
    elapsed,    \* the commands whose expiresAt has passed
    sweep,      \* what the expiry sweep in progress has read (Absent: not read)
    registry,   \* the in-memory connection registry's entry for this sensor
    socket,     \* the server's end of each connection
    worker,     \* progress of each delivery on the server
    chain,      \* frames of each connection, in order: on the wire to the
                \* server, then in its promise chain
    posts,      \* HTTP reports in flight or being handled, the agent waiting
    late,       \* the same for reports whose request has timed out
    envelopes,  \* command messages on their way: <<command, place>>
    link,       \* the connection the agent's WebSocket thread holds
    wsUp,       \* ControlAgent._ws_connected
    seen,       \* ControlAgent._seen
    thread,     \* what the agent's two threads are doing
    runs,       \* history: how often the handler of each command has run
    faults,     \* how much of MaxFaults is used
    cutShort,   \* history: since the last look for commands that found room
                \* for all, a delivery left some: a query failed, or its limit
    unrecorded  \* history: commands one of whose reports over a socket was
                \* dropped because a query failed

database == <<status, elapsed, sweep>>
server   == <<registry, socket, worker, chain>>
agent    == <<link, wsUp, seen, thread>>
http     == <<posts, late>>
bounds   == <<faults, cutShort, unrecorded>>
vars     == <<database, server, http, envelopes, agent, runs, bounds>>

-----------------------------------------------------------------------------
(* A job of a connection's promise chain, or a report posted over HTTP.    *)
(* "read" is the status its transaction has read, Absent before it does.   *)
Reports == {"ack", "nack", "running", "succeeded", "failed"}

Report(type, c) == [type |-> type, cmd |-> c, read |-> Absent]

HelloJob == [type |-> "deliver", cmd |-> 0, read |-> Absent]

Job == [type : Reports, cmd : Command, read : RowState] \cup {HelloJob}

(* The status a report asks for. *)
Target(type) == IF type = "ack" THEN "acked"
                ELSE IF type = "nack" THEN "failed"
                ELSE type

(* Where a command message can be: claimed by a delivery that has not sent *)
(* it yet, on the wire of a connection, or in the answer to a poll.        *)
Claimed(d) == <<"worker", d>>
Wire(k)    == <<"wire", k>>
Batch      == <<"batch", Poll>>
Place == ({"worker"} \X Delivery) \cup ({"wire"} \X Conn) \cup {Batch}

At(p)        == {c \in Command : <<c, p>> \in envelopes}
Drop(p)      == {e \in envelopes : e[2] # p}
MoveTo(p, q) == Drop(p) \cup (At(p) \X {q})

Oldest(c, S) == c \in S /\ \A x \in S : c <= x

WorkerState == [pc   : {"idle", "get", "find", "claim"},
                conn : Conn \cup {NoConn},
                todo : SUBSET Command]
IdleWorker == [pc |-> "idle", conn |-> NoConn, todo |-> {}]

ThreadState == [pc  : {"idle", "polling", "ack", "handler", "apply"},
                cmd : Command \cup {0}]
IdleThread == [pc |-> "idle", cmd |-> 0]

TypeOK ==
    /\ status \in [Command -> RowState]
    /\ elapsed \subseteq Command
    /\ sweep \in [Command -> Pending \cup {Absent}]
    /\ registry \in Conn \cup {NoConn}
    /\ socket \in [Conn -> {"unused", "open", "closing", "gone"}]
    /\ worker \in [Delivery -> WorkerState]
    /\ chain \in [Conn -> Seq(Job)]
    /\ posts \subseteq Job \ {HelloJob}
    /\ late \subseteq Job \ {HelloJob}
    /\ envelopes \subseteq Command \X Place
    /\ link \in Conn \cup {NoConn}
    /\ wsUp \in BOOLEAN
    /\ seen \subseteq Command
    /\ thread \in [Thread -> ThreadState]
    /\ runs \in [Command -> Nat]
    /\ faults \in Nat
    /\ cutShort \in BOOLEAN
    /\ unrecorded \subseteq Command

Init ==
    /\ status = [c \in Command |-> Absent]
    /\ elapsed = {}
    /\ sweep = [c \in Command |-> Absent]
    /\ registry = NoConn
    /\ socket = [k \in Conn |-> "unused"]
    /\ worker = [d \in Delivery |-> IdleWorker]
    /\ chain = [k \in Conn |-> <<>>]
    /\ posts = {}
    /\ late = {}
    /\ envelopes = {}
    /\ link = NoConn
    /\ wsUp = FALSE
    /\ seen = {}
    /\ thread = [t \in Thread |-> IdleThread]
    /\ runs = [c \in Command |-> 0]
    /\ faults = 0
    /\ cutShort = FALSE
    /\ unrecorded = {}

-----------------------------------------------------------------------------
(* REST: queue, replay, cancel. The expireQueued() each handler starts     *)
(* with is SweepRead and SweepWrite, which may happen at any time; one     *)
(* sweep is in progress at a time, and one poll is served at a time.       *)

(* queueStatusGet / queueConfigApply with a new idempotency key.           *)
Create(r, c) ==
    /\ worker[r].pc = "idle"
    /\ status[c] = Absent
    /\ \A x \in Command : x < c => status[x] # Absent
    /\ status' = [status EXCEPT ![c] = "queued"]
    /\ worker' = [worker EXCEPT ![r].pc = "get"]
    /\ UNCHANGED <<elapsed, sweep, registry, socket, chain, http, envelopes,
                   agent, runs, bounds>>

(* The same with a key seen before: nothing is created, delivery is tried. *)
Replay(r) ==
    /\ worker[r].pc = "idle"
    /\ \E c \in Command : status[c] # Absent
    /\ worker' = [worker EXCEPT ![r].pc = "get"]
    /\ UNCHANGED <<database, registry, socket, chain, http, envelopes,
                   agent, runs, bounds>>

(* Faulty: a command already handed out can still be cancelled.            *)
CancelUnfinished(c) ==
    /\ status[c] \in {"queued", "sent"}
    /\ status' = [status EXCEPT ![c] = "cancelled"]
    /\ UNCHANGED <<elapsed, sweep, server, http, envelopes, agent, runs, bounds>>

(* cancelQueued: the read and the guarded update take effect as one, since *)
(* a row that left "queued" in between is refused either way.              *)
Cancel(c) ==
    /\ status[c] = "queued"
    /\ status' = [status EXCEPT ![c] = "cancelled"]
    /\ UNCHANGED <<elapsed, sweep, server, http, envelopes, agent, runs, bounds>>

-----------------------------------------------------------------------------
(* attemptDelivery and claimDeliverable, one database call or one          *)
(* synchronous stretch of code per step.                                   *)

(* A delivery ends; the promise chain that ran it moves to its next job.   *)
Finish(d) ==
    /\ worker' = [worker EXCEPT ![d] = IdleWorker]
    /\ chain' = IF d \in Conn THEN [chain EXCEPT ![d] = Tail(@)] ELSE chain

(* The first job of a connection's chain is the delivery queued by hello.  *)
StartHelloDelivery(k) ==
    /\ chain[k] # <<>> /\ Head(chain[k]).type = "deliver"
    /\ worker[k].pc = "idle"
    /\ worker' = [worker EXCEPT ![k].pc = "get"]
    /\ UNCHANGED <<database, registry, socket, chain, http, envelopes,
                   agent, runs, bounds>>

(* connectionRegistry.get(sensorId): whichever connection is there now.    *)
GetConnection(d) ==
    /\ worker[d].pc = "get"
    /\ IF registry = NoConn
         THEN Finish(d)
         ELSE /\ worker' = [worker EXCEPT ![d].pc = "find", ![d].conn = registry]
              /\ UNCHANGED chain
    /\ UNCHANGED <<database, registry, socket, http, envelopes, agent, runs, bounds>>

(* findDeliverable: the oldest rows still queued and not expired.          *)
Ready == {c \in Command \ elapsed : status[c] = "queued"}

Deliverable == {c \in Ready : Cardinality({x \in Ready : x < c}) < DeliverLimit}

Find(d) ==
    /\ worker[d].pc = "find"
    /\ worker' = [worker EXCEPT ![d].pc = "claim", ![d].todo = Deliverable]
    /\ cutShort' = (Deliverable # Ready)
    /\ UNCHANGED <<database, registry, socket, chain, http, envelopes,
                   agent, runs, faults, unrecorded>>

(* Faulty: the update does not look at the status.                         *)
MarkSentBlindly(d, c) ==
    /\ worker[d].pc = "claim" /\ Oldest(c, worker[d].todo)
    /\ worker' = [worker EXCEPT ![d].todo = @ \ {c}]
    /\ status' = [status EXCEPT ![c] = "sent"]
    /\ envelopes' = envelopes \cup {<<c, Claimed(d)>>}
    /\ UNCHANGED <<elapsed, sweep, registry, socket, chain, http, agent, runs, bounds>>

(* markSent: a compare-and-set on "queued"; losing it skips the command.   *)
MarkSent(d, c) ==
    /\ worker[d].pc = "claim" /\ Oldest(c, worker[d].todo)
    /\ worker' = [worker EXCEPT ![d].todo = @ \ {c}]
    /\ IF status[c] = "queued"
         THEN /\ status' = [status EXCEPT ![c] = "sent"]
              /\ envelopes' = envelopes \cup {<<c, Claimed(d)>>}
         ELSE UNCHANGED <<status, envelopes>>
    /\ UNCHANGED <<elapsed, sweep, registry, socket, chain, http, agent, runs, bounds>>

(* The loop over connection.send(): frames go out if the socket is OPEN    *)
(* and are lost otherwise. Once too much is buffered, send() closes the    *)
(* socket instead and the rest is lost: the frames that made it are a      *)
(* prefix in createdAt order.                                              *)
SendFrames(d) ==
    LET k == worker[d].conn
        all == At(Claimed(d))
    IN  /\ d # Poll
        /\ worker[d].pc = "claim" /\ worker[d].todo = {}
        /\ Finish(d)
        /\ \/ /\ socket[k] = "open"
              /\ envelopes' = MoveTo(Claimed(d), Wire(k))
              /\ UNCHANGED socket
           \/ /\ socket[k] = "open"
              /\ \E c \in all : envelopes' =
                    Drop(Claimed(d)) \cup ({x \in all : x < c} \X {Wire(k)})
              /\ socket' = [socket EXCEPT ![k] = "closing"]
           \/ /\ socket[k] # "open"
              /\ envelopes' = Drop(Claimed(d))
              /\ UNCHANGED socket
        /\ UNCHANGED <<database, registry, http, agent, runs, bounds>>

(* The answer to a poll; lost when the agent no longer waits for it.       *)
AnswerPoll ==
    /\ worker[Poll].pc = "claim" /\ worker[Poll].todo = {}
    /\ Finish(Poll)
    /\ IF thread["poll"].pc = "polling"
         THEN /\ thread' = [thread EXCEPT !["poll"] = IdleThread]
              /\ envelopes' = MoveTo(Claimed(Poll), Batch)
         ELSE /\ envelopes' = Drop(Claimed(Poll))
              /\ UNCHANGED thread
    /\ UNCHANGED <<database, registry, socket, http, link, wsUp, seen, runs, bounds>>

(* A database call fails: what the delivery had claimed is never sent.     *)
AbortDelivery(d) ==
    /\ faults < MaxFaults
    /\ worker[d].pc \in {"find", "claim"}
    /\ faults' = faults + 1
    /\ cutShort' = TRUE
    /\ Finish(d)
    /\ envelopes' = Drop(Claimed(d))
    /\ UNCHANGED <<database, registry, socket, http, agent, runs, unrecorded>>

-----------------------------------------------------------------------------
(* Connections, as seen from the deliveries; ConnectionRegistry has the    *)
(* whole handshake.                                                        *)

(* Faulty: hello does not look for commands queued earlier.                *)
HelloWithoutDelivery(k) ==
    /\ "ws" \in Thread
    /\ link = NoConn /\ thread["ws"].pc = "idle"
    /\ socket[k] = "unused"
    /\ link' = k
    /\ registry' = k
    /\ socket' = [x \in Conn |-> CASE x = k -> "open"
                                   [] x = registry /\ socket[x] = "open" -> "closing"
                                   [] OTHER -> socket[x]]
    /\ UNCHANGED <<database, worker, chain, http, envelopes, wsUp, seen, thread, runs, bounds>>

(* The agent connects and the server accepts its hello: the registry's old *)
(* entry is closed and replaced, and a delivery is chained.                *)
Hello(k) ==
    /\ "ws" \in Thread
    /\ link = NoConn /\ thread["ws"].pc = "idle"
    /\ socket[k] = "unused"
    /\ link' = k
    /\ registry' = k
    /\ socket' = [x \in Conn |-> CASE x = k -> "open"
                                   [] x = registry /\ socket[x] = "open" -> "closing"
                                   [] OTHER -> socket[x]]
    /\ chain' = [chain EXCEPT ![k] = <<HelloJob>>]
    /\ UNCHANGED <<database, worker, http, envelopes, wsUp, seen, thread, runs, bounds>>

(* The agent reads hello.accepted.                                         *)
HelloAccepted ==
    /\ link # NoConn /\ ~wsUp
    /\ wsUp' = TRUE
    /\ UNCHANGED <<database, server, http, envelopes, link, seen, thread, runs, bounds>>

(* closeWithReason: connection_timeout and the like.                       *)
ServerCloses(k) ==
    /\ socket[k] = "open"
    /\ socket' = [socket EXCEPT ![k] = "closing"]
    /\ UNCHANGED <<database, registry, worker, chain, http, envelopes, agent, runs, bounds>>

(* The first job of the chain has begun.                                   *)
InProgress(k) == /\ chain[k] # <<>>
                 /\ Head(chain[k]).type = "deliver" \/ Head(chain[k]).read # Absent

(* The socket's 'close' or 'error' event: cleanup() compares and deletes.  *)
(* Frames the server has not received are lost, jobs already chained stay. *)
SocketGone(k) ==
    /\ socket[k] \in {"open", "closing"}
    /\ socket' = [socket EXCEPT ![k] = "gone"]
    /\ registry' = IF registry = k THEN NoConn ELSE registry
    /\ \E n \in (IF InProgress(k) THEN 1 ELSE 0)..Len(chain[k]) :
          chain' = [chain EXCEPT ![k] = SubSeq(@, 1, n)]
    /\ UNCHANGED <<database, worker, http, envelopes, agent, runs, bounds>>

(* The agent's WebSocket thread finds the connection broken, while waiting *)
(* for a frame or when a send raises: commands it has not read are lost,   *)
(* and one whose ack or running report could not be sent is given up.      *)
LinkDown ==
    /\ link # NoConn
    /\ thread["ws"].pc \in {"idle", "ack", "handler"}
    /\ link' = NoConn
    /\ wsUp' = FALSE
    /\ thread' = [thread EXCEPT !["ws"] = IdleThread]
    /\ envelopes' = Drop(Wire(link))
    /\ UNCHANGED <<database, server, http, seen, runs, bounds>>

(* The server process dies and comes back: rows survive, the registry and  *)
(* every delivery, chain and request in memory do not.                     *)
ServerCrash ==
    /\ faults < MaxFaults
    /\ faults' = faults + 1
    /\ registry' = NoConn
    /\ socket' = [k \in Conn |-> IF socket[k] = "unused" THEN "unused" ELSE "gone"]
    /\ worker' = [d \in Delivery |-> IdleWorker]
    /\ chain' = [k \in Conn |-> <<>>]
    /\ posts' = {} /\ late' = {}
    /\ sweep' = [c \in Command |-> Absent]
    /\ envelopes' = {e \in envelopes : e[2][1] # "worker"}
    /\ UNCHANGED <<status, elapsed, agent, runs, cutShort, unrecorded>>

(* The agent process restarts: its dedup window and its threads are gone.  *)
AgentRestart ==
    /\ faults < MaxFaults
    /\ faults' = faults + 1
    /\ link' = NoConn
    /\ wsUp' = FALSE
    /\ seen' = {}
    /\ thread' = [t \in Thread |-> IdleThread]
    /\ envelopes' = {e \in envelopes : e[2][1] = "worker"}
    /\ UNCHANGED <<database, server, http, runs, cutShort, unrecorded>>

-----------------------------------------------------------------------------
(* Expiry and confirmation.                                                *)

(* expiresAt passes: 60s after queueing for status.get, 90s for            *)
(* config.apply.                                                           *)
Elapse(c) ==
    /\ status[c] # Absent /\ c \notin elapsed
    /\ elapsed' = elapsed \cup {c}
    /\ UNCHANGED <<status, sweep, server, http, envelopes, agent, runs, bounds>>

(* expireQueued, first half: findMany outside the transaction.             *)
(* Faulty: only rows never delivered are swept.                            *)
OverdueQueued == {c \in elapsed : status[c] = "queued"}

Overdue == {c \in elapsed : status[c] \in Pending}

SweepRead ==
    /\ \A c \in Command : sweep[c] = Absent
    /\ Overdue # {}
    /\ sweep' = [c \in Command |-> IF c \in Overdue THEN status[c] ELSE Absent]
    /\ UNCHANGED <<status, elapsed, server, http, envelopes, agent, runs, bounds>>

(* Faulty: the update does not compare the status with the one read.       *)
SweepWriteBlindly ==
    /\ \E c \in Command : sweep[c] # Absent
    /\ status' = [c \in Command |-> IF sweep[c] # Absent THEN "expired" ELSE status[c]]
    /\ sweep' = [c \in Command |-> Absent]
    /\ UNCHANGED <<elapsed, server, http, envelopes, agent, runs, bounds>>

(* Second half: one transaction, each row updated only if its status is    *)
(* still the one that was read.                                            *)
SweepWrite ==
    /\ \E c \in Command : sweep[c] # Absent
    /\ status' = [c \in Command |-> IF sweep[c] # Absent /\ status[c] = sweep[c]
                                      THEN "expired" ELSE status[c]]
    /\ sweep' = [c \in Command |-> Absent]
    /\ UNCHANGED <<elapsed, server, http, envelopes, agent, runs, bounds>>

(* confirmConfigApplied: a heartbeat may complete a running config.apply.  *)
(* Which one, and whether its hash matches, is SensorConfig's subject.     *)
HeartbeatConfirms(c) ==
    /\ c \in ConfigApply
    /\ status[c] = "running"
    /\ status' = [status EXCEPT ![c] = "succeeded"]
    /\ UNCHANGED <<elapsed, sweep, server, http, envelopes, agent, runs, bounds>>

-----------------------------------------------------------------------------
(* routeClientMessage: markAcked, markRunning and markResult all read the  *)
(* row, consult the table, and update only if the status is still the one  *)
(* read. The next job of a chain starts when the previous one is done;     *)
(* HTTP reports are handled independently of each other.                   *)

(* The report is refused: no such transition, or the row moved meanwhile.  *)
Refused(m) == \/ m.read = Absent  /\ ~CanTransition(status[m.cmd], Target(m.type))
              \/ m.read # Absent  /\ status[m.cmd] # m.read

(* What handling a report for one more step does to the database.          *)
Apply(m) == status' = IF m.read = Absent \/ Refused(m)
                        THEN status
                        ELSE [status EXCEPT ![m.cmd] = Target(m.type)]

WithRead(m) == [m EXCEPT !.read = status[m.cmd]]

(* Faulty: handlers of one connection run side by side.                    *)
ChainStepAnywhere(k) ==
    \E i \in 1..Len(chain[k]) :
        LET m == chain[k][i]
        IN  /\ m.type # "deliver"
            /\ Apply(m)
            /\ chain' = [chain EXCEPT ![k] =
                    IF m.read = Absent /\ ~Refused(m)
                      THEN [@ EXCEPT ![i] = WithRead(m)]
                      ELSE SubSeq(@, 1, i - 1) \o SubSeq(@, i + 1, Len(@))]
            /\ UNCHANGED <<elapsed, sweep, registry, socket, worker, http, envelopes,
                           agent, runs, bounds>>

ChainStep(k) ==
    /\ chain[k] # <<>> /\ Head(chain[k]).type # "deliver"
    /\ LET m == Head(chain[k])
       IN  /\ Apply(m)
           /\ chain' = [chain EXCEPT ![k] = IF m.read = Absent /\ ~Refused(m)
                                              THEN <<WithRead(m)>> \o Tail(@)
                                              ELSE Tail(@)]
    /\ UNCHANGED <<elapsed, sweep, registry, socket, worker, http, envelopes,
                   agent, runs, bounds>>

(* The set of reports left when one of them is handled for one more step.  *)
Stepped(S, m) == IF m \in S /\ m.read = Absent /\ ~Refused(m)
                   THEN (S \ {m}) \cup {WithRead(m)}
                   ELSE S \ {m}

PostStep(m) ==
    /\ m \in posts \cup late
    /\ Apply(m)
    /\ \/ m \in posts /\ posts' = Stepped(posts, m) /\ UNCHANGED late
       \/ m \in late  /\ late' = Stepped(late, m)   /\ UNCHANGED posts
    /\ UNCHANGED <<elapsed, sweep, server, envelopes, agent, runs, bounds>>

(* A query of a report's handler fails. On a connection that is caught and *)
(* logged, the row stays as it was and the chain goes on; over HTTP the    *)
(* request is answered with an error the agent only logs. An update that   *)
(* was committed although its answer was lost is the ordinary step.        *)
ReportFails(k) ==
    /\ faults < MaxFaults
    /\ faults' = faults + 1
    /\ chain[k] # <<>> /\ Head(chain[k]).type # "deliver"
    /\ chain' = [chain EXCEPT ![k] = Tail(@)]
    /\ unrecorded' = unrecorded \cup {Head(chain[k]).cmd}
    /\ UNCHANGED <<database, registry, socket, worker, http, envelopes, agent,
                   runs, cutShort>>

PostFails(m) ==
    /\ faults < MaxFaults
    /\ faults' = faults + 1
    /\ posts' = posts \ {m}
    /\ late' = late \ {m}
    /\ UNCHANGED <<database, server, envelopes, agent, runs, cutShort, unrecorded>>

(* The sweep's transaction fails and is rolled back.                       *)
SweepFails ==
    /\ faults < MaxFaults
    /\ faults' = faults + 1
    /\ \E c \in Command : sweep[c] # Absent
    /\ sweep' = [c \in Command |-> Absent]
    /\ UNCHANGED <<status, elapsed, server, http, envelopes, agent, runs,
                   cutShort, unrecorded>>

-----------------------------------------------------------------------------
(* The agent: two threads, one dispatch routine, one dedup set.            *)

(* send_fn: over the socket a frame is queued behind the earlier ones; an  *)
(* HTTP report may fail, which is only logged, and the thread waits for    *)
(* the answer to the previous one unless that request timed out.           *)
Send(t, m) ==
    IF t = "ws"
      THEN /\ chain' = IF socket[link] = "gone" THEN chain
                         ELSE [chain EXCEPT ![link] = Append(@, m)]
           /\ UNCHANGED posts
      ELSE /\ posts = {}
           /\ posts' \in {{}, {m}}
           /\ UNCHANGED chain

(* urlopen's 10s pass; the server may still be handling the report.        *)
ReportTimeout ==
    /\ faults < MaxFaults
    /\ faults' = faults + 1
    /\ posts # {}
    /\ late' = late \cup posts
    /\ posts' = {}
    /\ UNCHANGED <<database, server, envelopes, agent, runs, cutShort, unrecorded>>

Goto(t, pc, c) == thread' = [thread EXCEPT ![t] = [pc |-> pc, cmd |-> c]]

Inbox(t) == IF t = "ws" THEN Wire(link) ELSE Batch

(* _dispatch_command, up to the first send: a command seen before is       *)
(* ignored, another is remembered. The set is rebuilt without a lock: what *)
(* the other thread has put there meanwhile may not survive.               *)
AtRisk(t) == IF Thread = {t} THEN {} ELSE seen

Dispatch(t, c) ==
    /\ thread[t].pc = "idle"
    /\ t = "ws" => wsUp
    /\ Oldest(c, At(Inbox(t)))
    /\ envelopes' = envelopes \ {<<c, Inbox(t)>>}
    /\ IF c \in seen
         THEN UNCHANGED <<seen, thread>>
         ELSE /\ \E S \in SUBSET AtRisk(t) : seen' = (seen \ S) \cup {c}
              /\ Goto(t, "ack", c)
    /\ UNCHANGED <<database, server, http, link, wsUp, runs, bounds>>

(* The acknowledgement; a negative one when the agent has no handler.      *)
SendAck(t) ==
    LET c == thread[t].cmd
    IN  /\ thread[t].pc = "ack"
        /\ \/ /\ Send(t, Report("ack", c))
              /\ Goto(t, IF c \in ConfigApply THEN "handler" ELSE "apply", c)
           \/ /\ Send(t, Report("nack", c))
              /\ thread' = [thread EXCEPT ![t] = IdleThread]
        /\ UNCHANGED <<database, registry, socket, worker, late, envelopes,
                       link, wsUp, seen, runs, bounds>>

(* config.apply's handler reports that it is running before it does a      *)
(* thing; status.get's never does.                                         *)
SendRunning(t) ==
    LET c == thread[t].cmd
    IN  /\ thread[t].pc = "handler"
        /\ Send(t, Report("running", c))
        /\ Goto(t, "apply", c)
        /\ UNCHANGED <<database, registry, socket, worker, late, envelopes,
                       link, wsUp, seen, runs, bounds>>

(* The handler's work, and the result it reports: none for a config.apply  *)
(* that did not fail, a heartbeat will confirm it.                         *)
RunHandler(t) ==
    LET c == thread[t].cmd
    IN  /\ thread[t].pc = "apply"
        /\ runs' = [runs EXCEPT ![c] = @ + 1]
        /\ thread' = [thread EXCEPT ![t] = IdleThread]
        /\ \/ Send(t, Report("failed", c))
           \/ c \notin ConfigApply /\ Send(t, Report("succeeded", c))
           \/ c \in ConfigApply /\ UNCHANGED <<chain, posts>>
        /\ UNCHANGED <<database, registry, socket, worker, late, envelopes,
                       link, wsUp, seen, bounds>>

(* 120s after a dispatch its dedup entry is dropped; the command's TTL is  *)
(* shorter, so it has passed.                                              *)
Forget(c) ==
    /\ c \in seen \cap elapsed
    /\ seen' = seen \ {c}
    /\ UNCHANGED <<database, server, http, envelopes, link, wsUp, thread, runs, bounds>>

(* The poll loop asks for commands while it believes the WebSocket down.   *)
PollRequest ==
    /\ "poll" \in Thread
    /\ thread["poll"].pc = "idle" /\ ~wsUp /\ At(Batch) = {}
    /\ worker[Poll].pc = "idle" /\ posts = {}
    /\ thread' = [thread EXCEPT !["poll"].pc = "polling"]
    /\ worker' = [worker EXCEPT ![Poll].pc = "find"]
    /\ UNCHANGED <<database, registry, socket, chain, http, envelopes,
                   link, wsUp, seen, runs, bounds>>

(* It gives up waiting for the answer.                                     *)
PollTimeout ==
    /\ faults < MaxFaults
    /\ faults' = faults + 1
    /\ "poll" \in Thread /\ thread["poll"].pc = "polling"
    /\ thread' = [thread EXCEPT !["poll"] = IdleThread]
    /\ UNCHANGED <<database, server, http, envelopes, link, wsUp, seen, runs, cutShort, unrecorded>>

-----------------------------------------------------------------------------
Operator == \/ \E r \in Rest : Replay(r) \/ \E c \in Command : Create(r, c)
            \/ \E c \in Command : Cancel(c)

Deliver == \/ \E k \in Conn : StartHelloDelivery(k)
           \/ \E d \in Delivery \ {Poll} : GetConnection(d) \/ SendFrames(d)
           \/ \E d \in Delivery : \/ Find(d)
                                  \/ AbortDelivery(d)
                                  \/ \E c \in Command : MarkSent(d, c)
           \/ AnswerPoll

Connection == \/ \E k \in Conn : Hello(k) \/ ServerCloses(k) \/ SocketGone(k)
              \/ HelloAccepted
              \/ LinkDown

Fault == ServerCrash \/ AgentRestart

Database == \/ \E c \in Command : Elapse(c) \/ HeartbeatConfirms(c)
            \/ SweepRead \/ SweepWrite
            \/ SweepFails
            \/ \E k \in Conn : ChainStep(k) \/ ReportFails(k)
            \/ \E m \in posts \cup late : PostStep(m) \/ PostFails(m)

Agent == \/ \E t \in Thread : \/ SendAck(t) \/ SendRunning(t) \/ RunHandler(t)
                              \/ \E c \in Command : Dispatch(t, c)
         \/ \E c \in Command : Forget(c)
         \/ PollRequest \/ PollTimeout \/ ReportTimeout

Next == Operator \/ Deliver \/ Connection \/ Fault \/ Database \/ Agent

Spec == Init /\ [][Next]_vars

(* Time passes, and the 30s interval timer of the WebSocket plugin keeps   *)
(* calling expireQueued. Nothing else is assumed to make progress.         *)
FairSpec == /\ Spec
            /\ \A c \in Command : WF_vars(Elapse(c))
            /\ WF_vars(SweepRead \/ SweepWrite)

-----------------------------------------------------------------------------
(* The abstract row is the row, the abstract runs count every handler run. *)
Lifecycle == INSTANCE CommandLifecycle
               WITH Command <- Command, status <- status, runs <- runs

(* The whole of delivery, over both transports and through every failure,  *)
(* implements the abstract lifecycle: rows move only along the transition  *)
(* table and a handler runs at most once, after its command was claimed.   *)
ImplementsLifecycle == Lifecycle!Spec

(* In-memory bookkeeping the code relies on without checking it: a hello   *)
(* delivery that has begun is the job its chain is running, a delivery     *)
(* past connectionRegistry.get() has a connection to send on, and the      *)
(* agent's _ws_connected flag and a dispatch on its WebSocket thread imply *)
(* that the thread holds a connection.                                     *)
Delivering(k) == chain[k] # <<>> /\ Head(chain[k]).type = "deliver"

Dispatching(t) == thread[t].pc \in {"ack", "handler", "apply"}

ChainRunsDelivery == \A k \in Conn : worker[k].pc # "idle" => Delivering(k)

SendHasConnection == \A d \in Delivery \ {Poll} :
                        worker[d].pc \in {"find", "claim"} => worker[d].conn \in Conn

DispatchHasLink == \A t \in Thread :
                      Dispatching(t) => /\ thread[t].cmd \in Command
                                        /\ t = "ws" => link \in Conn

Bookkeeping == /\ ChainRunsDelivery
               /\ SendHasConnection
               /\ wsUp => link \in Conn
               /\ DispatchHasLink

(* markSent's compare-and-set is a lease: of the WebSocket deliveries and  *)
(* polls that race for a row only one gets it, so a command message exists *)
(* in one place at most, and no second one can exist once it was dispatched*)
(* or its handler has run.                                                 *)
Busy(c) == {t \in Thread : Dispatching(t) /\ thread[t].cmd = c}

SingleLease ==
    /\ \A e, f \in envelopes : e[1] = f[1] => e = f
    /\ \A e \in envelopes : Busy(e[1]) = {} /\ runs[e[1]] = 0
    /\ \A c \in Command : Busy(c) # {} => runs[c] = 0
    /\ \A c \in Command : \A t, u \in Busy(c) : t = u

(* A command whose cancellation was accepted, or that is still queued, has *)
(* not run and never reaches the sensor; one that ran did so once.         *)
OnlyReleasedRun ==
    /\ \A c \in Command : runs[c] <= 1 /\ (runs[c] > 0 => status[c] \in Released)
    /\ \A e \in envelopes : status[e[1]] \in Released
    /\ \A c \in Command : Busy(c) # {} => status[c] \in Released

(* Claim before send, and one handler at a time per connection: when its   *)
(* turn comes in the promise chain, a report is never refused for coming   *)
(* too early; it is refused only if its command is finished already, or if *)
(* a failing query dropped an earlier report of it.                        *)
SocketReportsLand ==
    \A k \in Conn :
        chain[k] # <<>> /\ Head(chain[k]).type # "deliver"
            => LET m == Head(chain[k])
               IN  \/ status[m.cmd] \in Terminal
                   \/ m.cmd \in unrecorded
                   \/ ~Refused(m)

(* Queueing looks at the registry after it wrote the row, hello looks for  *)
(* rows after it entered the registry: whoever comes second sees the       *)
(* other's. So when every delivery is over and the sensor is connected, no *)
(* command is left queued, unless a delivery was cut short since one last  *)
(* had room for all.                                                       *)
Settled == /\ ~cutShort
           /\ \A d \in Delivery : worker[d].pc = "idle"
           /\ registry # NoConn /\ socket[registry] = "open"
           /\ chain[registry] = <<>> \/ Head(chain[registry]).type # "deliver"

NothingStranded == Settled => Deliverable = {}

(* Whatever is lost, refused or crashes, a queued command does not stay    *)
(* unfinished for ever.                                                    *)
EveryCommandResolves ==
    \A c \in Command : status[c] \in Pending ~> status[c] \in Terminal
=============================================================================
