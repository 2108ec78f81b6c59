-------------------------- MODULE ConnectionRegistry --------------------------
(***************************************************************************)
(* The control connections of one sensor: the agent connects and says      *)
(* hello; the server verifies the secret, registers the connection in      *)
(* place of the previous one, pings it, and forgets it when its socket     *)
(* closes. The dashboard's panel asks control-status when it is mounted    *)
(* and at every sensor.connected, and is told of changes over SSE.         *)
(* Commands are CommandDelivery's: here a connection carries none.         *)
(***************************************************************************)
EXTENDS Naturals, Sequences

CONSTANTS MaxConns,    \* bound: how many connections the agent ever opens
          Hellos,      \* what the agent may say: "hello", "badHello"
          GraceTicks,  \* DEAD_CONNECTION_GRACE_MULTIPLIER (2 in the code)
          MaxFrames,   \* bound: frames of one connection on the wire at a ping
          Faults,      \* which faults happen: "refuse", "cut", "drop", "stream"
          MaxFaults,   \* bound: how many
          Prompt,      \* timers never outrun what is on the wire
          Watched,     \* a dashboard is listening to /events/live
          MaxFetches   \* bound: control-status requests in progress together

(* Connections in the order in which the agent opens them.                 *)
Conn   == 1..MaxConns
NoConn == 0
Fetch  == 1..MaxFetches

ASSUME BoundsAssumption == /\ MaxConns \in Nat
                           /\ GraceTicks \in Nat
                           /\ MaxFrames \in Nat
                           /\ MaxFaults \in Nat /\ MaxFetches \in Nat
                           /\ Hellos \subseteq {"hello", "badHello"}
                           /\ Prompt \in BOOLEAN
                           /\ Watched \in BOOLEAN

VARIABLES
    phase,      \* the server's end of each socket; "gone" once cleaned up
    registered, \* the handler's local of that name
    missed,     \* ticks of the ping timer since lastActivityAt
    registry,   \* the registry's entry for this sensor
    toServer,   \* frames of each connection on their way to the server
    toAgent,    \* and to the agent
    cut,        \* the path silently drops everything from now on
    link,       \* the connection the agent's WebSocket thread holds
    wsUp,       \* ControlAgent._ws_connected
    live,       \* the page's EventSource is connected
    events,     \* SSE events on their way to the page
    panel,      \* what the panel shows
    fetch,      \* its control-status requests and their answers
    misled,     \* history: an event has been lost since the panel last read
                \* anything, or what it read was overtaken
    faults      \* how much of MaxFaults is used

sockets   == <<phase, registered, missed, registry>>
wires     == <<toServer, toAgent, cut>>
agent     == <<link, wsUp>>
dashboard == <<live, events, panel, fetch, misled>>
vars      == <<sockets, wires, agent, dashboard, faults>>

FromAgent  == {"hello", "badHello", "pong", "fin"}
FromServer == {"hello.accepted", "hello.rejected", "ping", "close"}

(* The last is sent as "sensor.disconnected" too: it tells of the end of a *)
(* connection that was no longer the registry's.                           *)
Presence   == {"sensor.connected", "sensor.disconnected", "replaced ended"}

(* An answer is fresh as long as no event has been emitted since.          *)
FetchState == [pc : {"idle", "asked", "answered"}, up : BOOLEAN, fresh : BOOLEAN]
IdleFetch  == [pc |-> "idle", up |-> FALSE, fresh |-> FALSE]

TypeOK ==
    /\ phase \in [Conn -> {"unused", "verifying", "open", "closing", "gone"}]
    /\ registered \in [Conn -> BOOLEAN]
    /\ missed \in [Conn -> 0..GraceTicks]
    /\ registry \in Conn \cup {NoConn}
    /\ toServer \in [Conn -> Seq(FromAgent)]
    /\ toAgent \in [Conn -> Seq(FromServer)]
    /\ cut \in [Conn -> BOOLEAN]
    /\ link \in Conn \cup {NoConn}
    /\ wsUp \in BOOLEAN
    /\ live \in BOOLEAN
    /\ events \in Seq(Presence)
    /\ panel \in {"unmounted", "unknown", "connected", "disconnected"}
    /\ fetch \in [Fetch -> FetchState]
    /\ misled \in BOOLEAN
    /\ faults \in Nat

Init ==
    /\ phase = [k \in Conn |-> "unused"]
    /\ registered = [k \in Conn |-> FALSE]
    /\ missed = [k \in Conn |-> 0]
    /\ registry = NoConn
    /\ toServer = [k \in Conn |-> <<>>]
    /\ toAgent = [k \in Conn |-> <<>>]
    /\ cut = [k \in Conn |-> FALSE]
    /\ link = NoConn
    /\ wsUp = FALSE
    /\ live = FALSE
    /\ events = <<>>
    /\ panel = "unmounted"
    /\ fetch = [q \in Fetch |-> IdleFetch]
    /\ misled = FALSE
    /\ faults = 0

-----------------------------------------------------------------------------
(* Helpers of the server's handler. Each is the new value of one variable. *)

(* What the wire holds after the server wrote f: nothing if it is cut.     *)
Written(k, f) == IF cut[k] THEN toAgent ELSE [toAgent EXCEPT ![k] = Append(@, f)]

(* send(): only to a socket that is OPEN.                                  *)
Sent(k, f) == IF phase[k] = "open" THEN Written(k, f) ELSE toAgent

(* A closed socket reads no more; what a cut path swallowed stays unacked. *)
Discarded(k) == IF cut[k] THEN toServer ELSE [toServer EXCEPT ![k] = <<>>]

(* eventBus.emit: to the streams that are connected, and to no other.      *)
Emit(e) ==
    /\ events' = IF live THEN Append(events, e) ELSE events
    /\ misled' = (misled \/ (~live /\ panel # "unmounted"))
    /\ fetch' = [q \in Fetch |-> [fetch[q] EXCEPT !.fresh = FALSE]]
    /\ UNCHANGED <<live, panel>>

EndOf(k) == IF registry = k THEN "sensor.disconnected" ELSE "replaced ended"

(* closeWithReason: closing a socket that is not open does nothing.        *)
Close(k) ==
    /\ phase' = IF phase[k] = "open" THEN [phase EXCEPT ![k] = "closing"] ELSE phase
    /\ toAgent' = Sent(k, "close")

(* Faulty: the entry is deleted whoever it belongs to.                     *)
UnregisteredBlindly(k) == NoConn

(* unregister(): compare and delete.                                       *)
Unregistered(k) == IF registry = k THEN NoConn ELSE registry

(* Faulty: the disconnection of a socket that never registered is told.    *)
CleanupAlways(k) ==
    /\ phase' = [phase EXCEPT ![k] = "gone"]
    /\ toServer' = Discarded(k)
    /\ registry' = Unregistered(k)
    /\ Emit("sensor.disconnected")

(* Faulty: cleaning up forgets the registry.                               *)
CleanupKeepsEntry(k) ==
    /\ phase' = [phase EXCEPT ![k] = "gone"]
    /\ toServer' = Discarded(k)
    /\ IF registered[k] THEN Emit(EndOf(k)) ELSE UNCHANGED dashboard
    /\ UNCHANGED registry

(* cleanup(), on the socket's 'close' or 'error'.                          *)
Cleanup(k) ==
    /\ phase' = [phase EXCEPT ![k] = "gone"]
    /\ toServer' = Discarded(k)
    /\ IF registered[k]
         THEN registry' = Unregistered(k) /\ Emit(EndOf(k))
         ELSE UNCHANGED <<registry, dashboard>>

Fault(kind) == /\ kind \in Faults
               /\ faults < MaxFaults
               /\ faults' = faults + 1

-----------------------------------------------------------------------------
(* The server.                                                             *)

(* credentialSvc.verify() answers yes: listeners are attached, the hello   *)
(* deadline starts, the socket is resumed.                                 *)
Verified(k) ==
    /\ phase[k] = "verifying"
    /\ phase' = [phase EXCEPT ![k] = "open"]
    /\ UNCHANGED <<registered, missed, registry, wires, agent, dashboard, faults>>

(* It answers no, or fails: the socket is closed with no listener attached. *)
Refused(k) ==
    /\ phase[k] = "verifying"
    /\ Fault("refuse")
    /\ phase' = [phase EXCEPT ![k] = "gone"]
    /\ toServer' = Discarded(k)
    /\ toAgent' = Written(k, "close")
    /\ UNCHANGED <<registered, missed, registry, cut, agent, dashboard>>

(* A listener is attached and a frame has arrived.                         *)
Arrived(k, f) == /\ phase[k] \in {"open", "closing"}
                 /\ ~cut[k]
                 /\ toServer[k] # <<>> /\ Head(toServer[k]) = f

(* Faulty: the connection already there is left open.                      *)
RegisterBeside(k) ==
    /\ Arrived(k, "hello") /\ ~registered[k]
    /\ toServer' = [toServer EXCEPT ![k] = Tail(@)]
    /\ missed' = [missed EXCEPT ![k] = 0]
    /\ registry' = k
    /\ registered' = [registered EXCEPT ![k] = TRUE]
    /\ toAgent' = Sent(k, "hello.accepted")
    /\ Emit("sensor.connected")
    /\ UNCHANGED <<phase, cut, agent, faults>>

(* The first valid message: register(), which closes the connection it     *)
(* replaces, then hello.accepted and sensor.connected. A frame that        *)
(* arrives on a socket being closed is still handled.                      *)
Register(k) ==
    /\ Arrived(k, "hello") /\ ~registered[k]
    /\ toServer' = [toServer EXCEPT ![k] = Tail(@)]
    /\ missed' = [missed EXCEPT ![k] = 0]
    /\ phase' = [x \in Conn |-> IF x = registry /\ phase[x] = "open"
                                  THEN "closing" ELSE phase[x]]
    /\ registry' = k
    /\ registered' = [registered EXCEPT ![k] = TRUE]
    /\ toAgent' = [x \in Conn |->
                     IF x = registry THEN Sent(x, "close")[x]
                     ELSE IF x = k THEN Sent(x, "hello.accepted")[x]
                     ELSE toAgent[x]]
    /\ Emit("sensor.connected")
    /\ UNCHANGED <<cut, agent, faults>>

(* A hello that fails validation.                                          *)
RejectHello(k) ==
    /\ Arrived(k, "badHello") /\ ~registered[k]
    /\ toServer' = [toServer EXCEPT ![k] = Tail(@)]
    /\ missed' = [missed EXCEPT ![k] = 0]
    /\ phase' = [phase EXCEPT ![k] = "closing"]
    /\ toAgent' = IF phase[k] = "open" /\ ~cut[k]
                    THEN [toAgent EXCEPT ![k] = @ \o <<"hello.rejected", "close">>]
                    ELSE toAgent
    /\ UNCHANGED <<registered, registry, cut, agent, dashboard, faults>>

(* Any later message counts as activity; whether a pong names the last     *)
(* ping makes no difference to that.                                       *)
Pong(k) ==
    /\ Arrived(k, "pong")
    /\ toServer' = [toServer EXCEPT ![k] = Tail(@)]
    /\ missed' = [missed EXCEPT ![k] = 0]
    /\ UNCHANGED <<phase, registered, registry, toAgent, cut, agent, dashboard, faults>>

(* The agent's end has closed.                                             *)
PeerClosed(k) ==
    /\ Arrived(k, "fin")
    /\ Cleanup(k)
    /\ UNCHANGED <<registered, missed, toAgent, cut, agent, faults>>

Receive(k) == Register(k) \/ RejectHello(k) \/ Pong(k) \/ PeerClosed(k)

(* A timer of connection k may fire.                                       *)
Ticks(k) == Prompt /\ ~cut[k] => toServer[k] = <<>> /\ toAgent[k] = <<>>

(* Bound: no ping is sent while as many frames as this are on the wire.    *)
Room(k) == cut[k] \/ Len(toServer[k]) + Len(toAgent[k]) < MaxFrames

(* helloDeadline, one interval after verification.                         *)
HelloDeadline(k) ==
    /\ phase[k] = "open" /\ ~registered[k] /\ Ticks(k)
    /\ Close(k)
    /\ UNCHANGED <<registered, missed, registry, toServer, cut, agent, dashboard, faults>>

(* Faulty: every ping sent counts as activity.                             *)
PingTimerForgiving(k) ==
    /\ registered[k] /\ phase[k] # "gone" /\ Ticks(k)
    /\ Room(k)
    /\ toAgent' = Sent(k, "ping")
    /\ UNCHANGED <<phase, registered, missed, registry, toServer, cut, agent,
                   dashboard, faults>>

(* pingInterval: Date.now() - lastActivityAt exceeds GraceTicks intervals  *)
(* exactly when that many ticks have passed since the last message.        *)
PingTimer(k) ==
    /\ registered[k] /\ phase[k] # "gone" /\ Ticks(k)
    /\ IF missed[k] = GraceTicks
         THEN Close(k) /\ UNCHANGED missed
         ELSE /\ Room(k)
              /\ missed' = [missed EXCEPT ![k] = @ + 1]
              /\ toAgent' = Sent(k, "ping")
              /\ UNCHANGED phase
    /\ UNCHANGED <<registered, registry, toServer, cut, agent, dashboard, faults>>

(* The close handshake ends, or the library's close timeout destroys the   *)
(* socket: 'close' fires.                                                  *)
SocketGone(k) ==
    /\ phase[k] = "closing"
    /\ Cleanup(k)
    /\ UNCHANGED <<registered, missed, toAgent, cut, agent, faults>>

(* The connection breaks: 'error' fires, the agent gets a broken read.     *)
SocketError(k) ==
    /\ phase[k] \in {"verifying", "open", "closing"}
    /\ Fault("drop")
    /\ Cleanup(k)
    /\ toAgent' = Written(k, "close")
    /\ UNCHANGED <<registered, missed, cut, agent>>

-----------------------------------------------------------------------------
(* The agent's WebSocket thread, and the path.                             *)

(* connect() returns once the upgrade is answered, before verification     *)
(* ends; hello is sent at once.                                            *)
Connect(k, hello) ==
    /\ link = NoConn
    /\ phase[k] = "unused" /\ \A x \in 1..(k - 1) : phase[x] # "unused"
    /\ phase' = [phase EXCEPT ![k] = "verifying"]
    /\ toServer' = [toServer EXCEPT ![k] = <<hello>>]
    /\ link' = k
    /\ UNCHANGED <<registered, missed, registry, toAgent, cut, wsUp, dashboard, faults>>

(* Faulty: the end of a connection is swallowed and the thread keeps it.   *)
EndSwallowed ==
    /\ toAgent' = [toAgent EXCEPT ![link] = <<>>]
    /\ UNCHANGED <<link, wsUp, toServer>>

(* _connect_once returns or raises: the socket is closed, _ws_connected    *)
(* reset. What the server still sends on it is nobody's.                   *)
EndLink ==
    /\ link' = NoConn
    /\ wsUp' = FALSE
    /\ toAgent' = [toAgent EXCEPT ![link] = <<>>]
    /\ toServer' = IF phase[link] = "gone" THEN toServer
                   ELSE [toServer EXCEPT ![link] = Append(@, "fin")]

Readable == link # NoConn /\ ~cut[link] /\ toAgent[link] # <<>>

AgentReadsFrame ==
    /\ Readable /\ Head(toAgent[link]) \in {"hello.accepted", "ping"}
    /\ toAgent' = [toAgent EXCEPT ![link] = Tail(@)]
    /\ IF Head(toAgent[link]) = "ping"
         THEN /\ toServer' = IF phase[link] = "gone" THEN toServer
                             ELSE [toServer EXCEPT ![link] = Append(@, "pong")]
              /\ UNCHANGED wsUp
         ELSE /\ wsUp' = TRUE
              /\ UNCHANGED toServer
    /\ UNCHANGED <<sockets, cut, link, dashboard, faults>>

AgentReadsEnd ==
    /\ Readable /\ Head(toAgent[link]) \in {"hello.rejected", "close"}
    /\ EndLink
    /\ UNCHANGED <<sockets, cut, dashboard, faults>>

(* The agent restarts or its connection breaks.                            *)
AgentDrops ==
    /\ link # NoConn
    /\ Fault("drop")
    /\ EndLink
    /\ UNCHANGED <<sockets, cut, dashboard>>

(* Only bytes the agent has sent and the server never acknowledged make    *)
(* its TCP give up: the thread never writes unasked, and neither end has   *)
(* keepalives.                                                             *)
AgentTimesOut ==
    /\ link # NoConn /\ cut[link] /\ toServer[link] # <<>>
    /\ EndLink
    /\ UNCHANGED <<sockets, cut, dashboard, faults>>

(* The path of a connection dies without telling either end.               *)
Cut(k) ==
    /\ phase[k] \notin {"unused", "gone"} /\ ~cut[k]
    /\ Fault("cut")
    /\ cut' = [cut EXCEPT ![k] = TRUE]
    /\ toAgent' = [toAgent EXCEPT ![k] = <<>>]
    /\ UNCHANGED <<sockets, toServer, agent, dashboard>>

-----------------------------------------------------------------------------
(* The dashboard's panel, and the page's one EventSource.                  *)

Elsewhere == <<sockets, wires, agent>>

(* fetchStatus, on the next free request.                                  *)
Ask(q) ==
    /\ fetch[q].pc = "idle" /\ \A x \in 1..(q - 1) : fetch[x].pc # "idle"
    /\ fetch' = [fetch EXCEPT ![q].pc = "asked"]

(* The effect of mounting it. A child's effect comes before its provider's:*)
(* the stream may not be connected yet.                                    *)
Mount ==
    /\ Watched /\ panel = "unmounted"
    /\ \E q \in Fetch : Ask(q)
    /\ panel' = "unknown"
    /\ misled' = FALSE
    /\ UNCHANGED <<Elsewhere, live, events, faults>>

StreamOpens ==
    /\ Watched /\ ~live
    /\ live' = TRUE
    /\ UNCHANGED <<Elsewhere, events, panel, fetch, misled, faults>>

(* onerror: what was on its way is lost, and nothing is asked for again.   *)
StreamBreaks ==
    /\ live /\ Fault("stream")
    /\ live' = FALSE
    /\ events' = <<>>
    /\ misled' = (misled \/ (events # <<>> /\ panel # "unmounted"))
    /\ UNCHANGED <<Elsewhere, panel, fetch>>

(* onSensorControlPresence. Without a panel the event has no handler.      *)
PanelReadsEvent ==
    /\ events # <<>>
    /\ events' = Tail(events)
    /\ IF panel = "unmounted" THEN UNCHANGED <<panel, fetch, misled>>
       ELSE /\ misled' = (Head(events) = "replaced ended")
            /\ IF Head(events) = "sensor.connected"
                 THEN panel' = "connected" /\ \E q \in Fetch : Ask(q)
                 ELSE panel' = "disconnected" /\ UNCHANGED fetch
    /\ UNCHANGED <<Elsewhere, live, faults>>

(* getConnectionStatus: connectionRegistry.get(sensorId).                  *)
ControlStatus(q) ==
    /\ fetch[q].pc = "asked"
    /\ fetch' = [fetch EXCEPT ![q] = [pc |-> "answered", up |-> registry # NoConn, fresh |-> TRUE]]
    /\ UNCHANGED <<Elsewhere, live, events, panel, misled, faults>>

PanelReadsStatus(q) ==
    /\ fetch[q].pc = "answered"
    /\ panel' = IF fetch[q].up THEN "connected" ELSE "disconnected"
    /\ misled' = ~fetch[q].fresh
    /\ fetch' = [fetch EXCEPT ![q] = IdleFetch]
    /\ UNCHANGED <<Elsewhere, live, events, faults>>

(* The request fails or is refused: the panel shows what it did.           *)
FetchFails(q) ==
    /\ fetch[q].pc # "idle"
    /\ fetch' = [fetch EXCEPT ![q] = IdleFetch]
    /\ UNCHANGED <<Elsewhere, live, events, panel, misled, faults>>

-----------------------------------------------------------------------------
Next ==
    \/ \E k \in Conn : \/ Verified(k) \/ Refused(k)
                       \/ Receive(k)
                       \/ HelloDeadline(k) \/ PingTimer(k)
                       \/ SocketGone(k) \/ SocketError(k)
                       \/ Cut(k)
                       \/ \E h \in Hellos : Connect(k, h)
    \/ AgentReadsFrame \/ AgentReadsEnd \/ AgentDrops \/ AgentTimesOut
    \/ Mount \/ StreamOpens \/ StreamBreaks \/ PanelReadsEvent
    \/ \E q \in Fetch : ControlStatus(q) \/ PanelReadsStatus(q) \/ FetchFails(q)

Spec == Init /\ [][Next]_vars

(* The database answers, timers fire, a closing socket is destroyed after  *)
(* the library's timeout, the agent's loop reads and reconnects for ever,  *)
(* TCP gives up on bytes nobody acknowledges. Faults owe nothing.          *)
Fairness ==
    /\ \A k \in Conn : /\ WF_vars(Verified(k))
                       /\ WF_vars(Receive(k))
                       /\ WF_vars(HelloDeadline(k))
                       /\ WF_vars(PingTimer(k))
                       /\ WF_vars(SocketGone(k))
                       /\ WF_vars(\E h \in Hellos : Connect(k, h))
    /\ WF_vars(AgentReadsFrame)
    /\ WF_vars(AgentReadsEnd)
    /\ WF_vars(AgentTimesOut)

FairSpec == Spec /\ Fairness

-----------------------------------------------------------------------------
(* What the registry hands to a delivery is a connection that registered   *)
(* and whose cleanup has not run, so a later cleanup will still remove it. *)
RegistryLive ==
    registry # NoConn => /\ registered[registry]
                         /\ phase[registry] \in {"open", "closing"}

(* A registered connection that is still open is the one deliveries use:   *)
(* neither a late cleanup of another socket nor a replacement strands it,  *)
(* and no two are open at once.                                            *)
OpenIsCurrent ==
    \A k \in Conn : registered[k] /\ phase[k] = "open" => registry = k

(* A connection that never registers, or whose path died, does not hold    *)
(* its socket for ever: the hello deadline and the ping timer end it.      *)
NothingLingers ==
    \A k \in Conn :
        phase[k] # "unused" /\ (cut[k] \/ ~registered[k])
            ~> phase[k] = "gone" \/ (registered[k] /\ ~cut[k])

(* When the server has ended a connection the agent learns of it, so that  *)
(* it reconnects and its poll loop takes over meanwhile; over a dead path  *)
(* it learns of it if it has sent anything on it since.                    *)
AgentNotices ==
    \A k \in Conn :
        link = k /\ phase[k] = "gone" /\ (cut[k] => toServer[k] # <<>>) ~> link # k

(* Once faults are over, and if timers do not outrun the network, the      *)
(* sensor settles on one connection that both ends and the registry hold,  *)
(* or its agent waits for ever on a path that died with nothing to send.   *)
ServedEventually ==
    <>[](\E k \in Conn : /\ link = k
                         /\ \/ registry = k /\ wsUp /\ registered[k] /\ phase[k] = "open"
                            \/ cut[k] /\ toServer[k] = <<>> /\ phase[k] = "gone" /\ registry = NoConn)

(* A panel that has read every event shows the sensor as the registry has  *)
(* it, whatever connections came and went and in whatever order events and *)
(* answers arrived, unless the last it read was an answer given before a   *)
(* later event or the end of a replaced connection, or an event was lost.  *)
PanelFollows ==
    events = <<>> /\ ~misled /\ panel \in {"connected", "disconnected"} =>
        (panel = "connected" <=> registry # NoConn)
=============================================================================
