----------------------- MODULE ConnectionRegistryProofs -----------------------
(***************************************************************************)
(* Proofs about ConnectionRegistry for any number of connections, frames   *)
(* and faults, and any grace period.                                       *)
(***************************************************************************)
EXTENDS ConnectionRegistry, SequenceTheorems, TLAPS

-----------------------------------------------------------------------------
(* Types of the helpers.                                                   *)

LEMMA WrittenType ==
    ASSUME TypeOK, NEW k \in Conn, NEW f \in FromServer
    PROVE  /\ Written(k, f) \in [Conn -> Seq(FromServer)]
           /\ Sent(k, f) \in [Conn -> Seq(FromServer)]
<1>1. Append(toAgent[k], f) \in Seq(FromServer)
  BY DEF TypeOK
<1>2. [toAgent EXCEPT ![k] = Append(@, f)] \in [Conn -> Seq(FromServer)]
  BY <1>1 DEF TypeOK
<1>. QED  BY <1>2 DEF TypeOK, Written, Sent

LEMMA EmitType ==
    ASSUME TypeOK, NEW e \in Presence, Emit(e)
    PROVE  /\ live' \in BOOLEAN /\ misled' \in BOOLEAN
           /\ events' \in Seq(Presence)
           /\ panel' \in {"unmounted", "unknown", "connected", "disconnected"}
           /\ fetch' \in [Fetch -> FetchState]
<1>1. \A q \in Fetch : [fetch[q] EXCEPT !.fresh = FALSE] \in FetchState
  BY DEF TypeOK, FetchState
<1>2. Append(events, e) \in Seq(Presence)
  BY DEF TypeOK
<1>3. misled' \in BOOLEAN
  BY Zenon DEF TypeOK, Emit
<1>. QED  BY <1>1, <1>2, <1>3 DEF TypeOK, Emit

LEMMA EndType == ASSUME NEW k PROVE EndOf(k) \in Presence
BY DEF EndOf, Presence

LEMMA DiscardedType ==
    ASSUME TypeOK, NEW k \in Conn
    PROVE  Discarded(k) \in [Conn -> Seq(FromAgent)]
<1>1. <<>> \in Seq(FromAgent)
  OBVIOUS
<1>. QED  BY <1>1 DEF TypeOK, Discarded

LEMMA CleanupType ==
    ASSUME TypeOK, NEW k \in Conn, Cleanup(k)
    PROVE  /\ phase' \in [Conn -> {"unused", "verifying", "open", "closing", "gone"}]
           /\ toServer' \in [Conn -> Seq(FromAgent)]
           /\ registry' \in Conn \cup {NoConn}
           /\ live' \in BOOLEAN /\ misled' \in BOOLEAN
           /\ events' \in Seq(Presence)
           /\ panel' \in {"unmounted", "unknown", "connected", "disconnected"}
           /\ fetch' \in [Fetch -> FetchState]
<1>1. CASE registered[k]
  <2>1. Emit(EndOf(k)) /\ registry' = Unregistered(k)
    BY <1>1 DEF Cleanup
  <2>. QED  BY <2>1, EndType, EmitType, DiscardedType DEF TypeOK, Cleanup, Unregistered
<1>2. CASE ~registered[k]
  BY <1>2, DiscardedType DEF TypeOK, Cleanup, dashboard
<1>. QED  BY <1>1, <1>2

LEMMA CloseType ==
    ASSUME TypeOK, NEW k \in Conn, Close(k)
    PROVE  /\ phase' \in [Conn -> {"unused", "verifying", "open", "closing", "gone"}]
           /\ toAgent' \in [Conn -> Seq(FromServer)]
<1>1. "close" \in FromServer
  BY DEF FromServer
<1>2. Sent(k, "close") \in [Conn -> Seq(FromServer)]
  BY <1>1, WrittenType
<1>. QED  BY <1>2 DEF TypeOK, Close

(* A frame is taken off the front of what the agent sent.                  *)
LEMMA TakenType ==
    ASSUME TypeOK, NEW k \in Conn, NEW f, Arrived(k, f)
    PROVE  [toServer EXCEPT ![k] = Tail(@)] \in [Conn -> Seq(FromAgent)]
<1>1. Tail(toServer[k]) \in Seq(FromAgent)
  BY DEF TypeOK, Arrived
<1>. QED  BY <1>1 DEF TypeOK

LEMMA EndLinkType ==
    ASSUME TypeOK, link # NoConn, EndLink
    PROVE  /\ link' \in Conn \cup {NoConn}
           /\ wsUp' \in BOOLEAN
           /\ toAgent' \in [Conn -> Seq(FromServer)]
           /\ toServer' \in [Conn -> Seq(FromAgent)]
<1>1. link \in Conn
  BY DEF TypeOK
<1>2. <<>> \in Seq(FromServer)
  OBVIOUS
<1>3. Append(toServer[link], "fin") \in Seq(FromAgent)
  BY <1>1 DEF TypeOK, FromAgent
<1>4. [toServer EXCEPT ![link] = Append(@, "fin")] \in [Conn -> Seq(FromAgent)]
  BY <1>1, <1>3 DEF TypeOK
<1>5. [toAgent EXCEPT ![link] = <<>>] \in [Conn -> Seq(FromServer)]
  BY <1>1, <1>2 DEF TypeOK
<1>. QED  BY <1>4, <1>5 DEF TypeOK, EndLink

LEMMA AskType ==
    ASSUME TypeOK, NEW q \in Fetch, Ask(q)
    PROVE  fetch' \in [Fetch -> FetchState]
<1>1. [fetch[q] EXCEPT !.pc = "asked"] \in FetchState
  BY DEF TypeOK, FetchState
<1>. QED  BY <1>1 DEF TypeOK, Ask

-----------------------------------------------------------------------------
(* Type correctness.                                                       *)

LEMMA TypeInit == Init => TypeOK
<1> SUFFICES ASSUME Init PROVE TypeOK
  OBVIOUS
<1>1. 0 \in 0..GraceTicks
  BY BoundsAssumption
<1>2. <<>> \in Seq(FromAgent) /\ <<>> \in Seq(FromServer) /\ <<>> \in Seq(Presence)
  OBVIOUS
<1>. QED  BY <1>1, <1>2 DEF Init, TypeOK, IdleFetch, FetchState

LEMMA TypeNext == TypeOK /\ [Next]_vars => TypeOK'
<1> SUFFICES ASSUME TypeOK, [Next]_vars PROVE TypeOK'
  OBVIOUS
<1> USE DEF sockets, wires, agent, dashboard
<1>0. 0 \in 0..GraceTicks
  BY BoundsAssumption
<1>1. ASSUME NEW k \in Conn, Verified(k) PROVE TypeOK'
  BY <1>1 DEF TypeOK, Verified
<1>2. ASSUME NEW k \in Conn, Refused(k) PROVE TypeOK'
  <2>1. toAgent' \in [Conn -> Seq(FromServer)]
    BY <1>2, WrittenType DEF Refused, FromServer
  <2>2. toServer' \in [Conn -> Seq(FromAgent)]
    BY <1>2, DiscardedType DEF Refused
  <2>3. faults' \in Nat
    BY <1>2 DEF TypeOK, Refused, Fault
  <2>4. phase' \in [Conn -> {"unused", "verifying", "open", "closing", "gone"}]
    BY <1>2 DEF TypeOK, Refused
  <2>. QED  BY <1>2, <2>1, <2>2, <2>3, <2>4 DEF TypeOK, Refused
<1>3. ASSUME NEW k \in Conn, Register(k) PROVE TypeOK'
  <2>1. toServer' \in [Conn -> Seq(FromAgent)]
    BY <1>3, TakenType DEF Register
  <2>2. ASSUME NEW x \in Conn
        PROVE  /\ Sent(x, "close")[x] \in Seq(FromServer)
               /\ Sent(x, "hello.accepted")[x] \in Seq(FromServer)
    <3>1. "close" \in FromServer /\ "hello.accepted" \in FromServer
      BY DEF FromServer
    <3>. QED  BY <3>1, WrittenType
  <2>3. toAgent' \in [Conn -> Seq(FromServer)]
    BY <1>3, <2>2 DEF TypeOK, Register
  <2>4. /\ live' \in BOOLEAN /\ misled' \in BOOLEAN
        /\ events' \in Seq(Presence)
        /\ panel' \in {"unmounted", "unknown", "connected", "disconnected"}
        /\ fetch' \in [Fetch -> FetchState]
    <3>1. "sensor.connected" \in Presence
      BY DEF Presence
    <3>. QED  BY <1>3, <3>1, EmitType DEF Register
  <2>. QED  BY <1>0, <1>3, <2>1, <2>3, <2>4 DEF TypeOK, Register
<1>4. ASSUME NEW k \in Conn, RejectHello(k) PROVE TypeOK'
  <2>1. toServer' \in [Conn -> Seq(FromAgent)]
    BY <1>4, TakenType DEF RejectHello
  <2>2. <<"hello.rejected", "close">> \in Seq(FromServer)
    BY DEF FromServer
  <2>3. toAgent[k] \o <<"hello.rejected", "close">> \in Seq(FromServer)
    BY <2>2 DEF TypeOK
  <2>4. toAgent' \in [Conn -> Seq(FromServer)]
    BY <1>4, <2>3 DEF TypeOK, RejectHello
  <2>. QED  BY <1>0, <1>4, <2>1, <2>4 DEF TypeOK, RejectHello
<1>5. ASSUME NEW k \in Conn, Pong(k) PROVE TypeOK'
  <2>1. toServer' \in [Conn -> Seq(FromAgent)]
    BY <1>5, TakenType DEF Pong
  <2>. QED  BY <1>0, <1>5, <2>1 DEF TypeOK, Pong
<1>6. ASSUME NEW k \in Conn, PeerClosed(k) PROVE TypeOK'
  BY <1>6, CleanupType DEF TypeOK, PeerClosed
<1>7. ASSUME NEW k \in Conn, HelloDeadline(k) PROVE TypeOK'
  BY <1>7, CloseType DEF TypeOK, HelloDeadline
<1>8. ASSUME NEW k \in Conn, PingTimer(k) PROVE TypeOK'
  <2>1. CASE missed[k] = GraceTicks
    BY <1>8, <2>1, CloseType DEF TypeOK, PingTimer
  <2>2. CASE missed[k] # GraceTicks
    <3>1. missed[k] + 1 \in 0..GraceTicks
      BY <2>2, BoundsAssumption DEF TypeOK
    <3>2. missed' \in [Conn -> 0..GraceTicks]
      BY <1>8, <2>2, <3>1 DEF TypeOK, PingTimer
    <3>3. toAgent' \in [Conn -> Seq(FromServer)]
      BY <1>8, <2>2, WrittenType DEF PingTimer, FromServer
    <3>. QED  BY <1>8, <2>2, <3>2, <3>3 DEF TypeOK, PingTimer
  <2>. QED  BY <2>1, <2>2
<1>9. ASSUME NEW k \in Conn, SocketGone(k) PROVE TypeOK'
  BY <1>9, CleanupType DEF TypeOK, SocketGone
<1>10. ASSUME NEW k \in Conn, SocketError(k) PROVE TypeOK'
  <2>1. toAgent' \in [Conn -> Seq(FromServer)]
    BY <1>10, WrittenType DEF SocketError, FromServer
  <2>2. faults' \in Nat
    BY <1>10 DEF TypeOK, SocketError, Fault
  <2>. QED  BY <1>10, <2>1, <2>2, CleanupType DEF TypeOK, SocketError
<1>11. ASSUME NEW k \in Conn, Cut(k) PROVE TypeOK'
  <2>1. <<>> \in Seq(FromServer)
    OBVIOUS
  <2>2. faults' \in Nat
    BY <1>11 DEF TypeOK, Cut, Fault
  <2>3. cut' \in [Conn -> BOOLEAN]
    BY <1>11 DEF TypeOK, Cut
  <2>4. toAgent' \in [Conn -> Seq(FromServer)]
    BY <1>11, <2>1 DEF TypeOK, Cut
  <2>. QED  BY <1>11, <2>2, <2>3, <2>4 DEF TypeOK, Cut
<1>12. ASSUME NEW k \in Conn, NEW h \in Hellos, Connect(k, h) PROVE TypeOK'
  <2>1. <<h>> \in Seq(FromAgent)
    BY BoundsAssumption DEF FromAgent
  <2>. QED  BY <1>12, <2>1 DEF TypeOK, Connect
<1>13. CASE AgentReadsFrame
  <2>1. link \in Conn /\ toAgent[link] # <<>>
    BY <1>13 DEF TypeOK, AgentReadsFrame, Readable
  <2>2. Tail(toAgent[link]) \in Seq(FromServer)
    BY <2>1 DEF TypeOK
  <2>3. toAgent' \in [Conn -> Seq(FromServer)]
    BY <1>13, <2>1, <2>2 DEF TypeOK, AgentReadsFrame
  <2>4. Append(toServer[link], "pong") \in Seq(FromAgent)
    BY <2>1 DEF TypeOK, FromAgent
  <2>5. [toServer EXCEPT ![link] = Append(@, "pong")] \in [Conn -> Seq(FromAgent)]
    BY <2>1, <2>4 DEF TypeOK
  <2>6. toServer' \in [Conn -> Seq(FromAgent)] /\ wsUp' \in BOOLEAN
    BY <1>13, <2>5 DEF TypeOK, AgentReadsFrame
  <2>. QED  BY <1>13, <2>3, <2>6 DEF TypeOK, AgentReadsFrame
<1>14. CASE AgentReadsEnd
  BY <1>14, EndLinkType DEF TypeOK, AgentReadsEnd, Readable
<1>15. CASE AgentDrops
  <2>1. faults' \in Nat
    BY <1>15 DEF TypeOK, AgentDrops, Fault
  <2>. QED  BY <1>15, <2>1, EndLinkType DEF TypeOK, AgentDrops
<1>16. CASE AgentTimesOut
  BY <1>16, EndLinkType DEF TypeOK, AgentTimesOut
<1>17. CASE PanelReadsEvent
  <2>0. /\ events # <<>> /\ events' = Tail(events)
        /\ UNCHANGED <<sockets, wires, agent, live, faults>>
    BY <1>17, Zenon DEF PanelReadsEvent, Elsewhere
  <2>1. Tail(events) \in Seq(Presence)
    BY <2>0 DEF TypeOK
  <2>2. UNCHANGED fetch \/ \E q \in Fetch : Ask(q)
    BY <1>17, Zenon DEF PanelReadsEvent
  <2>3. fetch' \in [Fetch -> FetchState]
    BY <2>2, AskType DEF TypeOK
  <2>4. misled' = misled \/ misled' = (Head(events) = "replaced ended")
    BY <1>17, Zenon DEF PanelReadsEvent
  <2>5. misled' \in BOOLEAN
    BY <2>4, Zenon DEF TypeOK
  <2>6. panel' \in {panel, "connected", "disconnected"}
    BY <1>17, Zenon DEF PanelReadsEvent
  <2>. QED  BY <2>0, <2>1, <2>3, <2>5, <2>6 DEF TypeOK
<1>18. ASSUME NEW q \in Fetch, ControlStatus(q) \/ PanelReadsStatus(q) \/ FetchFails(q) PROVE TypeOK'
  <2>3. /\ IdleFetch \in FetchState
        /\ [pc |-> "answered", up |-> registry # NoConn, fresh |-> TRUE] \in FetchState
    BY DEF IdleFetch, FetchState
  <2>4. \/ fetch' = [fetch EXCEPT ![q] = IdleFetch]
        \/ fetch' = [fetch EXCEPT ![q] = [pc |-> "answered", up |-> registry # NoConn, fresh |-> TRUE]]
    BY <1>18 DEF ControlStatus, PanelReadsStatus, FetchFails
  <2>1. fetch' \in [Fetch -> FetchState]
    BY <2>3, <2>4 DEF TypeOK
  <2>2. misled' \in BOOLEAN /\ fetch[q] \in FetchState
    BY <1>18 DEF TypeOK, ControlStatus, PanelReadsStatus, FetchFails, FetchState
  <2>. QED  BY <1>18, <2>1, <2>2 DEF TypeOK, ControlStatus, PanelReadsStatus, FetchFails, Elsewhere
<1>19. CASE Mount
  BY <1>19, AskType DEF TypeOK, Mount, Elsewhere
<1>21. CASE StreamOpens
  BY <1>21 DEF TypeOK, StreamOpens, Elsewhere
<1>22. CASE StreamBreaks
  <2>1. misled' \in BOOLEAN
    BY <1>22, Zenon DEF TypeOK, StreamBreaks
  <2>2. faults' \in Nat /\ <<>> \in Seq(Presence)
    BY <1>22 DEF TypeOK, StreamBreaks, Fault
  <2>. QED  BY <1>22, <2>1, <2>2 DEF TypeOK, StreamBreaks, Elsewhere
<1>20. CASE UNCHANGED vars
  BY <1>20 DEF TypeOK, vars
<1>. QED
  BY <1>1, <1>2, <1>3, <1>4, <1>5, <1>6, <1>7, <1>8, <1>9, <1>10, <1>11, <1>12, <1>13,
     <1>14, <1>15, <1>16, <1>17, <1>18, <1>19, <1>20, <1>21, <1>22 DEF Next, Receive

(* Every variable keeps its type, whatever the bounds.                     *)
THEOREM RegistryTypeCorrect == Spec => []TypeOK
<1>. QED  BY TypeInit, TypeNext, PTL DEF Spec

-----------------------------------------------------------------------------
(* The registry.                                                           *)

(* Only a socket with listeners has registered, and none does so twice.    *)
RegisteredLate ==
    \A k \in Conn : registered[k] => phase[k] \in {"open", "closing", "gone"}

RegistryInv == RegistryLive /\ OpenIsCurrent /\ RegisteredLate

LEMMA CleanupKeepsRegistryInv ==
    ASSUME TypeOK, RegistryInv, NEW k \in Conn, Cleanup(k), registered' = registered
    PROVE  RegistryInv'
<1>1. /\ phase'[k] = "gone"
      /\ \A x \in Conn \ {k} : phase'[x] = phase[x]
  BY DEF TypeOK, Cleanup
<1>2. registry' = IF registry = k THEN NoConn ELSE registry
  BY DEF Cleanup, Unregistered, RegistryInv, RegistryLive, Conn, NoConn
<1>3. registry = NoConn \/ registry \in Conn
  BY DEF TypeOK
<1>4. RegistryLive'
  BY <1>1, <1>2, <1>3 DEF RegistryInv, RegistryLive
<1>5. OpenIsCurrent' /\ RegisteredLate'
  BY <1>1, <1>2 DEF RegistryInv, OpenIsCurrent, RegisteredLate
<1>. QED  BY <1>4, <1>5 DEF RegistryInv

(* What closes at most one open socket and registers nobody.               *)
LEMMA CloseKeepsRegistryInv ==
    ASSUME TypeOK, RegistryInv, NEW k \in Conn,
           phase[k] \in {"open", "closing"},
           phase' = [phase EXCEPT ![k] = "closing"] \/ phase' = phase,
           registered' = registered, registry' = registry
    PROVE  RegistryInv'
BY DEF TypeOK, RegistryInv, RegistryLive, OpenIsCurrent, RegisteredLate

LEMMA RegistryInit == Init => RegistryInv
BY DEF Init, RegistryInv, RegistryLive, OpenIsCurrent, RegisteredLate

LEMMA RegistryNext == TypeOK /\ RegistryInv /\ [Next]_vars => RegistryInv'
<1> SUFFICES ASSUME TypeOK, RegistryInv, [Next]_vars PROVE RegistryInv'
  OBVIOUS
<1> USE DEF sockets
<1>1. CASE UNCHANGED sockets
  BY <1>1 DEF RegistryInv, RegistryLive, OpenIsCurrent, RegisteredLate
<1>2. ASSUME NEW k \in Conn, Verified(k) PROVE RegistryInv'
  <2>1. ~registered[k] /\ registry # k
    BY <1>2 DEF Verified, RegistryInv, RegistryLive, RegisteredLate, Conn, NoConn
  <2>. QED
    BY <1>2, <2>1 DEF TypeOK, Verified, RegistryInv, RegistryLive, OpenIsCurrent, RegisteredLate
<1>3. ASSUME NEW k \in Conn, Refused(k) PROVE RegistryInv'
  <2>1. ~registered[k] /\ registry # k
    BY <1>3 DEF Refused, RegistryInv, RegistryLive, RegisteredLate, Conn, NoConn
  <2>. QED
    BY <1>3, <2>1 DEF TypeOK, Refused, RegistryInv, RegistryLive, OpenIsCurrent, RegisteredLate
<1>4. ASSUME NEW k \in Conn, Register(k) PROVE RegistryInv'
  <2>1. registry # k /\ phase[k] \in {"open", "closing"}
    BY <1>4 DEF Register, Arrived, RegistryInv, RegistryLive, Conn, NoConn
  <2>2. \A x \in Conn : phase'[x] = IF x = registry /\ phase[x] = "open"
                                      THEN "closing" ELSE phase[x]
    BY <1>4 DEF Register
  <2>3. registry' = k /\ registered' = [registered EXCEPT ![k] = TRUE]
    BY <1>4 DEF Register
  <2>4. registered'[k] = TRUE /\ \A x \in Conn \ {k} : registered'[x] = registered[x]
    BY <2>3 DEF TypeOK
  <2>5. RegistryLive'
    BY <2>1, <2>2, <2>3, <2>4 DEF RegistryLive
  <2>6. OpenIsCurrent'
    <3>1. SUFFICES ASSUME NEW x \in Conn, x # k, registered'[x], phase'[x] = "open"
                   PROVE  FALSE
      BY <2>3 DEF OpenIsCurrent
    <3>2. registered[x] /\ phase[x] = "open" /\ x # registry
      BY <2>2, <2>4, <3>1
    <3>. QED  BY <3>2 DEF RegistryInv, OpenIsCurrent
  <2>7. RegisteredLate'
    BY <2>1, <2>2, <2>4 DEF RegistryInv, RegisteredLate
  <2>. QED  BY <2>5, <2>6, <2>7 DEF RegistryInv
<1>5. ASSUME NEW k \in Conn, RejectHello(k) PROVE RegistryInv'
  BY <1>5, CloseKeepsRegistryInv DEF RejectHello, Arrived
<1>6. ASSUME NEW k \in Conn, Pong(k) PROVE RegistryInv'
  BY <1>6 DEF Pong, RegistryInv, RegistryLive, OpenIsCurrent, RegisteredLate
<1>7. ASSUME NEW k \in Conn, PeerClosed(k) PROVE RegistryInv'
  BY <1>7, CleanupKeepsRegistryInv DEF PeerClosed
<1>8. ASSUME NEW k \in Conn, HelloDeadline(k) PROVE RegistryInv'
  BY <1>8, CloseKeepsRegistryInv DEF HelloDeadline, Close
<1>9. ASSUME NEW k \in Conn, PingTimer(k) PROVE RegistryInv'
  <2>1. phase' = phase \/ (phase[k] = "open" /\ phase' = [phase EXCEPT ![k] = "closing"])
    BY <1>9 DEF PingTimer, Close
  <2>2. registered' = registered /\ registry' = registry
    BY <1>9 DEF PingTimer
  <2>3. CASE phase' = phase
    BY <2>2, <2>3 DEF RegistryInv, RegistryLive, OpenIsCurrent, RegisteredLate
  <2>4. CASE phase[k] = "open" /\ phase' = [phase EXCEPT ![k] = "closing"]
    BY <2>2, <2>4, CloseKeepsRegistryInv
  <2>. QED  BY <2>1, <2>3, <2>4
<1>10. ASSUME NEW k \in Conn, SocketGone(k) PROVE RegistryInv'
  BY <1>10, CleanupKeepsRegistryInv DEF SocketGone
<1>11. ASSUME NEW k \in Conn, SocketError(k) PROVE RegistryInv'
  BY <1>11, CleanupKeepsRegistryInv DEF SocketError
<1>12. ASSUME NEW k \in Conn, NEW h \in Hellos, Connect(k, h) PROVE RegistryInv'
  <2>1. ~registered[k] /\ registry # k
    BY <1>12 DEF Connect, RegistryInv, RegistryLive, RegisteredLate, Conn, NoConn
  <2>. QED
    BY <1>12, <2>1 DEF TypeOK, Connect, RegistryInv, RegistryLive, OpenIsCurrent, RegisteredLate
<1>13. ASSUME NEW k \in Conn, Cut(k) PROVE UNCHANGED sockets
  BY <1>13 DEF Cut
<1>14. CASE AgentReadsFrame \/ AgentReadsEnd \/ AgentDrops \/ AgentTimesOut
  BY <1>1, <1>14 DEF AgentReadsFrame, AgentReadsEnd, AgentDrops, AgentTimesOut
<1>15. CASE \/ Mount \/ StreamOpens \/ StreamBreaks \/ PanelReadsEvent
            \/ \E q \in Fetch : ControlStatus(q) \/ PanelReadsStatus(q) \/ FetchFails(q)
  BY <1>1, <1>15 DEF Mount, StreamOpens, StreamBreaks, PanelReadsEvent, ControlStatus,
                     PanelReadsStatus, FetchFails, Elsewhere
<1>16. CASE UNCHANGED vars
  BY <1>1, <1>16 DEF vars
<1>. QED
  BY <1>1, <1>2, <1>3, <1>4, <1>5, <1>6, <1>7, <1>8, <1>9, <1>10, <1>11, <1>12, <1>13,
     <1>14, <1>15, <1>16 DEF Next, Receive

LEMMA RegistryInvariant == Spec => [](TypeOK /\ RegistryInv)
<1>1. Init => TypeOK /\ RegistryInv
  BY TypeInit, RegistryInit
<1>2. TypeOK /\ RegistryInv /\ [Next]_vars => (TypeOK /\ RegistryInv)'
  BY TypeNext, RegistryNext
<1>. QED  BY <1>1, <1>2, PTL DEF Spec

(* The registry never refers to a connection that did not register or      *)
(* whose cleanup already ran, for any number of connections and faults.    *)
THEOREM RegistryIsLive == Spec => []RegistryLive
<1>1. TypeOK /\ RegistryInv => RegistryLive
  BY DEF RegistryInv
<1>. QED  BY <1>1, RegistryInvariant, PTL

(* unregister()'s compare-and-delete and register()'s close keep the one   *)
(* open registered connection and the registry's entry the same.           *)
THEOREM OpenConnectionIsCurrent == Spec => []OpenIsCurrent
<1>1. TypeOK /\ RegistryInv => OpenIsCurrent
  BY DEF RegistryInv
<1>. QED  BY <1>1, RegistryInvariant, PTL
-----------------------------------------------------------------------------
(* The panel.                                                              *)

(* What an event says of the registry; the end of a replaced connection    *)
(* says nothing of it.                                                     *)
Says(e) == /\ e = "sensor.connected" => registry # NoConn
           /\ e = "sensor.disconnected" => registry = NoConn
SaysNext(e) == /\ e = "sensor.connected" => registry' # NoConn
               /\ e = "sensor.disconnected" => registry' = NoConn

(* What is last on its way to the panel is so: the last event if there is  *)
(* one, every answer with no event since, and otherwise what it shows.     *)
LastEventTrue == events # <<>> => live /\ Says(events[Len(events)])
FreshTrue == \A q \in Fetch : fetch[q].fresh => (fetch[q].up <=> registry # NoConn)
ShownTrue ==
    events = <<>> /\ ~misled =>
        /\ panel = "connected" => registry # NoConn
        /\ panel = "disconnected" => registry = NoConn

PanelInv == LastEventTrue /\ FreshTrue /\ ShownTrue

(* A change of the registry that is told leaves nothing fresh, and either  *)
(* is the last event on its way or is known to have been missed.           *)
LEMMA EmitKeeps ==
    ASSUME TypeOK, PanelInv, NEW e, Emit(e), SaysNext(e)
    PROVE  PanelInv'
<1>1. \A q \in Fetch : fetch'[q].fresh = FALSE
  BY DEF Emit, TypeOK, FetchState
<1>2. CASE live
  <2>1. events' = Append(events, e) /\ live' = live /\ events \in Seq(Presence)
    BY <1>2 DEF Emit, TypeOK
  <2>2. events' # <<>> /\ events'[Len(events')] = e
    BY <2>1
  <2>. QED  BY <1>1, <1>2, <2>1, <2>2
            DEF PanelInv, LastEventTrue, FreshTrue, ShownTrue, Says, SaysNext
<1>3. CASE ~live
  <2>1. events = <<>> /\ events' = events /\ panel' = panel
    BY <1>3 DEF Emit, PanelInv, LastEventTrue
  <2>2. misled' \/ panel' = "unmounted"
    BY <1>3, <2>1 DEF Emit
  <2>. QED  BY <1>1, <2>1, <2>2 DEF PanelInv, LastEventTrue, FreshTrue, ShownTrue
<1>. QED  BY <1>2, <1>3

LEMMA PanelKept ==
    ASSUME PanelInv, UNCHANGED <<registry, dashboard>>
    PROVE  PanelInv'
BY DEF PanelInv, LastEventTrue, FreshTrue, ShownTrue, Says, dashboard

(* The end of a registered connection is told, and no other changes the    *)
(* registry.                                                               *)
LEMMA CleanupKeepsPanelInv ==
    ASSUME TypeOK, PanelInv, NEW k \in Conn, Cleanup(k)
    PROVE  PanelInv'
<1>1. CASE registered[k]
  <2>1. Emit(EndOf(k)) /\ registry' = Unregistered(k)
    BY <1>1 DEF Cleanup
  <2>2. SaysNext(EndOf(k))
    BY <2>1 DEF SaysNext, EndOf, Unregistered
  <2>. QED  BY <2>1, <2>2, EmitKeeps
<1>2. CASE ~registered[k]
  BY <1>2, PanelKept DEF Cleanup
<1>. QED  BY <1>1, <1>2

(* A request keeps the freshness of none.                                  *)
LEMMA AskKeeps ==
    ASSUME TypeOK, FreshTrue, NEW q \in Fetch, Ask(q), registry' = registry
    PROVE  FreshTrue'
BY DEF TypeOK, FetchState, FreshTrue, Ask

LEMMA PanelInit == Init => PanelInv
BY DEF Init, PanelInv, LastEventTrue, FreshTrue, ShownTrue, IdleFetch

LEMMA PanelNext == TypeOK /\ PanelInv /\ [Next]_vars => PanelInv'
<1> SUFFICES ASSUME TypeOK, PanelInv, [Next]_vars PROVE PanelInv'
  OBVIOUS
<1> USE DEF sockets
<1>1. ASSUME NEW k \in Conn, Register(k) PROVE PanelInv'
  <2>1. Emit("sensor.connected") /\ registry' = k /\ k # NoConn
    BY <1>1 DEF Register, Conn, NoConn
  <2>2. SaysNext("sensor.connected")
    BY <2>1 DEF SaysNext
  <2>. QED  BY <2>1, <2>2, EmitKeeps
<1>2. ASSUME NEW k \in Conn, PeerClosed(k) \/ SocketGone(k) \/ SocketError(k) PROVE PanelInv'
  BY <1>2, CleanupKeepsPanelInv DEF PeerClosed, SocketGone, SocketError
<1>3. ASSUME NEW k \in Conn, \/ Verified(k) \/ Refused(k) \/ RejectHello(k) \/ Pong(k)
                             \/ HelloDeadline(k) \/ PingTimer(k) \/ Cut(k)
                             \/ \E h \in Hellos : Connect(k, h)
      PROVE  PanelInv'
  BY <1>3, PanelKept DEF Verified, Refused, RejectHello, Pong, HelloDeadline, PingTimer, Cut, Connect
<1>4. CASE AgentReadsFrame \/ AgentReadsEnd \/ AgentDrops \/ AgentTimesOut \/ UNCHANGED vars
  BY <1>4, PanelKept DEF AgentReadsFrame, AgentReadsEnd, AgentDrops, AgentTimesOut, vars
<1>5. CASE Mount
  <2>1. PICK q \in Fetch : Ask(q)
    BY <1>5 DEF Mount
  <2>2. panel' = "unknown" /\ UNCHANGED <<registry, live, events>>
    BY <1>5 DEF Mount, Elsewhere
  <2>3. FreshTrue'
    BY <2>1, <2>2, AskKeeps DEF PanelInv
  <2>. QED  BY <2>2, <2>3 DEF PanelInv, LastEventTrue, ShownTrue, Says
<1>6. CASE StreamOpens
  BY <1>6 DEF StreamOpens, Elsewhere, PanelInv, LastEventTrue, FreshTrue, ShownTrue, Says
<1>7. CASE StreamBreaks
  <2>1. events' = <<>> /\ UNCHANGED <<registry, panel, fetch>>
    BY <1>7 DEF StreamBreaks, Elsewhere
  <2>2. misled' \/ panel = "unmounted" \/ (events = <<>> /\ (misled' <=> misled))
    BY <1>7 DEF StreamBreaks
  <2>. QED  BY <2>1, <2>2 DEF PanelInv, LastEventTrue, FreshTrue, ShownTrue
<1>8. CASE PanelReadsEvent
  <2>1. /\ events # <<>> /\ events' = Tail(events) /\ UNCHANGED <<registry, live>>
        /\ events \in Seq(Presence)
    BY <1>8 DEF PanelReadsEvent, Elsewhere, TypeOK
  <2>2. LastEventTrue'
    <3>1. SUFFICES ASSUME events' # <<>> PROVE live' /\ SaysNext(events'[Len(events')])
      BY DEF LastEventTrue, Says, SaysNext
    <3>2. Len(events) \in Nat /\ Len(events) > 0 /\ Len(events') = Len(events) - 1
      BY <2>1
    <3>3. Len(events) > 1
      BY <2>1, <3>1, <3>2, EmptySeq
    <3>4. events'[Len(events')] = events[Len(events)]
      BY <2>1, <3>2, <3>3
    <3>. QED  BY <2>1, <3>4 DEF PanelInv, LastEventTrue, Says, SaysNext
  <2>3. FreshTrue'
    <3>1. CASE UNCHANGED fetch
      BY <2>1, <3>1 DEF PanelInv, FreshTrue
    <3>2. CASE \E q \in Fetch : Ask(q)
      BY <2>1, <3>2, AskKeeps DEF PanelInv
    <3>. QED  BY <1>8, <3>1, <3>2 DEF PanelReadsEvent
  <2>4. ShownTrue'
    <3>1. SUFFICES ASSUME events' = <<>>, ~misled'
                   PROVE  /\ (panel' = "connected" => registry' # NoConn)
                          /\ (panel' = "disconnected" => registry' = NoConn)
      BY DEF ShownTrue
    <3>2. Head(events) = events[Len(events)]
      <4>1. Len(events) \in Nat /\ Len(events) > 0 /\ Len(Tail(events)) = Len(events) - 1
        BY <2>1
      <4>2. Len(Tail(events)) = 0
        BY <2>1, <3>1, EmptySeq
      <4>3. Len(events) = 1
        BY <4>1, <4>2
      <4>4. Head(events) = events[1]
        BY <2>1
      <4>. QED  BY <4>3, <4>4
    <3>3. Says(Head(events)) /\ Head(events) \in Presence
      BY <2>1, <3>2 DEF PanelInv, LastEventTrue
    <3>4. CASE panel = "unmounted"
      BY <1>8, <3>4 DEF PanelReadsEvent
    <3>5. CASE panel # "unmounted"
      BY <1>8, <2>1, <3>1, <3>3, <3>5 DEF PanelReadsEvent, Says, Presence
    <3>. QED  BY <3>4, <3>5
  <2>. QED  BY <2>2, <2>3, <2>4 DEF PanelInv
<1>9. ASSUME NEW q \in Fetch, ControlStatus(q) PROVE PanelInv'
  <2>1. /\ fetch' = [fetch EXCEPT ![q] = [pc |-> "answered", up |-> registry # NoConn, fresh |-> TRUE]]
        /\ UNCHANGED <<registry, live, events, panel, misled>>
    BY <1>9 DEF ControlStatus, Elsewhere
  <2>2. FreshTrue'
    BY <2>1 DEF PanelInv, FreshTrue, TypeOK
  <2>. QED  BY <2>1, <2>2 DEF PanelInv, LastEventTrue, ShownTrue, Says
<1>10. ASSUME NEW q \in Fetch, PanelReadsStatus(q) \/ FetchFails(q) PROVE PanelInv'
  <2>1. /\ fetch' = [fetch EXCEPT ![q] = IdleFetch] /\ UNCHANGED <<registry, live, events>>
        /\ fetch[q] \in FetchState
    BY <1>10 DEF PanelReadsStatus, FetchFails, Elsewhere, TypeOK
  <2>2. FreshTrue' /\ LastEventTrue'
    BY <2>1 DEF PanelInv, FreshTrue, LastEventTrue, Says, TypeOK, IdleFetch
  <2>3. ShownTrue'
    <3>1. CASE FetchFails(q)
      BY <2>1, <3>1 DEF FetchFails, PanelInv, ShownTrue
    <3>2. CASE PanelReadsStatus(q)
      BY <2>1, <3>2 DEF PanelReadsStatus, PanelInv, FreshTrue, ShownTrue, FetchState
    <3>. QED  BY <1>10, <3>1, <3>2
  <2>. QED  BY <2>2, <2>3 DEF PanelInv
<1>. QED
  BY <1>1, <1>2, <1>3, <1>4, <1>5, <1>6, <1>7, <1>8, <1>9, <1>10 DEF Next, Receive

(* A panel that has read every event shows the sensor as the registry has  *)
(* it, however connections, events and answers interleave, unless the last *)
(* it read was an answer given before a later event or the end of a        *)
(* replaced connection, or an event was lost: a socket whose hello never   *)
(* came, or was refused, closes without an event.                          *)
THEOREM PanelIsCurrent == Spec => []PanelFollows
<1>1. Init => PanelInv
  BY PanelInit
<1>2. TypeOK /\ PanelInv /\ [Next]_vars => PanelInv'
  BY PanelNext
<1>3. PanelInv => PanelFollows
  BY DEF PanelInv, ShownTrue, PanelFollows
<1>. QED  BY <1>1, <1>2, <1>3, RegistryTypeCorrect, PTL DEF Spec
=============================================================================
