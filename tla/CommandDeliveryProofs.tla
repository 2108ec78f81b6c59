----------------------- MODULE CommandDeliveryProofs -----------------------
(***************************************************************************)
(* Proofs about CommandDelivery for any number of commands, connections,   *)
(* REST requests and faults.                                               *)
(***************************************************************************)
EXTENDS CommandDelivery, SequenceTheorems, TLAPS

(* A report is a job, whatever it reports.                                 *)
LEMMA ReportType ==
    ASSUME NEW type \in Reports, NEW c \in Command
    PROVE  Report(type, c) \in Job \ {HelloJob}
<1>1. Report(type, c) \in Job
  BY DEF Report, Job, RowState
<1>2. c # 0
  BY BoundsAssumption DEF Command
<1>3. Report(type, c).cmd # HelloJob.cmd
  BY <1>2 DEF Report, HelloJob
<1>. QED  BY <1>1, <1>3

(* What a job that is a report can name.                                   *)
LEMMA JobFields ==
    ASSUME NEW m \in Job \ {HelloJob}
    PROVE  /\ m.type \in Reports
           /\ m.cmd \in Command
           /\ m.read \in RowState
           /\ Target(m.type) \in Released
           /\ Target(m.type) \in RowState
BY DEF Job, Reports, Target, Released, RowState, Statuses

(* Recording what a transaction read leaves a report a report.             *)
LEMMA WithReadType ==
    ASSUME TypeOK, NEW m \in Job \ {HelloJob}
    PROVE  WithRead(m) \in Job \ {HelloJob}
<1>1. m \in [type : Reports, cmd : Command, read : RowState]
  BY DEF Job
<1>2. status[m.cmd] \in RowState
  BY <1>1 DEF TypeOK
<1>3. WithRead(m) \in [type : Reports, cmd : Command, read : RowState]
  BY <1>1, <1>2 DEF WithRead
<1>4. HelloJob \notin [type : Reports, cmd : Command, read : RowState]
  BY DEF HelloJob, Reports
<1>. QED  BY <1>3, <1>4 DEF Job

(* A command row is never changed into something that is not a row.        *)
LEMMA ApplyType ==
    ASSUME TypeOK, NEW m \in Job \ {HelloJob}, Apply(m)
    PROVE  status' \in [Command -> RowState]
BY JobFields DEF Apply, TypeOK

LEMMA MoveType ==
    ASSUME TypeOK, NEW p \in Place, NEW q \in Place
    PROVE  /\ Drop(p) \subseteq Command \X Place
           /\ At(p) \subseteq Command
           /\ MoveTo(p, q) \subseteq Command \X Place
BY DEF TypeOK, Drop, At, MoveTo

LEMMA PlaceType ==
    /\ \A d \in Delivery : Claimed(d) \in Place
    /\ \A k \in Conn : Wire(k) \in Place
    /\ Batch \in Place
BY DEF Claimed, Wire, Place

LEMMA IdleStates == IdleWorker \in WorkerState /\ IdleThread \in ThreadState
BY DEF IdleWorker, WorkerState, IdleThread, ThreadState

(* A step of a delivery that changes one field of its record.              *)
LEMMA WorkerStep ==
    ASSUME TypeOK, NEW d \in Delivery
    PROVE  /\ \A pc \in {"idle", "get", "find", "claim"} :
                [worker EXCEPT ![d].pc = pc] \in [Delivery -> WorkerState]
           /\ \A S \in SUBSET Command :
                [worker EXCEPT ![d].todo = S] \in [Delivery -> WorkerState]
<1>1. worker \in [Delivery -> WorkerState] /\ worker[d] \in WorkerState
  BY DEF TypeOK
<1>2. \A w \in WorkerState : [worker EXCEPT ![d] = w] \in [Delivery -> WorkerState]
  BY <1>1
<1>3. \A pc \in {"idle", "get", "find", "claim"} : [worker[d] EXCEPT !.pc = pc] \in WorkerState
  BY <1>1 DEF WorkerState
<1>4. \A S \in SUBSET Command : [worker[d] EXCEPT !.todo = S] \in WorkerState
  BY <1>1 DEF WorkerState
<1>5. \A pc \in {"idle", "get", "find", "claim"} :
         [worker EXCEPT ![d].pc = pc] = [worker EXCEPT ![d] = [worker[d] EXCEPT !.pc = pc]]
  BY <1>1
<1>6. \A S \in SUBSET Command :
         [worker EXCEPT ![d].todo = S] = [worker EXCEPT ![d] = [worker[d] EXCEPT !.todo = S]]
  BY <1>1
<1>. QED  BY <1>2, <1>3, <1>4, <1>5, <1>6

-----------------------------------------------------------------------------
(* Ending a delivery keeps workers and chains well typed; a connection's   *)
(* delivery ends only while its job is at the head of its chain.           *)
LEMMA FinishType ==
    ASSUME TypeOK, NEW d \in Delivery, Finish(d),
           d \in Conn => chain[d] # <<>>
    PROVE  /\ worker' \in [Delivery -> WorkerState]
           /\ chain' \in [Conn -> Seq(Job)]
<1>1. worker' \in [Delivery -> WorkerState]
  BY IdleStates DEF Finish, TypeOK
<1>2. CASE d \in Conn
  <2>1. chain[d] \in Seq(Job) /\ chain[d] # <<>>
    BY <1>2 DEF TypeOK
  <2>2. Tail(chain[d]) \in Seq(Job)
    BY <2>1
  <2>. QED  BY <1>1, <1>2, <2>2 DEF Finish, TypeOK
<1>3. CASE d \notin Conn
  BY <1>1, <1>3 DEF Finish, TypeOK
<1>. QED  BY <1>2, <1>3

(* Sending a report keeps the chains and the posted reports well typed.    *)
LEMMA SendType ==
    ASSUME TypeOK, NEW t \in Thread, NEW m \in Job \ {HelloJob}, Send(t, m),
           t = "ws" => link \in Conn
    PROVE  /\ chain' \in [Conn -> Seq(Job)]
           /\ posts' \subseteq Job \ {HelloJob}
<1>1. CASE t = "ws"
  <2>1. chain[link] \in Seq(Job)
    BY <1>1 DEF TypeOK
  <2>2. Append(chain[link], m) \in Seq(Job)
    BY <2>1
  <2>. QED  BY <1>1, <2>2 DEF Send, TypeOK
<1>2. CASE t # "ws"
  BY <1>2 DEF Send, TypeOK
<1>. QED  BY <1>1, <1>2
-----------------------------------------------------------------------------
(* Type correctness and the bookkeeping are inductive together: one lemma  *)
(* per group of actions, one step per action.                              *)

LEMMA InitSound == Init => TypeOK /\ Bookkeeping
<1>. SUFFICES ASSUME Init PROVE TypeOK /\ Bookkeeping
  OBVIOUS
<1>1. chain \in [Conn -> Seq(Job)]
  <2>1. <<>> \in Seq(Job)
    OBVIOUS
  <2>. QED  BY <2>1 DEF Init
<1>2. TypeOK
  BY <1>1, IdleStates DEF Init, TypeOK, RowState
<1>3. Bookkeeping
  BY DEF Init, Bookkeeping, ChainRunsDelivery, SendHasConnection, DispatchHasLink,
         Dispatching, IdleWorker, IdleThread, Delivery
<1>. QED  BY <1>2, <1>3

LEMMA OperatorSound ==
    ASSUME TypeOK, Bookkeeping, Operator
    PROVE  TypeOK' /\ Bookkeeping'
<1>. USE DEF database, server, http, agent, bounds
<1>0. \A r \in Rest : r \in Delivery /\ r \notin Conn
  BY NamesAssumption DEF Delivery
<1>1. ASSUME NEW r \in Rest, NEW c \in Command, Create(r, c)
      PROVE  TypeOK' /\ Bookkeeping'
  <2>1. TypeOK'
    BY <1>0, <1>1, WorkerStep DEF Create, TypeOK, RowState, Statuses
  <2>2. Bookkeeping'
    BY <1>0, <1>1 DEF Create, TypeOK, Bookkeeping, ChainRunsDelivery, SendHasConnection,
       DispatchHasLink, Dispatching, Delivering, WorkerState
  <2>. QED  BY <2>1, <2>2
<1>2. ASSUME NEW r \in Rest, Replay(r)
      PROVE  TypeOK' /\ Bookkeeping'
  <2>1. TypeOK'
    BY <1>0, <1>2, WorkerStep DEF Replay, TypeOK
  <2>2. Bookkeeping'
    BY <1>0, <1>2 DEF Replay, TypeOK, Bookkeeping, ChainRunsDelivery, SendHasConnection,
       DispatchHasLink, Dispatching, Delivering, WorkerState
  <2>. QED  BY <2>1, <2>2
<1>3. ASSUME NEW c \in Command, Cancel(c)
      PROVE  TypeOK' /\ Bookkeeping'
  <2>1. TypeOK'
    BY <1>3 DEF Cancel, TypeOK, RowState, Statuses
  <2>2. Bookkeeping'
    BY <1>3 DEF Cancel, Bookkeeping, ChainRunsDelivery, SendHasConnection,
       DispatchHasLink, Dispatching, Delivering
  <2>. QED  BY <2>1, <2>2
<1>. QED  BY <1>1, <1>2, <1>3 DEF Operator

(* A connection's delivery has its job at the head of the chain.           *)
LEMMA Bookkept ==
    ASSUME TypeOK, Bookkeeping, NEW d \in Delivery, worker[d].pc # "idle"
    PROVE  d \in Conn => chain[d] # <<>>
BY DEF Bookkeeping, ChainRunsDelivery, Delivering

(* Ending any delivery keeps the bookkeeping.                              *)
LEMMA FinishKeepsBooks ==
    ASSUME TypeOK, Bookkeeping, NEW d \in Delivery, Finish(d),
           UNCHANGED <<link, wsUp>>, DispatchHasLink'
    PROVE  Bookkeeping'
<1>1. \A x \in Delivery : worker'[x] = IF x = d THEN IdleWorker ELSE worker[x]
  BY DEF Finish, TypeOK
<1>2. \A k \in Conn : k # d => chain'[k] = chain[k]
  BY DEF Finish, TypeOK
<1>3. ChainRunsDelivery'
  BY <1>1, <1>2 DEF Bookkeeping, ChainRunsDelivery, Delivering, Delivery, IdleWorker
<1>4. SendHasConnection'
  BY <1>1 DEF Bookkeeping, SendHasConnection, IdleWorker
<1>. QED  BY <1>3, <1>4 DEF Bookkeeping

LEMMA DeliverSound ==
    ASSUME TypeOK, Bookkeeping, Deliver
    PROVE  TypeOK' /\ Bookkeeping'
<1>. USE DEF database, server, http, agent, bounds
<1>0. Conn \subseteq Delivery /\ Poll \in Delivery /\ Poll \notin Conn
  BY NamesAssumption DEF Delivery
<1>1. ASSUME NEW k \in Conn, StartHelloDelivery(k)
      PROVE  TypeOK' /\ Bookkeeping'
  <2>1. TypeOK'
    BY <1>0, <1>1, WorkerStep DEF StartHelloDelivery, TypeOK
  <2>2. Bookkeeping'
    BY <1>0, <1>1 DEF StartHelloDelivery, TypeOK, Bookkeeping, ChainRunsDelivery,
       SendHasConnection, DispatchHasLink, Dispatching, Delivering, WorkerState
  <2>. QED  BY <2>1, <2>2
<1>2. ASSUME NEW d \in Delivery \ {Poll}, GetConnection(d)
      PROVE  TypeOK' /\ Bookkeeping'
  <2>0. DispatchHasLink'
    BY <1>2 DEF GetConnection, Bookkeeping, DispatchHasLink, Dispatching
  <2>1. CASE registry = NoConn
    <3>1. Finish(d)
      BY <1>2, <2>1 DEF GetConnection
    <3>2. worker' \in [Delivery -> WorkerState] /\ chain' \in [Conn -> Seq(Job)]
      BY <1>2, <3>1, Bookkept, FinishType DEF GetConnection
    <3>3. TypeOK'
      BY <1>2, <3>2 DEF GetConnection, TypeOK
    <3>. QED  BY <1>2, <2>0, <3>1, <3>3, FinishKeepsBooks DEF GetConnection
  <2>2. CASE registry # NoConn
    <3>1. worker' = [worker EXCEPT ![d].pc = "find", ![d].conn = registry]
          /\ registry \in Conn
      BY <1>2, <2>2 DEF GetConnection, TypeOK
    <3>2. worker' \in [Delivery -> WorkerState]
      <4>1. worker[d] \in WorkerState
        BY DEF TypeOK
      <4>2. [worker[d] EXCEPT !.pc = "find", !.conn = registry] \in WorkerState
        BY <3>1, <4>1 DEF WorkerState
      <4>3. worker' = [worker EXCEPT
                          ![d] = [worker[d] EXCEPT !.pc = "find", !.conn = registry]]
        BY <3>1 DEF TypeOK
      <4>. QED  BY <4>2, <4>3 DEF TypeOK
    <3>3. TypeOK'
      BY <1>2, <2>2, <3>2 DEF GetConnection, TypeOK
    <3>a. /\ \A x \in Delivery \ {d} : worker'[x] = worker[x]
          /\ worker'[d].conn \in Conn
      BY <3>1 DEF TypeOK, WorkerState
    <3>4. SendHasConnection' /\ ChainRunsDelivery'
      BY <1>0, <1>2, <2>2, <3>a DEF GetConnection, Bookkeeping,
         ChainRunsDelivery, SendHasConnection, Delivering
    <3>. QED  BY <1>2, <2>0, <2>2, <3>3, <3>4 DEF GetConnection, Bookkeeping
  <2>. QED  BY <2>1, <2>2
<1>3. ASSUME NEW d \in Delivery, Find(d)
      PROVE  TypeOK' /\ Bookkeeping'
  <2>1. Deliverable \subseteq Command
    BY DEF Deliverable, Ready
  <2>2. worker' \in [Delivery -> WorkerState]
    <3>1. worker[d] \in WorkerState
      BY DEF TypeOK
    <3>2. [worker[d] EXCEPT !.pc = "claim", !.todo = Deliverable] \in WorkerState
      BY <2>1, <3>1 DEF WorkerState
    <3>3. worker' = [worker EXCEPT
                        ![d] = [worker[d] EXCEPT !.pc = "claim", !.todo = Deliverable]]
      BY <1>3 DEF Find, TypeOK
    <3>. QED  BY <3>2, <3>3 DEF TypeOK
  <2>b. cutShort' \in BOOLEAN
    BY <1>3 DEF Find
  <2>3. TypeOK'
    BY <1>3, <2>2, <2>b DEF Find, TypeOK
  <2>a. /\ \A x \in Delivery \ {d} : worker'[x] = worker[x]
        /\ worker'[d].conn = worker[d].conn
    BY <1>3, <2>1 DEF Find, TypeOK, WorkerState
  <2>4. Bookkeeping'
    BY <1>0, <1>3, <2>a DEF Find, Bookkeeping, ChainRunsDelivery,
       SendHasConnection, DispatchHasLink, Dispatching, Delivering
  <2>. QED  BY <2>3, <2>4
<1>4. ASSUME NEW d \in Delivery, NEW c \in Command, MarkSent(d, c)
      PROVE  TypeOK' /\ Bookkeeping'
  <2>a. worker[d].todo \ {c} \in SUBSET Command
    BY DEF TypeOK, WorkerState
  <2>1. worker' \in [Delivery -> WorkerState]
    BY <1>4, <2>a, WorkerStep DEF MarkSent
  <2>2. <<c, Claimed(d)>> \in Command \X Place
    BY PlaceType
  <2>b. status' \in [Command -> RowState]
    BY <1>4 DEF MarkSent, TypeOK, RowState, Statuses
  <2>c. envelopes' \subseteq Command \X Place
    BY <1>4, <2>2 DEF MarkSent, TypeOK
  <2>3. TypeOK'
    BY <1>4, <2>1, <2>b, <2>c DEF MarkSent, TypeOK
  <2>4. Bookkeeping'
    BY <1>4 DEF MarkSent, TypeOK, WorkerState, Bookkeeping, ChainRunsDelivery,
       SendHasConnection, DispatchHasLink, Dispatching, Delivering
  <2>. QED  BY <2>3, <2>4
<1>5. ASSUME NEW d \in Delivery \ {Poll}, SendFrames(d)
      PROVE  TypeOK' /\ Bookkeeping'
  <2>0. Finish(d) /\ UNCHANGED <<database, registry, http, agent, runs, bounds>>
    BY <1>5 DEF SendFrames
  <2>1. worker' \in [Delivery -> WorkerState] /\ chain' \in [Conn -> Seq(Job)]
    BY <1>5, <2>0, Bookkept, FinishType DEF SendFrames
  <2>2. worker[d].conn \in Conn
    BY <1>5 DEF SendFrames, Bookkeeping, SendHasConnection
  <2>3. socket' \in [Conn -> {"unused", "open", "closing", "gone"}]
    BY <1>5 DEF SendFrames, TypeOK
  <2>4. envelopes' \subseteq Command \X Place
    BY <1>5, <2>2, MoveType, PlaceType DEF SendFrames
  <2>5. TypeOK'
    BY <2>0, <2>1, <2>3, <2>4 DEF TypeOK
  <2>6. DispatchHasLink'
    BY <2>0 DEF Bookkeeping, DispatchHasLink, Dispatching
  <2>. QED  BY <2>0, <2>5, <2>6, FinishKeepsBooks
<1>6. ASSUME NEW d \in Delivery, AbortDelivery(d)
      PROVE  TypeOK' /\ Bookkeeping'
  <2>0. Finish(d) /\ UNCHANGED <<database, registry, socket, http, agent, runs>>
    BY <1>6 DEF AbortDelivery
  <2>1. worker' \in [Delivery -> WorkerState] /\ chain' \in [Conn -> Seq(Job)]
    BY <1>6, <2>0, Bookkept, FinishType DEF AbortDelivery
  <2>2. TypeOK'
    BY <1>6, <2>0, <2>1, MoveType, PlaceType DEF AbortDelivery, TypeOK
  <2>3. DispatchHasLink'
    BY <2>0 DEF Bookkeeping, DispatchHasLink, Dispatching
  <2>. QED  BY <2>0, <2>2, <2>3, FinishKeepsBooks
<1>7. ASSUME AnswerPoll
      PROVE  TypeOK' /\ Bookkeeping'
  <2>0. Finish(Poll) /\ UNCHANGED <<database, registry, socket, http, link, wsUp, seen, runs, bounds>>
    BY <1>7 DEF AnswerPoll
  <2>1. worker' \in [Delivery -> WorkerState] /\ chain' \in [Conn -> Seq(Job)]
    BY <1>0, <2>0, FinishType
  <2>2. thread' \in [Thread -> ThreadState]
    BY <1>7, IdleStates DEF AnswerPoll, TypeOK
  <2>3. envelopes' \subseteq Command \X Place
    BY <1>0, <1>7, MoveType, PlaceType DEF AnswerPoll
  <2>4. TypeOK'
    BY <2>0, <2>1, <2>2, <2>3 DEF TypeOK
  <2>5. DispatchHasLink'
    <3>1. \A t \in Thread : thread'[t] = thread[t] \/ thread'[t] = IdleThread
      BY <1>7 DEF AnswerPoll, TypeOK
    <3>. QED  BY <2>0, <3>1 DEF IdleThread, Bookkeeping, DispatchHasLink, Dispatching
  <2>. QED  BY <1>0, <2>0, <2>4, <2>5, FinishKeepsBooks
<1>. QED  BY <1>1, <1>2, <1>3, <1>4, <1>5, <1>6, <1>7 DEF Deliver

(* Cutting the frames a vanished socket had not delivered keeps the job    *)
(* that has begun.                                                         *)
LEMMA CutKeepsHead ==
    ASSUME NEW S, NEW s \in Seq(S), NEW n \in 0..Len(s)
    PROVE  /\ SubSeq(s, 1, n) \in Seq(S)
           /\ n > 0 => SubSeq(s, 1, n) # <<>> /\ Head(SubSeq(s, 1, n)) = Head(s)
<1>1. SubSeq(s, 1, n) \in Seq(S) /\ Len(SubSeq(s, 1, n)) = n
  OBVIOUS
<1>2. n > 0 => SubSeq(s, 1, n)[1] = s[1]
  OBVIOUS
<1>. QED  BY <1>1, <1>2

LEMMA ConnectionSound ==
    ASSUME TypeOK, Bookkeeping, Connection
    PROVE  TypeOK' /\ Bookkeeping'
<1>. USE DEF database, server, http, agent, bounds
<1>0. Conn \subseteq Delivery /\ NoConn \notin Conn
  BY NamesAssumption DEF Delivery
<1>1. ASSUME NEW k \in Conn, Hello(k)
      PROVE  TypeOK' /\ Bookkeeping'
  <2>1. <<HelloJob>> \in Seq(Job)
    BY DEF Job
  <2>2. socket' \in [Conn -> {"unused", "open", "closing", "gone"}]
    BY <1>1 DEF Hello, TypeOK
  <2>3. chain' \in [Conn -> Seq(Job)]
    BY <1>1, <2>1 DEF Hello, TypeOK
  <2>4. TypeOK'
    BY <1>1, <2>2, <2>3 DEF Hello, TypeOK
  <2>5. /\ \A x \in Conn \ {k} : chain'[x] = chain[x]
        /\ chain'[k] = <<HelloJob>>
    BY <1>1 DEF Hello, TypeOK
  <2>6. <<HelloJob>> # <<>> /\ Head(<<HelloJob>>).type = "deliver"
    BY DEF HelloJob
  <2>7. ChainRunsDelivery'
    BY <1>1, <2>5, <2>6 DEF Hello, Bookkeeping, ChainRunsDelivery, Delivering
  <2>8. SendHasConnection' /\ (wsUp => link \in Conn)' /\ DispatchHasLink'
    BY <1>1 DEF Hello, Bookkeeping, SendHasConnection, DispatchHasLink, Dispatching
  <2>. QED  BY <2>4, <2>7, <2>8 DEF Bookkeeping
<1>2. ASSUME HelloAccepted
      PROVE  TypeOK' /\ Bookkeeping'
  BY <1>2 DEF HelloAccepted, TypeOK, Bookkeeping, ChainRunsDelivery, SendHasConnection,
     DispatchHasLink, Dispatching, Delivering
<1>3. ASSUME NEW k \in Conn, ServerCloses(k)
      PROVE  TypeOK' /\ Bookkeeping'
  <2>1. TypeOK'
    BY <1>3 DEF ServerCloses, TypeOK
  <2>2. Bookkeeping'
    BY <1>3 DEF ServerCloses, Bookkeeping, ChainRunsDelivery, SendHasConnection,
       DispatchHasLink, Dispatching, Delivering
  <2>. QED  BY <2>1, <2>2
<1>4. ASSUME NEW k \in Conn, SocketGone(k)
      PROVE  TypeOK' /\ Bookkeeping'
  <2>1. chain[k] \in Seq(Job)
    BY DEF TypeOK
  <2>2. PICK n \in (IF InProgress(k) THEN 1 ELSE 0)..Len(chain[k]) :
             chain' = [chain EXCEPT ![k] = SubSeq(@, 1, n)]
    BY <1>4 DEF SocketGone
  <2>3. n \in 0..Len(chain[k]) /\ (InProgress(k) => n > 0)
    BY <2>1, <2>2
  <2>4. /\ SubSeq(chain[k], 1, n) \in Seq(Job)
        /\ n > 0 => /\ SubSeq(chain[k], 1, n) # <<>>
                    /\ Head(SubSeq(chain[k], 1, n)) = Head(chain[k])
    BY <2>1, <2>3, CutKeepsHead
  <2>5. chain' \in [Conn -> Seq(Job)]
    BY <2>2, <2>4 DEF TypeOK
  <2>6. TypeOK'
    BY <1>4, <2>5 DEF SocketGone, TypeOK
  <2>7. /\ \A x \in Conn \ {k} : chain'[x] = chain[x]
        /\ Delivering(k) => chain'[k] # <<>> /\ Head(chain'[k]).type = "deliver"
    BY <2>2, <2>3, <2>4 DEF TypeOK, Delivering, InProgress
  <2>8. ChainRunsDelivery'
    BY <1>4, <2>7 DEF SocketGone, Bookkeeping, ChainRunsDelivery, Delivering
  <2>9. SendHasConnection' /\ (wsUp => link \in Conn)' /\ DispatchHasLink'
    BY <1>4 DEF SocketGone, Bookkeeping, SendHasConnection, DispatchHasLink, Dispatching
  <2>. QED  BY <2>6, <2>8, <2>9 DEF Bookkeeping
<1>5. ASSUME LinkDown
      PROVE  TypeOK' /\ Bookkeeping'
  <2>1. link \in Conn
    BY <1>5 DEF LinkDown, TypeOK
  <2>a. thread' \in [Thread -> ThreadState]
    BY <1>5, IdleStates DEF LinkDown, TypeOK
  <2>b. envelopes' \subseteq Command \X Place
    BY <1>5, <2>1, MoveType, PlaceType DEF LinkDown
  <2>2. TypeOK'
    BY <1>5, <2>a, <2>b DEF LinkDown, TypeOK
  <2>3. \A t \in Thread : IF t = "ws" THEN thread'[t] = IdleThread ELSE thread'[t] = thread[t]
    BY <1>5 DEF LinkDown, TypeOK
  <2>4. DispatchHasLink'
    BY <2>3 DEF Bookkeeping, DispatchHasLink, Dispatching, IdleThread
  <2>5. SendHasConnection' /\ (wsUp => link \in Conn)' /\ ChainRunsDelivery'
    BY <1>5 DEF LinkDown, Bookkeeping, SendHasConnection, ChainRunsDelivery, Delivering
  <2>. QED  BY <2>2, <2>4, <2>5 DEF Bookkeeping
<1>. QED  BY <1>1, <1>2, <1>3, <1>4, <1>5 DEF Connection

LEMMA FaultSound ==
    ASSUME TypeOK, Bookkeeping, Fault
    PROVE  TypeOK' /\ Bookkeeping'
<1>. USE DEF database, server, http, agent, bounds
<1>0. Conn \subseteq Delivery
  BY DEF Delivery
<1>1. ASSUME ServerCrash
      PROVE  TypeOK' /\ Bookkeeping'
  <2>1. <<>> \in Seq(Job)
    OBVIOUS
  <2>2. /\ worker' \in [Delivery -> WorkerState]
        /\ chain' \in [Conn -> Seq(Job)]
        /\ socket' \in [Conn -> {"unused", "open", "closing", "gone"}]
    BY <1>1, <2>1, IdleStates DEF ServerCrash, TypeOK
  <2>3. TypeOK'
    BY <1>1, <2>2 DEF ServerCrash, TypeOK
  <2>4. Bookkeeping'
    BY <1>0, <1>1 DEF ServerCrash, IdleWorker, Bookkeeping, ChainRunsDelivery,
       SendHasConnection, DispatchHasLink, Dispatching
  <2>. QED  BY <2>3, <2>4
<1>2. ASSUME AgentRestart
      PROVE  TypeOK' /\ Bookkeeping'
  <2>a. thread' \in [Thread -> ThreadState]
    BY <1>2, IdleStates DEF AgentRestart
  <2>b. envelopes' \subseteq Command \X Place
    <3>1. envelopes' \subseteq envelopes
      BY <1>2 DEF AgentRestart
    <3>2. envelopes \subseteq Command \X Place
      BY DEF TypeOK
    <3>. QED  BY ONLY <3>1, <3>2
  <2>1. TypeOK'
    <3>1. UNCHANGED <<status, elapsed, sweep, registry, socket, worker, chain, posts, late,
                      runs, cutShort, unrecorded>>
      BY <1>2 DEF AgentRestart
    <3>2. link' = NoConn /\ wsUp' = FALSE /\ seen' = {}
      BY <1>2 DEF AgentRestart
    <3>3. faults' \in Nat
      BY <1>2 DEF AgentRestart, TypeOK
    <3>4. link' \in Conn \cup {NoConn} /\ wsUp' \in BOOLEAN
      BY <3>2
    <3>5. seen' \subseteq Command
      BY <3>2
    <3>. QED  BY <2>a, <2>b, <3>1, <3>3, <3>4, <3>5 DEF TypeOK
  <2>2. Bookkeeping'
    BY <1>2 DEF AgentRestart, IdleThread, Bookkeeping, ChainRunsDelivery,
       SendHasConnection, DispatchHasLink, Dispatching, Delivering
  <2>. QED  BY <2>1, <2>2
<1>. QED  BY <1>1, <1>2 DEF Fault

LEMMA DatabaseSound ==
    ASSUME TypeOK, Bookkeeping, Database
    PROVE  TypeOK' /\ Bookkeeping'
<1>. USE DEF database, server, http, agent, bounds
<1>0. Conn \subseteq Delivery
  BY DEF Delivery
<1>1. ASSUME NEW c \in Command, Elapse(c) \/ HeartbeatConfirms(c)
      PROVE  TypeOK' /\ Bookkeeping'
  <2>1. TypeOK'
    BY <1>1 DEF Elapse, HeartbeatConfirms, TypeOK, RowState, Statuses
  <2>2. Bookkeeping'
    BY <1>1 DEF Elapse, HeartbeatConfirms, Bookkeeping, ChainRunsDelivery,
       SendHasConnection, DispatchHasLink, Dispatching, Delivering
  <2>. QED  BY <2>1, <2>2
<1>2. ASSUME SweepRead \/ SweepWrite \/ SweepFails
      PROVE  TypeOK' /\ Bookkeeping'
  <2>1. TypeOK'
    BY <1>2 DEF SweepRead, SweepWrite, SweepFails, Overdue, TypeOK, RowState, Statuses
  <2>2. Bookkeeping'
    BY <1>2 DEF SweepRead, SweepWrite, SweepFails, Bookkeeping, ChainRunsDelivery,
       SendHasConnection, DispatchHasLink, Dispatching, Delivering
  <2>. QED  BY <2>1, <2>2
<1>3. ASSUME NEW k \in Conn, ChainStep(k) \/ ReportFails(k)
      PROVE  TypeOK' /\ Bookkeeping'
  <2>. DEFINE m == Head(chain[k])
  <2>1. chain[k] \in Seq(Job) /\ chain[k] # <<>> /\ m.type # "deliver"
    BY <1>3 DEF ChainStep, ReportFails, TypeOK
  <2>2. m \in Job \ {HelloJob} /\ Tail(chain[k]) \in Seq(Job)
    BY <2>1 DEF HelloJob
  <2>3. status' \in [Command -> RowState]
    <3>1. CASE ChainStep(k)
      BY <2>2, <3>1, ApplyType DEF ChainStep
    <3>2. CASE ReportFails(k)
      BY <3>2 DEF ReportFails, TypeOK
    <3>. QED  BY <1>3, <3>1, <3>2
  <2>4. <<WithRead(m)>> \o Tail(chain[k]) \in Seq(Job)
    BY <2>2, WithReadType
  <2>5. chain' \in [Conn -> Seq(Job)]
    BY <1>3, <2>2, <2>4 DEF ChainStep, ReportFails, TypeOK
  <2>a. faults' \in Nat /\ unrecorded' \subseteq Command
    <3>1. m.cmd \in Command
      BY <2>2, JobFields
    <3>. QED  BY <1>3, <3>1 DEF ChainStep, ReportFails, TypeOK
  <2>b. UNCHANGED <<elapsed, sweep, registry, socket, worker, http, envelopes, agent, runs,
                    cutShort>>
    BY <1>3 DEF ChainStep, ReportFails
  <2>6. TypeOK'
    BY <2>3, <2>5, <2>a, <2>b DEF TypeOK
  <2>7. worker[k].pc = "idle"
    BY <2>1 DEF Bookkeeping, ChainRunsDelivery, Delivering
  <2>8. \A x \in Conn \ {k} : chain'[x] = chain[x]
    BY <1>3 DEF ChainStep, ReportFails, TypeOK
  <2>9. Bookkeeping'
    BY <2>b, <2>7, <2>8 DEF Bookkeeping, ChainRunsDelivery,
       SendHasConnection, DispatchHasLink, Dispatching, Delivering
  <2>. QED  BY <2>6, <2>9
<1>4. ASSUME NEW m \in posts \cup late, PostStep(m)
      PROVE  TypeOK' /\ Bookkeeping'
  <2>1. m \in Job \ {HelloJob}
    BY DEF TypeOK
  <2>2. status' \in [Command -> RowState]
    BY <1>4, <2>1, ApplyType DEF PostStep
  <2>3. /\ posts' \subseteq Job \ {HelloJob}
        /\ late' \subseteq Job \ {HelloJob}
    BY <1>4, <2>1, WithReadType DEF PostStep, Stepped, TypeOK
  <2>4. TypeOK'
    BY <1>4, <2>2, <2>3 DEF PostStep, TypeOK
  <2>5. Bookkeeping'
    BY <1>4 DEF PostStep, Bookkeeping, ChainRunsDelivery, SendHasConnection,
       DispatchHasLink, Dispatching, Delivering
  <2>. QED  BY <2>4, <2>5
<1>5. ASSUME NEW m \in posts \cup late, PostFails(m)
      PROVE  TypeOK' /\ Bookkeeping'
  BY <1>5 DEF PostFails, TypeOK, Bookkeeping, ChainRunsDelivery, SendHasConnection,
     DispatchHasLink, Dispatching, Delivering
<1>. QED  BY <1>1, <1>2, <1>3, <1>4, <1>5 DEF Database

(* A thread that sends reports holds the connection it sends them on, and  *)
(* appending a report leaves the head of a chain that has begun.           *)
LEMMA SendKeepsDelivering ==
    ASSUME TypeOK, NEW t \in Thread, NEW m \in Job \ {HelloJob},
           Send(t, m), t = "ws" => link \in Conn
    PROVE  \A k \in Conn : Delivering(k) => Delivering(k)'
<1>1. \A k \in Conn : chain'[k] = chain[k] \/ chain'[k] = Append(chain[k], m)
  BY DEF Send, TypeOK
<1>2. ASSUME NEW s \in Seq(Job), s # <<>>
      PROVE  Append(s, m) # <<>> /\ Head(Append(s, m)) = Head(s)
  <2>1. Len(s) > 0 /\ Len(Append(s, m)) = Len(s) + 1 /\ Append(s, m)[1] = s[1]
    BY <1>2
  <2>. QED  BY <2>1
<1>3. \A k \in Conn : chain[k] \in Seq(Job)
  BY DEF TypeOK
<1>. QED  BY <1>1, <1>2, <1>3 DEF Delivering

LEMMA SendKeepsChains ==
    ASSUME TypeOK, Bookkeeping, NEW t \in Thread, NEW m \in Job \ {HelloJob},
           Send(t, m), t = "ws" => link \in Conn, UNCHANGED worker
    PROVE  ChainRunsDelivery'
BY SendKeepsDelivering DEF Bookkeeping, ChainRunsDelivery

(* What a thread does next when it is at work on a command.                *)
LEMMA ThreadStep ==
    ASSUME TypeOK, Bookkeeping, NEW t \in Thread, NEW s \in ThreadState,
           thread' = [thread EXCEPT ![t] = s], UNCHANGED link,
           s.pc \in {"ack", "handler", "apply"} =>
                s.cmd \in Command /\ (t = "ws" => link \in Conn)
    PROVE  thread' \in [Thread -> ThreadState] /\ DispatchHasLink'
<1>1. \A u \in Thread : thread'[u] = IF u = t THEN s ELSE thread[u]
  BY DEF TypeOK
<1>. QED  BY <1>1 DEF TypeOK, Bookkeeping, DispatchHasLink, Dispatching

LEMMA AgentSound ==
    ASSUME TypeOK, Bookkeeping, Agent
    PROVE  TypeOK' /\ Bookkeeping'
<1>. USE DEF database, server, http, agent, bounds
<1>0. Conn \subseteq Delivery /\ Poll \in Delivery /\ Poll \notin Conn
  BY NamesAssumption DEF Delivery
<1>a. \A pc \in {"ack", "handler", "apply"}, c \in Command : [pc |-> pc, cmd |-> c] \in ThreadState
  BY DEF ThreadState
<1>1. ASSUME NEW t \in Thread, NEW c \in Command, Dispatch(t, c)
      PROVE  TypeOK' /\ Bookkeeping'
  <2>1. t = "ws" => link \in Conn
    BY <1>1 DEF Dispatch, Bookkeeping
  <2>2. thread' \in [Thread -> ThreadState] /\ DispatchHasLink'
    <3>1. CASE c \in seen
      BY <1>1, <3>1 DEF Dispatch, TypeOK, Bookkeeping, DispatchHasLink, Dispatching
    <3>2. CASE c \notin seen
      BY <1>1, <1>a, <2>1, <3>2, ThreadStep DEF Dispatch, Goto
    <3>. QED  BY <3>1, <3>2
  <2>a. seen' \subseteq Command
    BY <1>1 DEF Dispatch, TypeOK
  <2>3. TypeOK'
    BY <1>1, <2>2, <2>a DEF Dispatch, TypeOK
  <2>4. Bookkeeping'
    BY <1>1, <2>2 DEF Dispatch, Bookkeeping, ChainRunsDelivery, SendHasConnection, Delivering
  <2>. QED  BY <2>3, <2>4
<1>2. ASSUME NEW t \in Thread, SendAck(t) \/ SendRunning(t) \/ RunHandler(t)
      PROVE  TypeOK' /\ Bookkeeping'
  <2>. DEFINE c == thread[t].cmd
  <2>1. c \in Command /\ (t = "ws" => link \in Conn)
    BY <1>2 DEF SendAck, SendRunning, RunHandler, Bookkeeping, DispatchHasLink, Dispatching
  <2>2. \/ \E type \in Reports : Send(t, Report(type, c))
        \/ UNCHANGED <<chain, posts>>
    BY <1>2 DEF SendAck, SendRunning, RunHandler, Reports
  <2>3. UNCHANGED <<database, registry, socket, worker, late, envelopes, link, wsUp,
                    seen, bounds>>
    BY <1>2 DEF SendAck, SendRunning, RunHandler
  <2>4. /\ chain' \in [Conn -> Seq(Job)]
        /\ posts' \subseteq Job \ {HelloJob}
        /\ ChainRunsDelivery'
    <3>1. CASE UNCHANGED <<chain, posts>>
      BY <2>3, <3>1 DEF TypeOK, Bookkeeping, ChainRunsDelivery, Delivering
    <3>2. ASSUME NEW type \in Reports, Send(t, Report(type, c))
          PROVE  /\ chain' \in [Conn -> Seq(Job)]
                 /\ posts' \subseteq Job \ {HelloJob}
                 /\ ChainRunsDelivery'
      BY <2>1, <2>3, <3>2, ReportType, SendType, SendKeepsChains
    <3>. QED  BY <2>2, <3>1, <3>2
  <2>5. thread' \in [Thread -> ThreadState] /\ DispatchHasLink'
    <3>1. \E s \in ThreadState :
            /\ thread' = [thread EXCEPT ![t] = s]
            /\ s = IdleThread \/ s.cmd = c
      BY <1>2, <1>a, <2>1, IdleStates DEF SendAck, SendRunning, RunHandler, Goto
    <3>2. IdleThread.pc = "idle"
      BY DEF IdleThread
    <3>. QED  BY <2>1, <2>3, <3>1, <3>2, ThreadStep
  <2>6. runs' \in [Command -> Nat]
    <3>1. UNCHANGED runs \/ runs' = [runs EXCEPT ![c] = runs[c] + 1]
      BY <1>2 DEF SendAck, SendRunning, RunHandler
    <3>2. runs[c] + 1 \in Nat
      BY <2>1 DEF TypeOK
    <3>. QED  BY <3>1, <3>2 DEF TypeOK
  <2>7. TypeOK'
    BY <2>3, <2>4, <2>5, <2>6 DEF TypeOK
  <2>8. SendHasConnection' /\ (wsUp => link \in Conn)'
    BY <2>3 DEF Bookkeeping, SendHasConnection
  <2>. QED  BY <2>4, <2>5, <2>7, <2>8 DEF Bookkeeping
<1>3. ASSUME NEW c \in Command, Forget(c)
      PROVE  TypeOK' /\ Bookkeeping'
  BY <1>3 DEF Forget, TypeOK, Bookkeeping, ChainRunsDelivery, SendHasConnection,
     DispatchHasLink, Dispatching, Delivering
<1>4. ASSUME PollRequest
      PROVE  TypeOK' /\ Bookkeeping'
  <2>1. /\ worker' \in [Delivery -> WorkerState]
        /\ \A d \in Delivery \ {Poll} : worker'[d] = worker[d]
    BY <1>0, <1>4, WorkerStep DEF PollRequest, TypeOK
  <2>2. /\ thread' \in [Thread -> ThreadState]
        /\ \A t \in Thread : thread'[t] = thread[t] \/ thread'[t].pc = "polling"
    BY <1>4 DEF PollRequest, TypeOK, ThreadState
  <2>3. TypeOK'
    BY <1>4, <2>1, <2>2 DEF PollRequest, TypeOK
  <2>4. Bookkeeping'
    BY <1>0, <1>4, <2>1, <2>2 DEF PollRequest, Bookkeeping, ChainRunsDelivery,
       SendHasConnection, DispatchHasLink, Dispatching, Delivering
  <2>. QED  BY <2>3, <2>4
<1>5. ASSUME PollTimeout
      PROVE  TypeOK' /\ Bookkeeping'
  <2>1. thread' \in [Thread -> ThreadState] /\ DispatchHasLink'
    BY <1>5, IdleStates, ThreadStep DEF PollTimeout, IdleThread
  <2>2. TypeOK'
    BY <1>5, <2>1 DEF PollTimeout, TypeOK
  <2>3. Bookkeeping'
    BY <1>5, <2>1 DEF PollTimeout, Bookkeeping, ChainRunsDelivery, SendHasConnection, Delivering
  <2>. QED  BY <2>2, <2>3
<1>6. ASSUME ReportTimeout
      PROVE  TypeOK' /\ Bookkeeping'
  BY <1>6 DEF ReportTimeout, TypeOK, Bookkeeping, ChainRunsDelivery, SendHasConnection,
     DispatchHasLink, Dispatching, Delivering
<1>. QED  BY <1>1, <1>2, <1>3, <1>4, <1>5, <1>6 DEF Agent

(* The inductive step: whatever the server, the agent, the network or the  *)
(* database does next.                                                     *)
LEMMA NextSound ==
    ASSUME TypeOK, Bookkeeping, [Next]_vars
    PROVE  TypeOK' /\ Bookkeeping'
<1>1. CASE Next
  BY <1>1, OperatorSound, DeliverSound, ConnectionSound, FaultSound, DatabaseSound,
     AgentSound DEF Next
<1>2. CASE UNCHANGED vars
  BY <1>2 DEF vars, database, server, http, agent, bounds, TypeOK, Bookkeeping,
     ChainRunsDelivery, SendHasConnection, DispatchHasLink, Dispatching, Delivering
<1>. QED  BY <1>1, <1>2

(* Every variable keeps its type, for any number of commands, connections, *)
(* REST requests and faults.                                               *)
THEOREM TypeCorrect == Spec => []TypeOK
<1>1. TypeOK /\ Bookkeeping /\ [Next]_vars => (TypeOK /\ Bookkeeping)'
  BY NextSound
<1>. QED  BY InitSound, <1>1, PTL DEF Spec

(* attemptDelivery never sends without a connection, the promise chain runs*)
(* the delivery it was given, and _ws_connected implies a connection.      *)
THEOREM BookkeepingHolds == Spec => []Bookkeeping
<1>1. TypeOK /\ Bookkeeping /\ [Next]_vars => (TypeOK /\ Bookkeeping)'
  BY NextSound
<1>. QED  BY InitSound, <1>1, PTL DEF Spec

-----------------------------------------------------------------------------
(* The lease: one copy of a command, one run, and only after the claim.    *)

LeaseInv == SingleLease /\ OnlyReleasedRun

(* Any step that makes no new command message, starts no dispatch, runs no *)
(* handler and leaves released rows released keeps the lease.              *)
LEMMA LeaseShrinks ==
    ASSUME TypeOK, LeaseInv,
           \A e \in envelopes' : \E f \in envelopes : f[1] = e[1],
           \A e, f \in envelopes' : e[1] = f[1] => e = f,
           \A t \in Thread : Dispatching(t)'
                => Dispatching(t) /\ thread'[t].cmd = thread[t].cmd,
           UNCHANGED runs,
           \A c \in Command : status[c] \in Released => status'[c] \in Released
    PROVE  LeaseInv'
<1>1. \A e \in envelopes' : e[1] \in Command
  BY DEF TypeOK
<1>2. \A c \in Command : Busy(c)' \subseteq Busy(c)
  BY DEF Busy
<1>3. \A e \in envelopes' : /\ Busy(e[1])' = {}
                            /\ runs'[e[1]] = 0
                            /\ status'[e[1]] \in Released
  BY <1>1, <1>2 DEF LeaseInv, SingleLease, OnlyReleasedRun
<1>4. \A c \in Command : Busy(c)' # {} => runs'[c] = 0 /\ status'[c] \in Released
  BY <1>2 DEF LeaseInv, SingleLease, OnlyReleasedRun
<1>5. \A c \in Command : \A t, u \in Busy(c)' : t = u
  BY <1>2 DEF LeaseInv, SingleLease
<1>6. \A c \in Command : runs'[c] <= 1 /\ (runs'[c] > 0 => status'[c] \in Released)
  BY DEF LeaseInv, OnlyReleasedRun
<1>7. SingleLease'
  BY <1>3, <1>4, <1>5 DEF SingleLease
<1>8. OnlyReleasedRun'
  BY <1>3, <1>4, <1>6 DEF OnlyReleasedRun
<1>. QED  BY <1>7, <1>8 DEF LeaseInv

(* Dropping the messages of a place, or moving some of them elsewhere,     *)
(* makes no second copy.                                                   *)
LEMMA MovesCopyNothing ==
    ASSUME TypeOK, LeaseInv, NEW p \in Place, NEW q \in Place, NEW S \in SUBSET At(p),
           envelopes' = Drop(p) \cup (S \X {q})
    PROVE  /\ \A e \in envelopes' : \E f \in envelopes : f[1] = e[1]
           /\ \A e, f \in envelopes' : e[1] = f[1] => e = f
<1>1. \A c \in S : <<c, p>> \in envelopes
  BY DEF At
<1>2. \A e \in envelopes' : \/ e \in envelopes /\ e[2] # p
                            \/ e[2] = q /\ e[1] \in S /\ e = <<e[1], q>>
  BY DEF Drop
<1>3. \A e \in S \X {q} : <<e[1], p>> \in envelopes
  BY <1>1
<1>4. \A e, f \in envelopes : e[1] = f[1] => e = f
  BY DEF LeaseInv, SingleLease
<1>5. \A c \in S : \A f \in envelopes : f[1] = c => f = <<c, p>>
  BY <1>1, <1>4
<1>6. \A e \in envelopes' : \E f \in envelopes : f[1] = e[1]
  <2>. TAKE e \in envelopes'
  <2>1. CASE e \in envelopes
    BY <2>1
  <2>2. CASE e[1] \in S
    <3>1. <<e[1], p>> \in envelopes /\ <<e[1], p>>[1] = e[1]
      BY <1>1, <2>2
    <3>. QED  BY <3>1
  <2>. QED  BY <1>2, <2>1, <2>2
<1>7. \A e, f \in envelopes' : e[1] = f[1] => e = f
  <2>. SUFFICES ASSUME NEW e \in envelopes', NEW f \in envelopes', e[1] = f[1]
                PROVE  e = f
    OBVIOUS
  <2>1. CASE e \in envelopes /\ e[2] # p /\ f \in envelopes
    BY <1>4, <2>1
  <2>2. CASE e = <<e[1], q>> /\ f = <<f[1], q>>
    BY <2>2
  <2>3. ASSUME NEW x \in envelopes, x[2] # p, x[1] \in S  PROVE FALSE
    BY <1>5, <2>3
  <2>. QED  BY <1>2, <2>1, <2>2, <2>3
<1>. QED  BY <1>6, <1>7

(* Reports, the sweep and the heartbeat move released rows to released     *)
(* rows.                                                                   *)
LEMMA DatabaseKeepsReleased ==
    ASSUME TypeOK, Database
    PROVE  \A c \in Command : status[c] \in Released => status'[c] \in Released
<1>1. \A m \in Job \ {HelloJob} :
         Apply(m) => \A c \in Command : status[c] \in Released => status'[c] \in Released
  BY JobFields DEF Apply, TypeOK
<1>2. CASE \E k \in Conn : ChainStep(k)
  <2>1. PICK k \in Conn : ChainStep(k)
    BY <1>2
  <2>2. chain[k] \in Seq(Job) /\ chain[k] # <<>> /\ Head(chain[k]).type # "deliver"
    BY <2>1 DEF ChainStep, TypeOK
  <2>3. Head(chain[k]) \in Job \ {HelloJob}
    BY <2>2 DEF HelloJob
  <2>. QED  BY <1>1, <2>1, <2>3 DEF ChainStep
<1>3. CASE \E m \in posts \cup late : PostStep(m)
  BY <1>1, <1>3 DEF PostStep, TypeOK
<1>4. CASE SweepRead \/ SweepWrite
  BY <1>4 DEF SweepRead, SweepWrite, TypeOK, Released, Statuses
<1>6. CASE \/ SweepFails \/ \E k \in Conn : ReportFails(k)
           \/ \E m \in posts \cup late : PostFails(m)
  BY <1>6 DEF SweepFails, ReportFails, PostFails, database
<1>5. CASE \E c \in Command : Elapse(c) \/ HeartbeatConfirms(c)
  BY <1>5 DEF Elapse, HeartbeatConfirms, TypeOK, Released, Statuses
<1>. QED  BY <1>2, <1>3, <1>4, <1>5, <1>6 DEF Database

LEMMA OperatorKeepsLease ==
    ASSUME TypeOK, LeaseInv, Operator
    PROVE  LeaseInv'
<1>. USE DEF database, server, http, agent, bounds
<1>1. \A c \in Command : status[c] \in Released => status'[c] \in Released
  BY DEF Operator, Create, Replay, Cancel, TypeOK, Released, Absent, Statuses
<1>2. UNCHANGED <<envelopes, thread, runs>>
  BY DEF Operator, Create, Replay, Cancel
<1>3. \A t \in Thread : Dispatching(t)' => Dispatching(t) /\ thread'[t].cmd = thread[t].cmd
  BY <1>2 DEF Dispatching
<1>4. \A e, f \in envelopes : e[1] = f[1] => e = f
  BY DEF LeaseInv, SingleLease
<1>. QED  BY <1>1, <1>2, <1>3, <1>4, LeaseShrinks

(* The compare-and-set hands out a row that was queued, and nobody else    *)
(* can hold a queued row.                                                  *)
LEMMA ClaimKeepsLease ==
    ASSUME TypeOK, LeaseInv, NEW d \in Delivery, NEW c \in Command, MarkSent(d, c)
    PROVE  LeaseInv'
<1>. USE DEF database, server, http, agent, bounds
<1>0. UNCHANGED <<thread, runs>>
  BY DEF MarkSent
<1>a. \A x \in Command : Busy(x)' = Busy(x)
  BY <1>0 DEF Busy, Dispatching
<1>1. CASE status[c] # "queued"
  <2>1. UNCHANGED <<status, envelopes>>
    BY <1>1 DEF MarkSent
  <2>2. \A e \in envelopes : e[1] \in Command
    BY DEF TypeOK
  <2>. QED  BY <1>0, <1>a, <2>1, <2>2 DEF LeaseInv, SingleLease, OnlyReleasedRun
<1>2. CASE status[c] = "queued"
  <2>1. /\ envelopes' = envelopes \cup {<<c, Claimed(d)>>}
        /\ status' = [status EXCEPT ![c] = "sent"]
    BY <1>2 DEF MarkSent
  <2>2. "sent" \in Released /\ "queued" \notin Released
    BY DEF Released, Statuses
  <2>3. /\ \A e \in envelopes : e[1] # c
        /\ Busy(c) = {}
        /\ runs[c] = 0
    BY <1>2, <2>2 DEF LeaseInv, OnlyReleasedRun, TypeOK
  <2>4. \A x \in Command : status[x] \in Released => status'[x] \in Released
    BY <2>1, <2>2 DEF TypeOK
  <2>5. status'[c] \in Released
    BY <2>1, <2>2 DEF TypeOK
  <2>6. \A e \in envelopes' : e \in envelopes \/ (e = <<c, Claimed(d)>> /\ e[1] = c)
    BY <2>1
  <2>7. \A e \in envelopes : e[1] \in Command
    BY DEF TypeOK
  <2>8. \A e, f \in envelopes' : e[1] = f[1] => e = f
    BY <2>3, <2>6 DEF LeaseInv, SingleLease
  <2>9. \A e \in envelopes' : Busy(e[1])' = {} /\ runs'[e[1]] = 0 /\ status'[e[1]] \in Released
    BY <1>0, <1>a, <2>3, <2>4, <2>5, <2>6, <2>7 DEF LeaseInv, SingleLease, OnlyReleasedRun
  <2>10. SingleLease'
    BY <1>0, <1>a, <2>8, <2>9 DEF LeaseInv, SingleLease
  <2>11. OnlyReleasedRun'
    BY <1>0, <1>a, <2>4, <2>9 DEF LeaseInv, OnlyReleasedRun
  <2>. QED  BY <2>10, <2>11 DEF LeaseInv
<1>. QED  BY <1>1, <1>2

LEMMA DeliverKeepsLease ==
    ASSUME TypeOK, Bookkeeping, LeaseInv, Deliver
    PROVE  LeaseInv'
<1>. USE DEF database, server, http, agent, bounds
<1>0. Poll \in Delivery /\ \A d \in Delivery : Claimed(d) \in Place /\ {} \subseteq At(Claimed(d))
  BY PlaceType DEF Delivery
<1>1. \A e, f \in envelopes : e[1] = f[1] => e = f
  BY DEF LeaseInv, SingleLease
<1>2. CASE \/ \E k \in Conn : StartHelloDelivery(k)
           \/ \E d \in Delivery \ {Poll} : GetConnection(d)
           \/ \E d \in Delivery : Find(d)
  <2>1. UNCHANGED <<status, envelopes, thread, runs>>
    BY <1>2 DEF StartHelloDelivery, GetConnection, Find
  <2>. QED  BY <1>1, <2>1, LeaseShrinks DEF Dispatching
<1>3. ASSUME NEW d \in Delivery \ {Poll}, SendFrames(d)
      PROVE  LeaseInv'
  <2>1. UNCHANGED <<status, thread, runs>>
    BY <1>3 DEF SendFrames
  <2>2. worker[d].conn \in Conn
    BY <1>3 DEF SendFrames, Bookkeeping, SendHasConnection
  <2>3. Wire(worker[d].conn) \in Place
    BY <2>2, PlaceType
  <2>4. \E S \in SUBSET At(Claimed(d)) :
           envelopes' = Drop(Claimed(d)) \cup (S \X {Wire(worker[d].conn)})
    <3>1. CASE envelopes' = MoveTo(Claimed(d), Wire(worker[d].conn))
      BY <3>1 DEF MoveTo
    <3>2. CASE envelopes' = Drop(Claimed(d))
      <4>1. envelopes' = Drop(Claimed(d)) \cup ({} \X {Wire(worker[d].conn)})
        BY <3>2
      <4>. QED  BY <4>1
    <3>3. CASE \E c \in At(Claimed(d)) : envelopes' =
                 Drop(Claimed(d)) \cup ({x \in At(Claimed(d)) : x < c} \X {Wire(worker[d].conn)})
      BY <3>3
    <3>. QED  BY <1>3, <3>1, <3>2, <3>3 DEF SendFrames
  <2>5. /\ \A e \in envelopes' : \E f \in envelopes : f[1] = e[1]
        /\ \A e, f \in envelopes' : e[1] = f[1] => e = f
    BY <1>0, <2>3, <2>4, MovesCopyNothing
  <2>. QED  BY <2>1, <2>5, LeaseShrinks DEF Dispatching
<1>4. ASSUME NEW d \in Delivery, AbortDelivery(d)
      PROVE  LeaseInv'
  <2>1. UNCHANGED <<status, thread, runs>> /\ envelopes' = Drop(Claimed(d))
    BY <1>4 DEF AbortDelivery
  <2>2. envelopes' \subseteq envelopes
    BY <2>1 DEF Drop
  <2>. QED  BY <1>1, <2>1, <2>2, LeaseShrinks DEF Dispatching
<1>5. ASSUME NEW d \in Delivery, NEW c \in Command, MarkSent(d, c)
      PROVE  LeaseInv'
  BY <1>5, ClaimKeepsLease
<1>6. ASSUME AnswerPoll
      PROVE  LeaseInv'
  <2>1. UNCHANGED <<status, runs>>
    BY <1>6 DEF AnswerPoll
  <2>2. \A t \in Thread : thread'[t] = thread[t] \/ thread'[t] = IdleThread
    BY <1>6 DEF AnswerPoll, TypeOK
  <2>3. \A t \in Thread : Dispatching(t)' => Dispatching(t) /\ thread'[t].cmd = thread[t].cmd
    BY <2>2 DEF Dispatching, IdleThread
  <2>4. \E S \in SUBSET At(Claimed(Poll)) :
           envelopes' = Drop(Claimed(Poll)) \cup (S \X {Batch})
    <3>1. CASE envelopes' = MoveTo(Claimed(Poll), Batch)
      BY <3>1 DEF MoveTo
    <3>2. CASE envelopes' = Drop(Claimed(Poll))
      <4>1. envelopes' = Drop(Claimed(Poll)) \cup ({} \X {Batch})
        BY <3>2
      <4>. QED  BY <4>1
    <3>. QED  BY <1>6, <3>1, <3>2 DEF AnswerPoll
  <2>5. /\ \A e \in envelopes' : \E f \in envelopes : f[1] = e[1]
        /\ \A e, f \in envelopes' : e[1] = f[1] => e = f
    BY <1>0, <2>4, MovesCopyNothing, PlaceType
  <2>. QED  BY <2>1, <2>3, <2>5, LeaseShrinks
<1>. QED  BY <1>2, <1>3, <1>4, <1>5, <1>6 DEF Deliver

LEMMA ConnectionKeepsLease ==
    ASSUME TypeOK, LeaseInv, Connection \/ Fault
    PROVE  LeaseInv'
<1>. USE DEF database, server, http, agent, bounds
<1>1. UNCHANGED <<status, runs>>
  BY DEF Connection, Hello, HelloAccepted, ServerCloses, SocketGone, LinkDown,
     Fault, ServerCrash, AgentRestart
<1>2. envelopes' \subseteq envelopes
  BY DEF Connection, Hello, HelloAccepted, ServerCloses, SocketGone, LinkDown, Drop,
     Fault, ServerCrash, AgentRestart
<1>3. \A t \in Thread : thread'[t] = thread[t] \/ thread'[t] = IdleThread
  BY DEF Connection, Hello, HelloAccepted, ServerCloses, SocketGone, LinkDown,
     Fault, ServerCrash, AgentRestart, TypeOK
<1>4. \A t \in Thread : Dispatching(t)' => Dispatching(t) /\ thread'[t].cmd = thread[t].cmd
  BY <1>3 DEF Dispatching, IdleThread
<1>5. \A e, f \in envelopes : e[1] = f[1] => e = f
  BY DEF LeaseInv, SingleLease
<1>. QED  BY <1>1, <1>2, <1>4, <1>5, LeaseShrinks

LEMMA DatabaseKeepsLease ==
    ASSUME TypeOK, LeaseInv, Database
    PROVE  LeaseInv'
<1>. USE DEF database, server, http, agent, bounds
<1>1. UNCHANGED <<envelopes, thread, runs>>
  BY DEF Database, Elapse, HeartbeatConfirms, SweepRead, SweepWrite, SweepFails, ChainStep,
     ReportFails, PostStep, PostFails
<1>2. \A e, f \in envelopes : e[1] = f[1] => e = f
  BY DEF LeaseInv, SingleLease
<1>. QED  BY <1>1, <1>2, DatabaseKeepsReleased, LeaseShrinks DEF Dispatching

(* A dispatch takes the one copy there is; the dedup set is not needed for *)
(* this, it only spares duplicates that the lease already rules out.       *)
LEMMA DispatchKeepsLease ==
    ASSUME TypeOK, LeaseInv, NEW t \in Thread, NEW c \in Command, Dispatch(t, c)
    PROVE  LeaseInv'
<1>. USE DEF database, server, http, agent, bounds
<1>1. UNCHANGED <<status, runs>> /\ envelopes' = envelopes \ {<<c, Inbox(t)>>}
  BY DEF Dispatch
<1>2. <<c, Inbox(t)>> \in envelopes
  BY DEF Dispatch, Oldest, At
<1>3. \A e \in envelopes' : e \in envelopes /\ e[1] # c /\ e[1] \in Command
  <2>1. \A e \in envelopes : e[1] = c => e = <<c, Inbox(t)>>
    BY <1>2 DEF LeaseInv, SingleLease
  <2>. QED  BY <1>1, <2>1 DEF TypeOK
<1>4. Busy(c) = {} /\ runs[c] = 0 /\ status[c] \in Released
  BY <1>2 DEF LeaseInv, SingleLease, OnlyReleasedRun
<1>5. \A u \in Thread : \/ thread'[u] = thread[u]
                        \/ u = t /\ thread'[u].cmd = c
  BY DEF Dispatch, Goto, TypeOK
<1>6. /\ \A x \in Command \ {c} : Busy(x)' \subseteq Busy(x)
      /\ Busy(c)' \subseteq {t}
  BY <1>4, <1>5 DEF Busy, Dispatching
<1>7. SingleLease'
  <2>1. \A e, f \in envelopes' : e[1] = f[1] => e = f
    BY <1>3 DEF LeaseInv, SingleLease
  <2>2. \A e \in envelopes' : Busy(e[1])' = {} /\ runs'[e[1]] = 0
    BY <1>1, <1>3, <1>6 DEF LeaseInv, SingleLease
  <2>3. \A x \in Command : Busy(x)' # {} => runs'[x] = 0
    BY <1>1, <1>4, <1>6 DEF LeaseInv, SingleLease
  <2>4. \A x \in Command : \A u, v \in Busy(x)' : u = v
    BY <1>6 DEF LeaseInv, SingleLease
  <2>. QED  BY <2>1, <2>2, <2>3, <2>4 DEF SingleLease
<1>8. OnlyReleasedRun'
  BY <1>1, <1>3, <1>4, <1>6 DEF LeaseInv, OnlyReleasedRun
<1>. QED  BY <1>7, <1>8 DEF LeaseInv

(* The handler runs while its thread is busy with the command, so for the  *)
(* first time, and nothing of the command is left afterwards.              *)
LEMMA RunKeepsLease ==
    ASSUME TypeOK, LeaseInv, NEW t \in Thread, NEW c \in Command, c = thread[t].cmd,
           RunHandler(t)
    PROVE  LeaseInv'
<1>. USE DEF database, server, http, agent, bounds
<1>1. /\ UNCHANGED <<status, envelopes>>
      /\ runs' = [runs EXCEPT ![c] = @ + 1]
      /\ thread' = [thread EXCEPT ![t] = IdleThread]
  BY DEF RunHandler
<1>2. t \in Busy(c)
  BY DEF RunHandler, Busy, Dispatching
<1>3. runs[c] = 0 /\ Busy(c) = {t} /\ status[c] \in Released
  BY <1>2 DEF LeaseInv, SingleLease, OnlyReleasedRun
<1>4. \A e \in envelopes : e[1] # c /\ e[1] \in Command
  BY <1>2 DEF LeaseInv, SingleLease, TypeOK
<1>5. \A u \in Thread : thread'[u] = IF u = t THEN IdleThread ELSE thread[u]
  BY <1>1 DEF TypeOK
<1>6. /\ \A x \in Command : Busy(x)' \subseteq Busy(x)
      /\ Busy(c)' = {}
  <2>1. \A u \in Thread : Dispatching(u)' => /\ u # t
                                             /\ Dispatching(u)
                                             /\ thread'[u].cmd = thread[u].cmd
    BY <1>5 DEF Dispatching, IdleThread
  <2>2. \A x \in Command : Busy(x)' \subseteq Busy(x) \ {t}
    BY <2>1 DEF Busy
  <2>. QED  BY <1>3, <2>2
<1>7. \A x \in Command : runs'[x] = IF x = c THEN 1 ELSE runs[x]
  BY <1>1, <1>3 DEF TypeOK
<1>8. SingleLease'
  <2>1. \A e \in envelopes' : Busy(e[1])' = {} /\ runs'[e[1]] = 0
    BY <1>1, <1>4, <1>6, <1>7 DEF LeaseInv, SingleLease
  <2>2. \A x \in Command : Busy(x)' # {} => runs'[x] = 0
    <3>1. \A x \in Command : Busy(x) # {} => runs[x] = 0
      BY DEF LeaseInv, SingleLease
    <3>. QED  BY <1>6, <1>7, <3>1
  <2>3. \A x \in Command : \A u, v \in Busy(x)' : u = v
    BY <1>6 DEF LeaseInv, SingleLease
  <2>. QED  BY <1>1, <2>1, <2>2, <2>3 DEF LeaseInv, SingleLease
<1>9. OnlyReleasedRun'
  BY <1>1, <1>3, <1>6, <1>7 DEF LeaseInv, OnlyReleasedRun
<1>. QED  BY <1>8, <1>9 DEF LeaseInv

LEMMA AgentKeepsLease ==
    ASSUME TypeOK, Bookkeeping, LeaseInv, Agent
    PROVE  LeaseInv'
<1>. USE DEF database, server, http, agent, bounds
<1>0. \A e, f \in envelopes : e[1] = f[1] => e = f
  BY DEF LeaseInv, SingleLease
<1>1. ASSUME NEW t \in Thread, NEW c \in Command, Dispatch(t, c)
      PROVE  LeaseInv'
  BY <1>1, DispatchKeepsLease
<1>2. ASSUME NEW t \in Thread, SendAck(t) \/ SendRunning(t)
      PROVE  LeaseInv'
  <2>1. UNCHANGED <<status, envelopes, runs>>
    BY <1>2 DEF SendAck, SendRunning
  <2>2. Dispatching(t)
    BY <1>2 DEF SendAck, SendRunning, Dispatching
  <2>3. \A u \in Thread : \/ thread'[u] = thread[u]
                          \/ thread'[u] = IdleThread
                          \/ u = t /\ thread'[u].cmd = thread[u].cmd
    BY <1>2 DEF SendAck, SendRunning, Goto, TypeOK
  <2>4. \A u \in Thread : Dispatching(u)' => Dispatching(u) /\ thread'[u].cmd = thread[u].cmd
    BY <2>2, <2>3 DEF Dispatching, IdleThread
  <2>. QED  BY <1>0, <2>1, <2>4, LeaseShrinks
<1>3. ASSUME NEW t \in Thread, RunHandler(t)
      PROVE  LeaseInv'
  <2>1. thread[t].cmd \in Command
    BY <1>3 DEF RunHandler, Bookkeeping, DispatchHasLink, Dispatching
  <2>. QED  BY <1>3, <2>1, RunKeepsLease
<1>4. CASE PollRequest \/ PollTimeout \/ ReportTimeout \/ \E c \in Command : Forget(c)
  <2>1. UNCHANGED <<status, envelopes, runs>>
    BY <1>4 DEF PollRequest, PollTimeout, ReportTimeout, Forget
  <2>2. \A u \in Thread : \/ thread'[u] = thread[u]
                          \/ thread'[u].pc \in {"idle", "polling"}
    BY <1>4 DEF PollRequest, PollTimeout, ReportTimeout, Forget, TypeOK, ThreadState, IdleThread
  <2>3. \A u \in Thread : Dispatching(u)' => Dispatching(u) /\ thread'[u].cmd = thread[u].cmd
    BY <2>2 DEF Dispatching
  <2>. QED  BY <1>0, <2>1, <2>3, LeaseShrinks
<1>. QED  BY <1>1, <1>2, <1>3, <1>4 DEF Agent

-----------------------------------------------------------------------------
(* The inductive invariant of delivery.                                    *)
IInv == TypeOK /\ Bookkeeping /\ LeaseInv

LEMMA IInvInit == Init => IInv
<1>. SUFFICES ASSUME Init PROVE LeaseInv
  BY InitSound DEF IInv
<1>1. \A c \in Command : Busy(c) = {} /\ runs[c] = 0
  BY DEF Init, Busy, Dispatching, IdleThread
<1>2. envelopes = {}
  BY DEF Init
<1>. QED  BY <1>1, <1>2 DEF LeaseInv, SingleLease, OnlyReleasedRun

LEMMA IInvNext == IInv /\ [Next]_vars => IInv'
<1>. SUFFICES ASSUME IInv, [Next]_vars PROVE IInv'
  OBVIOUS
<1>1. TypeOK' /\ Bookkeeping'
  BY NextSound DEF IInv
<1>2. CASE Next
  BY <1>1, <1>2, OperatorKeepsLease, DeliverKeepsLease, ConnectionKeepsLease,
     DatabaseKeepsLease, AgentKeepsLease DEF Next, IInv
<1>3. CASE UNCHANGED vars
  <2>1. UNCHANGED <<status, envelopes, thread, runs>>
    BY <1>3 DEF vars, database, agent
  <2>2. \A e, f \in envelopes : e[1] = f[1] => e = f
    BY DEF IInv, LeaseInv, SingleLease
  <2>3. LeaseInv'
    BY <2>1, <2>2, LeaseShrinks DEF IInv, Dispatching
  <2>. QED  BY <1>1, <2>3 DEF IInv
<1>. QED  BY <1>2, <1>3

LEMMA IInvHolds == Spec => []IInv
BY IInvInit, IInvNext, PTL DEF Spec

(* markSent's compare-and-set is a lease: whatever the interleaving of REST*)
(* deliveries, hello deliveries, polls, crashes and restarts, a command    *)
(* message never exists twice.                                             *)
THEOREM LeaseIsExclusive == Spec => []SingleLease
<1>1. IInv => SingleLease
  BY DEF IInv, LeaseInv
<1>. QED  BY IInvHolds, <1>1, PTL

(* A handler runs once at most, and never for a command that is still      *)
(* queued or whose cancellation was accepted.                              *)
THEOREM CancelledNeverRuns == Spec => []OnlyReleasedRun
<1>1. IInv => OnlyReleasedRun
  BY DEF IInv, LeaseInv
<1>. QED  BY IInvHolds, <1>1, PTL

-----------------------------------------------------------------------------
(* Refinement. A report whose transaction has read the row may write only  *)
(* what the transition table allows from the status it read.               *)
LawfulRead(m) == m.read # Absent => CanTransition(m.read, Target(m.type))

ReadsLawful == /\ \A k \in Conn : \A i \in 1..Len(chain[k]) : LawfulRead(chain[k][i])
               /\ \A m \in posts \cup late : LawfulRead(m)

(* A step of handling a report leaves it lawful, and moves its row by a    *)
(* lawful transition or not at all.                                        *)
LEMMA ApplyLawful ==
    ASSUME TypeOK, NEW m \in Job \ {HelloJob}, LawfulRead(m), Apply(m)
    PROVE  /\ m.read = Absent /\ ~Refused(m) => LawfulRead(WithRead(m))
           /\ status' \in [Command -> RowState]
           /\ \A c \in Command : \/ status'[c] = status[c]
                                 \/ CanTransition(status[c], status'[c])
<1>1. m.read = Absent /\ ~Refused(m) => LawfulRead(WithRead(m))
  <2>1. /\ m \in [type : Reports, cmd : Command, read : RowState]
        /\ status[m.cmd] \in RowState
    BY DEF Job, TypeOK
  <2>2. WithRead(m).read = status[m.cmd] /\ WithRead(m).type = m.type
    BY <2>1 DEF WithRead
  <2>. QED  BY <2>2 DEF LawfulRead, Refused
<1>2. \A c \in Command : \/ status'[c] = status[c]
                         \/ CanTransition(status[c], status'[c])
  BY JobFields DEF Apply, Refused, LawfulRead, TypeOK
<1>. QED  BY <1>1, <1>2, ApplyType

LEMMA ReadsLawfulInit == Init => ReadsLawful
BY DEF Init, ReadsLawful

LEMMA ReportLawful == \A type, c : LawfulRead(Report(type, c))
BY DEF LawfulRead, Report

(* What is left of a chain whose jobs are lawful is lawful.                *)
LEMMA ChainsShrink ==
    ASSUME TypeOK, ReadsLawful, UNCHANGED <<posts, late>>,
           \A k \in Conn : \/ chain'[k] = chain[k]
                           \/ chain'[k] = <<>>
                           \/ chain[k] # <<>> /\ chain'[k] = Tail(chain[k])
                           \/ \E n \in 0..Len(chain[k]) : chain'[k] = SubSeq(chain[k], 1, n)
                           \/ chain'[k] = <<HelloJob>>
    PROVE  ReadsLawful'
<1>1. ASSUME NEW k \in Conn, NEW i \in 1..Len(chain'[k])
      PROVE  LawfulRead(chain'[k][i])
  <2>1. chain[k] \in Seq(Job)
    BY DEF TypeOK
  <2>2. CASE chain'[k] = chain[k]
    BY <2>2 DEF ReadsLawful
  <2>3. CASE chain'[k] = <<>>
    BY <2>3
  <2>4. CASE chain[k] # <<>> /\ chain'[k] = Tail(chain[k])
    <3>1. i + 1 \in 1..Len(chain[k]) /\ chain'[k][i] = chain[k][i + 1]
      BY <2>1, <2>4
    <3>. QED  BY <3>1 DEF ReadsLawful
  <2>5. ASSUME NEW n \in 0..Len(chain[k]), chain'[k] = SubSeq(chain[k], 1, n)
        PROVE  LawfulRead(chain'[k][i])
    <3>1. i \in 1..Len(chain[k]) /\ chain'[k][i] = chain[k][i]
      BY <2>1, <2>5
    <3>. QED  BY <3>1 DEF ReadsLawful
  <2>6. CASE chain'[k] = <<HelloJob>>
    <3>1. chain'[k][i] = HelloJob
      BY <2>6
    <3>. QED  BY <3>1 DEF LawfulRead, HelloJob
  <2>. QED  BY <2>2, <2>3, <2>4, <2>5, <2>6
<1>. QED  BY <1>1 DEF ReadsLawful

(* The steps of Next that handle or send a report; every other step only   *)
(* shortens chains, or starts one.                                         *)
LEMMA ReadsLawfulNext ==
    ASSUME TypeOK, Bookkeeping, ReadsLawful, [Next]_vars
    PROVE  ReadsLawful'
<1>. USE DEF database, server, http, agent, bounds
<1>f. ASSUME NEW d \in Delivery, Finish(d), worker[d].pc # "idle"
      PROVE  \A k \in Conn : \/ chain'[k] = chain[k]
                             \/ chain[k] # <<>> /\ chain'[k] = Tail(chain[k])
  BY <1>f, Bookkept DEF Finish, TypeOK
<1>1. CASE UNCHANGED vars \/ Operator
  <2>1. UNCHANGED <<chain, posts, late>>
    BY <1>1 DEF vars, Operator, Create, Replay, Cancel
  <2>. QED  BY <2>1, ChainsShrink
<1>2. CASE Deliver
  <2>1. UNCHANGED <<posts, late>>
    BY <1>2 DEF Deliver, StartHelloDelivery, GetConnection, Find, MarkSent, SendFrames,
       AbortDelivery, AnswerPoll
  <2>2. \/ UNCHANGED chain
        \/ \E d \in Delivery : Finish(d) /\ worker[d].pc # "idle"
    <3>1. Poll \in Delivery
      BY DEF Delivery
    <3>. QED  BY <1>2, <3>1 DEF Deliver, StartHelloDelivery, GetConnection, Find, MarkSent,
                 SendFrames, AbortDelivery, AnswerPoll
  <2>. QED  BY <1>f, <2>1, <2>2, ChainsShrink
<1>3. CASE Connection
  <2>1. UNCHANGED <<posts, late>>
    BY <1>3 DEF Connection, Hello, HelloAccepted, ServerCloses, SocketGone, LinkDown
  <2>2. ASSUME NEW k \in Conn, Hello(k)
        PROVE  \A x \in Conn : chain'[x] = chain[x] \/ chain'[x] = <<HelloJob>>
    BY <2>2 DEF Hello, TypeOK
  <2>3. ASSUME NEW k \in Conn, SocketGone(k)
        PROVE  \A x \in Conn : \/ chain'[x] = chain[x]
                               \/ \E n \in 0..Len(chain[x]) : chain'[x] = SubSeq(chain[x], 1, n)
    <3>1. chain[k] \in Seq(Job)
      BY DEF TypeOK
    <3>2. PICK n \in (IF InProgress(k) THEN 1 ELSE 0)..Len(chain[k]) :
               chain' = [chain EXCEPT ![k] = SubSeq(@, 1, n)]
      BY <2>3 DEF SocketGone
    <3>3. n \in 0..Len(chain[k])
      BY <3>1, <3>2
    <3>. QED  BY <3>2, <3>3 DEF TypeOK
  <2>4. CASE UNCHANGED chain
    BY <2>1, <2>4, ChainsShrink
  <2>5. \/ \E k \in Conn : Hello(k) \/ SocketGone(k)
        \/ UNCHANGED chain
    BY <1>3 DEF Connection, HelloAccepted, ServerCloses, LinkDown
  <2>. QED  BY <2>1, <2>2, <2>3, <2>4, <2>5, ChainsShrink
<1>4. CASE ServerCrash
  BY <1>4 DEF ServerCrash, ReadsLawful
<1>5. CASE AgentRestart \/ PollRequest \/ PollTimeout \/ SweepRead \/ SweepWrite
           \/ \E c \in Command : \/ Elapse(c) \/ HeartbeatConfirms(c) \/ Forget(c)
                                 \/ \E t \in Thread : Dispatch(t, c)
  <2>1. UNCHANGED <<chain, posts, late>>
    BY <1>5 DEF AgentRestart, PollRequest, PollTimeout, SweepRead, SweepWrite, Elapse,
       HeartbeatConfirms, Forget, Dispatch
  <2>. QED  BY <2>1, ChainsShrink
<1>6. CASE ReportTimeout
  BY <1>6 DEF ReportTimeout, ReadsLawful
<1>7. ASSUME NEW k \in Conn, ChainStep(k)
      PROVE  ReadsLawful'
  <2>1. chain[k] \in Seq(Job) /\ chain[k] # <<>> /\ Head(chain[k]).type # "deliver"
    BY <1>7 DEF ChainStep, TypeOK
  <2>2. PICK m \in Job \ {HelloJob} : m = Head(chain[k])
    BY <2>1 DEF HelloJob
  <2>3. LawfulRead(m)
    BY <2>1, <2>2 DEF ReadsLawful
  <2>4. m.read = Absent /\ ~Refused(m) => LawfulRead(WithRead(m))
    BY <1>7, <2>2, <2>3, ApplyLawful DEF ChainStep
  <2>5. UNCHANGED <<posts, late>>
    BY <1>7 DEF ChainStep
  <2>6. CASE ~(m.read = Absent /\ ~Refused(m))
    <3>1. \A x \in Conn : chain'[x] = chain[x] \/ (chain[x] # <<>> /\ chain'[x] = Tail(chain[x]))
      BY <1>7, <2>1, <2>2, <2>6 DEF ChainStep, TypeOK
    <3>. QED  BY <2>5, <3>1, ChainsShrink
  <2>7. CASE m.read = Absent /\ ~Refused(m)
    <3>1. /\ \A x \in Conn \ {k} : chain'[x] = chain[x]
          /\ chain'[k] = <<WithRead(m)>> \o Tail(chain[k])
      BY <1>7, <2>2, <2>7 DEF ChainStep, TypeOK
    <3>2. WithRead(m) \in Job
      BY WithReadType
    <3>3. ASSUME NEW i \in 1..Len(chain'[k]) PROVE LawfulRead(chain'[k][i])
      <4>1. /\ Len(chain'[k]) = Len(chain[k])
            /\ chain'[k][1] = WithRead(m)
            /\ i > 1 => chain'[k][i] = chain[k][i]
        BY <2>1, <3>1, <3>2
      <4>2. CASE i = 1
        BY <2>4, <2>7, <4>1, <4>2
      <4>3. CASE i > 1
        <5>1. i \in 1..Len(chain[k])
          BY <4>1
        <5>. QED  BY <4>1, <4>3, <5>1 DEF ReadsLawful
      <4>. QED  BY <2>1, <4>1, <4>2, <4>3
    <3>. QED  BY <2>5, <3>1, <3>3 DEF ReadsLawful
  <2>. QED  BY <2>6, <2>7
<1>10. ASSUME NEW k \in Conn, ReportFails(k)
       PROVE  ReadsLawful'
  <2>1. UNCHANGED <<posts, late>> /\ chain[k] # <<>>
    BY <1>10 DEF ReportFails
  <2>2. \A x \in Conn : chain'[x] = chain[x] \/ (chain[x] # <<>> /\ chain'[x] = Tail(chain[x]))
    BY <1>10 DEF ReportFails, TypeOK
  <2>. QED  BY <2>1, <2>2, ChainsShrink
<1>11. CASE SweepFails \/ \E m \in posts \cup late : PostFails(m)
  BY <1>11 DEF SweepFails, PostFails, ReadsLawful
<1>8. ASSUME NEW m \in posts \cup late, PostStep(m)
      PROVE  ReadsLawful'
  <2>1. m \in Job \ {HelloJob} /\ LawfulRead(m)
    BY DEF TypeOK, ReadsLawful
  <2>2. m.read = Absent /\ ~Refused(m) => LawfulRead(WithRead(m))
    BY <1>8, <2>1, ApplyLawful DEF PostStep
  <2>3. \A x \in posts' \cup late' :
           x \in posts \cup late \/ (m.read = Absent /\ ~Refused(m) /\ x = WithRead(m))
    BY <1>8 DEF PostStep, Stepped
  <2>. QED  BY <1>8, <2>2, <2>3 DEF PostStep, ReadsLawful
<1>9. ASSUME NEW t \in Thread, SendAck(t) \/ SendRunning(t) \/ RunHandler(t)
      PROVE  ReadsLawful'
  <2>1. PICK c \in Command : c = thread[t].cmd /\ (t = "ws" => link \in Conn)
    BY <1>9 DEF SendAck, SendRunning, RunHandler, Bookkeeping, DispatchHasLink, Dispatching
  <2>2. UNCHANGED late
    BY <1>9 DEF SendAck, SendRunning, RunHandler
  <2>3. CASE UNCHANGED <<chain, posts>>
    BY <2>2, <2>3, ChainsShrink
  <2>4. ASSUME NEW type \in Reports, Send(t, Report(type, c))
        PROVE  ReadsLawful'
    <3>1. posts' \subseteq posts \cup {Report(type, c)}
      BY <2>4 DEF Send
    <3>2. \A k \in Conn : chain'[k] = chain[k] \/ chain'[k] = Append(chain[k], Report(type, c))
      BY <2>1, <2>4 DEF Send, TypeOK
    <3>3. Report(type, c) \in Job
      BY ReportType
    <3>4. ASSUME NEW k \in Conn, NEW i \in 1..Len(chain'[k]),
                 chain'[k] = Append(chain[k], Report(type, c))
          PROVE  LawfulRead(chain'[k][i])
      <4>1. chain[k] \in Seq(Job)
        BY DEF TypeOK
      <4>2. \/ i \in 1..Len(chain[k]) /\ chain'[k][i] = chain[k][i]
            \/ chain'[k][i] = Report(type, c)
        BY <3>3, <3>4, <4>1
      <4>. QED  BY <4>2, ReportLawful DEF ReadsLawful
    <3>. QED  BY <2>2, <3>1, <3>2, <3>4, ReportLawful DEF ReadsLawful
  <2>5. \/ \E type \in Reports : Send(t, Report(type, c))
        \/ UNCHANGED <<chain, posts>>
    BY <1>9, <2>1 DEF SendAck, SendRunning, RunHandler, Reports
  <2>. QED  BY <2>3, <2>4, <2>5
<1>. QED  BY <1>1, <1>2, <1>3, <1>4, <1>5, <1>6, <1>7, <1>8, <1>9, <1>10, <1>11
          DEF Next, Fault, Database, Agent

LEMMA InitRefines == Init => Lifecycle!Init
BY DEF Init, Lifecycle!Init, Lifecycle!Absent, Absent

(* Every step of delivery is a lawful move of rows, the creation of one,   *)
(* one run of a claimed command, or invisible to the lifecycle.            *)
LEMMA NextRefines ==
    ASSUME IInv, ReadsLawful, [Next]_vars
    PROVE  [Lifecycle!Next]_(Lifecycle!vars)
<1>. USE DEF database, server, http, agent, bounds
<1>0. TypeOK /\ Bookkeeping /\ LeaseInv
  BY DEF IInv
<1>a. ASSUME UNCHANGED <<status, runs>>
      PROVE  [Lifecycle!Next]_(Lifecycle!vars)
  BY <1>a DEF Lifecycle!vars
<1>b. ASSUME status' \in [Command -> RowState], UNCHANGED runs,
             \A c \in Command : status'[c] = status[c] \/ CanTransition(status[c], status'[c])
      PROVE  [Lifecycle!Next]_(Lifecycle!vars)
  <2>1. Lifecycle!Advance
    BY <1>b DEF Lifecycle!Advance, Lifecycle!CanTransition, Lifecycle!RowState,
       Lifecycle!Statuses, Lifecycle!Absent, CanTransition, RowState, Statuses, Absent
  <2>. QED  BY <2>1 DEF Lifecycle!Next
<1>1. ASSUME NEW r \in Rest, NEW c \in Command, Create(r, c)
      PROVE  [Lifecycle!Next]_(Lifecycle!vars)
  <2>1. Lifecycle!Create(c)
    BY <1>1 DEF Create, Lifecycle!Create, Lifecycle!Absent, Absent
  <2>. QED  BY <2>1 DEF Lifecycle!Next
<1>2. ASSUME NEW c \in Command, Cancel(c) \/ HeartbeatConfirms(c)
      PROVE  [Lifecycle!Next]_(Lifecycle!vars)
  BY <1>0, <1>2, <1>b DEF Cancel, HeartbeatConfirms, CanTransition, TypeOK, RowState, Statuses
<1>3. ASSUME NEW d \in Delivery, NEW c \in Command, MarkSent(d, c)
      PROVE  [Lifecycle!Next]_(Lifecycle!vars)
  BY <1>0, <1>3, <1>b DEF MarkSent, CanTransition, TypeOK, RowState, Statuses
<1>4. ASSUME SweepWrite
      PROVE  [Lifecycle!Next]_(Lifecycle!vars)
  <2>1. \A c \in Command : sweep[c] # Absent => CanTransition(sweep[c], "expired")
    BY <1>0 DEF TypeOK, Pending, CanTransition
  <2>. QED  BY <1>0, <1>4, <1>b, <2>1 DEF SweepWrite, TypeOK, RowState, Statuses
<1>5. ASSUME NEW k \in Conn, ChainStep(k)
      PROVE  [Lifecycle!Next]_(Lifecycle!vars)
  <2>1. chain[k] \in Seq(Job) /\ chain[k] # <<>> /\ Head(chain[k]).type # "deliver"
    BY <1>0, <1>5 DEF ChainStep, TypeOK
  <2>2. Head(chain[k]) \in Job \ {HelloJob} /\ LawfulRead(Head(chain[k]))
    BY <2>1 DEF HelloJob, ReadsLawful
  <2>. QED  BY <1>0, <1>5, <1>b, <2>2, ApplyLawful DEF ChainStep
<1>6. ASSUME NEW m \in posts \cup late, PostStep(m)
      PROVE  [Lifecycle!Next]_(Lifecycle!vars)
  <2>1. m \in Job \ {HelloJob} /\ LawfulRead(m)
    BY <1>0 DEF TypeOK, ReadsLawful
  <2>. QED  BY <1>0, <1>6, <1>b, <2>1, ApplyLawful DEF PostStep
<1>7. ASSUME NEW t \in Thread, RunHandler(t)
      PROVE  [Lifecycle!Next]_(Lifecycle!vars)
  <2>1. PICK c \in Command : c = thread[t].cmd
    BY <1>0, <1>7 DEF RunHandler, Bookkeeping, DispatchHasLink, Dispatching
  <2>2. t \in Busy(c)
    BY <1>7, <2>1 DEF RunHandler, Busy, Dispatching
  <2>3. runs[c] = 0 /\ status[c] \in Released
    BY <1>0, <2>2 DEF LeaseInv, SingleLease, OnlyReleasedRun
  <2>4. runs' = [runs EXCEPT ![c] = 1] /\ UNCHANGED status
    BY <1>0, <1>7, <2>1, <2>3 DEF RunHandler, TypeOK
  <2>5. Lifecycle!Run(c)
    BY <2>3, <2>4 DEF Lifecycle!Run, Lifecycle!Released, Lifecycle!Statuses, Released, Statuses
  <2>. QED  BY <2>5 DEF Lifecycle!Next
<1>8. CASE \/ UNCHANGED vars \/ Connection \/ Fault \/ SweepRead \/ SweepFails
           \/ (\E k \in Conn : ReportFails(k)) \/ (\E m \in posts \cup late : PostFails(m))
           \/ AnswerPoll \/ PollRequest \/ PollTimeout \/ ReportTimeout
           \/ \E r \in Rest : Replay(r)
           \/ \E k \in Conn : StartHelloDelivery(k)
           \/ \E d \in Delivery : GetConnection(d) \/ SendFrames(d) \/ Find(d) \/ AbortDelivery(d)
           \/ \E c \in Command : \/ Elapse(c) \/ Forget(c)
                                 \/ \E t \in Thread : Dispatch(t, c)
           \/ \E t \in Thread : SendAck(t) \/ SendRunning(t)
  <2>1. UNCHANGED <<status, runs>>
    BY <1>8 DEF vars, Connection, Hello, HelloAccepted, ServerCloses, SocketGone, LinkDown,
       Fault, ServerCrash, AgentRestart, SweepRead, AnswerPoll, PollRequest, PollTimeout,
       ReportTimeout, Replay, StartHelloDelivery, GetConnection, SendFrames, Find,
       AbortDelivery, Elapse, Forget, Dispatch, SendAck, SendRunning, SweepFails, ReportFails,
       PostFails
  <2>. QED  BY <1>a, <2>1
<1>. QED  BY <1>1, <1>2, <1>3, <1>4, <1>5, <1>6, <1>7, <1>8
          DEF Next, Operator, Deliver, Database, Agent

(* Delivery over both transports, through every interleaving and failure,  *)
(* implements the lifecycle a command is promised.                         *)
THEOREM DeliveryImplementsLifecycle == Spec => ImplementsLifecycle
<1>1. IInv /\ ReadsLawful /\ [Next]_vars => (IInv /\ ReadsLawful)'
  BY IInvNext, ReadsLawfulNext DEF IInv
<1>2. Init => IInv /\ ReadsLawful
  BY IInvInit, ReadsLawfulInit
<1>3. IInv /\ ReadsLawful /\ [Next]_vars => [Lifecycle!Next]_(Lifecycle!vars)
  BY NextRefines
<1>. QED  BY <1>1, <1>2, <1>3, InitRefines, PTL DEF Spec, ImplementsLifecycle, Lifecycle!Spec
-----------------------------------------------------------------------------
(* Nothing is stranded.                                                    *)

(* A connection that has not said hello has no jobs, and the agent only    *)
(* holds connections that have.                                            *)
Fresh == /\ \A k \in Conn : socket[k] = "unused" => chain[k] = <<>>
         /\ link # NoConn => socket[link] # "unused"

(* Some delivery will claim c: it has not looked at the registry or at the *)
(* rows yet, or it has found the row.                                      *)
OnItsWay(c) == \E d \in Delivery : \/ worker[d].pc = "get" /\ d # Poll
                                   \/ worker[d].pc = "find"
                                   \/ worker[d].pc = "claim" /\ c \in worker[d].todo

(* The delivery that hello has chained has not begun.                      *)
HelloWaits == Delivering(registry) /\ worker[registry].pc = "idle"

(* While a connection is registered and no delivery was cut short, every   *)
(* command that could be delivered is some delivery's business.            *)
Covered == ~cutShort /\ registry # NoConn => HelloWaits \/ \A c \in Ready : OnItsWay(c)

LEMMA FreshInit == Init => Fresh
BY DEF Init, Fresh

(* What a step has to show of the sockets and chains that Fresh is about.  *)
LEMMA FreshKept ==
    ASSUME TypeOK, Fresh,
           \A k \in Conn : socket'[k] = "unused" => socket[k] = "unused",
           \A k \in Conn : socket[k] = "unused" /\ chain[k] = <<>> => chain'[k] = <<>>,
           link' = link \/ link' = NoConn
    PROVE  Fresh'
BY DEF Fresh, TypeOK

LEMMA FreshNext ==
    ASSUME TypeOK, Bookkeeping, Fresh, [Next]_vars
    PROVE  Fresh'
<1>. USE DEF database, server, http, agent, bounds
<1>f. ASSUME NEW d \in Delivery, Finish(d), worker[d].pc # "idle"
      PROVE  \A k \in Conn : chain[k] = <<>> => chain'[k] = <<>>
  BY <1>f, Bookkept DEF Finish, TypeOK
<1>1. CASE UNCHANGED <<socket, chain>> /\ (link' = link \/ link' = NoConn)
  BY <1>1, FreshKept
<1>2. CASE UNCHANGED vars \/ Operator
  BY <1>1, <1>2 DEF vars, Operator, Create, Replay, Cancel
<1>3. CASE Deliver
  <2>1. UNCHANGED link
    BY <1>3 DEF Deliver, StartHelloDelivery, GetConnection, Find, MarkSent, SendFrames,
       AbortDelivery, AnswerPoll
  <2>2. \/ UNCHANGED chain
        \/ \E d \in Delivery : Finish(d) /\ worker[d].pc # "idle"
    <3>1. Poll \in Delivery
      BY DEF Delivery
    <3>. QED  BY <1>3, <3>1 DEF Deliver, StartHelloDelivery, GetConnection, Find, MarkSent,
                 SendFrames, AbortDelivery, AnswerPoll
  <2>3. \A k \in Conn : socket'[k] = "unused" => socket[k] = "unused"
    BY <1>3 DEF Deliver, StartHelloDelivery, GetConnection, Find, MarkSent, SendFrames,
       AbortDelivery, AnswerPoll, TypeOK
  <2>. QED  BY <1>f, <2>1, <2>2, <2>3, FreshKept
<1>4. ASSUME NEW k \in Conn, Hello(k) PROVE Fresh'
  <2>1. link' = k /\ socket'[k] = "open" /\ k # NoConn
    BY <1>4, NamesAssumption DEF Hello
  <2>2. \A x \in Conn \ {k} : chain'[x] = chain[x]
    BY <1>4 DEF Hello, TypeOK
  <2>3. \A x \in Conn : socket'[x] = "unused" => socket[x] = "unused" /\ x # k
    BY <1>4 DEF Hello
  <2>. QED  BY <2>1, <2>2, <2>3 DEF Fresh
<1>5. ASSUME NEW k \in Conn, ServerCloses(k) PROVE Fresh'
  BY <1>5, FreshKept DEF ServerCloses, TypeOK
<1>6. ASSUME NEW k \in Conn, SocketGone(k) PROVE Fresh'
  <2>1. socket[k] # "unused" /\ socket' = [socket EXCEPT ![k] = "gone"] /\ UNCHANGED link
    BY <1>6 DEF SocketGone
  <2>2. \A x \in Conn \ {k} : chain'[x] = chain[x]
    BY <1>6 DEF SocketGone, TypeOK
  <2>. QED  BY <2>1, <2>2, FreshKept DEF TypeOK
<1>7. CASE HelloAccepted \/ LinkDown \/ AgentRestart
  BY <1>1, <1>7 DEF HelloAccepted, LinkDown, AgentRestart
<1>8. CASE ServerCrash
  BY <1>8, FreshKept DEF ServerCrash
<1>9. ASSUME NEW k \in Conn, ChainStep(k) \/ ReportFails(k) PROVE Fresh'
  <2>1. chain[k] # <<>> /\ UNCHANGED <<socket, link>> /\ \A x \in Conn \ {k} : chain'[x] = chain[x]
    BY <1>9 DEF ChainStep, ReportFails, TypeOK
  <2>. QED  BY <2>1, FreshKept
<1>10. CASE \/ SweepRead \/ SweepWrite \/ SweepFails
            \/ PollRequest \/ PollTimeout \/ ReportTimeout
            \/ \E m \in posts \cup late : PostStep(m) \/ PostFails(m)
            \/ \E c \in Command : \/ Elapse(c) \/ HeartbeatConfirms(c) \/ Forget(c)
                                  \/ \E t \in Thread : Dispatch(t, c)
  BY <1>1, <1>10 DEF SweepRead, SweepWrite, SweepFails, PollRequest, PollTimeout,
     ReportTimeout, PostFails, PostStep, Elapse, HeartbeatConfirms, Forget, Dispatch
<1>11. ASSUME NEW t \in Thread, SendAck(t) \/ SendRunning(t) \/ RunHandler(t) PROVE Fresh'
  <2>1. t = "ws" => link \in Conn
    BY <1>11 DEF SendAck, SendRunning, RunHandler, Bookkeeping, DispatchHasLink, Dispatching
  <2>2. UNCHANGED <<socket, link>>
    BY <1>11 DEF SendAck, SendRunning, RunHandler
  <2>3. UNCHANGED chain \/ \E type \in Reports : \E c : Send(t, Report(type, c))
    BY <1>11 DEF SendAck, SendRunning, RunHandler, Reports
  <2>4. ASSUME NEW m, Send(t, m), NEW k \in Conn, socket[k] = "unused" PROVE chain'[k] = chain[k]
    <3>1. CASE t = "ws"
      <4>1. link \in Conn /\ link # NoConn
        BY <2>1, <3>1, NamesAssumption
      <4>2. link # k
        BY <4>1, <2>4 DEF Fresh
      <4>. QED  BY <2>4, <3>1, <4>1, <4>2 DEF Send, TypeOK
    <3>2. CASE t # "ws"
      BY <2>4, <3>2 DEF Send
    <3>. QED  BY <3>1, <3>2
  <2>. QED  BY <2>2, <2>3, <2>4, FreshKept
<1>. QED
  BY <1>2, <1>3, <1>4, <1>5, <1>6, <1>7, <1>8, <1>9, <1>10, <1>11
     DEF Next, Connection, Fault, Database, Agent

(* Rows only ever become deliverable by being created.                     *)
LEMMA ReadyShrinks ==
    ASSUME elapsed \subseteq elapsed',
           \A c \in Command : status'[c] = "queued" => status[c] = "queued"
    PROVE  Ready' \subseteq Ready
BY DEF Ready

LEMMA ReportsQueueNothing ==
    ASSUME TypeOK, NEW m \in Job \ {HelloJob}, Apply(m)
    PROVE  \A c \in Command : status'[c] = "queued" => status[c] = "queued"
BY JobFields DEF Apply, TypeOK, Released

LEMMA CoveredKept ==
    ASSUME Covered, cutShort => cutShort', registry' \in {registry, NoConn},
           Ready' \subseteq Ready, HelloWaits => HelloWaits',
           \A c \in Ready' : OnItsWay(c) => OnItsWay(c)'
    PROVE  Covered'
BY DEF Covered

(* A delivery that has yet to look at the rows will see all of them.       *)
LEMMA DeliveryBegun ==
    ASSUME NEW d \in Delivery, (worker'[d].pc = "get" /\ d # Poll) \/ worker'[d].pc = "find"
    PROVE  Covered'
BY DEF Covered, OnItsWay

(* One that ends has nothing left to claim, and was not waiting to begin.  *)
LEMMA FinishCovers ==
    ASSUME TypeOK, Covered, NEW d \in Delivery, Finish(d),
           worker[d].pc = "claim", worker[d].todo = {},
           UNCHANGED <<database, registry, cutShort>>
    PROVE  Covered'
<1>1. \A x \in Delivery \ {d} : worker'[x] = worker[x]
  BY DEF Finish, TypeOK
<1>2. \A k \in Conn \ {d} : chain'[k] = chain[k]
  BY DEF Finish, TypeOK
<1>3. Ready' = Ready
  BY DEF Ready, database
<1>4. ASSUME registry # NoConn, HelloWaits PROVE HelloWaits'
  <2>1. registry \in Conn /\ registry \in Delivery /\ registry # d
    BY <1>4 DEF TypeOK, HelloWaits, Delivery
  <2>. QED  BY <1>1, <1>2, <1>4, <2>1 DEF HelloWaits, Delivering
<1>5. \A c \in Ready : OnItsWay(c) => OnItsWay(c)'
  BY <1>1 DEF OnItsWay
<1>. QED  BY <1>3, <1>4, <1>5 DEF Covered

LEMMA DeliverCovers ==
    ASSUME TypeOK, Bookkeeping, Covered, Deliver
    PROVE  Covered'
<1>. USE DEF database, server, http, agent, bounds
<1>0. Conn \subseteq Delivery /\ Poll \in Delivery /\ Poll \notin Conn
  BY NamesAssumption DEF Delivery
<1>1. ASSUME NEW k \in Conn, StartHelloDelivery(k) PROVE Covered'
  <2>1. worker'[k].pc = "get"
    BY <1>0, <1>1 DEF StartHelloDelivery, TypeOK, WorkerState
  <2>. QED  BY <1>0, <2>1, DeliveryBegun
<1>2. ASSUME NEW d \in Delivery \ {Poll}, GetConnection(d) PROVE Covered'
  <2>1. CASE registry = NoConn
    BY <1>2, <2>1 DEF GetConnection, Covered
  <2>2. CASE registry # NoConn
    <3>1. worker' = [worker EXCEPT ![d] = [worker[d] EXCEPT !.pc = "find", !.conn = registry]]
      BY <1>2, <2>2 DEF GetConnection, TypeOK
    <3>2. worker'[d].pc = "find"
      BY <3>1 DEF TypeOK, WorkerState
    <3>. QED  BY <3>2, DeliveryBegun
  <2>. QED  BY <2>1, <2>2
<1>3. ASSUME NEW d \in Delivery, Find(d) PROVE Covered'
  <2>1. worker' = [worker EXCEPT ![d] = [worker[d] EXCEPT !.pc = "claim", !.todo = Deliverable]]
    BY <1>3 DEF Find, TypeOK
  <2>2. worker'[d].pc = "claim" /\ worker'[d].todo = Deliverable
    BY <2>1 DEF TypeOK, WorkerState
  <2>3. Ready' = Ready /\ (~cutShort' => Deliverable = Ready)
    BY <1>3 DEF Find, Ready
  <2>. QED  BY <2>2, <2>3 DEF Covered, OnItsWay
<1>4. ASSUME NEW d \in Delivery, NEW c \in Command, MarkSent(d, c) PROVE Covered'
  <2>1. /\ worker[d].pc = "claim" /\ UNCHANGED <<elapsed, registry, chain, cutShort>>
        /\ \A x \in Delivery \ {d} : worker'[x] = worker[x]
    BY <1>4 DEF MarkSent, TypeOK
  <2>2. worker' = [worker EXCEPT ![d] = [worker[d] EXCEPT !.todo = worker[d].todo \ {c}]]
    BY <1>4 DEF MarkSent, TypeOK
  <2>3. worker'[d].pc = "claim" /\ worker'[d].todo = worker[d].todo \ {c}
    BY <2>1, <2>2 DEF TypeOK, WorkerState
  <2>4. Ready' \subseteq Ready \ {c}
    BY <1>4, <2>1 DEF MarkSent, Ready, TypeOK
  <2>5. \A x \in Ready' : OnItsWay(x) => OnItsWay(x)'
    BY <2>1, <2>3, <2>4 DEF OnItsWay
  <2>6. ASSUME registry # NoConn, HelloWaits PROVE HelloWaits'
    <3>1. registry \in Delivery /\ registry # d
      BY <1>0, <2>1, <2>6 DEF TypeOK, HelloWaits
    <3>. QED  BY <2>1, <2>6, <3>1 DEF HelloWaits, Delivering
  <2>. QED  BY <2>1, <2>4, <2>5, <2>6 DEF Covered
<1>5. ASSUME NEW d \in Delivery \ {Poll}, SendFrames(d) PROVE Covered'
  BY <1>5, FinishCovers DEF SendFrames
<1>6. CASE AnswerPoll
  BY <1>0, <1>6, FinishCovers DEF AnswerPoll
<1>7. ASSUME NEW d \in Delivery, AbortDelivery(d) PROVE Covered'
  BY <1>7 DEF AbortDelivery, Covered
<1>. QED  BY <1>1, <1>2, <1>3, <1>4, <1>5, <1>6, <1>7 DEF Deliver

LEMMA CoveredNext ==
    ASSUME TypeOK, Bookkeeping, Fresh, Covered, [Next]_vars
    PROVE  Covered'
<1>. USE DEF database, server, http, agent, bounds
<1>0. Conn \subseteq Delivery /\ Poll \in Delivery /\ Poll \notin Conn
  BY NamesAssumption DEF Delivery
<1>1. ASSUME UNCHANGED <<worker, registry, chain, cutShort>>, elapsed \subseteq elapsed',
             \A c \in Command : status'[c] = "queued" => status[c] = "queued"
      PROVE  Covered'
  BY <1>1, ReadyShrinks, CoveredKept DEF HelloWaits, Delivering, OnItsWay
<1>2. CASE Operator
  <2>1. ASSUME NEW r \in Rest, Replay(r) \/ \E c \in Command : Create(r, c) PROVE Covered'
    <3>1. r \in Delivery /\ r # Poll
      BY NamesAssumption DEF Delivery
    <3>2. worker'[r].pc = "get"
      BY <2>1, <3>1 DEF Replay, Create, TypeOK, WorkerState
    <3>. QED  BY <3>1, <3>2, DeliveryBegun
  <2>2. ASSUME NEW c \in Command, Cancel(c) PROVE Covered'
    BY <1>1, <2>2 DEF Cancel, TypeOK
  <2>. QED  BY <1>2, <2>1, <2>2 DEF Operator
<1>3. CASE Deliver
  BY <1>3, DeliverCovers
<1>4. ASSUME NEW k \in Conn, Hello(k) PROVE Covered'
  <2>1. registry' = k /\ chain'[k] = <<HelloJob>> /\ UNCHANGED worker
    BY <1>4 DEF Hello, TypeOK
  <2>2. chain[k] = <<>>
    BY <1>4 DEF Hello, Fresh
  <2>3. worker[k].pc = "idle"
    BY <2>2 DEF Bookkeeping, ChainRunsDelivery, Delivering
  <2>4. HelloWaits'
    BY <2>1, <2>3 DEF HelloWaits, Delivering, HelloJob
  <2>. QED  BY <2>4 DEF Covered
<1>5. ASSUME NEW k \in Conn, SocketGone(k) PROVE Covered'
  <2>1. /\ registry' = IF registry = k THEN NoConn ELSE registry
        /\ \A x \in Conn \ {k} : chain'[x] = chain[x]
        /\ UNCHANGED <<database, worker, cutShort>>
    BY <1>5 DEF SocketGone, TypeOK
  <2>2. CASE registry' = NoConn
    BY <2>2 DEF Covered
  <2>3. CASE registry' # NoConn
    <3>1. registry' = registry /\ registry \in Conn \ {k}
      BY <2>1, <2>3 DEF TypeOK
    <3>2. HelloWaits => HelloWaits'
      BY <2>1, <3>1 DEF HelloWaits, Delivering
    <3>3. Ready' = Ready
      BY <2>1 DEF Ready
    <3>4. \A c \in Ready : OnItsWay(c) => OnItsWay(c)'
      BY <2>1 DEF OnItsWay
    <3>. QED  BY <2>1, <3>1, <3>2, <3>3, <3>4, CoveredKept
  <2>. QED  BY <2>2, <2>3
<1>6. CASE ServerCrash
  BY <1>6 DEF ServerCrash, Covered
<1>7. CASE \/ UNCHANGED vars \/ HelloAccepted \/ LinkDown \/ AgentRestart
           \/ PollTimeout \/ ReportTimeout \/ SweepRead \/ SweepWrite \/ SweepFails
           \/ \E k \in Conn : ServerCloses(k)
           \/ \E m \in posts \cup late : PostFails(m)
           \/ \E c \in Command : \/ Elapse(c) \/ HeartbeatConfirms(c) \/ Forget(c)
                                 \/ \E t \in Thread : Dispatch(t, c)
  <2>1. UNCHANGED <<worker, registry, chain, cutShort>> /\ elapsed \subseteq elapsed'
    BY <1>7 DEF vars, HelloAccepted, LinkDown, AgentRestart, PollTimeout, ReportTimeout,
       SweepRead, SweepWrite, SweepFails, PostFails, ServerCloses, Elapse, HeartbeatConfirms,
       Forget, Dispatch
  <2>2. \A c \in Command : status'[c] = "queued" => status[c] = "queued"
    BY <1>7 DEF vars, HelloAccepted, LinkDown, AgentRestart, PollTimeout, ReportTimeout,
       SweepRead, SweepWrite, SweepFails, PostFails, ServerCloses, Elapse, HeartbeatConfirms,
       Forget, Dispatch, TypeOK
  <2>. QED  BY <1>1, <2>1, <2>2
<1>8. ASSUME NEW k \in Conn, ChainStep(k) \/ ReportFails(k) PROVE Covered'
  <2>1. chain[k] \in Seq(Job) /\ chain[k] # <<>> /\ Head(chain[k]).type # "deliver"
    BY <1>8 DEF ChainStep, ReportFails, TypeOK
  <2>2. Head(chain[k]) \in Job \ {HelloJob}
    BY <2>1 DEF HelloJob
  <2>3. \A c \in Command : status'[c] = "queued" => status[c] = "queued"
    BY <1>8, <2>2, ReportsQueueNothing DEF ChainStep, ReportFails
  <2>4. /\ UNCHANGED <<elapsed, registry, worker, cutShort>>
        /\ \A x \in Conn \ {k} : chain'[x] = chain[x]
    BY <1>8 DEF ChainStep, ReportFails, TypeOK
  <2>5. ASSUME registry # NoConn, HelloWaits PROVE HelloWaits'
    <3>1. registry \in Conn \ {k}
      BY <2>1, <2>5 DEF TypeOK, HelloWaits, Delivering
    <3>. QED  BY <2>4, <2>5, <3>1 DEF HelloWaits, Delivering
  <2>6. Ready' \subseteq Ready
    BY <2>3, <2>4, ReadyShrinks
  <2>7. \A c \in Ready : OnItsWay(c) => OnItsWay(c)'
    BY <2>4 DEF OnItsWay
  <2>. QED  BY <2>4, <2>5, <2>6, <2>7 DEF Covered
<1>9. ASSUME NEW m \in posts \cup late, PostStep(m) PROVE Covered'
  <2>1. m \in Job \ {HelloJob}
    BY DEF TypeOK
  <2>. QED  BY <1>1, <1>9, <2>1, ReportsQueueNothing DEF PostStep
<1>10. ASSUME NEW t \in Thread, SendAck(t) \/ SendRunning(t) \/ RunHandler(t) PROVE Covered'
  <2>1. PICK c \in Command : c = thread[t].cmd /\ (t = "ws" => link \in Conn)
    BY <1>10 DEF SendAck, SendRunning, RunHandler, Bookkeeping, DispatchHasLink, Dispatching
  <2>2. UNCHANGED <<status, elapsed, registry, worker, cutShort>>
    BY <1>10 DEF SendAck, SendRunning, RunHandler
  <2>3. UNCHANGED chain \/ \E type \in Reports : Send(t, Report(type, c))
    BY <1>10, <2>1 DEF SendAck, SendRunning, RunHandler, Reports
  <2>4. \A k \in Conn : Delivering(k) => Delivering(k)'
    BY <2>1, <2>3, ReportType, SendKeepsDelivering DEF Delivering
  <2>5. ASSUME registry # NoConn, HelloWaits PROVE HelloWaits'
    BY <2>2, <2>4, <2>5 DEF HelloWaits, Delivering, TypeOK
  <2>6. Ready' = Ready /\ \A x \in Ready : OnItsWay(x) => OnItsWay(x)'
    BY <2>2 DEF Ready, OnItsWay
  <2>. QED  BY <2>2, <2>5, <2>6 DEF Covered
<1>11. CASE PollRequest
  <2>1. worker'[Poll].pc = "find"
    BY <1>0, <1>11 DEF PollRequest, TypeOK, WorkerState
  <2>. QED  BY <1>0, <2>1, DeliveryBegun
<1>. QED
  BY <1>2, <1>3, <1>4, <1>5, <1>6, <1>7, <1>8, <1>9, <1>10, <1>11
     DEF Next, Connection, Fault, Database, Agent

(* Whichever comes second, queueing or hello, sees the other's: for any    *)
(* number of requests, connections and commands, and any limit, no command *)
(* that can be delivered is left when the deliveries are over, unless one  *)
(* was cut short, by a database error or by the limit, since one last had  *)
(* room for all.                                                           *)
THEOREM NothingIsStranded == Spec => []NothingStranded
<1>1. Init => TypeOK /\ Bookkeeping /\ Fresh /\ Covered
  BY InitSound, FreshInit DEF Init, Covered
<1>2. TypeOK /\ Bookkeeping /\ Fresh /\ Covered /\ [Next]_vars
        => (TypeOK /\ Bookkeeping /\ Fresh /\ Covered)'
  BY NextSound, FreshNext, CoveredNext
<1>3. TypeOK /\ Covered => NothingStranded
  <2>. SUFFICES ASSUME TypeOK, Covered, Settled PROVE Deliverable = {}
    BY DEF NothingStranded
  <2>1. ~HelloWaits
    BY DEF Settled, HelloWaits, Delivering
  <2>2. \A c \in Ready : OnItsWay(c)
    BY <2>1 DEF Settled, Covered
  <2>3. \A c \in Ready : ~OnItsWay(c)
    BY DEF Settled, OnItsWay
  <2>. QED  BY <2>2, <2>3 DEF Deliverable
<1>. QED  BY <1>1, <1>2, <1>3, PTL DEF Spec

-----------------------------------------------------------------------------
(* Reports land. A connection's reports of one command come in the order   *)
(* the agent sends them and nobody else moves the row meanwhile, except to *)
(* finish it; so each finds the row as the one before it left it, unless a *)
(* failing query has dropped the one before it.                            *)

(* Statuses of a claimed command none of whose reports has been recorded,  *)
(* and of one that is finished.                                            *)
Unanswered == {"sent"} \cup Terminal

(* Some job of s reports c.                                                *)
InSeq(c, s) == \E i \in 1..Len(s) : s[i].cmd = c

(* One of the first n jobs of s acknowledges c.                            *)
AckIn(c, s, n) == \E i \in 1..n : s[i].cmd = c /\ s[i].type = "ack"

(* The reports of c in the chain s are in order for a row in status v: one *)
(* acknowledgement and one "running" at most, neither of them late, and    *)
(* what the table refuses to a row that was only sent comes after an       *)
(* acknowledgement. A transaction in progress belongs to the first job and *)
(* its row has not moved since it was read, except to be finished.         *)
Orderly(s, c, v) ==
    /\ \A i, j \in 1..Len(s) :
          s[i].cmd = c /\ s[j].cmd = c /\ s[i].type = s[j].type /\ s[i].type \in {"ack", "running"}
             => i = j
    /\ \A i \in 1..Len(s) : s[i].cmd = c =>
          /\ s[i].type = "ack" => v \in Unanswered
          /\ s[i].type = "running" => v \in Unanswered \cup {"acked"}
          /\ s[i].type \in {"running", "succeeded"} /\ v = "sent" => AckIn(c, s, i - 1)
          /\ s[i].read # Absent => i = 1 /\ v \in {s[i].read} \cup Terminal

(* Chains stay in order when a command is finished, when frames are lost,  *)
(* and when nothing is reported.                                           *)
LEMMA OrderlyEnded ==
    ASSUME NEW s \in Seq(Job), NEW c, NEW v, NEW w \in Terminal, Orderly(s, c, v)
    PROVE  Orderly(s, c, w)
BY DEF Orderly, Unanswered, Terminal, Statuses, Pending

LEMMA OrderlyNone ==
    ASSUME NEW s \in Seq(Job), NEW c, NEW v, ~InSeq(c, s)
    PROVE  Orderly(s, c, v)
BY DEF Orderly, InSeq

LEMMA OrderlyPrefix ==
    ASSUME NEW s \in Seq(Job), NEW c, NEW v, Orderly(s, c, v), NEW n \in 0..Len(s)
    PROVE  /\ Orderly(SubSeq(s, 1, n), c, v)
           /\ InSeq(c, SubSeq(s, 1, n)) => InSeq(c, s)
<1>1. Len(SubSeq(s, 1, n)) = n /\ \A i \in 1..n : i \in 1..Len(s) /\ SubSeq(s, 1, n)[i] = s[i]
  OBVIOUS
<1>2. ASSUME NEW i \in 1..n, AckIn(c, s, i - 1) PROVE AckIn(c, SubSeq(s, 1, n), i - 1)
  BY <1>1, <1>2 DEF AckIn
<1>. QED  BY <1>1, <1>2 DEF Orderly, InSeq

(* The first job is done and it is none of c's, or c is finished.          *)
LEMMA OrderlyTail ==
    ASSUME NEW s \in Seq(Job), NEW c, NEW v, Orderly(s, c, v), s # <<>>,
           Head(s).cmd # c \/ v \in Terminal
    PROVE  Orderly(Tail(s), c, v)
<1>1. /\ Len(Tail(s)) = Len(s) - 1 /\ Head(s) = s[1]
      /\ \A i \in 1..Len(Tail(s)) : i + 1 \in 1..Len(s) /\ Tail(s)[i] = s[i + 1]
  OBVIOUS
<1>2. ASSUME NEW i \in 1..Len(Tail(s)), AckIn(c, s, i), Head(s).cmd # c
      PROVE  AckIn(c, Tail(s), i - 1)
  <2>1. PICK j \in 1..i : s[j].cmd = c /\ s[j].type = "ack"
    BY <1>2 DEF AckIn
  <2>2. j # 1
    BY <1>1, <1>2, <2>1
  <2>3. j - 1 \in 1..(i - 1) /\ Tail(s)[j - 1] = s[j]
    BY <1>1, <2>1, <2>2
  <2>. QED  BY <2>1, <2>3 DEF AckIn
<1>3. v = "sent" => Head(s).cmd # c
  BY DEF Terminal, Pending
<1>4. \A i, j \in 1..Len(Tail(s)) :
          Tail(s)[i].cmd = c /\ Tail(s)[j].cmd = c /\ Tail(s)[i].type = Tail(s)[j].type
             /\ Tail(s)[i].type \in {"ack", "running"} => i = j
  <2>1. \A i, j \in 1..Len(Tail(s)) : i + 1 = j + 1 => i = j
    OBVIOUS
  <2>. QED  BY <1>1, <2>1 DEF Orderly
<1>5. ASSUME NEW i \in 1..Len(Tail(s)), Tail(s)[i].cmd = c
      PROVE  /\ Tail(s)[i].type = "ack" => v \in Unanswered
             /\ Tail(s)[i].type = "running" => v \in Unanswered \cup {"acked"}
             /\ Tail(s)[i].type \in {"running", "succeeded"} /\ v = "sent"
                  => AckIn(c, Tail(s), i - 1)
             /\ Tail(s)[i].read = Absent
  <2>1. i + 1 \in 1..Len(s) /\ Tail(s)[i] = s[i + 1] /\ i + 1 # 1 /\ (i + 1) - 1 = i
    BY <1>1
  <2>. QED  BY <1>2, <1>3, <1>5, <2>1 DEF Orderly
<1>. QED  BY <1>4, <1>5 DEF Orderly

(* A report of another command, or of c itself in its turn, is queued.     *)
LEMMA OrderlyAppend ==
    ASSUME NEW s \in Seq(Job), NEW c, NEW v, Orderly(s, c, v),
           NEW m \in Job, m.read = Absent,
           m.cmd = c /\ m.type = "ack" => v \in Unanswered /\ ~InSeq(c, s),
           m.cmd = c /\ m.type = "running" =>
               /\ v \in Unanswered \cup {"acked"}
               /\ \A i \in 1..Len(s) : s[i].cmd = c => s[i].type # "running",
           m.cmd = c /\ m.type \in {"running", "succeeded"} /\ v = "sent" => AckIn(c, s, Len(s))
    PROVE  Orderly(Append(s, m), c, v)
<1>. DEFINE z == Append(s, m)
<1>1. /\ Len(z) = Len(s) + 1 /\ z[Len(s) + 1] = m
      /\ \A i \in 1..Len(s) : z[i] = s[i]
      /\ \A i \in 1..Len(z) : i \in 1..Len(s) \/ i = Len(s) + 1
  OBVIOUS
<1>2. \A n \in 0..Len(s) : AckIn(c, s, n) => AckIn(c, z, n)
  BY <1>1 DEF AckIn
<1>. HIDE DEF z
<1>3. \A i, j \in 1..Len(z) :
          z[i].cmd = c /\ z[j].cmd = c /\ z[i].type = z[j].type
             /\ z[i].type \in {"ack", "running"} => i = j
  BY <1>1 DEF Orderly, InSeq
<1>4. ASSUME NEW i \in 1..Len(z), z[i].cmd = c
      PROVE  /\ z[i].type = "ack" => v \in Unanswered
             /\ z[i].type = "running" => v \in Unanswered \cup {"acked"}
             /\ z[i].type \in {"running", "succeeded"} /\ v = "sent" => AckIn(c, z, i - 1)
             /\ z[i].read # Absent => i = 1 /\ v \in {z[i].read} \cup Terminal
  <2>1. CASE i \in 1..Len(s)
    <3>1. z[i] = s[i] /\ i - 1 \in 0..Len(s)
      BY <1>1, <2>1
    <3>. QED  BY <1>2, <1>4, <2>1, <3>1 DEF Orderly
  <2>2. CASE i = Len(s) + 1
    <3>1. z[i] = m /\ i - 1 = Len(s) /\ Len(s) \in 0..Len(s)
      BY <1>1, <2>2
    <3>. QED  BY <1>2, <1>4, <3>1
  <2>. QED  BY <1>1, <2>1, <2>2
<1>5. Orderly(z, c, v)
  BY <1>3, <1>4 DEF Orderly
<1>. QED  BY <1>5 DEF z

(* The first job is never early: its command is finished, or the table     *)
(* allows what it asks for and nobody has moved the row since it was read. *)
LEMMA HeadLands ==
    ASSUME NEW s \in Seq(Job), s # <<>>, NEW m \in Job \ {HelloJob}, m = Head(s),
           NEW v \in Released \ Terminal, Orderly(s, m.cmd, v)
    PROVE  /\ CanTransition(v, Target(m.type))
           /\ m.read # Absent => v = m.read
<1>1. 1 \in 1..Len(s) /\ s[1] = m
  OBVIOUS
<1>2. m.type \in Reports
  BY DEF Job
<1>3. ~AckIn(m.cmd, s, 1 - 1)
  BY DEF AckIn
<1>4. v \in {"sent", "acked", "running"}
  BY DEF Released, Terminal, Statuses, Pending
<1>5. /\ m.type = "ack" => v = "sent"
      /\ m.type = "running" => v = "acked"
      /\ m.type = "succeeded" => v # "sent"
      /\ m.read # Absent => v = m.read
  BY <1>1, <1>3, <1>4 DEF Orderly, Unanswered, Terminal
<1>. QED  BY <1>2, <1>4, <1>5 DEF Reports, Target, CanTransition

(* ... so what remains of the chain is in order with the row it leaves.    *)
LEMMA OrderlyDone ==
    ASSUME NEW s \in Seq(Job), s # <<>>, NEW m \in Job \ {HelloJob}, m = Head(s),
           NEW v \in Released \ Terminal, Orderly(s, m.cmd, v)
    PROVE  Orderly(Tail(s), m.cmd, Target(m.type))
<1>1. /\ Len(Tail(s)) = Len(s) - 1 /\ m = s[1] /\ 1 \in 1..Len(s)
      /\ \A i \in 1..Len(Tail(s)) :
            i + 1 \in 1..Len(s) /\ Tail(s)[i] = s[i + 1] /\ i + 1 # 1
  OBVIOUS
<1>2. m.type \in Reports
  BY DEF Job
<1>3. CanTransition(v, Target(m.type))
  BY HeadLands
<1>4. \A i, j \in 1..Len(Tail(s)) :
          Tail(s)[i].cmd = m.cmd /\ Tail(s)[j].cmd = m.cmd /\ Tail(s)[i].type = Tail(s)[j].type
             /\ Tail(s)[i].type \in {"ack", "running"} => i = j
  <2>1. \A i, j \in 1..Len(Tail(s)) : i + 1 = j + 1 => i = j
    OBVIOUS
  <2>. QED  BY <1>1, <2>1 DEF Orderly
<1>5. ASSUME NEW i \in 1..Len(Tail(s)), Tail(s)[i].cmd = m.cmd
      PROVE  /\ Tail(s)[i].type = "ack" => Target(m.type) \in Unanswered
             /\ Tail(s)[i].type = "running" => Target(m.type) \in Unanswered \cup {"acked"}
             /\ Target(m.type) # "sent"
             /\ Tail(s)[i].read = Absent
  <2>1. i + 1 \in 1..Len(s) /\ Tail(s)[i] = s[i + 1] /\ i + 1 # 1
    BY <1>1
  <2>2. Tail(s)[i].read = Absent
    BY <1>5, <2>1 DEF Orderly
  <2>3. Tail(s)[i].type = "ack" => m.type # "ack" /\ v = "sent"
    BY <1>1, <1>5, <2>1 DEF Orderly, Unanswered
  <2>4. Tail(s)[i].type = "running" => m.type # "running"
    BY <1>1, <1>5, <2>1 DEF Orderly
  <2>. QED  BY <1>2, <1>3, <2>2, <2>3, <2>4
            DEF Reports, Target, CanTransition, Unanswered, Terminal, Statuses, Pending
<1>. QED  BY <1>4, <1>5 DEF Orderly

(* Recording what the first job has read leaves the chain in order, for    *)
(* its own command and for the others.                                     *)
LEMMA OrderlyRead ==
    ASSUME NEW s \in Seq(Job), s # <<>>, NEW m \in Job, NEW w \in Job, m = Head(s),
           w.cmd = m.cmd, w.type = m.type, NEW c, NEW v, m.cmd = c => w.read = v,
           Orderly(s, c, v)
    PROVE  /\ Orderly(<<w>> \o Tail(s), c, v)
           /\ InSeq(c, <<w>> \o Tail(s)) => InSeq(c, s)
<1>. DEFINE z == <<w>> \o Tail(s)
<1>1. /\ Len(z) = Len(s) /\ s[1] = m /\ z[1] = w /\ 1 \in 1..Len(s)
      /\ \A i \in 1..Len(s) : i # 1 => z[i] = s[i]
  OBVIOUS
<1>. HIDE DEF z
<1>2. \A i \in 1..Len(s) : z[i].cmd = s[i].cmd /\ z[i].type = s[i].type
  BY <1>1
<1>3. \A i \in 1..Len(s) : AckIn(c, s, i - 1) => AckIn(c, z, i - 1)
  BY <1>2 DEF AckIn
<1>4. \A i, j \in 1..Len(z) :
          z[i].cmd = c /\ z[j].cmd = c /\ z[i].type = z[j].type
             /\ z[i].type \in {"ack", "running"} => i = j
  BY <1>1, <1>2 DEF Orderly
<1>5. ASSUME NEW i \in 1..Len(z), z[i].cmd = c
      PROVE  /\ z[i].type = "ack" => v \in Unanswered
             /\ z[i].type = "running" => v \in Unanswered \cup {"acked"}
             /\ z[i].type \in {"running", "succeeded"} /\ v = "sent" => AckIn(c, z, i - 1)
             /\ z[i].read # Absent => i = 1 /\ v \in {z[i].read} \cup Terminal
  <2>1. i \in 1..Len(s) /\ s[i].cmd = c /\ s[i].type = z[i].type
    BY <1>1, <1>2, <1>5
  <2>2. z[i].read # Absent => i = 1 /\ v \in {z[i].read} \cup Terminal
    BY <1>1, <1>5, <2>1 DEF Orderly
  <2>. QED  BY <1>3, <2>1, <2>2 DEF Orderly
<1>6. Orderly(z, c, v)
  BY <1>4, <1>5 DEF Orderly
<1>7. InSeq(c, z) => InSeq(c, s)
  BY <1>1, <1>2 DEF InSeq
<1>. QED  BY <1>6, <1>7 DEF z

(* What is known of the reports of a command: none as long as its row has  *)
(* not been claimed or its message is still on its way, and all of them    *)
(* over HTTP or all of them on one connection.                             *)
Posted(c) == \E m \in posts \cup late : m.cmd = c

Unreported(c) == ~Posted(c) /\ \A k \in Conn : ~InSeq(c, chain[k])

(* The message of c is claimed or on its way.                              *)
Afloat(c) == \E e \in envelopes : e[1] = c

Channel(c) ==
    /\ status[c] \notin Released => Unreported(c)
    /\ Afloat(c) => Unreported(c) /\ status[c] \in Unanswered
    /\ Posted(c) => \A k \in Conn : ~InSeq(c, chain[k])
    /\ \A k, x \in Conn : InSeq(c, chain[k]) /\ InSeq(c, chain[x]) => k = x

OrderKept(c) == c \notin unrecorded => \A k \in Conn : Orderly(chain[k], c, status[c])

(* A thread at work on c: the reports it has sent, and those to come.      *)
OnPoll(c) == \A k \in Conn : ~InSeq(c, chain[k])

RunningIn(c, s) == \E i \in 1..Len(s) : s[i].cmd = c /\ s[i].type = "running"

OnSocket(c, pc) ==
    /\ ~Posted(c)
    /\ \A k \in Conn : InSeq(c, chain[k]) => k = link /\ pc # "ack"
    /\ pc = "ack" => status[c] \in Unanswered
    /\ c \notin unrecorded =>
          /\ pc = "handler" => /\ status[c] \in Unanswered \cup {"acked"}
                               /\ ~RunningIn(c, chain[link])
          /\ pc # "ack" => \/ socket[link] = "gone"
                           \/ status[c] # "sent"
                           \/ AckIn(c, chain[link], Len(chain[link]))

AtWork(t) == Dispatching(t) => IF t = "ws" THEN OnSocket(thread[t].cmd, thread[t].pc)
                                           ELSE OnPoll(thread[t].cmd)

OrderInv == /\ \A c \in Command : Channel(c) /\ OrderKept(c)
            /\ \A t \in Thread : AtWork(t)

-----------------------------------------------------------------------------
(* A command about which a step does nothing but drop or finish it.        *)
LEMMA ChannelKept ==
    ASSUME LeaseInv, NEW c \in Command, Channel(c),
           \/ status'[c] = status[c]
           \/ status'[c] \in Terminal \cap Released
           \/ status[c] \notin Released /\ status'[c] \notin Released,
           Posted(c)' => Posted(c), Afloat(c)' => Afloat(c),
           \A k \in Conn : InSeq(c, chain'[k]) => InSeq(c, chain[k])
    PROVE  Channel(c)'
<1>1. Unreported(c) => Unreported(c)'
  BY DEF Unreported
<1>2. Afloat(c) => status[c] \in Released
  BY DEF Afloat, LeaseInv, OnlyReleasedRun
<1>3. status'[c] \notin Released => Unreported(c)'
  BY <1>1 DEF Channel
<1>4. Afloat(c)' => Unreported(c)' /\ status'[c] \in Unanswered
  BY <1>1, <1>2 DEF Channel, Unanswered
<1>5. Posted(c)' => \A k \in Conn : ~InSeq(c, chain'[k])
  BY DEF Channel
<1>6. \A k, x \in Conn : InSeq(c, chain'[k]) /\ InSeq(c, chain'[x]) => k = x
  BY DEF Channel
<1>. QED  BY <1>3, <1>4, <1>5, <1>6 DEF Channel

(* The same for the command the WebSocket thread is at work on.            *)
LEMMA OnSocketKept ==
    ASSUME NEW c \in Command, NEW pc, OnSocket(c, pc), UNCHANGED link, link \in Conn,
           status'[c] = status[c] \/ status'[c] \in Terminal,
           Posted(c)' => Posted(c), c \in unrecorded => c \in unrecorded',
           \A k \in Conn : /\ InSeq(c, chain'[k]) => InSeq(c, chain[k])
                           /\ RunningIn(c, chain'[k]) => RunningIn(c, chain[k])
                           /\ AckIn(c, chain[k], Len(chain[k]))
                                => \/ socket'[k] = "gone"
                                   \/ status'[c] # "sent"
                                   \/ AckIn(c, chain'[k], Len(chain'[k]))
                           /\ socket[k] = "gone" => socket'[k] = "gone"
    PROVE  OnSocket(c, pc)'
<1>1. /\ ~Posted(c)'
      /\ \A k \in Conn : InSeq(c, chain'[k]) => k = link' /\ pc # "ack"
      /\ pc = "ack" => status'[c] \in Unanswered
  BY DEF OnSocket, Unanswered
<1>2. c \notin unrecorded' /\ pc = "handler" =>
            /\ status'[c] \in Unanswered \cup {"acked"}
            /\ ~RunningIn(c, chain'[link'])
  BY DEF OnSocket, Unanswered
<1>3. c \notin unrecorded' /\ pc # "ack" =>
                    \/ socket'[link'] = "gone"
                    \/ status'[c] # "sent"
                    \/ AckIn(c, chain'[link'], Len(chain'[link']))
  BY DEF OnSocket, Terminal, Pending
<1>. QED  BY <1>1, <1>2, <1>3 DEF OnSocket

(* What becomes of a chain whose reports are left alone: hello puts its    *)
(* delivery there, the delivery ends, or the socket is gone and frames are *)
(* lost.                                                                   *)
Kept(s, z) == \/ z = s
              \/ s # <<>> /\ Head(s) = HelloJob /\ z = Tail(s)
              \/ s = <<>> /\ z = <<HelloJob>>

Cut(s, z) == \E n \in 0..Len(s) : z = SubSeq(s, 1, n)

(* Neither reorders anything.                                              *)
LEMMA ChainKeeps ==
    ASSUME NEW s \in Seq(Job), NEW z, Kept(s, z) \/ Cut(s, z), NEW c \in Command
    PROVE  /\ InSeq(c, z) => InSeq(c, s)
           /\ RunningIn(c, z) => RunningIn(c, s)
           /\ \A v : Orderly(s, c, v) => Orderly(z, c, v)
           /\ Kept(s, z) /\ AckIn(c, s, Len(s)) => AckIn(c, z, Len(z))
<1>0. HelloJob.cmd # c
  BY BoundsAssumption DEF HelloJob, Command
<1>1. CASE z = s
  BY <1>1
<1>2. CASE s # <<>> /\ Head(s) = HelloJob /\ z = Tail(s)
  <2>1. /\ Len(z) = Len(s) - 1 /\ Head(s) = s[1]
        /\ \A i \in 1..Len(z) : i + 1 \in 1..Len(s) /\ z[i] = s[i + 1]
        /\ \A i \in 1..Len(s) : i # 1 => i - 1 \in 1..Len(z) /\ z[i - 1] = s[i]
    BY <1>2
  <2>2. \A v : Orderly(s, c, v) => Orderly(z, c, v)
    BY <1>0, <1>2, OrderlyTail
  <2>a. \A i \in 1..Len(z) : \E j \in 1..Len(s) : z[i] = s[j]
    BY <2>1
  <2>3. (InSeq(c, z) => InSeq(c, s)) /\ (RunningIn(c, z) => RunningIn(c, s))
    BY <2>a DEF InSeq, RunningIn
  <2>b. \A i \in 1..Len(s) : i # 1 => \E j \in 1..Len(z) : z[j] = s[i]
    BY <2>1
  <2>4. AckIn(c, s, Len(s)) => AckIn(c, z, Len(z))
    BY <1>0, <1>2, <2>1, <2>b DEF AckIn
  <2>. QED  BY <2>2, <2>3, <2>4
<1>3. ASSUME NEW n \in 0..Len(s), z = SubSeq(s, 1, n)
      PROVE  /\ InSeq(c, z) => InSeq(c, s)
             /\ RunningIn(c, z) => RunningIn(c, s)
             /\ \A v : Orderly(s, c, v) => Orderly(z, c, v)
  <2>1. /\ Len(SubSeq(s, 1, n)) = n
        /\ \A i \in 1..n : i \in 1..Len(s) /\ SubSeq(s, 1, n)[i] = s[i]
    OBVIOUS
  <2>2. Len(z) = n /\ \A i \in 1..n : i \in 1..Len(s) /\ z[i] = s[i]
    BY <1>3, <2>1
  <2>3. \A v : Orderly(s, c, v) => Orderly(z, c, v)
    BY <1>3, OrderlyPrefix
  <2>. QED  BY <2>2, <2>3 DEF InSeq, RunningIn
<1>4. CASE s = <<>> /\ z = <<HelloJob>>
  <2>1. z \in Seq(Job) /\ Len(z) = 1 /\ z[1] = HelloJob /\ Len(s) = 0
    BY <1>4 DEF Job
  <2>2. ~InSeq(c, z) /\ ~RunningIn(c, z)
    BY <1>0, <2>1 DEF InSeq, RunningIn
  <2>3. ~AckIn(c, s, Len(s))
    BY <2>1 DEF AckIn
  <2>. QED  BY <2>1, <2>2, <2>3, OrderlyNone
<1>. QED  BY <1>1, <1>2, <1>3, <1>4 DEF Kept, Cut

(* Everything that neither claims, dispatches, reports nor handles a       *)
(* report.                                                                 *)
LEMMA OrderShrinks ==
    ASSUME IInv, TypeOK', OrderInv,
           \A c \in Command :
                \/ status'[c] = status[c]
                \/ status'[c] \in Terminal \cap Released
                \/ status[c] \notin Released /\ status'[c] \notin Released,
           \A m \in posts' \cup late' : \E x \in posts \cup late : x.cmd = m.cmd,
           \A e \in envelopes' : \E f \in envelopes : f[1] = e[1],
           \A k \in Conn : /\ \/ Kept(chain[k], chain'[k])
                              \/ Cut(chain[k], chain'[k]) /\ socket'[k] = "gone"
                           /\ socket[k] = "gone" => socket'[k] = "gone",
           \A t \in Thread : Dispatching(t)' =>
                 Dispatching(t) /\ thread'[t] = thread[t] /\ (t = "ws" => UNCHANGED link),
           UNCHANGED unrecorded
    PROVE  OrderInv'
<1>1. TypeOK /\ Bookkeeping /\ LeaseInv
  BY DEF IInv
<1>2. ASSUME NEW c \in Command
      PROVE  /\ Posted(c)' => Posted(c)
             /\ Afloat(c)' => Afloat(c)
             /\ \A k \in Conn :
                   /\ InSeq(c, chain'[k]) => InSeq(c, chain[k])
                   /\ RunningIn(c, chain'[k]) => RunningIn(c, chain[k])
                   /\ \A v : Orderly(chain[k], c, v) => Orderly(chain'[k], c, v)
                   /\ AckIn(c, chain[k], Len(chain[k]))
                        => socket'[k] = "gone" \/ AckIn(c, chain'[k], Len(chain'[k]))
  <2>1. (Posted(c)' => Posted(c)) /\ (Afloat(c)' => Afloat(c))
    BY DEF Posted, Afloat
  <2>2. \A k \in Conn : chain[k] \in Seq(Job)
    BY <1>1 DEF TypeOK
  <2>. QED  BY <2>1, <2>2, ChainKeeps
<1>3. ASSUME NEW c \in Command PROVE Channel(c)' /\ OrderKept(c)'
  <2>1. Channel(c)'
    BY <1>1, <1>2, ChannelKept DEF OrderInv
  <2>2. ASSUME NEW k \in Conn, c \notin unrecorded PROVE Orderly(chain'[k], c, status'[c])
    <3>0. chain'[k] \in Seq(Job)
      BY <1>1 DEF TypeOK
    <3>1. Orderly(chain'[k], c, status[c])
      BY <1>2, <2>2 DEF OrderInv, OrderKept
    <3>2. CASE status[c] \notin Released
      <4>1. ~InSeq(c, chain'[k])
        BY <1>2, <3>2 DEF OrderInv, Channel, Unreported
      <4>. QED  BY <3>0, <4>1, OrderlyNone
    <3>. QED  BY <3>0, <3>1, <3>2, OrderlyEnded
  <2>. QED  BY <2>1, <2>2 DEF OrderKept
<1>4. ASSUME NEW t \in Thread, Dispatching(t)' PROVE AtWork(t)'
  <2>1. Dispatching(t) /\ thread'[t] = thread[t] /\ (t = "ws" => UNCHANGED link)
    BY <1>4
  <2>2. PICK c \in Command : c = thread[t].cmd /\ (t = "ws" => link \in Conn)
    BY <1>1, <2>1 DEF Bookkeeping, DispatchHasLink
  <2>3. status[c] \in Released
    <3>1. t \in Busy(c)
      BY <2>1, <2>2 DEF Busy
    <3>. QED  BY <1>1, <3>1 DEF LeaseInv, OnlyReleasedRun
  <2>4. CASE t = "ws"
    <3>1. OnSocket(c, thread[t].pc)
      BY <2>1, <2>2, <2>4 DEF OrderInv, AtWork
    <3>2. status'[c] = status[c] \/ status'[c] \in Terminal
      BY <2>3
    <3>3. OnSocket(c, thread[t].pc)'
      BY <1>2, <2>1, <2>2, <2>4, <3>1, <3>2, OnSocketKept
    <3>. QED  BY <2>1, <2>2, <2>4, <3>3 DEF AtWork
  <2>5. CASE t # "ws"
    BY <1>2, <2>1, <2>2, <2>5 DEF OrderInv, AtWork, OnPoll
  <2>. QED  BY <2>4, <2>5
<1>. QED  BY <1>3, <1>4 DEF OrderInv, AtWork

-----------------------------------------------------------------------------
LEMMA OrderInit == Init => OrderInv
<1>. SUFFICES ASSUME Init PROVE OrderInv
  OBVIOUS
<1>1. \A k \in Conn : chain[k] = <<>> /\ chain[k] \in Seq(Job) /\ Len(chain[k]) = 0
  BY DEF Init
<1>2. \A c \in Command, k \in Conn : ~InSeq(c, chain[k])
  BY <1>1 DEF InSeq
<1>3. \A c \in Command : Channel(c)
  BY <1>2 DEF Init, Channel, Unreported, Posted, Afloat
<1>4. \A c \in Command : OrderKept(c)
  BY <1>1, <1>2, OrderlyNone DEF OrderKept
<1>5. \A t \in Thread : AtWork(t)
  BY DEF Init, AtWork, Dispatching, IdleThread
<1>. QED  BY <1>3, <1>4, <1>5 DEF OrderInv

(* A step that leaves the chains alone.                                    *)
LEMMA OrderUntouched ==
    ASSUME IInv, TypeOK', OrderInv, UNCHANGED chain,
           \A c \in Command :
                \/ status'[c] = status[c]
                \/ status'[c] \in Terminal \cap Released
                \/ status[c] \notin Released /\ status'[c] \notin Released,
           \A m \in posts' \cup late' : \E x \in posts \cup late : x.cmd = m.cmd,
           \A e \in envelopes' : \E f \in envelopes : f[1] = e[1],
           \A k \in Conn : socket[k] = "gone" => socket'[k] = "gone",
           \A t \in Thread : Dispatching(t)' =>
                 Dispatching(t) /\ thread'[t] = thread[t] /\ (t = "ws" => UNCHANGED link),
           UNCHANGED unrecorded
    PROVE  OrderInv'
<1>1. \A k \in Conn : Kept(chain[k], chain'[k])
  BY DEF Kept
<1>. QED  BY <1>1, OrderShrinks

LEMMA OperatorKeepsOrder ==
    ASSUME IInv, TypeOK', OrderInv, Operator
    PROVE  OrderInv'
<1>. USE DEF database, server, http, agent, bounds
<1>1. UNCHANGED <<chain, posts, late, envelopes, socket, link, thread, unrecorded>>
  BY DEF Operator, Create, Replay, Cancel
<1>2. \A c \in Command : \/ status'[c] = status[c]
                         \/ status[c] \notin Released /\ status'[c] \notin Released
  BY DEF IInv, TypeOK, Operator, Create, Replay, Cancel, Released, Absent, Statuses
<1>. QED  BY <1>1, <1>2, OrderUntouched DEF Dispatching

(* A command is claimed before anybody can report it.                      *)
LEMMA ClaimKeepsOrder ==
    ASSUME IInv, TypeOK', OrderInv, NEW d \in Delivery, NEW c \in Command, MarkSent(d, c)
    PROVE  OrderInv'
<1>. USE DEF database, server, http, agent, bounds
<1>0. UNCHANGED <<chain, posts, late, socket, link, thread, unrecorded>>
  BY DEF MarkSent
<1>1. CASE UNCHANGED <<status, envelopes>>
  BY <1>0, <1>1, OrderUntouched DEF Dispatching
<1>2. CASE status[c] = "queued"
  <2>1. /\ status' = [status EXCEPT ![c] = "sent"]
        /\ envelopes' = envelopes \cup {<<c, Claimed(d)>>}
    BY <1>2 DEF MarkSent
  <2>2. "queued" \notin Released /\ "sent" \in Released
    BY DEF Released, Statuses
  <2>3. Unreported(c)'
    BY <1>0, <1>2, <2>2 DEF OrderInv, Channel, Unreported, Posted
  <2>4. status'[c] = "sent" /\ \A x \in Command \ {c} : status'[x] = status[x]
    BY <2>1 DEF IInv, TypeOK
  <2>5. ASSUME NEW x \in Command \ {c} PROVE Channel(x)' /\ OrderKept(x)'
    <3>1. Afloat(x)' => Afloat(x)
      BY <2>1 DEF Afloat
    <3>2. Channel(x)'
      BY <1>0, <2>4, <3>1, ChannelKept DEF IInv, OrderInv, Posted
    <3>. QED  BY <1>0, <2>4, <3>2 DEF OrderInv, OrderKept
  <2>6. Channel(c)'
    BY <2>2, <2>3, <2>4 DEF Channel, Unreported, Unanswered
  <2>7. OrderKept(c)'
    BY <2>3, OrderlyNone DEF OrderKept, Unreported, TypeOK
  <2>8. ASSUME NEW t \in Thread, Dispatching(t) PROVE AtWork(t)'
    <3>1. thread[t].cmd \in Command /\ t \in Busy(thread[t].cmd)
      BY <2>8 DEF IInv, Bookkeeping, DispatchHasLink, Busy
    <3>2. thread[t].cmd # c
      BY <1>2, <2>2, <3>1 DEF IInv, LeaseInv, OnlyReleasedRun
    <3>. QED  BY <1>0, <2>4, <3>1, <3>2 DEF OrderInv, AtWork, Dispatching, OnSocket, OnPoll, Posted
  <2>. QED  BY <1>0, <2>5, <2>6, <2>7, <2>8 DEF OrderInv, AtWork, Dispatching
<1>. QED  BY <1>1, <1>2 DEF MarkSent

(* Messages that are sent on, or lost, were there before.                  *)
LEMMA MovesAddNothing ==
    ASSUME NEW p, NEW q, envelopes' \subseteq MoveTo(p, q)
    PROVE  \A e \in envelopes' : \E f \in envelopes : f[1] = e[1]
<1>1. ASSUME NEW e \in At(p) \X {q} PROVE \E f \in envelopes : f[1] = e[1]
  <2>1. <<e[1], p>> \in envelopes /\ <<e[1], p>>[1] = e[1]
    BY DEF At
  <2>. QED  BY <2>1
<1>. QED  BY <1>1 DEF MoveTo, Drop

LEMMA DeliverKeepsOrder ==
    ASSUME IInv, TypeOK', OrderInv, Deliver
    PROVE  OrderInv'
<1>. USE DEF database, server, http, agent, bounds
<1>0. TypeOK /\ Bookkeeping /\ LeaseInv /\ Poll \in Delivery
  BY DEF IInv, Delivery
<1>1. ASSUME NEW d \in Delivery, NEW c \in Command, MarkSent(d, c) PROVE OrderInv'
  BY <1>1, ClaimKeepsOrder
<1>2. CASE \/ \E k \in Conn : StartHelloDelivery(k)
           \/ \E d \in Delivery : Find(d)
           \/ \E d \in Delivery \ {Poll} : GetConnection(d) /\ UNCHANGED chain
  BY <1>2, OrderUntouched DEF StartHelloDelivery, GetConnection, Find, Dispatching
<1>3. ASSUME NEW d \in Delivery, Finish(d), worker[d].pc # "idle",
             UNCHANGED <<status, posts, late, link, unrecorded>>,
             \A e \in envelopes' : \E f \in envelopes : f[1] = e[1],
             \A k \in Conn : socket[k] = "gone" => socket'[k] = "gone",
             \A t \in Thread : Dispatching(t)' => Dispatching(t) /\ thread'[t] = thread[t]
      PROVE  OrderInv'
  <2>1. ASSUME NEW k \in Conn
        PROVE  \/ chain'[k] = chain[k]
               \/ chain[k] # <<>> /\ Head(chain[k]) = HelloJob /\ chain'[k] = Tail(chain[k])
    <3>1. CASE k # d
      BY <1>0, <1>3, <3>1 DEF Finish, TypeOK
    <3>2. CASE k = d
      <4>1. Delivering(k)
        BY <1>0, <1>3, <3>2 DEF Bookkeeping, ChainRunsDelivery
      <4>2. chain[k] \in Seq(Job) /\ chain[k] # <<>> /\ Head(chain[k]).type = "deliver"
        BY <1>0, <4>1 DEF TypeOK, Delivering
      <4>3. Head(chain[k]) \in Job
        BY <4>2
      <4>4. Head(chain[k]) = HelloJob
        BY <4>2, <4>3 DEF Job, Reports
      <4>. QED  BY <1>0, <1>3, <3>2, <4>2, <4>4 DEF Finish, TypeOK
    <3>. QED  BY <3>1, <3>2
  <2>2. \A k \in Conn : Kept(chain[k], chain'[k])
    BY <2>1 DEF Kept
  <2>. QED  BY <1>3, <2>2, OrderShrinks
<1>4. ASSUME NEW d \in Delivery \ {Poll}, GetConnection(d), Finish(d) PROVE OrderInv'
  BY <1>3, <1>4 DEF GetConnection, Dispatching
<1>5. ASSUME NEW d \in Delivery, AbortDelivery(d) PROVE OrderInv'
  <2>1. envelopes' \subseteq envelopes
    BY <1>5 DEF AbortDelivery, Drop
  <2>. QED  BY <1>3, <1>5, <2>1 DEF AbortDelivery, Dispatching
<1>6. ASSUME AnswerPoll PROVE OrderInv'
  <2>1. /\ Finish(Poll) /\ worker[Poll].pc # "idle"
        /\ UNCHANGED <<status, posts, late, link, socket, unrecorded>>
    BY <1>6 DEF AnswerPoll
  <2>a. envelopes' \subseteq MoveTo(Claimed(Poll), Batch)
    BY <1>6 DEF AnswerPoll, MoveTo
  <2>2. \A e \in envelopes' : \E f \in envelopes : f[1] = e[1]
    BY <2>a, MovesAddNothing
  <2>3. \A t \in Thread : thread'[t] = thread[t] \/ thread'[t] = IdleThread
    BY <1>0, <1>6 DEF AnswerPoll, TypeOK
  <2>4. \A t \in Thread : Dispatching(t)' => Dispatching(t) /\ thread'[t] = thread[t]
    BY <2>3 DEF Dispatching, IdleThread
  <2>. QED  BY <1>0, <1>3, <2>1, <2>2, <2>4
<1>7. ASSUME NEW d \in Delivery \ {Poll}, SendFrames(d) PROVE OrderInv'
  <2>1. /\ Finish(d) /\ worker[d].pc # "idle"
        /\ UNCHANGED <<status, posts, late, link, thread, unrecorded>>
    BY <1>7 DEF SendFrames
  <2>a. envelopes' \subseteq MoveTo(Claimed(d), Wire(worker[d].conn))
    BY <1>7 DEF SendFrames, MoveTo
  <2>2. \A e \in envelopes' : \E f \in envelopes : f[1] = e[1]
    BY <2>a, MovesAddNothing
  <2>3. \A k \in Conn : socket[k] = "gone" => socket'[k] = "gone"
    BY <1>0, <1>7 DEF SendFrames, TypeOK
  <2>. QED  BY <1>3, <2>1, <2>2, <2>3 DEF Dispatching
<1>8. ASSUME NEW d \in Delivery \ {Poll}, GetConnection(d)
      PROVE  UNCHANGED chain \/ Finish(d)
  BY <1>8 DEF GetConnection
<1>. QED  BY <1>1, <1>2, <1>4, <1>5, <1>6, <1>7, <1>8 DEF Deliver

LEMMA ConnectionKeepsOrder ==
    ASSUME IInv, TypeOK', Fresh, OrderInv, Connection \/ Fault
    PROVE  OrderInv'
<1>. USE DEF database, server, http, agent, bounds
<1>0. TypeOK /\ Bookkeeping /\ NoConn \notin Conn
  BY NamesAssumption DEF IInv
<1>1. UNCHANGED <<status, unrecorded>> /\ posts' \subseteq posts /\ late' \subseteq late
  BY DEF Connection, Hello, HelloAccepted, ServerCloses, SocketGone, LinkDown,
     Fault, ServerCrash, AgentRestart
<1>2. envelopes' \subseteq envelopes
  BY DEF Connection, Hello, HelloAccepted, ServerCloses, SocketGone, LinkDown, Drop,
     Fault, ServerCrash, AgentRestart
<1>3. \A t \in Thread : Dispatching(t)' =>
         Dispatching(t) /\ thread'[t] = thread[t] /\ (t = "ws" => UNCHANGED link)
  <2>1. CASE Hello(link')
    BY <2>1 DEF Hello, Dispatching
  <2>2. CASE LinkDown \/ AgentRestart
    <3>1. \A t \in Thread : thread'[t] = IdleThread \/ (t # "ws" /\ thread'[t] = thread[t])
      <4>1. CASE LinkDown
        BY <1>0, <4>1 DEF LinkDown, TypeOK
      <4>2. CASE AgentRestart
        BY <4>2 DEF AgentRestart
      <4>. QED  BY <2>2, <4>1, <4>2
    <3>. QED  BY <3>1 DEF Dispatching, IdleThread
  <2>3. CASE UNCHANGED <<thread, link>>
    BY <2>3 DEF Dispatching
  <2>. QED  BY <2>1, <2>2, <2>3 DEF Connection, Hello, HelloAccepted, ServerCloses, SocketGone,
               Fault, ServerCrash
<1>4. ASSUME NEW k \in Conn
      PROVE  /\ \/ Kept(chain[k], chain'[k])
                \/ Cut(chain[k], chain'[k]) /\ socket'[k] = "gone"
             /\ socket[k] = "gone" => socket'[k] = "gone"
  <2>0. chain[k] \in Seq(Job)
    BY <1>0 DEF TypeOK
  <2>1. CASE UNCHANGED <<chain, socket>>
    BY <2>1 DEF Kept
  <2>2. ASSUME NEW x \in Conn, Hello(x)
        PROVE  Kept(chain[k], chain'[k]) /\ (socket[k] = "gone" => socket'[k] = "gone")
    BY <1>0, <2>2 DEF Hello, Kept, Fresh, TypeOK
  <2>3. ASSUME NEW x \in Conn, ServerCloses(x)
        PROVE  Kept(chain[k], chain'[k]) /\ (socket[k] = "gone" => socket'[k] = "gone")
    BY <1>0, <2>3 DEF ServerCloses, Kept, TypeOK
  <2>4. ASSUME NEW x \in Conn, SocketGone(x)
        PROVE  /\ \/ Kept(chain[k], chain'[k])
                  \/ Cut(chain[k], chain'[k]) /\ socket'[k] = "gone"
               /\ socket[k] = "gone" => socket'[k] = "gone"
    <3>1. socket' = [socket EXCEPT ![x] = "gone"]
      BY <2>4 DEF SocketGone
    <3>2. PICK n \in (IF InProgress(x) THEN 1 ELSE 0)..Len(chain[x]) :
               chain' = [chain EXCEPT ![x] = SubSeq(@, 1, n)]
      BY <2>4 DEF SocketGone
    <3>3. CASE k = x
      <4>1. n \in 0..Len(chain[k])
        BY <2>0, <3>2, <3>3
      <4>2. chain'[k] = SubSeq(chain[k], 1, n) /\ socket'[k] = "gone"
        BY <1>0, <3>1, <3>2, <3>3 DEF TypeOK
      <4>. QED  BY <4>1, <4>2 DEF Cut
    <3>4. CASE k # x
      BY <1>0, <3>1, <3>2, <3>4 DEF Kept, TypeOK
    <3>. QED  BY <3>3, <3>4
  <2>5. CASE ServerCrash
    <3>1. chain'[k] = <<>> /\ socket'[k] = IF socket[k] = "unused" THEN "unused" ELSE "gone"
      BY <2>5 DEF ServerCrash
    <3>2. SubSeq(chain[k], 1, 0) = <<>> /\ 0 \in 0..Len(chain[k])
      BY <2>0
    <3>3. Cut(chain[k], chain'[k])
      BY <3>1, <3>2 DEF Cut
    <3>. QED  BY <3>1, <3>3 DEF Fresh, Kept
  <2>. QED  BY <2>1, <2>2, <2>3, <2>4, <2>5 DEF Connection, HelloAccepted, LinkDown,
               Fault, AgentRestart
<1>. QED  BY <1>1, <1>2, <1>3, <1>4, OrderShrinks

(* A report handled over HTTP moves a row that no connection reports on.   *)
LEMMA PostKeepsOrder ==
    ASSUME IInv, TypeOK', OrderInv, NEW m \in posts \cup late, PostStep(m)
    PROVE  OrderInv'
<1>. USE DEF database, server, http, agent, bounds
<1>0. TypeOK /\ Bookkeeping /\ LeaseInv
  BY DEF IInv
<1>1. UNCHANGED <<chain, envelopes, socket, link, thread, unrecorded>>
  BY DEF PostStep
<1>2. PICK c \in Command : c = m.cmd /\ m \in Job \ {HelloJob}
  BY <1>0, JobFields DEF TypeOK
<1>3. Posted(c) /\ ~Unreported(c) /\ \A k \in Conn : ~InSeq(c, chain[k])
  BY <1>2 DEF OrderInv, Channel, Unreported, Posted
<1>4. ~Afloat(c) /\ status[c] \in Released
  BY <1>3 DEF OrderInv, Channel
<1>5. status'[c] \in Released /\ \A x \in Command \ {c} : status'[x] = status[x]
  BY <1>0, <1>2, <1>4, JobFields DEF PostStep, Apply, TypeOK
<1>6. \A x \in Command : Posted(x)' => Posted(x)
  <2>1. WithRead(m).cmd = c
    <3>1. m \in [type : Reports, cmd : Command, read : RowState]
      BY <1>2 DEF Job
    <3>. QED  BY <1>2, <3>1 DEF WithRead
  <2>2. \A y \in posts' \cup late' : y \in posts \cup late \/ y.cmd = c
    BY <2>1 DEF PostStep, Stepped
  <2>. QED  BY <1>3, <2>2 DEF Posted
<1>7. ASSUME NEW x \in Command PROVE Channel(x)' /\ OrderKept(x)'
  <2>1. CASE x # c
    <3>1. Channel(x)'
      BY <1>0, <1>1, <1>5, <1>6, <2>1, ChannelKept DEF OrderInv, Afloat
    <3>. QED  BY <1>1, <1>5, <2>1, <3>1 DEF OrderInv, OrderKept
  <2>2. CASE x = c
    <3>1. Channel(c)'
      BY <1>1, <1>3, <1>4, <1>5 DEF Channel, Afloat
    <3>2. OrderKept(c)'
      BY <1>1, <1>3, OrderlyNone DEF OrderKept, TypeOK
    <3>. QED  BY <2>2, <3>1, <3>2
  <2>. QED  BY <2>1, <2>2
<1>8. ASSUME NEW t \in Thread, Dispatching(t) PROVE AtWork(t)'
  <2>1. PICK x \in Command : x = thread[t].cmd /\ (t = "ws" => link \in Conn)
    BY <1>0, <1>8 DEF Bookkeeping, DispatchHasLink
  <2>2. CASE t = "ws"
    <3>1. OnSocket(x, thread[t].pc)
      BY <1>8, <2>1, <2>2 DEF OrderInv, AtWork
    <3>2. x # c
      BY <1>3, <3>1 DEF OnSocket
    <3>3. OnSocket(x, thread[t].pc)'
      BY <1>1, <1>5, <1>6, <2>1, <2>2, <3>1, <3>2, OnSocketKept
    <3>. QED  BY <1>1, <2>1, <2>2, <3>3 DEF AtWork
  <2>3. CASE t # "ws"
    BY <1>1, <1>8, <2>1, <2>3 DEF OrderInv, AtWork, OnPoll
  <2>. QED  BY <2>2, <2>3
<1>. QED  BY <1>1, <1>7, <1>8 DEF OrderInv, AtWork, Dispatching

(* The first job of a chain, which is a report: it is dropped, or it reads *)
(* the row, or it moves the row. It is dropped only because its command is *)
(* finished, or because a query fails, now or for an earlier report of it. *)
Handled(k, m) ==
    /\ \/ UNCHANGED status /\ chain' = [chain EXCEPT ![k] = Tail(@)]
       \/ UNCHANGED status /\ chain' = [chain EXCEPT ![k] = <<WithRead(m)>> \o Tail(@)]
       \/ /\ status' = [status EXCEPT ![m.cmd] = Target(m.type)]
          /\ chain' = [chain EXCEPT ![k] = Tail(@)]
    /\ unrecorded \subseteq unrecorded' /\ unrecorded' \subseteq unrecorded \cup {m.cmd}
    /\ m.cmd \notin unrecorded' =>
          \/ /\ status[m.cmd] \in Terminal
             /\ UNCHANGED status
             /\ chain' = [chain EXCEPT ![k] = Tail(@)]
          \/ /\ status[m.cmd] \in Released \ Terminal
             /\ UNCHANGED status
             /\ chain' = [chain EXCEPT ![k] = <<WithRead(m)>> \o Tail(@)]
          \/ /\ status[m.cmd] \in Released \ Terminal
             /\ status' = [status EXCEPT ![m.cmd] = Target(m.type)]
             /\ chain' = [chain EXCEPT ![k] = Tail(@)]

LEMMA ChainOutcome ==
    ASSUME TypeOK, LeaseInv, ReadsLawful, OrderInv,
           NEW k \in Conn, ChainStep(k) \/ ReportFails(k), NEW m, m = Head(chain[k])
    PROVE  /\ m \in Job \ {HelloJob} /\ chain[k] \in Seq(Job) /\ chain[k] # <<>>
           /\ InSeq(m.cmd, chain[k])
           /\ Handled(k, m)
<1>. USE DEF bounds
<1>1. chain[k] \in Seq(Job) /\ chain[k] # <<>> /\ m.type # "deliver"
  BY DEF ChainStep, ReportFails, TypeOK
<1>2. m \in Job \ {HelloJob} /\ 1 \in 1..Len(chain[k]) /\ chain[k][1] = m
  BY <1>1 DEF HelloJob
<1>3. InSeq(m.cmd, chain[k]) /\ m.cmd \in Command
  BY <1>2, JobFields DEF InSeq
<1>4. status[m.cmd] \in Released
  BY <1>3 DEF OrderInv, Channel, Unreported
<1>5. CASE ReportFails(k)
  BY <1>1, <1>2, <1>3, <1>5 DEF ReportFails, Handled, database
<1>6. CASE ChainStep(k)
  <2>1. /\ \/ UNCHANGED status
           \/ status' = [status EXCEPT ![m.cmd] = Target(m.type)] /\ m.read # Absent
        /\ \/ chain' = [chain EXCEPT ![k] = Tail(@)]
           \/ m.read = Absent /\ chain' = [chain EXCEPT ![k] = <<WithRead(m)>> \o Tail(@)]
        /\ UNCHANGED unrecorded
    BY <1>6 DEF ChainStep, Apply
  <2>2. CASE status[m.cmd] \in Terminal
    <3>1. \A to : ~CanTransition(status[m.cmd], to)
      BY <2>2 DEF CanTransition, Terminal, Statuses, Pending
    <3>2. Refused(m)
      BY <1>2, <3>1 DEF Refused, ReadsLawful, LawfulRead
    <3>3. UNCHANGED status /\ chain' = [chain EXCEPT ![k] = Tail(@)]
      BY <1>6, <3>2 DEF ChainStep, Apply
    <3>. QED  BY <1>1, <1>2, <1>3, <2>1, <2>2, <3>3 DEF Handled
  <2>3. CASE m.cmd \in unrecorded
    BY <1>1, <1>2, <1>3, <2>1, <2>3 DEF Handled
  <2>4. CASE status[m.cmd] \notin Terminal /\ m.cmd \notin unrecorded
    <3>1. Orderly(chain[k], m.cmd, status[m.cmd])
      BY <1>3, <2>4 DEF OrderInv, OrderKept
    <3>2. ~Refused(m)
      BY <1>1, <1>2, <1>4, <2>4, <3>1, HeadLands DEF Refused
    <3>3. \/ UNCHANGED status /\ chain' = [chain EXCEPT ![k] = <<WithRead(m)>> \o Tail(@)]
          \/ /\ status' = [status EXCEPT ![m.cmd] = Target(m.type)]
             /\ chain' = [chain EXCEPT ![k] = Tail(@)]
      BY <1>6, <3>2 DEF ChainStep, Apply
    <3>. QED  BY <1>1, <1>2, <1>3, <1>4, <2>1, <2>4, <3>3 DEF Handled
  <2>. QED  BY <2>2, <2>3, <2>4
<1>. QED  BY <1>5, <1>6

LEMMA ChainKeepsOrder ==
    ASSUME IInv, TypeOK', ReadsLawful, OrderInv,
           NEW k \in Conn, ChainStep(k) \/ ReportFails(k)
    PROVE  OrderInv'
<1>. USE DEF database, server, http, agent, bounds
<1>. DEFINE s == chain[k]
            m == Head(s)
            z == chain'[k]
<1>0. TypeOK /\ Bookkeeping /\ LeaseInv
  BY DEF IInv
<1>1. /\ m \in Job \ {HelloJob} /\ s \in Seq(Job) /\ s # <<>>
      /\ InSeq(m.cmd, s) /\ m.cmd \in Command
  BY <1>0, ChainOutcome, JobFields
<1>h. Handled(k, m)
  BY <1>0, ChainOutcome
<1>2. UNCHANGED <<posts, late, envelopes, socket, link, thread>>
  BY DEF ChainStep, ReportFails
<1>3. \A x \in Conn \ {k} : chain'[x] = chain[x]
  BY <1>0, <1>h DEF Handled, TypeOK
<1>a. unrecorded \subseteq unrecorded' /\ unrecorded' \subseteq unrecorded \cup {m.cmd}
  BY <1>h DEF Handled
<1>b. \A e : chain' = [chain EXCEPT ![k] = e] => chain'[k] = e
  BY <1>0 DEF TypeOK
<1>c. \/ UNCHANGED status /\ z = Tail(s)
      \/ UNCHANGED status /\ z = <<WithRead(m)>> \o Tail(s)
      \/ status' = [status EXCEPT ![m.cmd] = Target(m.type)] /\ z = Tail(s)
  BY <1>b, <1>h DEF Handled
<1>4. ASSUME m.cmd \notin unrecorded'
      PROVE  \/ /\ status[m.cmd] \in Terminal /\ UNCHANGED status /\ z = Tail(s)
             \/ /\ status[m.cmd] \in Released \ Terminal /\ UNCHANGED status
                /\ z = <<WithRead(m)>> \o Tail(s)
             \/ /\ status[m.cmd] \in Released \ Terminal
                /\ status' = [status EXCEPT ![m.cmd] = Target(m.type)]
                /\ z = Tail(s)
  BY <1>4, <1>b, <1>h DEF Handled
<1>5. /\ \A c \in Command \ {m.cmd} : status'[c] = status[c]
      /\ status'[m.cmd] \in {status[m.cmd], Target(m.type)}
      /\ Target(m.type) \in Released
  BY <1>0, <1>1, <1>c, JobFields DEF TypeOK
<1>6. WithRead(m) \in Job /\ WithRead(m).cmd = m.cmd /\ WithRead(m).type = m.type
      /\ WithRead(m).read = status[m.cmd]
  <2>1. m \in [type : Reports, cmd : Command, read : RowState]
    BY <1>1 DEF Job
  <2>. QED  BY <1>0, <1>1, <2>1, WithReadType DEF WithRead
<1>7. ASSUME NEW c \in Command, c \notin unrecorded' PROVE Orderly(z, c, status'[c])
  <2>1. Orderly(s, c, status[c])
    BY <1>7, <1>a DEF OrderInv, OrderKept
  <2>2. CASE z = <<WithRead(m)>> \o Tail(s) /\ UNCHANGED status
    BY <1>1, <1>6, <2>1, <2>2, OrderlyRead
  <2>3. CASE z = Tail(s) /\ (m.cmd # c \/ (UNCHANGED status /\ status[m.cmd] \in Terminal))
    BY <1>1, <1>5, <2>1, <2>3, OrderlyTail
  <2>4. CASE /\ m.cmd = c /\ z = Tail(s)
             /\ status[m.cmd] \in Released \ Terminal
             /\ status' = [status EXCEPT ![m.cmd] = Target(m.type)]
    <3>1. status'[c] = Target(m.type)
      BY <1>0, <2>4 DEF TypeOK
    <3>2. Orderly(s, m.cmd, status[m.cmd])
      BY <2>1, <2>4
    <3>3. Orderly(Tail(s), m.cmd, Target(m.type))
      BY <1>1, <2>4, <3>2, OrderlyDone
    <3>. QED  BY <2>4, <3>1, <3>3
  <2>. QED  BY <1>4, <1>7, <1>c, <2>2, <2>3, <2>4
<1>8. ASSUME NEW c \in Command
      PROVE  /\ InSeq(c, z) => InSeq(c, s)
             /\ RunningIn(c, z) => RunningIn(c, s)
             /\ c # m.cmd /\ AckIn(c, s, Len(s)) => AckIn(c, z, Len(z))
             /\ Len(z) = Len(s) /\ AckIn(c, s, Len(s)) => AckIn(c, z, Len(z))
  <2>0. s[1] = m
    BY <1>1
  <2>1. CASE z = Tail(s)
    <3>1. \A i \in 1..Len(z) : \E j \in 1..Len(s) : z[i] = s[j]
      BY <1>1, <2>1
    <3>2. \A i \in 1..Len(s) : i # 1 => \E j \in 1..Len(z) : z[j] = s[i]
      <4>1. \A i \in 1..Len(s) : i # 1 => i - 1 \in 1..Len(z) /\ z[i - 1] = s[i]
        BY <1>1, <2>1
      <4>. QED  BY <4>1
    <3>3. Len(z) # Len(s)
      BY <1>1, <2>1
    <3>4. (InSeq(c, z) => InSeq(c, s)) /\ (RunningIn(c, z) => RunningIn(c, s))
      BY <3>1 DEF InSeq, RunningIn
    <3>5. c # m.cmd /\ AckIn(c, s, Len(s)) => AckIn(c, z, Len(z))
      BY <2>0, <3>2 DEF AckIn
    <3>. QED  BY <3>3, <3>4, <3>5
  <2>2. CASE z = <<WithRead(m)>> \o Tail(s)
    <3>1. /\ Len(z) = Len(s) /\ z[1] = WithRead(m)
          /\ \A i \in 1..Len(s) : i # 1 => z[i] = s[i]
      BY <1>1, <1>6, <2>2
    <3>2. \A i \in 1..Len(s) : z[i].cmd = s[i].cmd /\ z[i].type = s[i].type
      BY <1>6, <2>0, <3>1
    <3>. QED  BY <3>1, <3>2 DEF InSeq, RunningIn, AckIn
  <2>. QED  BY <1>c, <2>1, <2>2
<1>9. \A c \in Command, x \in Conn : InSeq(c, chain'[x]) => InSeq(c, chain[x])
  BY <1>3, <1>8
<1>10. ASSUME NEW c \in Command PROVE Channel(c)' /\ OrderKept(c)'
  <2>1. Channel(c)'
    <3>1. CASE status'[c] = status[c]
      BY <1>0, <1>2, <1>9, <3>1, ChannelKept DEF OrderInv, Posted, Afloat
    <3>2. CASE c = m.cmd
      <4>1. ~Unreported(c) /\ ~Posted(c)
        BY <1>1, <3>2 DEF OrderInv, Channel, Unreported
      <4>2. ~Afloat(c) /\ status[c] \in Released
        BY <4>1 DEF OrderInv, Channel
      <4>3. status'[c] \in Released /\ ~Posted(c)' /\ ~Afloat(c)'
        BY <1>2, <1>5, <3>2, <4>1, <4>2 DEF Posted, Afloat
      <4>. QED  BY <1>9, <4>3 DEF OrderInv, Channel
    <3>. QED  BY <1>5, <3>1, <3>2
  <2>2. OrderKept(c)'
    <3>1. ASSUME NEW x \in Conn \ {k}, c \notin unrecorded'
          PROVE  Orderly(chain'[x], c, status'[c])
      <4>1. CASE status'[c] = status[c]
        BY <1>3, <1>a, <3>1, <4>1 DEF OrderInv, OrderKept
      <4>2. CASE c = m.cmd
        <5>1. ~InSeq(c, chain'[x])
          BY <1>1, <1>3, <4>2 DEF OrderInv, Channel
        <5>. QED  BY <5>1, OrderlyNone DEF TypeOK
      <4>. QED  BY <1>5, <4>1, <4>2
    <3>. QED  BY <1>7, <3>1 DEF OrderKept
  <2>. QED  BY <2>1, <2>2
<1>11. ASSUME NEW t \in Thread, Dispatching(t) PROVE AtWork(t)'
  <2>1. PICK c \in Command : c = thread[t].cmd /\ (t = "ws" => link \in Conn)
    BY <1>0, <1>11 DEF Bookkeeping, DispatchHasLink
  <2>2. CASE t # "ws"
    BY <1>2, <1>9, <1>11, <2>1, <2>2 DEF OrderInv, AtWork, OnPoll
  <2>3. CASE t = "ws"
    <3>1. OnSocket(c, thread[t].pc)
      BY <1>11, <2>1, <2>3 DEF OrderInv, AtWork
    <3>2. CASE c # m.cmd
      <4>1. \A x \in Conn : /\ InSeq(c, chain'[x]) => InSeq(c, chain[x])
                            /\ RunningIn(c, chain'[x]) => RunningIn(c, chain[x])
                            /\ AckIn(c, chain[x], Len(chain[x])) => AckIn(c, chain'[x], Len(chain'[x]))
        BY <1>3, <1>8, <3>2
      <4>2. OnSocket(c, thread[t].pc)'
        BY <1>2, <1>5, <1>a, <2>1, <2>3, <3>1, <3>2, <4>1, OnSocketKept DEF Posted
      <4>. QED  BY <1>2, <2>1, <2>3, <4>2 DEF AtWork
    <3>3. CASE c = m.cmd
      <4>1. link = k /\ thread[t].pc # "ack"
        BY <1>1, <3>1, <3>3 DEF OnSocket
      <4>2. CASE \/ status[m.cmd] \in Terminal /\ UNCHANGED status
                 \/ UNCHANGED status /\ z = <<WithRead(m)>> \o Tail(s)
        <5>1. status[c] \in Terminal => status'[c] # "sent"
          BY <4>2 DEF Terminal, Pending
        <5>2. z = <<WithRead(m)>> \o Tail(s) => Len(z) = Len(s)
          BY <1>1, <1>6
        <5>3. \A x \in Conn :
                 AckIn(c, chain[x], Len(chain[x]))
                   => status'[c] # "sent" \/ AckIn(c, chain'[x], Len(chain'[x]))
          BY <1>3, <1>8, <3>3, <4>2, <5>1, <5>2
        <5>4. \A x \in Conn : RunningIn(c, chain'[x]) => RunningIn(c, chain[x])
          BY <1>3, <1>8
        <5>5. OnSocket(c, thread[t].pc)'
          BY <1>2, <1>9, <1>a, <2>1, <2>3, <3>1, <4>2, <5>3, <5>4, OnSocketKept DEF Posted
        <5>. QED  BY <1>2, <2>1, <2>3, <5>5 DEF AtWork
      <4>0. CASE c \in unrecorded'
        <5>1. OnSocket(c, thread[t].pc)'
          BY <1>2, <1>9, <3>1, <4>0, <4>1 DEF OnSocket, Posted
        <5>. QED  BY <1>2, <2>1, <2>3, <5>1 DEF AtWork
      <4>3. CASE c \notin unrecorded' /\ status' = [status EXCEPT ![m.cmd] = Target(m.type)]
        <5>1. status'[c] = Target(m.type) /\ m.type \in Reports
          BY <1>0, <1>1, <3>3, <4>3, JobFields DEF TypeOK
        <5>2. thread[t].pc = "handler" => ~RunningIn(c, s)
          BY <1>a, <3>1, <4>1, <4>3 DEF OnSocket
        <5>3. m.type = "running" => RunningIn(c, s)
          <6>1. 1 \in 1..Len(s) /\ s[1] = m
            BY <1>1
          <6>. QED  BY <3>3, <6>1 DEF RunningIn
        <5>4. /\ thread[t].pc = "handler" =>
                   status'[c] \in Unanswered \cup {"acked"} /\ ~RunningIn(c, z)
              /\ status'[c] # "sent"
          BY <1>8, <5>1, <5>2, <5>3 DEF Reports, Target, Unanswered, Terminal, Statuses, Pending
        <5>5. OnSocket(c, thread[t].pc)'
          BY <1>2, <1>9, <3>1, <4>1, <5>4 DEF OnSocket, Posted
        <5>. QED  BY <1>2, <2>1, <2>3, <5>5 DEF AtWork
      <4>. QED  BY <1>4, <3>3, <4>0, <4>2, <4>3
    <3>. QED  BY <3>2, <3>3
  <2>. QED  BY <2>2, <2>3
<1>. QED  BY <1>2, <1>10, <1>11 DEF OrderInv, AtWork, Dispatching

LEMMA DatabaseKeepsOrder ==
    ASSUME IInv, TypeOK', ReadsLawful, OrderInv, Database
    PROVE  OrderInv'
<1>. USE DEF database, server, http, agent, bounds
<1>1. CASE \/ SweepRead \/ SweepWrite \/ SweepFails
           \/ \E c \in Command : Elapse(c) \/ HeartbeatConfirms(c)
           \/ \E m \in posts \cup late : PostFails(m)
  <2>1. /\ UNCHANGED <<chain, envelopes, socket, link, thread, unrecorded>>
        /\ posts' \cup late' \subseteq posts \cup late
    BY <1>1 DEF SweepRead, SweepWrite, SweepFails, Elapse, HeartbeatConfirms, PostFails
  <2>2. \A c \in Command : status'[c] = status[c] \/ status'[c] \in Terminal \cap Released
    BY <1>1 DEF SweepRead, SweepWrite, SweepFails, PostFails, Elapse, HeartbeatConfirms, IInv, TypeOK, Terminal,
       Released, Statuses, Pending
  <2>. QED  BY <2>1, <2>2, OrderUntouched DEF Dispatching
<1>. QED  BY <1>1, PostKeepsOrder, ChainKeepsOrder DEF Database

(* The message a thread takes up is the only trace of its command.         *)
LEMMA DispatchKeepsOrder ==
    ASSUME IInv, TypeOK', OrderInv, NEW t \in Thread, NEW c \in Command, Dispatch(t, c)
    PROVE  OrderInv'
<1>. USE DEF database, server, http, agent, bounds
<1>0. TypeOK /\ Bookkeeping /\ LeaseInv
  BY DEF IInv
<1>1. /\ UNCHANGED <<status, chain, posts, late, socket, link, unrecorded>>
      /\ envelopes' \subseteq envelopes
  BY DEF Dispatch
<1>2. Afloat(c)
  <2>1. <<c, Inbox(t)>> \in envelopes /\ <<c, Inbox(t)>>[1] = c
    BY DEF Dispatch, Oldest, At
  <2>. QED  BY <2>1 DEF Afloat
<1>3. Unreported(c) /\ status[c] \in Unanswered
  BY <1>2 DEF OrderInv, Channel
<1>4. ASSUME NEW x \in Command PROVE Channel(x)' /\ OrderKept(x)'
  <2>1. Channel(x)'
    BY <1>0, <1>1, ChannelKept DEF OrderInv, Posted, Afloat
  <2>. QED  BY <1>1, <2>1 DEF OrderInv, OrderKept
<1>5. ASSUME NEW u \in Thread PROVE AtWork(u)'
  <2>1. \/ thread'[u] = thread[u]
        \/ u = t /\ thread'[u] = [pc |-> "ack", cmd |-> c]
    BY <1>0 DEF Dispatch, Goto, TypeOK
  <2>2. CASE thread'[u] = thread[u]
    BY <1>1, <2>2 DEF OrderInv, AtWork, Dispatching, OnSocket, OnPoll, Posted
  <2>3. CASE thread'[u] = [pc |-> "ack", cmd |-> c]
    <3>1. OnSocket(c, "ack")' /\ OnPoll(c)'
      BY <1>1, <1>3 DEF OnSocket, OnPoll, Unreported, Posted
    <3>. QED  BY <2>3, <3>1 DEF AtWork, Dispatching
  <2>. QED  BY <2>1, <2>2, <2>3
<1>. QED  BY <1>4, <1>5 DEF OrderInv

(* What a thread knows of the command it is at work on: its row has been   *)
(* claimed, its message is used up, and the other thread is not at it.     *)
LEMMA WorkIsExclusive ==
    ASSUME IInv, NEW t \in Thread, Dispatching(t)
    PROVE  /\ thread[t].cmd \in Command
           /\ t = "ws" => link \in Conn
           /\ status[thread[t].cmd] \in Released
           /\ ~Afloat(thread[t].cmd)
           /\ \A u \in Thread \ {t} : Dispatching(u) => thread[u].cmd # thread[t].cmd
<1>1. PICK c \in Command : c = thread[t].cmd /\ (t = "ws" => link \in Conn)
  BY DEF IInv, Bookkeeping, DispatchHasLink
<1>2. t \in Busy(c)
  BY <1>1 DEF Busy
<1>3. status[c] \in Released /\ ~Afloat(c)
  BY <1>2 DEF IInv, LeaseInv, SingleLease, OnlyReleasedRun, Afloat
<1>4. ASSUME NEW u \in Thread, Dispatching(u), thread[u].cmd = c PROVE u = t
  <2>1. u \in Busy(c)
    BY <1>4 DEF Busy
  <2>. QED  BY <1>2, <2>1 DEF IInv, LeaseInv, SingleLease
<1>. QED  BY <1>1, <1>3, <1>4

(* A report is sent in its turn: what that does to the rows and chains.    *)
LEMMA SendKeepsOrder ==
    ASSUME IInv, TypeOK', OrderInv, NEW t \in Thread, Dispatching(t),
           NEW type \in Reports, Send(t, Report(type, thread[t].cmd)),
           UNCHANGED <<status, late, envelopes, socket, link, unrecorded>>,
           t = "ws" => /\ type = "ack" => thread[t].pc = "ack"
                       /\ type = "running" => thread[t].pc = "handler"
                       /\ type = "succeeded" => thread[t].pc = "apply"
    PROVE  /\ \A c \in Command : Channel(c)' /\ OrderKept(c)'
           /\ \A u \in Thread \ {t} : thread'[u] = thread[u] => AtWork(u)'
           /\ t # "ws" => \A k \in Conn : ~InSeq(thread[t].cmd, chain'[k])
<1>0. TypeOK /\ Bookkeeping /\ LeaseInv
  BY DEF IInv
<1>1. PICK c \in Command : /\ c = thread[t].cmd
                           /\ t = "ws" => link \in Conn
                           /\ status[c] \in Released
                           /\ ~Afloat(c)
                           /\ \A u \in Thread \ {t} : Dispatching(u) => thread[u].cmd # c
  BY WorkIsExclusive
<1>2. PICK m \in Job \ {HelloJob} : /\ m = Report(type, c)
                                    /\ m.type = type /\ m.cmd = c /\ m.read = Absent
  BY ReportType DEF Report
<1>3. Send(t, m)
  BY <1>1, <1>2
<1>4. CASE t = "ws"
  <2>1. UNCHANGED posts /\ (\A x \in Command : Posted(x)' = Posted(x))
    BY <1>3, <1>4 DEF Send, Posted
  <2>2. /\ \A k \in Conn \ {link} : chain'[k] = chain[k]
        /\ \/ socket[link] = "gone" /\ chain'[link] = chain[link]
           \/ socket[link] # "gone" /\ chain'[link] = Append(chain[link], m)
    BY <1>0, <1>1, <1>3, <1>4 DEF Send, TypeOK
  <2>3. chain[link] \in Seq(Job)
    BY <1>0, <1>1, <1>4 DEF TypeOK
  <2>4. OnSocket(c, thread[t].pc)
    BY <1>1, <1>4 DEF OrderInv, AtWork
  <2>5. ASSUME NEW x \in Command \ {c}, NEW k \in Conn
        PROVE  /\ InSeq(x, chain'[k]) <=> InSeq(x, chain[k])
    <3>1. \A i \in 1..Len(Append(chain[link], m)) :
               \/ i \in 1..Len(chain[link]) /\ Append(chain[link], m)[i] = chain[link][i]
               \/ Append(chain[link], m)[i] = m
      BY <2>3
    <3>2. \A i \in 1..Len(chain[link]) :
               /\ i \in 1..Len(Append(chain[link], m))
               /\ Append(chain[link], m)[i] = chain[link][i]
      BY <2>3
    <3>3. InSeq(x, Append(chain[link], m)) <=> InSeq(x, chain[link])
      BY <1>2, <3>1, <3>2 DEF InSeq
    <3>. QED  BY <2>2, <3>3
  <2>6. ASSUME NEW x \in Command, x \notin unrecorded PROVE OrderKept(x)'
    <3>1. \A k \in Conn : Orderly(chain[k], x, status[x])
      BY <2>6 DEF OrderInv, OrderKept
    <3>2. ASSUME socket[link] # "gone"
          PROVE  Orderly(Append(chain[link], m), x, status[x])
      <4>1. x = c /\ type = "ack" => status[c] \in Unanswered /\ ~InSeq(c, chain[link])
        BY <1>1, <1>4, <2>4 DEF OnSocket
      <4>2. x = c /\ type = "running" =>
               /\ status[c] \in Unanswered \cup {"acked"}
               /\ \A i \in 1..Len(chain[link]) :
                     chain[link][i].cmd = c => chain[link][i].type # "running"
        BY <1>4, <2>4, <2>6 DEF OnSocket, RunningIn
      <4>3. x = c /\ type \in {"running", "succeeded"} /\ status[c] = "sent"
               => AckIn(c, chain[link], Len(chain[link]))
        BY <1>4, <2>4, <2>6, <3>2 DEF OnSocket
      <4>. QED  BY <1>1, <1>2, <1>4, <2>3, <3>1, <4>1, <4>2, <4>3, OrderlyAppend
    <3>. QED  BY <2>2, <3>1, <3>2 DEF OrderKept
  <2>7. ASSUME NEW x \in Command PROVE Channel(x)'
    <3>1. CASE x # c
      BY <1>0, <2>1, <2>5, <3>1, ChannelKept DEF OrderInv, Afloat
    <3>2. CASE x = c
      <4>1. \A k \in Conn : InSeq(c, chain'[k]) => k = link
        BY <2>2, <2>4 DEF OnSocket
      <4>2. ~Posted(c)' /\ ~Afloat(c)' /\ status'[c] \in Released
        BY <1>1, <2>1, <2>4 DEF OnSocket, Afloat
      <4>. QED  BY <3>2, <4>1, <4>2 DEF Channel
    <3>. QED  BY <3>1, <3>2
  <2>8. ASSUME NEW u \in Thread \ {t}, thread'[u] = thread[u], Dispatching(u) PROVE AtWork(u)'
    <3>1. PICK x \in Command : x = thread[u].cmd /\ x # c /\ u # "ws"
      BY <1>1, <1>4, <2>8, WorkIsExclusive
    <3>2. OnPoll(x)
      BY <2>8, <3>1 DEF OrderInv, AtWork
    <3>3. OnPoll(x)'
      BY <2>5, <3>1, <3>2 DEF OnPoll
    <3>. QED  BY <2>8, <3>1, <3>3 DEF AtWork
  <2>. QED  BY <1>4, <2>6, <2>7, <2>8 DEF AtWork, Dispatching, OrderKept
<1>5. CASE t # "ws"
  <2>1. UNCHANGED chain /\ posts' \subseteq posts \cup {m}
    BY <1>3, <1>5 DEF Send
  <2>2. \A x \in Command \ {c} : Posted(x)' => Posted(x)
    BY <1>2, <2>1 DEF Posted
  <2>3. OnPoll(c) /\ OnPoll(c)'
    BY <1>1, <1>5, <2>1 DEF OrderInv, AtWork, OnPoll
  <2>4. ASSUME NEW x \in Command PROVE OrderKept(x)'
    BY <2>1 DEF OrderInv, OrderKept
  <2>5. ASSUME NEW x \in Command PROVE Channel(x)'
    <3>1. CASE x # c
      BY <1>0, <2>1, <2>2, <3>1, ChannelKept DEF OrderInv, Afloat
    <3>2. CASE x = c
      BY <1>1, <2>3, <3>2 DEF Channel, OnPoll, Afloat
    <3>. QED  BY <3>1, <3>2
  <2>6. ASSUME NEW u \in Thread \ {t}, thread'[u] = thread[u], Dispatching(u) PROVE AtWork(u)'
    <3>1. PICK x \in Command : x = thread[u].cmd /\ x # c
      BY <1>1, <2>6, WorkIsExclusive
    <3>2. ~Posted(x) => ~Posted(x)'
      BY <2>2, <3>1
    <3>3. AtWork(u)
      BY DEF OrderInv
    <3>4. CASE u = "ws"
      <4>1. OnSocket(x, thread[u].pc)'
        BY <2>1, <2>6, <3>1, <3>2, <3>3, <3>4 DEF AtWork, OnSocket
      <4>. QED  BY <2>6, <3>1, <3>4, <4>1 DEF AtWork
    <3>5. CASE u # "ws"
      BY <2>1, <2>6, <3>1, <3>3, <3>5 DEF AtWork, OnPoll
    <3>. QED  BY <3>4, <3>5
  <2>7. \A k \in Conn : ~InSeq(thread[t].cmd, chain'[k])
    BY <1>1, <2>1, <2>3 DEF OnPoll
  <2>8. ASSUME NEW u \in Thread \ {t}, thread'[u] = thread[u] PROVE AtWork(u)'
    BY <2>6, <2>8 DEF AtWork, Dispatching
  <2>. QED  BY <2>4, <2>5, <2>7, <2>8
<1>. QED  BY <1>4, <1>5

(* The report just sent is the last job of the connection's chain, unless  *)
(* the socket is gone.                                                     *)
LEMMA ReportIsLast ==
    ASSUME TypeOK, link \in Conn, NEW m \in Job, "ws" \in Thread, Send("ws", m)
    PROVE  /\ socket[link] # "gone" => \E i \in 1..Len(chain'[link]) : chain'[link][i] = m
           /\ \A i \in 1..Len(chain'[link]) :
                 \/ i \in 1..Len(chain[link]) /\ chain'[link][i] = chain[link][i]
                 \/ chain'[link][i] = m
           /\ \A i \in 1..Len(chain[link]) :
                 i \in 1..Len(chain'[link]) /\ chain'[link][i] = chain[link][i]
<1>1. chain[link] \in Seq(Job)
  BY DEF TypeOK
<1>2. chain'[link] = IF socket[link] = "gone" THEN chain[link] ELSE Append(chain[link], m)
  BY DEF Send, TypeOK
<1>3. CASE socket[link] = "gone"
  BY <1>2, <1>3
<1>4. CASE socket[link] # "gone"
  <2>1. /\ Len(chain'[link]) = Len(chain[link]) + 1
        /\ chain'[link][Len(chain[link]) + 1] = m
        /\ \A i \in 1..Len(chain[link]) : chain'[link][i] = chain[link][i]
    BY <1>1, <1>2, <1>4
  <2>. QED  BY <1>1, <2>1
<1>. QED  BY <1>3, <1>4

LEMMA AgentKeepsOrder ==
    ASSUME IInv, TypeOK', OrderInv, Agent
    PROVE  OrderInv'
<1>. USE DEF database, server, http, agent, bounds
<1>0. TypeOK /\ Bookkeeping /\ LeaseInv
  BY DEF IInv
<1>1. ASSUME NEW t \in Thread, NEW c \in Command, Dispatch(t, c) PROVE OrderInv'
  BY <1>1, DispatchKeepsOrder
<1>2. CASE PollRequest \/ PollTimeout \/ ReportTimeout \/ \E c \in Command : Forget(c)
  <2>1. /\ UNCHANGED <<status, chain, envelopes, socket, unrecorded>>
        /\ posts' \cup late' = posts \cup late
    BY <1>2 DEF PollRequest, PollTimeout, ReportTimeout, Forget
  <2>2. \A u \in Thread : thread'[u] = thread[u] \/ thread'[u].pc \in {"idle", "polling"}
    BY <1>0, <1>2 DEF PollRequest, PollTimeout, ReportTimeout, Forget, TypeOK, ThreadState, IdleThread
  <2>3. UNCHANGED link
    BY <1>2 DEF PollRequest, PollTimeout, ReportTimeout, Forget
  <2>. QED  BY <2>1, <2>2, <2>3, OrderUntouched DEF Dispatching
<1>3. ASSUME NEW t \in Thread, SendAck(t) \/ SendRunning(t) \/ RunHandler(t) PROVE OrderInv'
  <2>1. UNCHANGED <<status, late, envelopes, socket, link, unrecorded>> /\ Dispatching(t)
    BY <1>3 DEF SendAck, SendRunning, RunHandler, Dispatching
  <2>2. PICK c \in Command : /\ c = thread[t].cmd
                             /\ t = "ws" => link \in Conn
                             /\ status[c] \in Released
    BY <2>1, WorkIsExclusive
  <2>3. \A u \in Thread \ {t} : thread'[u] = thread[u]
    BY <1>0, <1>3 DEF SendAck, SendRunning, RunHandler, Goto, TypeOK
  <2>4. ASSUME NEW type \in Reports, Send(t, Report(type, c)),
               t = "ws" => /\ type = "ack" => thread[t].pc = "ack"
                           /\ type = "running" => thread[t].pc = "handler"
                           /\ type = "succeeded" => thread[t].pc = "apply",
               AtWork(t)' \/ (t # "ws" /\ thread'[t].cmd = c)
        PROVE  OrderInv'
    <3>1. /\ \A x \in Command : Channel(x)' /\ OrderKept(x)'
          /\ \A u \in Thread \ {t} : thread'[u] = thread[u] => AtWork(u)'
          /\ t # "ws" => OnPoll(c)'
      <4>1. Send(t, Report(type, thread[t].cmd))
        BY <2>2, <2>4
      <4>2. /\ \A x \in Command : Channel(x)' /\ OrderKept(x)'
            /\ \A u \in Thread \ {t} : thread'[u] = thread[u] => AtWork(u)'
            /\ t # "ws" => \A k \in Conn : ~InSeq(thread[t].cmd, chain'[k])
        BY <2>1, <2>4, <4>1, SendKeepsOrder
      <4>. QED  BY <2>2, <4>2 DEF OnPoll
    <3>2. AtWork(t)'
      BY <2>4, <3>1 DEF AtWork
    <3>. QED  BY <2>3, <3>1, <3>2 DEF OrderInv
  <2>5. ASSUME NEW pc \in {"handler", "apply"}, NEW type \in {"ack", "running"},
               Send(t, Report(type, c)), thread'[t] = [pc |-> pc, cmd |-> c],
               type = "ack" => thread[t].pc = "ack",
               type = "running" => thread[t].pc = "handler" /\ pc = "apply"
        PROVE  OrderInv'
    <3>1. CASE t # "ws"
      BY <2>4, <2>5, <3>1 DEF Reports
    <3>2. CASE t = "ws"
      <4>1. OnSocket(c, thread[t].pc) /\ link \in Conn
        BY <2>1, <2>2, <3>2 DEF OrderInv, AtWork
      <4>2. PICK m \in Job : m = Report(type, c) /\ m.type = type /\ m.cmd = c
        BY ReportType DEF Report, Reports
      <4>3. /\ socket[link] # "gone" => \E i \in 1..Len(chain'[link]) : chain'[link][i] = m
            /\ \A i \in 1..Len(chain'[link]) :
                  \/ i \in 1..Len(chain[link]) /\ chain'[link][i] = chain[link][i]
                  \/ chain'[link][i] = m
            /\ \A i \in 1..Len(chain[link]) :
                  i \in 1..Len(chain'[link]) /\ chain'[link][i] = chain[link][i]
        BY <1>0, <2>5, <3>2, <4>1, <4>2, ReportIsLast
      <4>4. ~Posted(c)'
        BY <2>1, <2>5, <3>2, <4>1 DEF Send, OnSocket, Posted
      <4>5. \A k \in Conn : InSeq(c, chain'[k]) => k = link'
        BY <1>0, <2>1, <2>5, <3>2, <4>1 DEF Send, OnSocket, TypeOK
      <4>6. c \notin unrecorded /\ pc = "handler" =>
                              /\ status'[c] \in Unanswered \cup {"acked"}
                              /\ ~RunningIn(c, chain'[link'])
        <5>1. ASSUME pc = "handler"
              PROVE  type = "ack" /\ status[c] \in Unanswered /\ ~InSeq(c, chain[link])
          BY <2>5, <4>1, <5>1 DEF OnSocket
        <5>. QED  BY <2>1, <4>2, <4>3, <5>1 DEF RunningIn, InSeq
      <4>7. \/ c \in unrecorded
            \/ socket'[link'] = "gone"
            \/ status'[c] # "sent"
            \/ AckIn(c, chain'[link'], Len(chain'[link']))
        <5>1. CASE type = "ack"
          BY <2>1, <4>2, <4>3, <5>1 DEF AckIn
        <5>2. CASE type = "running"
          BY <2>1, <2>5, <4>1, <4>3, <5>2 DEF AckIn, OnSocket
        <5>. QED  BY <5>1, <5>2
      <4>8. OnSocket(c, pc)'
        BY <2>1, <2>5, <4>4, <4>5, <4>6, <4>7 DEF OnSocket
      <4>9. AtWork(t)'
        BY <2>5, <3>2, <4>8 DEF AtWork
      <4>. QED  BY <2>4, <2>5, <4>9 DEF Reports
    <3>. QED  BY <3>1, <3>2
  <2>6. CASE SendAck(t)
    <3>1. \/ /\ Send(t, Report("ack", c))
             /\ \E pc \in {"handler", "apply"} : thread'[t] = [pc |-> pc, cmd |-> c]
          \/ Send(t, Report("nack", c)) /\ thread'[t] = IdleThread
      BY <1>0, <2>2, <2>6 DEF SendAck, Goto, TypeOK
    <3>2. thread[t].pc = "ack"
      BY <2>6 DEF SendAck
    <3>3. thread'[t] = IdleThread => AtWork(t)'
      BY DEF AtWork, Dispatching, IdleThread
    <3>4. CASE Send(t, Report("nack", c)) /\ thread'[t] = IdleThread
      BY <2>4, <3>3, <3>4 DEF Reports
    <3>. QED  BY <2>5, <3>1, <3>2, <3>4
  <2>7. CASE SendRunning(t)
    BY <1>0, <2>2, <2>5, <2>7 DEF SendRunning, Goto, TypeOK
  <2>8. CASE RunHandler(t)
    <3>1. thread[t].pc = "apply" /\ thread'[t] = IdleThread
      BY <1>0, <2>8 DEF RunHandler, TypeOK
    <3>2. AtWork(t)'
      BY <3>1 DEF AtWork, Dispatching, IdleThread
    <3>3. CASE Send(t, Report("failed", c)) \/ Send(t, Report("succeeded", c))
      BY <2>4, <3>1, <3>2, <3>3 DEF Reports
    <3>4. CASE UNCHANGED <<chain, posts>>
      <4>1. \A u \in Thread : Dispatching(u)' => Dispatching(u) /\ thread'[u] = thread[u]
        BY <2>3, <3>1 DEF Dispatching, IdleThread
      <4>. QED  BY <2>1, <3>4, <4>1, OrderUntouched
    <3>. QED  BY <2>2, <2>8, <3>3, <3>4 DEF RunHandler
  <2>. QED  BY <1>3, <2>6, <2>7, <2>8
<1>. QED  BY <1>1, <1>2, <1>3 DEF Agent

LEMMA OrderNext ==
    ASSUME IInv, Fresh, ReadsLawful, OrderInv, [Next]_vars
    PROVE  OrderInv'
<1>. USE DEF database, server, http, agent, bounds
<1>1. TypeOK'
  BY IInvNext DEF IInv
<1>2. CASE UNCHANGED vars
  BY <1>1, <1>2, OrderUntouched DEF vars, Dispatching
<1>. QED  BY <1>1, <1>2, OperatorKeepsOrder, DeliverKeepsOrder, ConnectionKeepsOrder,
             DatabaseKeepsOrder, AgentKeepsOrder DEF Next

(* However sends, handlers, reconnections, timeouts and crashes interleave *)
(* and whichever transport a command took, the promise chain of a          *)
(* connection never handles a report too early: it is written, or its      *)
(* command is finished, or a failing query has dropped an earlier report   *)
(* of it.                                                                  *)
THEOREM ReportsLand == Spec => []SocketReportsLand
<1>1. Init => IInv /\ Fresh /\ ReadsLawful /\ OrderInv
  BY IInvInit, FreshInit, ReadsLawfulInit, OrderInit
<1>2. IInv /\ Fresh /\ ReadsLawful /\ OrderInv /\ [Next]_vars
         => (IInv /\ Fresh /\ ReadsLawful /\ OrderInv)'
  BY IInvNext, FreshNext, ReadsLawfulNext, OrderNext DEF IInv
<1>3. IInv /\ OrderInv => SocketReportsLand
  <2>. SUFFICES ASSUME IInv, OrderInv, NEW k \in Conn,
                       chain[k] # <<>>, Head(chain[k]).type # "deliver",
                       NEW m, m = Head(chain[k]), status[m.cmd] \notin Terminal,
                       m.cmd \notin unrecorded
                PROVE  ~Refused(m)
    BY DEF SocketReportsLand
  <2>1. chain[k] \in Seq(Job)
    BY DEF IInv, TypeOK
  <2>2. m \in Job \ {HelloJob} /\ 1 \in 1..Len(chain[k]) /\ chain[k][1] = m
    BY <2>1 DEF HelloJob
  <2>3. m.cmd \in Command /\ InSeq(m.cmd, chain[k])
    BY <2>2, JobFields DEF InSeq
  <2>4. status[m.cmd] \in Released \ Terminal
    BY <2>3 DEF OrderInv, Channel, Unreported
  <2>5. Orderly(chain[k], m.cmd, status[m.cmd])
    BY <2>3 DEF OrderInv, OrderKept
  <2>. QED  BY <2>1, <2>2, <2>4, <2>5, HeadLands DEF Refused
<1>. QED  BY <1>1, <1>2, <1>3, PTL DEF Spec
=============================================================================
