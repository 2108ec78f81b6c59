------------------------- MODULE SensorConfigProofs -------------------------
(***************************************************************************)
(* Proofs about SensorConfig for any number of configurations, requests,   *)
(* heartbeats, rows and faults.                                            *)
(***************************************************************************)
EXTENDS SensorConfig, SequenceTheorems, TLAPS

(* What a task holds when it is about to write.                            *)
TaskLawful(t) ==
    /\ task[t].pc \in {"upsert", "version", "sweep", "queue"} => task[t].hash \in Config
    /\ task[t].pc \in {"sweep", "queue"} => task[t].row \in Row
    /\ task[t].pc \in {"upsert", "version"} /\ task[t].rollback =>
           \E u \in AppliedRows : versions[u].hash = task[t].hash

TasksLawful == \A t \in Task : TaskLawful(t)

(* What a confirmation holds at each of its steps.                         *)
BeatLawful(b) ==
    /\ beat[b].pc = "result" => /\ beat[b].row \in DOMAIN commands
                                /\ commands[beat[b].row].hash = beat[b].hash
    /\ beat[b].pc \in {"version", "applied"} =>
           \E i \in DOMAIN commands : /\ commands[i].hash = beat[b].hash
                                      /\ commands[i].status = "succeeded"
    /\ beat[b].pc = "applied" => /\ beat[b].row \in DOMAIN versions
                                 /\ versions[beat[b].row].hash = beat[b].hash

BeatsLawful == \A b \in Beat : BeatLawful(b)

IInv == /\ TypeOK /\ TasksLawful /\ BeatsLawful
        /\ AppliedWasConfirmed /\ RollsBackToApplied

-----------------------------------------------------------------------------
(* Rows are only ever added, and never lose what they have attained.       *)
VersionsGrow ==
    \A v \in DOMAIN versions :
        /\ v \in DOMAIN versions'
        /\ versions'[v].hash = versions[v].hash
        /\ versions'[v].rollback = versions[v].rollback
        /\ versions[v].applied => versions'[v].applied

CommandsGrow ==
    \A i \in DOMAIN commands :
        /\ i \in DOMAIN commands'
        /\ commands'[i].hash = commands[i].hash
        /\ commands[i].status = "succeeded" => commands'[i].status = "succeeded"

(* What the histories and the bounds count.                                *)
HistoryTyped == overlooked \in BOOLEAN /\ cut \subseteq Hash /\ saves \in Nat /\ faults \in Nat

LEMMA HistoryKept ==
    ASSUME TypeOK, UNCHANGED <<missed, used>>
    PROVE  HistoryTyped'
BY DEF TypeOK, missed, used, HistoryTyped

LEMMA CommandRows ==
    ASSUME TypeOK
    PROVE  /\ DOMAIN commands = 1..Len(commands)
           /\ DOMAIN commands \subseteq Row
           /\ \A i \in DOMAIN commands : commands[i] \in CommandRow
BY ConfigAssumption DEF TypeOK, Row

LEMMA VersionRows ==
    ASSUME TypeOK
    PROVE  /\ DOMAIN versions = 1..Len(versions)
           /\ DOMAIN versions \subseteq Row
           /\ \A v \in DOMAIN versions : versions[v] \in VersionRow
BY ConfigAssumption DEF TypeOK, Row

(* Moving rows that may move to a status loses nothing.                    *)
LEMMA MovedRows ==
    ASSUME TypeOK, NEW status \in Statuses, NEW S,
           \A i \in S \cap DOMAIN commands : CanTransition(commands[i].status, status),
           commands' = Moved(S, status)
    PROVE  /\ commands' \in Seq(CommandRow) /\ Len(commands') = Len(commands)
           /\ DOMAIN commands' = DOMAIN commands
           /\ CommandsGrow
           /\ \A i \in S \cap DOMAIN commands : commands'[i].status = status
<1>1. commands' = [i \in 1..Len(commands) |->
                     IF i \in S THEN [commands[i] EXCEPT !.status = status] ELSE commands[i]]
  BY CommandRows DEF Moved
<1>2. \A i \in 1..Len(commands) : commands'[i] \in CommandRow
  BY <1>1, CommandRows DEF CommandRow
<1>3. commands' \in [1..Len(commands) -> CommandRow]
  BY <1>1, <1>2
<1>4. Len(commands) \in Nat
  BY DEF TypeOK
<1>5. commands' \in Seq(CommandRow) /\ Len(commands') = Len(commands)
  BY <1>3, <1>4, SeqDef
<1>6. DOMAIN commands' = DOMAIN commands
  BY <1>3, CommandRows
<1>7. \A i \in DOMAIN commands :
        /\ commands'[i].hash = commands[i].hash
        /\ i \in S => commands'[i].status = status
        /\ i \notin S => commands'[i] = commands[i]
  BY <1>1, CommandRows DEF CommandRow
<1>8. \A i \in DOMAIN commands : commands[i].status = "succeeded" => i \notin S
  BY DEF CanTransition
<1>9. CommandsGrow
  BY <1>6, <1>7, <1>8 DEF CommandsGrow
<1>. QED  BY <1>5, <1>6, <1>7, <1>9

LEMMA PendingExpire == \A s \in Pending : CanTransition(s, "expired")
BY DEF Pending, CanTransition

-----------------------------------------------------------------------------
(* Steps of a task, as seen by the others.                                 *)
OnlyTask(t) == \A u \in Task \ {t} : task'[u] = task[u]

LEMMA GotoStep ==
    ASSUME TypeOK, NEW t \in Task, NEW pc \in {"guard", "find", "version", "queue"}, Goto(t, pc)
    PROVE  /\ task' \in [Task -> TaskState] /\ OnlyTask(t)
           /\ task'[t].pc = pc /\ task'[t].hash = task[t].hash
           /\ task'[t].rollback = task[t].rollback /\ task'[t].row = task[t].row
<1>1. task[t] \in TaskState
  BY DEF TypeOK
<1>2. [task[t] EXCEPT !.pc = pc] \in TaskState
  BY <1>1 DEF TaskState
<1>3. task' = [task EXCEPT ![t] = [task[t] EXCEPT !.pc = pc]]
  BY DEF Goto
<1>4. task'[t] = [task[t] EXCEPT !.pc = pc]
  BY <1>3 DEF TypeOK
<1>. QED  BY <1>1, <1>2, <1>3, <1>4 DEF TypeOK, OnlyTask, TaskState

LEMMA IdleStates == IdleTask \in TaskState /\ IdleBeat \in BeatState
BY ConfigAssumption DEF IdleTask, IdleBeat, TaskState, BeatState, Hash

LEMMA DoneStep ==
    ASSUME TypeOK, NEW t \in Task, Done(t)
    PROVE  task' \in [Task -> TaskState] /\ OnlyTask(t) /\ task'[t].pc = "idle"
BY IdleStates DEF TypeOK, Done, OnlyTask, IdleTask

LEMMA StartChecksStep ==
    ASSUME TypeOK, NEW S, StartChecks(S)
    PROVE  /\ task' \in [Task -> TaskState]
           /\ \A u \in Task : task'[u] = task[u] \/ task'[u].pc = "count"
<1>1. [IdleTask EXCEPT !.pc = "count", !.rollback = TRUE] \in TaskState
  BY IdleStates DEF IdleTask, TaskState
<1>2. [IdleTask EXCEPT !.pc = "count", !.rollback = TRUE].pc = "count"
  BY DEF IdleTask
<1>. QED  BY <1>1, <1>2 DEF TypeOK, StartChecks

(* A task that does nothing stays lawful, and so does one that writes      *)
(* nothing next.                                                           *)
LEMMA TaskKept ==
    ASSUME TypeOK, VersionsGrow, NEW t \in Task, TaskLawful(t),
           task'[t] = task[t] \/ task'[t].pc \in {"idle", "count", "guard", "find"}
    PROVE  TaskLawful(t)'
BY DEF TaskLawful, VersionsGrow, AppliedRows

OnlyBeat(b) == \A c \in Beat \ {b} : beat'[c] = beat[c]

LEMMA BeatKept ==
    ASSUME TypeOK, VersionsGrow, CommandsGrow, NEW b \in Beat, BeatLawful(b),
           beat'[b] = beat[b] \/ beat'[b].pc \in {"idle", "find"}
    PROVE  BeatLawful(b)'
BY DEF BeatLawful, VersionsGrow, CommandsGrow

LEMMA NoChange ==
    /\ UNCHANGED versions => VersionsGrow
    /\ UNCHANGED commands => CommandsGrow
BY DEF VersionsGrow, CommandsGrow

(* What was once true of the rows stays true, when no version is new.      *)
LEMMA RowsKept ==
    ASSUME VersionsGrow, CommandsGrow, AppliedWasConfirmed, RollsBackToApplied,
           UNCHANGED versions
    PROVE  AppliedWasConfirmed' /\ RollsBackToApplied'
BY DEF CommandsGrow, AppliedWasConfirmed, RollsBackToApplied, AppliedRows

(* What a step has to show beyond the tasks and beats it leaves alone.     *)
LEMMA StepKeeps ==
    ASSUME IInv, TypeOK', VersionsGrow, CommandsGrow,
           AppliedWasConfirmed' /\ RollsBackToApplied',
           \A t \in Task : \/ task'[t] = task[t]
                          \/ task'[t].pc \in {"idle", "count", "guard", "find"}
                          \/ TaskLawful(t)',
           \A b \in Beat : \/ beat'[b] = beat[b]
                          \/ beat'[b].pc \in {"idle", "find"}
                          \/ BeatLawful(b)'
    PROVE  IInv'
BY TaskKept, BeatKept DEF IInv, TasksLawful, BeatsLawful

LEMMA RowsAreTasks == Request \subseteq Task /\ Row \subseteq Task
BY DEF Task

-----------------------------------------------------------------------------
(* Steps that only move a task on.                                         *)
LEMMA TaskOnlyStep ==
    ASSUME IInv, task' \in [Task -> TaskState], UNCHANGED <<tables, beat, reported>>,
           calm' \in BOOLEAN, HistoryTyped',
           \A t \in Task : \/ task'[t] = task[t]
                          \/ task'[t].pc \in {"idle", "count", "guard", "find"}
                          \/ TaskLawful(t)'
    PROVE  IInv'
<1>1. TypeOK'
  BY DEF IInv, TypeOK, tables, HistoryTyped
<1>2. VersionsGrow /\ CommandsGrow
  BY NoChange DEF tables
<1>3. AppliedWasConfirmed' /\ RollsBackToApplied'
  BY <1>2, RowsKept DEF IInv, tables
<1>. QED  BY <1>1, <1>2, <1>3, StepKeeps

LEMMA SaveStep ==
    ASSUME IInv, NEW r \in Request, NEW c \in Config, SaveAndQueueApply(r, c)
    PROVE  IInv'
<1>1. r \in Task
  BY RowsAreTasks
<1>3. [pc |-> "upsert", hash |-> c, rollback |-> FALSE, row |-> 0] \in TaskState
  BY ConfigAssumption DEF TaskState, Hash
<1>4. task' = [task EXCEPT ![r] = [pc |-> "upsert", hash |-> c, rollback |-> FALSE, row |-> 0]]
  BY DEF SaveAndQueueApply
<1>5. task' \in [Task -> TaskState]
  BY <1>3, <1>4 DEF IInv, TypeOK
<1>6. task'[r] = [pc |-> "upsert", hash |-> c, rollback |-> FALSE, row |-> 0] /\ OnlyTask(r)
  BY <1>1, <1>4 DEF IInv, TypeOK, OnlyTask
<1>7. TaskLawful(r)'
  BY <1>6 DEF TaskLawful
<1>8. HistoryTyped'
  BY DEF SaveAndQueueApply, IInv, TypeOK, missed, HistoryTyped
<1>. QED  BY <1>5, <1>6, <1>7, <1>8, TaskOnlyStep DEF SaveAndQueueApply, OnlyTask, IInv, TypeOK

LEMMA RollbackStep ==
    ASSUME IInv, NEW r \in Request, RollbackToLastApplied(r)
    PROVE  IInv'
<1>1. r \in Task
  BY RowsAreTasks
<1>2. [IdleTask EXCEPT !.pc = "guard", !.rollback = TRUE] \in TaskState
  BY IdleStates DEF IdleTask, TaskState
<1>3. [IdleTask EXCEPT !.pc = "guard", !.rollback = TRUE].pc = "guard"
  BY DEF IdleTask
<1>4. task' \in [Task -> TaskState] /\ task'[r].pc = "guard" /\ OnlyTask(r)
  BY <1>1, <1>2, <1>3 DEF RollbackToLastApplied, IInv, TypeOK, OnlyTask
<1>. QED  BY <1>4, TaskOnlyStep, HistoryKept DEF RollbackToLastApplied, OnlyTask, IInv, TypeOK

LEMMA CheckStep ==
    ASSUME IInv, NEW i \in Row, CheckAutoRollback(i)
    PROVE  IInv'
<1>1. i \in Task
  BY RowsAreTasks
<1>2. Goto(i, "guard") \/ Done(i)
  BY DEF CheckAutoRollback
<1>3. task' \in [Task -> TaskState] /\ OnlyTask(i) /\ task'[i].pc \in {"guard", "idle"}
  BY <1>1, <1>2, GotoStep, DoneStep DEF IInv
<1>. QED  BY <1>3, TaskOnlyStep, HistoryKept DEF CheckAutoRollback, OnlyTask, IInv, TypeOK

LEMMA GuardStep ==
    ASSUME IInv, NEW t \in Task, HasPendingConfigApply(t)
    PROVE  IInv'
<1>1. Goto(t, "find") \/ Done(t)
  BY DEF HasPendingConfigApply
<1>2. task' \in [Task -> TaskState] /\ OnlyTask(t) /\ task'[t].pc \in {"find", "idle"}
  BY <1>1, GotoStep, DoneStep DEF IInv
<1>. QED  BY <1>2, TaskOnlyStep, HistoryKept DEF HasPendingConfigApply, OnlyTask, IInv, TypeOK

(* The hash found is that of an applied version, which is what a rollback  *)
(* needs when it writes.                                                   *)
LEMMA FindStep ==
    ASSUME IInv, NEW t \in Task, FindLastApplied(t)
    PROVE  IInv'
<1>1. CASE Done(t)
  <2>1. task' \in [Task -> TaskState] /\ OnlyTask(t) /\ task'[t].pc = "idle"
    BY <1>1, DoneStep DEF IInv
  <2>. QED  BY <2>1, TaskOnlyStep, HistoryKept DEF FindLastApplied, OnlyTask, IInv, TypeOK
<1>2. ASSUME NEW v \in AppliedRows,
             task' = [task EXCEPT ![t].pc = "upsert", ![t].hash = versions[v].hash]
      PROVE  IInv'
  <2>0. v \in DOMAIN versions /\ versions[v].hash \in Config
    BY <1>2, VersionRows DEF AppliedRows, VersionRow, IInv
  <2>1. task[t] \in TaskState
    BY DEF IInv, TypeOK
  <2>2. [task[t] EXCEPT !.pc = "upsert", !.hash = versions[v].hash] \in TaskState
    BY <2>0, <2>1 DEF TaskState, Hash
  <2>3. task' = [task EXCEPT ![t] = [task[t] EXCEPT !.pc = "upsert", !.hash = versions[v].hash]]
    BY <1>2
  <2>4. task'[t] = [task[t] EXCEPT !.pc = "upsert", !.hash = versions[v].hash]
    BY <2>3 DEF IInv, TypeOK
  <2>5. task' \in [Task -> TaskState] /\ OnlyTask(t)
    BY <2>2, <2>3 DEF IInv, TypeOK, OnlyTask
  <2>6. task'[t].pc = "upsert" /\ task'[t].hash = versions[v].hash
    BY <2>1, <2>4 DEF TaskState
  <2>7. versions' = versions
    BY DEF FindLastApplied, tables
  <2>8. TaskLawful(t)'
    BY <2>0, <2>6, <2>7, <1>2 DEF TaskLawful, AppliedRows
  <2>. QED  BY <2>5, <2>8, TaskOnlyStep, HistoryKept DEF FindLastApplied, OnlyTask, IInv, TypeOK
<1>. QED  BY <1>1, <1>2 DEF FindLastApplied

-----------------------------------------------------------------------------
(* The writes of a save or a rollback.                                     *)
LEMMA UpsertStep ==
    ASSUME IInv, NEW t \in Task, UpsertCurrent(t)
    PROVE  IInv'
<1>1. Goto(t, "version") /\ task[t].pc = "upsert"
  BY DEF UpsertCurrent, At
<1>2. /\ task' \in [Task -> TaskState] /\ OnlyTask(t)
      /\ task'[t].pc = "version" /\ task'[t].hash = task[t].hash
      /\ task'[t].rollback = task[t].rollback
  BY <1>1, GotoStep DEF IInv
<1>3. TaskLawful(t)
  BY DEF IInv, TasksLawful
<1>4. UNCHANGED <<versions, commands, beat, reported, calm, missed, used>>
  BY DEF UpsertCurrent
<1>5. current' \in Hash
  BY <1>1, <1>3 DEF UpsertCurrent, TaskLawful, Hash
<1>6. TypeOK'
  BY <1>2, <1>4, <1>5 DEF IInv, TypeOK, missed, used
<1>7. TaskLawful(t)'
  BY <1>1, <1>2, <1>3, <1>4 DEF TaskLawful, AppliedRows
<1>8. VersionsGrow /\ CommandsGrow
  BY <1>4, NoChange
<1>9. AppliedWasConfirmed' /\ RollsBackToApplied'
  BY <1>4, <1>8, RowsKept DEF IInv
<1>. QED  BY <1>2, <1>4, <1>6, <1>7, <1>8, <1>9, StepKeeps DEF OnlyTask

LEMMA CreateStep ==
    ASSUME IInv, NEW t \in Task, CreateVersion(t)
    PROVE  IInv'
<1> DEFINE n == Len(versions) + 1
<1> DEFINE row == [hash |-> task[t].hash, applied |-> FALSE, rollback |-> task[t].rollback]
<1>1. /\ task[t].pc = "version" /\ Len(versions) < MaxRows
      /\ task' = [task EXCEPT ![t].pc = "sweep", ![t].row = n]
      /\ versions' = Append(versions, row)
      /\ UNCHANGED <<current, commands, beat, reported, calm, missed, used>>
  BY DEF CreateVersion, At
<1>2. TaskLawful(t) /\ task[t] \in TaskState
  BY DEF IInv, TasksLawful, TypeOK
<1>3. row \in VersionRow
  BY <1>1, <1>2 DEF TaskLawful, TaskState, VersionRow
<1>4. versions \in Seq(VersionRow)
  BY DEF IInv, TypeOK
<1>5. /\ versions' \in Seq(VersionRow) /\ Len(versions') = n
      /\ \A v \in 1..Len(versions) : versions'[v] = versions[v]
      /\ versions'[n] = row
  BY <1>1, <1>3, <1>4, AppendProperties
<1>6. n \in Row /\ n \in 0..MaxRows /\ n <= MaxRows
  BY <1>1, <1>4, ConfigAssumption DEF Row
<1>7. [task[t] EXCEPT !.pc = "sweep", !.row = n] \in TaskState
  <2>. HIDE DEF n
  <2>. QED  BY <1>2, <1>6 DEF TaskState
<1>8. task' = [task EXCEPT ![t] = [task[t] EXCEPT !.pc = "sweep", !.row = n]]
  BY <1>1
<1>9. task' \in [Task -> TaskState] /\ OnlyTask(t)
  BY <1>7, <1>8 DEF IInv, TypeOK, OnlyTask
<1>10. task'[t] = [task[t] EXCEPT !.pc = "sweep", !.row = n]
  BY <1>8 DEF IInv, TypeOK
<1>11. task'[t].pc = "sweep" /\ task'[t].row = n /\ task'[t].hash = task[t].hash
  <2>. HIDE DEF n
  <2>. QED  BY <1>2, <1>10 DEF TaskState
<1>12. TaskLawful(t)'
  BY <1>1, <1>2, <1>6, <1>11 DEF TaskLawful
<1>13. TypeOK'
  BY <1>1, <1>5, <1>6, <1>9 DEF IInv, TypeOK, missed, used
<1>14. DOMAIN versions = 1..Len(versions) /\ DOMAIN versions' = 1..n
  BY <1>4, <1>5
<1>15. DOMAIN versions' = DOMAIN versions \cup {n}
  BY <1>4, <1>14
<1>16. VersionsGrow
  BY <1>5, <1>14, <1>15 DEF VersionsGrow
<1>17. CommandsGrow
  BY <1>1, NoChange
<1>18. AppliedRows' = AppliedRows
  <2>1. \A v \in DOMAIN versions : v # n /\ versions'[v] = versions[v]
    BY <1>4, <1>5, <1>14
  <2>2. ~versions'[n].applied
    BY <1>5
  <2>. QED  BY <1>15, <2>1, <2>2 DEF AppliedRows
<1>19. AppliedWasConfirmed'
  <2>1. AppliedWasConfirmed /\ \A v \in AppliedRows : versions'[v].hash = versions[v].hash
    BY <1>16 DEF IInv, VersionsGrow, AppliedRows
  <2>2. commands' = commands
    BY <1>1
  <2>3. ASSUME NEW v \in AppliedRows'
        PROVE  \E i \in DOMAIN commands' : /\ commands'[i].hash = versions'[v].hash
                                           /\ commands'[i].status = "succeeded"
    BY <1>18, <2>1, <2>2, <2>3 DEF AppliedWasConfirmed
  <2>. QED  BY <2>3 DEF AppliedWasConfirmed
<1>20. RollsBackToApplied'
  <2>1. RollsBackToApplied
    BY DEF IInv
  <2>2. \A u \in AppliedRows : u \in DOMAIN versions /\ versions'[u].hash = versions[u].hash
    BY <1>16 DEF VersionsGrow, AppliedRows
  <2>3. ASSUME NEW v \in DOMAIN versions, versions'[v].rollback
        PROVE  \E u \in AppliedRows' : u < v /\ versions'[u].hash = versions'[v].hash
    <3>1. versions[v].rollback /\ versions'[v].hash = versions[v].hash
      BY <1>16, <2>3 DEF VersionsGrow
    <3>. QED  BY <1>18, <2>1, <2>2, <3>1 DEF RollsBackToApplied
  <2>4. ASSUME versions'[n].rollback
        PROVE  \E u \in AppliedRows' : u < n /\ versions'[u].hash = versions'[n].hash
    <3>1. versions'[n].hash = task[t].hash /\ task[t].rollback
      BY <1>5, <2>4
    <3>2. PICK u \in AppliedRows : versions[u].hash = task[t].hash
      BY <1>1, <1>2, <3>1 DEF TaskLawful
    <3>3. u < n
      BY <1>4, <1>14, <2>2
    <3>. QED  BY <1>18, <2>2, <3>1, <3>2, <3>3
  <2>. QED  BY <1>15, <2>3, <2>4 DEF RollsBackToApplied
<1>. QED  BY <1>1, <1>9, <1>12, <1>13, <1>16, <1>17, <1>19, <1>20, StepKeeps DEF OnlyTask

LEMMA QueueStep ==
    ASSUME IInv, NEW t \in Task, QueueConfigApply(t)
    PROVE  IInv'
<1> DEFINE row == [hash |-> task[t].hash, status |-> "queued", version |-> task[t].row]
<1>1. /\ task[t].pc = "queue" /\ Done(t) /\ Len(commands) < MaxRows
      /\ commands' = Append(commands, row)
      /\ UNCHANGED <<current, versions, beat, reported, calm, missed, used>>
  BY DEF QueueConfigApply, At
<1>2. task' \in [Task -> TaskState] /\ OnlyTask(t) /\ task'[t].pc = "idle"
  BY <1>1, DoneStep DEF IInv
<1>3. TaskLawful(t)
  BY DEF IInv, TasksLawful
<1>4. row \in CommandRow
  BY <1>1, <1>3 DEF TaskLawful, CommandRow, Statuses
<1>5. commands \in Seq(CommandRow)
  BY DEF IInv, TypeOK
<1>6. /\ commands' \in Seq(CommandRow) /\ Len(commands') = Len(commands) + 1
      /\ \A i \in 1..Len(commands) : commands'[i] = commands[i]
  BY <1>1, <1>4, <1>5, AppendProperties
<1>7. Len(commands') <= MaxRows
  BY <1>1, <1>5, <1>6, ConfigAssumption
<1>8. TypeOK'
  BY <1>1, <1>2, <1>6, <1>7 DEF IInv, TypeOK, missed, used
<1>9. \A i \in DOMAIN commands : i \in DOMAIN commands' /\ commands'[i] = commands[i]
  BY <1>5, <1>6
<1>10. CommandsGrow
  BY <1>9 DEF CommandsGrow
<1>11. VersionsGrow
  BY <1>1, NoChange
<1>12. AppliedWasConfirmed' /\ RollsBackToApplied'
  BY <1>1, <1>10, <1>11, RowsKept DEF IInv
<1>. QED  BY <1>1, <1>2, <1>8, <1>10, <1>11, <1>12, StepKeeps DEF OnlyTask

-----------------------------------------------------------------------------
(* What happens to commands.                                               *)
LEMMA MoveStep ==
    ASSUME IInv, NEW status \in Statuses, NEW S,
           \A i \in S \cap DOMAIN commands : CanTransition(commands[i].status, status),
           commands' = Moved(S, status),
           task' \in [Task -> TaskState],
           \A t \in Task : \/ task'[t] = task[t]
                          \/ task'[t].pc \in {"idle", "count", "guard", "find"}
                          \/ TaskLawful(t)',
           UNCHANGED <<current, versions, beat, reported>>, calm' \in BOOLEAN, HistoryTyped'
    PROVE  IInv'
<1>1. /\ commands' \in Seq(CommandRow) /\ Len(commands') = Len(commands) /\ CommandsGrow
  BY MovedRows DEF IInv
<1>2. TypeOK'
  BY <1>1 DEF IInv, TypeOK, HistoryTyped
<1>3. VersionsGrow
  BY NoChange
<1>4. AppliedWasConfirmed' /\ RollsBackToApplied'
  BY <1>1, <1>3, RowsKept DEF IInv
<1>. QED  BY <1>1, <1>2, <1>3, <1>4, StepKeeps

LEMMA PendingRowsExpire ==
    ASSUME NEW S \in SUBSET PendingRows
    PROVE  \A i \in S \cap DOMAIN commands : CanTransition(commands[i].status, "expired")
BY PendingExpire DEF PendingRows

LEMMA QueueExpiresStep ==
    ASSUME IInv, NEW t \in Task, QueueExpires(t)
    PROVE  IInv'
<1>1. /\ task[t].pc = "sweep" /\ Goto(t, "queue")
      /\ UNCHANGED <<current, versions, beat, reported, calm, missed, used>>
  BY DEF QueueExpires, At
<1>2. PICK S \in SUBSET PendingRows : commands' = Moved(S, "expired")
  BY DEF QueueExpires
<1>3. /\ task' \in [Task -> TaskState] /\ OnlyTask(t)
      /\ task'[t].pc = "queue" /\ task'[t].hash = task[t].hash /\ task'[t].row = task[t].row
  BY <1>1, GotoStep DEF IInv
<1>4. TaskLawful(t)
  BY DEF IInv, TasksLawful
<1>5. TaskLawful(t)'
  BY <1>1, <1>3, <1>4 DEF TaskLawful
<1>6. calm' \in BOOLEAN /\ "expired" \in Statuses
  BY <1>1 DEF IInv, TypeOK, Statuses
<1>. QED  BY <1>1, <1>2, <1>3, <1>5, <1>6, PendingRowsExpire, MoveStep, HistoryKept DEF OnlyTask, IInv

LEMMA ProgressStep ==
    ASSUME IInv, NEW i \in Row, NEW status \in Statuses, Progress(i, status)
    PROVE  IInv'
BY MoveStep, HistoryKept DEF Progress, IInv, TypeOK

LEMMA CancelStep ==
    ASSUME IInv, NEW i \in Row, Cancel(i)
    PROVE  IInv'
<1>1. CanTransition(commands[i].status, "cancelled") /\ "cancelled" \in Statuses
  BY DEF Cancel, CanTransition, Statuses
<1>. QED  BY <1>1, MoveStep, HistoryKept DEF Cancel, IInv, TypeOK

LEMMA FailedStep ==
    ASSUME IInv, NEW i \in Row, ResultFailed(i)
    PROVE  IInv'
<1>1. /\ task' \in [Task -> TaskState]
      /\ \A t \in Task : task'[t] = task[t] \/ task'[t].pc = "count"
  BY StartChecksStep DEF ResultFailed, IInv
<1>2. "failed" \in Statuses /\ HistoryTyped'
  BY DEF Statuses, ResultFailed, HistoryTyped, used, IInv, TypeOK
<1>. QED  BY <1>1, <1>2, MoveStep DEF ResultFailed

LEMMA RejectedStep ==
    ASSUME IInv, NEW i \in Row, RejectedAck(i)
    PROVE  IInv'
<1>1. CanTransition(commands[i].status, "failed") /\ "failed" \in Statuses
  BY DEF RejectedAck, CanTransition, Statuses
<1>2. HistoryTyped'
  BY DEF RejectedAck, HistoryTyped, used, IInv, TypeOK
<1>. QED  BY <1>1, <1>2, MoveStep DEF RejectedAck, IInv, TypeOK

LEMMA SweepStep ==
    ASSUME IInv, NEW S \in SUBSET PendingRows, ExpirySweep(S)
    PROVE  IInv'
<1>1. /\ task' \in [Task -> TaskState]
      /\ \A t \in Task : task'[t] = task[t] \/ task'[t].pc = "count"
  BY StartChecksStep DEF ExpirySweep, IInv
<1>2. "expired" \in Statuses /\ HistoryTyped'
  BY DEF Statuses, ExpirySweep, HistoryTyped, used, IInv, TypeOK
<1>. QED  BY <1>1, <1>2, PendingRowsExpire, MoveStep DEF ExpirySweep

LEMMA RestStep ==
    ASSUME IInv, NEW S \in SUBSET PendingRows, RestExpires(S)
    PROVE  IInv'
<1>1. "expired" \in Statuses /\ HistoryTyped'
  BY DEF Statuses, RestExpires, HistoryTyped, used, IInv, TypeOK
<1>. QED  BY <1>1, PendingRowsExpire, MoveStep DEF RestExpires, IInv, TypeOK

-----------------------------------------------------------------------------
(* The sensor and its heartbeats.                                          *)
LEMMA BeatOnlyStep ==
    ASSUME IInv, beat' \in [Beat -> BeatState], UNCHANGED <<tables, task, calm, missed, used>>,
           reported' \in Hash,
           \A b \in Beat : \/ beat'[b] = beat[b]
                          \/ beat'[b].pc \in {"idle", "find"}
                          \/ BeatLawful(b)'
    PROVE  IInv'
<1>1. TypeOK'
  BY DEF IInv, TypeOK, tables, missed, used
<1>2. VersionsGrow /\ CommandsGrow
  BY NoChange DEF tables
<1>3. AppliedWasConfirmed' /\ RollsBackToApplied'
  BY <1>2, RowsKept DEF IInv, tables
<1>. QED  BY <1>1, <1>2, <1>3, StepKeeps

LEMMA AppliesStep == IInv /\ SensorApplies => IInv'
BY BeatOnlyStep DEF SensorApplies, IInv, TypeOK, tables

LEMMA HeartbeatStep ==
    ASSUME IInv, NEW b \in Beat, Heartbeat(b)
    PROVE  IInv'
<1>1. [pc |-> "find", hash |-> reported, row |-> 0] \in BeatState
  BY ConfigAssumption DEF IInv, TypeOK, BeatState
<1>2. beat' \in [Beat -> BeatState]
  BY <1>1 DEF Heartbeat, IInv, TypeOK
<1>3. \A c \in Beat : beat'[c] = beat[c] \/ beat'[c].pc = "find"
  BY DEF Heartbeat, IInv, TypeOK
<1>4. reported' \in Hash /\ UNCHANGED <<tables, task, calm, missed, used>>
  BY DEF Heartbeat, IInv, TypeOK
<1>. QED  BY <1>2, <1>3, <1>4, BeatOnlyStep

(* A heartbeat's record, moved on to another step, and another row.        *)
LEMMA BeatMoves ==
    ASSUME TypeOK, NEW b \in Beat, NEW pc \in {"result", "version", "applied"}, NEW row \in 0..MaxRows,
           beat' = [beat EXCEPT ![b] = [beat[b] EXCEPT !.pc = pc, !.row = row]]
    PROVE  /\ beat' \in [Beat -> BeatState] /\ OnlyBeat(b)
           /\ beat'[b].pc = pc /\ beat'[b].row = row /\ beat'[b].hash = beat[b].hash
<1>1. beat[b] \in BeatState
  BY DEF TypeOK
<1>2. [beat[b] EXCEPT !.pc = pc, !.row = row] \in BeatState
  BY <1>1 DEF BeatState
<1>3. beat'[b] = [beat[b] EXCEPT !.pc = pc, !.row = row]
  BY DEF TypeOK
<1>. QED  BY <1>1, <1>2, <1>3 DEF TypeOK, OnlyBeat, BeatState

LEMMA BeatEnds ==
    ASSUME TypeOK, NEW b \in Beat, beat' = [beat EXCEPT ![b] = IdleBeat]
    PROVE  beat' \in [Beat -> BeatState] /\ OnlyBeat(b) /\ beat'[b].pc = "idle"
BY IdleStates DEF TypeOK, OnlyBeat, IdleBeat

LEMMA FindRunningStep ==
    ASSUME IInv, NEW b \in Beat, FindRunningConfigApply(b)
    PROVE  IInv'
<1>0. reported' \in Hash /\ UNCHANGED <<tables, task, reported, calm, missed, used>>
  BY DEF FindRunningConfigApply, IInv, TypeOK
<1>1. CASE beat' = [beat EXCEPT ![b] = IdleBeat]
  BY <1>0, <1>1, BeatEnds, BeatOnlyStep DEF IInv, OnlyBeat
<1>2. ASSUME NEW i \in RunningRows, commands[i].hash = beat[b].hash,
             beat' = [beat EXCEPT ![b].pc = "result", ![b].row = i]
      PROVE  IInv'
  <2>1. i \in DOMAIN commands /\ i \in 0..MaxRows
    BY <1>2, CommandRows, ConfigAssumption DEF RunningRows, IInv, Row
  <2>2. beat' = [beat EXCEPT ![b] = [beat[b] EXCEPT !.pc = "result", !.row = i]]
    BY <1>2
  <2>3. /\ beat' \in [Beat -> BeatState] /\ OnlyBeat(b)
        /\ beat'[b].pc = "result" /\ beat'[b].row = i /\ beat'[b].hash = beat[b].hash
    BY <2>1, <2>2, BeatMoves DEF IInv
  <2>4. commands' = commands
    BY <1>0 DEF tables
  <2>5. BeatLawful(b)'
    BY <1>2, <2>1, <2>3, <2>4 DEF BeatLawful
  <2>. QED  BY <1>0, <2>3, <2>5, BeatOnlyStep DEF OnlyBeat
<1>. QED  BY <1>1, <1>2 DEF FindRunningConfigApply

LEMMA MarkSucceededStep ==
    ASSUME IInv, NEW b \in Beat, MarkSucceeded(b)
    PROVE  IInv'
<1>0. beat[b].pc = "result" /\ UNCHANGED <<current, versions, task, reported, missed, used>>
  BY DEF MarkSucceeded
<1>1. CASE beat' = [beat EXCEPT ![b] = IdleBeat] /\ UNCHANGED <<commands, calm>>
  BY <1>0, <1>1, BeatEnds, BeatOnlyStep DEF IInv, OnlyBeat, tables, TypeOK
<1>2. CASE /\ CanTransition(commands[beat[b].row].status, "succeeded")
           /\ commands' = Moved({beat[b].row}, "succeeded")
           /\ beat' = [beat EXCEPT ![b].pc = "version"]
           /\ calm' = FALSE
  <2>1. BeatLawful(b) /\ beat[b] \in BeatState
    BY DEF IInv, BeatsLawful, TypeOK
  <2>2. PICK w \in DOMAIN commands : w = beat[b].row /\ commands[w].hash = beat[b].hash
    BY <1>0, <2>1 DEF BeatLawful
  <2>3. /\ commands' = Moved({w}, "succeeded") /\ "succeeded" \in Statuses
        /\ \A i \in {w} \cap DOMAIN commands : CanTransition(commands[i].status, "succeeded")
    BY <1>2, <2>2 DEF Statuses
  <2>4. /\ commands' \in Seq(CommandRow) /\ Len(commands') = Len(commands)
        /\ DOMAIN commands' = DOMAIN commands /\ CommandsGrow
        /\ \A i \in {w} \cap DOMAIN commands : commands'[i].status = "succeeded"
    BY <2>3, MovedRows DEF IInv
  <2>5. [beat[b] EXCEPT !.pc = "version"] \in BeatState
    BY <2>1 DEF BeatState
  <2>6. beat' = [beat EXCEPT ![b] = [beat[b] EXCEPT !.pc = "version"]]
    BY <1>2
  <2>7. beat' \in [Beat -> BeatState] /\ OnlyBeat(b)
    BY <2>5, <2>6 DEF IInv, TypeOK, OnlyBeat
  <2>8. beat'[b] = [beat[b] EXCEPT !.pc = "version"]
    BY <2>6 DEF IInv, TypeOK
  <2>9. beat'[b].pc = "version" /\ beat'[b].hash = beat[b].hash
    BY <2>1, <2>8 DEF BeatState
  <2>10. commands'[w].hash = beat'[b].hash
    BY <2>2, <2>4, <2>9 DEF CommandsGrow
  <2>11. BeatLawful(b)'
    BY <2>2, <2>4, <2>9, <2>10 DEF BeatLawful
  <2>12. TypeOK'
    BY <1>0, <1>2, <2>4, <2>7 DEF IInv, TypeOK, missed, used
  <2>13. VersionsGrow
    BY <1>0, NoChange
  <2>14. AppliedWasConfirmed' /\ RollsBackToApplied'
    BY <1>0, <2>4, <2>13, RowsKept DEF IInv
  <2>. QED  BY <1>0, <2>4, <2>7, <2>11, <2>12, <2>13, <2>14, StepKeeps DEF OnlyBeat
<1>. QED  BY <1>1, <1>2 DEF MarkSucceeded

LEMMA FindByHashStep ==
    ASSUME IInv, NEW b \in Beat, FindByHash(b)
    PROVE  IInv'
<1>1. PICK v \in {u \in DOMAIN versions : versions[u].hash = beat[b].hash} :
           beat' = [beat EXCEPT ![b].pc = "applied", ![b].row = v]
  BY DEF FindByHash
<1>2. /\ beat[b].pc = "version" /\ reported' \in Hash
      /\ UNCHANGED <<tables, task, reported, calm, missed, used>>
  BY DEF FindByHash, IInv, TypeOK
<1>3. v \in DOMAIN versions /\ versions[v].hash = beat[b].hash
  BY <1>1
<1>4. v \in 0..MaxRows
  BY <1>3, VersionRows, ConfigAssumption DEF IInv, Row
<1>5. beat' = [beat EXCEPT ![b] = [beat[b] EXCEPT !.pc = "applied", !.row = v]]
  BY <1>1
<1>6. /\ beat' \in [Beat -> BeatState] /\ OnlyBeat(b)
      /\ beat'[b].pc = "applied" /\ beat'[b].row = v /\ beat'[b].hash = beat[b].hash
  BY <1>4, <1>5, BeatMoves DEF IInv
<1>7. BeatLawful(b) /\ commands' = commands /\ versions' = versions
  BY <1>2 DEF IInv, BeatsLawful, tables
<1>8. BeatLawful(b)'
  BY <1>2, <1>3, <1>6, <1>7 DEF BeatLawful
<1>. QED  BY <1>2, <1>6, <1>8, BeatOnlyStep DEF OnlyBeat

(* The version marked is one for a hash that a command was confirmed with. *)
LEMMA MarkAppliedStep ==
    ASSUME IInv, NEW b \in Beat, MarkApplied(b)
    PROVE  IInv'
<1>1. /\ beat[b].pc = "applied"
      /\ versions' = [versions EXCEPT ![beat[b].row].applied = TRUE]
      /\ beat' = [beat EXCEPT ![b] = IdleBeat] /\ calm' = FALSE
      /\ UNCHANGED <<current, commands, task, reported, missed, used>>
  BY DEF MarkApplied
<1>2. BeatLawful(b)
  BY DEF IInv, BeatsLawful
<1>3. PICK w \in DOMAIN versions : w = beat[b].row /\ versions[w].hash = beat[b].hash
  BY <1>1, <1>2 DEF BeatLawful
<1>4. versions \in Seq(VersionRow) /\ versions[w] \in VersionRow
  BY <1>3, VersionRows DEF IInv, TypeOK
<1>5. [versions[w] EXCEPT !.applied = TRUE] \in VersionRow
  BY <1>4 DEF VersionRow
<1>6. versions' = [versions EXCEPT ![w] = [versions[w] EXCEPT !.applied = TRUE]]
  BY <1>1, <1>3
<1>7. versions' \in Seq(VersionRow) /\ Len(versions') = Len(versions)
  BY <1>3, <1>4, <1>5, <1>6, ExceptSeq
<1>8. /\ DOMAIN versions' = DOMAIN versions
      /\ \A v \in DOMAIN versions \ {w} : versions'[v] = versions[v]
      /\ versions'[w] = [versions[w] EXCEPT !.applied = TRUE]
  BY <1>3, <1>6
<1>9. /\ versions'[w].hash = versions[w].hash
      /\ versions'[w].rollback = versions[w].rollback
      /\ versions'[w].applied
  BY <1>4, <1>8 DEF VersionRow
<1>10. VersionsGrow
  BY <1>8, <1>9 DEF VersionsGrow
<1>11. CommandsGrow /\ commands' = commands
  BY <1>1, NoChange
<1>12. beat' \in [Beat -> BeatState] /\ OnlyBeat(b) /\ beat'[b].pc = "idle"
  BY <1>1, BeatEnds DEF IInv
<1>13. TypeOK'
  BY <1>1, <1>7, <1>12 DEF IInv, TypeOK, missed, used
<1>14. AppliedWasConfirmed'
  <2>1. ASSUME NEW v \in AppliedRows'
        PROVE  \E i \in DOMAIN commands : /\ commands[i].hash = versions'[v].hash
                                          /\ commands[i].status = "succeeded"
    <3>1. CASE v = w
      BY <1>1, <1>2, <1>3, <1>9, <3>1 DEF BeatLawful
    <3>2. CASE v # w
      <4>1. v \in AppliedRows /\ versions'[v] = versions[v]
        BY <1>8, <2>1, <3>2 DEF AppliedRows
      <4>. QED  BY <4>1 DEF IInv, AppliedWasConfirmed
    <3>. QED  BY <3>1, <3>2
  <2>. QED  BY <1>11, <2>1 DEF AppliedWasConfirmed
<1>15. RollsBackToApplied'
  <2>1. ASSUME NEW v \in DOMAIN versions, versions'[v].rollback
        PROVE  \E u \in AppliedRows' : u < v /\ versions'[u].hash = versions'[v].hash
    <3>1. versions[v].rollback /\ versions'[v].hash = versions[v].hash
      BY <1>10, <2>1 DEF VersionsGrow
    <3>2. PICK u \in AppliedRows : u < v /\ versions[u].hash = versions[v].hash
      BY <3>1 DEF IInv, RollsBackToApplied
    <3>3. u \in AppliedRows' /\ versions'[u].hash = versions[u].hash
      BY <1>10 DEF VersionsGrow, AppliedRows
    <3>. QED  BY <3>1, <3>2, <3>3
  <2>. QED  BY <1>8, <2>1 DEF RollsBackToApplied
<1>. QED  BY <1>1, <1>10, <1>11, <1>12, <1>13, <1>14, <1>15, StepKeeps DEF OnlyBeat

-----------------------------------------------------------------------------
(* Faults: what is abandoned was lawful, and idleness is.                  *)
LEMMA AbandonStep ==
    ASSUME TypeOK, NEW B \in SUBSET Beat, Abandon(B)
    PROVE  /\ beat' \in [Beat -> BeatState] /\ cut' \subseteq Hash
           /\ \A b \in Beat : beat'[b] = IF b \in B THEN IdleBeat ELSE beat[b]
<1>1. \A b \in Beat : beat[b] \in BeatState /\ beat[b].hash \in Hash
  BY DEF TypeOK, BeatState
<1>. QED  BY <1>1, IdleStates DEF TypeOK, Abandon

LEMMA BeatFailsStep ==
    ASSUME IInv, NEW b \in Beat, BeatFails(b)
    PROVE  IInv'
<1>1. /\ beat' \in [Beat -> BeatState] /\ cut' \subseteq Hash
      /\ \A c \in Beat : beat'[c] = beat[c] \/ beat'[c].pc = "idle"
  BY AbandonStep DEF BeatFails, IdleBeat, IInv
<1>2. faults' \in Nat /\ UNCHANGED <<tables, task, reported, calm, overlooked, saves>>
  BY DEF BeatFails, Fault, IInv, TypeOK
<1>3. TypeOK'
  BY <1>1, <1>2 DEF IInv, TypeOK, tables
<1>4. VersionsGrow /\ CommandsGrow
  BY <1>2, NoChange DEF tables
<1>5. AppliedWasConfirmed' /\ RollsBackToApplied'
  BY <1>2, <1>4, RowsKept DEF IInv, tables
<1>. QED  BY <1>1, <1>2, <1>3, <1>4, <1>5, StepKeeps

LEMMA TaskFailsStep ==
    ASSUME IInv, NEW t \in Task, TaskFails(t)
    PROVE  IInv'
<1>1. task' \in [Task -> TaskState] /\ OnlyTask(t) /\ task'[t].pc = "idle"
  BY DoneStep DEF TaskFails, IInv
<1>2. calm' \in BOOLEAN /\ HistoryTyped'
  BY DEF TaskFails, Fault, HistoryTyped, IInv, TypeOK
<1>. QED  BY <1>1, <1>2, TaskOnlyStep DEF TaskFails, OnlyTask

LEMMA CrashStep == IInv /\ ServerCrash => IInv'
<1> SUFFICES ASSUME IInv, ServerCrash PROVE IInv'
  OBVIOUS
<1>0. /\ beat' \in [Beat -> BeatState] /\ cut' \subseteq Hash
      /\ \A b \in Beat : beat'[b] = IdleBeat
  BY AbandonStep DEF ServerCrash, IInv
<1>1. /\ task' \in [Task -> TaskState] /\ \A t \in Task : task'[t].pc = "idle"
      /\ \A b \in Beat : beat'[b].pc = "idle"
  BY <1>0, IdleStates DEF ServerCrash, IdleTask, IdleBeat
<1>2. faults' \in Nat /\ UNCHANGED <<current, versions, commands, reported, calm, saves>>
  BY DEF ServerCrash, Fault, IInv, TypeOK, tables
<1>6. overlooked' \in BOOLEAN
  BY DEF ServerCrash, IInv, TypeOK
<1>3. TypeOK'
  BY <1>0, <1>1, <1>2, <1>6 DEF IInv, TypeOK
<1>4. VersionsGrow /\ CommandsGrow
  BY <1>2, NoChange
<1>5. AppliedWasConfirmed' /\ RollsBackToApplied'
  BY <1>2, <1>4, RowsKept DEF IInv
<1>. QED  BY <1>1, <1>3, <1>4, <1>5, StepKeeps

LEMMA StutterStep == IInv /\ UNCHANGED vars => IInv'
BY TaskOnlyStep, HistoryKept DEF vars, IInv, TypeOK

LEMMA IInvInit == Init => IInv
<1> SUFFICES ASSUME Init PROVE IInv
  OBVIOUS
<1>1. versions = <<>> /\ commands = <<>> /\ versions \in Seq(VersionRow)
      /\ commands \in Seq(CommandRow) /\ Len(versions) = 0 /\ Len(commands) = 0
  BY DEF Init
<1>2. /\ task \in [Task -> TaskState] /\ \A t \in Task : task[t].pc = "idle"
      /\ beat \in [Beat -> BeatState] /\ \A b \in Beat : beat[b].pc = "idle"
  BY IdleStates DEF Init, IdleTask, IdleBeat
<1>0. /\ current \in Hash /\ reported \in Hash /\ calm \in BOOLEAN
      /\ overlooked \in BOOLEAN /\ cut \subseteq Hash /\ saves \in Nat /\ faults \in Nat
  BY DEF Init, Hash
<1>3. TypeOK
  BY <1>0, <1>1, <1>2, ConfigAssumption DEF TypeOK
<1>4. TasksLawful /\ BeatsLawful
  BY <1>2 DEF TasksLawful, TaskLawful, BeatsLawful, BeatLawful
<1>5. DOMAIN versions = {}
  BY <1>1
<1>6. AppliedWasConfirmed /\ RollsBackToApplied
  BY <1>5 DEF AppliedWasConfirmed, RollsBackToApplied, AppliedRows
<1>. QED  BY <1>3, <1>4, <1>6 DEF IInv

LEMMA IInvNext == IInv /\ [Next]_vars => IInv'
<1> SUFFICES ASSUME IInv, [Next]_vars PROVE IInv'
  OBVIOUS
<1>1. CASE UNCHANGED vars
  BY <1>1, StutterStep
<1>2. CASE \E r \in Request : RollbackToLastApplied(r) \/ \E c \in Config : SaveAndQueueApply(r, c)
  BY <1>2, SaveStep, RollbackStep
<1>3. CASE \E t \in Task : TaskStep(t)
  BY <1>3, GuardStep, FindStep, UpsertStep, CreateStep, QueueExpiresStep, QueueStep DEF TaskStep
<1>4. CASE \E i \in Row : \/ CheckAutoRollback(i)
                          \/ \E status \in Statuses : Progress(i, status)
                          \/ Cancel(i) \/ ResultFailed(i) \/ RejectedAck(i)
  BY <1>4, CheckStep, ProgressStep, CancelStep, FailedStep, RejectedStep
<1>5. CASE \E S \in SUBSET PendingRows : ExpirySweep(S) \/ RestExpires(S)
  BY <1>5, SweepStep, RestStep
<1>6. CASE \E b \in Beat : BeatStep(b) \/ BeatFails(b)
  BY <1>6, BeatFailsStep, HeartbeatStep, FindRunningStep, MarkSucceededStep, FindByHashStep, MarkAppliedStep
     DEF BeatStep
<1>7. CASE SensorApplies \/ ServerCrash \/ \E t \in Task : TaskFails(t)
  BY <1>7, AppliesStep, CrashStep, TaskFailsStep
<1>. QED  BY <1>1, <1>2, <1>3, <1>4, <1>5, <1>6, <1>7 DEF Next

LEMMA IInvHolds == Spec => []IInv
BY IInvInit, IInvNext, PTL DEF Spec

(* Every variable keeps its type.                                          *)
THEOREM ConfigTypeCorrect == Spec => []TypeOK
BY IInvHolds, PTL DEF IInv

(* Whatever the interleaving, and across restarts, what rollback falls     *)
(* back on is a configuration that a heartbeat has confirmed.              *)
THEOREM AppliedConfirmed == Spec => []AppliedWasConfirmed
BY IInvHolds, PTL DEF IInv

(* And a rollback, an operator's or the automatic one, goes nowhere else.  *)
THEOREM RollbackTarget == Spec => []RollsBackToApplied
BY IInvHolds, PTL DEF IInv

-----------------------------------------------------------------------------
(* A confirmed configuration is on its way to being marked applied until it *)
(* is: by the confirmation that made its command succeed.                   *)
Carries(b, h) == beat[b].pc \in {"version", "applied"} /\ beat[b].hash = h
IsApplied(h) == \E v \in AppliedRows : versions[v].hash = h

(* The same after a step. *)
CarriesNext(b, h) == beat'[b].pc \in {"version", "applied"} /\ beat'[b].hash = h
IsAppliedNext(h) == \E v \in AppliedRows' : versions'[v].hash = h

Carried ==
    \A i \in DOMAIN commands : commands[i].status = "succeeded" =>
        \/ commands[i].hash \in cut \/ IsApplied(commands[i].hash)
        \/ \E b \in Beat : Carries(b, commands[i].hash)

(* What a step has to show: which successes are new, and what becomes of   *)
(* the confirmations under way.                                            *)
LEMMA CarriedKept ==
    ASSUME Carried, VersionsGrow, cut \subseteq cut',
           \A i \in DOMAIN commands' : commands'[i].status = "succeeded" =>
               \/ /\ i \in DOMAIN commands /\ commands[i].status = "succeeded"
                  /\ commands'[i].hash = commands[i].hash
               \/ \E b \in Beat : CarriesNext(b, commands'[i].hash),
           \A b \in Beat : beat[b].pc \in {"version", "applied"} =>
               \/ CarriesNext(b, beat[b].hash) \/ IsAppliedNext(beat[b].hash)
               \/ beat[b].hash \in cut'
    PROVE  Carried'
<1> SUFFICES ASSUME NEW i \in DOMAIN commands', commands'[i].status = "succeeded"
             PROVE  \/ commands'[i].hash \in cut' \/ IsAppliedNext(commands'[i].hash)
                    \/ \E b \in Beat : CarriesNext(b, commands'[i].hash)
  BY DEF Carried, IsApplied, IsAppliedNext, Carries, CarriesNext
<1>1. CASE \E b \in Beat : CarriesNext(b, commands'[i].hash)
  BY <1>1
<1>2. CASE /\ i \in DOMAIN commands /\ commands[i].status = "succeeded"
           /\ commands'[i].hash = commands[i].hash
  <2>1. \/ commands[i].hash \in cut \/ IsApplied(commands[i].hash)
        \/ \E b \in Beat : Carries(b, commands[i].hash)
    BY <1>2 DEF Carried
  <2>2. CASE IsApplied(commands[i].hash)
    BY <1>2, <2>2 DEF VersionsGrow, IsApplied, IsAppliedNext, AppliedRows
  <2>3. CASE \E b \in Beat : Carries(b, commands[i].hash)
    BY <1>2, <2>3 DEF Carries
  <2>. QED  BY <1>2, <2>1, <2>2, <2>3
<1>. QED  BY <1>1, <1>2

LEMMA BeatsUnchanged ==
    ASSUME UNCHANGED beat
    PROVE  \A b \in Beat : beat[b].pc \in {"version", "applied"} => CarriesNext(b, beat[b].hash)
BY DEF CarriesNext

(* Steps that leave the confirmations and the versions alone, and that let *)
(* no command succeed.                                                     *)
LEMMA NoSuccess ==
    ASSUME Carried, UNCHANGED <<versions, beat, cut>>,
           UNCHANGED commands \/ \E S \in SUBSET Row, status \in Statuses \ {"succeeded"} :
                                    commands' = Moved(S, status)
    PROVE  Carried'
<1>1. VersionsGrow
  BY NoChange
<1>2. \A i \in DOMAIN commands' : commands'[i].status = "succeeded" =>
        /\ i \in DOMAIN commands /\ commands[i].status = "succeeded"
        /\ commands'[i].hash = commands[i].hash
  <2>1. CASE UNCHANGED commands
    BY <2>1
  <2>2. ASSUME NEW S \in SUBSET Row, NEW status \in Statuses \ {"succeeded"}, commands' = Moved(S, status)
        PROVE  \A i \in DOMAIN commands' : commands'[i].status = "succeeded" =>
                 /\ i \in DOMAIN commands /\ commands[i].status = "succeeded"
                 /\ commands'[i].hash = commands[i].hash
    <3>1. DOMAIN commands' = DOMAIN commands
      BY <2>2 DEF Moved
    <3>2. ASSUME NEW i \in DOMAIN commands, commands'[i].status = "succeeded"
          PROVE  commands'[i] = commands[i]
      <4>1. CASE i \in S
        <5>1. commands'[i] = [commands[i] EXCEPT !.status = status]
          BY <2>2, <4>1 DEF Moved
        <5>2. [commands[i] EXCEPT !.status = status].status \in {status, commands[i].status}
          OBVIOUS
        <5>. QED  BY <3>2, <5>1
      <4>2. CASE i \notin S
        BY <2>2, <4>2 DEF Moved
      <4>. QED  BY <4>1, <4>2
    <3>. QED  BY <3>1, <3>2
  <2>. QED  BY <2>1, <2>2
<1>. QED  BY <1>1, <1>2, BeatsUnchanged, CarriedKept

LEMMA CarriedNext == IInv /\ Carried /\ [Next]_vars => Carried'
<1> SUFFICES ASSUME IInv, Carried, [Next]_vars PROVE Carried'
  OBVIOUS
<1>1. ASSUME NEW t \in Task, CreateVersion(t) PROVE Carried'
  <2> DEFINE row == [hash |-> task[t].hash, applied |-> FALSE, rollback |-> task[t].rollback]
  <2>1. /\ versions' = Append(versions, row) /\ task[t].pc = "version"
        /\ UNCHANGED <<commands, beat, cut>>
    BY <1>1 DEF CreateVersion, At, missed, used
  <2>2. TaskLawful(t) /\ task[t] \in TaskState /\ versions \in Seq(VersionRow)
    BY DEF IInv, TasksLawful, TypeOK
  <2>3. row \in VersionRow
    BY <2>1, <2>2 DEF TaskLawful, TaskState, VersionRow
  <2>4. /\ versions' \in Seq(VersionRow) /\ Len(versions') = Len(versions) + 1
        /\ \A v \in 1..Len(versions) : versions'[v] = versions[v]
    BY <2>1, <2>2, <2>3, AppendProperties
  <2>5. \A v \in DOMAIN versions : v \in DOMAIN versions' /\ versions'[v] = versions[v]
    BY <2>2, <2>4
  <2>6. VersionsGrow
    BY <2>5 DEF VersionsGrow
  <2>. QED  BY <2>1, <2>6, BeatsUnchanged, CarriedKept
<1>2. ASSUME NEW t \in Task, QueueConfigApply(t) PROVE Carried'
  <2> DEFINE row == [hash |-> task[t].hash, status |-> "queued", version |-> task[t].row]
  <2>1. /\ commands' = Append(commands, row) /\ task[t].pc = "queue"
        /\ UNCHANGED <<versions, beat, cut>>
    BY <1>2 DEF QueueConfigApply, At, missed, used
  <2>2. TaskLawful(t) /\ commands \in Seq(CommandRow)
    BY DEF IInv, TasksLawful, TypeOK
  <2>3. row \in CommandRow /\ row.status # "succeeded"
    BY <2>1, <2>2 DEF TaskLawful, CommandRow, Statuses
  <2>4. /\ commands' \in Seq(CommandRow) /\ Len(commands') = Len(commands) + 1
        /\ \A i \in 1..Len(commands) : commands'[i] = commands[i]
        /\ commands'[Len(commands) + 1] = row
    BY <2>1, <2>2, <2>3, AppendProperties
  <2>5. \A i \in DOMAIN commands' : commands'[i].status = "succeeded" =>
          i \in DOMAIN commands /\ commands'[i] = commands[i]
    <3>1. DOMAIN commands' = (DOMAIN commands) \cup {Len(commands) + 1}
      BY <2>2, <2>4
    <3> HIDE DEF row
    <3>. QED  BY <2>2, <2>3, <2>4, <3>1
  <2>6. VersionsGrow
    BY <2>1, NoChange
  <2>. QED  BY <2>1, <2>5, <2>6, BeatsUnchanged, CarriedKept
<1>3. ASSUME NEW b \in Beat, BeatStep(b) PROVE Carried'
  <2>0. beat \in [Beat -> BeatState] /\ beat[b] \in BeatState /\ BeatLawful(b)
    BY DEF IInv, TypeOK, BeatsLawful
  <2>1. CASE Heartbeat(b) \/ FindRunningConfigApply(b)
    <3>1. /\ beat[b].pc \in {"idle", "find"} /\ \A c \in Beat \ {b} : beat'[c] = beat[c]
          /\ UNCHANGED <<versions, commands, cut>>
      BY <2>0, <2>1 DEF Heartbeat, FindRunningConfigApply, tables, missed, used
    <3>2. \A c \in Beat : beat[c].pc \in {"version", "applied"} => CarriesNext(c, beat[c].hash)
      BY <3>1 DEF CarriesNext
    <3>. QED  BY <3>1, <3>2, NoChange, CarriedKept
  <2>2. CASE MarkSucceeded(b)
    <3>1. /\ beat[b].pc = "result" /\ \A c \in Beat \ {b} : beat'[c] = beat[c]
          /\ UNCHANGED <<versions, cut>>
      BY <2>0, <2>2 DEF MarkSucceeded, missed, used
    <3>2. \A c \in Beat : beat[c].pc \in {"version", "applied"} => CarriesNext(c, beat[c].hash)
      BY <3>1 DEF CarriesNext
    <3>3. CASE UNCHANGED commands
      BY <3>1, <3>2, <3>3, NoChange, CarriedKept
    <3>4. CASE /\ commands' = Moved({beat[b].row}, "succeeded")
               /\ beat' = [beat EXCEPT ![b].pc = "version"]
      <4>1. beat'[b] = [beat[b] EXCEPT !.pc = "version"]
        BY <2>0, <3>4
      <4>2. CarriesNext(b, beat[b].hash)
        BY <2>0, <4>1 DEF CarriesNext, BeatState
      <4>3. ASSUME NEW i \in DOMAIN commands', commands'[i].status = "succeeded"
            PROVE  \/ i \in DOMAIN commands /\ commands'[i] = commands[i]
                   \/ CarriesNext(b, commands'[i].hash)
        <5>1. i \in DOMAIN commands
          BY <3>4 DEF Moved
        <5>2. CASE i = beat[b].row
          <6>1. commands'[i] = [commands[i] EXCEPT !.status = "succeeded"]
            BY <3>4, <5>1, <5>2 DEF Moved
          <6>2. commands[i] \in CommandRow
            BY <5>1, CommandRows DEF IInv
          <6>3. commands'[i].hash = commands[i].hash
            BY <6>1, <6>2 DEF CommandRow
          <6>. QED  BY <2>0, <3>1, <4>2, <5>2, <6>3 DEF BeatLawful
        <5>3. CASE i # beat[b].row
          BY <3>4, <5>1, <5>3 DEF Moved
        <5>. QED  BY <5>2, <5>3
      <4>. QED  BY <3>1, <3>2, <4>3, NoChange, CarriedKept
    <3>. QED  BY <2>2, <3>3, <3>4 DEF MarkSucceeded
  <2>3. CASE FindByHash(b)
    <3>1. PICK v \in DOMAIN versions : beat' = [beat EXCEPT ![b].pc = "applied", ![b].row = v]
      BY <2>3 DEF FindByHash
    <3>2. UNCHANGED <<versions, commands, cut>>
      BY <2>3 DEF FindByHash, tables, missed, used
    <3>3. beat'[b].pc = "applied" /\ beat'[b].hash = beat[b].hash
      <4>1. beat'[b] = [beat[b] EXCEPT !.pc = "applied", !.row = v]
        BY <2>0, <3>1
      <4>. QED  BY <2>0, <4>1 DEF BeatState
    <3>4. \A c \in Beat : beat[c].pc \in {"version", "applied"} => CarriesNext(c, beat[c].hash)
      BY <2>0, <3>1, <3>3 DEF CarriesNext
    <3>. QED  BY <3>2, <3>4, NoChange, CarriedKept
  <2>4. CASE MarkApplied(b)
    <3>1. /\ beat[b].pc = "applied" /\ \A c \in Beat \ {b} : beat'[c] = beat[c]
          /\ versions' = [versions EXCEPT ![beat[b].row].applied = TRUE]
          /\ UNCHANGED <<commands, cut>>
      BY <2>0, <2>4 DEF MarkApplied, missed, used
    <3>2. PICK w \in DOMAIN versions : w = beat[b].row /\ versions[w].hash = beat[b].hash
      BY <2>0, <3>1 DEF BeatLawful
    <3>3. versions[w] \in VersionRow
      BY <3>2, VersionRows DEF IInv
    <3>4. /\ DOMAIN versions' = DOMAIN versions
          /\ versions'[w] = [versions[w] EXCEPT !.applied = TRUE]
          /\ \A v \in DOMAIN versions \ {w} : versions'[v] = versions[v]
      BY <3>1, <3>2
    <3>5. versions'[w].applied /\ versions'[w].hash = versions[w].hash
          /\ versions'[w].rollback = versions[w].rollback
      BY <3>3, <3>4 DEF VersionRow
    <3>6. VersionsGrow
      BY <3>4, <3>5 DEF VersionsGrow
    <3>7. IsAppliedNext(beat[b].hash)
      BY <3>2, <3>4, <3>5 DEF IsAppliedNext, AppliedRows
    <3>8. \A c \in Beat : beat[c].pc \in {"version", "applied"} =>
            CarriesNext(c, beat[c].hash) \/ IsAppliedNext(beat[c].hash)
      BY <3>1, <3>7 DEF CarriesNext
    <3>. QED  BY <3>1, <3>6, <3>8, CarriedKept
  <2>. QED  BY <1>3, <2>1, <2>2, <2>3, <2>4 DEF BeatStep
<1>4. ASSUME NEW B \in SUBSET Beat, Abandon(B), UNCHANGED tables PROVE Carried'
  <2>1. cut \subseteq cut' /\ \A b \in Beat \ B : beat'[b] = beat[b]
    BY <1>4 DEF Abandon
  <2>2. \A b \in B : beat[b].pc \in {"version", "applied"} => beat[b].hash \in cut'
    BY <1>4 DEF Abandon
  <2>3. VersionsGrow /\ UNCHANGED <<versions, commands>>
    BY <1>4, NoChange DEF tables
  <2>4. \A b \in Beat : beat[b].pc \in {"version", "applied"} =>
          CarriesNext(b, beat[b].hash) \/ beat[b].hash \in cut'
    BY <2>1, <2>2 DEF CarriesNext
  <2>. QED  BY <2>1, <2>3, <2>4, CarriedKept
<1>7. CASE ServerCrash \/ \E b \in Beat : BeatFails(b)
  BY <1>4, <1>7 DEF ServerCrash, BeatFails
<1>5. CASE \/ UNCHANGED vars \/ SensorApplies
           \/ \E r \in Request : RollbackToLastApplied(r) \/ \E c \in Config : SaveAndQueueApply(r, c)
           \/ \E i \in Row : CheckAutoRollback(i)
           \/ \E t \in Task : \/ HasPendingConfigApply(t) \/ FindLastApplied(t)
                              \/ UpsertCurrent(t) \/ TaskFails(t)
  <2>1. UNCHANGED <<versions, commands, beat, cut>>
    BY <1>5 DEF vars, tables, missed, used, SensorApplies, RollbackToLastApplied, SaveAndQueueApply,
                CheckAutoRollback, HasPendingConfigApply, FindLastApplied, UpsertCurrent, TaskFails
  <2>. QED  BY <2>1, NoSuccess
<1>6. CASE \/ \E t \in Task : QueueExpires(t)
           \/ \E i \in Row : \/ \E status \in Statuses : Progress(i, status)
                             \/ Cancel(i) \/ ResultFailed(i) \/ RejectedAck(i)
           \/ \E S \in SUBSET PendingRows : ExpirySweep(S) \/ RestExpires(S)
  <2>1. PendingRows \subseteq Row
    BY CommandRows DEF IInv, PendingRows
  <2>2. {"sent", "acked", "running", "cancelled", "failed", "expired"} \subseteq Statuses \ {"succeeded"}
    BY DEF Statuses
  <2>3. UNCHANGED <<versions, beat, cut>>
    BY <1>6 DEF missed, used, QueueExpires, Progress, Cancel, ResultFailed, RejectedAck, ExpirySweep, RestExpires
  <2>4. \E S \in SUBSET Row, status \in Statuses \ {"succeeded"} : commands' = Moved(S, status)
    <3>1. CASE \E t \in Task : QueueExpires(t)
      BY <2>1, <2>2, <3>1 DEF QueueExpires
    <3>2. ASSUME NEW i \in Row, \/ \E status \in Statuses : Progress(i, status)
                                \/ Cancel(i) \/ ResultFailed(i) \/ RejectedAck(i)
          PROVE  \E S \in SUBSET Row, status \in Statuses \ {"succeeded"} : commands' = Moved(S, status)
      <4>1. {i} \in SUBSET Row
        OBVIOUS
      <4>2. \E status \in Statuses \ {"succeeded"} : commands' = Moved({i}, status)
        BY <2>2, <3>2 DEF Progress, Cancel, ResultFailed, RejectedAck
      <4>. QED  BY <4>1, <4>2
    <3>3. CASE \E S \in SUBSET PendingRows : ExpirySweep(S) \/ RestExpires(S)
      BY <2>1, <2>2, <3>3 DEF ExpirySweep, RestExpires
    <3>. QED  BY <1>6, <3>1, <3>2, <3>3
  <2>. QED  BY <2>3, <2>4, NoSuccess
<1>. QED  BY <1>1, <1>2, <1>3, <1>5, <1>6, <1>7 DEF Next, TaskStep

(* Every configuration that was confirmed can be fallen back on once its   *)
(* confirmation is over, unless a rejected query or a restart cut the       *)
(* confirmation short.                                                     *)
THEOREM ConfirmedApplied == Spec => []ConfirmedIsApplied
<1>1. Init => Carried
  BY DEF Init, Carried
<1>2. Carried => ConfirmedIsApplied
  BY DEF Carried, Carries, IsApplied, Confirming, ConfirmedIsApplied
<1>. QED  BY <1>1, <1>2, CarriedNext, IInvHolds, PTL DEF Spec
-----------------------------------------------------------------------------
(* A streak of failures is always somebody's business: a command is on its *)
(* way that will end it or prolong it, or a check or a request is running, *)
(* which finds the streak, or will find a command in the end.              *)
Working == \E t \in Task : ~At(t, "idle")
OnItsWay == PendingRows # {} \/ Working

Owed == ~overlooked /\ calm /\ FailureStreak /\ AppliedRows # {} => OnItsWay

LEMMA OwedKept ==
    ASSUME Owed, UNCHANGED <<versions, commands, task, calm, overlooked>>
    PROVE  Owed'
BY DEF Owed, FailureStreak, AppliedRows, OnItsWay, PendingRows, Working, At

LEMMA WorkingNext ==
    ASSUME NEW t \in Task, task'[t].pc # "idle"
    PROVE  OnItsWay'
BY DEF OnItsWay, Working, At

(* Each step of a task that is not its last leaves it working.             *)
LEMMA TaskStepOwed ==
    ASSUME IInv, NEW t \in Task, TaskStep(t), FailureStreak', AppliedRows' # {}
    PROVE  OnItsWay'
<1>1. CASE HasPendingConfigApply(t)
  <2>1. CASE PendingRows = {}
    <3>1. task'[t].pc = "find"
      BY <1>1, <2>1, GotoStep DEF HasPendingConfigApply, IInv
    <3>. QED  BY <3>1, WorkingNext
  <2>2. CASE PendingRows # {}
    <3>1. commands' = commands
      BY <1>1 DEF HasPendingConfigApply, tables
    <3>. QED  BY <2>2, <3>1 DEF OnItsWay, PendingRows
  <2>. QED  BY <2>1, <2>2
<1>2. CASE FindLastApplied(t)
  <2>1. AppliedRows # {}
    BY <1>2 DEF FindLastApplied, tables, AppliedRows
  <2>2. PICK v \in AppliedRows :
             task' = [task EXCEPT ![t].pc = "upsert", ![t].hash = versions[v].hash]
    BY <1>2, <2>1 DEF FindLastApplied
  <2>3. task[t] \in TaskState
    BY DEF IInv, TypeOK
  <2>4. task'[t] = [task[t] EXCEPT !.pc = "upsert", !.hash = versions[v].hash]
    BY <2>2 DEF IInv, TypeOK
  <2>5. task'[t].pc = "upsert"
    BY <2>3, <2>4 DEF TaskState
  <2>. QED  BY <2>5, WorkingNext
<1>3. CASE UpsertCurrent(t)
  <2>1. task'[t].pc = "version"
    BY <1>3, GotoStep DEF UpsertCurrent, IInv
  <2>. QED  BY <2>1, WorkingNext
<1>4. CASE CreateVersion(t)
  <2>1. task[t] \in TaskState
    BY DEF IInv, TypeOK
  <2>2. task'[t] = [task[t] EXCEPT !.pc = "sweep", !.row = Len(versions) + 1]
    BY <1>4 DEF CreateVersion, IInv, TypeOK
  <2>3. task'[t].pc = "sweep"
    BY <2>1, <2>2 DEF TaskState
  <2>. QED  BY <2>3, WorkingNext
<1>5. CASE QueueExpires(t)
  <2>1. task'[t].pc = "queue"
    BY <1>5, GotoStep DEF QueueExpires, IInv
  <2>. QED  BY <2>1, WorkingNext
<1>6. CASE QueueConfigApply(t)
  <2> DEFINE row == [hash |-> task[t].hash, status |-> "queued", version |-> task[t].row]
  <2>1. commands' = Append(commands, row) /\ task[t].pc = "queue"
    BY <1>6 DEF QueueConfigApply, At
  <2>2. TaskLawful(t) /\ commands \in Seq(CommandRow)
    BY DEF IInv, TasksLawful, TypeOK
  <2>3. row \in CommandRow
    BY <2>1, <2>2 DEF TaskLawful, CommandRow, Statuses
  <2>4. /\ commands' \in Seq(CommandRow) /\ Len(commands') = Len(commands) + 1
        /\ commands'[Len(commands) + 1] = row
    BY <2>1, <2>2, <2>3, AppendProperties
  <2>5. Len(commands) + 1 \in DOMAIN commands'
    BY <2>2, <2>4
  <2>6. commands'[Len(commands) + 1].status \in Pending
    BY <2>4 DEF Pending
  <2>. QED  BY <2>5, <2>6 DEF OnItsWay, PendingRows
<1>. QED  BY <1>1, <1>2, <1>3, <1>4, <1>5, <1>6 DEF TaskStep

(* A failure starts its check in the step that makes the command fail.     *)
LEMMA CheckStarted ==
    ASSUME IInv, NEW S \in SUBSET Row, NEW i \in S, StartChecks(S)
    PROVE  OnItsWay'
<1>1. task'[i] = [IdleTask EXCEPT !.pc = "count", !.rollback = TRUE]
  BY RowsAreTasks DEF StartChecks
<1>2. task'[i].pc = "count"
  BY <1>1 DEF IdleTask
<1>. QED  BY <1>2, RowsAreTasks, WorkingNext

LEMMA OwedNext ==
    ASSUME IInv, Owed, [Next]_vars
    PROVE  Owed'
<1> SUFFICES ASSUME ~overlooked', calm', FailureStreak', AppliedRows' # {}
             PROVE  OnItsWay'
  BY DEF Owed
<1>0. Owed' => OnItsWay'
  BY DEF Owed
<1>1. ASSUME NEW r \in Request, RollbackToLastApplied(r) PROVE OnItsWay'
  <2>1. task'[r] = [IdleTask EXCEPT !.pc = "guard", !.rollback = TRUE]
    BY <1>1, RowsAreTasks DEF RollbackToLastApplied, IInv, TypeOK
  <2>2. task'[r].pc = "guard"
    BY <2>1 DEF IdleTask
  <2>. QED  BY <2>2, RowsAreTasks, WorkingNext
<1>2. ASSUME NEW r \in Request, NEW c \in Config, SaveAndQueueApply(r, c) PROVE OnItsWay'
  <2>1. task'[r] = [pc |-> "upsert", hash |-> c, rollback |-> FALSE, row |-> 0]
    BY <1>2, RowsAreTasks DEF SaveAndQueueApply, IInv, TypeOK
  <2>2. task'[r].pc = "upsert"
    BY <2>1
  <2>. QED  BY <2>2, RowsAreTasks, WorkingNext
<1>3. ASSUME NEW t \in Task, TaskStep(t) PROVE OnItsWay'
  BY <1>3, TaskStepOwed
<1>4. ASSUME NEW i \in Row, CheckAutoRollback(i) PROVE OnItsWay'
  <2>1. FailureStreak
    BY <1>4 DEF CheckAutoRollback, tables, FailureStreak
  <2>2. Goto(i, "guard")
    BY <1>4, <2>1 DEF CheckAutoRollback
  <2>3. task'[i].pc = "guard"
    BY <2>2, RowsAreTasks, GotoStep DEF IInv
  <2>. QED  BY <2>3, RowsAreTasks, WorkingNext
<1>5. ASSUME NEW i \in Row, NEW status \in Statuses, Progress(i, status) PROVE OnItsWay'
  <2>1. /\ i \in DOMAIN commands /\ commands' = Moved({i}, status)
        /\ CanTransition(commands[i].status, status)
        /\ status \in Pending
    BY <1>5 DEF Progress, Pending
  <2>2. DOMAIN commands' = DOMAIN commands /\ commands'[i].status = status
    BY <2>1, MovedRows DEF IInv
  <2>. QED  BY <2>1, <2>2 DEF OnItsWay, PendingRows
<1>6. ASSUME NEW i \in Row, Cancel(i) \/ RejectedAck(i) PROVE OnItsWay'
  BY <1>6 DEF Cancel, RejectedAck
<1>7. ASSUME NEW i \in Row, ResultFailed(i) PROVE OnItsWay'
  BY <1>7, CheckStarted DEF ResultFailed
<1>8. ASSUME NEW S \in SUBSET PendingRows, ExpirySweep(S) \/ RestExpires(S) PROVE OnItsWay'
  <2>1. S \in SUBSET Row /\ S # {} /\ StartChecks(S)
    BY <1>8, CommandRows DEF IInv, PendingRows, ExpirySweep, RestExpires
  <2>. QED  BY <2>1, CheckStarted
<1>9. ASSUME NEW b \in Beat, BeatStep(b) \/ BeatFails(b) PROVE OnItsWay'
  <2>1. CASE Heartbeat(b) \/ FindRunningConfigApply(b) \/ FindByHash(b)
    <3>1. UNCHANGED <<versions, commands, task, calm, overlooked>>
      BY <2>1 DEF Heartbeat, FindRunningConfigApply, FindByHash, tables, missed, used
    <3>. QED  BY <1>0, <3>1, OwedKept
  <2>2. CASE MarkSucceeded(b)
    <3>1. UNCHANGED <<versions, commands, task, calm, overlooked>>
      BY <2>2 DEF MarkSucceeded, missed, used
    <3>. QED  BY <1>0, <3>1, OwedKept
  <2>3. CASE MarkApplied(b)
    BY <2>3 DEF MarkApplied
  <2>4. CASE BeatFails(b)
    <3>1. UNCHANGED <<versions, commands, task, calm, overlooked>>
      BY <2>4 DEF BeatFails, tables
    <3>. QED  BY <1>0, <3>1, OwedKept
  <2>. QED  BY <1>9, <2>1, <2>2, <2>3, <2>4 DEF BeatStep
<1>10. CASE SensorApplies
  <2>1. UNCHANGED <<versions, commands, task, calm, overlooked>>
    BY <1>10 DEF SensorApplies, tables, missed, used
  <2>. QED  BY <1>0, <2>1, OwedKept
<1>11. CASE ServerCrash
  <2>1. ~overlooked /\ ~Working /\ UNCHANGED <<versions, commands, calm>>
    BY <1>11 DEF ServerCrash, Working, tables
  <2>2. PendingRows # {}
    BY <2>1 DEF Owed, OnItsWay, FailureStreak, AppliedRows
  <2>. QED  BY <2>1, <2>2 DEF OnItsWay, PendingRows
<1>13. ASSUME NEW t \in Task, TaskFails(t) PROVE OnItsWay'
  BY <1>13 DEF TaskFails
<1>12. CASE UNCHANGED vars
  BY <1>0, <1>12, OwedKept DEF vars, tables, missed, used
<1>. QED
  BY <1>1, <1>2, <1>3, <1>4, <1>5, <1>6, <1>7, <1>8, <1>9, <1>10, <1>11, <1>12, <1>13 DEF Next

(* A streak of failures is never left standing: whenever nothing is left   *)
(* to happen on the server, two failures in a row have been answered, or   *)
(* something has succeeded, was applied or was cancelled since, or the     *)
(* failure was one that no check has followed to its end.                  *)
THEOREM StreaksAnswered == Spec => []StreakAnswered
<1>1. Init => Owed
  BY DEF Init, Owed
<1>2. IInv /\ Owed /\ [Next]_vars => Owed'
  BY OwedNext
<1>3. Owed => StreakAnswered
  BY DEF Owed, OnItsWay, Working, StreakAnswered, Quiet
<1>. QED  BY <1>1, <1>2, <1>3, IInvHolds, PTL DEF Spec
=============================================================================
