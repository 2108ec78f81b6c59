---------------------------- MODULE SensorConfig ----------------------------
(***************************************************************************)
(* The life of one sensor's configuration on the server: operators save    *)
(* it, or roll it back; every save is a row in sensor_config_versions and  *)
(* a config.apply command; a heartbeat that reports the hash of a running  *)
(* command confirms it; every failure of a command starts a check that may *)
(* roll back automatically. Each of these is an async function whose       *)
(* awaited queries interleave with those of all the others, and each of    *)
(* which may be rejected: what is left of the function is then not done.   *)
(***************************************************************************)
EXTENDS Naturals, Sequences, SensorCommandState

CONSTANTS Config,      \* contents a configuration may have (and their hashes)
          None,        \* no configuration saved, none reported
          Request,     \* operator requests that may be in progress together
          Beat,        \* heartbeats whose confirmation may overlap
          MaxRows,     \* bound: versions, and commands, ever created
          MaxSaves,    \* bound: saves by operators
          MaxFaults    \* bound: rejected queries and restarts of the server

(* Commands and versions are named by their place in createdAt order.      *)
Row == 1..MaxRows

ASSUME ConfigAssumption == /\ None \notin Config
                           /\ Request \cap Nat = {}
                           /\ MaxRows \in Nat
                           /\ MaxSaves \in Nat
                           /\ MaxFaults \in Nat

(* Who runs checkAutoRollback or a REST route: check i is the one that the *)
(* failure of command i starts.                                            *)
Task == Request \cup Row

VARIABLES
    current,    \* sensor_configs: the hash the sensor is served
    versions,   \* sensor_config_versions of this sensor
    commands,   \* its config.apply rows in sensor_commands
    task,       \* progress of each task
    beat,       \* progress of each confirmApplied
    reported,   \* the hash the sensor's heartbeats carry
    calm,       \* history: nothing has succeeded, or was cancelled, or was
                \* marked applied since a command last failed
    overlooked, \* history: no check followed the last failure, or a task has
                \* been abandoned since
    cut,        \* history: the hashes of confirmations abandoned after their
                \* command had succeeded
    saves, faults    \* how much of the two bounds is used

tables == <<current, versions, commands>>
missed == <<overlooked, cut>>
used   == <<saves, faults>>
vars   == <<tables, task, beat, reported, calm, missed, used>>

Hash == Config \cup {None}

VersionRow == [hash : Config, applied : BOOLEAN, rollback : BOOLEAN]
CommandRow == [hash : Config, status : Statuses, version : Row]

TaskState == [pc : {"idle", "count", "guard", "find", "upsert", "version", "sweep", "queue"},
              hash : Hash, rollback : BOOLEAN, row : 0..MaxRows]
BeatState == [pc : {"idle", "find", "result", "version", "applied"},
              hash : Hash, row : 0..MaxRows]

IdleTask == [pc |-> "idle", hash |-> None, rollback |-> FALSE, row |-> 0]
IdleBeat == [pc |-> "idle", hash |-> None, row |-> 0]

TypeOK ==
    /\ current \in Hash
    /\ versions \in Seq(VersionRow) /\ Len(versions) <= MaxRows
    /\ commands \in Seq(CommandRow) /\ Len(commands) <= MaxRows
    /\ task \in [Task -> TaskState]
    /\ beat \in [Beat -> BeatState]
    /\ reported \in Hash
    /\ calm \in BOOLEAN
    /\ overlooked \in BOOLEAN
    /\ cut \subseteq Hash
    /\ saves \in Nat
    /\ faults \in Nat

Init ==
    /\ current = None
    /\ versions = <<>>
    /\ commands = <<>>
    /\ task = [t \in Task |-> IdleTask]
    /\ beat = [b \in Beat |-> IdleBeat]
    /\ reported = None
    /\ calm = FALSE
    /\ overlooked = FALSE
    /\ cut = {}
    /\ saves = 0
    /\ faults = 0

-----------------------------------------------------------------------------
At(t, pc) == task[t].pc = pc
Goto(t, pc) == task' = [task EXCEPT ![t].pc = pc]
Done(t) == task' = [task EXCEPT ![t] = IdleTask]

(* The newest row of a set of rows: ORDER BY created_at DESC LIMIT 1.      *)
Newest(i, rows) == i \in rows /\ \A j \in rows : j <= i

PendingRows == {i \in DOMAIN commands : commands[i].status \in Pending}
AppliedRows == {v \in DOMAIN versions : versions[v].applied}

(* Rows after those in S went to a status.                                 *)
Moved(S, status) ==
    [i \in DOMAIN commands |->
        IF i \in S THEN [commands[i] EXCEPT !.status = status] ELSE commands[i]]

(* A check begins for each command in S.                                   *)
StartChecks(S) ==
    task' = [t \in Task |-> IF t \in S THEN [IdleTask EXCEPT !.pc = "count", !.rollback = TRUE]
                                       ELSE task[t]]

-----------------------------------------------------------------------------
(* Operators' requests, once authorised.                                   *)

SaveAndQueueApply(r, c) ==
    /\ At(r, "idle")
    /\ saves < MaxSaves
    /\ saves' = saves + 1
    /\ task' = [task EXCEPT ![r] = [pc |-> "upsert", hash |-> c,
                                        rollback |-> FALSE, row |-> 0]]
    /\ UNCHANGED <<tables, beat, reported, calm, missed, faults>>

RollbackToLastApplied(r) ==
    /\ At(r, "idle")
    /\ task' = [task EXCEPT ![r] = [IdleTask EXCEPT !.pc = "guard", !.rollback = TRUE]]
    /\ UNCHANGED <<tables, beat, reported, calm, missed, used>>

(* checkAutoRollback's own gate: the two newest commands have failed.      *)
Failures == {"failed", "expired"}
FailureStreak ==
    LET n == Len(commands)
    IN  n >= 2 /\ commands[n].status \in Failures /\ commands[n - 1].status \in Failures

CheckAutoRollback(i) ==
    /\ At(i, "count")
    /\ IF FailureStreak THEN Goto(i, "guard") ELSE Done(i)
    /\ UNCHANGED <<tables, beat, reported, calm, missed, used>>

(* From here the operator's rollback and the automatic one are the same.   *)
HasPendingConfigApply(t) ==
    /\ At(t, "guard")
    /\ IF PendingRows = {} THEN Goto(t, "find") ELSE Done(t)
    /\ UNCHANGED <<tables, beat, reported, calm, missed, used>>

(* Faulty: the newest version is taken, applied or not.                    *)
FindLastVersion(t) ==
    /\ At(t, "find")
    /\ IF versions = <<>> THEN Done(t)
       ELSE task' = [task EXCEPT ![t].pc = "upsert", ![t].hash = versions[Len(versions)].hash]
    /\ UNCHANGED <<tables, beat, reported, calm, missed, used>>

FindLastApplied(t) ==
    /\ At(t, "find")
    /\ IF AppliedRows = {} THEN Done(t)
       ELSE \E v \in AppliedRows :
                /\ Newest(v, AppliedRows)
                /\ task' = [task EXCEPT ![t].pc = "upsert", ![t].hash = versions[v].hash]
    /\ UNCHANGED <<tables, beat, reported, calm, missed, used>>

(* And so are the writes of a save and of a rollback.                      *)
UpsertCurrent(t) ==
    /\ At(t, "upsert") /\ Goto(t, "version")
    /\ current' = task[t].hash
    /\ UNCHANGED <<versions, commands, beat, reported, calm, missed, used>>

CreateVersion(t) ==
    /\ At(t, "version")
    /\ Len(versions) < MaxRows
    /\ task' = [task EXCEPT ![t].pc = "sweep", ![t].row = Len(versions) + 1]
    /\ versions' = Append(versions, [hash |-> task[t].hash, applied |-> FALSE,
                                     rollback |-> task[t].rollback])
    /\ UNCHANGED <<current, commands, beat, reported, calm, missed, used>>

(* queueConfigApply begins by expiring what is overdue and, unlike the     *)
(* sweep, starts no check for it. Every expiry takes any set of pending    *)
(* commands: a status read by its SELECT may have changed by its UPDATE.   *)
QueueExpires(t) ==
    /\ At(t, "sweep") /\ Goto(t, "queue")
    /\ \E S \in SUBSET PendingRows : commands' = Moved(S, "expired")
    /\ UNCHANGED <<current, versions, beat, reported, calm, missed, used>>

(* The command's idempotency key names the version.                        *)
QueueConfigApply(t) ==
    /\ At(t, "queue") /\ Done(t)
    /\ Len(commands) < MaxRows
    /\ commands' = Append(commands, [hash |-> task[t].hash, status |-> "queued",
                                     version |-> task[t].row])
    /\ UNCHANGED <<current, versions, beat, reported, calm, missed, used>>

-----------------------------------------------------------------------------
(* What happens to a command (CommandDelivery has the details).            *)

Progress(i, status) ==
    /\ i \in DOMAIN commands
    /\ CanTransition(commands[i].status, status)
    /\ status \in {"sent", "acked", "running"}
    /\ commands' = Moved({i}, status)
    /\ UNCHANGED <<current, versions, task, beat, reported, calm, missed, used>>

Cancel(i) ==
    /\ i \in DOMAIN commands /\ commands[i].status = "queued"
    /\ commands' = Moved({i}, "cancelled")
    /\ calm' = FALSE
    /\ UNCHANGED <<current, versions, task, beat, reported, missed, used>>

(* A command.result with status failed runs onConfigApplyFailure.          *)
ResultFailed(i) ==
    /\ i \in DOMAIN commands /\ CanTransition(commands[i].status, "failed")
    /\ commands' = Moved({i}, "failed")
    /\ StartChecks({i})
    /\ calm' = TRUE /\ overlooked' = FALSE
    /\ UNCHANGED <<current, versions, beat, reported, cut, used>>

(* A command.ack that declines makes a command fail too, but runs nothing. *)
RejectedAck(i) ==
    /\ i \in DOMAIN commands /\ commands[i].status = "sent"
    /\ commands' = Moved({i}, "failed")
    /\ calm' = TRUE /\ overlooked' = TRUE
    /\ UNCHANGED <<current, versions, task, beat, reported, cut, used>>

(* Faulty: what the sweep expired is not followed up.                      *)
ExpirySweepUnchecked(S) ==
    /\ S # {}
    /\ commands' = Moved(S, "expired")
    /\ calm' = TRUE /\ overlooked' = FALSE
    /\ UNCHANGED <<current, versions, task, beat, reported, cut, used>>

(* The periodic sweep expires, and checks once for every row it expired.   *)
ExpirySweep(S) ==
    /\ S # {}
    /\ commands' = Moved(S, "expired")
    /\ StartChecks(S)
    /\ calm' = TRUE /\ overlooked' = FALSE
    /\ UNCHANGED <<current, versions, beat, reported, cut, used>>

(* listCommands, cancelCommand and queueStatusGet expire commands as well. *)
RestExpires(S) ==
    /\ S # {}
    /\ commands' = Moved(S, "expired")
    /\ calm' = TRUE /\ overlooked' = TRUE
    /\ UNCHANGED <<current, versions, task, beat, reported, cut, used>>

-----------------------------------------------------------------------------
(* The sensor fetches what it is served, and reports its hash from then on.*)
SensorApplies ==
    /\ current # None
    /\ reported' = current
    /\ UNCHANGED <<tables, task, beat, calm, missed, used>>

(* POST /sensors/heartbeat starts confirmApplied and does not wait for it. *)
Heartbeat(b) ==
    /\ beat[b].pc = "idle"
    /\ reported # None
    /\ beat' = [beat EXCEPT ![b] = [pc |-> "find", hash |-> reported, row |-> 0]]
    /\ UNCHANGED <<tables, task, reported, calm, missed, used>>

RunningRows == {i \in DOMAIN commands : commands[i].status = "running"}

(* The newest running command, if it is for the hash reported.             *)
FindRunningConfigApply(b) ==
    /\ beat[b].pc = "find"
    /\ \/ \E i \in RunningRows :
             /\ Newest(i, RunningRows)
             /\ commands[i].hash = beat[b].hash
             /\ beat' = [beat EXCEPT ![b].pc = "result", ![b].row = i]
       \/ /\ \A i \in RunningRows : Newest(i, RunningRows) => commands[i].hash # beat[b].hash
          /\ beat' = [beat EXCEPT ![b] = IdleBeat]
    /\ UNCHANGED <<tables, task, reported, calm, missed, used>>

(* Faulty: what markResult returns is not looked at.                       *)
MarkSucceededUnchecked(b) ==
    /\ beat[b].pc = "result"
    /\ beat' = [beat EXCEPT ![b].pc = "version"]
    /\ IF CanTransition(commands[beat[b].row].status, "succeeded")
       THEN commands' = Moved({beat[b].row}, "succeeded") /\ calm' = FALSE
       ELSE UNCHANGED <<commands, calm>>
    /\ UNCHANGED <<current, versions, task, reported, missed, used>>

(* markResult, which may find that the command has ended in the meantime.  *)
MarkSucceeded(b) ==
    /\ beat[b].pc = "result"
    /\ IF CanTransition(commands[beat[b].row].status, "succeeded")
       THEN /\ commands' = Moved({beat[b].row}, "succeeded")
            /\ beat' = [beat EXCEPT ![b].pc = "version"]
            /\ calm' = FALSE
       ELSE /\ beat' = [beat EXCEPT ![b] = IdleBeat]
            /\ UNCHANGED <<commands, calm>>
    /\ UNCHANGED <<current, versions, task, reported, missed, used>>

(* Faulty: the newest version is taken to be the one confirmed.            *)
FindNewestVersion(b) ==
    /\ beat[b].pc = "version"
    /\ beat' = [beat EXCEPT ![b].pc = "applied", ![b].row = Len(versions)]
    /\ UNCHANGED <<tables, task, reported, calm, missed, used>>

(* The newest version of that hash, whichever command it belongs to.       *)
FindByHash(b) ==
    /\ beat[b].pc = "version"
    /\ LET rows == {v \in DOMAIN versions : versions[v].hash = beat[b].hash}
       IN  \E v \in rows : /\ Newest(v, rows)
                           /\ beat' = [beat EXCEPT ![b].pc = "applied", ![b].row = v]
    /\ UNCHANGED <<tables, task, reported, calm, missed, used>>

MarkApplied(b) ==
    /\ beat[b].pc = "applied"
    /\ versions' = [versions EXCEPT ![beat[b].row].applied = TRUE]
    /\ beat' = [beat EXCEPT ![b] = IdleBeat]
    /\ calm' = FALSE
    /\ UNCHANGED <<current, commands, task, reported, missed, used>>

-----------------------------------------------------------------------------
(* Confirmations in B are abandoned: those that had succeeded mark nothing. *)
Fault == faults < MaxFaults /\ faults' = faults + 1
Abandon(B) ==
    /\ beat' = [b \in Beat |-> IF b \in B THEN IdleBeat ELSE beat[b]]
    /\ cut' = cut \cup {beat[b].hash : b \in {c \in B : beat[c].pc \in {"version", "applied"}}}

(* A query of confirmApplied is rejected: the heartbeat handler logs it.   *)
BeatFails(b) ==
    /\ Fault
    /\ beat[b].pc # "idle" /\ Abandon({b})
    /\ UNCHANGED <<tables, task, reported, calm, overlooked, saves>>

(* A query of a check is: the plugin logs it, and nobody checks again.     *)
(* Of an operator's request: it is answered with an error where it stands. *)
TaskFails(t) ==
    /\ Fault
    /\ ~At(t, "idle") /\ Done(t)
    /\ overlooked' = TRUE
    /\ UNCHANGED <<tables, beat, reported, calm, cut, saves>>

(* The server restarts: what it was doing is gone, the tables are not.     *)
ServerCrash ==
    /\ Fault
    /\ task' = [t \in Task |-> IdleTask]
    /\ Abandon(Beat)
    /\ overlooked' = (overlooked \/ \E t \in Task : ~At(t, "idle"))
    /\ UNCHANGED <<tables, reported, calm, saves>>

-----------------------------------------------------------------------------
TaskStep(t) ==
    \/ HasPendingConfigApply(t) \/ FindLastApplied(t)
    \/ UpsertCurrent(t) \/ CreateVersion(t) \/ QueueExpires(t) \/ QueueConfigApply(t)

BeatStep(b) ==
    Heartbeat(b) \/ FindRunningConfigApply(b) \/ MarkSucceeded(b) \/ FindByHash(b) \/ MarkApplied(b)

Next ==
    \/ \E r \in Request : RollbackToLastApplied(r) \/ \E c \in Config : SaveAndQueueApply(r, c)
    \/ \E t \in Task : TaskStep(t)
    \/ \E i \in Row : \/ CheckAutoRollback(i)
                      \/ \E status \in Statuses : Progress(i, status)
                      \/ Cancel(i) \/ ResultFailed(i) \/ RejectedAck(i)
    \/ \E S \in SUBSET PendingRows : ExpirySweep(S) \/ RestExpires(S)
    \/ SensorApplies
    \/ \E b \in Beat : BeatStep(b) \/ BeatFails(b)
    \/ \E t \in Task : TaskFails(t)
    \/ ServerCrash

Spec == Init /\ [][Next]_vars

-----------------------------------------------------------------------------
(* A version is only marked applied when a command for its configuration   *)
(* was confirmed by a heartbeat: what rollback will fall back on has run.  *)
AppliedWasConfirmed ==
    \A v \in AppliedRows : \E i \in DOMAIN commands :
        commands[i].hash = versions[v].hash /\ commands[i].status = "succeeded"

(* And every configuration that was confirmed is there to fall back on,    *)
(* once its confirmation is over, unless that was abandoned on the way: by *)
(* a rejected query or a restart, and nobody confirms it again.            *)
Confirming(h) == \E b \in Beat : beat[b].pc \in {"version", "applied"} /\ beat[b].hash = h
ConfirmedIsApplied ==
    \A i \in DOMAIN commands :
        commands[i].status = "succeeded" /\ commands[i].hash \notin cut /\ ~Confirming(commands[i].hash) =>
            \E v \in AppliedRows : versions[v].hash = commands[i].hash

(* A rollback, by an operator or automatic, only ever goes to a            *)
(* configuration that an older version already has as applied.             *)
RollsBackToApplied ==
    \A v \in DOMAIN versions : versions[v].rollback =>
        \E u \in AppliedRows : u < v /\ versions[u].hash = versions[v].hash

(* Nothing is left to happen on the server.                                *)
Quiet == PendingRows = {} /\ (\A t \in Task : At(t, "idle")) /\ (\A b \in Beat : beat[b].pc = "idle")

(* Two failures in a row with a configuration to fall back on are answered *)
(* by a rollback, unless something has succeeded, was applied or was       *)
(* cancelled since the last failure, or no check followed that failure to  *)
(* its end: a REST route expired the command, the agent had declined it, a *)
(* query was rejected, or the server restarted while it was at work.       *)
StreakAnswered == ~(Quiet /\ FailureStreak /\ AppliedRows # {} /\ calm /\ ~overlooked)

(* The comment on the service makes the promise without that exception:    *)
(* two failures in a row trigger a rollback, whoever recorded them.        *)
FailuresAnswered == ~(Quiet /\ FailureStreak /\ AppliedRows # {} /\ calm)
=============================================================================
