---------------------------- MODULE CowrieReload ----------------------------
(***************************************************************************)
(* How a saved configuration reaches a running Cowrie. Two threads of the  *)
(* beacon container, the config poll loop and the config.apply handler,    *)
(* fetch the configuration and write files, a reload flag and a hash to a  *)
(* shared volume; the entrypoint of the Cowrie container watches for the   *)
(* flag, stops Cowrie, and copies the files when Docker restarts it; the   *)
(* beacon's heartbeat reports the hash to the server.                      *)
(***************************************************************************)
EXTENDS Naturals

CONSTANTS Config,      \* contents a configuration may have (and their hashes)
          None,        \* no file, no hash, nothing saved: Cowrie's defaults
          Updater,     \* the beacon's threads, "poller" and "handler"
          MaxSaves,    \* bound: configurations saved by operators
          MaxFaults    \* bound: restarts of the beacon, and exits of Cowrie by itself

ASSUME ConfigAssumption == /\ None \notin Config
                           /\ Updater \subseteq {"poller", "handler"}
                           /\ MaxSaves \in Nat
                           /\ MaxFaults \in Nat

Hash == Config \cup {None}

(* What one of the two directories holds: cowrie.cfg and userdb.txt.       *)
Files == [cfg : Hash, udb : Hash]
Both(h) == [cfg |-> h, udb |-> h]

VARIABLES
    remote,    \* sensor_configs: the configuration the server serves
    jobs,      \* config.apply commands the handler has not begun
    signal,    \* the files in the signal volume
    flag,      \* the reload flag exists
    hash,      \* cowrie.hash
    updater,   \* progress of each beacon thread, and the hash it fetched
    entry,     \* progress of the entrypoint
    active,    \* the files in Cowrie's etc directory
    cowrie,    \* the files the running Cowrie was started with
    orderly,   \* history: every save, and every exit of Cowrie by itself,
               \* came when the reload before it had settled
    saves, faults   \* how much of the bounds is used

beacon    == <<hash, updater, jobs>>
container == <<entry, active, cowrie>>
used      == <<saves, faults>>
vars == <<remote, signal, flag, beacon, container, orderly, used>>

TypeOK ==
    /\ remote \in Hash
    /\ jobs \in Nat
    /\ signal \in Files
    /\ flag \in BOOLEAN
    /\ hash \in Hash
    /\ updater \in [Updater -> [pc : {"idle", "check", "cfg", "udb", "flag", "trunc", "hash"},
                                new : Hash]]
    /\ entry \in {"copyCfg", "copyUdb", "clearFlag", "start", "watch"}
    /\ active \in Files
    /\ cowrie \in Files
    /\ orderly \in BOOLEAN
    /\ saves \in Nat
    /\ faults \in Nat

(* Cowrie has been deployed with its defaults and runs; the beacon is up.  *)
Init ==
    /\ remote = None
    /\ jobs = 0
    /\ signal = Both(None)
    /\ flag = FALSE
    /\ hash = None
    /\ updater = [u \in Updater |-> [pc |-> "idle", new |-> None]]
    /\ entry = "watch"
    /\ active = Both(None)
    /\ cowrie = Both(None)
    /\ orderly = TRUE
    /\ saves = 0
    /\ faults = 0

-----------------------------------------------------------------------------
At(u, pc) == updater[u].pc = pc
Goto(u, pc) == updater' = [updater EXCEPT ![u].pc = pc]

Idle == \A u \in Updater : At(u, "idle")

(* The beacon believes it is done and the entrypoint has nothing to do.    *)
Alone == Updater = {"poller"}

Settled == /\ Idle /\ jobs = 0
           /\ hash = remote
           /\ entry = "watch" /\ ~flag

-----------------------------------------------------------------------------
(* An operator saves: the current row changes, and a config.apply command  *)
(* is queued that will reach the agent unless it expires first, or fails   *)
(* because fetch_config does (LoseJob).                                    *)
Save(c) ==
    /\ saves < MaxSaves
    /\ saves' = saves + 1
    /\ remote' = c
    /\ jobs' = IF "handler" \in Updater THEN jobs + 1 ELSE jobs
    /\ orderly' = (orderly /\ Settled)
    /\ UNCHANGED <<signal, flag, hash, updater, container, faults>>

LoseJob ==
    /\ jobs > 0
    /\ jobs' = jobs - 1
    /\ UNCHANGED <<remote, signal, flag, hash, updater, container, orderly, used>>

-----------------------------------------------------------------------------
(* The beacon.                                                             *)

(* fetch_config's answer: what the server holds when it serves the request.*)
PollerFetch ==
    /\ "poller" \in Updater
    /\ At("poller", "idle")
    /\ remote # None
    /\ updater' = [updater EXCEPT !["poller"] = [pc |-> "check", new |-> remote]]
    /\ UNCHANGED <<remote, jobs, signal, flag, hash, container, orderly, used>>

(* Faulty: the loop applies what it fetched without looking at its hash.   *)
PollerAlwaysApplies ==
    /\ "poller" \in Updater
    /\ At("poller", "check")
    /\ Goto("poller", "cfg")
    /\ UNCHANGED <<remote, jobs, signal, flag, hash, container, orderly, used>>

(* Faulty: the loop applies only to a beacon that has no hash yet.          *)
PollerAppliesOnce ==
    /\ "poller" \in Updater
    /\ At("poller", "check")
    /\ Goto("poller", IF hash = None THEN "cfg" ELSE "idle")
    /\ UNCHANGED <<remote, jobs, signal, flag, hash, container, orderly, used>>

(* _config_loop applies what it fetched if its hash is not the local one.  *)
PollerCheck ==
    /\ "poller" \in Updater
    /\ At("poller", "check")
    /\ Goto("poller", IF updater["poller"].new # hash THEN "cfg" ELSE "idle")
    /\ UNCHANGED <<remote, jobs, signal, flag, hash, container, orderly, used>>

(* The config.apply handler applies what it fetched in any case, whatever  *)
(* the hash in its command.                                                *)
HandlerFetch ==
    /\ "handler" \in Updater
    /\ At("handler", "idle") /\ jobs > 0
    /\ jobs' = jobs - 1
    /\ updater' = [updater EXCEPT !["handler"] = [pc |-> "cfg", new |-> remote]]
    /\ UNCHANGED <<remote, signal, flag, hash, container, orderly, used>>

(* Faulty: userdb.txt is left as it was.                                    *)
WriteCfgAlone(u) ==
    /\ At(u, "cfg") /\ Goto(u, "flag")
    /\ signal' = [signal EXCEPT !.cfg = updater[u].new]
    /\ UNCHANGED <<remote, jobs, flag, hash, container, orderly, used>>

(* _apply_config, one file operation at a time.                            *)
WriteCfg(u) ==
    /\ At(u, "cfg") /\ Goto(u, "udb")
    /\ signal' = [signal EXCEPT !.cfg = updater[u].new]
    /\ UNCHANGED <<remote, jobs, flag, hash, container, orderly, used>>

WriteUdb(u) ==
    /\ At(u, "udb") /\ Goto(u, "flag")
    /\ signal' = [signal EXCEPT !.udb = updater[u].new]
    /\ UNCHANGED <<remote, jobs, flag, hash, container, orderly, used>>

(* Faulty: no flag is left for the entrypoint.                              *)
WriteNoFlag(u) ==
    /\ At(u, "flag") /\ Goto(u, "trunc")
    /\ UNCHANGED <<remote, jobs, signal, flag, hash, container, orderly, used>>

WriteFlag(u) ==
    /\ At(u, "flag") /\ Goto(u, "trunc")
    /\ flag' = TRUE
    /\ UNCHANGED <<remote, jobs, signal, hash, container, orderly, used>>

(* _write_current_hash is not atomic: open(path, "w") empties the file.    *)
TruncateHash(u) ==
    /\ At(u, "trunc") /\ Goto(u, "hash")
    /\ hash' = None
    /\ UNCHANGED <<remote, jobs, signal, flag, container, orderly, used>>

WriteHash(u) ==
    /\ At(u, "hash") /\ Goto(u, "idle")
    /\ hash' = updater[u].new
    /\ UNCHANGED <<remote, jobs, signal, flag, container, orderly, used>>

(* The beacon container restarts between any two of these; the volume      *)
(* survives, a command it was working on does not.                         *)
BeaconRestart ==
    /\ faults < MaxFaults
    /\ faults' = faults + 1
    /\ updater' = [u \in Updater |-> [pc |-> "idle", new |-> None]]
    /\ UNCHANGED <<remote, jobs, signal, flag, hash, container, orderly, saves>>

-----------------------------------------------------------------------------
(* The Cowrie container. Docker restarts it whenever the entrypoint exits. *)

(* main's loop sees the flag, removes it, and stops Cowrie.                *)
SeeFlag ==
    /\ entry = "watch" /\ flag
    /\ flag' = FALSE
    /\ entry' = "copyCfg"
    /\ UNCHANGED <<remote, signal, beacon, active, cowrie, orderly, used>>

(* Cowrie exits by itself, which ends the entrypoint too.                  *)
CowrieExits ==
    /\ entry = "watch"
    /\ faults < MaxFaults
    /\ faults' = faults + 1
    /\ entry' = "copyCfg"
    /\ orderly' = (orderly /\ Settled)
    /\ UNCHANGED <<remote, signal, flag, beacon, active, cowrie, saves>>

(* Faulty: skip_if_exists, meant for the defaults, is on for these copies.  *)
CopiedOnce(dst, src) == IF dst = None THEN src ELSE dst

(* apply_pending: copy what the volume has over what etc has, then remove  *)
(* the flag.                                                               *)
Copied(dst, src) == IF src = None THEN dst ELSE src

CopyCfg ==
    /\ entry = "copyCfg"
    /\ active' = [active EXCEPT !.cfg = Copied(@, signal.cfg)]
    /\ entry' = "copyUdb"
    /\ UNCHANGED <<remote, signal, flag, beacon, cowrie, orderly, used>>

CopyUdb ==
    /\ entry = "copyUdb"
    /\ active' = [active EXCEPT !.udb = Copied(@, signal.udb)]
    /\ entry' = "clearFlag"
    /\ UNCHANGED <<remote, signal, flag, beacon, cowrie, orderly, used>>

ClearFlag ==
    /\ entry = "clearFlag"
    /\ flag' = FALSE
    /\ entry' = "start"
    /\ UNCHANGED <<remote, signal, beacon, active, cowrie, orderly, used>>

StartCowrie ==
    /\ entry = "start"
    /\ cowrie' = active
    /\ entry' = "watch"
    /\ UNCHANGED <<remote, signal, flag, beacon, active, orderly, used>>

-----------------------------------------------------------------------------
Apply(u) == WriteCfg(u) \/ WriteUdb(u) \/ WriteFlag(u) \/ TruncateHash(u) \/ WriteHash(u)

Poller == PollerFetch \/ PollerCheck

Boot == CopyCfg \/ CopyUdb \/ ClearFlag \/ StartCowrie

Next ==
    \/ \E c \in Config : Save(c)
    \/ LoseJob
    \/ Poller
    \/ HandlerFetch
    \/ \E u \in Updater : Apply(u)
    \/ BeaconRestart
    \/ SeeFlag \/ CowrieExits \/ Boot

Spec == Init /\ [][Next]_vars

(* _config_loop runs forever, a thread in _apply_config goes on with it,   *)
(* the entrypoint's loop runs forever and Docker restarts its container    *)
(* (restart: unless-stopped). Nobody has to save anything.                 *)
Fairness == /\ WF_vars(Poller)
            /\ \A u \in Updater : WF_vars(Apply(u))
            /\ WF_vars(SeeFlag) /\ WF_vars(Boot)

FairSpec == Spec /\ Fairness

-----------------------------------------------------------------------------
(* _apply_config writes the hash last. So when a hash appears on the       *)
(* volume, both files next to it are those of that hash, and a Cowrie that *)
(* starts now will run them; a beacon that restarts half way through says  *)
(* nothing. Two threads may break this for each other, but only if a save  *)
(* came while one of them was busy with the save before it.                *)
HashNamesFiles ==
    [][hash' # hash /\ hash' # None /\ (Alone \/ orderly) => signal' = Both(hash')]_vars

(* When everything is settled, Cowrie runs the configuration that was      *)
(* saved: if saves wait for the reload before them, none is lost on the    *)
(* way, whatever the two threads and restarts of the beacon do.            *)
SettledRunsConfig == orderly /\ Settled => cowrie = Both(remote)

(* What operators saved last gets reported in the end, whatever the two    *)
(* threads do to each other, so its command can be confirmed.              *)
HashCatchesUp == <>[](remote # None => hash = remote)

(* The threads do not keep each other, or the entrypoint, restarting       *)
(* Cowrie: restarts end when saving and failures do.                       *)
RestartsEnd == <>[](entry = "watch" /\ ~flag)

(* A saved configuration is run, unless it is replaced by another.         *)
SavedConfigRuns ==
    \A c \in Config : remote = c ~> (cowrie = Both(c) \/ remote # c \/ ~orderly)
=============================================================================
