------------------------- MODULE CowrieReloadProofs -------------------------
(***************************************************************************)
(* Proofs about CowrieReload for any number of configurations, saves,      *)
(* restarts and exits.                                                     *)
(***************************************************************************)
EXTENDS CowrieReload, TLAPS

(* What a thread that is applying has written so far.                      *)
Written(u) ==
    /\ updater[u].pc \in {"udb", "flag", "trunc", "hash"} => signal.cfg = updater[u].new
    /\ updater[u].pc \in {"flag", "trunc", "hash"} => signal.udb = updater[u].new

LEMMA TypeInit == Init => TypeOK
<1> SUFFICES ASSUME Init PROVE TypeOK
  OBVIOUS
<1>1. Both(None) \in Files /\ None \in Hash
  BY DEF Both, Files, Hash
<1>2. [pc |-> "idle", new |-> None]
          \in [pc : {"idle", "check", "cfg", "udb", "flag", "trunc", "hash"}, new : Hash]
  BY <1>1
<1>. QED  BY <1>1, <1>2 DEF Init, TypeOK

LEMMA MoveOn ==
    ASSUME TypeOK, NEW u \in Updater,
           NEW pc \in {"idle", "check", "cfg", "udb", "flag", "trunc", "hash"}, Goto(u, pc)
    PROVE  /\ updater' \in [Updater -> [pc : {"idle", "check", "cfg", "udb", "flag", "trunc", "hash"},
                                        new : Hash]]
           /\ updater'[u].pc = pc /\ updater'[u].new = updater[u].new
           /\ \A w \in Updater \ {u} : updater'[w] = updater[w]
<1>1. updater[u] \in [pc : {"idle", "check", "cfg", "udb", "flag", "trunc", "hash"}, new : Hash]
  BY DEF TypeOK
<1>2. updater' = [updater EXCEPT ![u] = [updater[u] EXCEPT !.pc = pc]]
  BY DEF Goto
<1>3. updater'[u] = [updater[u] EXCEPT !.pc = pc]
  BY <1>2 DEF TypeOK
<1>. QED  BY <1>1, <1>2, <1>3 DEF TypeOK

LEMMA TypeNext == TypeOK /\ [Next]_vars => TypeOK'
<1> SUFFICES ASSUME TypeOK, [Next]_vars PROVE TypeOK'
  OBVIOUS
<1> USE DEF TypeOK
<1>1. ASSUME NEW c \in Config, Save(c) PROVE TypeOK'
  BY <1>1 DEF Save, Hash, container
<1>2. CASE LoseJob
  BY <1>2 DEF LoseJob, container, used
<1>3. CASE PollerFetch
  <2>1. [pc |-> "check", new |-> remote]
            \in [pc : {"idle", "check", "cfg", "udb", "flag", "trunc", "hash"}, new : Hash]
    OBVIOUS
  <2>. QED  BY <1>3, <2>1 DEF PollerFetch, container, used
<1>4. CASE PollerCheck
  <2>1. "poller" \in Updater /\ (Goto("poller", "cfg") \/ Goto("poller", "idle"))
    BY <1>4 DEF PollerCheck
  <2>. QED  BY <1>4, <2>1, MoveOn DEF PollerCheck, container, used
<1>5. CASE HandlerFetch
  <2>1. [pc |-> "cfg", new |-> remote]
            \in [pc : {"idle", "check", "cfg", "udb", "flag", "trunc", "hash"}, new : Hash]
    OBVIOUS
  <2>. QED  BY <1>5, <2>1 DEF HandlerFetch, container, used
<1>6. ASSUME NEW u \in Updater, Apply(u) PROVE TypeOK'
  <2>0. updater[u].new \in Hash
    OBVIOUS
  <2>1. CASE WriteCfg(u)
    BY <2>0, <2>1, MoveOn DEF WriteCfg, Files, container, used
  <2>2. CASE WriteUdb(u)
    BY <2>0, <2>2, MoveOn DEF WriteUdb, Files, container, used
  <2>3. CASE WriteFlag(u)
    BY <2>3, MoveOn DEF WriteFlag, container, used
  <2>4. CASE TruncateHash(u)
    BY <2>4, MoveOn DEF TruncateHash, Hash, container, used
  <2>5. CASE WriteHash(u)
    BY <2>0, <2>5, MoveOn DEF WriteHash, container, used
  <2>. QED  BY <1>6, <2>1, <2>2, <2>3, <2>4, <2>5 DEF Apply
<1>7. CASE BeaconRestart
  <2>1. [pc |-> "idle", new |-> None]
            \in [pc : {"idle", "check", "cfg", "udb", "flag", "trunc", "hash"}, new : Hash]
    BY DEF Hash
  <2>. QED  BY <1>7, <2>1 DEF BeaconRestart, container
<1>8. CASE SeeFlag \/ CowrieExits \/ ClearFlag \/ StartCowrie
  <2>1. CASE SeeFlag \/ ClearFlag \/ StartCowrie
    BY <2>1 DEF SeeFlag, ClearFlag, StartCowrie, beacon, used
  <2>2. CASE CowrieExits
    BY <2>2 DEF CowrieExits, beacon
  <2>. QED  BY <1>8, <2>1, <2>2
<1>9. CASE CopyCfg \/ CopyUdb
  BY <1>9 DEF CopyCfg, CopyUdb, Copied, Files, beacon, used
<1>10. CASE UNCHANGED vars
  BY <1>10 DEF vars, beacon, container, used
<1>. QED  BY <1>1, <1>2, <1>3, <1>4, <1>5, <1>6, <1>7, <1>8, <1>9, <1>10
          DEF Next, Poller, Boot

(* Every variable keeps its type, whichever threads the beacon runs.       *)
THEOREM ReloadTypeCorrect == Spec => []TypeOK
BY TypeInit, TypeNext, PTL DEF Spec

-----------------------------------------------------------------------------
(* With the poll loop alone nobody disturbs the files that are written; with *)
(* two threads nobody does as long as they apply the same configuration.   *)
Undisturbed == Alone \/ orderly

Agreed == orderly => \A u \in Updater : ~At(u, "idle") => updater[u].new = remote

AllWritten == Undisturbed => \A u \in Updater : Written(u)

IInv == TypeOK /\ Agreed /\ AllWritten

LEMMA SameFiles ==
    ASSUME Agreed, Undisturbed, NEW u \in Updater, NEW w \in Updater,
           ~At(u, "idle"), ~At(w, "idle")
    PROVE  updater[u].new = updater[w].new
BY DEF Agreed, Undisturbed, Alone

LEMMA IInvInit == Init => IInv
<1>1. Init => TypeOK
  BY TypeInit
<1>2. Init => Agreed
  BY DEF Init, Agreed, At
<1>3. Init => AllWritten
  BY DEF Init, AllWritten, Written
<1>. QED  BY <1>1, <1>2, <1>3 DEF IInv

(* The steps that leave the threads and the files alone.                   *)
LEMMA QuietNext ==
    ASSUME IInv, UNCHANGED <<updater, signal>>,
           UNCHANGED <<remote, orderly>> \/ (orderly' => Idle /\ orderly)
    PROVE  (Agreed /\ AllWritten)'
<1>1. Agreed'
  BY DEF IInv, Agreed, At, Idle
<1>2. AllWritten'
  BY DEF IInv, AllWritten, Undisturbed, Written
<1>. QED  BY <1>1, <1>2

LEMMA ApplyNext ==
    ASSUME IInv, NEW u \in Updater, Apply(u)
    PROVE  (Agreed /\ AllWritten)'
<1> USE DEF IInv
<1>1. UNCHANGED <<remote, orderly>> /\ ~At(u, "idle")
  BY DEF Apply, WriteCfg, WriteUdb, WriteFlag, TruncateHash, WriteHash, At
<1>2. PICK pc \in {"udb", "flag", "trunc", "hash", "idle"} : Goto(u, pc)
  BY DEF Apply, WriteCfg, WriteUdb, WriteFlag, TruncateHash, WriteHash
<1>3. /\ updater'[u].pc = pc /\ updater'[u].new = updater[u].new
      /\ \A w \in Updater \ {u} : updater'[w] = updater[w]
  BY <1>2, MoveOn
<1>4. Agreed'
  BY <1>1, <1>3 DEF Agreed, At
<1>5. ASSUME Undisturbed, NEW w \in Updater PROVE Written(w)'
  <2>1. Written(w) /\ Written(u)
    BY <1>5 DEF AllWritten
  <2>2. ~At(w, "idle") => updater[w].new = updater[u].new
    BY <1>1, <1>5, SameFiles
  <2>3. updater'[w].new = updater[w].new
    BY <1>3
  <2>4. w # u => updater'[w].pc = updater[w].pc
    BY <1>3
  <2>5. CASE WriteCfg(u)
    <3>1. signal'.cfg = updater[u].new /\ signal'.udb = signal.udb /\ pc = "udb"
      BY <2>5, <1>2, <1>3, MoveOn DEF WriteCfg, TypeOK, Files
    <3>. QED  BY <3>1, <2>1, <2>2, <2>3, <2>4, <1>3 DEF Written, At
  <2>6. CASE WriteUdb(u)
    <3>1. signal'.udb = updater[u].new /\ signal'.cfg = signal.cfg /\ pc = "flag" /\ At(u, "udb")
      BY <2>6, <1>2, <1>3, MoveOn DEF WriteUdb, TypeOK, Files
    <3>. QED  BY <3>1, <2>1, <2>2, <2>3, <2>4, <1>3 DEF Written, At
  <2>7. CASE WriteFlag(u) \/ TruncateHash(u) \/ WriteHash(u)
    <3>1. signal' = signal /\ updater[u].pc \in {"flag", "trunc", "hash"}
      BY <2>7 DEF WriteFlag, TruncateHash, WriteHash, At
    <3>. QED  BY <3>1, <2>1, <2>3, <2>4, <1>3 DEF Written
  <2>. QED  BY <2>5, <2>6, <2>7 DEF Apply
<1>6. AllWritten'
  BY <1>1, <1>5 DEF AllWritten, Undisturbed, Alone
<1>. QED  BY <1>4, <1>6

LEMMA IInvNext == IInv /\ [Next]_vars => IInv'
<1> SUFFICES ASSUME IInv, [Next]_vars PROVE (Agreed /\ AllWritten)'
  BY TypeNext DEF IInv
<1>1. ASSUME NEW c \in Config, Save(c) PROVE (Agreed /\ AllWritten)'
  <2>1. UNCHANGED <<updater, signal>> /\ (orderly' => Idle /\ orderly)
    BY <1>1 DEF Save, Settled
  <2>. QED  BY <2>1, QuietNext
<1>2. CASE CowrieExits
  <2>1. UNCHANGED <<updater, signal>> /\ (orderly' => Idle /\ orderly)
    BY <1>2 DEF CowrieExits, Settled, beacon
  <2>. QED  BY <2>1, QuietNext
<1>3. CASE LoseJob \/ SeeFlag \/ Boot \/ UNCHANGED vars
  <2>1. UNCHANGED <<updater, signal, remote, orderly>>
    BY <1>3 DEF LoseJob, SeeFlag, Boot, CopyCfg, CopyUdb, ClearFlag, StartCowrie, beacon, vars
  <2>. QED  BY <2>1, QuietNext
<1>4. CASE PollerFetch
  BY <1>4 DEF PollerFetch, IInv, TypeOK, Agreed, AllWritten, Undisturbed, Written, At, Alone
<1>5. CASE HandlerFetch
  BY <1>5 DEF HandlerFetch, IInv, TypeOK, Agreed, AllWritten, Undisturbed, Written, At, Alone
<1>6. CASE PollerCheck
  <2>1. PICK pc \in {"cfg", "idle"} : Goto("poller", pc)
    BY <1>6 DEF PollerCheck
  <2>2. /\ updater'["poller"].pc = pc /\ updater'["poller"].new = updater["poller"].new
        /\ \A w \in Updater \ {"poller"} : updater'[w] = updater[w]
    BY <1>6, <2>1, MoveOn DEF PollerCheck, IInv
  <2>3. At("poller", "check") /\ UNCHANGED <<remote, orderly, signal>>
    BY <1>6 DEF PollerCheck
  <2>4. Agreed'
    BY <2>2, <2>3 DEF IInv, Agreed, At
  <2>5. AllWritten'
    BY <2>2, <2>3 DEF IInv, AllWritten, Undisturbed, Written, Alone
  <2>. QED  BY <2>4, <2>5
<1>7. ASSUME NEW u \in Updater, Apply(u) PROVE (Agreed /\ AllWritten)'
  BY <1>7, ApplyNext
<1>8. CASE BeaconRestart
  BY <1>8 DEF BeaconRestart, Agreed, AllWritten, Written, At
<1>. QED  BY <1>1, <1>2, <1>3, <1>4, <1>5, <1>6, <1>7, <1>8 DEF Next, Poller

LEMMA HashStep ==
    IInv /\ [Next]_vars =>
        (hash' # hash /\ hash' # None /\ (Alone \/ orderly) => signal' = Both(hash'))
<1> SUFFICES ASSUME IInv, [Next]_vars, hash' # hash, hash' # None, Alone \/ orderly
             PROVE  signal' = Both(hash')
  OBVIOUS
<1>1. PICK u \in Updater : WriteHash(u)
  BY DEF Next, vars, beacon, Save, LoseJob, Poller, PollerFetch, PollerCheck, HandlerFetch, Apply,
         WriteCfg, WriteUdb, WriteFlag, TruncateHash, BeaconRestart, SeeFlag, CowrieExits, Boot,
         CopyCfg, CopyUdb, ClearFlag, StartCowrie
<1>2. Written(u)
  BY DEF IInv, AllWritten, Undisturbed
<1>3. signal.cfg = hash' /\ signal.udb = hash' /\ signal' = signal
  BY <1>1, <1>2 DEF WriteHash, At, Written
<1>. QED  BY <1>3 DEF IInv, TypeOK, Files, Both

(* Whichever threads the beacon runs and whenever it restarts, a hash is   *)
(* never written next to files of another configuration, unless two        *)
(* threads were busy with different ones.                                  *)
THEOREM HashNamesItsFiles == Spec => HashNamesFiles
<1>1. IInv /\ [Next]_vars =>
          [hash' # hash /\ hash' # None /\ (Alone \/ orderly) => signal' = Both(hash')]_vars
  BY HashStep
<1>. QED  BY <1>1, IInvInit, IInvNext, PTL DEF Spec, HashNamesFiles
-----------------------------------------------------------------------------
(* Before the first save nothing happens but exits of Cowrie.              *)
Untouched ==
    remote = None => jobs = 0 /\ Idle /\ signal = Both(None) /\ active = Both(None)

(* Where the saved configuration is, from the volume to the running Cowrie. *)
OnVolume == flag \/ entry # "watch" \/ hash = remote => signal = Both(remote)

Copying ==
    /\ entry \in {"copyUdb", "clearFlag", "start"} => active.cfg = remote
    /\ entry \in {"clearFlag", "start"} => active.udb = remote

Delivered ==
    hash = remote \/ (\E u \in Updater : updater[u].pc \in {"trunc", "hash"}) =>
        flag \/ entry # "watch" \/ cowrie = Both(remote)

SInv == IInv /\ Untouched /\ (orderly => OnVolume /\ Copying /\ Delivered)

LEMMA SInvInit == Init => SInv
BY IInvInit DEF Init, SInv, Untouched, Idle, At, OnVolume, Copying, Delivered

LEMMA BothIs == \A f \in Files : \A h : f = Both(h) <=> f.cfg = h /\ f.udb = h
BY DEF Files, Both

LEMMA UntouchedNext == SInv /\ [Next]_vars => Untouched'
<1> SUFFICES ASSUME SInv, [Next]_vars, remote' = None PROVE Untouched'
  BY DEF Untouched
<1>1. remote = None
  BY ConfigAssumption
     DEF Next, Save, LoseJob, Poller, PollerFetch, PollerCheck, HandlerFetch, Apply, WriteCfg,
         WriteUdb, WriteFlag, TruncateHash, WriteHash, BeaconRestart, SeeFlag, CowrieExits, Boot,
         CopyCfg, CopyUdb, ClearFlag, StartCowrie, vars
<1>2. jobs = 0 /\ Idle /\ signal = Both(None) /\ active = Both(None)
  BY <1>1 DEF SInv, Untouched
<1>3. ~ \E c \in Config : Save(c)
  BY ConfigAssumption DEF Save
<1>4. ~LoseJob /\ ~HandlerFetch /\ ~Poller
  BY <1>1, <1>2 DEF LoseJob, HandlerFetch, Poller, PollerFetch, PollerCheck, Idle, At
<1>5. ~ \E u \in Updater : Apply(u)
  BY <1>2 DEF Apply, WriteCfg, WriteUdb, WriteFlag, TruncateHash, WriteHash, Idle, At
<1>6. CASE BeaconRestart
  BY <1>2, <1>6 DEF BeaconRestart, container, Untouched, Idle, At
<1>7. CASE SeeFlag \/ CowrieExits \/ ClearFlag \/ StartCowrie \/ UNCHANGED vars
  BY <1>2, <1>7 DEF SeeFlag, CowrieExits, ClearFlag, StartCowrie, beacon, container, vars,
                    Untouched, Idle, At
<1>8. CASE CopyCfg \/ CopyUdb
  <2>1. active' = active
    BY <1>2, <1>8 DEF CopyCfg, CopyUdb, Copied, Both
  <2>. QED  BY <1>2, <1>8, <2>1 DEF CopyCfg, CopyUdb, beacon, Untouched, Idle, At
<1>. QED  BY <1>3, <1>4, <1>5, <1>6, <1>7, <1>8 DEF Next, Boot

(* What a thread writes is what is saved.                                  *)
LEMMA ServedApply ==
    ASSUME SInv, orderly, NEW u \in Updater, Apply(u)
    PROVE  (OnVolume /\ Copying /\ Delivered)'
<1>0. TypeOK /\ Written(u) /\ OnVolume /\ Copying /\ Delivered
  BY DEF SInv, IInv, AllWritten, Undisturbed
<1>1. updater[u].new = remote /\ remote' = remote /\ UNCHANGED <<entry, active, cowrie>>
  BY DEF SInv, IInv, Agreed, Apply, WriteCfg, WriteUdb, WriteFlag, TruncateHash, WriteHash, At,
         container
<1>2. Copying'
  BY <1>0, <1>1 DEF Copying
<1>3. remote # None
  BY DEF SInv, Untouched, Apply, WriteCfg, WriteUdb, WriteFlag, TruncateHash, WriteHash, Idle, At
<1>4. signal \in Files /\ signal' \in Files
  BY <1>0, TypeNext DEF Next, TypeOK
<1>5. CASE WriteCfg(u) \/ WriteUdb(u)
  <2>1. /\ hash' = hash /\ flag' = flag
        /\ \A w \in Updater : updater'[w].pc \in {"trunc", "hash"} => updater[w].pc \in {"trunc", "hash"}
    BY <1>0, <1>5, MoveOn DEF WriteCfg, WriteUdb
  <2>2. Delivered'
    BY <1>0, <1>1, <2>1 DEF Delivered
  <2>3. /\ signal'.cfg = signal.cfg \/ signal'.cfg = remote
        /\ signal'.udb = signal.udb \/ signal'.udb = remote
    BY <1>0, <1>1, <1>5 DEF WriteCfg, WriteUdb, TypeOK, Files
  <2>4. OnVolume'
    BY <1>0, <1>1, <1>4, <2>1, <2>3, BothIs DEF OnVolume
  <2>. QED  BY <1>2, <2>2, <2>4
<1>6. CASE WriteFlag(u)
  <2>1. signal.cfg = remote /\ signal.udb = remote /\ signal' = signal /\ flag'
    BY <1>0, <1>1, <1>6 DEF WriteFlag, At, Written
  <2>2. OnVolume' /\ Delivered'
    BY <1>1, <1>4, <2>1, BothIs DEF OnVolume, Delivered
  <2>. QED  BY <1>2, <2>2
<1>7. CASE TruncateHash(u) \/ WriteHash(u)
  <2>1. updater[u].pc \in {"trunc", "hash"} /\ signal' = signal /\ flag' = flag
    BY <1>7 DEF TruncateHash, WriteHash, At
  <2>2. signal = Both(remote)
    BY <1>0, <1>1, <1>4, <2>1, BothIs DEF Written
  <2>3. flag \/ entry # "watch" \/ cowrie = Both(remote)
    BY <1>0, <2>1 DEF Delivered
  <2>4. OnVolume' /\ Delivered'
    BY <1>1, <2>1, <2>2, <2>3 DEF OnVolume, Delivered
  <2>. QED  BY <1>2, <2>4
<1>. QED  BY <1>5, <1>6, <1>7 DEF Apply

LEMMA ServedNext ==
    SInv /\ [Next]_vars => (orderly => OnVolume /\ Copying /\ Delivered)'
<1> SUFFICES ASSUME SInv, [Next]_vars, orderly' PROVE (OnVolume /\ Copying /\ Delivered)'
  OBVIOUS
<1>1. orderly
  BY DEF Next, Save, LoseJob, Poller, PollerFetch, PollerCheck, HandlerFetch, Apply, WriteCfg,
         WriteUdb, WriteFlag, TruncateHash, WriteHash, BeaconRestart, SeeFlag, CowrieExits, Boot,
         CopyCfg, CopyUdb, ClearFlag, StartCowrie, vars
<1>2. TypeOK /\ OnVolume /\ Copying /\ Delivered
  BY <1>1 DEF SInv, IInv
<1>3. signal \in Files /\ active \in Files /\ cowrie \in Files
  BY <1>2 DEF TypeOK
<1>4. ASSUME NEW c \in Config, Save(c) PROVE (OnVolume /\ Copying /\ Delivered)'
  <2>1. /\ Settled /\ remote' = c
        /\ UNCHANGED <<signal, flag, hash, updater, entry, active, cowrie>>
    BY <1>4 DEF Save, container
  <2>2. OnVolume'
    BY <1>2, <2>1 DEF Settled, OnVolume
  <2>3. Copying'
    BY <2>1 DEF Settled, Copying
  <2>4. Delivered'
    BY <1>2, <2>1 DEF Settled, Idle, At, Delivered
  <2>. QED  BY <2>2, <2>3, <2>4
<1>5. CASE LoseJob \/ Poller \/ HandlerFetch \/ BeaconRestart \/ UNCHANGED vars
  <2>1. UNCHANGED <<remote, signal, flag, hash, entry, active, cowrie>>
    BY <1>5 DEF LoseJob, Poller, PollerFetch, PollerCheck, HandlerFetch, BeaconRestart, vars,
                beacon, container
  <2>2. \A u \in Updater : updater'[u].pc \in {"trunc", "hash"} =>
                              updater[u].pc \in {"trunc", "hash"}
    <3>1. CASE LoseJob \/ UNCHANGED vars
      BY <3>1 DEF LoseJob, vars, beacon
    <3>2. CASE PollerFetch \/ HandlerFetch
      <4>1. PICK w \in Updater, t \in {"check", "cfg"} :
                updater' = [updater EXCEPT ![w] = [pc |-> t, new |-> remote]]
        BY <3>2 DEF PollerFetch, HandlerFetch
      <4>2. ASSUME NEW u \in Updater
            PROVE  updater'[u] = IF u = w THEN [pc |-> t, new |-> remote] ELSE updater[u]
        BY <1>2, <4>1 DEF TypeOK
      <4>. QED  BY <4>2
    <3>3. CASE PollerCheck
      <4>1. PICK pc \in {"cfg", "idle"} : Goto("poller", pc)
        BY <3>3 DEF PollerCheck
      <4>. QED  BY <1>2, <3>3, <4>1, MoveOn DEF PollerCheck
    <3>4. CASE BeaconRestart
      BY <3>4 DEF BeaconRestart
    <3>. QED  BY <1>5, <3>1, <3>2, <3>3, <3>4 DEF Poller
  <2>. QED  BY <1>2, <2>1, <2>2 DEF OnVolume, Copying, Delivered
<1>6. ASSUME NEW u \in Updater, Apply(u) PROVE (OnVolume /\ Copying /\ Delivered)'
  BY <1>1, <1>6, ServedApply
<1>7. CASE SeeFlag \/ CowrieExits
  <2>1. /\ UNCHANGED <<remote, signal, hash, updater, active, cowrie>> /\ entry' = "copyCfg"
        /\ flag \/ hash = remote
    BY <1>7 DEF SeeFlag, CowrieExits, Settled, beacon
  <2>. QED  BY <1>2, <2>1 DEF OnVolume, Copying, Delivered
<1>8. CASE CopyCfg \/ CopyUdb
  <2>1. /\ UNCHANGED <<remote, signal, flag, hash, updater, cowrie>> /\ entry # "watch"
        /\ entry' # "watch" /\ signal = Both(remote)
    BY <1>2, <1>8 DEF CopyCfg, CopyUdb, beacon, OnVolume
  <2>2. signal.cfg = remote /\ signal.udb = remote
    BY <2>1 DEF Both
  <2>3. remote = None => active.cfg = None /\ active.udb = None
    BY DEF SInv, Untouched, Both
  <2>4. Copying'
    BY <1>2, <1>3, <1>8, <2>1, <2>2, <2>3 DEF CopyCfg, CopyUdb, Copied, Copying, Files
  <2>. QED  BY <2>1, <2>4 DEF OnVolume, Delivered
<1>9. CASE ClearFlag
  <2>1. /\ UNCHANGED <<remote, signal, hash, updater, active, cowrie>>
        /\ entry = "clearFlag" /\ entry' = "start"
    BY <1>9 DEF ClearFlag, beacon
  <2>. QED  BY <1>2, <2>1 DEF OnVolume, Copying, Delivered
<1>10. CASE StartCowrie
  <2>1. /\ UNCHANGED <<remote, signal, flag, hash, updater, active>>
        /\ entry = "start" /\ entry' = "watch" /\ cowrie' = active
    BY <1>10 DEF StartCowrie, beacon
  <2>2. active = Both(remote)
    BY <1>2, <1>3, <2>1, BothIs DEF Copying
  <2>. QED  BY <1>2, <2>1, <2>2 DEF OnVolume, Copying, Delivered
<1>. QED  BY <1>4, <1>5, <1>6, <1>7, <1>8, <1>9, <1>10 DEF Next, Boot

(* Once everything has settled after orderly saves, Cowrie runs what was   *)
(* saved last, for any number of configurations, saves and faults.         *)
THEOREM SettledRunsSaved == Spec => []SettledRunsConfig
<1>1. SInv /\ [Next]_vars => SInv'
  BY IInvNext, UntouchedNext, ServedNext DEF SInv
<1>2. SInv => SettledRunsConfig
  BY DEF SInv, SettledRunsConfig, Settled, Delivered
<1>. QED  BY SInvInit, <1>1, <1>2, PTL DEF Spec
=============================================================================
