---------------------------- MODULE LogShipper ----------------------------
(***************************************************************************)
(* The threads that tail a honeypot's JSON log and post its lines to the   *)
(* ingest API (sensors/opencanary/shipper.py, sensors/dionaea/shipper.py). *)
(* OpenCanary's saves its position once a line is accepted, Dionaea's      *)
(* before it posts the line. The position is in a file that is emptied and *)
(* then written; 0, or an empty file, makes the next start skip to the end *)
(* of the log (READ_FROM_END, on in every deployment).                     *)
(*                                                                         *)
(* Positions count half lines, for a line may be read while its writer is  *)
(* half way. The line at positions 2i - 2 and 2i - 1 of a file is the i-th *)
(* since the log was last truncated, and has the number base + i.          *)
(***************************************************************************)
EXTENDS Naturals, FiniteSets

CONSTANTS MaxLine,   \* bound: lines ever logged
          Valid,     \* the lines that hold an event to ship
          Poison,    \* bound: lines that may be impossible to ship
          MaxFaults  \* bound: stops, failed posts and saves, truncations

Line == 1..MaxLine

ASSUME BoundAssumption == MaxLine \in Nat /\ MaxFaults \in Nat
ASSUME ValidAssumption == Valid \subseteq Line /\ Poison \subseteq Line

VARIABLES
  sensor,    \* which of the two shippers this is
  poison,    \* lines that the mapping to an event raises on, or the API always refuses
  base,      \* lines that truncations have removed from the log
  size,      \* half lines in the log
  saved,     \* the offset file
  thread,    \* _tail_file or _tail_loop
  accepted,  \* accepted[l]: how often the API has accepted line l
  stale,     \* history: the thread's position is one in the log before its truncation
  outdated,  \* history: so is the one in the offset file
  lost,      \* history: lines that were torn, jumped, truncated away or given up
  faults

setup == <<sensor, poison>>
logVars == <<base, size>>
history == <<stale, outdated, lost>>
vars == <<setup, logVars, saved, thread, accepted, history, faults>>

Position == 0..(2 * MaxLine)

(* offset, the position of the open file, the line in hand (0 for none),    *)
(* and where a save goes on.                                                *)
Threads == [at : {"down", "start", "look", "read", "post", "clear", "write"},
            offset : Position, pos : Position, line : Line \cup {0},
            then : {"look", "read", "post"}]

TypeOK ==
  /\ sensor \in {"opencanary", "dionaea"}
  /\ poison \subseteq Line
  /\ base \in 0..MaxLine
  /\ size \in Position
  /\ base + (size + 1) \div 2 <= MaxLine
  /\ saved \in Position
  /\ thread \in Threads
  /\ accepted \in [Line -> Nat]
  /\ stale \in BOOLEAN
  /\ outdated \in BOOLEAN
  /\ lost \subseteq Line
  /\ faults \in 0..MaxFaults

Init ==
  /\ sensor \in {"opencanary", "dionaea"}
  /\ poison \in SUBSET Poison
  /\ base = 0
  /\ size = 0
  /\ saved = 0
  /\ thread = [at |-> "down", offset |-> 0, pos |-> 0, line |-> 0, then |-> "look"]
  /\ accepted = [l \in Line |-> 0]
  /\ stale = FALSE
  /\ outdated = FALSE
  /\ lost = {}
  /\ faults = 0

(* The lines before a position, the last one whole or not. *)
Before(p) == {l \in Line : base < l /\ 2 * (l - base) < p + 2}

Fault == faults < MaxFaults /\ faults' = faults + 1
-----------------------------------------------------------------------------
(* The log *)

(* The honeypot writes the first or the second half of a line. *)
WriteHalf ==
  /\ base + (size + 2) \div 2 <= MaxLine
  /\ size' = size + 1
  /\ UNCHANGED <<setup, base, saved, thread, accepted, history, faults>>

(* copytruncate, which Dionaea's log is rotated with: what has not been     *)
(* read by then is only in the copy.                                        *)
Truncate ==
  /\ sensor = "dionaea" /\ Fault
  /\ size > 0 /\ size % 2 = 0
  /\ base' = base + size \div 2
  /\ size' = 0
  /\ stale' = TRUE
  /\ outdated' = TRUE
  /\ lost' = lost \cup Before(size)
  /\ UNCHANGED <<setup, saved, thread, accepted>>
-----------------------------------------------------------------------------
(* The thread *)

Goto(at) == thread' = [thread EXCEPT !.at = at]

(* _save_offset, then on to `then'. *)
SaveAnd(t, offset, then) ==
  thread' = [t EXCEPT !.at = "clear", !.offset = offset, !.then = then]

Boot ==
  /\ thread.at = "down"
  /\ thread' = [thread EXCEPT !.at = "start", !.offset = saved, !.line = 0]
  /\ stale' = outdated
  /\ UNCHANGED <<setup, logVars, saved, accepted, outdated, lost, faults>>

(* The first look at the log: without a position the thread starts at the   *)
(* end. There is none when the offset file is empty; but also when it says  *)
(* 0, as it does when the log was empty at the first start.                 *)
Start ==
  /\ thread.at = "start"
  /\ IF thread.offset = 0
     THEN /\ SaveAnd(thread, size, "look")
          /\ lost' = lost \cup Before(size)
          /\ stale' = FALSE
          /\ outdated' = FALSE
     ELSE Goto("look") /\ UNCHANGED history
  /\ UNCHANGED <<setup, logVars, saved, accepted, faults>>

Opened(offset) == thread' = [thread EXCEPT !.at = "read", !.offset = offset, !.pos = offset]

(* Faulty: a log that has shrunk is waited for.                             *)
LookBlind ==
  /\ thread.at = "look"
  /\ Opened(thread.offset)
  /\ UNCHANGED <<setup, logVars, saved, accepted, history, faults>>

(* A log smaller than the position has been truncated; one that has grown   *)
(* past it again cannot be told from one that was not.                      *)
Look ==
  /\ thread.at = "look"
  /\ IF size < thread.offset
     THEN SaveAnd(thread, 0, "look") /\ UNCHANGED lost
     ELSE /\ Opened(thread.offset)
          /\ lost' = IF stale THEN lost \cup Before(thread.offset) ELSE lost
  /\ stale' = FALSE
  /\ UNCHANGED <<setup, logVars, saved, accepted, outdated, faults>>

Lesser(a, b) == IF a < b THEN a ELSE b

(* readline() returns the rest of the line, or what is there of it. *)
EndOfLine(p) == Lesser(2 * (p \div 2) + 2, size)
Whole(p) == p % 2 = 0 /\ EndOfLine(p) = p + 2

(* Faulty: the position is saved before the line is posted, here too.       *)
ReadSavesFirst ==
  LET p == thread.pos  l == base + p \div 2 + 1  t == [thread EXCEPT !.pos = EndOfLine(p)] IN
  /\ thread.at = "read" /\ p < size
  /\ SaveAnd([t EXCEPT !.line = IF Whole(p) /\ l \in Valid \cup poison THEN l ELSE 0], EndOfLine(p),
             IF Whole(p) /\ l \in Valid \cup poison THEN "post" ELSE "read")
  /\ lost' = lost \cup (IF stale THEN Before(p) ELSE {}) \cup (IF Whole(p) THEN {} ELSE {l})
  /\ stale' = FALSE
  /\ UNCHANGED <<setup, logVars, saved, accepted, outdated, faults>>

(* A line that is not JSON, or that the mapping finds no event in, is       *)
(* passed over. The mapping itself is part of the post.                     *)
Read ==
  LET p == thread.pos
      l == base + p \div 2 + 1
      ships == Whole(p) /\ l \in Valid \cup poison
      t == [thread EXCEPT !.pos = EndOfLine(p), !.line = IF ships THEN l ELSE 0]
  IN
  /\ thread.at = "read" /\ p < size
  /\ IF ships /\ sensor = "opencanary"
     THEN thread' = [t EXCEPT !.at = "post"]
     ELSE SaveAnd(t, EndOfLine(p), IF ships THEN "post" ELSE "read")
  /\ lost' = lost \cup (IF stale THEN Before(p) ELSE {}) \cup (IF Whole(p) THEN {} ELSE {l})
  /\ stale' = FALSE
  /\ UNCHANGED <<setup, logVars, saved, accepted, outdated, faults>>

(* At the end of the log, the thread looks again in a second.               *)
ReadEnd ==
  /\ thread.at = "read" /\ thread.pos >= size
  /\ SaveAnd(thread, thread.pos, "look")
  /\ UNCHANGED <<setup, logVars, saved, accepted, history, faults>>

Clear ==
  /\ thread.at = "clear"
  /\ saved' = 0
  /\ Goto("write")
  /\ UNCHANGED <<setup, logVars, accepted, history, faults>>

Write ==
  /\ thread.at = "write"
  /\ saved' = thread.offset
  /\ outdated' = stale
  /\ Goto(thread.then)
  /\ UNCHANGED <<setup, logVars, accepted, stale, lost, faults>>

(* The file cannot be opened, or not be written: the position is already    *)
(* the thread's, and it looks at the log again. What it was to post after   *)
(* the save it never posts.                                                 *)
SaveFails ==
  /\ thread.at \in {"clear", "write"} /\ Fault
  /\ thread' = [thread EXCEPT !.at = "look", !.line = 0]
  /\ lost' = IF thread.then = "post" THEN lost \cup {thread.line} ELSE lost
  /\ UNCHANGED <<setup, logVars, saved, accepted, stale, outdated>>

(* Faulty: OpenCanary's loop forgets to take the position over.             *)
PostedUnsaved ==
  /\ thread.at = "post" /\ thread.line \notin poison
  /\ accepted' = [accepted EXCEPT ![thread.line] = @ + 1]
  /\ thread' = [thread EXCEPT !.at = IF sensor = "opencanary" THEN "look" ELSE "read",
                              !.line = 0]
  /\ UNCHANGED <<setup, logVars, saved, history, faults>>

(* The API answers 200 or 201.                                              *)
Posted ==
  /\ thread.at = "post" /\ thread.line \notin poison
  /\ accepted' = [accepted EXCEPT ![thread.line] = @ + 1]
  /\ IF sensor = "opencanary"
     THEN SaveAnd([thread EXCEPT !.line = 0], thread.pos, "read")
     ELSE thread' = [thread EXCEPT !.at = "read", !.line = 0]
  /\ UNCHANGED <<setup, logVars, saved, history, faults>>

(* Faulty: OpenCanary's shipper goes on with the next line too.             *)
PostFailsGoesOn ==
  /\ thread.at = "post" /\ thread.line \notin poison /\ Fault
  /\ accepted' \in {accepted, [accepted EXCEPT ![thread.line] = @ + 1]}
  /\ thread' = [thread EXCEPT !.at = "read", !.line = 0]
  /\ lost' = IF sensor = "dionaea" THEN lost \cup {thread.line} ELSE lost
  /\ UNCHANGED <<setup, logVars, saved, stale, outdated>>

(* Any other answer, or none: the API may have accepted the line. Dionaea's *)
(* shipper goes on with the next line, OpenCanary's looks at the log again. *)
PostFails ==
  /\ thread.at = "post" /\ thread.line \notin poison /\ Fault
  /\ accepted' \in {accepted, [accepted EXCEPT ![thread.line] = @ + 1]}
  /\ thread' = [thread EXCEPT !.at = IF sensor = "opencanary" THEN "look" ELSE "read",
                              !.line = 0]
  /\ lost' = IF sensor = "dionaea" THEN lost \cup {thread.line} ELSE lost
  /\ UNCHANGED <<setup, logVars, saved, stale, outdated>>

(* A line that cannot be shipped is in the way of OpenCanary's shipper for  *)
(* good: it looks at the log again, and the position has not moved.         *)
(* Dionaea's has moved it before, and goes on, with the next line or, when  *)
(* the mapping has raised, with another look.                               *)
Spoils ==
  /\ thread.at = "post" /\ thread.line \in poison
  /\ IF sensor = "opencanary"
     THEN thread' = [thread EXCEPT !.at = "look", !.line = 0] /\ UNCHANGED lost
     ELSE /\ \E at \in {"look", "read"} : thread' = [thread EXCEPT !.at = at, !.line = 0]
          /\ lost' = lost \cup {thread.line}
  /\ UNCHANGED <<setup, logVars, saved, accepted, stale, outdated, faults>>

(* The container stops, with a line in hand or not.                         *)
Stop ==
  /\ thread.at # "down" /\ Fault
  /\ thread' = [thread EXCEPT !.at = "down", !.line = 0]
  /\ lost' = IF sensor = "dionaea" /\ thread.at = "post"
             THEN lost \cup {thread.line} ELSE lost
  /\ UNCHANGED <<setup, logVars, saved, accepted, stale, outdated>>

ThreadStep == Boot \/ Start \/ Look \/ Read \/ ReadEnd \/ Clear \/ Write \/ Posted \/ Spoils

Next == WriteHalf \/ Truncate \/ ThreadStep \/ SaveFails \/ PostFails \/ Stop

Spec == Init /\ [][Next]_vars

(* Docker restarts the container, and the loop never ends.                  *)
FairSpec == Spec /\ WF_vars(ThreadStep)
-----------------------------------------------------------------------------
(* A line that the offset file says is done was accepted, is in hand, or    *)
(* was lost in one of the ways that are known: read half written, skipped   *)
(* by a start without a position, truncated away, or, by Dionaea's shipper, *)
(* given up. In the middle of a save, a stop makes the next start skip.     *)
(* Nothing can be said of a position in a log that has been truncated.      *)
DoneIsAccounted ==
  ~outdated => \A l \in Before(saved) \cap Valid :
               accepted[l] > 0 \/ l \in lost \/ thread.line = l

(* Lines reach the API in the order of the log: none overtakes one that is  *)
(* still to come, not even when that one is posted again.                   *)
InOrder ==
  \A k, l \in Valid : k < l /\ accepted[l] > 0 => accepted[k] > 0 \/ k \in lost

(* Dionaea's shipper never posts a line twice, and OpenCanary's only after  *)
(* a fault each time.                                                       *)
RepeatsBounded ==
  \A l \in Line : accepted[l] <= IF sensor = "opencanary" THEN 1 + faults ELSE 1

(* OpenCanary's shipper never gets past a line that cannot be shipped.      *)
Blocked(l) == sensor = "opencanary" /\ \E k \in poison : k <= l

(* The thread gets on, whatever happened to its position and to the log: a  *)
(* line that is logged is accepted in the end, or lost in a way that is     *)
(* known; only OpenCanary's lines starve, from the first that cannot be     *)
(* shipped on.                                                              *)
EveryLineDealtWith ==
  \A l \in Valid :
    base + size \div 2 >= l ~> accepted[l] > 0 \/ l \in lost \/ Blocked(l)
=============================================================================
