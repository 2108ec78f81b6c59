-------------------------- MODULE LogShipperProofs --------------------------
(***************************************************************************)
(* Proofs about LogShipper, for a log of any length and any number of      *)
(* faults.                                                                 *)
(***************************************************************************)
EXTENDS LogShipper, Integers, TLAPS

(* Where a line of this log ends. *)
End(l) == 2 * (l - base)

(* The thread reads, or will when the save it is in the middle of is done.  *)
HasOpened ==
  \/ thread.at \in {"read", "post"}
  \/ thread.at \in {"clear", "write"} /\ thread.then \in {"read", "post"}

(* Only the log of Dionaea is truncated. *)
Sensors == sensor = "opencanary" => base = 0 /\ ~stale /\ ~outdated

(* A line is in hand exactly when the thread posts it or saves first. *)
Hands ==
  /\ thread.line # 0 => thread.line \in Valid \cup poison
  /\ thread.line # 0 <=>
       thread.at = "post" \/ (thread.at \in {"clear", "write"} /\ thread.then = "post")

(* The file, the offset and the position follow each other, and lie in the  *)
(* log unless they are those of the log before its truncation.              *)
Places ==
  /\ stale => outdated
  /\ thread.at = "start" => saved = thread.offset /\ stale = outdated
  /\ thread.at = "write" => saved = 0
  /\ HasOpened => thread.offset <= thread.pos
  /\ ~outdated => /\ saved <= size
                  /\ thread.at # "down" => saved <= thread.offset
  /\ ~stale => /\ thread.at # "down" => thread.offset <= size
               /\ HasOpened => thread.pos <= size

(* The line in hand ends at the position. Dionaea's shipper has passed it,  *)
(* or is about to save that it has; OpenCanary's has not.                   *)
InHand ==
  thread.line > base =>
    /\ ~stale /\ thread.pos = End(thread.line) /\ thread.pos <= size
    /\ sensor = "dionaea" => thread.offset = thread.pos
    /\ sensor = "dionaea" /\ thread.at = "post" => saved = thread.pos /\ ~outdated
    /\ sensor = "opencanary" => thread.at = "post" /\ thread.offset + 2 <= thread.pos
    /\ thread.at = "clear" /\ ~outdated => saved + 2 <= thread.pos

(* What lies before a position is accepted, lost or in hand. *)
Accounted(p) ==
  \A l \in Before(p) \cap Valid : accepted[l] > 0 \/ l \in lost \/ thread.line = l

AllAccounted ==
  /\ ~outdated => Accounted(saved)
  /\ ~stale => /\ thread.at # "down" => Accounted(thread.offset)
               /\ HasOpened => Accounted(thread.pos)

(* What was truncated away is lost. *)
Truncated == \A l \in Line : l <= base => l \in lost

(* Dionaea's shipper is past what was accepted. *)
Once ==
  sensor = "dionaea" => \A l \in Line :
    /\ accepted[l] <= 1
    /\ thread.line = l => accepted[l] = 0
    /\ accepted[l] > 0 /\ l > base =>
         /\ ~stale /\ ~outdated /\ End(l) <= size
         /\ saved = 0 \/ saved >= End(l)
         /\ thread.at \notin {"down", "start"} => thread.offset >= End(l)

(* OpenCanary's shipper is past what was accepted more often than there     *)
(* were faults, and each fault makes it go back once.                       *)
Repeats ==
  sensor = "opencanary" => \A l \in Line :
    /\ accepted[l] <= 1 + faults
    /\ accepted[l] > faults =>
         /\ thread.at \notin {"down", "start"} /\ thread.offset >= End(l)
         /\ End(l) <= size

IInv ==
  /\ TypeOK /\ Sensors /\ Hands /\ Places /\ InHand
  /\ AllAccounted /\ Truncated /\ Once /\ Repeats /\ InOrder

LEMMA InitIInv == Init => IInv
<1> SUFFICES ASSUME Init PROVE IInv
  OBVIOUS
<1>1. MaxLine \in Nat /\ MaxFaults \in Nat
  BY BoundAssumption
<1>2. TypeOK
  <2>1. 0 \in Position /\ 0 \in 0..MaxLine /\ 0 \in 0..MaxFaults /\ (0 + 1) \div 2 = 0
    BY <1>1 DEF Position
  <2>2. thread \in Threads
    BY <2>1 DEF Init, Threads
  <2>3. accepted \in [Line -> Nat]
    BY DEF Init
  <2>4. base + (size + 1) \div 2 <= MaxLine
    BY <1>1 DEF Init
  <2>5. base \in 0..MaxLine /\ size \in Position /\ saved \in Position /\ faults \in 0..MaxFaults
    BY <2>1 DEF Init
  <2>. QED  BY <2>2, <2>3, <2>4, <2>5, ValidAssumption DEF Init, TypeOK
<1>3. \A p : p = 0 => Before(p) = {}
  BY <1>1 DEF Init, Before, Line
<1>4. AllAccounted
  BY <1>3 DEF Init, AllAccounted, Accounted, HasOpened
<1>5. Truncated
  BY <1>1 DEF Init, Truncated, Line
<1>6. \A l \in Line : accepted[l] = 0
  BY DEF Init
<1>. QED
  BY <1>1, <1>2, <1>4, <1>5, <1>6, ValidAssumption
     DEF Init, IInv, Sensors, Hands, Places, InHand, Once, Repeats, InOrder, HasOpened, Line

(* The types, as numbers. *)
LEMMA Types ==
  ASSUME TypeOK
  PROVE  /\ MaxLine \in Nat /\ MaxFaults \in Nat /\ base \in Nat /\ base <= MaxLine
         /\ size \in Nat /\ size <= 2 * MaxLine /\ saved \in Nat /\ saved <= 2 * MaxLine
         /\ faults \in Nat /\ faults <= MaxFaults
         /\ thread.offset \in Nat /\ thread.offset <= 2 * MaxLine
         /\ thread.pos \in Nat /\ thread.pos <= 2 * MaxLine
         /\ thread.line \in Nat /\ thread.line <= MaxLine
         /\ thread.at \in {"down", "start", "look", "read", "post", "clear", "write"}
         /\ thread.then \in {"look", "read", "post"}
         /\ thread = [at |-> thread.at, offset |-> thread.offset, pos |-> thread.pos,
                      line |-> thread.line, then |-> thread.then]
         /\ accepted \in [Line -> Nat] /\ Line \subseteq Nat
         /\ 2 * (base + (size + 1) \div 2) <= 2 * MaxLine
BY BoundAssumption DEF TypeOK, Threads, Position, Line

(* A half line is written. *)
LEMMA WriteHalfKeeps == ASSUME IInv, WriteHalf PROVE IInv'
<1>0. /\ size' = size + 1 /\ base + (size + 2) \div 2 <= MaxLine
      /\ UNCHANGED <<sensor, poison, base, saved, thread, accepted, history, faults>>
  BY DEF WriteHalf, setup
<1>1. TypeOK'
  BY <1>0, Types DEF IInv, TypeOK, Position, history
<1>2. \A p : Before(p)' = Before(p)
  BY <1>0 DEF Before
<1>3. AllAccounted'
  BY <1>0, <1>2 DEF IInv, AllAccounted, Accounted, HasOpened, history
<1>4. (Places /\ InHand)'
  BY <1>0, Types DEF IInv, Places, InHand, HasOpened, End, history
<1>5. (Once /\ Repeats)'
  BY <1>0, Types DEF IInv, Once, Repeats, End, history
<1>6. (Sensors /\ Hands /\ Truncated /\ InOrder)'
  BY <1>0 DEF IInv, Sensors, Hands, Truncated, InOrder, history
<1>. QED  BY <1>1, <1>3, <1>4, <1>5, <1>6 DEF IInv

(* The log is truncated. *)
LEMMA TruncateKeeps == ASSUME IInv, Truncate PROVE IInv'
<1>0. /\ sensor = "dionaea" /\ faults < MaxFaults /\ faults' = faults + 1 /\ size % 2 = 0
      /\ base' = base + size \div 2 /\ size' = 0 /\ stale' = TRUE /\ outdated' = TRUE
      /\ lost' = lost \cup Before(size) /\ UNCHANGED <<sensor, poison, saved, thread, accepted>>
  BY DEF Truncate, Fault, setup
<1>1. TypeOK'
  BY <1>0, Types DEF IInv, TypeOK, Position, Before
<1>2. \A l \in Nat : End(l) <= size => l <= base'
  BY <1>0, Types DEF IInv, End
<1>3. Truncated'
  <2>1. \A l \in Line : l <= base' => l <= base \/ l \in Before(size)
    BY <1>0, Types DEF IInv, Before
  <2>. QED  BY <1>0, <2>1 DEF IInv, Truncated
<1>4. Once'
  BY <1>0, <1>2, Types DEF IInv, Once
<1>5. InHand'
  BY <1>0, <1>2, Types DEF IInv, InHand
<1>6. (Sensors /\ Hands /\ Places /\ AllAccounted /\ Repeats /\ InOrder)'
  BY <1>0 DEF IInv, Sensors, Hands, Places, AllAccounted, Repeats, InOrder, HasOpened
<1>. QED  BY <1>1, <1>3, <1>4, <1>5, <1>6 DEF IInv

(* The thread begins. *)
LEMMA BootKeeps == ASSUME IInv, Boot PROVE IInv'
<1>0. /\ thread.at = "down"
      /\ thread'.at = "start" /\ thread'.offset = saved /\ thread'.line = 0
      /\ thread' \in Threads
      /\ UNCHANGED <<sensor, poison, base, size, saved, accepted, outdated, lost, faults>>
      /\ stale' = outdated
  BY Types DEF IInv, TypeOK, Boot, setup, logVars, history, Threads
<1>1. TypeOK'
  BY <1>0 DEF IInv, TypeOK
<1>2. thread.line = 0
  BY <1>0 DEF IInv, Hands
<1>3. AllAccounted'
  BY <1>0, <1>2 DEF IInv, AllAccounted, Accounted, Before, HasOpened
<1>4. (Sensors /\ Hands /\ Places /\ InHand)'
  BY <1>0, <1>2, Types DEF IInv, Sensors, Hands, Places, InHand, HasOpened
<1>5. (Once /\ Repeats /\ Truncated /\ InOrder)'
  BY <1>0, <1>2, Types DEF IInv, Once, Repeats, Truncated, InOrder, End, Line
<1>. QED  BY <1>1, <1>3, <1>4, <1>5 DEF IInv
(* What a thread that saves keeps of itself. *)
LEMMA SaveFields ==
  ASSUME NEW t \in Threads, NEW offset \in Position, NEW then \in {"look", "read", "post"},
         SaveAnd(t, offset, then)
  PROVE  /\ thread' \in Threads /\ thread'.at = "clear" /\ thread'.offset = offset
         /\ thread'.then = then /\ thread'.pos = t.pos /\ thread'.line = t.line
BY DEF SaveAnd, Threads

LEMMA GotoFields ==
  ASSUME TypeOK, NEW at \in {"down", "start", "look", "read", "post", "clear", "write"}, Goto(at)
  PROVE  /\ thread' \in Threads /\ thread'.at = at /\ thread'.offset = thread.offset
         /\ thread'.then = thread.then /\ thread'.pos = thread.pos /\ thread'.line = thread.line
BY DEF Goto, TypeOK, Threads

(* The first look at the log. *)
LEMMA StartKeeps == ASSUME IInv, Start PROVE IInv'
<1>0. /\ thread.at = "start" /\ thread.line = 0 /\ saved = thread.offset /\ stale = outdated
      /\ UNCHANGED <<sensor, poison, base, size, saved, accepted, faults>>
      /\ TypeOK /\ Line \subseteq Nat
  BY Types DEF IInv, Start, setup, logVars, Hands, Places
<1>1. CASE thread.offset = 0
  <2>1. /\ thread' \in Threads /\ thread'.at = "clear" /\ thread'.offset = size
        /\ thread'.then = "look" /\ thread'.line = 0
        /\ lost' = lost \cup Before(size) /\ stale' = FALSE /\ outdated' = FALSE
    BY <1>0, <1>1, SaveFields DEF Start, TypeOK
  <2>2. TypeOK'
    BY <1>0, <2>1 DEF TypeOK, Before
  <2>3. Before(saved) = {}
    BY <1>0, <1>1, Types DEF Before
  <2>4. AllAccounted'
    BY <1>0, <2>1, <2>3 DEF AllAccounted, Accounted, Before, HasOpened
  <2>5. (Sensors /\ Hands /\ Places /\ InHand)'
    BY <1>0, <1>1, <2>1, Types DEF IInv, Sensors, Hands, Places, InHand, HasOpened
  <2>6. (Truncated /\ InOrder)'
    BY <1>0, <2>1 DEF IInv, Truncated, InOrder
  <2>7. Once'
    BY <1>0, <1>1, <2>1 DEF IInv, Once, End
  <2>8. Repeats'
    BY <1>0, <2>1 DEF IInv, Repeats, End
  <2>. QED  BY <2>2, <2>4, <2>5, <2>6, <2>7, <2>8 DEF IInv
<1>2. CASE thread.offset # 0
  <2>1. /\ thread' \in Threads /\ thread'.at = "look" /\ thread'.offset = thread.offset
        /\ thread'.line = 0 /\ UNCHANGED <<stale, outdated, lost>>
    BY <1>0, <1>2, GotoFields DEF Start, history
  <2>2. TypeOK'
    BY <1>0, <2>1 DEF TypeOK
  <2>3. AllAccounted'
    BY <1>0, <2>1 DEF IInv, AllAccounted, Accounted, Before, HasOpened
  <2>4. (Sensors /\ Hands /\ Places /\ InHand)'
    BY <1>0, <2>1, Types DEF IInv, Sensors, Hands, Places, InHand, HasOpened
  <2>5. (Truncated /\ InOrder)'
    BY <1>0, <2>1 DEF IInv, Truncated, InOrder
  <2>6. Once'
    BY <1>0, <1>2, <2>1 DEF IInv, Once, End
  <2>7. Repeats'
    BY <1>0, <2>1 DEF IInv, Repeats, End
  <2>. QED  BY <2>2, <2>3, <2>4, <2>5, <2>6, <2>7 DEF IInv
<1>. QED  BY <1>1, <1>2

(* It looks at the log, and opens it unless it has shrunk. *)
LEMMA LookKeeps == ASSUME IInv, Look PROVE IInv'
<1>0. /\ thread.at = "look" /\ thread.line = 0 /\ stale' = FALSE
      /\ UNCHANGED <<sensor, poison, base, size, saved, accepted, outdated, faults>>
      /\ TypeOK /\ Line \subseteq Nat
  BY Types DEF IInv, Look, setup, logVars, Hands, Places
<1>1. CASE size < thread.offset
  <2>1. 0 \in Position
    BY Types DEF Position, IInv
  <2>2. /\ thread' \in Threads /\ thread'.at = "clear" /\ thread'.offset = 0
        /\ thread'.then = "look" /\ thread'.line = 0 /\ lost' = lost
    BY <1>0, <1>1, <2>1, SaveFields DEF Look, TypeOK
  <2>3. stale /\ outdated
    BY <1>0, <1>1, Types DEF IInv, Places, TypeOK
  <2>4. TypeOK'
    BY <1>0, <2>2 DEF TypeOK
  <2>5. (AllAccounted /\ Truncated /\ InOrder)'
    <3>1. \A p : p = 0 => Before(p) = {}
      BY <1>0, Types DEF Before
    <3>. QED  BY <1>0, <2>2, <2>3, <3>1
              DEF IInv, AllAccounted, Accounted, Before, HasOpened, Truncated, InOrder
  <2>6. (Sensors /\ Hands /\ Places /\ InHand)'
    BY <1>0, <2>2, <2>3, Types DEF IInv, Sensors, Hands, Places, InHand, HasOpened
  <2>7. (Once /\ Repeats)'
    BY <1>0, <2>2, <2>3 DEF IInv, Once, Repeats, Sensors
  <2>. QED  BY <2>4, <2>5, <2>6, <2>7 DEF IInv
<1>2. CASE ~(size < thread.offset)
  <2>1. /\ thread' \in Threads /\ thread'.at = "read" /\ thread'.offset = thread.offset
        /\ thread'.pos = thread.offset /\ thread'.line = 0
        /\ lost' = IF stale THEN lost \cup Before(thread.offset) ELSE lost
    BY <1>0, <1>2 DEF Look, Opened, TypeOK, Threads
  <2>2. TypeOK'
    BY <1>0, <2>1 DEF TypeOK, Before
  <2>3. Accounted(thread.offset)'
    BY <1>0, <2>1 DEF IInv, AllAccounted, Accounted, Before
  <2>4. AllAccounted'
    BY <1>0, <2>1, <2>3 DEF IInv, AllAccounted, Accounted, Before
  <2>5. (Sensors /\ Hands /\ Places /\ InHand)'
    BY <1>0, <1>2, <2>1, Types DEF IInv, Sensors, Hands, Places, InHand, HasOpened
  <2>6. (Truncated /\ InOrder)'
    BY <1>0, <2>1 DEF IInv, Truncated, InOrder
  <2>7. (Once /\ Repeats)'
    BY <1>0, <2>1 DEF IInv, Once, Repeats, End
  <2>. QED  BY <2>2, <2>4, <2>5, <2>6, <2>7 DEF IInv
<1>. QED  BY <1>1, <1>2

(* It finds the end of the log. *)
LEMMA ReadEndKeeps == ASSUME IInv, ReadEnd PROVE IInv'
<1>0. /\ thread.at = "read" /\ thread.line = 0 /\ thread.offset <= thread.pos
      /\ UNCHANGED <<sensor, poison, base, size, saved, accepted, stale, outdated, lost, faults>>
      /\ TypeOK /\ Line \subseteq Nat
  BY Types DEF IInv, ReadEnd, setup, logVars, history, Hands, Places, HasOpened
<1>1. /\ thread' \in Threads /\ thread'.at = "clear" /\ thread'.offset = thread.pos
      /\ thread'.then = "look" /\ thread'.line = 0
  <2>1. thread \in Threads /\ thread.pos \in Position
    BY <1>0 DEF TypeOK, Threads
  <2>. QED  BY <1>0, <2>1, SaveFields DEF ReadEnd
<1>2. TypeOK'
  BY <1>0, <1>1 DEF TypeOK
<1>3. AllAccounted'
  BY <1>0, <1>1 DEF IInv, AllAccounted, Accounted, Before, HasOpened
<1>4. (Sensors /\ Hands /\ Places /\ InHand)'
  BY <1>0, <1>1, Types DEF IInv, Sensors, Hands, Places, InHand, HasOpened
<1>5. (Truncated /\ InOrder)'
  BY <1>0 DEF IInv, Truncated, InOrder
<1>6. (Once /\ Repeats)'
  BY <1>0, <1>1, Types DEF IInv, Once, Repeats, End
<1>. QED  BY <1>2, <1>3, <1>4, <1>5, <1>6 DEF IInv

(* A save empties the file. *)
LEMMA ClearKeeps == ASSUME IInv, Clear PROVE IInv'
<1>0. /\ thread.at = "clear" /\ saved' = 0
      /\ UNCHANGED <<sensor, poison, base, size, accepted, stale, outdated, lost, faults>>
      /\ TypeOK /\ Line \subseteq Nat
      /\ thread' \in Threads /\ thread'.at = "write" /\ thread'.offset = thread.offset
      /\ thread'.then = thread.then /\ thread'.pos = thread.pos /\ thread'.line = thread.line
  BY Types, GotoFields DEF IInv, Clear, setup, logVars, history
<1>1. TypeOK'
  BY <1>0, Types DEF TypeOK, Position
<1>2. \A p : p = 0 => Before(p) = {}
  BY <1>0, Types DEF Before
<1>3. AllAccounted'
  BY <1>0, <1>2 DEF IInv, AllAccounted, Accounted, Before, HasOpened
<1>4. (Sensors /\ Hands /\ Places /\ InHand)'
  BY <1>0, Types DEF IInv, Sensors, Hands, Places, InHand, HasOpened, End
<1>5. (Truncated /\ InOrder)'
  BY <1>0 DEF IInv, Truncated, InOrder
<1>6. (Once /\ Repeats)'
  BY <1>0, Types DEF IInv, Once, Repeats, End
<1>. QED  BY <1>1, <1>3, <1>4, <1>5, <1>6 DEF IInv

(* ... and writes it. *)
LEMMA WriteKeeps == ASSUME IInv, Write PROVE IInv'
<1>0. /\ thread.at = "write" /\ saved' = thread.offset /\ outdated' = stale
      /\ UNCHANGED <<sensor, poison, base, size, accepted, stale, lost, faults>>
      /\ TypeOK /\ Line \subseteq Nat
      /\ thread' \in Threads /\ thread'.at = thread.then /\ thread'.offset = thread.offset
      /\ thread'.pos = thread.pos /\ thread'.line = thread.line
      /\ thread.then \in {"look", "read", "post"}
  BY Types, GotoFields DEF IInv, Write, setup, logVars, history
<1>1. TypeOK'
  BY <1>0 DEF TypeOK, Threads
<1>2. AllAccounted'
  BY <1>0 DEF IInv, AllAccounted, Accounted, Before, HasOpened
<1>3. (Sensors /\ Hands /\ Places /\ InHand)'
  BY <1>0, Types DEF IInv, Sensors, Hands, Places, InHand, HasOpened, End
<1>4. (Truncated /\ InOrder)'
  BY <1>0 DEF IInv, Truncated, InOrder
<1>5. (Once /\ Repeats)'
  BY <1>0, Types DEF IInv, Once, Repeats, End
<1>. QED  BY <1>1, <1>2, <1>3, <1>4, <1>5 DEF IInv
(* A save fails before or after it has emptied the file. *)
LEMMA SaveFailsKeeps == ASSUME IInv, SaveFails PROVE IInv'
<1>0. /\ thread.at \in {"clear", "write"} /\ faults' = faults + 1 /\ faults < MaxFaults
      /\ UNCHANGED <<sensor, poison, base, size, saved, accepted, stale, outdated>>
      /\ lost' = IF thread.then = "post" THEN lost \cup {thread.line} ELSE lost
      /\ TypeOK /\ Valid \subseteq Line /\ Line \subseteq Nat /\ 0 \notin Line
      /\ faults \in Nat /\ MaxFaults \in Nat /\ accepted \in [Line -> Nat]
  <2>1. 0 \notin Line
    BY DEF Line
  <2>. QED  BY <2>1, ValidAssumption, Types DEF IInv, SaveFails, setup, logVars, Fault, TypeOK
<1>1. /\ thread' \in Threads /\ thread'.at = "look" /\ thread'.line = 0
      /\ thread'.offset = thread.offset /\ thread'.pos = thread.pos
  BY <1>0, Types DEF SaveFails, TypeOK, Threads
<1>2. thread.line # 0 => thread.line \in Line /\ thread.then = "post"
  BY <1>0 DEF IInv, Hands, TypeOK
<1>3. TypeOK'
  <2>1. thread.then = "post" => thread.line \in Line
    BY <1>0 DEF IInv, Hands, TypeOK
  <2>2. lost' \subseteq Line
    BY <1>0, <2>1 DEF TypeOK
  <2>3. faults' \in 0..MaxFaults
    BY <1>0
  <2>. QED  BY <1>0, <1>1, <2>2, <2>3 DEF TypeOK
<1>4. AllAccounted'
  <2>1. \A q : Accounted(q) => Accounted(q)'
    <3>1. \A q : Before(q)' = Before(q) /\ Before(q) \subseteq Line
      BY <1>0 DEF Before
    <3>. QED  BY <1>0, <1>1, <1>2, <3>1 DEF Accounted
  <2>. QED  BY <1>0, <1>1, <2>1 DEF IInv, AllAccounted, HasOpened
<1>5. (Sensors /\ Hands /\ Places /\ InHand /\ Truncated /\ InOrder)'
  BY <1>0, <1>1, Types DEF IInv, Sensors, Hands, Places, InHand, Truncated, InOrder, HasOpened
<1>6. Once'
  BY <1>0, <1>1 DEF IInv, Once, End
<1>7. Repeats'
  BY <1>0, <1>1, Types DEF IInv, Repeats, End
<1>. QED  BY <1>3, <1>4, <1>5, <1>6, <1>7 DEF IInv

(* The lines before a position, as numbers. *)
LEMMA BeforeEnd ==
  ASSUME TypeOK, NEW l \in Line, NEW p \in Nat
  PROVE  l \in Before(p) <=> base < l /\ End(l) < p + 2
BY Types DEF Before, End

(* Where readline() stops, and which line it is in. *)
LEMMA ReadsLine ==
  ASSUME TypeOK, NEW p \in Nat, p < size
  PROVE  LET l == base + p \div 2 + 1 IN
         /\ l \in Line /\ base < l /\ p < End(l) /\ End(l) <= p + 2
         /\ EndOfLine(p) \in Position /\ p < EndOfLine(p) /\ EndOfLine(p) <= size
         /\ EndOfLine(p) <= End(l)
         /\ Whole(p) => EndOfLine(p) = End(l) /\ End(l) = p + 2
<1>1. /\ size \in Nat /\ size <= 2 * MaxLine /\ base \in Nat /\ MaxLine \in Nat
      /\ base + (size + 1) \div 2 <= MaxLine
  BY Types DEF TypeOK
<1>2. PICK q \in Nat : q = p \div 2 /\ 2 * q <= p /\ p < 2 * q + 2
  OBVIOUS
<1>3. q + 1 <= (size + 1) \div 2
  BY <1>1, <1>2
<1>4. base + q + 1 \in Line
  BY <1>1, <1>2, <1>3 DEF Line
<1>5. EndOfLine(p) = IF 2 * q + 2 < size THEN 2 * q + 2 ELSE size
  BY <1>2 DEF EndOfLine, Lesser
<1>6. EndOfLine(p) \in Position /\ p < EndOfLine(p) /\ EndOfLine(p) <= size
  BY <1>1, <1>2, <1>5 DEF Position
<1>7. End(base + q + 1) = 2 * q + 2
  BY <1>1, <1>2 DEF End
<1>. QED  BY <1>1, <1>2, <1>4, <1>5, <1>6, <1>7 DEF Whole

(* It reads a line, or part of one. *)
LEMMA ReadKeeps == ASSUME IInv, Read PROVE IInv'
<1> DEFINE p == thread.pos
           l == base + p \div 2 + 1
           ships == Whole(p) /\ l \in Valid \cup poison
           e == EndOfLine(p)
<1>0. /\ thread.at = "read" /\ thread.line = 0
      /\ thread.offset <= p /\ p < size /\ p \in Nat
      /\ UNCHANGED <<sensor, poison, base, size, saved, accepted, outdated, faults>>
      /\ TypeOK /\ Line \subseteq Nat /\ 0 \notin Line /\ Valid \subseteq Line
      /\ stale' = FALSE
      /\ lost' = lost \cup (IF stale THEN Before(p) ELSE {}) \cup (IF Whole(p) THEN {} ELSE {l})
  <2>1. 0 \notin Line
    BY DEF Line
  <2>. QED  BY Types, ValidAssumption, <2>1 DEF IInv, Read, setup, logVars, Hands, Places, HasOpened
<1>1. /\ l \in Line /\ base < l /\ p < End(l) /\ End(l) <= p + 2
      /\ e \in Position /\ p < e /\ e <= size /\ e <= End(l)
      /\ Whole(p) => e = End(l) /\ End(l) = p + 2
  BY <1>0, ReadsLine
<1>2. /\ thread' \in Threads /\ thread'.pos = e
      /\ thread'.line = IF ships THEN l ELSE 0
      /\ IF ships /\ sensor = "opencanary"
         THEN thread'.at = "post" /\ thread'.offset = thread.offset
         ELSE /\ thread'.at = "clear" /\ thread'.offset = e
              /\ thread'.then = IF ships THEN "post" ELSE "read"
  <2> DEFINE t == [thread EXCEPT !.pos = e, !.line = IF ships THEN l ELSE 0]
  <2>1. t \in Threads /\ t.pos = e /\ t.line = (IF ships THEN l ELSE 0) /\ t.offset = thread.offset
    BY <1>0, <1>1 DEF TypeOK, Threads
  <2>2. CASE ships /\ sensor = "opencanary"
    <3>1. thread' = [t EXCEPT !.at = "post"]
      BY <2>2 DEF Read
    <3>. QED  BY <2>1, <2>2, <3>1 DEF Threads
  <2>3. CASE ~(ships /\ sensor = "opencanary")
    <3>1. SaveAnd(t, e, IF ships THEN "post" ELSE "read")
      BY <2>3 DEF Read
    <3> HIDE DEF t, e, ships
    <3>. QED  BY <1>1, <2>1, <2>3, <3>1, SaveFields
  <2>. QED  BY <2>2, <2>3
<1> HIDE DEF p, l, e, ships
<1>3. ships => Whole(p) /\ l \in Valid \cup poison /\ e = End(l) /\ End(l) = p + 2
  BY <1>1 DEF ships
<1>4. l \in Nat /\ l # 0 /\ e \in Nat /\ base \in Nat /\ size \in Nat /\ thread.offset \in Nat
      /\ saved \in Nat /\ lost \subseteq Line /\ End(l) \in Int
  BY <1>0, <1>1, Types DEF Position, TypeOK, End
<1>5. TypeOK'
  BY <1>0, <1>1, <1>2 DEF TypeOK, Before
<1>6. Hands'
  BY <1>0, <1>2, <1>3, <1>4 DEF Hands
<1>7. Places'
  BY <1>0, <1>1, <1>2, <1>4 DEF IInv, Places, HasOpened
<1>8. InHand'
  BY <1>0, <1>1, <1>2, <1>3, <1>4 DEF IInv, Places, InHand, End
<1>9. Accounted(p)
      \/ stale
  BY <1>0 DEF IInv, AllAccounted, HasOpened, p
<1>10. \A x \in Before(p) \cap Valid : accepted[x] > 0 \/ x \in lost'
  BY <1>0, <1>9 DEF Accounted
<1>11. \A x \in Line, q \in Nat : q <= e /\ x \in Before(q) => x \in Before(p) \/ x = l
  <2> SUFFICES ASSUME NEW x \in Line, NEW q \in Nat, q <= e, x \in Before(q), x # l
               PROVE  x \in Before(p)
    OBVIOUS
  <2>1. base < x /\ End(x) < q + 2 /\ x \in Nat
    BY <1>0, BeforeEnd
  <2>2. End(x) = 2 * (x - base) /\ End(l) = 2 * (l - base)
    BY DEF End
  <2>3. End(x) < End(l) + 2
    BY <1>1, <1>4, <2>1, <2>2
  <2>4. x < l
    BY <1>4, <2>1, <2>2, <2>3
  <2>5. End(x) < p + 2
    BY <1>0, <1>1, <1>4, <2>1, <2>2, <2>4
  <2>. QED  BY <1>0, <2>1, <2>5, BeforeEnd
<1>12. l \in Valid => thread'.line = l \/ l \in lost'
  BY <1>0, <1>2 DEF ships
<1>13. \A q \in Nat : q <= e => Accounted(q)'
  <2> SUFFICES ASSUME NEW q \in Nat, q <= e, NEW x \in Before(q) \cap Valid
               PROVE  accepted[x] > 0 \/ x \in lost' \/ thread'.line = x
    BY <1>0 DEF Accounted, Before
  <2>1. x \in Line
    BY DEF Before
  <2>. QED  BY <1>10, <1>11, <1>12, <2>1
<1>14. (~outdated => saved <= e) /\ thread'.offset <= e /\ thread'.offset \in Nat /\ thread'.pos = e
  BY <1>0, <1>1, <1>2, <1>4 DEF IInv, Places
<1>15. AllAccounted'
  BY <1>0, <1>4, <1>13, <1>14 DEF AllAccounted
<1>16. \A x \in Line : End(x) <= thread.offset => x # l
  BY <1>0, <1>1, <1>4
<1>17. \A x \in Line : End(x) \in Int /\ End(x)' = End(x)
  BY <1>0, <1>4 DEF End
<1>18. Once'
  <2> SUFFICES ASSUME sensor = "dionaea", NEW x \in Line
               PROVE  /\ accepted[x] <= 1
                      /\ thread'.line = x => accepted[x] = 0
                      /\ accepted[x] > 0 /\ x > base =>
                           /\ ~outdated /\ End(x) <= size /\ (saved = 0 \/ saved >= End(x))
                           /\ thread'.offset >= End(x)
    BY <1>0, <1>17 DEF Once
  <2>1. /\ accepted[x] <= 1 /\ accepted[x] \in Nat
        /\ accepted[x] > 0 /\ x > base =>
             /\ ~outdated /\ End(x) <= size /\ (saved = 0 \/ saved >= End(x))
             /\ thread.offset >= End(x)
    BY <1>0, Types DEF IInv, Once
  <2>2. thread'.offset >= thread.offset
    BY <1>0, <1>1, <1>2, <1>4
  <2>3. thread'.line = x => x = l
    BY <1>0, <1>2
  <2>. QED  BY <1>1, <1>4, <1>14, <1>16, <1>17, <2>1, <2>2, <2>3
<1>19. Repeats'
  <2>1. thread'.offset >= thread.offset
    BY <1>0, <1>1, <1>2, <1>4
  <2>. QED  BY <1>0, <1>2, <1>4, <1>14, <1>17, <2>1 DEF IInv, Repeats
<1>20. (Sensors /\ Truncated /\ InOrder)'
  BY <1>0 DEF IInv, Sensors, Truncated, InOrder
<1>. QED  BY <1>5, <1>6, <1>7, <1>8, <1>15, <1>18, <1>19, <1>20 DEF IInv
(* A post that arrives keeps the order: what came before is dealt with.     *)
LEMMA OrderKept ==
  ASSUME IInv, thread.at = "post", thread.line \notin poison, lost \subseteq lost',
         accepted' \in {accepted, [accepted EXCEPT ![thread.line] = @ + 1]}
  PROVE  InOrder'
<1>0. /\ TypeOK /\ thread.line \in Valid /\ Valid \subseteq Line /\ Line \subseteq Nat
      /\ accepted \in [Line -> Nat] /\ InOrder
  BY ValidAssumption, Types DEF IInv, Hands
<1> SUFFICES ASSUME NEW k \in Valid, NEW x \in Valid, k < x, accepted'[x] > 0
             PROVE  accepted'[k] > 0 \/ k \in lost'
  BY DEF InOrder
<1>1. \A y \in Line : accepted'[y] >= accepted[y] /\ (y # thread.line => accepted'[y] = accepted[y])
  BY <1>0
<1>2. CASE accepted[x] > 0
  BY <1>0, <1>1, <1>2 DEF InOrder
<1>3. CASE ~(accepted[x] > 0)
  <2>1. x = thread.line
    BY <1>0, <1>1, <1>3
  <2>2. CASE k <= base
    BY <1>0, <2>2 DEF IInv, Truncated
  <2>3. CASE ~(k <= base)
    <3>1. ~stale /\ thread.pos = End(x) /\ x \in Nat /\ k \in Nat /\ base \in Nat
      BY <1>0, <2>1, <2>3, Types DEF IInv, InHand
    <3>2. k \in Before(thread.pos)
      BY <1>0, <2>3, <3>1, BeforeEnd, Types DEF End
    <3>3. accepted[k] > 0 \/ k \in lost
      BY <1>0, <2>1, <3>1, <3>2 DEF IInv, AllAccounted, Accounted, HasOpened
    <3>. QED  BY <1>0, <1>1, <3>3
  <2>. QED  BY <2>2, <2>3
<1>. QED  BY <1>2, <1>3

(* The API accepts a line. *)
LEMMA PostedKeeps == ASSUME IInv, Posted PROVE IInv'
<1> DEFINE l == thread.line
<1>0. /\ thread.at = "post" /\ l \in Valid /\ Valid \subseteq Line /\ Line \subseteq Nat /\ 0 \notin Line
      /\ accepted' = [accepted EXCEPT ![l] = @ + 1]
      /\ accepted \in [Line -> Nat]
      /\ UNCHANGED <<sensor, poison, base, size, saved, stale, outdated, lost, faults>>
      /\ TypeOK /\ thread.offset <= thread.pos /\ l \notin poison
      /\ ~outdated => saved <= thread.offset
      /\ ~stale => thread.pos <= size
  <2>1. 0 \notin Line
    BY DEF Line
  <2>. QED
    BY <2>1, ValidAssumption, Types DEF IInv, Posted, setup, logVars, history, Hands, Places, HasOpened
<1>1. /\ thread' \in Threads /\ thread'.line = 0 /\ thread'.pos = thread.pos
      /\ IF sensor = "opencanary"
         THEN thread'.at = "clear" /\ thread'.offset = thread.pos /\ thread'.then = "read"
         ELSE thread'.at = "read" /\ thread'.offset = thread.offset
  <2>1. CASE sensor = "opencanary"
    <3> DEFINE t == [thread EXCEPT !.line = 0]
    <3>1. t \in Threads /\ t.pos = thread.pos /\ t.line = 0 /\ thread.pos \in Position
      BY <1>0 DEF TypeOK, Threads
    <3>2. SaveAnd(t, thread.pos, "read")
      BY <2>1 DEF Posted
    <3> HIDE DEF t
    <3>. QED  BY <2>1, <3>1, <3>2, SaveFields
  <2>2. CASE sensor # "opencanary"
    <3>1. thread' = [thread EXCEPT !.at = "read", !.line = 0]
      BY <2>2 DEF Posted
    <3>. QED  BY <1>0, <2>2, <3>1 DEF TypeOK, Threads
  <2>. QED  BY <2>1, <2>2
<1>2. /\ thread.offset \in Nat /\ thread.pos \in Nat /\ base \in Nat /\ size \in Nat
      /\ faults \in Nat /\ saved \in Nat /\ l \in Nat
  BY <1>0, Types
<1>3. \A x \in Line : accepted'[x] = IF x = l THEN accepted[x] + 1 ELSE accepted[x]
  BY <1>0
<1>4. TypeOK'
  <2>0. thread.line \in Line /\ accepted[thread.line] \in Nat
    BY <1>0
  <2>1. accepted[thread.line] + 1 \in Nat
    BY <2>0
  <2>2. accepted' \in [Line -> Nat]
    BY <1>0, <2>0, <2>1
  <2>. QED  BY <1>0, <1>1, <2>2 DEF TypeOK
<1>5. (Sensors /\ Hands /\ InHand /\ Truncated)'
  BY <1>0, <1>1, <1>2 DEF IInv, Sensors, Hands, InHand, Truncated
<1>6. Places'
  BY <1>0, <1>1, <1>2 DEF IInv, Places, HasOpened
<1>7. AllAccounted'
  <2>1. \A q : Accounted(q) => Accounted(q)'
    <3> SUFFICES ASSUME NEW q, Accounted(q), NEW x \in Before(q) \cap Valid
                 PROVE  accepted'[x] > 0 \/ x \in lost \/ thread'.line = x
      BY <1>0 DEF Accounted, Before
    <3>1. accepted[x] > 0 \/ x \in lost \/ l = x
      BY DEF Accounted
    <3>2. x \in Line /\ accepted[x] \in Nat
      BY <1>0 DEF Before
    <3>. QED  BY <1>0, <1>3, <3>1, <3>2
  <2>2. HasOpened
    BY <1>0 DEF HasOpened
  <2>. QED  BY <1>0, <1>1, <2>1, <2>2 DEF IInv, AllAccounted
<1>8. Once'
  <2> SUFFICES ASSUME sensor = "dionaea", NEW x \in Line
               PROVE  /\ accepted'[x] <= 1
                      /\ accepted'[x] > 0 /\ x > base =>
                           /\ ~stale /\ ~outdated /\ End(x) <= size
                           /\ (saved = 0 \/ saved >= End(x)) /\ thread.offset >= End(x)
    BY <1>0, <1>1 DEF Once, End
  <2>1. CASE x = l
    <3>1. accepted[x] = 0
      BY <2>1 DEF IInv, Once
    <3>2. x > base => /\ ~stale /\ ~outdated /\ thread.pos = End(x)
                      /\ thread.offset = thread.pos /\ saved = thread.pos
      BY <1>0, <2>1 DEF IInv, InHand
    <3>. QED  BY <1>0, <1>2, <1>3, <2>1, <3>1, <3>2
  <2>2. CASE x # l
    BY <1>0, <1>3, <2>2 DEF IInv, Once
  <2>. QED  BY <2>1, <2>2
<1>9. Repeats'
  <2> SUFFICES ASSUME sensor = "opencanary", NEW x \in Line
               PROVE  /\ accepted'[x] <= 1 + faults
                      /\ accepted'[x] > faults => thread.pos >= End(x) /\ End(x) <= size
    BY <1>0, <1>1 DEF Repeats, End
  <2>0. base = 0 /\ ~stale /\ accepted[x] \in Nat /\ x > 0 /\ End(x) \in Int
    BY <1>0, <1>2 DEF IInv, Sensors, End, Line
  <2>1. CASE x = l
    <3>1. thread.pos = End(x) /\ thread.offset + 2 <= thread.pos
      BY <2>0, <2>1 DEF IInv, InHand
    <3>2. accepted[x] <= faults
      BY <1>2, <2>0, <3>1 DEF IInv, Repeats
    <3>. QED  BY <1>0, <1>2, <1>3, <2>0, <2>1, <3>1, <3>2
  <2>2. CASE x # l
    BY <1>0, <1>2, <1>3, <2>0, <2>2 DEF IInv, Repeats
  <2>. QED  BY <2>1, <2>2
<1>10. InOrder'
  BY <1>0, OrderKept
<1>. QED  BY <1>4, <1>5, <1>6, <1>7, <1>8, <1>9, <1>10 DEF IInv

(* The line a post gives up is not done, or it is lost.                     *)
LEMMA GivesUpAccounted ==
  ASSUME IInv, thread.at = "post", UNCHANGED <<sensor, base, saved, stale, outdated>>,
         \A x \in Line : accepted[x] > 0 => accepted'[x] > 0, lost \subseteq lost',
         sensor = "dionaea" => thread.line \in lost',
         thread'.line = 0, thread'.pos = thread.pos, thread'.offset = thread.offset,
         sensor = "opencanary" => thread'.at = "look", thread'.at \in {"look", "read"}
  PROVE  AllAccounted'
<1> DEFINE l == thread.line
<1>0. /\ TypeOK /\ l \in Line /\ sensor \in {"opencanary", "dionaea"} /\ l \in Nat
      /\ saved \in Nat /\ thread.offset \in Nat /\ thread.pos \in Nat /\ base \in Nat
      /\ stale => outdated
      /\ ~outdated => saved <= thread.offset
  BY ValidAssumption, Types DEF IInv, Hands, Places, TypeOK
<1>1. \A q : Before(q)' = Before(q) /\ Before(q) \subseteq Line
  BY DEF Before
<1>2. /\ ~outdated => Accounted(saved)
      /\ ~stale => Accounted(thread.offset) /\ Accounted(thread.pos)
  BY DEF IInv, AllAccounted, HasOpened
<1>3. CASE sensor = "opencanary"
  <2>1. \A q \in Nat : q <= thread.offset => l \notin Before(q)
    <3> SUFFICES ASSUME NEW q \in Nat, q <= thread.offset, l \in Before(q) PROVE FALSE
      OBVIOUS
    <3>1. base < l /\ End(l) < q + 2
      BY <1>0, BeforeEnd
    <3>2. thread.pos = End(l) /\ thread.offset + 2 <= thread.pos
      BY <1>3, <3>1 DEF IInv, InHand
    <3>. QED  BY <1>0, <3>1, <3>2
  <2>2. \A q \in Nat : q <= thread.offset /\ Accounted(q) => Accounted(q)'
    BY <1>1, <2>1 DEF Accounted
  <2>. QED  BY <1>0, <1>2, <1>3, <2>2 DEF AllAccounted, HasOpened
<1>4. CASE sensor = "dionaea"
  <2>1. \A q : Accounted(q) => Accounted(q)'
    BY <1>1, <1>4 DEF Accounted
  <2>. QED  BY <1>2, <2>1 DEF AllAccounted
<1>. QED  BY <1>0, <1>3, <1>4

(* It does not, or its answer is lost. *)
LEMMA PostFailsKeeps == ASSUME IInv, PostFails PROVE IInv'
<1> DEFINE l == thread.line
<1>0. /\ thread.at = "post" /\ l \in Valid /\ Valid \subseteq Line /\ Line \subseteq Nat /\ 0 \notin Line
      /\ accepted' \in {accepted, [accepted EXCEPT ![l] = @ + 1]}
      /\ accepted \in [Line -> Nat]
      /\ UNCHANGED <<sensor, poison, base, size, saved, stale, outdated>>
      /\ lost' = IF sensor = "dionaea" THEN lost \cup {l} ELSE lost
      /\ faults' = faults + 1 /\ faults < MaxFaults
      /\ TypeOK /\ thread.offset <= thread.pos /\ l \notin poison
      /\ ~outdated => saved <= thread.offset
      /\ sensor \in {"opencanary", "dionaea"}
  <2>1. 0 \notin Line
    BY DEF Line
  <2>. QED
    BY <2>1, ValidAssumption, Types
       DEF IInv, PostFails, setup, logVars, Hands, Places, HasOpened, Fault, TypeOK
<1>1. /\ thread' \in Threads /\ thread'.line = 0 /\ thread'.pos = thread.pos
      /\ thread'.offset = thread.offset
      /\ thread'.at = IF sensor = "opencanary" THEN "look" ELSE "read"
  BY <1>0 DEF PostFails, TypeOK, Threads
<1>2. /\ thread.offset \in Nat /\ thread.pos \in Nat /\ base \in Nat /\ size \in Nat
      /\ faults \in Nat /\ saved \in Nat /\ l \in Nat /\ MaxFaults \in Nat
  BY <1>0, Types
<1>3. \A x \in Line : /\ accepted'[x] \in {accepted[x], accepted[x] + 1}
                      /\ x # l => accepted'[x] = accepted[x]
  BY <1>0
<1>4. TypeOK'
  <2>1. accepted' \in [Line -> Nat]
    BY <1>0
  <2>2. lost' \subseteq Line
    BY <1>0 DEF TypeOK
  <2>3. faults' \in 0..MaxFaults
    BY <1>0, <1>2
  <2>. QED  BY <1>0, <1>1, <2>1, <2>2, <2>3 DEF TypeOK
<1>5. (Sensors /\ Hands /\ InHand /\ Truncated)'
  BY <1>0, <1>1, <1>2 DEF IInv, Sensors, Hands, InHand, Truncated
<1>6. Places'
  BY <1>0, <1>1, <1>2 DEF IInv, Places, HasOpened
<1>7. AllAccounted'
  <2>1. /\ \A x \in Line : accepted[x] > 0 => accepted'[x] > 0
        /\ lost \subseteq lost' /\ sensor = "dionaea" => l \in lost'
    BY <1>0, <1>2, <1>3
  <2>. QED  BY <1>0, <1>1, <2>1, GivesUpAccounted
<1>8. Once'
  <2> SUFFICES ASSUME sensor = "dionaea", NEW x \in Line
               PROVE  /\ accepted'[x] <= 1
                      /\ accepted'[x] > 0 /\ x > base =>
                           /\ ~stale /\ ~outdated /\ End(x) <= size
                           /\ (saved = 0 \/ saved >= End(x)) /\ thread.offset >= End(x)
    BY <1>0, <1>1 DEF Once, End
  <2>1. CASE x = l
    <3>1. accepted[x] = 0
      BY <2>1 DEF IInv, Once
    <3>2. x > base => /\ ~stale /\ ~outdated /\ thread.pos = End(x) /\ thread.pos <= size
                      /\ thread.offset = thread.pos /\ saved = thread.pos
      BY <1>0, <2>1 DEF IInv, InHand
    <3>. QED  BY <1>0, <1>2, <1>3, <2>1, <3>1, <3>2
  <2>2. CASE x # l
    BY <1>0, <1>3, <2>2 DEF IInv, Once
  <2>. QED  BY <2>1, <2>2
<1>9. Repeats'
  <2> SUFFICES ASSUME sensor = "opencanary", NEW x \in Line PROVE accepted'[x] <= faults'
    BY <1>0, <1>2, <1>4, Types DEF Repeats, TypeOK
  <2>0. base = 0 /\ accepted[x] \in Nat /\ x > 0 /\ End(x) \in Int /\ accepted[x] <= 1 + faults
    BY <1>0, <1>2 DEF IInv, Sensors, End, Line, Repeats
  <2>1. CASE x = l
    <3>1. thread.pos = End(x) /\ thread.offset + 2 <= thread.pos
      BY <2>0, <2>1 DEF IInv, InHand
    <3>2. accepted[x] <= faults
      BY <1>2, <2>0, <3>1 DEF IInv, Repeats
    <3>. QED  BY <1>0, <1>2, <1>3, <2>0, <3>2
  <2>2. CASE x # l
    BY <1>0, <1>2, <1>3, <2>0, <2>2
  <2>. QED  BY <2>1, <2>2
<1>10. InOrder'
  BY <1>0, OrderKept
<1>. QED  BY <1>4, <1>5, <1>6, <1>7, <1>8, <1>9, <1>10 DEF IInv

(* A line that cannot be shipped is given up, or comes again. *)
LEMMA SpoilsKeeps == ASSUME IInv, Spoils PROVE IInv'
<1>0. /\ thread.at = "post" /\ thread.line \in Line /\ Line \subseteq Nat /\ 0 \notin Line
      /\ UNCHANGED <<sensor, poison, base, size, saved, accepted, stale, outdated, faults>>
      /\ lost' = IF sensor = "opencanary" THEN lost ELSE lost \cup {thread.line}
      /\ TypeOK /\ thread.offset <= thread.pos /\ accepted \in [Line -> Nat]
  <2>1. 0 \notin Line
    BY DEF Line
  <2>. QED
    BY <2>1, ValidAssumption, Types DEF IInv, Spoils, setup, logVars, Hands, Places, HasOpened, TypeOK
<1>1. /\ thread' \in Threads /\ thread'.line = 0 /\ thread'.pos = thread.pos
      /\ thread'.offset = thread.offset /\ thread'.at \in {"look", "read"}
      /\ sensor = "opencanary" => thread'.at = "look"
  BY <1>0 DEF Spoils, TypeOK, Threads
<1>2. TypeOK'
  BY <1>0, <1>1 DEF TypeOK
<1>3. (Sensors /\ Hands /\ InHand /\ Truncated /\ InOrder)'
  BY <1>0, <1>1, Types DEF IInv, Sensors, Hands, InHand, Truncated, InOrder
<1>4. Places'
  BY <1>0, <1>1 DEF IInv, Places, HasOpened
<1>5. AllAccounted'
  <2>1. sensor = "dionaea" => thread.line \in lost'
    BY <1>0
  <2>2. \A x \in Line : accepted[x] > 0 => accepted'[x] > 0
    BY <1>0
  <2>. QED  BY <1>0, <1>1, <2>1, <2>2, GivesUpAccounted
<1>6. (Once /\ Repeats)'
  BY <1>0, <1>1 DEF IInv, Once, Repeats, End
<1>. QED  BY <1>2, <1>3, <1>4, <1>5, <1>6 DEF IInv

(* The container stops. *)
LEMMA StopKeeps == ASSUME IInv, Stop PROVE IInv'
<1>0. /\ thread.at # "down" /\ UNCHANGED <<sensor, poison, base, size, saved, accepted, stale, outdated>>
      /\ lost' = IF sensor = "dionaea" /\ thread.at = "post" THEN lost \cup {thread.line} ELSE lost
      /\ faults' = faults + 1 /\ faults < MaxFaults
      /\ TypeOK /\ Valid \subseteq Line /\ Line \subseteq Nat /\ accepted \in [Line -> Nat]
      /\ 0 \notin Line /\ faults \in Nat /\ MaxFaults \in Nat /\ saved \in Nat
      /\ sensor \in {"opencanary", "dionaea"}
  <2>1. 0 \notin Line
    BY DEF Line
  <2>. QED  BY <2>1, ValidAssumption, Types DEF IInv, Stop, setup, logVars, Fault, TypeOK
<1>1. /\ thread' \in Threads /\ thread'.at = "down" /\ thread'.line = 0
      /\ thread'.offset = thread.offset
  BY <1>0, Types DEF Stop, TypeOK, Threads
<1>2. TypeOK'
  <2>1. lost' \subseteq Line
    BY <1>0 DEF IInv, Hands, TypeOK
  <2>. QED  BY <1>0, <1>1, <2>1 DEF TypeOK
<1>3. AllAccounted'
  <2> SUFFICES ASSUME ~outdated, NEW x \in Before(saved) \cap Valid
               PROVE  accepted[x] > 0 \/ x \in lost'
    BY <1>0, <1>1 DEF AllAccounted, Accounted, Before, HasOpened
  <2>1. accepted[x] > 0 \/ x \in lost \/ x = thread.line
    BY DEF IInv, AllAccounted, Accounted
  <2>2. CASE x = thread.line
    <3>1. base < x /\ End(x) < saved + 2 /\ End(x) >= 2 /\ End(x) \in Nat
      <4>1. base < x /\ End(x) < saved + 2 /\ base \in Nat /\ x \in Nat
        BY <1>0, BeforeEnd, Types
      <4>. QED  BY <4>1 DEF End
    <3>2. /\ thread.pos = End(x) /\ (sensor = "opencanary" =>
              thread.at = "post" /\ thread.offset + 2 <= thread.pos)
          /\ thread.at = "clear" => saved + 2 <= thread.pos
      BY <2>2, <3>1 DEF IInv, InHand
    <3>3. thread.at \in {"post", "clear", "write"}
      BY <1>0, <2>2 DEF IInv, Hands
    <3>4. thread.at # "clear" /\ thread.at # "write"
      BY <1>0, <3>1, <3>2 DEF IInv, Places
    <3>5. sensor # "opencanary"
      BY <1>0, <3>1, <3>2, <3>3, <3>4, Types DEF IInv, Places
    <3>. QED  BY <1>0, <2>2, <3>3, <3>4, <3>5
  <2>. QED  BY <1>0, <2>1, <2>2
<1>4. (Sensors /\ Hands /\ Places /\ InHand /\ Truncated /\ InOrder)'
  BY <1>0, <1>1, Types DEF IInv, Sensors, Hands, Places, InHand, Truncated, InOrder, HasOpened
<1>5. Once'
  BY <1>0, <1>1 DEF IInv, Once, End
<1>6. Repeats'
  BY <1>0 DEF IInv, Repeats
<1>. QED  BY <1>2, <1>3, <1>4, <1>5, <1>6 DEF IInv

LEMMA IInvNext == IInv /\ [Next]_vars => IInv'
<1> SUFFICES ASSUME IInv, [Next]_vars PROVE IInv'
  OBVIOUS
<1>1. CASE UNCHANGED vars
  BY <1>1 DEF vars, setup, logVars, history, IInv, TypeOK, Sensors, Hands, Places, InHand, AllAccounted,
              Accounted, Before, Truncated, Once, Repeats, InOrder, HasOpened, End
<1>. QED
  BY <1>1, WriteHalfKeeps, TruncateKeeps, BootKeeps, StartKeeps, LookKeeps, ReadKeeps,
     ReadEndKeeps, ClearKeeps, WriteKeeps, SaveFailsKeeps, PostedKeeps, PostFailsKeeps, SpoilsKeeps, StopKeeps
     DEF Next, ThreadStep

LEMMA IInvHolds == Spec => []IInv
BY InitIInv, IInvNext, PTL DEF Spec

(* Every variable keeps its type: the position never leaves the log, and    *)
(* the thread always has a state to go on from.                             *)
THEOREM ShipperTypeCorrect == Spec => []TypeOK
BY IInvHolds, PTL DEF IInv

(* What the offset file says is done was accepted or was lost in one of the *)
(* known ways: a stop between two steps, a torn line or a truncation breaks *)
(* neither shipper's position.                                              *)
THEOREM PositionIsTrue == Spec => []DoneIsAccounted
<1>1. IInv => DoneIsAccounted
  BY DEF IInv, AllAccounted, Accounted, DoneIsAccounted
<1>. QED  BY <1>1, IInvHolds, PTL

(* Lines reach the API in order, through repetitions and restarts.          *)
THEOREM LinesArriveInOrder == Spec => []InOrder
BY IInvHolds, PTL DEF IInv

(* Dionaea's shipper delivers at most once, OpenCanary's once more for each *)
(* fault at most.                                                           *)
THEOREM RepetitionsAreBounded == Spec => []RepeatsBounded
<1>1. IInv => RepeatsBounded
  BY DEF IInv, Once, Repeats, RepeatsBounded, TypeOK
<1>. QED  BY <1>1, IInvHolds, PTL
=============================================================================
