---------------------------- MODULE ComputeSlots ----------------------------
(***************************************************************************)
(* What the compute throttle of the response cache promises: at most       *)
(* MaxConcurrent computations hold a slot, the others wait in the order in *)
(* which they came, and no slot is idle while one of them waits. SwrCache, *)
(* which keeps a counter and a list of resolvers instead of the set of     *)
(* holders, is shown to implement this specification.                      *)
(***************************************************************************)
EXTENDS Naturals, Sequences, FiniteSets

CONSTANTS Task,            \* the computations that may ask for a slot
          MaxConcurrent    \* how many may hold one at a time

VARIABLES holders,         \* the computations that hold a slot
          waiting          \* those that wait for one, in order

vars == <<holders, waiting>>

Init == holders = {} /\ waiting = <<>>

(* A computation asks: it gets a free slot, or waits. *)
Acquire(c) ==
  /\ c \notin holders
  /\ \/ /\ Cardinality(holders) < MaxConcurrent
        /\ holders' = holders \cup {c}
        /\ UNCHANGED waiting
     \/ /\ Cardinality(holders) = MaxConcurrent
        /\ waiting' = Append(waiting, c)
        /\ UNCHANGED holders

(* A computation ends; its slot goes to the one that has waited longest. *)
Release(c) ==
  /\ c \in holders
  /\ \/ /\ waiting = <<>>
        /\ holders' = holders \ {c}
        /\ UNCHANGED waiting
     \/ /\ waiting # <<>>
        /\ holders' = (holders \ {c}) \cup {Head(waiting)}
        /\ waiting' = Tail(waiting)

(* The process restarts and forgets all of them. *)
Forget == holders' = {} /\ waiting' = <<>>

Next == Forget \/ \E c \in Task : Acquire(c) \/ Release(c)

Spec == Init /\ [][Next]_vars
=============================================================================
