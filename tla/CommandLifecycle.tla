-------------------------- MODULE CommandLifecycle --------------------------
(***************************************************************************)
(* What the control plane promises for its commands, with the transports,  *)
(* the workers and the failures left out: every row moves along the table  *)
(* of SensorCommandState, and the sensor runs the handler of a command at  *)
(* most once, only after the command has been claimed for delivery.        *)
(* CommandDelivery is shown to implement this specification.               *)
(***************************************************************************)
EXTENDS Naturals, SensorCommandState

CONSTANT Command      \* the commands that may ever be queued

VARIABLES status,     \* status[c]: the row of command c
          runs        \* runs[c]: how often the sensor ran the handler of c

vars == <<status, runs>>

TypeOK == /\ status \in [Command -> RowState]
          /\ runs \in [Command -> Nat]

Init == /\ status = [c \in Command |-> Absent]
        /\ runs = [c \in Command |-> 0]

(* An operator queues a command. *)
Create(c) == /\ status[c] = Absent
             /\ status' = [status EXCEPT ![c] = "queued"]
             /\ UNCHANGED runs

(* One database transaction moves some rows, each by a lawful transition. *)
Advance == /\ status' \in [Command -> RowState]
           /\ \A c \in Command : \/ status'[c] = status[c]
                                 \/ CanTransition(status[c], status'[c])
           /\ UNCHANGED runs

(* The sensor runs the handler of c. *)
Run(c) == /\ runs[c] = 0
          /\ status[c] \in Released
          /\ runs' = [runs EXCEPT ![c] = 1]
          /\ UNCHANGED status

Next == Advance \/ \E c \in Command : Create(c) \/ Run(c)

Spec == Init /\ [][Next]_vars
=============================================================================
