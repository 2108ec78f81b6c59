------------------------- MODULE SensorCommandState -------------------------
(***************************************************************************)
(* The state machine of one remote-control command: the statuses the       *)
(* database row may hold and the table of lawful transitions that every    *)
(* writer of the row consults before it writes.                            *)
(***************************************************************************)

Statuses == {"queued", "sent", "acked", "running",
             "succeeded", "failed", "expired", "cancelled"}

(* The row of a command nobody has queued yet. *)
Absent == "absent"

RowState == Statuses \cup {Absent}

(* canTransitionSensorCommand over the table "transitions"; a terminal     *)
(* status, or a row that does not exist, has no successor.                 *)
CanTransition(from, to) ==
    \/ from = "queued"  /\ to \in {"sent", "expired", "cancelled"}
    \/ from = "sent"    /\ to \in {"acked", "failed", "expired"}
    \/ from = "acked"   /\ to \in {"running", "succeeded", "failed", "expired"}
    \/ from = "running" /\ to \in {"succeeded", "failed", "expired"}

(* The statuses the expiry sweep and hasPendingConfigApply select. *)
Pending == {"queued", "sent", "acked", "running"}

Terminal == Statuses \ Pending

(***************************************************************************)
(* A row in one of these states may have been claimed for delivery; one    *)
(* that is absent, queued or cancelled never has been.                     *)
(***************************************************************************)
Released == Statuses \ {"queued", "cancelled"}
=============================================================================
