-------------------------- MODULE IngestionLedger ---------------------------
(***************************************************************************)
(* The rows of 05_Forward_Ingestion_Control and what the operations of     *)
(* 103_QBO_ForwardIngestionControl.js make of one.  Each operation runs    *)
(* under the script lock; which row it applies to, and when, is said by    *)
(* the modules of the workers that call it.                                *)
(*                                                                         *)
(* Cursors count batches, not records.  A source that is not in the sheet  *)
(* has status "NONE"; an owner of 0 is a blank cell; live says that        *)
(* ClaimExpiresAt is still ahead.                                          *)
(***************************************************************************)
EXTENDS Integers

Unfinished == {"AVAILABLE", "PROCESSING"}
Settled == {"PROCESSED", "BLOCKED"}
RowStatuses == {"NONE"} \union Unfinished \union Settled

NewRow(status) ==
  [status |-> status, cursor |-> 0, shards |-> 0, owner |-> 0, live |-> FALSE]

NoRow == NewRow("NONE")

Claimable(row) == row.status = "AVAILABLE" \/ (row.status = "PROCESSING" /\ ~row.live)

Claimed(row, worker) ==
  [row EXCEPT !.status = "PROCESSING", !.owner = worker, !.live = TRUE]

(* Mutant: any worker that once claimed the row may still move its cursor. *)
MutMayCheckpoint(row, worker) == TRUE

(* Whatever the status of the row: only its owner is looked at. *)
MayCheckpoint(row, worker) == row.owner = worker

Checkpointed(row, cursor, shards, processed) ==
  [row EXCEPT !.cursor = cursor, !.shards = row.shards + shards,
              !.status = IF processed THEN "PROCESSED" ELSE "AVAILABLE",
              !.owner = 0, !.live = FALSE]

(* A blank owner lets every worker through. *)
MayBlock(row, worker) == row.owner \in {0, worker}

BlockedRow(row) == [row EXCEPT !.status = "BLOCKED", !.owner = 0, !.live = FALSE]
=============================================================================
