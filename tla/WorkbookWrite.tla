---------------------------- MODULE WorkbookWrite ---------------------------
(***************************************************************************)
(* Writing one destination workbook (21_ExportFramework.js): every sheet   *)
(* of an exporter is written by writeExport_ under a lease kept in Script  *)
(* Properties, each mutation is preceded by the write boundary of          *)
(* 4298_QBO_WorkerWriteBoundaryV1298.js, and the write that completes the  *)
(* last sheet the manifest gives the exporter copies the workbook to a     *)
(* Master Backup before the lease is released.                             *)
(*                                                                         *)
(* The executions that meet at a workbook are the scheduled worker, a      *)
(* scheduled worker whose claim was taken away while it ran, and manual    *)
(* runs of the same exporter, which carry no scheduler identity.  The      *)
(* scheduler itself is DailyScheduler; here it only grants and withdraws   *)
(* the claim.                                                              *)
(*                                                                         *)
(* An export is numbered when it starts.  A lease token is drawn for every *)
(* sheet write, and an export writes a sheet once, so the pair of the two  *)
(* names the token.                                                        *)
(***************************************************************************)
EXTENDS Integers

CONSTANTS
  Execs,      \* Apps Script executions that may be alive at the same time
  S,          \* sheets the manifest gives the exporter
  M,          \* mutations of one sheet write, each behind a boundary
  MaxPolls,   \* polls of the lease until WRITE_LOCK_WAIT_MS is over
  MaxExports, \* bound: exports ever started
  MaxFaults,  \* bound: occurrences of the events of Hazards
  Hazards     \* the events below that may happen in this instance

HazardKinds == {"crash", "error", "registry"}

ASSUME WorkbookConstants ==
  /\ S \in Nat \ {0} /\ M \in Nat \ {0}
  /\ MaxPolls \in Nat /\ MaxExports \in Nat /\ MaxFaults \in Nat
  /\ Hazards \subseteq HazardKinds

VARIABLES
  claim,      \* the scheduler's ACTIVE_TOKEN (0: no claim)
  lease,      \* QBO_EXPORT_WRITE_LEASE_<workbook>: the token stored there
  sheets,     \* per sheet: the export that last changed it, and how far
  written,    \* history: the sheet writes that reached their last mutation
  backups,    \* Master Backups of this workbook
  pc, job,    \* per execution: where it is, and its local variables
  lastExport, \* counter behind getUuid
  lastWorker, \* the last claim token the scheduler issued
  faults

storeVars == <<lease, sheets, written, backups>>
schedVars == <<claim, lastExport, lastWorker>>
vars == <<schedVars, storeVars, pc, job, faults>>

-----------------------------------------------------------------------------
(* Values *)

Sheets == 1..S
Exports == 1..MaxExports
NoLease == [export |-> 0, sheet |-> 0]

(* worker is the export's own number when a claim stands behind it, else 0. *)
Content(export, worker, steps) == [by |-> export, worker |-> worker, steps |-> steps]

(* An execution: its export, the sheet it is at and the mutations done of   *)
(* it, the sheets completed, and (history) its changes without its claim.   *)
Job(export, worker) ==
  [export |-> export, worker |-> worker, sheet |-> 0, step |-> 0, polls |-> 0,
   done |-> {}, failed |-> FALSE, late |-> 0]
NoJob == Job(0, 0)

Token(e) == [export |-> job[e].export, sheet |-> job[e].sheet]

Pcs == {"idle", "next", "wait", "check", "mutate", "complete", "release"}

(* Inside the callback of withExportWriteLock_, and able to change the workbook. *)
Writing(e) == pc[e] \in {"check", "mutate", "complete"}

Goto(e, where) == pc' = [pc EXCEPT ![e] = where]
End(e) == Goto(e, "idle") /\ job' = [job EXCEPT ![e] = NoJob]
Charge(kind) == kind \in Hazards /\ faults < MaxFaults /\ faults' = faults + 1

(* The change e makes now comes after it lost its claim. *)
Late(e) == IF job[e].worker # 0 /\ claim # job[e].worker THEN 1 ELSE 0

-----------------------------------------------------------------------------
(* The scheduler and the operator *)

(* claimDailyQboWorker_ stores a fresh token when none is stored. *)
StartScheduled(e) ==
  /\ pc[e] = "idle" /\ lastExport < MaxExports /\ claim = 0
  /\ lastExport' = lastExport + 1 /\ lastWorker' = lastExport + 1
  /\ claim' = lastExport + 1
  /\ job' = [job EXCEPT ![e] = Job(lastExport + 1, lastExport + 1)]
  /\ Goto(e, "next")
  /\ UNCHANGED <<storeVars, faults>>

(* An exporter run from the editor. *)
StartManual(e) ==
  /\ pc[e] = "idle" /\ lastExport < MaxExports
  /\ lastExport' = lastExport + 1
  /\ job' = [job EXCEPT ![e] = Job(lastExport + 1, 0)]
  /\ Goto(e, "next")
  /\ UNCHANGED <<claim, lastWorker, storeVars, faults>>

(* The claim goes: the worker advances, or its queue is cleared under it. *)
LoseClaim ==
  /\ claim # 0
  /\ claim' = 0
  /\ UNCHANGED <<storeVars, pc, job, lastExport, lastWorker, faults>>

-----------------------------------------------------------------------------
(* The lease *)

(* The exporter turns to a sheet it has not written yet; exporters write    *)
(* their sheets in orders of their own.                                     *)
Begin(e) ==
  /\ pc[e] = "next"
  /\ \E s \in Sheets \ job[e].done :
       job' = [job EXCEPT ![e].sheet = s, ![e].step = 0, ![e].polls = 0]
  /\ Goto(e, "wait")
  /\ UNCHANGED <<schedVars, storeVars, faults>>

(* Mutant: a lease can be taken over when it has expired. *)
MutAcquireExpired(e) ==
  /\ pc[e] = "wait"
  /\ lease' = Token(e)
  /\ Goto(e, "check")
  /\ UNCHANGED <<schedVars, sheets, written, backups, job, faults>>

(* Any stored value, expired or malformed, keeps the lease from others. *)
Acquire(e) ==
  /\ pc[e] = "wait" /\ lease = NoLease
  /\ lease' = Token(e)
  /\ Goto(e, "check")
  /\ UNCHANGED <<schedVars, sheets, written, backups, job, faults>>

(* The registry lock or the lease is not to be had. *)
Refused ==
  \/ lease # NoLease /\ UNCHANGED faults
  \/ Charge("registry")

(* Mutant: the poll leaves the deadline where it was. *)
MutPollForever(e) ==
  /\ pc[e] = "wait" /\ Refused
  /\ UNCHANGED <<schedVars, storeVars, pc, job>>

(* Mutant: the deadline does not end the polling. *)
MutPollPastDeadline(e) ==
  /\ pc[e] = "wait" /\ Refused
  /\ job' = [job EXCEPT ![e].polls = @ + 1]
  /\ UNCHANGED <<schedVars, storeVars, pc>>

Poll(e) ==
  /\ pc[e] = "wait" /\ Refused
  /\ job[e].polls < MaxPolls
  /\ job' = [job EXCEPT ![e].polls = @ + 1]
  /\ UNCHANGED <<schedVars, storeVars, pc>>

(* QBO_WRITE_LEASE_BUSY, retryable: the exporter throws without a lease. *)
GiveUp(e) ==
  /\ pc[e] = "wait" /\ Refused
  /\ job[e].polls = MaxPolls
  /\ End(e)
  /\ UNCHANGED <<schedVars, storeVars>>

(* releaseExportWriteLease_ deletes the lease only when it is its own; it   *)
(* gives up when the registry lock is not to be had.                        *)
ReleaseLease(e) ==
  \/ /\ lease' = IF lease = Token(e) THEN NoLease ELSE lease
     /\ UNCHANGED faults
  \/ Charge("registry") /\ UNCHANGED lease

Release(e) ==
  /\ pc[e] = "release"
  /\ ReleaseLease(e)
  /\ IF job[e].failed \/ job[e].done = Sheets
     THEN End(e)
     ELSE Goto(e, "next") /\ UNCHANGED job
  /\ UNCHANGED <<schedVars, sheets, written, backups>>

-----------------------------------------------------------------------------
(* The sheet write *)

(* Mutant: the boundary looks at the lease alone. *)
MutBoundaryLeaseOnly(e) == lease = Token(e)

(* qboV1298Decision_: the lease is still this write's, and the claim still  *)
(* the one the worker started under.  A manual run only has the lease.      *)
BoundaryHolds(e) ==
  /\ lease = Token(e)
  /\ job[e].worker # 0 => claim = job[e].worker

Boundary(e) ==
  /\ pc[e] = "check"
  /\ IF BoundaryHolds(e)
     THEN /\ Goto(e, IF job[e].step < M THEN "mutate" ELSE "complete")
          /\ UNCHANGED job
     ELSE /\ Goto(e, "release")
          /\ job' = [job EXCEPT ![e].failed = TRUE]
  /\ UNCHANGED <<schedVars, storeVars, faults>>

(* Mutant: the boundary is passed once per sheet, not before each mutation. *)
MutMutateOn(e) ==
  /\ pc[e] = "mutate"
  /\ LET step == job[e].step + 1 IN
     /\ sheets' = [sheets EXCEPT ![job[e].sheet] = Content(job[e].export, job[e].worker, step)]
     /\ written' = IF step = M THEN written \union {Token(e)} ELSE written
     /\ job' = [job EXCEPT ![e].step = step, ![e].late = @ + Late(e)]
     /\ Goto(e, IF step < M THEN "mutate" ELSE "check")
  /\ UNCHANGED <<schedVars, lease, backups, faults>>

Mutate(e) ==
  /\ pc[e] = "mutate"
  /\ LET step == job[e].step + 1 IN
     /\ sheets' = [sheets EXCEPT ![job[e].sheet] = Content(job[e].export, job[e].worker, step)]
     /\ written' = IF step = M THEN written \union {Token(e)} ELSE written
     /\ job' = [job EXCEPT ![e].step = step, ![e].late = @ + Late(e)]
     /\ Goto(e, "check")
  /\ UNCHANGED <<schedVars, lease, backups, faults>>

(* The Sheets service fails; what the call did until then stays. *)
MutateFails(e) ==
  /\ pc[e] = "mutate" /\ Charge("error")
  /\ \/ sheets' = [sheets EXCEPT ![job[e].sheet] =
                     Content(job[e].export, job[e].worker, job[e].step)]
     \/ UNCHANGED sheets
  /\ job' = [job EXCEPT ![e].failed = TRUE, ![e].late = @ + Late(e)]
  /\ Goto(e, "release")
  /\ UNCHANGED <<schedVars, lease, written, backups>>

(* Mutant: the last sheet of the manifest stands for the whole exporter. *)
MutExporterCompleteAtLast(e) == job[e].sheet = S

(* Every sheet of the manifest entry was written in this execution. *)
ExporterComplete(e) == job[e].done \union {job[e].sheet} = Sheets

(* registerQboExporterSheetCompletion_ with sheets still missing. *)
SheetDone(e) ==
  /\ pc[e] = "complete" /\ ~ExporterComplete(e)
  /\ job' = [job EXCEPT ![e].done = @ \union {job[e].sheet}]
  /\ Goto(e, "release")
  /\ UNCHANGED <<schedVars, storeVars, faults>>

(* The last sheet: the workbook is flushed and copied under the lease. *)
Snapshot(e) ==
  /\ pc[e] = "complete" /\ ExporterComplete(e)
  /\ backups' = backups \union {[by |-> job[e].export, sheets |-> sheets]}
  /\ job' = [job EXCEPT ![e].done = @ \union {job[e].sheet}, ![e].late = @ + Late(e)]
  /\ Goto(e, "release")
  /\ UNCHANGED <<schedVars, lease, sheets, written, faults>>

(* The copy fails, or its observation count cannot be derived from it. *)
SnapshotFails(e) ==
  /\ pc[e] = "complete" /\ ExporterComplete(e) /\ Charge("error")
  /\ \/ backups' = backups \union {[by |-> job[e].export, sheets |-> sheets]}
     \/ UNCHANGED backups
  /\ job' = [job EXCEPT ![e].failed = TRUE, ![e].late = @ + Late(e)]
  /\ Goto(e, "release")
  /\ UNCHANGED <<schedVars, lease, sheets, written>>

(* The platform ends the execution: its lease stays behind. *)
Crash(e) ==
  /\ pc[e] # "idle" /\ Charge("crash")
  /\ End(e)
  /\ UNCHANGED <<schedVars, storeVars>>

-----------------------------------------------------------------------------
Init ==
  /\ claim = 0 /\ lease = NoLease
  /\ sheets = [s \in Sheets |-> Content(0, 0, M)]
  /\ written = {} /\ backups = {}
  /\ pc = [e \in Execs |-> "idle"] /\ job = [e \in Execs |-> NoJob]
  /\ lastExport = 0 /\ lastWorker = 0 /\ faults = 0

Progress(e) ==
  \/ Begin(e) \/ Acquire(e) \/ Poll(e) \/ GiveUp(e) \/ Release(e)
  \/ Boundary(e) \/ Mutate(e) \/ MutateFails(e)
  \/ SheetDone(e) \/ Snapshot(e) \/ SnapshotFails(e)

Step(e) == StartScheduled(e) \/ StartManual(e) \/ Progress(e) \/ Crash(e)

Next == (\E e \in Execs : Step(e)) \/ LoseClaim

Spec == Init /\ [][Next]_vars

(* A live execution goes on until it returns or the platform ends it. *)
FairSpec == Spec /\ \A e \in Execs : WF_vars(Progress(e))

-----------------------------------------------------------------------------
(* Properties *)

JobType ==
  [export : 0..MaxExports, worker : 0..MaxExports, sheet : 0..S, step : 0..M,
   polls : 0..MaxPolls, done : SUBSET Sheets, failed : BOOLEAN, late : Nat]
ContentType == [by : 0..MaxExports, worker : 0..MaxExports, steps : 0..M]

(* Every variable keeps its type; a working execution has an export, and a  *)
(* token of a sheet, that exist.                                            *)
TypeOK ==
  /\ claim \in 0..lastExport /\ lastWorker \in 0..lastExport
  /\ lastExport \in 0..MaxExports /\ faults \in 0..MaxFaults
  /\ lease \in [export : 0..MaxExports, sheet : 0..S]
  /\ sheets \in [Sheets -> ContentType]
  /\ written \subseteq [export : Exports, sheet : Sheets]
  /\ backups \subseteq [by : Exports, sheets : [Sheets -> ContentType]]
  /\ pc \in [Execs -> Pcs]
  /\ job \in [Execs -> JobType]
  /\ \A e \in Execs : /\ pc[e] # "idle" => job[e].export \in Exports
                      /\ pc[e] \notin {"idle", "next"} => job[e].sheet \in Sheets
                      /\ pc[e] = "mutate" => job[e].step < M

(* Two executions are never at the same workbook at once: independent       *)
(* writers and the copy of a finished export exclude each other, whatever   *)
(* terminations, expired leases and refused registry locks came before.     *)
OneWriter ==
  \A e1, e2 \in Execs : Writing(e1) /\ Writing(e2) => e1 = e2

(* The check of the claim and the change it guards are two steps, so a      *)
(* worker that loses its claim may still make the change it is about to     *)
(* make, and no other: neither a second mutation nor the backup after it.   *)
OneLateChange == \A e \in Execs : job[e].late <= 1

(* A Master Backup is made for an export only when every sheet of its       *)
(* manifest entry was written to its last mutation by that same export.     *)
BackupAfterAllSheets ==
  \A b \in backups : \A s \in Sheets : [export |-> b.by, sheet |-> s] \in written

(* The sheet an export wrote last stands whole in its backup.  Sheets it    *)
(* wrote before may not: the lease is given back between two sheets.        *)
LastSheetWhole ==
  \A b \in backups : \E s \in Sheets : b.sheets[s].by = b.by /\ b.sheets[s].steps = M

(* A scheduled worker whose claim went to another never writes over a sheet *)
(* the newer worker has changed.  The lease alone does not give this (the   *)
(* old worker may get it back for its next sheet), nor the boundary alone   *)
(* (it is checked before the change): it takes the two of them.             *)
NewerWorkerKept ==
  [][\A s \in Sheets : /\ sheets'[s] # sheets[s]
                       /\ sheets'[s].worker # 0
                       => sheets[s].worker <= sheets'[s].worker]_sheets

(* An execution waits for a lease only until its deadline, also when the    *)
(* lease it waits for was left behind by a terminated execution and is      *)
(* never given back.                                                        *)
WaitEnds == \A e \in Execs : (pc[e] = "wait") ~> (pc[e] # "wait")
=============================================================================
