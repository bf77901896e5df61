--------------------------- MODULE GeneralLedger ---------------------------
(***************************************************************************)
(* The General Ledger report store, module 52_QBO_GeneralLedgerReport.js,  *)
(* and its month-by-month backfill, module                                 *)
(* 53_QBO_GeneralLedgerBackfill.js.                                        *)
(*                                                                         *)
(* An export of one month fetches the report from QBO, replaces the rows   *)
(* of that month in a shared sheet and makes a snapshot file of its own    *)
(* rows under the workbook's write lease; after the lease is given back it *)
(* appends a line to the registry of runs and compares its snapshot with   *)
(* that of the run it found before it started.  The backfill is a chain of *)
(* one-shot triggers, a month each, steered by script properties which its *)
(* workers read and write without any lock.                                *)
(***************************************************************************)
EXTENDS LedgerMatch

CONSTANTS
  Execs,      \* Apps Script executions that may be alive at the same time
  Months,     \* months that can be exported, 1..Months
  Reports,    \* the reports QBO may return to the first export, the second, ...
  Stored,     \* the sheets an earlier version may have left
  MaxRows,    \* the rows MAX_WORKBOOK_CELLS has room for
  MaxStarts,  \* bound: backfills started
  MaxCalls,   \* bound: operator calls, and one comparison more
  MaxFaults,  \* bound: occurrences of "crash" and "error"
  Hazards     \* the events below that may happen in this instance

(* "crash" ends an execution anywhere; "error" is a QBO, Sheets or Drive   *)
(* call of an export that fails; "restart" a start of a new backfill while *)
(* a worker of a cancelled one is still at work.                           *)
HazardKinds == {"crash", "error", "restart"}

ASSUME LedgerConstants ==
  /\ Months \in Nat \ {0} /\ MaxRows \in Nat
  /\ MaxStarts \in Nat /\ MaxCalls \in Nat /\ MaxFaults \in Nat
  /\ Hazards \subseteq HazardKinds /\ IsFiniteSet(Execs)

ASSUME ReportsAreRows ==
  Reports # <<>> /\ Reports \in Seq(SUBSET Seq(LedgerRow))

\* The rows of an earlier version have no snapshot, and they fit in the workbook
ASSUME StoredFits ==
  /\ Stored \subseteq Seq([run : {0}, month : 1..Months])
  /\ \A rows \in Stored : Len(rows) <= MaxRows

VARIABLES
  store,      \* QBO_GeneralLedger: the run and the month of every row
  lease,      \* the write lease of the workbook: the run that holds it, 0 for none
  extracts,   \* every report fetched: its month, its rows, and the backfill (0: none)
  snapshots,  \* the runs with a validated snapshot file
  registry,   \* QBO_GeneralLedgerRuns: the run of every line
  changes,    \* QBO_GeneralLedgerChanges: the runs compared by every line
  backfill,   \* the QBO_GL_BACKFILL_ properties
  triggers,   \* installed triggers of the backfill
  pc, job,    \* per execution: where it is, and its local variables
  calls, faults,
  lost        \* history: a termination or a refused start broke the chain

sheetVars == <<store, extracts, snapshots, registry, changes>>
chainVars == <<backfill, triggers>>
countVars == <<calls, faults>>
vars == <<sheetVars, lease, chainVars, pc, job, countVars, lost>>

NoJob == [by |-> 0, month |-> 0, last |-> 0, prior |-> 0, run |-> 0,
          blocks |-> {}, target |-> 0, failed |-> FALSE]

Goto(e, label) == pc' = [pc EXCEPT ![e] = label]
Remember(e, j) == job' = [job EXCEPT ![e] = j]
End(e) == Goto(e, "idle") /\ Remember(e, NoJob)
Charge(kind) == kind \in Hazards /\ faults < MaxFaults /\ faults' = faults + 1

\* How an export ends: the backfill goes on from its result, other callers do not
Succeed(e) ==
  IF job[e].by = 0 THEN End(e) ELSE Goto(e, "note") /\ UNCHANGED job
Fail(e) ==
  IF job[e].by = 0 THEN End(e) ELSE Goto(e, "error") /\ UNCHANGED job

Rows(run) == extracts[run].rows

\* The rows of one month, in sheet order
RowsOf(rows, month) ==
  LET Found[n \in 0..Len(rows)] ==
        IF n = 0 THEN <<>>
        ELSE IF rows[n].month = month THEN Append(Found[n - 1], rows[n])
        ELSE Found[n - 1]
  IN Found[Len(rows)]
OfMonth(month) == RowsOf(store, month)

Init ==
  /\ store \in Stored
  /\ lease = 0 /\ extracts = <<>> /\ snapshots = {} /\ registry = <<>> /\ changes = <<>>
  /\ backfill = [run |-> 0, first |-> 0, last |-> 0, month |-> 0, done |-> 0,
                 status |-> "none"]
  /\ triggers = 0
  /\ pc = [e \in Execs |-> "idle"] /\ job = [e \in Execs |-> NoJob]
  /\ calls = 0 /\ faults = 0 /\ lost = FALSE

-----------------------------------------------------------------------------
(* The export of one month: exportQboGeneralLedgerForPeriod *)

\* The last line of the registry for this month, 0 without one
Latest(month, lines) ==
  LET own == {i \in DOMAIN lines : extracts[lines[i]].month = month}
  IN IF own = {} THEN 0 ELSE lines[Max(own)]

\* Another caller than the backfill exports a month
ExportCalled(e, month) ==
  /\ pc[e] = "idle" /\ calls < MaxCalls /\ calls' = calls + 1
  /\ Remember(e, [NoJob EXCEPT !.month = month])
  /\ Goto(e, "fetch")
  /\ UNCHANGED <<sheetVars, lease, chainVars, faults, lost>>

\* What QBO returns to the n-th export; after the last change nothing changes any more
Returned(n) == Reports[IF n <= Len(Reports) THEN n ELSE Len(Reports)]

\* The prior run is looked up, then QBO is asked for the report
Fetch(e) ==
  /\ pc[e] = "fetch"
  /\ \/ \E report \in Returned(Len(extracts) + 1) :
          /\ extracts' = Append(extracts, [month |-> job[e].month, rows |-> report,
                                           by |-> job[e].by])
          /\ Remember(e, [job[e] EXCEPT !.run = Len(extracts'),
                                        !.prior = Latest(job[e].month, registry)])
          /\ Goto(e, "lease") /\ UNCHANGED faults
     \/ Charge("error") /\ Fail(e) /\ UNCHANGED extracts
  /\ UNCHANGED <<store, snapshots, registry, changes, lease, chainVars, calls, lost>>

\* withExportWriteLock_: the lease is waited for and then given up
Acquire(e) ==
  /\ pc[e] = "lease"
  /\ \/ lease = 0 /\ lease' = job[e].run /\ Goto(e, "locate") /\ UNCHANGED job
     \/ lease # 0 /\ Fail(e) /\ UNCHANGED lease
  /\ UNCHANGED <<sheetVars, chainVars, countVars, lost>>

\* findQboGeneralLedgerPeriodBlock_: the stretches of consecutive rows of a month
Blocks(month) ==
  LET mine == {i \in DOMAIN store : store[i].month = month}
  IN {b \in [start : mine, count : 1..Len(store)] :
        /\ b.start..(b.start + b.count - 1) \subseteq mine
        /\ b.start - 1 \notin mine /\ b.start + b.count \notin mine}

FailLocked(e) ==
  Goto(e, "release") /\ Remember(e, [job[e] EXCEPT !.failed = TRUE])

\* Mutant: an export that does not fit is written all the same
MutLocate(e) ==
  /\ pc[e] = "locate"
  /\ Goto(e, "delete") /\ Remember(e, [job[e] EXCEPT !.blocks = Blocks(job[e].month)])
  /\ UNCHANGED <<sheetVars, lease, chainVars, countVars, lost>>

\* The blocks to replace and validateQboGeneralLedgerCapacity_
Locate(e) ==
  LET replaced == Len(OfMonth(job[e].month))
      fetched == Len(Rows(job[e].run))
      more == IF fetched > replaced THEN fetched - replaced ELSE 0
  IN
  /\ pc[e] = "locate"
  /\ IF Len(store) + more > MaxRows THEN FailLocked(e)
     ELSE /\ Goto(e, "delete")
          /\ Remember(e, [job[e] EXCEPT !.blocks = Blocks(job[e].month)])
  /\ UNCHANGED <<sheetVars, lease, chainVars, countVars, lost>>

\* Sheet.deleteRows
Without(rows, block) ==
  SubSeq(rows, 1, block.start - 1) \o SubSeq(rows, block.start + block.count, Len(rows))

\* Mutant: blocks are deleted from the top, so that the later ones have moved
MutDelete(e) ==
  /\ pc[e] = "delete"
  /\ \/ \E block \in job[e].blocks :
          /\ \A other \in job[e].blocks : other.start >= block.start
          /\ store' = Without(store, block)
          /\ Remember(e, [job[e] EXCEPT !.blocks = @ \ {block}]) /\ UNCHANGED <<pc, faults>>
     \/ /\ job[e].blocks = {}
        /\ Goto(e, "append") /\ UNCHANGED <<store, job, faults>>
  /\ UNCHANGED <<extracts, snapshots, registry, changes, lease, chainVars, calls, lost>>

\* The old rows go, one block after the other from the bottom
Delete(e) ==
  /\ pc[e] = "delete"
  /\ \/ \E block \in job[e].blocks :
          /\ \A other \in job[e].blocks : other.start <= block.start
          /\ store' = Without(store, block)
          /\ Remember(e, [job[e] EXCEPT !.blocks = @ \ {block}]) /\ UNCHANGED <<pc, faults>>
     \/ /\ job[e].blocks = {}
        /\ Goto(e, "append") /\ UNCHANGED <<store, job, faults>>
     \/ /\ job[e].blocks # {} /\ Charge("error") /\ FailLocked(e) /\ UNCHANGED store
  /\ UNCHANGED <<extracts, snapshots, registry, changes, lease, chainVars, calls, lost>>

\* The new rows are written below the last row in one call
AppendRows(e) ==
  LET j == job[e] IN
  /\ pc[e] = "append"
  /\ \/ /\ store' = store \o [i \in DOMAIN Rows(j.run) |-> [run |-> j.run, month |-> j.month]]
        /\ Goto(e, "snapshot") /\ UNCHANGED <<job, faults>>
     \/ Charge("error") /\ FailLocked(e) /\ UNCHANGED store
  /\ UNCHANGED <<extracts, snapshots, registry, changes, lease, chainVars, calls, lost>>

\* createQboGeneralLedgerRunSnapshotV2_: created, validated, or put in the trash
Snapshot(e) ==
  /\ pc[e] = "snapshot"
  /\ \/ /\ snapshots' = snapshots \union {job[e].run}
        /\ Goto(e, "release") /\ UNCHANGED <<job, faults>>
     \/ Charge("error") /\ FailLocked(e) /\ UNCHANGED snapshots
  /\ UNCHANGED <<store, extracts, registry, changes, lease, chainVars, calls, lost>>

\* The finally of withExportWriteLock_
Release(e) ==
  /\ pc[e] = "release"
  /\ lease' = IF lease = job[e].run THEN 0 ELSE lease
  /\ IF job[e].failed THEN Fail(e) ELSE Goto(e, "target") /\ UNCHANGED job
  /\ UNCHANGED <<sheetVars, chainVars, countVars, lost>>

\* appendQboGeneralLedgerRun_ looks for the row after the last one ...
Target(e) ==
  /\ pc[e] = "target"
  /\ Remember(e, [job[e] EXCEPT !.target = Len(registry) + 1])
  /\ Goto(e, "record")
  /\ UNCHANGED <<sheetVars, lease, chainVars, countVars, lost>>

\* ... writes the line there ...
Record(e) ==
  LET t == job[e].target IN
  /\ pc[e] = "record"
  /\ \/ /\ registry' = IF t > Len(registry) THEN Append(registry, job[e].run)
                       ELSE [registry EXCEPT ![t] = job[e].run]
        /\ Goto(e, "verify") /\ UNCHANGED <<job, faults>>
     \/ Charge("error") /\ Fail(e) /\ UNCHANGED registry
  /\ UNCHANGED <<store, extracts, snapshots, changes, lease, chainVars, calls, lost>>

\* ... and reads its time back; another run may have the same second
Verify(e) ==
  /\ pc[e] = "verify"
  /\ \/ IF job[e].prior = 0 THEN Succeed(e) ELSE Goto(e, "compare") /\ UNCHANGED job
     \/ registry[job[e].target] # job[e].run /\ Fail(e)
  /\ UNCHANGED <<sheetVars, lease, chainVars, countVars, lost>>

-----------------------------------------------------------------------------
(* The comparison of two runs: compareQboGeneralLedgerRunSnapshots_ *)

\* compareLatestTwoQboGeneralLedgerRunsForLatestPeriod, by the operator
CompareCalled(e) ==
  LET current == registry[Len(registry)]
      prior == Latest(extracts[current].month, SubSeq(registry, 1, Len(registry) - 1))
  IN
  /\ pc[e] = "idle" /\ calls <= MaxCalls /\ registry # <<>>
  /\ prior # 0
  /\ calls' = calls + 1
  /\ Remember(e, [NoJob EXCEPT !.month = extracts[current].month, !.prior = prior,
                               !.run = current])
  /\ Goto(e, "compare")
  /\ UNCHANGED <<sheetVars, lease, chainVars, faults, lost>>

Comparison(e) == [prior |-> job[e].prior, current |-> job[e].run]

\* A pair of runs already in the sheet, or without any row, is not written
Compare(e) ==
  /\ pc[e] = "compare"
  /\ \/ IF \/ Comparison(e) \in Range(changes)
           \/ Changes(Rows(job[e].prior), Rows(job[e].run)) = {}
        THEN Succeed(e) /\ UNCHANGED faults
        ELSE /\ Remember(e, [job[e] EXCEPT !.target = Len(changes) + 1])
             /\ Goto(e, "persist") /\ UNCHANGED faults
     \/ Charge("error") /\ Fail(e)
  /\ UNCHANGED <<sheetVars, lease, chainVars, calls, lost>>

\* The change rows are written in one call at the row found before
Persist(e) ==
  LET j == job[e]
      n == Cardinality(Changes(Rows(j.prior), Rows(j.run)))
      block == j.target..(j.target + n - 1)
  IN
  /\ pc[e] = "persist"
  /\ \/ /\ changes' = [i \in DOMAIN changes \union block |->
                         IF i \in block THEN Comparison(e) ELSE changes[i]]
        /\ Succeed(e) /\ UNCHANGED faults
     \/ Charge("error") /\ Fail(e) /\ UNCHANGED changes
  /\ UNCHANGED <<store, extracts, snapshots, registry, lease, chainVars, calls, lost>>

-----------------------------------------------------------------------------
(* One month of the backfill: runNextQboGeneralLedgerBackfillMonth *)

\* A trigger fires; it is one-shot
WorkerFires(e) ==
  /\ pc[e] = "idle" /\ triggers > 0
  /\ triggers' = triggers - 1
  /\ Goto(e, "begin")
  /\ UNCHANGED <<sheetVars, lease, backfill, job, countVars, lost>>

\* All triggers go, and the position is read
Begin(e) ==
  /\ pc[e] = "begin"
  /\ triggers' = 0
  /\ Remember(e, [NoJob EXCEPT !.by = backfill.run, !.month = backfill.month,
                               !.last = backfill.last])
  /\ Goto(e, "mark")
  /\ UNCHANGED <<sheetVars, lease, backfill, countVars, lost>>

SetStatus(status) == backfill' = [backfill EXCEPT !.status = status]

Mark(e) ==
  /\ pc[e] = "mark" /\ SetStatus("RUNNING") /\ Goto(e, "fetch")
  /\ UNCHANGED <<sheetVars, lease, triggers, job, countVars, lost>>

\* The month was exported
Note(e) ==
  /\ pc[e] = "note"
  /\ backfill' = [backfill EXCEPT !.done = job[e].month]
  /\ Goto(e, IF job[e].month = job[e].last THEN "dropLast" ELSE "advance")
  /\ UNCHANGED <<sheetVars, lease, triggers, job, countVars, lost>>

\* Mutant: the stored position is advanced, not the month that was exported
MutAdvance(e) ==
  /\ pc[e] = "advance"
  /\ backfill' = [backfill EXCEPT !.month = @ + 1]
  /\ Goto(e, "ready")
  /\ UNCHANGED <<sheetVars, lease, triggers, job, countVars, lost>>

\* The position moves to the month after the one that was exported
Advance(e) ==
  /\ pc[e] = "advance"
  /\ backfill' = [backfill EXCEPT !.month = job[e].month + 1]
  /\ Goto(e, "ready")
  /\ UNCHANGED <<sheetVars, lease, triggers, job, countVars, lost>>

Ready(e) ==
  /\ pc[e] = "ready" /\ SetStatus("READY") /\ Goto(e, "dropNext")
  /\ UNCHANGED <<sheetVars, lease, triggers, job, countVars, lost>>

\* scheduleNextQboGeneralLedgerBackfillTrigger_: delete, then create
DropNext(e) ==
  /\ pc[e] = "dropNext" /\ triggers' = 0 /\ Goto(e, "makeNext")
  /\ UNCHANGED <<sheetVars, lease, backfill, job, countVars, lost>>

MakeNext(e) ==
  /\ pc[e] = "makeNext" /\ triggers' = triggers + 1 /\ End(e)
  /\ UNCHANGED <<sheetVars, lease, backfill, countVars, lost>>

\* After the last month nothing is left to fire
DropLast(e) ==
  /\ pc[e] = "dropLast" /\ triggers' = 0 /\ Goto(e, "complete")
  /\ UNCHANGED <<sheetVars, lease, backfill, job, countVars, lost>>

Complete(e) ==
  /\ pc[e] = "complete" /\ SetStatus("COMPLETE") /\ End(e)
  /\ UNCHANGED <<sheetVars, lease, triggers, countVars, lost>>

\* Mutant: an error leaves the status as it is
MutError(e) ==
  /\ pc[e] = "error" /\ End(e)
  /\ UNCHANGED <<sheetVars, lease, chainVars, countVars, lost>>

\* An export that threw: the chain ends here, at the same month
Error(e) ==
  /\ pc[e] = "error" /\ SetStatus("ERROR") /\ End(e)
  /\ UNCHANGED <<sheetVars, lease, triggers, countVars, lost>>

-----------------------------------------------------------------------------
(* The operator; each command is under the script lock, which no worker takes, *)
(* and is one step here *)

Call == calls < MaxCalls /\ calls' = calls + 1
Working(e) == job[e].by # 0 \/ pc[e] = "begin"

\* startQboGeneralLedgerBackfill: triggers are deleted before the status is looked at
Start(first, last) ==
  /\ Call
  /\ "restart" \in Hazards \/ \A e \in Execs : ~Working(e)
  /\ IF backfill.status \in {"RUNNING", "READY"}
     THEN triggers' = 0 /\ lost' = TRUE /\ UNCHANGED backfill
     ELSE /\ backfill.run < MaxStarts
          /\ backfill' = [run |-> backfill.run + 1, first |-> first, last |-> last,
                          month |-> first, done |-> 0, status |-> "READY"]
          /\ triggers' = 1 /\ lost' = FALSE
  /\ UNCHANGED <<sheetVars, lease, pc, job, faults>>

\* resumeQboGeneralLedgerBackfill: the same month again
Resume ==
  /\ Call
  /\ backfill.run # 0
  /\ IF backfill.status \in {"COMPLETE", "CANCELLED"}
     THEN triggers' = 0 /\ UNCHANGED <<backfill, lost>>
     ELSE SetStatus("READY") /\ triggers' = 1 /\ lost' = FALSE
  /\ UNCHANGED <<sheetVars, lease, pc, job, faults>>

\* cancelQboGeneralLedgerBackfill: a completed run stays completed
Cancel ==
  /\ Call
  /\ backfill.run # 0
  /\ triggers' = 0
  /\ IF backfill.status = "COMPLETE" THEN UNCHANGED backfill ELSE SetStatus("CANCELLED")
  /\ UNCHANGED <<sheetVars, lease, pc, job, faults, lost>>

\* repairQboGeneralLedgerBackfillCompletedStatus
Repair ==
  /\ Call
  /\ backfill.run # 0 /\ triggers = 0
  /\ backfill.month = backfill.last /\ backfill.done = backfill.last
  /\ SetStatus("COMPLETE")
  /\ UNCHANGED <<sheetVars, lease, triggers, pc, job, faults, lost>>

\* The platform ends an execution; its lease stays
Crash(e) ==
  /\ pc[e] # "idle" /\ Charge("crash")
  /\ lost' = (lost \/ Working(e))
  /\ End(e)
  /\ UNCHANGED <<sheetVars, lease, chainVars, calls>>

-----------------------------------------------------------------------------

Progress(e) ==
  \/ Fetch(e) \/ Acquire(e) \/ Locate(e) \/ Delete(e) \/ AppendRows(e) \/ Snapshot(e)
  \/ Release(e) \/ Target(e) \/ Record(e) \/ Verify(e) \/ Compare(e) \/ Persist(e)
  \/ Begin(e) \/ Mark(e) \/ Note(e) \/ Advance(e) \/ Ready(e) \/ DropNext(e) \/ MakeNext(e)
  \/ DropLast(e) \/ Complete(e) \/ Error(e)

Operator ==
  \/ \E first, last \in 1..Months : first <= last /\ Start(first, last)
  \/ Resume \/ Cancel \/ Repair

Next ==
  \/ \E e \in Execs :
       \/ Progress(e) \/ WorkerFires(e) \/ CompareCalled(e) \/ Crash(e)
       \/ \E month \in 1..Months : ExportCalled(e, month)
  \/ Operator

Spec == Init /\ [][Next]_vars

\* A started execution keeps taking steps, and an installed trigger fires
FairSpec ==
  /\ Spec
  /\ \A e \in Execs : WF_vars(Progress(e))
  /\ SF_vars(\E e \in Execs : WorkerFires(e))

-----------------------------------------------------------------------------
(* Properties *)

Runs == DOMAIN extracts
Statuses == {"none", "READY", "RUNNING", "ERROR", "CANCELLED", "COMPLETE"}
Pcs == {"idle", "fetch", "lease", "locate", "delete", "append", "snapshot", "release",
        "target", "record", "verify", "compare", "persist", "begin", "mark", "note",
        "advance", "ready", "dropNext", "makeNext", "dropLast", "complete", "error"}

\* Every variable has its type, and the store never outgrows the workbook's capacity
\* (validateQboGeneralLedgerCapacity_ counts the rows a rerun gives back).
TypeOK ==
  /\ store \in Seq([run : 0..Len(extracts), month : 1..Months]) /\ Len(store) <= MaxRows
  /\ extracts \in Seq([month : 1..Months, rows : Seq(LedgerRow), by : 0..MaxStarts])
  /\ lease \in 0..Len(extracts) /\ snapshots \subseteq Runs /\ registry \in Seq(Runs)
  /\ changes \in Seq([prior : Runs, current : Runs])
  /\ backfill \in [run : 0..MaxStarts, first : 0..Months, last : 0..Months,
                   month : 0..Months, done : 0..Months, status : Statuses]
  /\ triggers \in 0..Cardinality(Execs) + 1
  /\ pc \in [Execs -> Pcs]
  /\ job \in [Execs -> [by : 0..MaxStarts, month : 0..Months, last : 0..Months,
                        prior : 0..Len(extracts), run : 0..Len(extracts),
                        blocks : SUBSET [start : 1..MaxRows, count : 1..MaxRows],
                        target : Nat, failed : BOOLEAN]]
  /\ calls \in 0..MaxCalls + 1 /\ faults \in 0..MaxFaults /\ lost \in BOOLEAN

\* A step changes the rows of one month only, that of the export which holds the lease,
\* and once an export has written its rows no other row of its month is left: neither
\* row numbers that have moved nor a month stored in several blocks may break this
\* (52_QBO_GeneralLedgerReport.js, "a rerun of an existing period replaces only that
\* period's rows").
PeriodReplaced ==
  [][/\ \A month \in 1..Months :
          OfMonth(month)' # OfMonth(month) =>
            \E e \in Execs : /\ pc[e] \in {"delete", "append"} /\ job[e].month = month
                             /\ lease = job[e].run
     /\ \A e \in Execs : pc[e] = "append" /\ pc'[e] = "snapshot" =>
          /\ {row.run : row \in Range(OfMonth(job[e].month)')} \subseteq {job[e].run}
          /\ Len(OfMonth(job[e].month)') = Len(Rows(job[e].run))]_vars

\* The months the backfill stands behind, and all of them once it is COMPLETE, have
\* snapshots fetched by this very backfill, whatever terminations, resumes and overlapping
\* workers there were (module 53: the position "advances only after a successful
\* monthly export").
MonthsProved ==
  backfill.run # 0 =>
    \A month \in backfill.first..(IF backfill.status = "COMPLETE" THEN backfill.last
                                  ELSE backfill.month - 1) :
      \E run \in snapshots : extracts[run].month = month /\ extracts[run].by = backfill.run

\* Every line of the registry and of the change sheet is about runs with a validated
\* snapshot, a change about two runs of one month, and the change rows of these two
\* account for every row of both.
EvidenceExact ==
  /\ Range(registry) \subseteq snapshots
  /\ \A c \in Range(changes) :
       /\ {c.prior, c.current} \subseteq snapshots
       /\ extracts[c.prior].month = extracts[c.current].month
       /\ Exact(Rows(c.prior), Rows(c.current))

\* A backfill that is READY comes to its end, through leases that stay taken, overlapping
\* exports and errors, unless a termination or a start that is refused breaks its chain
\* of triggers.
BackfillEnds ==
  (backfill.status = "READY") ~>
    (backfill.status \in {"COMPLETE", "ERROR", "CANCELLED"} \/ lost)
=============================================================================
