---------------------------- MODULE StateRebuild ----------------------------
(***************************************************************************)
(* The controlled rebuild of the canonical state history, module           *)
(* 95_QBO_StateCaptureContractV2Rebuild.js.  Export after export and,      *)
(* within an export, source after source from the oldest, a worker compares *)
(* the state of every entity with its state in the source before and       *)
(* appends what is new to three sheets: a snapshot, the change from the    *)
(* stored snapshot before it, and the details of that change.  Workers     *)
(* follow one another by one-shot triggers; a recurring watchdog arms the  *)
(* trigger again when no lease is active.  The operator may start, stop    *)
(* and resume the rebuild.                                                 *)
(*                                                                         *)
(* The control record is a set of script properties written under the      *)
(* script lock, and read without it.  Source workbooks and sheets are      *)
(* read and written without any lock.                                      *)
(***************************************************************************)
EXTENDS Integers, FiniteSets

CONSTANTS
  Execs,       \* Apps Script executions that may be alive at the same time
  Exports,     \* number of exports in CANONICAL_MIGRATION_SCOPE
  Sources,     \* bound: sources of an export
  Entities,    \* entities of an export
  Values,      \* canonical states of an entity, told apart by their hash
  Histories,   \* what the sources of this instance may hold
  FirstKnown,  \* how many sources of every export there may be at first
  Batch,       \* WORKER_MAX_SOURCES
  MaxWorkers,  \* bound: worker ids in use at the same time
  MaxEvents,   \* bound: operator calls and events of Hazards
  Hazards      \* the events below that may happen in this instance

(* "crash" ends a worker or a watchdog anywhere; "lock" is a script lock   *)
(* not to be had within five seconds; "call" a Sheets, Drive or trigger    *)
(* call that fails, or a source that cannot be read; "slow" a live worker  *)
(* that outlasts its lease.                                                *)
HazardKinds == {"crash", "lock", "call", "slow"}

Absent == 0

ASSUME RebuildConstants ==
  /\ Exports \in Nat /\ Sources \in Nat /\ Batch \in Nat \ {0}
  /\ MaxWorkers \in Nat /\ MaxEvents \in Nat
  /\ Hazards \subseteq HazardKinds
  /\ FirstKnown \subseteq [1..Exports -> 0..Sources]
  /\ Histories \subseteq [(1..Exports) \X (1..Sources) \X Entities -> Values \union {Absent}]

Workers == 1..MaxWorkers
Sheets == {"snapshot", "change", "detail"}

VARIABLES
  history,  \* the state of an entity in every source of every export
  known,    \* per export: how many sources are AVAILABLE in 01_Sources
  control,  \* the script properties of the rebuild
  trigger,  \* whether the worker and the watchdog trigger are installed
  rows,     \* the V2 rows of every sheet
  twice,    \* rows that were appended although the sheet held them
  logged,   \* sources with a COMPLETE line in the ingestion log
  pc, job,  \* per execution: where it is, and its local variables
  events,   \* operator calls and events of Hazards so far
  atStart,  \* history: what known was when the last start was accepted
  overlap   \* history: whether a second worker may have met a live one

sourceVars == <<history, known>>
sheetVars == <<rows, twice, logged>>
ghostVars == <<atStart, overlap>>
vars == <<sourceVars, control, trigger, sheetVars, pc, job, events, ghostVars>>

-----------------------------------------------------------------------------
(* Values *)

(* The largest element of a set of source numbers, 0 when it is empty. *)
Latest(set) ==
  IF \E j \in set : \A k \in set : k <= j
    THEN CHOOSE j \in set : \A k \in set : k <= j
    ELSE 0

(* A row stands for its deterministic id: the entity as it is in a source,  *)
(* and the source of the stored snapshot it is compared with.              *)
RowType ==
  [export : 1..Exports, source : 1..Sources, entity : Entities, prior : 0..Sources]

Statuses == {"", "RUNNING", "STOPPED", "ERROR", "COMPLETE"}

(* export and source are the cursor: the export in work, and how many of   *)
(* its sources are replayed.  live says that the lease is still ahead.     *)
ControlType ==
  [status : Statuses, export : 1..(Exports + 1), source : 0..Sources,
   token : 0..MaxWorkers, live : BOOLEAN]

NoJob == [token |-> 0, export |-> 1, source |-> 0, next |-> <<1, 0>>, sheet |-> "snapshot",
          found |-> [k \in Sheets |-> {}], under |-> {}, replayed |-> 0, again |-> FALSE]

OperatorPcs == {"install", "start_clear", "stop_clear"}
WorkerPcs == {"first", "loop", "beat", "replay", "append", "write", "verify", "log",
              "checkpoint", "clear", "error", "release"}
Pcs == {"idle", "claim", "arm"} \union WorkerPcs \union OperatorPcs

-----------------------------------------------------------------------------
(* The replay of one source *)

(* The prior state comes from the source before, whatever is stored.  The   *)
(* first source has none before it.                                        *)
State(x, i, n) == IF i = 0 THEN Absent ELSE history[<<x, i, n>>]

Differs(x, i, n) == State(x, i, n) # Absent /\ State(x, i, n) # State(x, i - 1, n)

(* Mutant: the snapshots of the source itself are taken for earlier ones. *)
MutStoredPrior(x, i, n) ==
  Latest({r.source : r \in {s \in rows["snapshot"] :
    s.export = x /\ s.entity = n /\ s.source <= i}})

(* qboCanonicalV2LoadLatestSnapshotMap_. *)
StoredPrior(x, i, n) ==
  Latest({r.source : r \in {s \in rows["snapshot"] :
    s.export = x /\ s.entity = n /\ s.source < i}})

(* Every state of the first source is an INITIAL_STATE: no change. *)
Belongs(sheet, i) == sheet = "snapshot" \/ i > 1

Candidates(sheet, x, i) ==
  {r \in RowType :
    /\ r.export = x /\ r.source = i /\ Differs(x, i, r.entity)
    /\ Belongs(sheet, i) /\ r.prior = StoredPrior(x, i, r.entity)}

(* The prior snapshot is a cell of a snapshot row, not a part of its id. *)
SameId(sheet, r, s) ==
  /\ r.export = s.export /\ r.source = s.source /\ r.entity = s.entity
  /\ sheet = "snapshot" \/ r.prior = s.prior

Persisted(sheet, r) == \E s \in rows[sheet] : SameId(sheet, r, s)

(* Mutant: a change and its details are written only along with a snapshot. *)
MutMissingChange(sheet, x, i) ==
  {r \in Candidates(sheet, x, i) : ~Persisted("snapshot", r)}

Missing(sheet, x, i) == {r \in Candidates(sheet, x, i) : ~Persisted(sheet, r)}

-----------------------------------------------------------------------------
(* Helpers *)

Goto(e, where) == pc' = [pc EXCEPT ![e] = where]
Move(e, where) == Goto(e, where) /\ UNCHANGED job
End(e) == Goto(e, "idle") /\ job' = [job EXCEPT ![e] = NoJob]
Count == events < MaxEvents /\ events' = events + 1
Charge(event) == event \in Hazards /\ Count

Mine(e) == control.token = job[e].token
LeaseActive == control.token # 0 /\ control.live
Holder(e) == pc[e] \in WorkerPcs /\ Mine(e)

(* Tokens are UUIDs; here one is drawn again once nothing names it. *)
Named(w) == control.token = w \/ \E e \in Execs : job[e].token = w
Fresh(w) == ~Named(w) /\ \A v \in 1..(w - 1) : Named(v)

Released == [control EXCEPT !.token = 0, !.live = FALSE]

NextSheet == [snapshot |-> "change", change |-> "detail", detail |-> "snapshot"]
AfterSheet == [snapshot |-> "append", change |-> "append", detail |-> "verify"]

-----------------------------------------------------------------------------
(* The operator *)

(* A start or a stop takes the lease from a worker that is alive, and one   *)
(* call of the operator may delete the triggers of another.                 *)
Operate(e, met) ==
  /\ pc[e] = "idle" /\ Count
  /\ overlap' = (overlap \/ \E f \in Execs : pc[f] \in met)
  /\ UNCHANGED <<sourceVars, sheetVars, job, trigger>>

Start(e) ==
  /\ Operate(e, OperatorPcs \union WorkerPcs)
  /\ control.status # "RUNNING"
  /\ control' = [status |-> "RUNNING", export |-> 1, source |-> 0, token |-> 0, live |-> FALSE]
  /\ atStart' = known
  /\ Goto(e, "start_clear")

Resume(e) ==
  /\ Operate(e, OperatorPcs)
  /\ control.status \notin {"", "COMPLETE"}
  /\ control' = [control EXCEPT !.status = "RUNNING"]
  /\ Goto(e, "install")
  /\ UNCHANGED atStart

Stop(e) ==
  /\ Operate(e, OperatorPcs \union WorkerPcs)
  /\ control.status # ""
  /\ control' = [Released EXCEPT !.status = "STOPPED"]
  /\ Goto(e, "stop_clear")
  /\ UNCHANGED atStart

(* qboCanonicalV2DeleteTriggers_: of start, of stop, and of a worker that   *)
(* reads COMPLETE.                                                          *)
DeleteTriggers(e) ==
  /\ trigger' = [worker |-> FALSE, watchdog |-> FALSE]
  /\ \/ pc[e] = "start_clear" /\ Move(e, "install")
     \/ pc[e] = "stop_clear" /\ End(e)
     \/ pc[e] = "clear" /\ Move(e, "release")
  /\ UNCHANGED <<sourceVars, control, sheetVars, events, ghostVars>>

(* The watchdog, unless it is there, and the first worker. *)
InstallTriggers(e) ==
  /\ pc[e] = "install"
  /\ trigger' = [worker |-> TRUE, watchdog |-> TRUE]
  /\ End(e)
  /\ UNCHANGED <<sourceVars, control, sheetVars, events, ghostVars>>

(* Mutant: a worker trigger is only armed while another run is active. *)
MutScheduleWorker(e) ==
  /\ pc[e] = "arm"
  /\ trigger' = [trigger EXCEPT !.worker = LeaseActive]
  /\ End(e)
  /\ UNCHANGED <<sourceVars, control, sheetVars, events, ghostVars>>

(* At most one worker trigger, armed by a worker that ends and the watchdog. *)
ScheduleWorker(e) ==
  /\ pc[e] = "arm"
  /\ trigger' = [trigger EXCEPT !.worker = TRUE]
  /\ End(e)
  /\ UNCHANGED <<sourceVars, control, sheetVars, events, ghostVars>>

-----------------------------------------------------------------------------
(* The worker *)

(* The worker trigger fires, and its handler first deletes it. *)
Fire(e) ==
  /\ pc[e] = "idle" /\ trigger.worker
  /\ trigger' = [trigger EXCEPT !.worker = FALSE]
  /\ Move(e, "claim")
  /\ UNCHANGED <<sourceVars, control, sheetVars, events, ghostVars>>

(* The watchdog trigger fires.  Whether heartbeat or progress are stale     *)
(* makes no difference: nothing is armed as long as a trigger is there.     *)
Watch(e) ==
  /\ pc[e] = "idle" /\ trigger.watchdog
  /\ control.status = "RUNNING" /\ ~LeaseActive
  /\ Move(e, "arm")
  /\ UNCHANGED <<sourceVars, control, trigger, sheetVars, events, ghostVars>>

(* Mutant: a worker takes a lease that is still active. *)
MutTryClaim(e, w) ==
  /\ pc[e] = "claim" /\ Fresh(w) /\ control.status = "RUNNING"
  /\ control' = [control EXCEPT !.token = w, !.live = TRUE]
  /\ job' = [job EXCEPT ![e].token = w]
  /\ Goto(e, "first")
  /\ UNCHANGED <<sourceVars, trigger, sheetVars, events, ghostVars>>

TryClaim(e, w) ==
  /\ pc[e] = "claim" /\ Fresh(w)
  /\ IF control.status = "RUNNING" /\ ~LeaseActive
       THEN /\ control' = [control EXCEPT !.token = w, !.live = TRUE]
            /\ job' = [job EXCEPT ![e].token = w]
            /\ Goto(e, "first")
       ELSE End(e) /\ UNCHANGED control
  /\ UNCHANGED <<sourceVars, trigger, sheetVars, events, ghostVars>>

(* The loop reads the control record.  A worker goes on for at least one    *)
(* source, at most Batch of them, and no further once its time is used up.  *)
ReadControl(e) ==
  /\ pc[e] \in {"first", "loop"} /\ control.status = "RUNNING"
  /\ pc[e] = "loop" => job[e].replayed < Batch
  /\ job' = [job EXCEPT ![e].export = control.export, ![e].source = control.source]
  /\ Goto(e, "beat")
  /\ UNCHANGED <<sourceVars, control, trigger, sheetVars, events, ghostVars>>

(* Only the worker that finds the run RUNNING arms the next one. *)
Leave(e) ==
  /\ \/ pc[e] = "loop"
     \/ pc[e] = "first" /\ control.status # "RUNNING"
  /\ job' = [job EXCEPT ![e].again = control.status = "RUNNING"]
  /\ Goto(e, IF pc[e] = "loop" /\ control.status = "COMPLETE" THEN "clear" ELSE "release")
  /\ UNCHANGED <<sourceVars, control, trigger, sheetVars, events, ghostVars>>

Heartbeat(e) ==
  /\ pc[e] = "beat"
  /\ IF Mine(e)
       THEN control' = [control EXCEPT !.live = TRUE] /\ Move(e, "replay")
       ELSE Move(e, "error") /\ UNCHANGED control
  /\ UNCHANGED <<sourceVars, trigger, sheetVars, events, ghostVars>>

(* qboCanonicalV2ProcessOneSource_ up to its first write.  The cursor is    *)
(* the one the loop read; sources and ids are read from the workbook now.   *)
Load(e) ==
  LET x == job[e].export
      i == job[e].source + 1
  IN
  /\ pc[e] = "replay"
  /\ IF x <= Exports /\ i <= known[x]
       THEN /\ job' = [job EXCEPT ![e].next = <<x, i>>, ![e].sheet = "snapshot",
                                  ![e].found = [k \in Sheets |-> Missing(k, x, i)]]
            /\ Goto(e, "append")
       ELSE /\ job' = [job EXCEPT ![e].next = <<IF x <= Exports THEN x + 1 ELSE x, 0>>]
            /\ Goto(e, "checkpoint")
  /\ UNCHANGED <<sourceVars, control, trigger, sheetVars, events, ghostVars>>

(* qboCanonicalAppendRows_ asks for the last row, then writes below it. *)
FindLastRow(e) ==
  LET found == job[e].found[job[e].sheet] IN
  /\ pc[e] = "append"
  /\ IF found # {}
       THEN job' = [job EXCEPT ![e].under = {}] /\ Goto(e, "write")
       ELSE job' = [job EXCEPT ![e].sheet = NextSheet[@]] /\ Goto(e, AfterSheet[job[e].sheet])
  /\ UNCHANGED <<sourceVars, control, trigger, sheetVars, events, ghostVars>>

(* Rows another worker wrote there in between are written over. *)
AppendRows(e) ==
  LET sheet == job[e].sheet
      found == job[e].found[sheet]
  IN
  /\ pc[e] = "write"
  /\ \E over \in SUBSET job[e].under :
       /\ over = job[e].under \/ Cardinality(over) = Cardinality(found)
       /\ Cardinality(over) <= Cardinality(found)
       /\ rows' = [rows EXCEPT ![sheet] = (@ \ over) \union found]
       /\ twice' = twice \union
            {r \in found : \E s \in rows[sheet] \ over : SameId(sheet, r, s)}
  /\ job' = [f \in Execs |->
       IF f = e THEN [job[e] EXCEPT !.under = {}, !.sheet = NextSheet[sheet]]
       ELSE IF pc[f] = "write" /\ job[f].sheet = sheet
         THEN [job[f] EXCEPT !.under = @ \union found]
         ELSE job[f]]
  /\ Goto(e, AfterSheet[sheet])
  /\ UNCHANGED <<sourceVars, control, trigger, logged, events, ghostVars>>

(* qboCanonicalV2AssertPersistedIds_, for every sheet. *)
AssertPersisted(e) ==
  /\ pc[e] = "verify"
  /\ Move(e, IF \A k \in Sheets : \A r \in job[e].found[k] : Persisted(k, r)
               THEN "log" ELSE "error")
  /\ UNCHANGED <<sourceVars, control, trigger, sheetVars, events, ghostVars>>

AppendLog(e) ==
  /\ pc[e] = "log"
  /\ logged' = logged \union {job[e].next}
  /\ Move(e, "checkpoint")
  /\ UNCHANGED <<sourceVars, control, trigger, rows, twice, events, ghostVars>>

(* The cursor passes a source, or the export that has no more sources; past *)
(* the last export the run is COMPLETE, and the worker leaves its loop.     *)
Passing(e) ==
  /\ control' = [control EXCEPT !.export = job[e].next[1], !.source = job[e].next[2],
       !.status = IF job[e].export > Exports THEN "COMPLETE" ELSE @]
  /\ job' = [job EXCEPT ![e].replayed =
       IF job[e].export > Exports THEN Batch ELSE IF job[e].next[2] > 0 THEN @ + 1 ELSE @]
  /\ Goto(e, "loop")

(* Mutant: the checkpoint does not compare the lease token. *)
MutCheckpoint(e) ==
  /\ pc[e] = "checkpoint" /\ Passing(e)
  /\ UNCHANGED <<sourceVars, trigger, sheetVars, events, ghostVars>>

Checkpoint(e) ==
  /\ pc[e] = "checkpoint"
  /\ IF Mine(e) THEN Passing(e) ELSE Move(e, "error") /\ UNCHANGED control
  /\ UNCHANGED <<sourceVars, trigger, sheetVars, events, ghostVars>>

(* qboCanonicalV2SetErrorState_: whatever the status, and whoever holds the *)
(* lease.                                                                   *)
SetErrorState(e) ==
  /\ pc[e] = "error"
  /\ control' = [control EXCEPT !.status = "ERROR"]
  /\ Move(e, "release")
  /\ UNCHANGED <<sourceVars, trigger, sheetVars, events, ghostVars>>

ReleaseLease(e) ==
  /\ pc[e] = "release"
  /\ control' = IF Mine(e) THEN Released ELSE control
  /\ IF job[e].again THEN Move(e, "arm") ELSE End(e)
  /\ UNCHANGED <<sourceVars, trigger, sheetVars, events, ghostVars>>

-----------------------------------------------------------------------------
(* What goes wrong, and what goes on outside *)

Crash(e) ==
  /\ Charge("crash")
  /\ pc[e] \in {"claim", "arm"} \union WorkerPcs
  /\ End(e)
  /\ UNCHANGED <<sourceVars, control, trigger, sheetVars, ghostVars>>

(* An exception in the loop sets ERROR; one while ERROR is set still lets   *)
(* the worker release; any other ends the execution.                        *)
LockTimeout(e) ==
  /\ Charge("lock")
  /\ \/ pc[e] \in {"beat", "checkpoint"} /\ Move(e, "error")
     \/ pc[e] = "error" /\ Move(e, "release")
     \/ pc[e] \in {"claim", "release"} /\ End(e)
  /\ UNCHANGED <<sourceVars, control, trigger, sheetVars, ghostVars>>

CallFails(e) ==
  /\ Charge("call")
  /\ \/ pc[e] \in {"append", "write", "verify", "log", "clear"} /\ Move(e, "error")
     \/ pc[e] = "replay" /\ job[e].export <= Exports /\ Move(e, "error")
     \/ pc[e] = "arm" /\ End(e)
  /\ UNCHANGED <<sourceVars, control, trigger, sheetVars, ghostVars>>

(* Six minutes after the last heartbeat. *)
ExpireLease ==
  /\ LeaseActive
  /\ control' = [control EXCEPT !.live = FALSE]
  /\ IF \E e \in Execs : Holder(e)
       THEN Charge("slow") /\ overlap' = TRUE
       ELSE UNCHANGED <<events, overlap>>
  /\ UNCHANGED <<sourceVars, trigger, sheetVars, pc, job, atStart>>

(* An exporter registers the source of a new backup, observed last. *)
Register(x) ==
  /\ known[x] < Sources
  /\ known' = [known EXCEPT ![x] = @ + 1]
  /\ UNCHANGED <<history, control, trigger, sheetVars, pc, job, events, ghostVars>>

-----------------------------------------------------------------------------

Init ==
  /\ history \in Histories
  /\ known \in FirstKnown
  /\ control = [status |-> "", export |-> 1, source |-> 0, token |-> 0, live |-> FALSE]
  /\ trigger = [worker |-> FALSE, watchdog |-> FALSE]
  /\ rows = [k \in Sheets |-> {}] /\ twice = {} /\ logged = {}
  /\ pc = [e \in Execs |-> "idle"] /\ job = [e \in Execs |-> NoJob]
  /\ events = 0
  /\ atStart = [x \in 1..Exports |-> 0] /\ overlap = FALSE

Operator(e) == Start(e) \/ Resume(e) \/ Stop(e)

(* What an execution does once it runs. *)
Step(e) ==
  \/ DeleteTriggers(e) \/ InstallTriggers(e) \/ ScheduleWorker(e)
  \/ \E w \in Workers : TryClaim(e, w)
  \/ ReadControl(e) \/ Leave(e) \/ Heartbeat(e) \/ Load(e) \/ FindLastRow(e) \/ AppendRows(e)
  \/ AssertPersisted(e) \/ AppendLog(e) \/ Checkpoint(e)
  \/ SetErrorState(e) \/ ReleaseLease(e)

Next ==
  \/ \E e \in Execs :
       Operator(e) \/ Fire(e) \/ Watch(e) \/ Step(e) \/ Crash(e) \/ LockTimeout(e) \/ CallFails(e)
  \/ ExpireLease
  \/ \E x \in 1..Exports : Register(x)

Spec == Init /\ [][Next]_vars

(* Executions run on, due triggers fire, and time passes. *)
Fairness ==
  /\ \A e \in Execs : WF_vars(Step(e))
  /\ SF_vars(\E e \in Execs : Fire(e))
  /\ WF_vars(\E e \in Execs : Watch(e))
  /\ WF_vars(ExpireLease /\ UNCHANGED events)

FairSpec == Spec /\ Fairness

-----------------------------------------------------------------------------
(* Properties *)

CellType == [Sheets -> SUBSET RowType]

JobType ==
  [token : 0..MaxWorkers, export : 1..(Exports + 1), source : 0..Sources,
   next : (1..(Exports + 1)) \X (0..Sources), sheet : Sheets, found : CellType,
   under : SUBSET RowType, replayed : 0..Batch, again : BOOLEAN]

(* Every control record, sheet and execution is of its type. *)
TypeOK ==
  /\ history \in [(1..Exports) \X (1..Sources) \X Entities -> Values \union {Absent}]
  /\ known \in [1..Exports -> 0..Sources] /\ atStart \in [1..Exports -> 0..Sources]
  /\ control \in ControlType
  /\ trigger \in [worker : BOOLEAN, watchdog : BOOLEAN]
  /\ rows \in CellType /\ twice \subseteq RowType
  /\ logged \subseteq (1..Exports) \X (1..Sources)
  /\ pc \in [Execs -> Pcs]
  /\ job \in [Execs -> JobType]
  /\ events \in 0..MaxEvents /\ overlap \in BOOLEAN

(* What the sheets should hold of a source, said without the sheets: the    *)
(* prior snapshot is of the latest source in which the entity was new.      *)
Prior(x, i, n) == Latest({j \in 1..(i - 1) : Differs(x, j, n)})

Expected(sheet, x, i) ==
  {r \in RowType :
    /\ r.export = x /\ r.source = i /\ Differs(x, i, r.entity)
    /\ Belongs(sheet, i) /\ r.prior = Prior(x, i, r.entity)}

Passed(x, i) ==
  \/ x < control.export /\ i <= atStart[x]
  \/ x = control.export /\ i <= control.source

Complete(x, i) == \A k \in Sheets : Expected(k, x, i) \subseteq rows[k]

(* Between claim and release a worker holds the lease, unless the operator  *)
(* or a slow worker let a second one in.                                    *)
OneWriter == ~overlap => \A e \in Execs : pc[e] \in WorkerPcs => Mine(e)

(* README "Source checkpoints still advance only after ...": a source that  *)
(* the cursor has passed is logged, and a logged source has all its rows,   *)
(* after any crash between the appends and through any number of workers.   *)
RowsBacked ==
  ~overlap =>
    \A x \in 1..Exports, i \in 1..Sources :
      /\ Passed(x, i) => <<x, i>> \in logged
      /\ <<x, i>> \in logged => Complete(x, i)

(* "Re-entry is idempotent": no row is appended twice, and every row is one *)
(* the history calls for, linked to the right prior snapshot, however often *)
(* sources were replayed after an interruption.                             *)
RowsFaithful ==
  ~overlap =>
    /\ twice = {}
    /\ \A k \in Sheets : \A r \in rows[k] : r \in Expected(k, r.export, r.source)

(* Only a start takes the cursor back, and otherwise it passes one source   *)
(* or one export at a time: a worker that lost its lease moves nothing,     *)
(* and the run is COMPLETE only past the last export.                       *)
CursorStep ==
  LET from == <<control.export, control.source>>
      to == <<control'.export, control'.source>>
  IN
  /\ \/ to = from
     \/ to = <<from[1], from[2] + 1>> /\ to[2] <= known[from[1]]
     \/ to = <<from[1] + 1, 0>> /\ from[2] >= atStart[from[1]]
     \/ to = <<1, 0>> /\ control.status # "RUNNING" /\ control'.status = "RUNNING"
  /\ control'.status = "COMPLETE" /\ control.status # "COMPLETE" => from[1] > Exports
CursorMoves == [][CursorStep]_vars

(* "uses a bounded worker plus watchdog so hard Apps Script termination can *)
(* be resumed": a run does not stay RUNNING for ever with nobody to go on   *)
(* with it.                                                                 *)
Settles == (control.status = "RUNNING" /\ ~overlap) ~> (control.status # "RUNNING" \/ overlap)
=============================================================================
