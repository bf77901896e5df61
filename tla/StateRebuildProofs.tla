------------------------- MODULE StateRebuildProofs -------------------------
(***************************************************************************)
(* Types, the lease, the cursor and the rows of StateRebuild, proved for   *)
(* any number of exports, sources, entities and executions.                *)
(***************************************************************************)
EXTENDS StateRebuild, TLAPS

-----------------------------------------------------------------------------
(* Types *)

(* Where a worker has a source, or the end of an export, in hand. *)
SourcePcs == {"beat", "replay", "append", "write", "verify", "log", "checkpoint"}

(* There is room for one more source in the count of a worker. *)
Room == \A e \in Execs : pc[e] \in SourcePcs \union {"first"} => job[e].replayed < Batch

(* A source in hand is one of the sources of an export. *)
InSource ==
  \A e \in Execs : pc[e] \in {"append", "write", "verify", "log"} =>
    job[e].next \in (1..Exports) \X (1..Sources)

(* Who is no worker has no local variables. *)
Blank == \A e \in Execs : pc[e] \notin WorkerPcs \union {"arm"} => job[e] = NoJob

Typed == TypeOK /\ Room /\ InSource /\ Blank

\* The bounds are numbers
LEMMA Sizes ==
  /\ Exports \in Nat /\ Sources \in Nat /\ Batch \in Nat \ {0} /\ MaxWorkers \in Nat
  /\ MaxEvents \in Nat
BY RebuildConstants

\* The names of the places an execution can be at
LEMMA PcNames ==
  /\ Pcs = {"idle", "claim", "arm", "install", "start_clear", "stop_clear", "first", "loop",
            "beat", "replay", "append", "write", "verify", "log", "checkpoint", "clear",
            "error", "release"}
  /\ WorkerPcs = Pcs \ {"idle", "claim", "arm", "install", "start_clear", "stop_clear"}
  /\ SourcePcs \subseteq WorkerPcs
BY DEF Pcs, WorkerPcs, OperatorPcs, SourcePcs

\* The latest of a set of sources is a source, or 0
LEMMA LatestTyped ==
  ASSUME NEW J, J \subseteq 1..Sources
  PROVE  Latest(J) \in 0..Sources
<1>1. CASE \E j \in J : \A k \in J : k <= j
  <2>1. (CHOOSE j \in J : \A k \in J : k <= j) \in J
    BY <1>1, Zenon
  <2>2. Latest(J) = CHOOSE j \in J : \A k \in J : k <= j
    BY <1>1, Zenon DEF Latest
  <2>3. Latest(J) \in 1..Sources
    BY <2>1, <2>2, Zenon
  <2> QED
    BY <2>3, Sizes
<1>2. CASE ~\E j \in J : \A k \in J : k <= j
  BY <1>2, Sizes DEF Latest
<1> QED
  BY <1>1, <1>2

\* The fields of the local variables
LEMMA JobFields ==
  ASSUME TypeOK, NEW e \in Execs
  PROVE  /\ job[e] \in JobType /\ job[e].token \in 0..MaxWorkers
         /\ job[e].export \in 1..(Exports + 1) /\ job[e].source \in 0..Sources
         /\ job[e].next[1] \in 1..(Exports + 1) /\ job[e].next[2] \in 0..Sources
         /\ job[e].next = <<job[e].next[1], job[e].next[2]>>
         /\ job[e].sheet \in Sheets /\ job[e].found \in CellType
         /\ job[e].under \subseteq RowType
         /\ job[e].replayed \in 0..Batch /\ job[e].again \in BOOLEAN
<1>1. job[e] \in JobType
  BY DEF TypeOK
<1> QED
  BY <1>1 DEF JobType

\* The updates the actions make to the local variables keep their type
LEMMA JobUpdates ==
  ASSUME NEW j \in JobType
  PROVE  /\ NoJob \in JobType
         /\ \A w \in Workers : [j EXCEPT !.token = w] \in JobType
         /\ \A x \in 1..(Exports + 1), i \in 0..Sources :
              [j EXCEPT !.export = x, !.source = i] \in JobType
         /\ \A b \in BOOLEAN : [j EXCEPT !.again = b] \in JobType
         /\ \A x \in 1..(Exports + 1), i \in 0..Sources : [j EXCEPT !.next = <<x, i>>] \in JobType
         /\ \A x \in 1..(Exports + 1), i \in 0..Sources, c \in CellType :
              [j EXCEPT !.next = <<x, i>>, !.sheet = "snapshot", !.found = c] \in JobType
         /\ [j EXCEPT !.under = {}] \in JobType
         /\ \A k \in Sheets : [j EXCEPT !.sheet = k] \in JobType
         /\ \A k \in Sheets : [j EXCEPT !.under = {}, !.sheet = k] \in JobType
         /\ \A set \in SUBSET RowType : [j EXCEPT !.under = set] \in JobType
         /\ \A n \in 0..Batch : [j EXCEPT !.replayed = n] \in JobType
<1>1. NoJob \in JobType
  <2>1. 0 \in 0..MaxWorkers /\ 1 \in 1..(Exports + 1) /\ 0 \in 0..Sources /\ 0 \in 0..Batch
    BY Sizes
  <2>2. [k \in Sheets |-> {}] \in CellType
    BY DEF CellType
  <2> QED
    BY <2>1, <2>2 DEF NoJob, JobType, Sheets
<1>2. /\ \A w \in Workers : [j EXCEPT !.token = w] \in JobType
      /\ \A b \in BOOLEAN : [j EXCEPT !.again = b] \in JobType
      /\ \A n \in 0..Batch : [j EXCEPT !.replayed = n] \in JobType
  BY Sizes DEF JobType, Workers
<1>3. \A x \in 1..(Exports + 1), i \in 0..Sources :
        [j EXCEPT !.export = x, !.source = i] \in JobType
  BY DEF JobType
<1>4. /\ \A x \in 1..(Exports + 1), i \in 0..Sources : [j EXCEPT !.next = <<x, i>>] \in JobType
      /\ \A x \in 1..(Exports + 1), i \in 0..Sources, c \in CellType :
           [j EXCEPT !.next = <<x, i>>, !.sheet = "snapshot", !.found = c] \in JobType
  <2>1. ASSUME NEW x \in 1..(Exports + 1), NEW i \in 0..Sources
        PROVE  <<x, i>> \in (1..(Exports + 1)) \X (0..Sources)
    OBVIOUS
  <2>2. \A p \in (1..(Exports + 1)) \X (0..Sources) : [j EXCEPT !.next = p] \in JobType
    BY DEF JobType
  <2>3. \A p \in (1..(Exports + 1)) \X (0..Sources), c \in CellType :
          [j EXCEPT !.next = p, !.sheet = "snapshot", !.found = c] \in JobType
    BY DEF JobType, Sheets
  <2> QED
    BY <2>1, <2>2, <2>3, Zenon
<1>5. /\ [j EXCEPT !.under = {}] \in JobType
      /\ \A k \in Sheets : [j EXCEPT !.sheet = k] \in JobType
      /\ \A k \in Sheets : [j EXCEPT !.under = {}, !.sheet = k] \in JobType
      /\ \A set \in SUBSET RowType : [j EXCEPT !.under = set] \in JobType
  BY DEF JobType
<1> QED
  BY <1>1, <1>2, <1>3, <1>4, <1>5

\* The steps of one execution
Works(e) ==
  Operator(e) \/ Fire(e) \/ Watch(e) \/ Step(e) \/ Crash(e) \/ LockTimeout(e) \/ CallFails(e)

\* Where the executions are keeps its type
LEMMA PcTyped ==
  ASSUME TypeOK, NEW e \in Execs, Works(e)
  PROVE  \E where \in Pcs : pc' = [pc EXCEPT ![e] = where]
<1>0. \A k \in Sheets : AfterSheet[k] \in {"append", "verify"}
  BY DEF Sheets, AfterSheet
<1>1. CASE Operator(e) \/ Fire(e) \/ Watch(e)
  BY <1>1, PcNames DEF Operator, Start, Resume, Stop, Fire, Watch, Goto, Move
<1>2. CASE DeleteTriggers(e) \/ InstallTriggers(e) \/ ScheduleWorker(e)
  BY <1>2, PcNames DEF DeleteTriggers, InstallTriggers, ScheduleWorker, Goto, Move, End
<1>3. CASE (\E w \in Workers : TryClaim(e, w)) \/ ReadControl(e) \/ Leave(e) \/ Heartbeat(e)
  BY <1>3, PcNames DEF TryClaim, ReadControl, Leave, Heartbeat, Goto, Move, End
<1>4. CASE Load(e) \/ AssertPersisted(e) \/ AppendLog(e)
  BY <1>4, PcNames DEF Load, AssertPersisted, AppendLog, Goto, Move
<1>5. CASE FindLastRow(e) \/ AppendRows(e)
  <2>1. job[e].sheet \in Sheets
    BY JobFields
  <2>2. AfterSheet[job[e].sheet] \in Pcs /\ "write" \in Pcs
    BY <2>1, <1>0, PcNames
  <2> QED
    BY <1>5, <2>2 DEF FindLastRow, AppendRows, Goto
<1>6. CASE Checkpoint(e) \/ SetErrorState(e) \/ ReleaseLease(e)
  BY <1>6, PcNames DEF Checkpoint, Passing, SetErrorState, ReleaseLease, Goto, Move, End
<1>7. CASE Crash(e) \/ LockTimeout(e) \/ CallFails(e)
  BY <1>7, PcNames DEF Crash, LockTimeout, CallFails, Goto, Move, End
<1> QED
  BY <1>1, <1>2, <1>3, <1>4, <1>5, <1>6, <1>7 DEF Works, Step

\* Unless it appends rows, an execution changes only its own local variables
LEMMA JobStep ==
  ASSUME TypeOK, Room, NEW e \in Execs, Works(e), ~AppendRows(e)
  PROVE  \E j \in JobType : job' = [job EXCEPT ![e] = j]
<1>0. /\ job \in [Execs -> JobType] /\ job[e] \in JobType
      /\ control.export \in 1..(Exports + 1) /\ control.source \in 0..Sources
  BY JobFields DEF TypeOK, ControlType
<1>1. CASE UNCHANGED job
  <2>1. job' = [job EXCEPT ![e] = job[e]]
    BY <1>0, <1>1
  <2> QED
    BY <1>0, <2>1
<1>2. CASE End(e)
  <2>1. NoJob \in JobType
    BY <1>0, JobUpdates, Zenon
  <2> QED
    BY <1>2, <2>1 DEF End
<1>3. CASE \E w \in Workers : TryClaim(e, w)
  <2>1. PICK w \in Workers : TryClaim(e, w)
    BY <1>3
  <2>2. CASE End(e)
    BY <2>2, <1>2
  <2>3. CASE job' = [job EXCEPT ![e].token = w]
    <3>1. [job[e] EXCEPT !.token = w] \in JobType
      BY <1>0, JobUpdates, Zenon
    <3>2. job' = [job EXCEPT ![e] = [job[e] EXCEPT !.token = w]]
      BY <2>3
    <3> QED
      BY <3>1, <3>2
  <2> QED
    BY <2>1, <2>2, <2>3 DEF TryClaim
<1>4. CASE ReadControl(e) \/ Leave(e)
  <2>1. CASE ReadControl(e)
    <3>1. [job[e] EXCEPT !.export = control.export, !.source = control.source] \in JobType
      BY <1>0 DEF JobType
    <3>2. job' = [job EXCEPT ![e] =
                    [job[e] EXCEPT !.export = control.export, !.source = control.source]]
      BY <1>0, <2>1 DEF ReadControl
    <3> QED
      BY <3>1, <3>2
  <2>2. CASE Leave(e)
    <3> DEFINE b == control.status = "RUNNING"
    <3>1. [job[e] EXCEPT !.again = b] \in JobType
      <4>1. b \in BOOLEAN
        OBVIOUS
      <4> HIDE DEF b
      <4> QED
        BY <4>1, <1>0, JobUpdates, Zenon
    <3>2. job' = [job EXCEPT ![e] = [job[e] EXCEPT !.again = b]]
      BY <1>0, <2>2 DEF Leave
    <3> QED
      BY <3>1, <3>2
  <2> QED
    BY <1>4, <2>1, <2>2
<1>5. CASE Load(e)
  <2> DEFINE x == job[e].export
             i == job[e].source + 1
             c == [k \in Sheets |-> Missing(k, x, i)]
  <2>1. c \in CellType
    BY DEF CellType, Missing, Candidates
  <2>2. CASE x <= Exports /\ i <= known[x]
    <3>0. x \in 1..(Exports + 1) /\ job[e].source \in 0..Sources
      BY JobFields
    <3>a. x \in 1..Exports
      BY <3>0, <2>2, Sizes
    <3>b. known[x] \in 0..Sources
      BY <3>a DEF TypeOK
    <3>1. x \in 1..(Exports + 1) /\ i \in 0..Sources
      BY <3>0, <3>b, <2>2, Sizes
    <3>2. job' = [job EXCEPT ![e] = [job[e] EXCEPT !.next = <<x, i>>, !.sheet = "snapshot",
                                       !.found = c]]
      BY <1>0, <1>5, <2>2 DEF Load
    <3> HIDE DEF c, x, i
    <3>3. [job[e] EXCEPT !.next = <<x, i>>, !.sheet = "snapshot", !.found = c] \in JobType
      BY <1>0, <2>1, <3>1, JobUpdates, Zenon
    <3> QED
      BY <3>2, <3>3
  <2>3. CASE ~(x <= Exports /\ i <= known[x])
    <3> DEFINE y == IF x <= Exports THEN x + 1 ELSE x
    <3>1. y \in 1..(Exports + 1) /\ 0 \in 0..Sources
      BY JobFields, Sizes
    <3>2. job' = [job EXCEPT ![e] = [job[e] EXCEPT !.next = <<y, 0>>]]
      BY <1>0, <1>5, <2>3 DEF Load
    <3> HIDE DEF y
    <3>3. [job[e] EXCEPT !.next = <<y, 0>>] \in JobType
      BY <1>0, <3>1, JobUpdates, Zenon
    <3> QED
      BY <3>2, <3>3
  <2> QED
    BY <2>2, <2>3
<1>6. CASE FindLastRow(e)
  <2> DEFINE k == NextSheet[job[e].sheet]
  <2>1. k \in Sheets
    BY JobFields DEF NextSheet, Sheets
  <2>2. \/ job' = [job EXCEPT ![e] = [job[e] EXCEPT !.under = {}]]
        \/ job' = [job EXCEPT ![e] = [job[e] EXCEPT !.sheet = k]]
    BY <1>0, <1>6 DEF FindLastRow
  <2> HIDE DEF k
  <2>3. [job[e] EXCEPT !.under = {}] \in JobType /\ [job[e] EXCEPT !.sheet = k] \in JobType
    BY <1>0, <2>1, JobUpdates, Zenon
  <2> QED
    BY <2>2, <2>3
<1>8. CASE Checkpoint(e) /\ Mine(e)
  <2>1. PICK n \in 0..Batch : job' = [job EXCEPT ![e] = [job[e] EXCEPT !.replayed = n]]
    <3>1. job[e].replayed < Batch /\ job[e].replayed \in 0..Batch
      BY <1>8, JobFields DEF Checkpoint, Room, SourcePcs
    <3> DEFINE n == IF job[e].export > Exports THEN Batch
                    ELSE IF job[e].next[2] > 0 THEN job[e].replayed + 1 ELSE job[e].replayed
    <3>2. n \in 0..Batch
      BY <3>1, Sizes
    <3>3. job' = [job EXCEPT ![e] = [job[e] EXCEPT !.replayed = n]]
      BY <1>0, <1>8 DEF Checkpoint, Passing
    <3> QED
      BY <3>2, <3>3
  <2>2. [job[e] EXCEPT !.replayed = n] \in JobType
    BY <1>0, JobUpdates, Zenon
  <2> QED
    BY <2>1, <2>2
<1>9. CASE UNCHANGED job \/ End(e) \/ (\E w \in Workers : TryClaim(e, w)) \/ ReadControl(e)
           \/ Leave(e) \/ Load(e) \/ FindLastRow(e) \/ (Checkpoint(e) /\ Mine(e))
  BY <1>1, <1>2, <1>3, <1>4, <1>5, <1>6, <1>8, <1>9
<1>10. CASE Operator(e) \/ Fire(e) \/ Watch(e)
  <2>1. UNCHANGED job
    BY <1>10 DEF Operator, Start, Resume, Stop, Operate, Fire, Watch, Move
  <2> QED
    BY <2>1, <1>1
<1>11. CASE DeleteTriggers(e) \/ InstallTriggers(e) \/ ScheduleWorker(e)
  <2>1. UNCHANGED job \/ End(e)
    BY <1>11 DEF DeleteTriggers, InstallTriggers, ScheduleWorker, Move
  <2> QED
    BY <2>1, <1>1, <1>2
<1>12. CASE \/ Heartbeat(e) \/ AssertPersisted(e) \/ AppendLog(e) \/ SetErrorState(e)
            \/ ReleaseLease(e) \/ (Checkpoint(e) /\ ~Mine(e))
  <2>1. UNCHANGED job \/ End(e)
    BY <1>12 DEF Heartbeat, AssertPersisted, AppendLog, SetErrorState, ReleaseLease, Checkpoint,
       Move
  <2> QED
    BY <2>1, <1>1, <1>2
<1>13. CASE Crash(e) \/ LockTimeout(e) \/ CallFails(e)
  <2>1. UNCHANGED job \/ End(e)
    BY <1>13 DEF Crash, LockTimeout, CallFails, Move
  <2> QED
    BY <2>1, <1>1, <1>2
<1> QED
  BY <1>9, <1>10, <1>11, <1>12, <1>13 DEF Works, Step

\* The local variables keep their type
LEMMA JobTyped ==
  ASSUME TypeOK, Room, NEW e \in Execs, Works(e)
  PROVE  job' \in [Execs -> JobType]
<1>0. job \in [Execs -> JobType] /\ job[e] \in JobType
  BY DEF TypeOK
<1>1. CASE AppendRows(e)
  <2> DEFINE sheet == job[e].sheet
             found == job[e].found[sheet]
  <2>1. NextSheet[sheet] \in Sheets /\ found \subseteq RowType
    BY JobFields DEF NextSheet, Sheets, CellType
  <2>2. job' = [f \in Execs |->
          IF f = e THEN [job[e] EXCEPT !.under = {}, !.sheet = NextSheet[sheet]]
          ELSE IF pc[f] = "write" /\ job[f].sheet = sheet
            THEN [job[f] EXCEPT !.under = @ \union found]
            ELSE job[f]]
    BY <1>1 DEF AppendRows
  <2>3. ASSUME NEW f \in Execs
        PROVE  [job[f] EXCEPT !.under = @ \union found] \in JobType
    <3>1. job[f].under \union found \in SUBSET RowType
      BY <2>1, JobFields
    <3>2. job[f] \in JobType
      BY <1>0
    <3>3. [job[f] EXCEPT !.under = job[f].under \union found] \in JobType
      BY <3>1, <3>2, JobUpdates, Zenon
    <3> QED
      BY <3>3
  <2>4. [job[e] EXCEPT !.under = {}, !.sheet = NextSheet[sheet]] \in JobType
    BY <1>0, <2>1, JobUpdates, Zenon
  <2> HIDE DEF sheet, found
  <2> QED
    BY <1>0, <2>2, <2>3, <2>4
<1>2. CASE ~AppendRows(e)
  <2>1. PICK j \in JobType : job' = [job EXCEPT ![e] = j]
    BY <1>2, JobStep
  <2> QED
    BY <1>0, <2>1
<1> QED
  BY <1>1, <1>2

\* The updates the actions make to the control record keep its type
LEMMA ControlUpdates ==
  ASSUME NEW c \in ControlType
  PROVE  /\ \A s \in Statuses : [c EXCEPT !.status = s] \in ControlType
         /\ \A w \in 0..MaxWorkers, b \in BOOLEAN :
              [c EXCEPT !.token = w, !.live = b] \in ControlType
         /\ \A b \in BOOLEAN : [c EXCEPT !.live = b] \in ControlType
         /\ \A x \in 1..(Exports + 1), i \in 0..Sources, s \in Statuses :
              [c EXCEPT !.export = x, !.source = i, !.status = s] \in ControlType
BY DEF ControlType

\* The control record keeps its type
LEMMA ControlTyped ==
  ASSUME TypeOK, NEW e \in Execs, Works(e)
  PROVE  control' \in ControlType
<1>0. /\ control \in ControlType /\ control.status \in Statuses
      /\ 0 \in 0..MaxWorkers /\ 0 \in 0..Sources /\ 1 \in 1..(Exports + 1)
      /\ Workers \subseteq 0..MaxWorkers
  BY Sizes DEF TypeOK, ControlType, Workers
<1>r. Released \in ControlType
  BY <1>0, ControlUpdates, Zenon DEF Released
<1>s. {"RUNNING", "STOPPED", "ERROR", "COMPLETE"} \subseteq Statuses
  BY DEF Statuses
<1>1. CASE Operator(e)
  <2>1. CASE Start(e)
    BY <1>0, <1>s, <2>1 DEF Start, ControlType
  <2>2. CASE Resume(e)
    <3>1. control' = [control EXCEPT !.status = "RUNNING"]
      BY <2>2 DEF Resume
    <3> QED
      BY <1>0, <1>s, <3>1, ControlUpdates
  <2>3. CASE Stop(e)
    <3>1. control' = [Released EXCEPT !.status = "STOPPED"]
      BY <2>3 DEF Stop
    <3> QED
      BY <1>r, <1>s, <3>1, ControlUpdates
  <2> QED
    BY <1>1, <2>1, <2>2, <2>3 DEF Operator
<1>2. CASE \E w \in Workers : TryClaim(e, w)
  <2>1. PICK w \in Workers : \/ control' = control
                             \/ control' = [control EXCEPT !.token = w, !.live = TRUE]
    BY <1>2 DEF TryClaim
  <2>2. w \in 0..MaxWorkers /\ TRUE \in BOOLEAN
    BY <1>0
  <2>3. [control EXCEPT !.token = w, !.live = TRUE] \in ControlType
    BY <1>0, <2>2, ControlUpdates, Zenon
  <2> QED
    BY <1>0, <2>1, <2>3
<1>3. CASE Heartbeat(e) \/ SetErrorState(e) \/ ReleaseLease(e)
  <2>1. \/ control' = control \/ control' = Released
        \/ control' = [control EXCEPT !.live = TRUE]
        \/ control' = [control EXCEPT !.status = "ERROR"]
    BY <1>3 DEF Heartbeat, SetErrorState, ReleaseLease
  <2> QED
    BY <1>0, <1>r, <1>s, <2>1, ControlUpdates
<1>4. CASE Checkpoint(e)
  <2> DEFINE s == IF job[e].export > Exports THEN "COMPLETE" ELSE control.status
  <2>1. \/ control' = control
        \/ control' = [control EXCEPT !.export = job[e].next[1], !.source = job[e].next[2],
                                      !.status = s]
    BY <1>4 DEF Checkpoint, Passing
  <2>2. s \in Statuses
    BY <1>0, <1>s
  <2> HIDE DEF s
  <2>3. [control EXCEPT !.export = job[e].next[1], !.source = job[e].next[2], !.status = s]
          \in ControlType
    BY <1>0, <2>2, JobFields, ControlUpdates, Zenon
  <2> QED
    BY <1>0, <2>1, <2>3
<1>5. CASE \/ Fire(e) \/ Watch(e) \/ DeleteTriggers(e) \/ InstallTriggers(e) \/ ScheduleWorker(e)
           \/ ReadControl(e) \/ Leave(e) \/ Load(e) \/ FindLastRow(e) \/ AppendRows(e)
           \/ AssertPersisted(e) \/ AppendLog(e)
  BY <1>0, <1>5 DEF Fire, Watch, DeleteTriggers, InstallTriggers, ScheduleWorker, ReadControl,
     Leave, Load, FindLastRow, AppendRows, AssertPersisted, AppendLog
<1>6. CASE Crash(e) \/ LockTimeout(e) \/ CallFails(e)
  BY <1>0, <1>6 DEF Crash, LockTimeout, CallFails
<1> QED
  BY <1>1, <1>2, <1>3, <1>4, <1>5, <1>6 DEF Works, Step

\* Only the appends and the log touch the sheets
LEMMA SheetsKept ==
  ASSUME NEW e \in Execs, Works(e), ~AppendRows(e), ~AppendLog(e)
  PROVE  UNCHANGED sheetVars
<1>1. CASE Operator(e) \/ Fire(e) \/ Watch(e)
  BY <1>1 DEF Operator, Start, Resume, Stop, Operate, Fire, Watch
<1>2. CASE Step(e)
  BY <1>2 DEF Step, DeleteTriggers, InstallTriggers, ScheduleWorker, TryClaim, ReadControl, Leave,
     Heartbeat, Load, FindLastRow, AssertPersisted, Checkpoint, SetErrorState, ReleaseLease
<1>3. CASE Crash(e) \/ LockTimeout(e) \/ CallFails(e)
  BY <1>3 DEF Crash, LockTimeout, CallFails
<1> QED
  BY <1>1, <1>2, <1>3 DEF Works

\* The sheets keep their type
LEMMA SheetsTyped ==
  ASSUME TypeOK, InSource, NEW e \in Execs, Works(e)
  PROVE  /\ rows' \in CellType /\ twice' \subseteq RowType
         /\ logged' \subseteq (1..Exports) \X (1..Sources)
<1>0. rows \in CellType /\ twice \subseteq RowType /\ logged \subseteq (1..Exports) \X (1..Sources)
  BY DEF TypeOK
<1>1. CASE AppendRows(e)
  <2> DEFINE sheet == job[e].sheet
             found == job[e].found[sheet]
  <2>1. sheet \in Sheets /\ found \subseteq RowType
    BY JobFields DEF CellType
  <2>2. PICK over : rows' = [rows EXCEPT ![sheet] = (@ \ over) \union found]
    BY <1>1 DEF AppendRows
  <2>3. rows[sheet] \subseteq RowType
    BY <1>0, <2>1 DEF CellType
  <2>4. twice' \subseteq twice \union found /\ logged' = logged
    BY <1>1 DEF AppendRows
  <2> HIDE DEF sheet, found
  <2>5. (rows[sheet] \ over) \union found \in SUBSET RowType
    BY <2>1, <2>3
  <2>6. rows' \in CellType
    BY <1>0, <2>2, <2>5 DEF CellType
  <2> QED
    BY <1>0, <2>1, <2>4, <2>6
<1>2. CASE AppendLog(e)
  BY <1>0, <1>2 DEF AppendLog, InSource
<1>3. CASE ~AppendRows(e) /\ ~AppendLog(e)
  BY <1>0, <1>3, SheetsKept DEF sheetVars
<1> QED
  BY <1>1, <1>2, <1>3

\* What an execution does leaves another where it is, and changes of its local
\* variables only what an append would write over
LEMMA OthersKept ==
  ASSUME TypeOK, Room, NEW e \in Execs, Works(e), NEW f \in Execs, f # e
  PROVE  /\ pc'[f] = pc[f]
         /\ (job')[f].token = job[f].token /\ (job')[f].export = job[f].export
         /\ (job')[f].source = job[f].source /\ (job')[f].next = job[f].next
         /\ (job')[f].sheet = job[f].sheet /\ (job')[f].found = job[f].found
         /\ (job')[f].replayed = job[f].replayed /\ (job')[f].again = job[f].again
         /\ pc[f] # "write" \/ ~AppendRows(e) => (job')[f] = job[f]
<1>0. pc'[f] = pc[f]
  BY PcTyped DEF TypeOK
<1>1. CASE AppendRows(e)
  <2>1. job[f] \in JobType /\ job \in [Execs -> JobType]
    BY DEF TypeOK
  <2>2. \/ (job')[f] = job[f]
        \/ pc[f] = "write" /\ \E u : (job')[f] = [job[f] EXCEPT !.under = u]
    BY <1>1 DEF AppendRows
  <2>3. CASE (job')[f] = job[f]
    BY <1>0, <1>1, <2>3
  <2>4. CASE pc[f] = "write" /\ \E u : (job')[f] = [job[f] EXCEPT !.under = u]
    <3>1. PICK u : (job')[f] = [job[f] EXCEPT !.under = u]
      BY <2>4
    <3> QED
      BY <1>0, <1>1, <2>1, <2>4, <3>1 DEF JobType
  <2> QED
    BY <2>2, <2>3, <2>4
<1>2. CASE ~AppendRows(e)
  <2>1. PICK j : job' = [job EXCEPT ![e] = j]
    BY <1>2, JobStep
  <2> QED
    BY <1>0, <2>1 DEF TypeOK
<1> QED
  BY <1>1, <1>2

\* A worker begins with blank local variables, and leaves them blank
LEMMA BlankKept ==
  ASSUME Typed, NEW e \in Execs, Works(e)
  PROVE  Blank'
<1>0. TypeOK /\ Room /\ Blank /\ pc \in [Execs -> Pcs] /\ job \in [Execs -> JobType]
  BY DEF Typed, TypeOK
<1>n. "write" \in WorkerPcs
  BY PcNames
<1>1. ASSUME NEW f \in Execs, f # e, pc'[f] \notin WorkerPcs \union {"arm"}
      PROVE  (job')[f] = NoJob
  BY <1>0, <1>1, <1>n, OthersKept DEF Blank
<1>2. ASSUME pc'[e] \notin WorkerPcs \union {"arm"}
      PROVE  (job')[e] = NoJob
  <2>1. CASE Operator(e) \/ Fire(e) \/ Watch(e)
    <3>1. pc[e] = "idle" /\ job' = job
      BY <2>1 DEF Operator, Start, Resume, Stop, Operate, Fire, Watch, Move
    <3> QED
      BY <1>0, <3>1, PcNames DEF Blank
  <2>2. CASE End(e)
    BY <1>0, <2>2 DEF End
  <2>3. CASE DeleteTriggers(e) \/ InstallTriggers(e) \/ ScheduleWorker(e)
    <3>1. \/ End(e)
          \/ job' = job /\ (pc[e] = "start_clear" \/ pc'[e] = "release")
      BY <1>0, <2>3 DEF DeleteTriggers, InstallTriggers, ScheduleWorker, Move, Goto
    <3> QED
      BY <1>0, <1>2, <2>2, <3>1, PcNames DEF Blank
  <2>4. CASE (\E w \in Workers : TryClaim(e, w)) \/ ReadControl(e) \/ Leave(e) \/ Heartbeat(e)
             \/ Load(e)
    <3>1. End(e) \/ pc'[e] \in {"first", "beat", "clear", "release", "replay", "error", "append",
                                "checkpoint"}
      BY <1>0, <2>4 DEF TryClaim, ReadControl, Leave, Heartbeat, Load, Move, Goto
    <3> QED
      BY <1>2, <2>2, <3>1, PcNames
  <2>5. CASE FindLastRow(e) \/ AppendRows(e)
    <3>1. AfterSheet[job[e].sheet] \in {"append", "verify"}
      BY <1>0, JobFields DEF AfterSheet, Sheets
    <3>2. pc'[e] \in {"append", "write", "verify"}
      BY <1>0, <2>5, <3>1 DEF FindLastRow, AppendRows, Goto
    <3> QED
      BY <1>2, <3>2, PcNames
  <2>6. CASE AssertPersisted(e) \/ AppendLog(e) \/ Checkpoint(e) \/ SetErrorState(e)
             \/ ReleaseLease(e)
    <3>1. End(e) \/ pc'[e] \in {"log", "error", "checkpoint", "loop", "release", "arm"}
      BY <1>0, <2>6 DEF AssertPersisted, AppendLog, Checkpoint, Passing, SetErrorState,
         ReleaseLease, Move, Goto
    <3> QED
      BY <1>2, <2>2, <3>1, PcNames
  <2>7. CASE Crash(e) \/ LockTimeout(e) \/ CallFails(e)
    <3>1. End(e) \/ pc'[e] \in {"error", "release"}
      BY <1>0, <2>7 DEF Crash, LockTimeout, CallFails, Move, Goto
    <3> QED
      BY <1>2, <2>2, <3>1, PcNames
  <2> QED
    BY <2>1, <2>3, <2>4, <2>5, <2>6, <2>7 DEF Works, Step
<1> QED
  BY <1>1, <1>2 DEF Blank

\* A worker that takes a source in hand has room for it
LEMMA RoomKept ==
  ASSUME Typed, NEW e \in Execs, Works(e)
  PROVE  Room'
<1> DEFINE Busy == SourcePcs \union {"first"}
<1>0. /\ TypeOK /\ Room /\ Blank /\ pc \in [Execs -> Pcs] /\ job \in [Execs -> JobType]
      /\ job[e].replayed \in 0..Batch
  BY JobFields DEF Typed, TypeOK
<1>1. ASSUME NEW f \in Execs, f # e, pc'[f] \in Busy
      PROVE  (job')[f].replayed < Batch
  BY <1>0, <1>1, OthersKept DEF Room
<1>2. ASSUME pc'[e] \in Busy
      PROVE  (job')[e].replayed < Batch
  <2>0. Busy = {"first", "beat", "replay", "append", "write", "verify", "log", "checkpoint"}
    BY DEF SourcePcs
  <2> HIDE DEF Busy
  <2>1. CASE Operator(e) \/ Fire(e) \/ Watch(e) \/ DeleteTriggers(e) \/ InstallTriggers(e)
             \/ ScheduleWorker(e)
    <3>1. pc'[e] \in {"start_clear", "install", "stop_clear", "claim", "arm", "idle", "release"}
      BY <1>0, <2>1 DEF Operator, Start, Resume, Stop, Fire, Watch, DeleteTriggers,
         InstallTriggers, ScheduleWorker, Goto, Move, End
    <3> QED
      BY <1>2, <2>0, <3>1
  <2>2. CASE \E w \in Workers : TryClaim(e, w)
    <3>1. /\ pc'[e] = "first" /\ pc[e] = "claim"
          /\ \E w : job' = [job EXCEPT ![e] = [job[e] EXCEPT !.token = w]]
      BY <1>0, <1>2, <2>0, <2>2 DEF TryClaim, Goto, End
    <3>2. job[e] = NoJob
      BY <1>0, <3>1, PcNames DEF Blank
    <3>3. (job')[e].replayed = 0
      BY <1>0, <3>1, <3>2 DEF NoJob
    <3> QED
      BY <3>3, Sizes
  <2>3. CASE ReadControl(e)
    <3>1. job[e].replayed < Batch
      BY <1>0, <2>3 DEF ReadControl, Room
    <3> QED
      BY <1>0, <2>3, <3>1 DEF ReadControl, JobType
  <2>4. CASE Leave(e) \/ SetErrorState(e) \/ ReleaseLease(e)
    <3>1. pc'[e] \in {"clear", "release", "arm", "idle"}
      BY <1>0, <2>4 DEF Leave, SetErrorState, ReleaseLease, Goto, Move, End
    <3> QED
      BY <1>2, <2>0, <3>1
  <2>5. CASE \/ Heartbeat(e) \/ Load(e) \/ FindLastRow(e) \/ AppendRows(e) \/ AssertPersisted(e)
             \/ AppendLog(e)
    <3>1. pc[e] \in Busy
      BY <2>0, <2>5 DEF Heartbeat, Load, FindLastRow, AppendRows, AssertPersisted, AppendLog
    <3>2. (job')[e].replayed = job[e].replayed
      <4>0. job[e] \in JobType
        BY <1>0
      <4>1. CASE Heartbeat(e) \/ AssertPersisted(e) \/ AppendLog(e)
        BY <4>1 DEF Heartbeat, AssertPersisted, AppendLog, Move
      <4>2. CASE Load(e)
        BY <1>0, <4>0, <4>2 DEF Load, JobType
      <4>3. CASE FindLastRow(e)
        BY <1>0, <4>0, <4>3 DEF FindLastRow, Move, JobType
      <4>4. CASE AppendRows(e)
        BY <1>0, <4>0, <4>4 DEF AppendRows, JobType
      <4> QED
        BY <2>5, <4>1, <4>2, <4>3, <4>4
    <3> QED
      BY <1>0, <3>1, <3>2 DEF Room, Busy
  <2>6. CASE Checkpoint(e)
    <3>1. pc'[e] \in {"loop", "error"}
      BY <1>0, <2>6 DEF Checkpoint, Passing, Goto, Move
    <3> QED
      BY <1>2, <2>0, <3>1
  <2>7. CASE Crash(e) \/ LockTimeout(e) \/ CallFails(e)
    <3>1. pc'[e] \in {"idle", "error", "release"}
      BY <1>0, <2>7 DEF Crash, LockTimeout, CallFails, Goto, Move, End
    <3> QED
      BY <1>2, <2>0, <3>1
  <2> QED
    BY <2>1, <2>2, <2>3, <2>4, <2>5, <2>6, <2>7 DEF Works, Step
<1> QED
  BY <1>1, <1>2 DEF Room

\* A worker appends and logs a source of an export
LEMMA InSourceKept ==
  ASSUME Typed, NEW e \in Execs, Works(e)
  PROVE  InSource'
<1> DEFINE Inside == {"append", "write", "verify", "log"}
           Real == (1..Exports) \X (1..Sources)
<1>0. /\ TypeOK /\ Room /\ InSource /\ pc \in [Execs -> Pcs] /\ job \in [Execs -> JobType]
      /\ job[e] \in JobType
  BY JobFields DEF Typed, TypeOK
<1>1. ASSUME NEW f \in Execs, f # e, pc'[f] \in Inside
      PROVE  (job')[f].next \in Real
  BY <1>0, <1>1, OthersKept DEF InSource
<1>2. ASSUME pc'[e] \in Inside
      PROVE  (job')[e].next \in Real
  <2>1. CASE Operator(e) \/ Fire(e) \/ Watch(e) \/ DeleteTriggers(e) \/ InstallTriggers(e)
             \/ ScheduleWorker(e)
    <3>1. pc'[e] \in {"start_clear", "install", "stop_clear", "claim", "arm", "idle", "release"}
      BY <1>0, <2>1 DEF Operator, Start, Resume, Stop, Fire, Watch, DeleteTriggers,
         InstallTriggers, ScheduleWorker, Goto, Move, End
    <3> QED
      BY <1>2, <3>1
  <2>2. CASE (\E w \in Workers : TryClaim(e, w)) \/ ReadControl(e) \/ Leave(e) \/ Heartbeat(e)
    <3>1. pc'[e] \in {"first", "beat", "clear", "release", "replay", "error", "idle"}
      BY <1>0, <2>2 DEF TryClaim, ReadControl, Leave, Heartbeat, Move, Goto, End
    <3> QED
      BY <1>2, <3>1
  <2>3. CASE Load(e)
    <3> DEFINE x == job[e].export
               i == job[e].source + 1
    <3>1. x <= Exports /\ i <= known[x]
      BY <1>0, <1>2, <2>3 DEF Load, Goto
    <3>2. x \in 1..Exports /\ i \in 1..Sources
      <4>1. x \in 1..(Exports + 1) /\ job[e].source \in 0..Sources
        BY <1>0, JobFields
      <4>2. x \in 1..Exports
        BY <4>1, <3>1, Sizes
      <4>3. known[x] \in 0..Sources
        BY <1>0, <4>2 DEF TypeOK
      <4> QED
        BY <4>1, <4>2, <4>3, <3>1, Sizes
    <3>3. (job')[e].next = <<x, i>>
      BY <1>0, <2>3, <3>1 DEF Load, JobType
    <3> QED
      BY <3>2, <3>3
  <2>4. CASE FindLastRow(e) \/ AppendRows(e)
    <3>1. pc[e] \in Inside
      BY <2>4 DEF FindLastRow, AppendRows
    <3>2. (job')[e].next = job[e].next
      <4>1. CASE FindLastRow(e)
        BY <1>0, <4>1 DEF FindLastRow, JobType
      <4>2. CASE AppendRows(e)
        BY <1>0, <4>2 DEF AppendRows, JobType
      <4> QED
        BY <2>4, <4>1, <4>2
    <3> QED
      BY <1>0, <3>1, <3>2 DEF InSource
  <2>5. CASE AssertPersisted(e) \/ AppendLog(e)
    BY <1>0, <2>5 DEF AssertPersisted, AppendLog, Move, InSource
  <2>6. CASE Checkpoint(e) \/ SetErrorState(e) \/ ReleaseLease(e)
    <3>1. pc'[e] \in {"loop", "error", "release", "arm", "idle"}
      BY <1>0, <2>6 DEF Checkpoint, Passing, SetErrorState, ReleaseLease, Goto, Move, End
    <3> QED
      BY <1>2, <3>1
  <2>7. CASE Crash(e) \/ LockTimeout(e) \/ CallFails(e)
    <3>1. pc'[e] \in {"idle", "error", "release"}
      BY <1>0, <2>7 DEF Crash, LockTimeout, CallFails, Goto, Move, End
    <3> QED
      BY <1>2, <3>1
  <2> QED
    BY <2>1, <2>2, <2>3, <2>4, <2>5, <2>6, <2>7 DEF Works, Step
<1> QED
  BY <1>1, <1>2 DEF InSource

\* The history variables, the triggers and the counters keep their types
LEMMA RestTyped ==
  ASSUME TypeOK, NEW e \in Execs, Works(e)
  PROVE  /\ UNCHANGED sourceVars /\ atStart' \in [1..Exports -> 0..Sources]
         /\ trigger' \in [worker : BOOLEAN, watchdog : BOOLEAN]
         /\ events' \in 0..MaxEvents /\ overlap' \in BOOLEAN
<1>0. /\ atStart \in [1..Exports -> 0..Sources] /\ known \in [1..Exports -> 0..Sources]
      /\ trigger \in [worker : BOOLEAN, watchdog : BOOLEAN]
      /\ events \in 0..MaxEvents /\ overlap \in BOOLEAN
  BY DEF TypeOK
<1>c. Count => events' \in 0..MaxEvents
  BY <1>0, Sizes DEF Count
<1>1. CASE Operator(e)
  <2>1. UNCHANGED sourceVars /\ UNCHANGED trigger /\ Count
    BY <1>1 DEF Operator, Start, Resume, Stop, Operate
  <2>2. overlap' \in BOOLEAN
    <3>1. \E met : overlap' = (overlap \/ \E f \in Execs : pc[f] \in met)
      BY <1>1 DEF Operator, Start, Resume, Stop, Operate
    <3> QED
      BY <3>1, Zenon
  <2>3. atStart' = known \/ atStart' = atStart
    BY <1>1 DEF Operator, Start, Resume, Stop
  <2>4. atStart' \in [1..Exports -> 0..Sources]
    BY <1>0, <2>3
  <2>5. trigger' = trigger /\ events' \in 0..MaxEvents
    BY <1>c, <2>1
  <2>6. trigger' \in [worker : BOOLEAN, watchdog : BOOLEAN]
    BY <1>0, <2>5
  <2> QED
    BY <2>1, <2>2, <2>4, <2>5, <2>6
<1>2. CASE Fire(e) \/ Watch(e) \/ DeleteTriggers(e) \/ InstallTriggers(e) \/ ScheduleWorker(e)
  <2>1. UNCHANGED <<sourceVars, events, ghostVars>>
    BY <1>2 DEF Fire, Watch, DeleteTriggers, InstallTriggers, ScheduleWorker
  <2>2. trigger' \in [worker : BOOLEAN, watchdog : BOOLEAN]
    <3>1. \E a, b \in BOOLEAN :
            \/ trigger' = trigger \/ trigger' = [worker |-> a, watchdog |-> b]
            \/ trigger' = [trigger EXCEPT !.worker = a]
      BY <1>2 DEF Fire, Watch, DeleteTriggers, InstallTriggers, ScheduleWorker
    <3> QED
      BY <1>0, <3>1
  <2> QED
    BY <1>0, <2>1, <2>2 DEF ghostVars
<1>3. CASE \/ (\E w \in Workers : TryClaim(e, w)) \/ ReadControl(e) \/ Leave(e) \/ Heartbeat(e)
           \/ Load(e) \/ FindLastRow(e)
  <2>1. UNCHANGED <<sourceVars, trigger, events, ghostVars>>
    BY <1>3 DEF TryClaim, ReadControl, Leave, Heartbeat, Load, FindLastRow
  <2> QED
    BY <1>0, <2>1 DEF ghostVars
<1>4. CASE \/ AppendRows(e) \/ AssertPersisted(e) \/ AppendLog(e) \/ Checkpoint(e)
           \/ SetErrorState(e) \/ ReleaseLease(e)
  <2>1. UNCHANGED <<sourceVars, trigger, events, ghostVars>>
    BY <1>4 DEF AppendRows, AssertPersisted, AppendLog, Checkpoint, SetErrorState, ReleaseLease
  <2> QED
    BY <1>0, <2>1 DEF ghostVars
<1>5. CASE Crash(e) \/ LockTimeout(e) \/ CallFails(e)
  <2>1. UNCHANGED <<sourceVars, trigger, ghostVars>> /\ Count
    BY <1>5 DEF Crash, LockTimeout, CallFails, Charge
  <2> QED
    BY <1>0, <1>c, <2>1 DEF ghostVars
<1> QED
  BY <1>1, <1>2, <1>3, <1>4, <1>5 DEF Works, Step

\* Every step keeps the types
LEMMA TypedStep ==
  ASSUME Typed, [Next]_vars
  PROVE  Typed'
<1>0. TypeOK /\ Room /\ InSource /\ Blank
  BY DEF Typed
<1>1. CASE \E e \in Execs : Works(e)
  <2>1. PICK e \in Execs : Works(e)
    BY <1>1
  <2>2. PICK where \in Pcs : pc' = [pc EXCEPT ![e] = where]
    BY <1>0, <2>1, PcTyped
  <2>3. pc' \in [Execs -> Pcs]
    BY <1>0, <2>2 DEF TypeOK
  <2>4. job' \in [Execs -> JobType] /\ control' \in ControlType
    BY <1>0, <2>1, JobTyped, ControlTyped
  <2>5. /\ rows' \in CellType /\ twice' \subseteq RowType
        /\ logged' \subseteq (1..Exports) \X (1..Sources)
    BY <1>0, <2>1, SheetsTyped
  <2>6. /\ UNCHANGED sourceVars /\ atStart' \in [1..Exports -> 0..Sources]
        /\ trigger' \in [worker : BOOLEAN, watchdog : BOOLEAN]
        /\ events' \in 0..MaxEvents /\ overlap' \in BOOLEAN
    BY <1>0, <2>1, RestTyped
  <2>7. Room' /\ InSource' /\ Blank'
    BY <2>1, RoomKept, InSourceKept, BlankKept
  <2>8. TypeOK'
    BY <1>0, <2>3, <2>4, <2>5, <2>6 DEF TypeOK, sourceVars
  <2> QED
    BY <2>7, <2>8 DEF Typed
<1>2. CASE ExpireLease
  <2>1. /\ control' = [control EXCEPT !.live = FALSE]
        /\ UNCHANGED <<sourceVars, trigger, sheetVars, pc, job, atStart>>
    BY <1>2 DEF ExpireLease
  <2>2. control' \in ControlType
    BY <1>0, <2>1 DEF TypeOK, ControlType
  <2>3. \/ Count /\ overlap' = TRUE
        \/ events' = events /\ overlap' = overlap
    BY <1>2 DEF ExpireLease, Charge
  <2>a. events \in 0..MaxEvents /\ overlap \in BOOLEAN
    BY <1>0 DEF TypeOK
  <2>b. events' \in 0..MaxEvents
    BY <2>a, <2>3, Sizes DEF Count
  <2>c. overlap' \in BOOLEAN
    BY <2>a, <2>3, Zenon
  <2>4. events' \in 0..MaxEvents /\ overlap' \in BOOLEAN
    BY <2>b, <2>c
  <2>5. TypeOK'
    BY <1>0, <2>1, <2>2, <2>4 DEF TypeOK, sourceVars, sheetVars
  <2>6. pc' = pc /\ job' = job
    BY <2>1
  <2>7. Room' /\ InSource' /\ Blank'
    BY <1>0, <2>6 DEF Room, InSource, Blank
  <2> QED
    BY <2>5, <2>7 DEF Typed
<1>3. CASE \E x \in 1..Exports : Register(x)
  <2>1. PICK x \in 1..Exports : Register(x)
    BY <1>3
  <2>2. known' \in [1..Exports -> 0..Sources]
    <3>1. known[x] \in 0..Sources /\ known[x] < Sources /\ known' = [known EXCEPT ![x] = known[x] + 1]
      BY <1>0, <2>1 DEF Register, TypeOK
    <3>2. known[x] + 1 \in 0..Sources
      BY <3>1, Sizes
    <3> QED
      BY <1>0, <3>1, <3>2 DEF TypeOK
  <2>3. UNCHANGED <<history, control, trigger, sheetVars, pc, job, events, ghostVars>>
    BY <2>1 DEF Register
  <2>4. TypeOK'
    BY <1>0, <2>2, <2>3 DEF TypeOK, sheetVars, ghostVars
  <2> QED
    BY <1>0, <2>3, <2>4 DEF Typed, Room, InSource, Blank
<1>4. CASE UNCHANGED vars
  BY <1>0, <1>4 DEF Typed, TypeOK, Room, InSource, Blank, vars, sourceVars, sheetVars, ghostVars
<1> QED
  BY <1>1, <1>2, <1>3, <1>4 DEF Next, Works

\* The types hold at first
LEMMA TypedInit == ASSUME Init PROVE Typed
<1>1. NoJob \in JobType /\ NoJob.replayed = 0
  <2>2. 0 \in 0..MaxWorkers /\ 1 \in 1..(Exports + 1) /\ 0 \in 0..Sources /\ 0 \in 0..Batch
    BY Sizes
  <2>3. [k \in Sheets |-> {}] \in CellType
    BY DEF CellType
  <2> QED
    BY <2>2, <2>3 DEF NoJob, JobType, Sheets
<1>2. /\ history \in [(1..Exports) \X (1..Sources) \X Entities -> Values \union {Absent}]
      /\ known \in [1..Exports -> 0..Sources]
  BY RebuildConstants DEF Init
<1>3. control \in ControlType
  <2>1. control = [status |-> "", export |-> 1, source |-> 0, token |-> 0, live |-> FALSE]
    BY DEF Init
  <2>2. 1 \in 1..(Exports + 1) /\ 0 \in 0..Sources /\ 0 \in 0..MaxWorkers
    BY Sizes
  <2> QED
    BY <2>1, <2>2 DEF ControlType, Statuses
<1>4. /\ trigger \in [worker : BOOLEAN, watchdog : BOOLEAN] /\ rows \in CellType
      /\ twice \subseteq RowType /\ logged \subseteq (1..Exports) \X (1..Sources)
      /\ events \in 0..MaxEvents /\ overlap \in BOOLEAN
      /\ atStart \in [1..Exports -> 0..Sources]
  <2>1. /\ trigger = [worker |-> FALSE, watchdog |-> FALSE] /\ rows = [k \in Sheets |-> {}]
        /\ twice = {} /\ logged = {} /\ events = 0 /\ overlap = FALSE
        /\ atStart = [x \in 1..Exports |-> 0]
    BY DEF Init
  <2>2. 0 \in 0..MaxEvents /\ 0 \in 0..Sources
    BY Sizes
  <2>3. rows \in CellType
    BY <2>1 DEF CellType
  <2> QED
    BY <2>1, <2>2, <2>3
<1>5. /\ \A e \in Execs : pc[e] = "idle" /\ job[e] = NoJob
      /\ pc \in [Execs -> Pcs] /\ job \in [Execs -> JobType]
  <2>1. pc = [e \in Execs |-> "idle"] /\ job = [e \in Execs |-> NoJob]
    BY DEF Init
  <2>2. "idle" \in Pcs /\ NoJob \in JobType
    BY <1>1, PcNames
  <2>3. pc \in [Execs -> Pcs]
    BY <2>1, <2>2
  <2>4. job \in [Execs -> JobType]
    BY <2>1, <2>2
  <2>5. \A e \in Execs : pc[e] = "idle" /\ job[e] = NoJob
    BY <2>1
  <2> QED
    BY <2>3, <2>4, <2>5
<1>6. TypeOK
  BY <1>2, <1>3, <1>4, <1>5 DEF TypeOK
<1> QED
  BY <1>5, <1>6 DEF Typed, Room, InSource, Blank, SourcePcs

\* The type invariant of the model, with room in every count and a real source in hand
THEOREM TypedInvariant == Spec => []Typed
<1>1. Typed /\ [Next]_vars => Typed'
  BY TypedStep
<1> QED
  BY <1>1, TypedInit, PTL DEF Spec

\* TypeOK for any number of exports, sources and executions
THEOREM TypeCorrect == Spec => []TypeOK
<1>1. Typed => TypeOK
  BY DEF Typed
<1> QED
  BY <1>1, TypedInvariant, PTL

-----------------------------------------------------------------------------
(* The lease *)

(* No two executions have the same token, and every worker has one. *)
Tokens ==
  /\ \A e \in Execs : pc[e] \in WorkerPcs => job[e].token # 0
  /\ \A e, f \in Execs : e # f /\ job[e].token = job[f].token => job[e].token = 0

(* Unless a second worker may have met a live one, the lease of a worker is  *)
(* its own and is still ahead.                                              *)
Held == ~overlap => \A e \in Execs : pc[e] \in WorkerPcs => Mine(e) /\ control.live

Leased == Tokens /\ Held

\* What a worker does with the lease: it goes on with what it has, loses its local
\* variables, or is the one that claims
LEMMA LeaseMoves ==
  ASSUME Typed, NEW e \in Execs, Works(e), ~Operator(e), ~(\E w \in Workers : TryClaim(e, w))
  PROVE  /\ (job')[e].token = job[e].token \/ ((job')[e].token = 0 /\ pc'[e] = "idle")
         /\ pc'[e] \in WorkerPcs => pc[e] \in WorkerPcs
         /\ \/ (control').token = control.token /\ (control').live = control.live
            \/ Heartbeat(e) /\ Mine(e) /\ (control').token = control.token /\ (control').live = TRUE
            \/ ReleaseLease(e) /\ Mine(e) /\ pc'[e] \notin WorkerPcs
         /\ overlap' = overlap
<1>0. /\ pc \in [Execs -> Pcs] /\ job \in [Execs -> JobType] /\ job[e] \in JobType
      /\ control \in ControlType
  BY DEF Typed, TypeOK
<1>n. NoJob.token = 0
  BY DEF NoJob
<1>1. CASE Fire(e) \/ Watch(e) \/ DeleteTriggers(e) \/ InstallTriggers(e) \/ ScheduleWorker(e)
  <2>1. control' = control /\ overlap' = overlap
    BY <1>1 DEF Fire, Watch, DeleteTriggers, InstallTriggers, ScheduleWorker, ghostVars
  <2>2. \/ job' = job /\ \/ pc'[e] \in {"claim", "arm", "install"}
                         \/ pc[e] = "clear"
        \/ End(e)
    BY <1>0, <1>1 DEF Fire, Watch, DeleteTriggers, InstallTriggers, ScheduleWorker, Move, Goto
  <2>3. End(e) => pc'[e] = "idle" /\ (job')[e].token = 0
    BY <1>0, <1>n DEF End, Goto
  <2> QED
    BY <2>1, <2>2, <2>3, PcNames
<1>2. CASE ReadControl(e) \/ Leave(e) \/ Heartbeat(e) \/ Load(e) \/ FindLastRow(e) \/ AppendRows(e)
  <2>1. pc[e] \in WorkerPcs
    BY <1>2, PcNames DEF ReadControl, Leave, Heartbeat, Load, FindLastRow, AppendRows
  <2>2. overlap' = overlap
    BY <1>2 DEF ReadControl, Leave, Heartbeat, Load, FindLastRow, AppendRows, ghostVars
  <2>3. (job')[e].token = job[e].token
    <3>1. CASE ReadControl(e) \/ Leave(e)
      BY <1>0, <3>1 DEF ReadControl, Leave, JobType
    <3>2. CASE Heartbeat(e)
      BY <3>2 DEF Heartbeat, Move
    <3>3. CASE Load(e)
      BY <1>0, <3>3 DEF Load, JobType
    <3>4. CASE FindLastRow(e)
      BY <1>0, <3>4 DEF FindLastRow, JobType
    <3>5. CASE AppendRows(e)
      BY <1>0, <3>5 DEF AppendRows, JobType
    <3> QED
      BY <1>2, <3>1, <3>2, <3>3, <3>4, <3>5
  <2>4. \/ control' = control
        \/ Heartbeat(e) /\ Mine(e) /\ (control').token = control.token /\ (control').live = TRUE
    BY <1>0, <1>2 DEF ReadControl, Leave, Heartbeat, Load, FindLastRow, AppendRows, ControlType
  <2> QED
    BY <2>1, <2>2, <2>3, <2>4
<1>3. CASE AssertPersisted(e) \/ AppendLog(e) \/ Checkpoint(e) \/ SetErrorState(e)
  <2>1. pc[e] \in WorkerPcs
    BY <1>3, PcNames DEF AssertPersisted, AppendLog, Checkpoint, SetErrorState
  <2>2. overlap' = overlap
    BY <1>3 DEF AssertPersisted, AppendLog, Checkpoint, SetErrorState, ghostVars
  <2>3. (job')[e].token = job[e].token
    BY <1>0, <1>3 DEF AssertPersisted, AppendLog, Checkpoint, SetErrorState, Passing, Move, JobType
  <2>4. (control').token = control.token /\ (control').live = control.live
    BY <1>0, <1>3 DEF AssertPersisted, AppendLog, Checkpoint, SetErrorState, Passing, ControlType
  <2> QED
    BY <2>1, <2>2, <2>3, <2>4
<1>4. CASE ReleaseLease(e)
  <2>1. overlap' = overlap /\ (control' = control \/ Mine(e))
    BY <1>4 DEF ReleaseLease, ghostVars
  <2>2. \/ pc'[e] = "arm" /\ job' = job
        \/ pc'[e] = "idle" /\ (job')[e].token = 0
    BY <1>0, <1>4, <1>n DEF ReleaseLease, Move, Goto, End
  <2> QED
    BY <1>4, <2>1, <2>2, PcNames
<1>5. CASE Crash(e) \/ LockTimeout(e) \/ CallFails(e)
  <2>1. control' = control /\ overlap' = overlap
    BY <1>5 DEF Crash, LockTimeout, CallFails, ghostVars
  <2>2. \/ job' = job /\ pc[e] \in WorkerPcs
        \/ pc'[e] = "idle" /\ (job')[e].token = 0
    BY <1>0, <1>5, <1>n, PcNames DEF Crash, LockTimeout, CallFails, Move, Goto, End
  <2> QED
    BY <2>1, <2>2, PcNames
<1> QED
  BY <1>1, <1>2, <1>3, <1>4, <1>5 DEF Works, Step

\* The tokens stay apart
LEMMA TokensKept ==
  ASSUME Typed, Tokens, NEW e \in Execs, Works(e)
  PROVE  Tokens'
<1>0. /\ TypeOK /\ Room /\ pc \in [Execs -> Pcs] /\ job \in [Execs -> JobType]
      /\ job[e] \in JobType
  BY DEF Typed, TypeOK
<1>1. \A f \in Execs : f # e => pc'[f] = pc[f] /\ (job')[f].token = job[f].token
  BY <1>0, OthersKept
<1>2. CASE Operator(e)
  <2>1. job' = job /\ pc'[e] \in OperatorPcs
    BY <1>0, <1>2 DEF Operator, Start, Resume, Stop, Operate, Goto, OperatorPcs
  <2>2. pc'[e] \notin WorkerPcs
    BY <2>1 DEF OperatorPcs, WorkerPcs
  <2> QED
    BY <1>1, <2>1, <2>2 DEF Tokens
<1>3. CASE \E w \in Workers : TryClaim(e, w)
  <2>1. PICK w \in Workers : TryClaim(e, w)
    BY <1>3
  <2>2. CASE End(e)
    <3>1. (job')[e].token = 0 /\ pc'[e] = "idle"
      BY <1>0, <2>2 DEF End, Goto, NoJob
    <3> QED
      BY <1>1, <3>1, PcNames DEF Tokens
  <2>3. CASE ~End(e)
    <3>1. (job')[e].token = w /\ Fresh(w)
      BY <1>0, <2>1, <2>3 DEF TryClaim, JobType
    <3>2. \A f \in Execs : job[f].token # w
      BY <3>1 DEF Fresh, Named
    <3>3. w # 0
      BY DEF Workers
    <3> QED
      BY <1>1, <3>1, <3>2, <3>3 DEF Tokens
  <2> QED
    BY <2>2, <2>3
<1>4. CASE ~Operator(e) /\ ~(\E w \in Workers : TryClaim(e, w))
  <2>1. /\ (job')[e].token = job[e].token \/ ((job')[e].token = 0 /\ pc'[e] = "idle")
        /\ pc'[e] \in WorkerPcs => pc[e] \in WorkerPcs
    BY <1>4, LeaseMoves
  <2>2. "idle" \notin WorkerPcs
    BY PcNames
  <2> QED
    BY <1>1, <2>1, <2>2 DEF Tokens
<1> QED
  BY <1>2, <1>3, <1>4

\* A worker keeps its lease until a start, a stop or a slow worker
LEMMA HeldKept ==
  ASSUME Typed, Tokens, Held, NEW e \in Execs, Works(e)
  PROVE  Held'
<1>0. /\ TypeOK /\ Room /\ pc \in [Execs -> Pcs] /\ job \in [Execs -> JobType]
      /\ job[e] \in JobType /\ control \in ControlType
  BY DEF Typed, TypeOK
<1>1. \A f \in Execs : f # e => pc'[f] = pc[f] /\ (job')[f].token = job[f].token
  BY <1>0, OthersKept
<1>u. ~overlap =>
        \A f \in Execs : f # e /\ pc[f] \in WorkerPcs => ~(pc[e] \in WorkerPcs) /\ LeaseActive
  BY DEF Tokens, Held, Mine, LeaseActive
<1> SUFFICES ASSUME ~overlap'
             PROVE  \A f \in Execs : pc'[f] \in WorkerPcs => (Mine(f) /\ control.live)'
  BY DEF Held
<1>2. CASE Operator(e)
  <2>1. job' = job /\ pc'[e] \in OperatorPcs /\ ~overlap
    BY <1>0, <1>2 DEF Operator, Start, Resume, Stop, Operate, Goto, OperatorPcs
  <2>2. pc'[e] \notin WorkerPcs
    BY <2>1 DEF OperatorPcs, WorkerPcs
  <2>3. CASE Resume(e)
    <3>1. (control').token = control.token /\ (control').live = control.live
      BY <1>0, <2>3 DEF Resume, ControlType
    <3> QED
      BY <1>1, <2>1, <2>2, <3>1 DEF Held, Mine
  <2>4. CASE Start(e) \/ Stop(e)
    <3>1. \A f \in Execs : pc[f] \notin WorkerPcs
      BY <2>4 DEF Start, Stop, Operate
    <3> QED
      BY <1>1, <2>2, <3>1
  <2> QED
    BY <1>2, <2>3, <2>4 DEF Operator
<1>3. CASE \E w \in Workers : TryClaim(e, w)
  <2>1. PICK w \in Workers : TryClaim(e, w)
    BY <1>3
  <2>2. overlap' = overlap
    BY <2>1 DEF TryClaim, ghostVars
  <2>3. CASE control.status = "RUNNING" /\ ~LeaseActive
    <3>1. \A f \in Execs : f # e => pc[f] \notin WorkerPcs
      BY <2>2, <2>3, <1>u
    <3>2. /\ control' = [control EXCEPT !.token = w, !.live = TRUE]
          /\ job' = [job EXCEPT ![e] = [job[e] EXCEPT !.token = w]]
      BY <1>0, <2>1, <2>3 DEF TryClaim
    <3>3. (control').token = w /\ (control').live = TRUE
      BY <1>0, <3>2 DEF ControlType
    <3>4. (job')[e].token = w
      BY <1>0, <3>2 DEF JobType
    <3> QED
      BY <1>1, <3>1, <3>3, <3>4 DEF Mine
  <2>4. CASE ~(control.status = "RUNNING" /\ ~LeaseActive)
    <3>1. control' = control /\ pc'[e] = "idle"
      BY <1>0, <2>1, <2>4 DEF TryClaim, End, Goto
    <3>2. pc'[e] \notin WorkerPcs /\ ~overlap
      BY <2>2, <3>1, PcNames
    <3> QED
      BY <1>1, <3>1, <3>2 DEF Held, Mine
  <2> QED
    BY <2>3, <2>4
<1>4. CASE ~Operator(e) /\ ~(\E w \in Workers : TryClaim(e, w))
  <2>1. /\ (job')[e].token = job[e].token \/ pc'[e] = "idle"
        /\ pc'[e] \in WorkerPcs => pc[e] \in WorkerPcs
        /\ \/ (control').token = control.token /\ (control').live = control.live
           \/ Heartbeat(e) /\ (control').token = control.token /\ (control').live = TRUE
           \/ ReleaseLease(e) /\ pc'[e] \notin WorkerPcs
        /\ overlap' = overlap
    BY <1>4, LeaseMoves
  <2>2. CASE ReleaseLease(e) /\ pc'[e] \notin WorkerPcs
    <3>1. pc[e] \in WorkerPcs
      BY <2>2, PcNames DEF ReleaseLease
    <3> QED
      BY <1>1, <1>u, <2>1, <2>2, <3>1
  <2>3. CASE (control').token = control.token /\ ((control').live = control.live \/ (control').live)
    BY <1>1, <2>1, <2>3, PcNames DEF Held, Mine
  <2> QED
    BY <2>1, <2>2, <2>3
<1> QED
  BY <1>2, <1>3, <1>4

\* Every step keeps the tokens apart and the leases with their workers
LEMMA LeasedStep ==
  ASSUME Typed, Leased, [Next]_vars
  PROVE  Leased'
<1>0. Tokens /\ Held
  BY DEF Leased
<1>1. CASE \E e \in Execs : Works(e)
  BY <1>0, <1>1, TokensKept, HeldKept DEF Leased
<1>2. CASE ExpireLease
  <2>1. pc' = pc /\ job' = job
    BY <1>2 DEF ExpireLease
  <2>2. Tokens'
    BY <1>0, <2>1 DEF Tokens
  <2>3. ASSUME ~overlap'
        PROVE  ~overlap /\ \A f \in Execs : pc[f] \notin WorkerPcs
    BY <1>0, <1>2, <2>3 DEF ExpireLease, Holder, Held
  <2> QED
    BY <2>1, <2>2, <2>3 DEF Leased, Held
<1>3. CASE (\E x \in 1..Exports : Register(x)) \/ UNCHANGED vars
  <2>1. UNCHANGED <<pc, job, control, overlap>>
    BY <1>3 DEF Register, vars, ghostVars
  <2> QED
    BY <1>0, <2>1 DEF Leased, Tokens, Held, Mine
<1> QED
  BY <1>1, <1>2, <1>3 DEF Next, Works

-----------------------------------------------------------------------------
(* The cursor *)

(* Who still holds the lease passes the source, or the export, that the     *)
(* cursor is at.                                                            *)
Read(e) ==
  pc[e] \in SourcePcs /\ Mine(e) =>
    job[e].export = control.export /\ job[e].source = control.source

NextOne(e) ==
  \/ /\ job[e].export <= Exports /\ job[e].source + 1 <= known[job[e].export]
     /\ job[e].next = <<job[e].export, job[e].source + 1>>
  \/ /\ job[e].export <= Exports /\ job[e].source >= atStart[job[e].export]
     /\ job[e].next = <<job[e].export + 1, 0>>
  \/ job[e].export > Exports /\ job[e].next = <<job[e].export, 0>>

Passes(e) ==
  pc[e] \in {"append", "write", "verify", "log", "checkpoint"} /\ Mine(e) => NextOne(e)

AtCursor ==
  /\ \A e \in Execs : Read(e) /\ Passes(e)
  /\ \A x \in 1..Exports : atStart[x] <= known[x]
  /\ control.export > Exports => control.source = 0

\* What a start and a stop leave of the control record
LEMMA StartStop ==
  ASSUME TypeOK, NEW e \in Execs
  PROVE  /\ Start(e) => (control').token = 0 /\ (control').status = "RUNNING"
         /\ Stop(e) => /\ (control').token = 0 /\ (control').status = "STOPPED"
                       /\ (control').export = control.export
                       /\ (control').source = control.source
<1>1. control \in ControlType
  BY DEF TypeOK
<1>2. /\ Released.token = 0 /\ Released.export = control.export
      /\ Released.source = control.source
  BY <1>1 DEF Released, ControlType
<1>3. 0 \in 0..MaxWorkers
  BY Sizes
<1>4. Released \in ControlType
  BY <1>1, <1>3, ControlUpdates DEF Released
<1>5. ASSUME Stop(e)
      PROVE  /\ (control').token = 0 /\ (control').status = "STOPPED"
             /\ (control').export = control.export /\ (control').source = control.source
  <2>1. control' = [Released EXCEPT !.status = "STOPPED"]
    BY <1>5 DEF Stop
  <2> QED
    BY <1>2, <1>4, <2>1 DEF ControlType
<1> QED
  BY <1>5 DEF Start

\* Only a start and the checkpoint of the holder move the cursor
LEMMA CursorKept ==
  ASSUME Typed, NEW e \in Execs, Works(e), ~Start(e), ~(Checkpoint(e) /\ Mine(e))
  PROVE  /\ (control').export = control.export /\ (control').source = control.source
         /\ atStart' = atStart /\ known' = known
<1>0. control \in ControlType /\ TypeOK
  BY DEF Typed, TypeOK
<1>1. CASE Operator(e)
  <2>1. CASE Resume(e)
    BY <1>0, <2>1 DEF Resume, Operate, ControlType, sourceVars
  <2>2. CASE Stop(e)
    <3>1. (control').export = control.export /\ (control').source = control.source
      BY <1>0, <2>2, StartStop
    <3> QED
      BY <2>2, <3>1 DEF Stop, Operate, sourceVars
  <2> QED
    BY <1>1, <2>1, <2>2 DEF Operator
<1>2. CASE Fire(e) \/ Watch(e) \/ DeleteTriggers(e) \/ InstallTriggers(e) \/ ScheduleWorker(e)
  BY <1>2 DEF Fire, Watch, DeleteTriggers, InstallTriggers, ScheduleWorker, sourceVars, ghostVars
<1>3. CASE (\E w \in Workers : TryClaim(e, w)) \/ Heartbeat(e) \/ SetErrorState(e)
  BY <1>0, <1>3 DEF TryClaim, Heartbeat, SetErrorState, ControlType, sourceVars, ghostVars
<1>4. CASE \/ ReadControl(e) \/ Leave(e) \/ Load(e) \/ FindLastRow(e) \/ AppendRows(e)
           \/ AssertPersisted(e) \/ AppendLog(e)
  BY <1>4 DEF ReadControl, Leave, Load, FindLastRow, AppendRows, AssertPersisted, AppendLog,
     sourceVars, ghostVars
<1>5. CASE ReleaseLease(e) \/ (Checkpoint(e) /\ ~Mine(e))
  BY <1>0, <1>5 DEF ReleaseLease, Checkpoint, Released, ControlType, sourceVars, ghostVars
<1>6. CASE Crash(e) \/ LockTimeout(e) \/ CallFails(e)
  BY <1>6 DEF Crash, LockTimeout, CallFails, sourceVars, ghostVars
<1> QED
  BY <1>1, <1>2, <1>3, <1>4, <1>5, <1>6 DEF Works, Step

\* A worker that holds the lease after the step of another held it before, and the cursor
\* is where it was
LEMMA MineBefore ==
  ASSUME Typed, Leased, NEW e \in Execs, Works(e), NEW f \in Execs, f # e, pc[f] \in WorkerPcs,
         Mine(f)'
  PROVE  /\ Mine(f) /\ (control').export = control.export
         /\ (control').source = control.source /\ atStart' = atStart /\ known' = known
<1>0. /\ TypeOK /\ Room /\ Tokens /\ pc \in [Execs -> Pcs] /\ job \in [Execs -> JobType]
      /\ control \in ControlType
  BY DEF Typed, TypeOK, Leased
<1>1. (job')[f].token = job[f].token /\ job[f].token # 0 /\ (control').token = job[f].token
  BY <1>0, OthersKept DEF Tokens, Mine
<1>2. ~Start(e) /\ ~Stop(e)
  <2>1. Start(e) \/ Stop(e) => (control').token = 0
    BY <1>0, StartStop
  <2> QED
    BY <1>1, <2>1
<1>3. Mine(f)
  <2>1. CASE Operator(e)
    BY <1>0, <1>1, <1>2, <2>1 DEF Operator, Resume, ControlType, Mine
  <2>2. CASE \E w \in Workers : TryClaim(e, w)
    <3>1. PICK w \in Workers : TryClaim(e, w)
      BY <2>2
    <3>2. job[f].token # w
      BY <3>1 DEF TryClaim, Fresh, Named
    <3>3. control' = control \/ (control').token = w
      BY <1>0, <3>1 DEF TryClaim, ControlType
    <3> QED
      BY <1>1, <3>2, <3>3 DEF Mine
  <2>3. CASE ~Operator(e) /\ ~(\E w \in Workers : TryClaim(e, w))
    <3>1. (control').token = control.token \/ (ReleaseLease(e) /\ Mine(e))
      BY <2>3, LeaseMoves
    <3>2. ReleaseLease(e) /\ Mine(e) => (control').token = 0
      BY <1>0 DEF ReleaseLease, Released, ControlType
    <3> QED
      BY <1>1, <3>1, <3>2 DEF Mine
  <2> QED
    BY <2>1, <2>2, <2>3
<1>4. ~Mine(e)
  BY <1>0, <1>1, <1>3 DEF Tokens, Mine
<1> QED
  BY <1>2, <1>3, <1>4, CursorKept

\* A worker in a source goes on from what it read of the cursor
LEMMA CursorOwn ==
  ASSUME Typed, Leased, AtCursor, NEW e \in Execs, Works(e)
  PROVE  (Read(e) /\ Passes(e))'
<1>0. /\ TypeOK /\ Room /\ Tokens /\ pc \in [Execs -> Pcs] /\ job \in [Execs -> JobType]
      /\ job[e] \in JobType /\ control \in ControlType /\ Read(e) /\ Passes(e)
  BY DEF Typed, TypeOK, Leased, AtCursor
<1> DEFINE Inside == {"append", "write", "verify", "log", "checkpoint"}
<1>s. SourcePcs = {"beat", "replay"} \union Inside
  BY DEF SourcePcs
<1>1. CASE pc'[e] \notin SourcePcs
  BY <1>1, <1>s DEF Read, Passes
<1>2. CASE ReadControl(e)
  <2>1. pc'[e] = "beat" /\ control' = control
    BY <1>0, <1>2 DEF ReadControl, Goto
  <2>2. job' = [job EXCEPT ![e] =
                  [job[e] EXCEPT !.export = control.export, !.source = control.source]]
    BY <1>0, <1>2 DEF ReadControl
  <2>3. (job')[e].export = control.export /\ (job')[e].source = control.source
    BY <1>0, <2>2 DEF JobType
  <2> QED
    BY <2>1, <2>3 DEF Read, Passes
<1>3. CASE Heartbeat(e)
  <2>1. job' = job /\ (control' = control \/ control' = [control EXCEPT !.live = TRUE])
    BY <1>3 DEF Heartbeat, Move
  <2>2. pc[e] = "beat" /\ pc'[e] \notin Inside
    BY <1>0, <1>3 DEF Heartbeat, Move, Goto
  <2>3. /\ (control').export = control.export /\ (control').source = control.source
        /\ (control').token = control.token
    BY <1>0, <2>1 DEF ControlType
  <2> QED
    BY <1>0, <1>s, <2>1, <2>2, <2>3 DEF Read, Passes, Mine
<1>4. CASE Load(e)
  <2> DEFINE x == job[e].export
             i == job[e].source + 1
  <2>0. x \in 1..(Exports + 1) /\ job[e].source \in 0..Sources
    BY <1>0, JobFields
  <2>1. pc[e] = "replay" /\ UNCHANGED <<control, known, atStart>>
    BY <1>4 DEF Load, sourceVars, ghostVars
  <2>2. /\ (job')[e].export = x /\ (job')[e].source = job[e].source
        /\ (job')[e].token = job[e].token
        /\ (job')[e].next = IF x <= Exports /\ i <= known[x] THEN <<x, i>>
                            ELSE <<IF x <= Exports THEN x + 1 ELSE x, 0>>
    <3>1. CASE x <= Exports /\ i <= known[x]
      BY <1>0, <1>4, <3>1 DEF Load, JobType
    <3>2. CASE ~(x <= Exports /\ i <= known[x])
      BY <1>0, <1>4, <3>2 DEF Load, JobType
    <3> QED
      BY <3>1, <3>2
  <2>3. ASSUME x <= Exports
        PROVE  x \in 1..Exports /\ known[x] \in 0..Sources /\ atStart[x] \in 0..Sources
               /\ atStart[x] <= known[x]
    <3>1. x \in 1..Exports
      BY <2>0, <2>3, Sizes
    <3> QED
      BY <1>0, <3>1 DEF TypeOK, AtCursor
  <2>4. NextOne(e)'
    <3>1. CASE x <= Exports /\ i <= known[x]
      BY <2>1, <2>2, <3>1 DEF NextOne
    <3>2. CASE x <= Exports /\ ~(i <= known[x])
      <4>1. job[e].source >= atStart[x]
        BY <2>0, <2>3, <3>2, Sizes
      <4> QED
        BY <2>1, <2>2, <3>2, <4>1 DEF NextOne
    <3>3. CASE ~(x <= Exports)
      BY <2>0, <2>1, <2>2, <3>3, Sizes DEF NextOne
    <3> QED
      BY <3>1, <3>2, <3>3
  <2>5. "replay" \in SourcePcs
    BY <1>s
  <2> QED
    BY <1>0, <2>1, <2>2, <2>4, <2>5 DEF Read, Passes, Mine
<1>5. CASE FindLastRow(e) \/ AppendRows(e) \/ AssertPersisted(e) \/ AppendLog(e)
  <2>1. pc[e] \in Inside /\ UNCHANGED <<control, known, atStart>>
    BY <1>5 DEF FindLastRow, AppendRows, AssertPersisted, AppendLog, sourceVars, ghostVars
  <2>2. /\ (job')[e].export = job[e].export /\ (job')[e].source = job[e].source
        /\ (job')[e].token = job[e].token /\ (job')[e].next = job[e].next
    <3>1. CASE FindLastRow(e)
      BY <1>0, <3>1 DEF FindLastRow, JobType
    <3>2. CASE AppendRows(e)
      BY <1>0, <3>2 DEF AppendRows, JobType
    <3>3. CASE AssertPersisted(e) \/ AppendLog(e)
      BY <3>3 DEF AssertPersisted, AppendLog, Move
    <3> QED
      BY <1>5, <3>1, <3>2, <3>3
  <2> HIDE DEF Inside
  <2>3. pc[e] \in SourcePcs
    BY <1>s, <2>1
  <2> QED
    BY <1>0, <2>1, <2>2, <2>3 DEF Read, Passes, Mine, NextOne, Inside
<1>6. CASE \/ Operator(e) \/ Fire(e) \/ Watch(e) \/ DeleteTriggers(e) \/ InstallTriggers(e)
           \/ ScheduleWorker(e)
  <2>1. pc'[e] \in {"start_clear", "install", "stop_clear", "claim", "arm", "idle", "release"}
    BY <1>0, <1>6 DEF Operator, Start, Resume, Stop, Fire, Watch, DeleteTriggers,
       InstallTriggers, ScheduleWorker, Goto, Move, End
  <2> QED
    BY <1>1, <2>1 DEF SourcePcs
<1>7. CASE \/ (\E w \in Workers : TryClaim(e, w)) \/ Leave(e) \/ Checkpoint(e)
           \/ SetErrorState(e) \/ ReleaseLease(e)
  <2>1. pc'[e] \in {"first", "idle", "clear", "release", "loop", "error", "arm"}
    BY <1>0, <1>7 DEF TryClaim, Leave, Checkpoint, Passing, SetErrorState, ReleaseLease, Goto,
       Move, End
  <2> QED
    BY <1>1, <2>1 DEF SourcePcs
<1>8. CASE Crash(e) \/ LockTimeout(e) \/ CallFails(e)
  <2>1. pc'[e] \in {"idle", "error", "release"}
    BY <1>0, <1>8 DEF Crash, LockTimeout, CallFails, Goto, Move, End
  <2> QED
    BY <1>1, <2>1 DEF SourcePcs
<1> QED
  BY <1>2, <1>3, <1>4, <1>5, <1>6, <1>7, <1>8 DEF Works, Step

\* Every worker passes what the cursor is at, whoever takes the step
LEMMA AtCursorStep ==
  ASSUME Typed, Leased, AtCursor, [Next]_vars
  PROVE  AtCursor'
<1>0. /\ TypeOK /\ Room /\ Tokens /\ control \in ControlType
      /\ known \in [1..Exports -> 0..Sources] /\ atStart \in [1..Exports -> 0..Sources]
  BY DEF Typed, TypeOK, Leased
<1>1. CASE \E e \in Execs : Works(e)
  <2>1. PICK e \in Execs : Works(e)
    BY <1>1
  <2>2. ASSUME NEW f \in Execs
        PROVE  (Read(f) /\ Passes(f))'
    <3>1. CASE f = e
      BY <2>1, <3>1, CursorOwn
    <3>2. CASE f # e /\ pc[f] \in SourcePcs /\ Mine(f)'
      <4>1. /\ Mine(f) /\ (control').export = control.export
            /\ (control').source = control.source /\ atStart' = atStart /\ known' = known
        BY <2>1, <3>2, MineBefore, PcNames
      <4>2. /\ pc'[f] = pc[f] /\ (job')[f].token = job[f].token
            /\ (job')[f].export = job[f].export /\ (job')[f].source = job[f].source
            /\ (job')[f].next = job[f].next
        BY <1>0, <2>1, <3>2, OthersKept
      <4>3. Read(f) /\ Passes(f)
        BY DEF AtCursor
      <4> QED
        BY <4>1, <4>2, <4>3 DEF Read, Passes, NextOne
    <3>3. CASE f # e /\ ~(pc[f] \in SourcePcs /\ Mine(f)')
      <4>1. pc'[f] = pc[f]
        BY <1>0, <2>1, <3>3, OthersKept
      <4>2. {"append", "write", "verify", "log", "checkpoint"} \subseteq SourcePcs
        BY DEF SourcePcs
      <4> QED
        BY <3>3, <4>1, <4>2 DEF Read, Passes
    <3> QED
      BY <3>1, <3>2, <3>3
  <2>3. \A x \in 1..Exports : (atStart')[x] <= (known')[x]
    <3>1. known' = known /\ (atStart' = atStart \/ atStart' = known)
      <4>1. CASE Start(e)
        BY <4>1 DEF Start, Operate, sourceVars
      <4>2. CASE Checkpoint(e)
        BY <4>2 DEF Checkpoint, sourceVars, ghostVars
      <4> QED
        BY <2>1, <4>1, <4>2, CursorKept
    <3>2. \A x \in 1..Exports : atStart[x] <= known[x] /\ known[x] \in Nat
      BY <1>0, Sizes DEF AtCursor
    <3> QED
      BY <3>1, <3>2
  <2>4. (control').export > Exports => (control').source = 0
    <3>1. CASE Start(e)
      BY <3>1, Sizes DEF Start
    <3>2. CASE Checkpoint(e) /\ Mine(e)
      <4>1. NextOne(e) /\ job[e].export \in 1..(Exports + 1)
        BY <1>0, <3>2, JobFields DEF Checkpoint, AtCursor, Passes
      <4>2. /\ (control').export = job[e].next[1] /\ (control').source = job[e].next[2]
        BY <1>0, <3>2 DEF Checkpoint, Passing, ControlType
      <4> QED
        BY <4>1, <4>2, Sizes DEF NextOne
    <3>3. CASE ~Start(e) /\ ~(Checkpoint(e) /\ Mine(e))
      BY <2>1, <3>3, CursorKept DEF AtCursor
    <3> QED
      BY <3>1, <3>2, <3>3
  <2> QED
    BY <2>2, <2>3, <2>4 DEF AtCursor
<1>2. CASE ExpireLease
  <2>1. /\ control' = [control EXCEPT !.live = FALSE]
        /\ UNCHANGED <<pc, job, known, atStart>>
    BY <1>2 DEF ExpireLease, sourceVars
  <2>2. /\ (control').export = control.export /\ (control').source = control.source
        /\ (control').token = control.token
    BY <1>0, <2>1 DEF ControlType
  <2> QED
    BY <2>1, <2>2 DEF AtCursor, Read, Passes, NextOne, Mine
<1>3. CASE \E x \in 1..Exports : Register(x)
  <2>1. PICK x \in 1..Exports : Register(x)
    BY <1>3
  <2>2. /\ UNCHANGED <<pc, job, control, atStart>>
        /\ \A y \in 1..Exports : (known')[y] >= known[y] /\ (known')[y] \in Nat
    BY <1>0, <2>1, Sizes DEF Register, ghostVars
  <2>3. ASSUME NEW e \in Execs, NextOne(e)
        PROVE  NextOne(e)'
    <3>1. job[e].export \in 1..(Exports + 1) /\ job[e].source \in 0..Sources
      BY <1>0, JobFields
    <3>2. ASSUME job[e].export <= Exports, job[e].source + 1 <= known[job[e].export]
          PROVE  job[e].source + 1 <= (known')[job[e].export]
      <4>1. job[e].export \in 1..Exports
        BY <3>1, <3>2, Sizes
      <4>2. known[job[e].export] \in 0..Sources
        BY <1>0, <4>1
      <4> QED
        BY <2>2, <3>1, <3>2, <4>1, <4>2, Sizes
    <3> QED
      BY <2>2, <2>3, <3>2 DEF NextOne
  <2>4. \A y \in 1..Exports : (atStart')[y] <= (known')[y]
    <3>1. \A y \in 1..Exports : atStart[y] <= known[y] /\ atStart[y] \in 0..Sources
            /\ known[y] \in 0..Sources
      BY <1>0 DEF AtCursor
    <3> QED
      BY <2>2, <3>1, Sizes
  <2> QED
    BY <2>2, <2>3, <2>4 DEF AtCursor, Read, Passes, Mine
<1>4. CASE UNCHANGED vars
  BY <1>4 DEF AtCursor, Read, Passes, NextOne, Mine, vars, sourceVars, ghostVars
<1> QED
  BY <1>1, <1>2, <1>3, <1>4 DEF Next, Works

\* The cursor moves as CursorStep says
LEMMA CursorStepTaken ==
  ASSUME Typed, Leased, AtCursor, [Next]_vars
  PROVE  CursorStep
<1>0. /\ TypeOK /\ control \in ControlType /\ control.export \in 1..(Exports + 1)
      /\ control.source \in 0..Sources
  BY DEF Typed, TypeOK, ControlType
<1>1. CASE \E e \in Execs : Start(e)
  BY <1>1 DEF Start, CursorStep
<1>2. CASE \E e \in Execs : Checkpoint(e) /\ Mine(e)
  <2>1. PICK e \in Execs : Checkpoint(e) /\ Mine(e)
    BY <1>2
  <2>2. /\ NextOne(e) /\ job[e].export = control.export /\ job[e].source = control.source
    BY <2>1 DEF Checkpoint, AtCursor, Passes, Read, SourcePcs
  <2>3. /\ (control').export = job[e].next[1] /\ (control').source = job[e].next[2]
        /\ (control').status = (IF job[e].export > Exports THEN "COMPLETE" ELSE control.status)
    BY <1>0, <2>1 DEF Checkpoint, Passing, ControlType
  <2>4. control.export > Exports => control.source = 0
    BY DEF AtCursor
  <2>5. <<(control').export, (control').source>> = job[e].next
    BY <1>0, <2>3, JobFields
  <2>6. (control').status = "COMPLETE" /\ control.status # "COMPLETE" => control.export > Exports
    BY <2>2, <2>3
  <2> QED
    BY <2>2, <2>4, <2>5, <2>6 DEF NextOne, CursorStep
<1>3. CASE /\ \E e \in Execs : Works(e)
           /\ ~\E e \in Execs : Start(e) \/ (Checkpoint(e) /\ Mine(e))
  <2>1. PICK e \in Execs : Works(e)
    BY <1>3
  <2>2. (control').export = control.export /\ (control').source = control.source
    BY <1>3, <2>1, CursorKept
  <2>3. (control').status = "COMPLETE" => control.status = "COMPLETE"
    <3>1. CASE Operator(e)
      <4>1. Resume(e) => (control').status = "RUNNING"
        BY <1>0 DEF Resume, ControlType
      <4> QED
        BY <1>0, <3>1, <4>1, StartStop DEF Operator
    <3>2. CASE Fire(e) \/ Watch(e) \/ DeleteTriggers(e) \/ InstallTriggers(e) \/ ScheduleWorker(e)
      BY <3>2 DEF Fire, Watch, DeleteTriggers, InstallTriggers, ScheduleWorker
    <3>3. CASE (\E w \in Workers : TryClaim(e, w)) \/ Heartbeat(e) \/ SetErrorState(e)
      BY <1>0, <3>3 DEF TryClaim, Heartbeat, SetErrorState, ControlType
    <3>4. CASE \/ ReadControl(e) \/ Leave(e) \/ Load(e) \/ FindLastRow(e) \/ AppendRows(e)
               \/ AssertPersisted(e) \/ AppendLog(e)
      BY <3>4 DEF ReadControl, Leave, Load, FindLastRow, AppendRows, AssertPersisted, AppendLog
    <3>5. CASE ReleaseLease(e) \/ (Checkpoint(e) /\ ~Mine(e))
      BY <1>0, <3>5 DEF ReleaseLease, Checkpoint, Released, ControlType
    <3>6. CASE Crash(e) \/ LockTimeout(e) \/ CallFails(e)
      BY <3>6 DEF Crash, LockTimeout, CallFails
    <3> QED
      BY <1>3, <2>1, <3>1, <3>2, <3>3, <3>4, <3>5, <3>6 DEF Works, Step
  <2> QED
    BY <2>2, <2>3 DEF CursorStep
<1>4. CASE ExpireLease \/ (\E x \in 1..Exports : Register(x)) \/ UNCHANGED vars
  <2>1. control' = control \/ control' = [control EXCEPT !.live = FALSE]
    BY <1>4 DEF ExpireLease, Register, vars
  <2> QED
    BY <1>0, <2>1 DEF CursorStep, ControlType
<1> QED
  BY <1>1, <1>2, <1>3, <1>4 DEF Next, Works

\* The lease and the cursor at first
LEMMA CursorInit == ASSUME Init PROVE Leased /\ AtCursor
<1>1. /\ \A e \in Execs : pc[e] = "idle" /\ job[e] = NoJob
      /\ overlap = FALSE
  BY DEF Init
<1>2. "idle" \notin WorkerPcs /\ NoJob.token = 0
  BY PcNames DEF NoJob
<1>3. Leased
  BY <1>1, <1>2 DEF Leased, Tokens, Held
<1>4. \A e \in Execs : Read(e) /\ Passes(e)
  BY <1>1 DEF Read, Passes, SourcePcs
<1>5. \A x \in 1..Exports : atStart[x] = 0 /\ known[x] \in 0..Sources
  BY RebuildConstants DEF Init
<1>6. \A x \in 1..Exports : atStart[x] <= known[x]
  BY <1>5, Sizes
<1>7. control.export > Exports => control.source = 0
  BY DEF Init
<1> QED
  BY <1>3, <1>4, <1>6, <1>7 DEF AtCursor

\* The lease and the cursor, for any number of executions
THEOREM CursorInvariant == Spec => [](Leased /\ AtCursor)
<1>1. Typed /\ (Leased /\ AtCursor) /\ [Next]_vars => (Leased /\ AtCursor)'
  BY LeasedStep, AtCursorStep
<1> QED
  BY <1>1, CursorInit, TypedInvariant, PTL DEF Spec

\* OneWriter: between claim and release a worker holds the lease
THEOREM OneWriterCorrect == Spec => []OneWriter
<1>1. Leased => OneWriter
  BY DEF Leased, Held, OneWriter
<1> QED
  BY <1>1, CursorInvariant, PTL

\* CursorMoves: the cursor passes one source or one export at a time, and a worker that lost
\* its lease moves nothing
THEOREM CursorCorrect == Spec => CursorMoves
<1>1. Typed /\ (Leased /\ AtCursor) /\ [Next]_vars => [CursorStep]_vars
  BY CursorStepTaken
<1> QED
  BY <1>1, CursorInvariant, TypedInvariant, PTL DEF Spec, CursorMoves

-----------------------------------------------------------------------------
(* The rows *)

RowsRight == \A k \in Sheets : \A r \in rows[k] : r \in Expected(k, r.export, r.source)

Logs ==
  \A x \in 1..Exports, i \in 1..Sources :
    /\ Passed(x, i) => <<x, i>> \in logged
    /\ <<x, i>> \in logged => Complete(x, i)

(* The sheets a worker at one sheet has still to append to. *)
Pending(sheet) ==
  IF sheet = "snapshot" THEN Sheets
  ELSE IF sheet = "change" THEN {"change", "detail"} ELSE {"detail"}

(* What a worker found missing is expected and all that is missing, and is  *)
(* still missing until it is appended.                                      *)
FoundRight(e) ==
  /\ pc[e] \in {"append", "write", "verify"} =>
       \A k \in Sheets :
         /\ job[e].found[k] \subseteq Expected(k, job[e].next[1], job[e].next[2])
         /\ Expected(k, job[e].next[1], job[e].next[2]) \subseteq rows[k] \union job[e].found[k]
  /\ pc[e] \in {"append", "write"} =>
       \A k \in Pending(job[e].sheet) : \A r \in job[e].found[k] : ~Persisted(k, r)
  /\ pc[e] = "write" => job[e].under = {}

LogRight(e) ==
  /\ pc[e] = "log" => Complete(job[e].next[1], job[e].next[2])
  /\ pc[e] = "checkpoint" /\ job[e].next[2] > 0 => job[e].next \in logged

RowsInv ==
  ~overlap =>
    /\ twice = {} /\ RowsRight /\ Logs
    /\ \A e \in Execs : FoundRight(e) /\ LogRight(e)

\* Two workers do not meet
LEMMA Alone ==
  ASSUME Leased, ~overlap, NEW e \in Execs, pc[e] \in WorkerPcs, NEW f \in Execs, f # e
  PROVE  pc[f] \notin WorkerPcs
BY DEF Leased, Tokens, Held, Mine

\* The latest earlier source in which an entity was new is a source, or 0
LEMMA PriorTyped ==
  ASSUME NEW x, NEW i \in 1..Sources, NEW n
  PROVE  Prior(x, i, n) \in 0..Sources
<1> DEFINE J == {j \in 1..(i - 1) : Differs(x, j, n)}
<1>1. J \subseteq 1..Sources
  BY Sizes
<1> HIDE DEF J
<1>2. Latest(J) \in 0..Sources
  BY <1>1, LatestTyped
<1> QED
  BY <1>2 DEF Prior, J

\* What is expected of a source depends on the history alone
LEMMA ExpectedKept ==
  ASSUME history' = history, NEW k, NEW x, NEW i
  PROVE  Expected(k, x, i)' = Expected(k, x, i)
<1>1. \A j, n : State(x, j, n)' = State(x, j, n)
  BY DEF State
<1>2. \A j, n : Differs(x, j, n)' = Differs(x, j, n)
  BY DEF Differs, State
<1>3. \A n : Prior(x, i, n)' = Prior(x, i, n)
  BY <1>2 DEF Prior, Latest
<1> QED
  BY <1>2, <1>3 DEF Expected, Belongs

\* An expected row with the id of a row that is right is that row
LEMMA SameRow ==
  ASSUME Typed, RowsRight, NEW k \in Sheets, NEW x, NEW i, NEW r \in Expected(k, x, i),
         Persisted(k, r)
  PROVE  r \in rows[k]
<1>1. PICK s \in rows[k] : SameId(k, r, s)
  BY DEF Persisted
<1>2. s.export = r.export /\ s.source = r.source /\ s.entity = r.entity
  BY <1>1 DEF SameId
<1>3. r \in RowType /\ r.export = x /\ r.source = i /\ r.prior = Prior(x, i, r.entity)
  BY DEF Expected
<1>4. s \in Expected(k, x, i)
  BY <1>2, <1>3 DEF RowsRight
<1>5. s \in RowType /\ s.prior = Prior(x, i, s.entity)
  BY <1>4 DEF Expected
<1>6. s.prior = r.prior
  BY <1>2, <1>3, <1>5
<1>7. s = r
  BY <1>2, <1>3, <1>5, <1>6 DEF RowType
<1> QED
  BY <1>7

\* The stored snapshot before a source is of the latest source in which the entity was new,
\* once the sources before it have all their rows
LEMMA PriorFound ==
  ASSUME Typed, RowsRight, NEW x \in 1..Exports, NEW i \in 1..Sources, NEW n \in Entities,
         \A j \in 1..(i - 1) : Complete(x, j)
  PROVE  StoredPrior(x, i, n) = Prior(x, i, n)
<1> DEFINE Stored == {s \in rows["snapshot"] : s.export = x /\ s.entity = n /\ s.source < i}
           A == {r.source : r \in Stored}
           B == {j \in 1..(i - 1) : Differs(x, j, n)}
<1>0. rows \in CellType /\ "snapshot" \in Sheets
  BY DEF Typed, TypeOK, Sheets
<1>1. ASSUME NEW s \in Stored
      PROVE  s.source \in B
  <2>1. s \in RowType
    BY <1>0 DEF CellType
  <2>2. s \in Expected("snapshot", x, s.source)
    BY <1>0 DEF RowsRight
  <2>3. Differs(x, s.source, n)
    BY <2>2 DEF Expected
  <2>4. s.source \in 1..Sources
    BY <2>1 DEF RowType
  <2> QED
    BY <2>3, <2>4, Sizes
<1>2. ASSUME NEW j \in B
      PROVE  \E s \in Stored : s.source = j
  <2>1. j \in 1..Sources /\ j < i /\ Differs(x, j, n)
    BY Sizes
  <2> DEFINE p == Prior(x, j, n)
             s == [export |-> x, source |-> j, entity |-> n, prior |-> p]
  <2>2. p \in 0..Sources
    BY <2>1, PriorTyped
  <2> HIDE DEF p
  <2>3. s \in RowType
    BY <2>1, <2>2 DEF RowType
  <2>4. s.export = x /\ s.source = j /\ s.entity = n /\ s.prior = p
    OBVIOUS
  <2>5. Belongs("snapshot", j)
    BY DEF Belongs
  <2> HIDE DEF s
  <2>6. s \in Expected("snapshot", x, j)
    BY <2>1, <2>3, <2>4, <2>5 DEF Expected, p
  <2>7. s \in rows["snapshot"]
    BY <1>0, <2>6 DEF Complete
  <2> QED
    BY <2>1, <2>4, <2>7
<1>3. A = B
  <2>1. A \subseteq B
    BY <1>1
  <2>2. \A j \in B : j \in A
    BY <1>2
  <2> QED
    BY <2>1, <2>2
<1> HIDE DEF A, B
<1>4. Latest(A) = Latest(B)
  BY <1>3
<1> QED
  BY <1>4 DEF StoredPrior, Prior, A, B

\* What a worker finds missing in a source is what is expected and not stored
LEMMA MissingRight ==
  ASSUME Typed, RowsRight, NEW x \in 1..Exports, NEW i \in 1..Sources,
         \A j \in 1..(i - 1) : Complete(x, j), NEW k \in Sheets
  PROVE  /\ Missing(k, x, i) \subseteq Expected(k, x, i)
         /\ Expected(k, x, i) \subseteq rows[k] \union Missing(k, x, i)
         /\ \A r \in Missing(k, x, i) : ~Persisted(k, r)
<1>1. \A r \in RowType : StoredPrior(x, i, r.entity) = Prior(x, i, r.entity)
  BY PriorFound DEF RowType
<1>2. Candidates(k, x, i) = Expected(k, x, i)
  BY <1>1 DEF Candidates, Expected
<1>3. \A r \in Expected(k, x, i) : Persisted(k, r) => r \in rows[k]
  BY SameRow
<1>4. Missing(k, x, i) = {r \in Expected(k, x, i) : ~Persisted(k, r)}
  BY <1>2 DEF Missing
<1> QED
  BY <1>3, <1>4

\* The sheets, the log and the cursor stay right when no worker touches them
LEMMA RowsUntouched ==
  ASSUME Typed, RowsRight, Logs, twice = {}, history' = history, UNCHANGED sheetVars,
         (control').export = control.export, (control').source = control.source,
         atStart' = atStart
  PROVE  RowsRight' /\ Logs' /\ twice' = {}
<1>1. rows' = rows /\ logged' = logged /\ twice' = twice
  BY DEF sheetVars
<1>2. \A k, x, i : Expected(k, x, i)' = Expected(k, x, i)
  BY ExpectedKept
<1>3. \A x, i : Passed(x, i)' = Passed(x, i)
  BY DEF Passed
<1>4. \A x, i : Complete(x, i)' = Complete(x, i)
  BY <1>1, <1>2 DEF Complete
<1> QED
  BY <1>1, <1>2, <1>3, <1>4 DEF RowsRight, Logs

\* What another worker found stays right, too
LEMMA FoundKept ==
  ASSUME Typed, NEW f \in Execs, FoundRight(f), LogRight(f), history' = history,
         UNCHANGED sheetVars, pc'[f] = pc[f], (job')[f] = job[f]
  PROVE  (FoundRight(f) /\ LogRight(f))'
<1>1. rows' = rows /\ logged' = logged
  BY DEF sheetVars
<1>2. \A k, x, i : Expected(k, x, i)' = Expected(k, x, i)
  BY ExpectedKept
<1>3. \A x, i : Complete(x, i)' = Complete(x, i)
  BY <1>1, <1>2 DEF Complete
<1>4. \A k, r : Persisted(k, r)' = Persisted(k, r)
  BY <1>1 DEF Persisted
<1>5. FoundRight(f)'
  BY <1>1, <1>2, <1>4 DEF FoundRight
<1>6. LogRight(f)'
  BY <1>1, <1>3 DEF LogRight
<1> QED
  BY <1>5, <1>6

\* A worker that reads the workbook finds what is missing
LEMMA LoadRight ==
  ASSUME Typed, Leased, AtCursor, RowsInv, ~overlap, NEW e \in Execs, Load(e)
  PROVE  (FoundRight(e) /\ LogRight(e))'
<1> DEFINE x == job[e].export
           i == job[e].source + 1
<1>0. /\ TypeOK /\ RowsRight /\ Logs /\ pc \in [Execs -> Pcs] /\ job \in [Execs -> JobType]
      /\ job[e] \in JobType /\ x \in 1..(Exports + 1) /\ job[e].source \in 0..Sources
  BY JobFields DEF Typed, TypeOK, RowsInv
<1>1. CASE x <= Exports /\ i <= known[x]
  <2>1. x \in 1..Exports /\ i \in 1..Sources
    <3>1. x \in 1..Exports
      BY <1>0, <1>1, Sizes
    <3>2. known[x] \in 0..Sources
      BY <1>0, <3>1 DEF TypeOK
    <3> QED
      BY <1>0, <1>1, <3>1, <3>2, Sizes
  <2>2. x = control.export /\ job[e].source = control.source
    <3>1. pc[e] = "replay"
      BY DEF Load
    <3>2. Mine(e)
      BY <3>1, PcNames DEF Leased, Held
    <3> QED
      BY <3>1, <3>2 DEF AtCursor, Read, SourcePcs
  <2>3. \A j \in 1..(i - 1) : Complete(x, j)
    <3>1. ASSUME NEW j \in 1..(i - 1)
          PROVE  j \in 1..Sources /\ Passed(x, j)
      BY <1>0, <2>2, Sizes DEF Passed
    <3> QED
      BY <1>0, <2>1, <3>1 DEF Logs
  <2> DEFINE c == [k \in Sheets |-> Missing(k, x, i)]
  <2>4. job' = [job EXCEPT ![e] = [job[e] EXCEPT !.next = <<x, i>>, !.sheet = "snapshot",
                                     !.found = c]]
    BY <1>0, <1>1 DEF Load
  <2> HIDE DEF x, i, c
  <2>5. (job')[e].next = <<x, i>> /\ (job')[e].sheet = "snapshot" /\ (job')[e].found = c
    BY <1>0, <2>4 DEF JobType
  <2>6. pc'[e] = "append" /\ UNCHANGED <<history, rows>>
    BY <1>0, <1>1 DEF Load, Goto, sourceVars, sheetVars, x, i
  <2>7. \A k \in Sheets :
          /\ c[k] \subseteq Expected(k, x, i) /\ Expected(k, x, i) \subseteq rows[k] \union c[k]
          /\ \A r \in c[k] : ~Persisted(k, r)
    BY <1>0, <2>1, <2>3, MissingRight DEF c
  <2>8. \A k, y, j : Expected(k, y, j)' = Expected(k, y, j)
    BY <2>6, ExpectedKept
  <2>9. \A k, r : Persisted(k, r)' = Persisted(k, r)
    BY <2>6 DEF Persisted
  <2>10. Pending("snapshot") = Sheets
    BY DEF Pending
  <2>11. FoundRight(e)'
    BY <2>5, <2>6, <2>7, <2>8, <2>9, <2>10 DEF FoundRight
  <2>12. LogRight(e)'
    BY <2>6 DEF LogRight
  <2> QED
    BY <2>11, <2>12
<1>2. CASE ~(x <= Exports /\ i <= known[x])
  <2>1. pc'[e] = "checkpoint"
    BY <1>0, <1>2 DEF Load, Goto
  <2>2. \E y : job' = [job EXCEPT ![e] = [job[e] EXCEPT !.next = <<y, 0>>]]
    BY <1>0, <1>2 DEF Load
  <2>3. (job')[e].next[2] = 0
    BY <1>0, <2>2 DEF JobType
  <2> QED
    BY <2>1, <2>3 DEF FoundRight, LogRight
<1> QED
  BY <1>1, <1>2

\* A worker that appends adds what is missing, and nothing that is there
LEMMA AppendRight ==
  ASSUME Typed, RowsInv, ~overlap, NEW e \in Execs, AppendRows(e)
  PROVE  /\ RowsRight' /\ twice' = {} /\ \A k \in Sheets : rows[k] \subseteq (rows')[k]
         /\ (FoundRight(e) /\ LogRight(e))'
<1> DEFINE sheet == job[e].sheet
           found == job[e].found[sheet]
           x == job[e].next[1]
           i == job[e].next[2]
<1>0. /\ TypeOK /\ RowsRight /\ twice = {} /\ FoundRight(e) /\ pc[e] = "write"
      /\ pc \in [Execs -> Pcs] /\ job \in [Execs -> JobType] /\ job[e] \in JobType
      /\ rows \in CellType /\ sheet \in Sheets /\ job[e].under = {}
  BY JobFields DEF Typed, TypeOK, RowsInv, FoundRight, AppendRows
<1>1. /\ rows' = [rows EXCEPT ![sheet] = rows[sheet] \union found]
      /\ twice' = {r \in found : \E s \in rows[sheet] : SameId(sheet, r, s)}
  <2>1. PICK over \in SUBSET job[e].under :
          /\ rows' = [rows EXCEPT ![sheet] = (rows[sheet] \ over) \union found]
          /\ twice' = twice \union
               {r \in found : \E s \in rows[sheet] \ over : SameId(sheet, r, s)}
    BY <1>0 DEF AppendRows
  <2>2. over = {}
    BY <1>0, <2>1
  <2>3. rows[sheet] \ over = rows[sheet]
    BY <2>2
  <2> QED
    BY <1>0, <2>1, <2>3
<1>2. /\ job' [e] = [job[e] EXCEPT !.under = {}, !.sheet = NextSheet[sheet]]
      /\ pc'[e] = AfterSheet[sheet] /\ UNCHANGED history
  BY <1>0 DEF AppendRows, Goto, sourceVars
<1>3. /\ (job')[e].next = job[e].next /\ (job')[e].found = job[e].found
      /\ (job')[e].sheet = NextSheet[sheet]
  BY <1>0, <1>2 DEF JobType
<1>4. /\ sheet \in Pending(sheet)
      /\ AfterSheet[sheet] \in {"append", "verify"}
      /\ AfterSheet[sheet] = "append" =>
           Pending(NextSheet[sheet]) \subseteq Pending(sheet) \ {sheet}
      /\ Pending(sheet) \subseteq Sheets
  BY <1>0 DEF Sheets, Pending, AfterSheet, NextSheet
<1>5. /\ \A k \in Sheets : /\ job[e].found[k] \subseteq Expected(k, x, i)
                           /\ Expected(k, x, i) \subseteq rows[k] \union job[e].found[k]
      /\ \A k \in Pending(sheet) : \A r \in job[e].found[k] : ~Persisted(k, r)
  BY <1>0 DEF FoundRight
<1>6. \A k, y, j : Expected(k, y, j)' = Expected(k, y, j)
  BY <1>2, ExpectedKept
<1>7. twice' = {}
  BY <1>1, <1>4, <1>5 DEF Persisted
<1> HIDE DEF x, i
<1>8. \A k \in Sheets : (rows')[k] = IF k = sheet THEN rows[k] \union found ELSE rows[k]
  BY <1>0, <1>1 DEF CellType
<1>9. RowsRight'
  <2>1. ASSUME NEW k \in Sheets, NEW r \in (rows')[k]
        PROVE  r \in Expected(k, r.export, r.source)
    <3>1. CASE r \in rows[k]
      BY <1>0, <3>1 DEF RowsRight
    <3>2. CASE r \in found /\ k = sheet
      <4>1. r \in Expected(k, x, i)
        BY <1>5, <3>2
      <4>2. r.export = x /\ r.source = i
        BY <4>1 DEF Expected
      <4> QED
        BY <4>1, <4>2
    <3> QED
      BY <1>8, <3>1, <3>2
  <2> QED
    BY <1>6, <2>1 DEF RowsRight
<1>10. FoundRight(e)'
  <2>1. \A k \in Sheets : Expected(k, x, i) \subseteq (rows')[k] \union job[e].found[k]
    BY <1>5, <1>8
  <2>2. ASSUME NEW k \in Sheets, k # sheet, NEW r
        PROVE  Persisted(k, r)' = Persisted(k, r)
    BY <1>8, <2>2 DEF Persisted
  <2>3. ASSUME AfterSheet[sheet] = "append", NEW k \in Pending(NextSheet[sheet]),
               NEW r \in job[e].found[k]
        PROVE  ~Persisted(k, r)'
    BY <1>4, <1>5, <2>2, <2>3
  <2>4. pc'[e] # "write"
    BY <1>2, <1>4
  <2> QED
    BY <1>2, <1>3, <1>4, <1>5, <1>6, <2>1, <2>3, <2>4 DEF FoundRight, x, i
<1>11. LogRight(e)'
  BY <1>2, <1>4 DEF LogRight
<1> QED
  BY <1>7, <1>8, <1>9, <1>10, <1>11

\* The worker in a source finds, appends, verifies, logs and passes what is right
LEMMA RowsOwn ==
  ASSUME Typed, Leased, AtCursor, RowsInv, ~overlap, NEW e \in Execs, Works(e), ~AppendLog(e)
  PROVE  (FoundRight(e) /\ LogRight(e))'
<1> DEFINE Inside == {"append", "write", "verify", "log", "checkpoint"}
<1>0. /\ TypeOK /\ RowsRight /\ pc \in [Execs -> Pcs] /\ job \in [Execs -> JobType]
      /\ job[e] \in JobType /\ FoundRight(e) /\ LogRight(e)
  BY DEF Typed, TypeOK, RowsInv
<1>1. CASE pc'[e] \notin Inside
  BY <1>1 DEF FoundRight, LogRight
<1>2. CASE Load(e)
  BY <1>2, LoadRight
<1>3. CASE AppendRows(e)
  BY <1>3, AppendRight
<1>4. CASE FindLastRow(e)
  <2> DEFINE sheet == job[e].sheet
  <2>0. pc[e] = "append" /\ UNCHANGED <<history, rows>>
    BY <1>4 DEF FindLastRow, sourceVars, sheetVars
  <2>1. \A k, y, j : Expected(k, y, j)' = Expected(k, y, j)
    BY <2>0, ExpectedKept
  <2>2. \A k, r : Persisted(k, r)' = Persisted(k, r)
    BY <2>0 DEF Persisted
  <2>3. CASE job[e].found[sheet] # {}
    <3>1. job' = [job EXCEPT ![e] = [job[e] EXCEPT !.under = {}]] /\ pc'[e] = "write"
      BY <1>0, <1>4, <2>3 DEF FindLastRow, Goto
    <3>2. /\ (job')[e].next = job[e].next /\ (job')[e].found = job[e].found
          /\ (job')[e].sheet = sheet /\ (job')[e].under = {}
      BY <1>0, <3>1 DEF JobType
    <3>3. FoundRight(e)'
      BY <1>0, <2>0, <2>1, <2>2, <3>1, <3>2 DEF FoundRight
    <3> QED
      BY <3>1, <3>3 DEF LogRight
  <2>4. CASE ~(job[e].found[sheet] # {})
    <3>1. /\ job' = [job EXCEPT ![e] = [job[e] EXCEPT !.sheet = NextSheet[sheet]]]
          /\ pc'[e] = AfterSheet[sheet]
      BY <1>0, <1>4, <2>4 DEF FindLastRow, Goto
    <3>2. /\ (job')[e].next = job[e].next /\ (job')[e].found = job[e].found
          /\ (job')[e].sheet = NextSheet[sheet]
      BY <1>0, <3>1 DEF JobType
    <3>3. /\ AfterSheet[sheet] \in {"append", "verify"}
          /\ AfterSheet[sheet] = "append" => Pending(NextSheet[sheet]) \subseteq Pending(sheet)
      BY <1>0, JobFields DEF Sheets, Pending, AfterSheet, NextSheet
    <3>4. FoundRight(e)'
      BY <1>0, <2>0, <2>1, <2>2, <3>1, <3>2, <3>3 DEF FoundRight
    <3> QED
      BY <3>1, <3>3, <3>4 DEF LogRight
  <2> QED
    BY <2>3, <2>4
<1>5. CASE AssertPersisted(e) /\ pc'[e] = "log"
  <2> DEFINE x == job[e].next[1]
             i == job[e].next[2]
  <2>0. pc[e] = "verify" /\ UNCHANGED <<history, rows, job>>
    BY <1>5 DEF AssertPersisted, Move, sourceVars, sheetVars
  <2>1. \A k \in Sheets : \A r \in job[e].found[k] : Persisted(k, r)
    BY <1>0, <1>5 DEF AssertPersisted, Move, Goto
  <2>2. \A k \in Sheets : Expected(k, x, i) \subseteq rows[k]
    <3>1. ASSUME NEW k \in Sheets, NEW r \in Expected(k, x, i)
          PROVE  r \in rows[k]
      <4>1. r \in rows[k] \/ r \in job[e].found[k]
        BY <1>0, <2>0 DEF FoundRight
      <4>2. r \in job[e].found[k] => Persisted(k, r)
        BY <2>1
      <4> HIDE DEF x, i
      <4> QED
        BY <1>0, <4>1, <4>2, SameRow
    <3> QED
      BY <3>1
  <2>3. \A k, y, j : Expected(k, y, j)' = Expected(k, y, j)
    BY <2>0, ExpectedKept
  <2>4. LogRight(e)'
    BY <1>5, <2>0, <2>2, <2>3 DEF LogRight, Complete
  <2> QED
    BY <1>5, <2>4 DEF FoundRight
<1>6. CASE \/ Operator(e) \/ Fire(e) \/ Watch(e) \/ DeleteTriggers(e) \/ InstallTriggers(e)
           \/ ScheduleWorker(e)
  <2>1. pc'[e] \in {"start_clear", "install", "stop_clear", "claim", "arm", "idle", "release"}
    BY <1>0, <1>6 DEF Operator, Start, Resume, Stop, Fire, Watch, DeleteTriggers,
       InstallTriggers, ScheduleWorker, Goto, Move, End
  <2> QED
    BY <1>1, <2>1
<1>7. CASE \/ (\E w \in Workers : TryClaim(e, w)) \/ ReadControl(e) \/ Leave(e) \/ Heartbeat(e)
           \/ Checkpoint(e) \/ SetErrorState(e) \/ ReleaseLease(e)
  <2>1. pc'[e] \in {"first", "beat", "replay", "idle", "clear", "release", "loop", "error", "arm"}
    BY <1>0, <1>7 DEF TryClaim, ReadControl, Leave, Heartbeat, Checkpoint, Passing,
       SetErrorState, ReleaseLease, Goto, Move, End
  <2> QED
    BY <1>1, <2>1
<1>8. CASE Crash(e) \/ LockTimeout(e) \/ CallFails(e)
  <2>1. pc'[e] \in {"idle", "error", "release"}
    BY <1>0, <1>8 DEF Crash, LockTimeout, CallFails, Goto, Move, End
  <2> QED
    BY <1>1, <2>1
<1>9. CASE AssertPersisted(e) /\ pc'[e] # "log"
  <2>1. pc'[e] = "error"
    BY <1>0, <1>9 DEF AssertPersisted, Move, Goto
  <2> QED
    BY <1>1, <2>1
<1> QED
  BY <1>2, <1>3, <1>4, <1>5, <1>6, <1>7, <1>8, <1>9 DEF Works, Step

\* A step of an execution keeps the rows right
LEMMA RowsWork ==
  ASSUME Typed, Leased, AtCursor, RowsInv, NEW e \in Execs, Works(e)
  PROVE  RowsInv'
<1> SUFFICES ASSUME ~overlap'
             PROVE  (twice = {} /\ RowsRight /\ Logs
                     /\ \A f \in Execs : FoundRight(f) /\ LogRight(f))'
  BY DEF RowsInv
<1>0. /\ TypeOK /\ Room /\ InSource /\ pc \in [Execs -> Pcs] /\ job \in [Execs -> JobType]
      /\ job[e] \in JobType /\ control \in ControlType
  BY DEF Typed, TypeOK
<1>1. ~overlap
  <2>1. CASE Operator(e)
    BY <2>1 DEF Operator, Start, Resume, Stop, Operate
  <2>2. CASE \E w \in Workers : TryClaim(e, w)
    BY <2>2 DEF TryClaim, ghostVars
  <2>3. CASE ~Operator(e) /\ ~(\E w \in Workers : TryClaim(e, w))
    BY <2>3, LeaseMoves
  <2> QED
    BY <2>1, <2>2, <2>3
<1>2. /\ twice = {} /\ RowsRight /\ Logs /\ \A f \in Execs : FoundRight(f) /\ LogRight(f)
  BY <1>1 DEF RowsInv
<1>h. history' = history
  BY <1>0, RestTyped DEF sourceVars
<1>e. \A k, x, i : Expected(k, x, i)' = Expected(k, x, i)
  BY <1>h, ExpectedKept
<1> DEFINE Inside == {"append", "write", "verify", "log", "checkpoint"}
<1>i. Inside \subseteq WorkerPcs
  BY PcNames
<1>3. CASE AppendRows(e)
  <2>1. /\ RowsRight' /\ twice' = {} /\ \A k \in Sheets : rows[k] \subseteq (rows')[k]
        /\ (FoundRight(e) /\ LogRight(e))'
    BY <1>1, <1>3, AppendRight
  <2>2. logged' = logged /\ pc[e] = "write" /\ UNCHANGED <<control, atStart>>
    BY <1>3 DEF AppendRows, ghostVars
  <2>3. \A x, i : Complete(x, i) => Complete(x, i)'
    BY <1>e, <2>1 DEF Complete
  <2>4. \A x, i : Passed(x, i)' = Passed(x, i)
    BY <2>2 DEF Passed
  <2>5. Logs'
    BY <1>2, <2>2, <2>3, <2>4 DEF Logs
  <2>6. ASSUME NEW f \in Execs, f # e
        PROVE  pc'[f] \notin Inside
    <3>1. pc[f] \notin WorkerPcs
      BY <1>1, <1>i, <2>2, <2>6, Alone
    <3>2. pc'[f] = pc[f]
      BY <1>0, <2>6, OthersKept
    <3> QED
      BY <3>1, <3>2, <1>i
  <2>7. \A f \in Execs : (FoundRight(f) /\ LogRight(f))'
    BY <2>1, <2>6 DEF FoundRight, LogRight
  <2> QED
    BY <2>1, <2>5, <2>7
<1>4. CASE AppendLog(e)
  <2>1. /\ logged' = logged \union {job[e].next} /\ pc[e] = "log" /\ pc'[e] = "checkpoint"
        /\ UNCHANGED <<control, atStart, rows, twice, job>>
    BY <1>0, <1>4 DEF AppendLog, Move, Goto, ghostVars
  <2>2. \A x, i : Complete(x, i)' = Complete(x, i)
    BY <1>e, <2>1 DEF Complete
  <2>3. \A x, i : Passed(x, i)' = Passed(x, i)
    BY <2>1 DEF Passed
  <2>4. RowsRight'
    BY <1>2, <1>e, <2>1 DEF RowsRight
  <2>5. Logs'
    <3>1. Complete(job[e].next[1], job[e].next[2])
      BY <1>2, <2>1 DEF LogRight
    <3>2. job[e].next = <<job[e].next[1], job[e].next[2]>>
      BY <1>0, JobFields
    <3>3. ASSUME NEW x \in 1..Exports, NEW i \in 1..Sources, <<x, i>> \in logged'
          PROVE  Complete(x, i)
      <4>1. CASE <<x, i>> \in logged
        BY <1>2, <4>1 DEF Logs
      <4>2. CASE <<x, i>> = job[e].next
        BY <3>1, <4>2
      <4> QED
        BY <2>1, <3>3, <4>1, <4>2
    <3>4. \A x \in 1..Exports, i \in 1..Sources : Passed(x, i) => <<x, i>> \in logged'
      BY <1>2, <2>1 DEF Logs
    <3> QED
      BY <2>2, <2>3, <3>3, <3>4 DEF Logs
  <2>6. ASSUME NEW f \in Execs, f # e
        PROVE  pc'[f] \notin Inside
    <3>1. pc[f] \notin WorkerPcs
      BY <1>1, <1>i, <2>1, <2>6, Alone
    <3>2. pc'[f] = pc[f]
      BY <1>0, <2>6, OthersKept
    <3> QED
      BY <3>1, <3>2, <1>i
  <2>7. (FoundRight(e) /\ LogRight(e))'
    BY <2>1 DEF FoundRight, LogRight
  <2>8. \A f \in Execs : (FoundRight(f) /\ LogRight(f))'
    BY <2>6, <2>7 DEF FoundRight, LogRight
  <2> QED
    BY <1>2, <2>1, <2>4, <2>5, <2>8
<1>5. CASE ~AppendRows(e) /\ ~AppendLog(e)
  <2>0. UNCHANGED sheetVars /\ rows' = rows /\ logged' = logged /\ twice' = twice
    BY <1>5, SheetsKept DEF sheetVars
  <2>1. ASSUME NEW f \in Execs
        PROVE  (FoundRight(f) /\ LogRight(f))'
    <3>1. CASE f = e
      BY <1>1, <1>5, <3>1, RowsOwn
    <3>2. CASE f # e
      <4>1. pc'[f] = pc[f] /\ (job')[f] = job[f]
        BY <1>0, <1>5, <3>2, OthersKept
      <4> QED
        BY <1>2, <1>h, <2>0, <4>1, FoundKept
    <3> QED
      BY <3>1, <3>2
  <2>2. CASE Start(e)
    <3>1. (control').export = 1 /\ (control').source = 0 /\ (atStart') = known
      BY <2>2 DEF Start
    <3>2. \A x \in 1..Exports, i \in 1..Sources : ~Passed(x, i)'
      BY <3>1, Sizes DEF Passed
    <3>3. \A x, i : Complete(x, i)' = Complete(x, i)
      BY <1>e, <2>0 DEF Complete
    <3>4. RowsRight' /\ Logs'
      BY <1>2, <1>e, <2>0, <3>2, <3>3 DEF RowsRight, Logs
    <3> QED
      BY <1>2, <2>0, <2>1, <3>4
  <2>3. CASE Checkpoint(e) /\ Mine(e)
    <3>1. /\ NextOne(e) /\ job[e].export = control.export /\ job[e].source = control.source
          /\ pc[e] = "checkpoint"
      BY <2>3 DEF Checkpoint, AtCursor, Passes, Read, SourcePcs
    <3>2. /\ (control').export = job[e].next[1] /\ (control').source = job[e].next[2]
          /\ atStart' = atStart
      BY <1>0, <2>3 DEF Checkpoint, Passing, ControlType, ghostVars
    <3>3. control.export \in 1..(Exports + 1) /\ control.source \in 0..Sources
      BY <1>0 DEF ControlType
    <3>4. ASSUME NEW x \in 1..Exports, NEW i \in 1..Sources, Passed(x, i)'
          PROVE  <<x, i>> \in logged
      <4>1. CASE job[e].next = <<control.export, control.source + 1>>
        <5>1. Passed(x, i) \/ <<x, i>> = job[e].next
          BY <3>2, <3>3, <3>4, <4>1, Sizes DEF Passed
        <5>2. job[e].next \in logged
          BY <1>2, <3>1, <3>3, <4>1 DEF LogRight
        <5> QED
          BY <1>2, <5>1, <5>2 DEF Logs
      <4>2. CASE /\ control.export <= Exports /\ control.source >= atStart[control.export]
                 /\ job[e].next = <<control.export + 1, 0>>
        <5>1. control.export \in 1..Exports
          BY <3>3, <4>2, Sizes
        <5>2. atStart[control.export] \in 0..Sources
          BY <1>0, <5>1 DEF TypeOK
        <5>3. x < control.export + 1 /\ i <= atStart[x]
          BY <3>2, <3>4, <4>2, Sizes DEF Passed
        <5>4. x = control.export => i <= control.source
          BY <3>3, <4>2, <5>2, <5>3, Sizes
        <5>5. Passed(x, i)
          BY <3>3, <5>3, <5>4, Sizes DEF Passed
        <5> QED
          BY <1>2, <5>5 DEF Logs
      <4>3. CASE control.export > Exports /\ job[e].next = <<control.export, 0>>
        <5>1. Passed(x, i)
          BY <3>2, <3>3, <3>4, <4>3, Sizes DEF Passed
        <5> QED
          BY <1>2, <5>1 DEF Logs
      <4> QED
        BY <3>1, <4>1, <4>2, <4>3 DEF NextOne
    <3>5. \A x, i : Complete(x, i)' = Complete(x, i)
      BY <1>e, <2>0 DEF Complete
    <3>6. RowsRight' /\ Logs'
      BY <1>2, <1>e, <2>0, <3>4, <3>5 DEF RowsRight, Logs
    <3> QED
      BY <1>2, <2>0, <2>1, <3>6
  <2>4. CASE ~Start(e) /\ ~(Checkpoint(e) /\ Mine(e))
    <3>1. /\ (control').export = control.export /\ (control').source = control.source
          /\ atStart' = atStart
      BY <2>4, CursorKept
    <3>2. RowsRight' /\ Logs' /\ twice' = {}
      BY <1>2, <1>h, <2>0, <3>1, RowsUntouched
    <3> QED
      BY <2>1, <3>2
  <2> QED
    BY <2>2, <2>3, <2>4
<1> QED
  BY <1>3, <1>4, <1>5

\* Every step keeps the rows right
LEMMA RowsStep ==
  ASSUME Typed, Leased, AtCursor, RowsInv, [Next]_vars
  PROVE  RowsInv'
<1>1. CASE \E e \in Execs : Works(e)
  BY <1>1, RowsWork
<1>2. CASE ExpireLease \/ (\E x \in 1..Exports : Register(x)) \/ UNCHANGED vars
  <2>0. control \in ControlType
    BY DEF Typed, TypeOK
  <2>1. /\ UNCHANGED <<history, sheetVars, pc, job, atStart>>
        /\ control' = control \/ control' = [control EXCEPT !.live = FALSE]
        /\ overlap' \/ overlap' = overlap
    BY <1>2 DEF ExpireLease, Register, vars, sourceVars, ghostVars
  <2>2. (control').export = control.export /\ (control').source = control.source
    BY <2>0, <2>1 DEF ControlType
  <2>3. ASSUME ~overlap'
        PROVE  /\ twice' = {} /\ RowsRight' /\ Logs'
               /\ \A e \in Execs : (FoundRight(e) /\ LogRight(e))'
    <3>1. /\ twice = {} /\ RowsRight /\ Logs /\ \A e \in Execs : FoundRight(e) /\ LogRight(e)
      BY <2>1, <2>3 DEF RowsInv
    <3>2. RowsRight' /\ Logs' /\ twice' = {}
      BY <2>1, <2>2, <3>1, RowsUntouched
    <3>3. \A e \in Execs : (FoundRight(e) /\ LogRight(e))'
      BY <2>1, <3>1, FoundKept
    <3> QED
      BY <3>2, <3>3
  <2> QED
    BY <2>3 DEF RowsInv
<1> QED
  BY <1>1, <1>2 DEF Next, Works

\* The rows are right at first
LEMMA RowsInit == ASSUME Init PROVE RowsInv
<1>1. /\ \A k \in Sheets : rows[k] = {}
      /\ twice = {} /\ logged = {} /\ \A e \in Execs : pc[e] = "idle"
      /\ control.export = 1 /\ control.source = 0
  BY DEF Init
<1>2. \A x \in 1..Exports, i \in 1..Sources : ~Passed(x, i)
  BY <1>1, Sizes DEF Passed
<1>3. RowsRight /\ Logs
  BY <1>1, <1>2 DEF RowsRight, Logs
<1>4. \A e \in Execs : FoundRight(e) /\ LogRight(e)
  BY <1>1 DEF FoundRight, LogRight
<1> QED
  BY <1>1, <1>3, <1>4 DEF RowsInv

\* The rows are right, for any number of sources and entities
THEOREM RowsInvariant == Spec => []RowsInv
<1>1. Typed /\ (Leased /\ AtCursor) /\ RowsInv /\ [Next]_vars => RowsInv'
  BY RowsStep
<1> QED
  BY <1>1, RowsInit, CursorInvariant, TypedInvariant, PTL DEF Spec

\* RowsBacked: what the cursor has passed is logged, and what is logged has all its rows
THEOREM RowsBackedCorrect == Spec => []RowsBacked
<1>1. RowsInv => RowsBacked
  BY DEF RowsInv, Logs, RowsBacked
<1> QED
  BY <1>1, RowsInvariant, PTL

\* RowsFaithful: no row is appended twice, and every row is one the history calls for
THEOREM RowsFaithfulCorrect == Spec => []RowsFaithful
<1>1. RowsInv => RowsFaithful
  BY DEF RowsInv, RowsRight, RowsFaithful
<1> QED
  BY <1>1, RowsInvariant, PTL
=============================================================================
