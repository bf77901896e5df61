------------------------- MODULE WorkbookWriteProofs ------------------------
(***************************************************************************)
(* Proofs about WorkbookWrite for every number of executions, sheets,      *)
(* mutations, polls and exports, and every set of hazards: the lease       *)
(* excludes, a worker without its claim makes at most one change, it never *)
(* writes over a newer worker, and a backup follows all its sheets.        *)
(***************************************************************************)
EXTENDS WorkbookWrite, TLAPS

-----------------------------------------------------------------------------
(* The inductive invariant *)

\* Exports are numbered in order and belong to one execution; a worker token is the
\* number of the export it stands behind, and the claim, if any, is the newest token.
Numbered ==
  /\ \A e \in Execs : job[e].export <= lastExport /\ job[e].worker \in {0, job[e].export}
  /\ \A e \in Execs : job[e].worker <= lastWorker
  /\ \A e, f \in Execs : job[e].export # 0 /\ job[e].export = job[f].export => e = f
  /\ \A s \in Sheets : sheets[s].worker <= lastWorker
  /\ claim \in {0, lastWorker}

\* A writing execution holds the lease
LeaseHeld == \A e \in Execs : Writing(e) => lease = Token(e)

\* A change without the claim is the last: the claim does not come back, so the next
\* boundary fails, or the export was at its end.
LateIsLast ==
  \A e \in Execs : /\ job[e].late <= 1
                   /\ job[e].late = 1 =>
                        /\ job[e].worker # 0 /\ claim # job[e].worker
                        /\ \/ pc[e] = "check"
                           \/ pc[e] = "release" /\ (job[e].failed \/ job[e].done = Sheets)

\* A worker past its boundary has found nothing of a newer worker in the workbook
NothingNewer ==
  \A e \in Execs : pc[e] \in {"mutate", "complete"} /\ job[e].worker # 0 =>
    \A s \in Sheets : sheets[s].worker <= job[e].worker

\* What an execution counts as done was written to the end
DoneWritten ==
  \A e \in Execs :
    /\ \A s \in job[e].done : [export |-> job[e].export, sheet |-> s] \in written
    /\ pc[e] = "wait" => job[e].step = 0
    /\ pc[e] = "check" /\ job[e].step = M => Token(e) \in written
    /\ pc[e] = "complete" => job[e].step = M /\ Token(e) \in written

\* The sheet at hand stands as the mutations done of it left it
SheetAtHand ==
  \A e \in Execs : Writing(e) /\ job[e].step > 0 =>
    /\ sheets[job[e].sheet].by = job[e].export
    /\ sheets[job[e].sheet].steps = job[e].step

IInv ==
  /\ TypeOK /\ Numbered /\ LeaseHeld /\ LateIsLast /\ NothingNewer
  /\ DoneWritten /\ SheetAtHand /\ BackupAfterAllSheets /\ LastSheetWhole

-----------------------------------------------------------------------------
(* Reading the state *)

\* The fields of the local variables
LEMMA JobFields ==
  ASSUME NEW j \in JobType
  PROVE  /\ j.export \in 0..MaxExports /\ j.worker \in 0..MaxExports
         /\ j.sheet \in 0..S /\ j.step \in 0..M /\ j.polls \in 0..MaxPolls
         /\ j.done \in SUBSET Sheets /\ j.failed \in BOOLEAN /\ j.late \in Nat
BY DEF JobType

\* The local variables of an export that starts
LEMMA JobStarts ==
  /\ NoJob \in JobType
  /\ \A x, w \in 0..MaxExports : Job(x, w) \in JobType
BY WorkbookConstants DEF Job, NoJob, JobType

\* A step of one execution leaves the others where they are
LEMMA OthersKept ==
  ASSUME TypeOK, NEW e \in Execs, Step(e), NEW f \in Execs, f # e
  PROVE  pc'[f] = pc[f] /\ job'[f] = job[f]
BY DEF TypeOK, Step, Progress, StartScheduled, StartManual, Begin, Acquire, Poll, GiveUp,
       Release, Boundary, Mutate, MutateFails, SheetDone, Snapshot, SnapshotFails, Crash,
       Goto, End

\* The updates the actions make to the local variables keep their type
LEMMA JobUpdates ==
  ASSUME NEW j \in JobType
  PROVE  /\ \A s \in Sheets : [j EXCEPT !.sheet = s, !.step = 0, !.polls = 0] \in JobType
         /\ \A p \in 0..MaxPolls : [j EXCEPT !.polls = p] \in JobType
         /\ [j EXCEPT !.failed = TRUE] \in JobType
         /\ \A k \in 0..M, n \in Nat : [j EXCEPT !.step = k, !.late = n] \in JobType
         /\ \A n \in Nat : [j EXCEPT !.failed = TRUE, !.late = n] \in JobType
         /\ \A d \in SUBSET Sheets : [j EXCEPT !.done = d] \in JobType
         /\ \A d \in SUBSET Sheets, n \in Nat : [j EXCEPT !.done = d, !.late = n] \in JobType
<1>1. 0 \in 0..M /\ 0 \in 0..MaxPolls /\ Sheets \subseteq 0..S
  BY WorkbookConstants DEF Sheets
<1>2. /\ \A s \in Sheets : [j EXCEPT !.sheet = s, !.step = 0, !.polls = 0] \in JobType
      /\ \A p \in 0..MaxPolls : [j EXCEPT !.polls = p] \in JobType
  BY <1>1 DEF JobType
<1>3. /\ [j EXCEPT !.failed = TRUE] \in JobType
      /\ \A n \in Nat : [j EXCEPT !.failed = TRUE, !.late = n] \in JobType
  BY DEF JobType
<1>4. \A k \in 0..M, n \in Nat : [j EXCEPT !.step = k, !.late = n] \in JobType
  BY DEF JobType
<1>5. /\ \A d \in SUBSET Sheets : [j EXCEPT !.done = d] \in JobType
      /\ \A d \in SUBSET Sheets, n \in Nat : [j EXCEPT !.done = d, !.late = n] \in JobType
  BY DEF JobType
<1> QED
  BY <1>2, <1>3, <1>4, <1>5

\* The local variables keep their type
LEMMA JobTyped ==
  ASSUME TypeOK, NEW e \in Execs, Step(e)
  PROVE  job' \in [Execs -> JobType]
<1> SUFFICES \E j \in JobType : job' = [job EXCEPT ![e] = j]
  BY DEF TypeOK
<1> DEFINE j == job[e]
<1>0. j \in JobType /\ job = [job EXCEPT ![e] = j]
  BY DEF TypeOK
<1>a. j.late + Late(e) \in Nat
  BY <1>0, JobFields DEF Late
<1>1. CASE StartScheduled(e) \/ StartManual(e)
  <2>1. lastExport + 1 \in 0..MaxExports /\ 0 \in 0..MaxExports
    BY <1>1, WorkbookConstants DEF StartScheduled, StartManual, TypeOK
  <2> QED
    BY <1>1, <2>1, JobStarts DEF StartScheduled, StartManual
<1>2. CASE Begin(e)
  <2>1. PICK s \in Sheets : job' = [job EXCEPT ![e] = [j EXCEPT !.sheet = s, !.step = 0, !.polls = 0]]
    BY <1>2 DEF Begin
  <2> QED
    BY <1>0, <2>1, JobUpdates
<1>3. CASE Poll(e)
  <2>1. j.polls + 1 \in 0..MaxPolls
    BY <1>0, <1>3, JobFields, WorkbookConstants DEF Poll
  <2> QED
    BY <1>0, <1>3, <2>1, JobUpdates DEF Poll
<1>4. CASE Boundary(e)
  BY <1>0, <1>4, JobUpdates DEF Boundary
<1>5. CASE Mutate(e)
  <2>1. j.step + 1 \in 0..M
    BY <1>0, <1>5, JobFields, WorkbookConstants DEF Mutate, TypeOK
  <2>2. [j EXCEPT !.step = j.step + 1, !.late = j.late + Late(e)] \in JobType
    BY <1>0, <1>a, <2>1, JobUpdates
  <2>3. job' = [job EXCEPT ![e] = [j EXCEPT !.step = j.step + 1, !.late = j.late + Late(e)]]
    BY <1>5 DEF Mutate
  <2> QED
    BY <2>2, <2>3
<1>6. CASE MutateFails(e) \/ SnapshotFails(e)
  <2>1. [j EXCEPT !.failed = TRUE, !.late = j.late + Late(e)] \in JobType
    BY <1>0, <1>a, JobUpdates
  <2>2. job' = [job EXCEPT ![e] = [j EXCEPT !.failed = TRUE, !.late = j.late + Late(e)]]
    BY <1>6 DEF MutateFails, SnapshotFails
  <2> QED
    BY <2>1, <2>2
<1>7. CASE SheetDone(e) \/ Snapshot(e)
  <2>1. j.done \union {j.sheet} \in SUBSET Sheets
    BY <1>0, <1>7, JobFields DEF SheetDone, Snapshot, TypeOK
  <2>2. /\ [j EXCEPT !.done = j.done \union {j.sheet}] \in JobType
        /\ [j EXCEPT !.done = j.done \union {j.sheet}, !.late = j.late + Late(e)] \in JobType
    BY <1>0, <1>a, <2>1, JobUpdates
  <2>3. \/ job' = [job EXCEPT ![e] = [j EXCEPT !.done = j.done \union {j.sheet}]]
        \/ job' = [job EXCEPT ![e] =
                      [j EXCEPT !.done = j.done \union {j.sheet}, !.late = j.late + Late(e)]]
    BY <1>7 DEF SheetDone, Snapshot
  <2> QED
    BY <2>2, <2>3
<1>8. CASE GiveUp(e) \/ Release(e) \/ Crash(e)
  BY <1>0, <1>8, JobStarts DEF GiveUp, Release, Crash, End
<1>9. CASE Acquire(e)
  BY <1>0, <1>9 DEF Acquire
<1> QED
  BY <1>1, <1>2, <1>3, <1>4, <1>5, <1>6, <1>7, <1>8, <1>9 DEF Step, Progress

\* An execution that has ended is idle and has no export
LEMMA Ended ==
  ASSUME TypeOK, NEW e \in Execs, End(e)
  PROVE  /\ pc'[e] = "idle" /\ job'[e].export = 0 /\ job'[e].worker = 0
         /\ job'[e].late = 0 /\ job'[e].done = {}
BY DEF End, Goto, NoJob, Job, TypeOK

\* An execution that starts has a fresh export number and nothing done
LEMMA Started ==
  ASSUME TypeOK, NEW e \in Execs, StartScheduled(e) \/ StartManual(e)
  PROVE  /\ pc'[e] = "next" /\ job'[e].export = lastExport + 1 /\ lastExport' = lastExport + 1
         /\ job'[e].late = 0 /\ job'[e].done = {}
         /\ StartScheduled(e) => job'[e].worker = lastExport + 1
         /\ StartManual(e) => job'[e].worker = 0
BY DEF StartScheduled, StartManual, Goto, Job, TypeOK

\* What the other steps do to the local variables, field by field
LEMMA JobEffect ==
  ASSUME TypeOK, NEW e \in Execs
  PROVE  /\ Begin(e) \/ Poll(e) \/ Acquire(e) \/ Boundary(e) \/ SheetDone(e)
              \/ Mutate(e) \/ MutateFails(e) \/ Snapshot(e) \/ SnapshotFails(e)
            => /\ job'[e].export = job[e].export /\ job'[e].worker = job[e].worker
               /\ \/ job'[e].late = job[e].late + Late(e)
                  \/ job'[e].late = job[e].late /\ ~Mutate(e) /\ ~Snapshot(e)
                       /\ ~MutateFails(e) /\ ~SnapshotFails(e)
               /\ ~Begin(e) => job'[e].sheet = job[e].sheet
               /\ ~Begin(e) /\ ~Mutate(e) => job'[e].step = job[e].step
               /\ \/ job'[e].done = job[e].done /\ ~SheetDone(e) /\ ~Snapshot(e)
                  \/ job'[e].done = job[e].done \union {job[e].sheet} /\ pc[e] = "complete"
               /\ MutateFails(e) \/ SnapshotFails(e) => job'[e].failed
         /\ Mutate(e) => job'[e].step = job[e].step + 1
         /\ Begin(e) => job'[e].sheet \in Sheets /\ job'[e].step = 0
         /\ Boundary(e) /\ pc'[e] = "release" => job'[e].failed
         /\ Boundary(e) => \/ pc'[e] = "release"
                           \/ BoundaryHolds(e) /\ pc'[e] = "mutate" /\ job[e].step < M
                           \/ BoundaryHolds(e) /\ pc'[e] = "complete" /\ ~(job[e].step < M)
         /\ Boundary(e) => pc[e] = "check"
<1> DEFINE j == job[e]
<1>0. j \in JobType /\ job \in [Execs -> JobType] /\ pc \in [Execs -> Pcs]
  BY DEF TypeOK
<1>1. ASSUME Begin(e)
      PROVE  /\ j' = [j EXCEPT !.sheet = j'.sheet, !.step = 0, !.polls = 0]
             /\ j'.sheet \in Sheets
  BY <1>0, <1>1 DEF Begin, JobType
<1>2. Poll(e) => j' = [j EXCEPT !.polls = @ + 1]
  BY <1>0 DEF Poll
<1>3. Acquire(e) => j' = j
  BY <1>0 DEF Acquire
<1>4. Boundary(e) => /\ pc[e] = "check"
                     /\ \/ pc'[e] = "release" /\ j' = [j EXCEPT !.failed = TRUE]
                        \/ BoundaryHolds(e) /\ j' = j /\ pc'[e] = "mutate" /\ j.step < M
                        \/ BoundaryHolds(e) /\ j' = j /\ pc'[e] = "complete" /\ ~(j.step < M)
  BY <1>0 DEF Boundary, Goto
<1>5. SheetDone(e) => j' = [j EXCEPT !.done = @ \union {j.sheet}] /\ pc[e] = "complete"
  BY <1>0 DEF SheetDone
<1>6. Snapshot(e) => /\ j' = [j EXCEPT !.done = @ \union {j.sheet}, !.late = @ + Late(e)]
                     /\ pc[e] = "complete"
  BY <1>0 DEF Snapshot
<1>7. MutateFails(e) \/ SnapshotFails(e) => j' = [j EXCEPT !.failed = TRUE, !.late = @ + Late(e)]
  BY <1>0 DEF MutateFails, SnapshotFails
<1>8. Mutate(e) => j' = [j EXCEPT !.step = @ + 1, !.late = @ + Late(e)]
  BY <1>0 DEF Mutate
<1>9. /\ Begin(e) => pc[e] = "next"
      /\ Poll(e) \/ Acquire(e) => pc[e] = "wait"
      /\ Mutate(e) \/ MutateFails(e) => pc[e] = "mutate"
      /\ Snapshot(e) \/ SnapshotFails(e) \/ SheetDone(e) => pc[e] = "complete"
      /\ SheetDone(e) => pc'[e] = "release"
  BY <1>0 DEF Begin, Poll, Acquire, Mutate, MutateFails, Snapshot, SnapshotFails, SheetDone, Goto
<1> QED
  BY <1>0, <1>1, <1>2, <1>3, <1>4, <1>5, <1>6, <1>7, <1>8, <1>9 DEF JobType

-----------------------------------------------------------------------------
(* How a step can change what is shared *)

\* The names of the steps of an execution, by what they do to its local variables
LEMMA StepKinds ==
  ASSUME NEW e \in Execs, Step(e)
  PROVE  \/ StartScheduled(e) \/ StartManual(e)
         \/ (GiveUp(e) \/ Crash(e) \/ Release(e)) /\ End(e)
         \/ Release(e) /\ UNCHANGED job /\ Goto(e, "next")
         \/ Begin(e) \/ Poll(e) \/ Acquire(e) \/ Boundary(e) \/ SheetDone(e)
         \/ Mutate(e) \/ MutateFails(e) \/ Snapshot(e) \/ SnapshotFails(e)
BY DEF Step, Progress, GiveUp, Crash, Release

\* Where each step finds its execution and where it leaves it
LEMMA Stages ==
  ASSUME TypeOK, NEW e \in Execs
  PROVE  /\ Begin(e) => pc[e] = "next" /\ pc'[e] = "wait"
         /\ Poll(e) => pc[e] = "wait" /\ pc'[e] = "wait"
         /\ Acquire(e) => pc[e] = "wait" /\ pc'[e] = "check" /\ job' = job
         /\ Boundary(e) => pc[e] = "check" /\ UNCHANGED sheets
         /\ Mutate(e) => pc[e] = "mutate" /\ pc'[e] = "check"
         /\ MutateFails(e) => pc[e] = "mutate" /\ pc'[e] = "release"
         /\ SheetDone(e) => pc[e] = "complete" /\ pc'[e] = "release"
         /\ Snapshot(e) \/ SnapshotFails(e) => pc[e] = "complete" /\ pc'[e] = "release"
<1>0. pc \in [Execs -> Pcs]
  BY DEF TypeOK
<1>1. Begin(e) => pc[e] = "next" /\ pc'[e] = "wait"
  BY <1>0 DEF Begin, Goto
<1>2. Poll(e) => pc[e] = "wait" /\ pc'[e] = "wait"
  BY <1>0 DEF Poll
<1>3. Acquire(e) => pc[e] = "wait" /\ pc'[e] = "check" /\ job' = job
  BY <1>0 DEF Acquire, Goto
<1>4. Boundary(e) => pc[e] = "check" /\ UNCHANGED sheets
  BY DEF Boundary, storeVars
<1>5. Mutate(e) => pc[e] = "mutate" /\ pc'[e] = "check"
  BY <1>0 DEF Mutate, Goto
<1>6. MutateFails(e) => pc[e] = "mutate" /\ pc'[e] = "release"
  BY <1>0 DEF MutateFails, Goto
<1>7. SheetDone(e) => pc[e] = "complete" /\ pc'[e] = "release"
  BY <1>0 DEF SheetDone, Goto
<1>8. Snapshot(e) \/ SnapshotFails(e) => pc[e] = "complete" /\ pc'[e] = "release"
  BY <1>0 DEF Snapshot, SnapshotFails, Goto
<1> QED
  BY <1>1, <1>2, <1>3, <1>4, <1>5, <1>6, <1>7, <1>8

\* Only a mutation changes a sheet, under the boundary it passed; only a lease token
\* of its own is stored or deleted; what is written or backed up stays
LEMMA StoreEffect ==
  ASSUME NEW e \in Execs, Step(e)
  PROVE  /\ UNCHANGED sheets \/ Mutate(e) \/ MutateFails(e)
         /\ \/ UNCHANGED lease
            \/ lease = NoLease /\ lease' = Token(e) /\ Acquire(e)
            \/ lease = Token(e) /\ lease' = NoLease /\ Release(e)
         /\ \/ UNCHANGED written
            \/ Mutate(e) /\ job[e].step + 1 = M /\ written' = written \union {Token(e)}
         /\ \/ UNCHANGED backups
            \/ /\ Snapshot(e) \/ SnapshotFails(e)
               /\ backups' = backups \union {[by |-> job[e].export, sheets |-> sheets]}
         /\ UNCHANGED schedVars \/ StartScheduled(e) \/ StartManual(e)
<1> USE DEF Step, Progress
<1>1. UNCHANGED sheets \/ Mutate(e) \/ MutateFails(e)
  BY DEF StartScheduled, StartManual, Begin, Acquire, Poll, GiveUp,
         Release, Boundary, SheetDone, Snapshot, SnapshotFails, Crash, storeVars
<1>2. \/ UNCHANGED lease
      \/ lease = NoLease /\ lease' = Token(e) /\ Acquire(e)
      \/ lease = Token(e) /\ lease' = NoLease /\ Release(e)
  BY DEF StartScheduled, StartManual, Begin, Acquire, Poll, GiveUp, ReleaseLease,
         Release, Boundary, Mutate, MutateFails, SheetDone, Snapshot, SnapshotFails, Crash,
         storeVars
<1>3. \/ UNCHANGED written
      \/ Mutate(e) /\ job[e].step + 1 = M /\ written' = written \union {Token(e)}
  BY DEF StartScheduled, StartManual, Begin, Acquire, Poll, GiveUp, Mutate,
         MutateFails, Release, Boundary, SheetDone, Snapshot, SnapshotFails, Crash, storeVars
<1>4. \/ UNCHANGED backups
      \/ /\ Snapshot(e) \/ SnapshotFails(e)
         /\ backups' = backups \union {[by |-> job[e].export, sheets |-> sheets]}
  BY DEF StartScheduled, StartManual, Begin, Acquire, Poll, GiveUp, Mutate,
         MutateFails, Release, Boundary, SheetDone, Snapshot, SnapshotFails, Crash, storeVars
<1>5. UNCHANGED schedVars \/ StartScheduled(e) \/ StartManual(e)
  BY DEF Begin, Acquire, Poll, GiveUp, Mutate,
         MutateFails, Release, Boundary, SheetDone, Snapshot, SnapshotFails, Crash
<1> QED
  BY <1>1, <1>2, <1>3, <1>4, <1>5

-----------------------------------------------------------------------------
(* Type correctness *)

\* The content a mutation leaves in a sheet is well typed
LEMMA ContentTyped ==
  ASSUME TypeOK, NEW e \in Execs, Mutate(e) \/ MutateFails(e)
  PROVE  sheets' \in [Sheets -> ContentType]
<1>1. job[e] \in JobType /\ job[e].step < M /\ sheets \in [Sheets -> ContentType]
  BY DEF TypeOK, Mutate, MutateFails
<1>2. job[e].step + 1 \in 0..M
  BY <1>1, JobFields, WorkbookConstants
<1>3. /\ Content(job[e].export, job[e].worker, job[e].step + 1) \in ContentType
      /\ Content(job[e].export, job[e].worker, job[e].step) \in ContentType
  BY <1>1, <1>2, JobFields DEF Content, ContentType
<1> QED
  BY <1>1, <1>3 DEF Mutate, MutateFails

\* The stages an execution can be at, and what it has there
LEMMA StageTyped ==
  ASSUME TypeOK, NEW e \in Execs, Step(e)
  PROVE  /\ pc' \in [Execs -> Pcs]
         /\ \A f \in Execs : /\ pc'[f] # "idle" => job'[f].export \in Exports
                             /\ pc'[f] \notin {"idle", "next"} => job'[f].sheet \in Sheets
                             /\ pc'[f] = "mutate" => job'[f].step < M
<1>1. pc' \in [Execs -> Pcs]
  BY DEF TypeOK, Step, Progress, StartScheduled, StartManual, Begin, Acquire, Poll, GiveUp,
         Release, Boundary, Mutate, MutateFails, SheetDone, Snapshot, SnapshotFails, Crash,
         Goto, End, Pcs
<1>2. ASSUME NEW f \in Execs, f # e
      PROVE  /\ pc'[f] # "idle" => job'[f].export \in Exports
             /\ pc'[f] \notin {"idle", "next"} => job'[f].sheet \in Sheets
             /\ pc'[f] = "mutate" => job'[f].step < M
  BY <1>2, OthersKept DEF TypeOK
<1>3. CASE StartScheduled(e) \/ StartManual(e)
  BY <1>3, <1>1, <1>2, Started, WorkbookConstants DEF TypeOK, StartScheduled, StartManual, Exports
<1>4. CASE End(e)
  BY <1>4, <1>1, <1>2, Ended
<1>5. CASE Begin(e) \/ Poll(e) \/ Acquire(e) \/ Boundary(e) \/ SheetDone(e)
           \/ Mutate(e) \/ MutateFails(e) \/ Snapshot(e) \/ SnapshotFails(e)
  <2>1. pc[e] # "idle" /\ (~Begin(e) => pc[e] # "next")
    BY <1>5 DEF Begin, Poll, Acquire, Boundary, SheetDone, Mutate, MutateFails, Snapshot,
                SnapshotFails
  <2>2. pc'[e] = "mutate" => Boundary(e)
    BY <1>5 DEF Begin, Poll, Acquire, Boundary, SheetDone, Mutate, MutateFails, Snapshot,
                SnapshotFails, Goto, TypeOK
  <2>3. job'[e].export \in Exports /\ job'[e].sheet \in Sheets
    BY <1>5, <2>1, JobEffect DEF TypeOK
  <2>4. pc'[e] = "mutate" => job'[e].step < M
    BY <1>5, <2>2, JobEffect DEF Mutate, Begin
  <2> QED
    BY <1>1, <1>2, <2>3, <2>4
<1>6. CASE Release(e) /\ ~End(e)
  BY <1>6, <1>1, <1>2 DEF Release, Goto, TypeOK
<1> QED
  BY <1>3, <1>4, <1>5, <1>6 DEF Step, Progress, GiveUp, Crash

\* Every step keeps the types
LEMMA StepTyped ==
  ASSUME TypeOK, NEW e \in Execs, Step(e)
  PROVE  TypeOK'
<1> USE DEF Step, Progress
<1>1. job' \in [Execs -> JobType]
  BY JobTyped
<1>2. claim' \in 0..lastExport' /\ lastWorker' \in 0..lastExport' /\ lastExport' \in 0..MaxExports
  <2>1. \/ UNCHANGED schedVars
        \/ /\ lastExport' = lastExport + 1 /\ lastExport < MaxExports
           /\ claim' \in {claim, lastExport + 1} /\ lastWorker' \in {lastWorker, lastExport + 1}
    BY DEF StartScheduled, StartManual, Begin, Acquire, Poll, GiveUp, Release, Boundary,
           Mutate, MutateFails, SheetDone, Snapshot, SnapshotFails, Crash
  <2>2. lastExport \in 0..MaxExports /\ claim \in 0..lastExport /\ lastWorker \in 0..lastExport
    BY DEF TypeOK
  <2> QED
    BY <2>1, <2>2, WorkbookConstants DEF schedVars
<1>3. faults' \in 0..MaxFaults
  <2>1. UNCHANGED faults \/ (faults < MaxFaults /\ faults' = faults + 1)
    BY DEF StartScheduled, StartManual, Begin, Acquire, Poll, GiveUp, Refused, ReleaseLease,
           Release, Boundary, Mutate, MutateFails, SheetDone, Snapshot, SnapshotFails, Crash,
           Charge
  <2>2. faults \in 0..MaxFaults
    BY DEF TypeOK
  <2> QED
    BY <2>1, <2>2, WorkbookConstants
<1>4. lease' \in [export : 0..MaxExports, sheet : 0..S]
  <2>1. /\ NoLease \in [export : 0..MaxExports, sheet : 0..S]
        /\ Token(e) \in [export : 0..MaxExports, sheet : 0..S]
    BY JobFields, WorkbookConstants DEF TypeOK, NoLease, Token
  <2> QED
    BY <2>1, StoreEffect DEF TypeOK
<1>5. sheets' \in [Sheets -> ContentType]
  BY StoreEffect, ContentTyped DEF TypeOK
<1>6. written' \subseteq [export : Exports, sheet : Sheets]
  <2>1. Mutate(e) => Token(e) \in [export : Exports, sheet : Sheets]
    BY DEF TypeOK, Mutate, Token
  <2> QED
    BY <2>1, StoreEffect DEF TypeOK
<1>7. backups' \subseteq [by : Exports, sheets : [Sheets -> ContentType]]
  <2>1. pc[e] = "complete" => [by |-> job[e].export, sheets |-> sheets]
                                \in [by : Exports, sheets : [Sheets -> ContentType]]
    BY DEF TypeOK
  <2>2. \/ backups' = backups
        \/ /\ pc[e] = "complete"
           /\ backups' = backups \union {[by |-> job[e].export, sheets |-> sheets]}
    BY StoreEffect, Stages
  <2> QED
    BY <2>1, <2>2 DEF TypeOK
<1> QED
  BY <1>1, <1>2, <1>3, <1>4, <1>5, <1>6, <1>7, StageTyped DEF TypeOK

-----------------------------------------------------------------------------
(* Who an execution is, and what a mutation leaves *)

\* The export and the worker an execution has after a step: what it had, or a fresh
\* number, or none
LEMMA IdentityEffect ==
  ASSUME TypeOK, NEW e \in Execs, Step(e), NEW f \in Execs
  PROVE  \/ job'[f].export = job[f].export /\ job'[f].worker = job[f].worker
         \/ f = e /\ (StartScheduled(e) \/ StartManual(e))
         \/ f = e /\ job'[f].export = 0 /\ job'[f].worker = 0 /\ pc'[f] = "idle"
<1>1. CASE f # e
  BY <1>1, OthersKept
<1>2. CASE f = e
  BY <1>2, StepKinds, Ended, JobEffect
<1> QED
  BY <1>1, <1>2

\* A mutation leaves the worker of its export in one sheet and touches no other
LEMMA MutationEffect ==
  ASSUME TypeOK, NEW e \in Execs, Mutate(e) \/ MutateFails(e)
  PROVE  /\ pc[e] = "mutate"
         /\ \A s \in Sheets : \/ sheets'[s] = sheets[s]
                              \/ s = job[e].sheet /\ sheets'[s].worker = job[e].worker
         /\ Mutate(e) => /\ sheets'[job[e].sheet].by = job[e].export
                         /\ sheets'[job[e].sheet].steps = job[e].step + 1
                         /\ pc'[e] = "check"
         /\ MutateFails(e) => pc'[e] = "release"
<1>0. /\ sheets \in [Sheets -> ContentType] /\ pc \in [Execs -> Pcs]
      /\ pc[e] = "mutate" /\ job[e].sheet \in Sheets
  BY DEF TypeOK, Mutate, MutateFails
<1>1. Mutate(e) => /\ sheets' = [sheets EXCEPT ![job[e].sheet] =
                                   Content(job[e].export, job[e].worker, job[e].step + 1)]
                   /\ pc'[e] = "check"
  BY <1>0 DEF Mutate, Goto
<1>2. MutateFails(e) =>
        /\ \/ sheets' = [sheets EXCEPT ![job[e].sheet] =
                            Content(job[e].export, job[e].worker, job[e].step)]
           \/ UNCHANGED sheets
        /\ pc'[e] = "release"
  BY <1>0 DEF MutateFails, Goto
<1>3. \A k : /\ Content(job[e].export, job[e].worker, k).worker = job[e].worker
             /\ Content(job[e].export, job[e].worker, k).by = job[e].export
             /\ Content(job[e].export, job[e].worker, k).steps = k
  BY DEF Content
<1>4. CASE Mutate(e)
  <2>1. ~MutateFails(e)
    BY <1>1, <1>2, <1>4
  <2> QED
    BY <1>0, <1>1, <1>3, <1>4, <2>1
<1>5. CASE MutateFails(e)
  <2>1. ~Mutate(e)
    BY <1>1, <1>2, <1>5
  <2> QED
    BY <1>0, <1>2, <1>3, <1>5, <2>1
<1> QED
  BY <1>4, <1>5

-----------------------------------------------------------------------------
(* The parts of the invariant, one by one *)

\* Numbers stay in order
LEMMA NumberedStep ==
  ASSUME TypeOK, Numbered, NEW e \in Execs, Step(e)
  PROVE  Numbered'
<1>0. /\ lastExport \in Nat /\ lastWorker \in Nat /\ lastWorker <= lastExport
      /\ \A f \in Execs : job[f].export \in Nat /\ job[f].worker \in Nat
      /\ \A s \in Sheets : sheets[s].worker \in Nat
  BY JobFields, WorkbookConstants DEF TypeOK, ContentType
<1>1. \/ UNCHANGED schedVars
      \/ StartScheduled(e) /\ claim' = lastExport + 1 /\ lastWorker' = lastExport + 1
      \/ StartManual(e) /\ UNCHANGED <<claim, lastWorker>>
  BY StoreEffect DEF StartScheduled, StartManual
<1>2. \A f \in Execs : \/ job'[f].export = job[f].export /\ job'[f].worker = job[f].worker
                       \/ /\ f = e
                          /\ StartScheduled(e) \/ StartManual(e)
                          /\ job'[f].export = lastExport + 1
                          /\ job'[f].worker \in {0, lastExport + 1}
                          /\ job'[f].worker # 0 => StartScheduled(e)
                       \/ f = e /\ job'[f].export = 0 /\ job'[f].worker = 0
  BY IdentityEffect, Started
<1>3. \/ lastExport' = lastExport /\ ~StartScheduled(e) /\ ~StartManual(e)
      \/ (StartScheduled(e) \/ StartManual(e)) /\ lastExport' = lastExport + 1
  <2>1. CASE StartScheduled(e) \/ StartManual(e)
    BY <2>1, Started
  <2>2. CASE ~StartScheduled(e) /\ ~StartManual(e)
    BY <2>2, StoreEffect DEF schedVars
  <2> QED
    BY <2>1, <2>2
<1>4. /\ \A f \in Execs : job'[f].export <= lastExport' /\ job'[f].worker \in {0, job'[f].export}
      /\ \A f \in Execs : job'[f].worker <= lastWorker'
  BY <1>0, <1>1, <1>2, <1>3, Started DEF Numbered, schedVars
<1>5. \A f, g \in Execs : job'[f].export # 0 /\ job'[f].export = job'[g].export => f = g
  BY <1>0, <1>2 DEF Numbered
<1>6. \A s \in Sheets : sheets'[s].worker <= lastWorker'
  <2>1. \A s \in Sheets : sheets'[s].worker <= lastWorker
    BY StoreEffect, MutationEffect DEF Numbered
  <2> QED
    BY <1>0, <1>1, <2>1, StepTyped DEF schedVars, TypeOK, ContentType
<1>7. claim' \in {0, lastWorker'}
  BY <1>1 DEF Numbered, schedVars
<1> QED
  BY <1>4, <1>5, <1>6, <1>7 DEF Numbered

\* Only the holder of the lease comes to write
LEMMA LeaseHeldStep ==
  ASSUME TypeOK, Numbered, LeaseHeld, NEW e \in Execs, Step(e)
  PROVE  LeaseHeld'
<1> SUFFICES ASSUME NEW f \in Execs, Writing(f)' PROVE lease' = Token(f)'
  BY DEF LeaseHeld
<1>1. CASE f # e
  <2>1. Token(f)' = Token(f) /\ Writing(f)
    BY <1>1, OthersKept DEF Token, Writing
  <2>2. lease = Token(f) /\ job[f].export # 0
    BY <2>1 DEF LeaseHeld, TypeOK, Writing, Exports
  <2>3. lease # NoLease /\ lease # Token(e)
    BY <1>1, <2>2 DEF Token, NoLease, Numbered
  <2> QED
    BY <2>1, <2>2, <2>3, StoreEffect
<1>2. CASE f = e
  <2>1. \/ Acquire(e)
        \/ (Boundary(e) \/ Mutate(e)) /\ Writing(e)
    BY <1>2, StepKinds
       DEF Writing, StartScheduled, StartManual, Begin, Poll, Acquire, Boundary, SheetDone,
           Mutate, MutateFails, Snapshot, SnapshotFails, End, Goto, TypeOK
  <2>2. ~Begin(e)
    BY <2>1 DEF Begin, Acquire, Writing
  <2>3. Token(e)' = Token(e)
    BY <2>1, <2>2, JobEffect DEF Token
  <2> QED
    BY <1>2, <2>1, <2>3 DEF Acquire, Boundary, Mutate, LeaseHeld, storeVars
<1> QED
  BY <1>1, <1>2

\* A claim that has moved away from a worker does not come back to it
LEMMA ClaimEffect ==
  ASSUME TypeOK, Numbered, NEW e \in Execs, Step(e), NEW f \in Execs,
         job[f].worker # 0, claim # job[f].worker
  PROVE  claim' # job[f].worker
<1>1. claim' = claim \/ claim' = lastExport + 1
  BY StoreEffect DEF schedVars, StartScheduled, StartManual
<1>2. job[f].worker <= lastExport /\ job[f].worker \in Nat /\ lastExport \in Nat
  BY JobFields, WorkbookConstants DEF TypeOK, Numbered
<1> QED
  BY <1>1, <1>2

\* The change without the claim stays the last one
LEMMA LateStep ==
  ASSUME TypeOK, Numbered, LateIsLast, NEW e \in Execs, Step(e)
  PROVE  LateIsLast'
<1> DEFINE Ends(f) == \/ pc[f] = "check"
                      \/ pc[f] = "release" /\ (job[f].failed \/ job[f].done = Sheets)
<1>0. /\ job \in [Execs -> JobType] /\ pc \in [Execs -> Pcs]
      /\ job[e].late \in Nat /\ (job[e].late = 0 \/ job[e].late = 1)
  <2>1. job \in [Execs -> JobType] /\ pc \in [Execs -> Pcs] /\ job[e].late <= 1
    BY DEF TypeOK, LateIsLast
  <2> QED
    BY <2>1, JobFields
<1>1. ASSUME NEW f \in Execs, f # e
      PROVE  /\ job'[f].late <= 1
             /\ job'[f].late = 1 =>
                  job'[f].worker # 0 /\ claim' # job'[f].worker /\ Ends(f)'
  BY <1>1, OthersKept, ClaimEffect DEF LateIsLast
<1>2. /\ job'[e].late <= 1
      /\ job'[e].late = 1 => job'[e].worker # 0 /\ claim' # job'[e].worker /\ Ends(e)'
  <2>1. CASE StartScheduled(e) \/ StartManual(e)
    BY <2>1, Started
  <2>2. CASE End(e)
    BY <2>2, Ended
  <2>3. CASE Release(e) /\ UNCHANGED job /\ Goto(e, "next")
    <3>1. job[e].late = 1 => job[e].failed \/ job[e].done = Sheets
      BY <2>3 DEF Release, LateIsLast
    <3>2. job[e].failed \/ job[e].done = Sheets => End(e)
      BY <2>3 DEF Release
    <3>3. ~End(e)
      BY <1>0, <2>3 DEF End, Goto
    <3> QED
      BY <1>0, <2>3, <3>1, <3>2, <3>3
  <2>4. CASE Begin(e) \/ Poll(e) \/ Acquire(e) \/ SheetDone(e)
    <3>1. pc[e] \in {"next", "wait", "complete"} /\ job'[e].late = job[e].late
      BY <1>0, <2>4 DEF Begin, Poll, Acquire, SheetDone, JobType
    <3> QED
      BY <1>0, <3>1 DEF LateIsLast
  <2>5. CASE Boundary(e)
    <3>1. /\ job'[e].late = job[e].late /\ job'[e].worker = job[e].worker
          /\ UNCHANGED claim
          /\ \/ pc'[e] = "release" /\ job'[e].failed
             \/ BoundaryHolds(e)
      BY <1>0, <2>5 DEF Boundary, Goto, JobType, schedVars
    <3>2. job[e].late = 1 => ~BoundaryHolds(e)
      BY DEF LateIsLast, BoundaryHolds
    <3> QED
      BY <1>0, <3>1, <3>2 DEF LateIsLast
  <2>6. CASE Mutate(e) \/ MutateFails(e) \/ Snapshot(e) \/ SnapshotFails(e)
    <3>1. /\ pc[e] \in {"mutate", "complete"} /\ UNCHANGED claim
          /\ job'[e].late = job[e].late + Late(e) /\ job'[e].worker = job[e].worker
      BY <1>0, <2>6 DEF Mutate, MutateFails, Snapshot, SnapshotFails, JobType, schedVars
    <3>2. job[e].late = 0
      BY <1>0, <3>1 DEF LateIsLast
    <3>3. \/ pc'[e] = "check"
          \/ pc'[e] = "release" /\ (job'[e].failed \/ job'[e].done = Sheets)
      <4>1. Mutate(e) => pc'[e] = "check"
        BY <1>0 DEF Mutate, Goto
      <4>2. MutateFails(e) \/ SnapshotFails(e) => pc'[e] = "release" /\ job'[e].failed
        BY <1>0, JobEffect DEF MutateFails, SnapshotFails, Goto
      <4>3. Snapshot(e) => /\ pc'[e] = "release"
                           /\ job'[e].done = job[e].done \union {job[e].sheet}
                           /\ job[e].done \union {job[e].sheet} = Sheets
        BY <1>0 DEF Snapshot, ExporterComplete, Goto, JobType
      <4> QED
        BY <2>6, <4>1, <4>2, <4>3
    <3> QED
      BY <3>1, <3>2, <3>3 DEF Late
  <2> QED
    BY <2>1, <2>2, <2>3, <2>4, <2>5, <2>6, StepKinds
<1> QED
  BY <1>1, <1>2 DEF LateIsLast

\* What a worker found when it passed its boundary stays so until it writes: nobody
\* else writes meanwhile
LEMMA NothingNewerStep ==
  ASSUME TypeOK, Numbered, LeaseHeld, NothingNewer, NEW e \in Execs, Step(e)
  PROVE  NothingNewer'
<1> SUFFICES ASSUME NEW f \in Execs, pc'[f] \in {"mutate", "complete"}, job'[f].worker # 0,
                    NEW s \in Sheets
             PROVE  sheets'[s].worker <= job'[f].worker
  BY DEF NothingNewer
<1>1. CASE f # e
  <2>1. pc'[f] = pc[f] /\ job'[f] = job[f]
    BY <1>1, OthersKept
  <2>2. lease = Token(f) /\ job[f].export # 0
    BY <2>1 DEF LeaseHeld, TypeOK, Writing, Exports
  <2>3. ~Mutate(e) /\ ~MutateFails(e)
    <3>1. lease # Token(e)
      BY <1>1, <2>2 DEF Token, Numbered
    <3> QED
      BY <3>1 DEF Mutate, MutateFails, LeaseHeld, Writing
  <2> QED
    BY <2>1, <2>3, StoreEffect DEF NothingNewer
<1>2. CASE f = e
  <2>1. Boundary(e) /\ BoundaryHolds(e)
    <3>1. ~End(e) /\ ~StartScheduled(e) /\ ~StartManual(e)
      BY <1>2, Started, Ended
    <3>2. ~Goto(e, "next")
      BY <1>2 DEF Goto, TypeOK
    <3>3. Boundary(e)
      BY <1>2, <3>1, <3>2, StepKinds, Stages
    <3> QED
      BY <1>2, <3>3, JobEffect
  <2>2. job'[e].worker = job[e].worker /\ UNCHANGED sheets
    BY <2>1, JobEffect DEF Boundary, storeVars
  <2>3. job[e].worker = lastWorker
    BY <1>2, <2>1, <2>2 DEF BoundaryHolds, Numbered
  <2> QED
    BY <1>2, <2>2, <2>3 DEF Numbered
<1> QED
  BY <1>1, <1>2

\* What is written stays written, and an execution counts only what it wrote
LEMMA DoneWrittenStep ==
  ASSUME TypeOK, DoneWritten, NEW e \in Execs, Step(e)
  PROVE  DoneWritten'
<1> DEFINE Counted(f) ==
      /\ \A s \in job[f].done : [export |-> job[f].export, sheet |-> s] \in written
      /\ pc[f] = "wait" => job[f].step = 0
      /\ pc[f] = "check" /\ job[f].step = M => Token(f) \in written
      /\ pc[f] = "complete" => job[f].step = M /\ Token(f) \in written
<1>0. /\ job \in [Execs -> JobType] /\ pc \in [Execs -> Pcs] /\ written \subseteq written'
      /\ Counted(e)
  BY StoreEffect DEF TypeOK, DoneWritten
<1>1. ASSUME NEW f \in Execs, f # e
      PROVE  Counted(f)'
  <2>1. job'[f] = job[f] /\ pc'[f] = pc[f] /\ Token(f)' = Token(f)
    BY <1>1, OthersKept DEF Token
  <2> QED
    BY <1>0, <2>1 DEF DoneWritten
<1>2. Counted(e)'
  <2>1. CASE StartScheduled(e) \/ StartManual(e)
    BY <2>1, Started
  <2>2. CASE End(e)
    BY <2>2, Ended
  <2>3. CASE Release(e) /\ UNCHANGED job /\ Goto(e, "next")
    BY <1>0, <2>3 DEF Goto
  <2>4. CASE Begin(e) \/ Poll(e)
    <3>1. pc[e] \in {"next", "wait"} /\ pc'[e] = "wait"
      BY <2>4, Stages
    <3>2. job'[e].done = job[e].done /\ job'[e].export = job[e].export
      BY <2>4, <3>1, JobEffect
    <3>3. job'[e].step = 0
      <4>1. CASE Begin(e)
        BY <4>1, JobEffect
      <4>2. CASE Poll(e)
        <5>1. pc[e] = "wait" /\ ~Begin(e) /\ ~Mutate(e)
          BY <4>2, Stages
        <5>2. job'[e].step = job[e].step
          BY <4>2, <5>1, JobEffect
        <5> QED
          BY <1>0, <5>1, <5>2
      <4> QED
        BY <2>4, <4>1, <4>2
    <3> QED
      BY <1>0, <3>1, <3>2, <3>3
  <2>5. CASE Acquire(e)
    <3>1. pc'[e] = "check" /\ job' = job /\ pc[e] = "wait"
      BY <1>0, <2>5 DEF Acquire, Goto
    <3> QED
      BY <1>0, <3>1, WorkbookConstants
  <2>6. CASE Boundary(e)
    <3>1. /\ job'[e].done = job[e].done /\ job'[e].export = job[e].export
          /\ job'[e].step = job[e].step /\ Token(e)' = Token(e) /\ pc[e] = "check"
      BY <1>0, <2>6 DEF Boundary, JobType, Token
    <3>2. \/ pc'[e] \in {"release", "mutate"}
          \/ pc'[e] = "complete" /\ ~(job[e].step < M)
      BY <2>6, JobEffect
    <3>3. ~(job[e].step < M) => job[e].step = M
      BY <1>0, JobFields, WorkbookConstants
    <3> QED
      BY <1>0, <3>1, <3>2, <3>3
  <2>7. CASE Mutate(e)
    <3>1. /\ job'[e].done = job[e].done /\ job'[e].export = job[e].export
          /\ job'[e].step = job[e].step + 1 /\ Token(e)' = Token(e) /\ pc'[e] = "check"
          /\ job[e].step + 1 = M => Token(e) \in written'
      BY <1>0, <2>7 DEF Mutate, JobType, Token, Goto
    <3> QED
      BY <1>0, <3>1
  <2>8. CASE MutateFails(e) \/ SnapshotFails(e)
    <3>1. job'[e].done = job[e].done /\ job'[e].export = job[e].export /\ pc'[e] = "release"
      BY <1>0, <2>8 DEF MutateFails, SnapshotFails, JobType, Goto
    <3> QED
      BY <1>0, <3>1
  <2>9. CASE SheetDone(e) \/ Snapshot(e)
    <3>1. /\ job'[e].done = job[e].done \union {job[e].sheet}
          /\ job'[e].export = job[e].export /\ pc'[e] = "release" /\ pc[e] = "complete"
      BY <1>0, <2>9 DEF SheetDone, Snapshot, JobType, Goto
    <3> QED
      BY <1>0, <3>1 DEF Token
  <2> QED
    BY <2>1, <2>2, <2>3, <2>4, <2>5, <2>6, <2>7, <2>8, <2>9, StepKinds
<1> QED
  BY <1>1, <1>2 DEF DoneWritten

\* While an execution writes, no other changes a sheet
LEMMA SheetsHeld ==
  ASSUME TypeOK, Numbered, LeaseHeld, NEW e \in Execs, Step(e), NEW f \in Execs,
         f # e, Writing(f)
  PROVE  UNCHANGED sheets
<1>1. lease = Token(f) /\ job[f].export # 0
  BY DEF LeaseHeld, TypeOK, Writing, Exports
<1>2. lease # Token(e)
  BY <1>1 DEF Token, Numbered
<1>3. ~Mutate(e) /\ ~MutateFails(e)
  BY <1>2 DEF Mutate, MutateFails, LeaseHeld, Writing
<1> QED
  BY <1>3, StoreEffect

\* The sheet at hand is changed by the execution at it alone
LEMMA SheetAtHandStep ==
  ASSUME TypeOK, Numbered, LeaseHeld, DoneWritten, SheetAtHand, NEW e \in Execs, Step(e)
  PROVE  SheetAtHand'
<1> SUFFICES ASSUME NEW f \in Execs, Writing(f)', job'[f].step > 0
             PROVE  /\ sheets'[job'[f].sheet].by = job'[f].export
                    /\ sheets'[job'[f].sheet].steps = job'[f].step
  BY DEF SheetAtHand
<1>1. CASE f # e
  <2>1. job'[f] = job[f] /\ Writing(f)
    BY <1>1, OthersKept DEF Writing
  <2> QED
    BY <1>1, <2>1, SheetsHeld DEF SheetAtHand
<1>2. CASE f = e
  <2>1. \/ Acquire(e) /\ pc[e] = "wait" /\ job' = job
        \/ Boundary(e) /\ pc[e] = "check" /\ UNCHANGED sheets
        \/ Mutate(e) /\ pc[e] = "mutate"
    <3>1. pc'[e] \in {"check", "mutate", "complete"}
      BY <1>2 DEF Writing
    <3>2. ~End(e) /\ ~StartScheduled(e) /\ ~StartManual(e)
      BY <3>1, Started, Ended
    <3>3. ~Goto(e, "next")
      BY <3>1 DEF Goto, TypeOK
    <3> QED
      BY <3>1, <3>2, <3>3, StepKinds, Stages
  <2>2. ~Begin(e)
    BY <2>1 DEF Begin
  <2>3. CASE Acquire(e) /\ pc[e] = "wait" /\ job' = job
    BY <1>2, <2>3 DEF DoneWritten
  <2>4. CASE Boundary(e) /\ pc[e] = "check" /\ UNCHANGED sheets
    <3>1. /\ job'[e].step = job[e].step /\ job'[e].sheet = job[e].sheet
          /\ job'[e].export = job[e].export
      BY <2>4, JobEffect DEF Boundary, TypeOK, JobType
    <3> QED
      BY <1>2, <2>4, <3>1 DEF SheetAtHand, Writing
  <2>5. CASE Mutate(e)
    <3>1. /\ job'[e].step = job[e].step + 1 /\ job'[e].sheet = job[e].sheet
          /\ job'[e].export = job[e].export
      BY <2>2, <2>5, JobEffect
    <3> QED
      BY <1>2, <2>5, <3>1, MutationEffect
  <2> QED
    BY <2>1, <2>3, <2>4, <2>5
<1> QED
  BY <1>1, <1>2

\* A backup is added by an execution whose sheets are all written
LEMMA BackupStep ==
  ASSUME TypeOK, DoneWritten, SheetAtHand, BackupAfterAllSheets, LastSheetWhole,
         NEW e \in Execs, Step(e)
  PROVE  BackupAfterAllSheets' /\ LastSheetWhole'
<1>0. written \subseteq written'
  BY StoreEffect
<1>1. CASE UNCHANGED backups
  BY <1>0, <1>1 DEF BackupAfterAllSheets, LastSheetWhole
<1>2. CASE /\ Snapshot(e) \/ SnapshotFails(e)
           /\ backups' = backups \union {[by |-> job[e].export, sheets |-> sheets]}
  <2> DEFINE new == [by |-> job[e].export, sheets |-> sheets]
  <2>1. pc[e] = "complete" /\ job[e].done \union {job[e].sheet} = Sheets
    BY <1>2 DEF Snapshot, SnapshotFails, ExporterComplete
  <2>2. \A s \in Sheets : [export |-> job[e].export, sheet |-> s] \in written
    BY <2>1 DEF DoneWritten, Token
  <2>3. /\ job[e].sheet \in Sheets /\ sheets[job[e].sheet].by = job[e].export
        /\ sheets[job[e].sheet].steps = M
    BY <2>1, WorkbookConstants DEF SheetAtHand, DoneWritten, Writing, TypeOK
  <2>4. BackupAfterAllSheets'
    <3> SUFFICES ASSUME NEW b \in backups', NEW s \in Sheets
                 PROVE  [export |-> b.by, sheet |-> s] \in written
      BY <1>0 DEF BackupAfterAllSheets
    <3>1. CASE b \in backups
      BY <3>1 DEF BackupAfterAllSheets
    <3>2. CASE b = new
      <4>1. b.by = job[e].export
        BY <3>2
      <4> QED
        BY <2>2, <4>1
    <3> QED
      BY <1>2, <3>1, <3>2
  <2>5. LastSheetWhole'
    BY <1>2, <2>3 DEF LastSheetWhole
  <2> QED
    BY <2>4, <2>5
<1> QED
  BY <1>1, <1>2, StoreEffect

-----------------------------------------------------------------------------
(* The theorems *)

\* The loss of a claim disturbs nothing else
LEMMA LoseClaimKeeps ==
  ASSUME IInv, LoseClaim
  PROVE  IInv'
<1>1. claim' = 0 /\ claim # 0
  BY DEF LoseClaim
<1>2. UNCHANGED <<lease, sheets, written, backups, pc, job, lastExport, lastWorker, faults>>
  BY DEF LoseClaim, storeVars
<1>3. TypeOK'
  BY <1>1, <1>2, WorkbookConstants DEF IInv, TypeOK
<1>4. Numbered'
  BY <1>1, <1>2 DEF IInv, Numbered
<1>5. LateIsLast'
  BY <1>1, <1>2 DEF IInv, LateIsLast
<1>6. LeaseHeld' /\ SheetAtHand'
  BY <1>2 DEF IInv, LeaseHeld, Writing, Token, SheetAtHand
<1>7. NothingNewer' /\ DoneWritten'
  BY <1>2 DEF IInv, NothingNewer, DoneWritten, Token
<1>8. BackupAfterAllSheets' /\ LastSheetWhole'
  BY <1>2 DEF IInv, BackupAfterAllSheets, LastSheetWhole
<1> QED
  BY <1>3, <1>4, <1>5, <1>6, <1>7, <1>8 DEF IInv

\* The invariant holds at the start
LEMMA InitIInv ==
  ASSUME Init
  PROVE  IInv
<1>1. TypeOK
  <2>1. Content(0, 0, M) \in ContentType /\ NoLease \in [export : 0..MaxExports, sheet : 0..S]
    BY WorkbookConstants DEF Content, ContentType, NoLease
  <2> QED
    BY <2>1, JobStarts, WorkbookConstants DEF Init, TypeOK, Pcs
<1>2. Numbered
  BY DEF Init, Numbered, NoJob, Job, Content
<1>3. LeaseHeld /\ SheetAtHand /\ NothingNewer
  BY DEF Init, LeaseHeld, SheetAtHand, NothingNewer, Writing
<1>4. LateIsLast /\ DoneWritten
  BY DEF Init, LateIsLast, DoneWritten, NoJob, Job
<1>5. BackupAfterAllSheets /\ LastSheetWhole
  BY DEF Init, BackupAfterAllSheets, LastSheetWhole
<1> QED
  BY <1>1, <1>2, <1>3, <1>4, <1>5 DEF IInv

\* IInv is inductive and so holds in every reachable state.
THEOREM Invariance == Spec => []IInv
<1>1. Init => IInv
  BY InitIInv
<1>2. IInv /\ [Next]_vars => IInv'
  <2> SUFFICES ASSUME IInv, [Next]_vars PROVE IInv'
    OBVIOUS
  <2>1. ASSUME NEW e \in Execs, Step(e) PROVE IInv'
    BY <2>1, StepTyped, NumberedStep, LeaseHeldStep, LateStep, NothingNewerStep,
       DoneWrittenStep, SheetAtHandStep, BackupStep DEF IInv
  <2>2. CASE LoseClaim
    BY <2>2, LoseClaimKeeps
  <2>3. CASE UNCHANGED vars
    BY <2>3 DEF vars, schedVars, storeVars, IInv, TypeOK, Numbered, LeaseHeld, LateIsLast,
       NothingNewer, DoneWritten, SheetAtHand, BackupAfterAllSheets, LastSheetWhole,
       Writing, Token
  <2> QED
    BY <2>1, <2>2, <2>3 DEF Next
<1> QED
  BY <1>1, <1>2, PTL DEF Spec

\* The types and identifiers of WorkbookWrite are right in every instance.
THEOREM TypeCorrect == Spec => []TypeOK
<1>1. IInv => TypeOK
  BY DEF IInv
<1> QED
  BY <1>1, Invariance, PTL

\* The lease excludes: no two executions are ever at the workbook at once
\* (withExportWriteLock_ with tryAcquireExportWriteLease_, which never steals).
THEOREM Exclusion == Spec => []OneWriter
<1>1. IInv => OneWriter
  <2> SUFFICES ASSUME IInv, NEW e \in Execs, NEW f \in Execs, Writing(e), Writing(f)
               PROVE  e = f
    BY DEF OneWriter
  <2>1. Token(e) = Token(f) /\ job[e].export # 0
    BY DEF IInv, LeaseHeld, TypeOK, Writing, Exports
  <2> QED
    BY <2>1 DEF IInv, Token, Numbered
<1> QED
  BY <1>1, Invariance, PTL

\* A worker that loses its claim makes at most the one change it had already checked
\* (qboV1298AssertWriteBoundary_ before each mutation).
THEOREM LateBound == Spec => []OneLateChange
<1>1. IInv => OneLateChange
  BY DEF IInv, LateIsLast, OneLateChange
<1> QED
  BY <1>1, Invariance, PTL

\* A Master Backup follows a complete write of every sheet by the same export
\* (registerQboExporterSheetCompletion_).
THEOREM BackupCorrect == Spec => []BackupAfterAllSheets
<1>1. IInv => BackupAfterAllSheets
  BY DEF IInv
<1> QED
  BY <1>1, Invariance, PTL

\* The sheet an export completes last is whole, and that export's, when the backup is made.
THEOREM LastSheetCorrect == Spec => []LastSheetWhole
<1>1. IInv => LastSheetWhole
  BY DEF IInv
<1> QED
  BY <1>1, Invariance, PTL

\* No worker writes over what a newer worker has written, however claims, leases,
\* terminations and manual runs interleave.
THEOREM Fencing == Spec => NewerWorkerKept
<1> DEFINE Kept == \A s \in Sheets : /\ sheets'[s] # sheets[s]
                                     /\ sheets'[s].worker # 0
                                     => sheets[s].worker <= sheets'[s].worker
<1>1. IInv /\ [Next]_vars => [Kept]_sheets
  <2> SUFFICES ASSUME IInv, [Next]_vars, NEW s \in Sheets,
                      sheets'[s] # sheets[s], sheets'[s].worker # 0
               PROVE  sheets[s].worker <= sheets'[s].worker
    OBVIOUS
  <2>1. PICK e \in Execs : Mutate(e) \/ MutateFails(e)
    BY StoreEffect DEF Next, vars, storeVars, LoseClaim
  <2>2. sheets'[s].worker = job[e].worker /\ pc[e] = "mutate"
    BY <2>1, MutationEffect DEF IInv
  <2> QED
    BY <2>2 DEF IInv, NothingNewer
<1> QED
  BY <1>1, Invariance, PTL DEF Spec, NewerWorkerKept

=============================================================================
