------------------------ MODULE DailySchedulerProofs ------------------------
(***************************************************************************)
(* Proofs about DailyScheduler for every number of executions, exporters,  *)
(* runs, claims and faults, and every set of hazards.                      *)
(*                                                                         *)
(* First Typed: the types of all variables, the bounds of the identifiers, *)
(* and what a worker that has claimed knows; then the "effect" lemmas,     *)
(* which say how any step of an execution can change some variables.  The  *)
(* other invariants build on those instead of going through the thirty     *)
(* actions again: the claim, the checkpoint and the evidence behind an     *)
(* advance; the account of exporters without a Master Backup; the          *)
(* exclusion of workers within one run; and the refinement of ExportQueue. *)
(***************************************************************************)
EXTENDS DailyScheduler, SequenceTheorems, FiniteSetTheorems, WellFoundedInduction, TLAPS

-----------------------------------------------------------------------------
(* Least and greatest elements *)

\* A nonempty set of naturals has a least element
LEMMA LeastExists ==
  ASSUME NEW S, S \subseteq Nat, S # {}
  PROVE  \E x \in S : \A y \in S : x <= y
<1> DEFINE R == OpToRel(<, Nat)
<1>1. PICK x \in S : \A y \in S : <<y, x>> \notin R
  BY NatLessThanWellFounded, WFMin
<1>2. \A y \in S : ~ (y < x)
  BY <1>1 DEF OpToRel
<1> QED
  BY <1>2

\* A nonempty bounded set of naturals has a greatest element
LEMMA GreatestExists ==
  ASSUME NEW n \in Nat, NEW S, S \subseteq 0..n, S # {}
  PROVE  \E x \in S : \A y \in S : y <= x
<1> DEFINE T == {k \in 0..n : n - k \in S}
<1>1. T # {} /\ T \subseteq Nat
  <2>1. PICK s \in S : TRUE
    OBVIOUS
  <2>2. n - s \in 0..n /\ n - (n - s) = s
    BY <2>1
  <2> QED
    BY <2>1, <2>2
<1>2. PICK k \in T : \A j \in T : k <= j
  BY <1>1, LeastExists
<1>3. \A y \in S : n - y \in T
  OBVIOUS
<1>4. \A y \in S : y <= n - k
  BY <1>2, <1>3
<1> QED
  BY <1>2, <1>4

-----------------------------------------------------------------------------
(* The inductive invariant, first part: types and identifiers *)

\* Stages of a worker between its claim and the end of its finalization
Holding == {"arm", "claimed", "recordStart", "checkpointStart", "export", "snapshot",
            "recordResult", "verify", "prove", "finalize", "advance"}

\* Identifiers are handed out in order
Bounds ==
  /\ queue.run <= lastRun /\ active.token <= lastToken
  /\ \A e \in Execs : job[e].run <= lastRun /\ job[e].token <= lastToken
  /\ \A r \in Runs : runStatus[r] # "absent" => r <= lastRun

\* A worker that has claimed knows a run, an existing position and its token
Working ==
  \A e \in Execs : pc[e] \in Holding =>
    job[e].run # 0 /\ job[e].index < N /\ job[e].token # 0

-----------------------------------------------------------------------------
(* Types of the values the actions build *)

\* Every stage named by an action is a program counter
LEMMA PcNames ==
  \A w \in {"idle", "claim", "arm", "claimed", "recordStart", "checkpointStart", "export",
            "snapshot", "recordResult", "verify", "prove", "finalize", "advance",
            "continue", "capture", "recover", "commit", "recordResumed", "create",
            "recordRun", "rollback", "resumeCapture", "resumeRead", "resumeInterrupt",
            "resumeCommit", "dropNext", "makeNext", "recordComplete", "clear",
            "recordClosed", "clearClosed"} : w \in Pcs
BY DEF Pcs, WorkerPcs, StarterPcs, ResumePcs, SharedPcs

\* The local variables a claim or a creation starts from are well typed
LEMMA JobTyped ==
  /\ NoJob \in JobType
  /\ \A r, f, t \in Nat, i \in 0..N : Job(r, i, f, t) \in JobType
BY SchedulerConstants DEF Job, NoJob, JobType, Outcomes

\* The types of the local variables of an execution
LEMMA JobFields ==
  ASSUME NEW j \in JobType
  PROVE  /\ j.run \in Nat /\ j.index \in 0..N /\ j.token \in Nat /\ j.failed \in Nat
         /\ j.target \in 0..N /\ j.outcome \in Outcomes
BY DEF JobType

\* The queue and claim records the actions write are well typed
LEMMA QueueTyped ==
  /\ NoQueue \in QueueType /\ NoClaim \in ClaimType
  /\ \A r, f \in Nat, i \in 0..N : [run |-> r, index |-> i, failed |-> f] \in QueueType
  /\ \A t, i \in Nat : [token |-> t, index |-> i] \in ClaimType
  /\ \A q \in QueueType : q.run \in Nat /\ q.index \in 0..N /\ q.failed \in Nat
  /\ \A c \in ClaimType : c.token \in Nat /\ c.index \in Nat
BY SchedulerConstants DEF NoQueue, NoClaim, QueueType, ClaimType

\* The updates the actions make to the local variables keep their type
LEMMA JobUpdates ==
  ASSUME NEW j \in JobType
  PROVE  /\ \A x \in Outcomes : [j EXCEPT !.outcome = x] \in JobType
         /\ \A i \in 0..N : [j EXCEPT !.target = i] \in JobType
         /\ \A f \in Nat, i \in 0..N : [j EXCEPT !.failed = f, !.index = i] \in JobType
         /\ \A r \in Nat, i \in 0..N : [j EXCEPT !.run = r, !.index = i] \in JobType
         /\ \A r \in Nat, i \in 0..N, x \in Outcomes :
              [j EXCEPT !.run = r, !.target = i, !.outcome = x] \in JobType
BY DEF JobType

\* A checkpoint record of typed parts is well typed
LEMMA CheckpointTyped ==
  ASSUME NEW r \in Nat, NEW i \in 0..N, NEW t \in Nat, NEW p \in Phases, NEW b \in Nat
  PROVE  [run |-> r, index |-> i, token |-> t, phase |-> p, backup |-> b] \in CheckpointType
BY SchedulerConstants DEF CheckpointType

\* The phases the actions write are checkpoint phases
LEMMA PhaseNames ==
  \A p \in {"NONE", "CLAIMED", "EXPORT_STARTED", "SNAPSHOT_RECORDED", "QUEUE_ADVANCED"} :
    p \in Phases
BY DEF Phases, PhaseRank

\* Appending, closing and completing an attempt build well-typed rows
LEMMA RowTyped ==
  /\ \A r \in Runs, i \in 0..(N - 1), t, b \in Nat, s \in RowStatuses :
       [run |-> r, index |-> i, token |-> t, status |-> s, backup |-> b] \in RowType
  /\ \A x \in RowType : Closed(x) \in RowType
  /\ \A x \in RowType, s \in RowStatuses, b \in Nat : Resulted(x, s, b) \in RowType
BY DEF RowType, Closed, Resulted, RowStatuses

\* Closing the RUNNING attempts of a run keeps the history well typed
\* (recordRunningExportsInterrupted)
LEMMA InterruptedTyped ==
  ASSUME NEW r, rows \in Seq(RowType)
  PROVE  Interrupted(r) \in Seq(RowType)
<1>1. \A k \in 1..Len(rows) : rows[k] \in RowType
  BY ElementOfSeq
<1>2. Interrupted(r) \in [1..Len(rows) -> RowType]
  BY <1>1, RowTyped DEF Interrupted
<1> QED
  BY <1>2, LenProperties, SeqDef

\* Writing a result into an existing row keeps the history well typed
LEMMA RowReplaced ==
  ASSUME rows \in Seq(RowType), NEW k \in DOMAIN rows, NEW s \in RowStatuses, NEW b \in Nat
  PROVE  [rows EXCEPT ![k] = Resulted(@, s, b)] \in Seq(RowType)
BY RowTyped, ElementOfSeq, ExceptSeq, LenProperties

\* What TypeOK says of the variables an action of e reads
LEMMA Read ==
  ASSUME TypeOK, NEW e \in Execs
  PROVE  /\ job[e] \in JobType
         /\ job[e].run \in Nat /\ job[e].index \in 0..N /\ job[e].token \in Nat
         /\ job[e].failed \in Nat /\ job[e].target \in 0..N /\ job[e].outcome \in Outcomes
         /\ queue.run \in Nat /\ queue.index \in 0..N /\ queue.failed \in Nat
         /\ active.token \in Nat /\ active.index \in Nat /\ checkpoint.backup \in Nat
         /\ lastRun \in Nat /\ lastToken \in Nat /\ N \in Nat
BY JobFields, QueueTyped, SchedulerConstants DEF TypeOK, CheckpointType

\* Every outcome of an exporter has a row status (recordExportResult)
LEMMA ResultNames == \A e \in Execs : ResultStatus(e) \in RowStatuses
BY DEF ResultStatus, RowStatuses

\* The effect of the shared steps on the types
LEMMA StepTyped ==
  ASSUME TypeOK
  PROVE  /\ \A e \in Execs, w \in Pcs : Goto(e, w) => pc' \in [Execs -> Pcs]
         /\ \A e \in Execs, j \in JobType : Remember(e, j) => job' \in [Execs -> JobType]
         /\ \A e \in Execs : End(e) =>
              pc' \in [Execs -> Pcs] /\ job' \in [Execs -> JobType]
         /\ HistoryOk => faults' \in 0..MaxFaults
         /\ HistoryFails => faults' \in 0..MaxFaults
         /\ \A k : Charge(k) => faults' \in 0..MaxFaults
         /\ \A e \in Execs : Reopen(e) => queue' \in QueueType /\ active' \in ClaimType
         /\ ClearQueue => queue' \in QueueType /\ active' \in ClaimType
<1>0. \A e \in Execs, j \in JobType : Remember(e, j) => job' \in [Execs -> JobType]
  BY DEF TypeOK, Remember
<1>1. \A e \in Execs, w \in Pcs : Goto(e, w) => pc' \in [Execs -> Pcs]
  BY DEF TypeOK, Goto
<1>2. \A e \in Execs : End(e) => pc' \in [Execs -> Pcs] /\ job' \in [Execs -> JobType]
  BY PcNames, JobTyped, <1>0 DEF TypeOK, Goto, End
<1>3. /\ \A k : Charge(k) => faults' \in 0..MaxFaults
      /\ HistoryOk => faults' \in 0..MaxFaults
      /\ HistoryFails => faults' \in 0..MaxFaults
  BY SchedulerConstants DEF TypeOK, Charge, HistoryOk, HistoryFails
<1>4. \A e \in Execs : Reopen(e) => queue' \in QueueType /\ active' \in ClaimType
  BY Read, QueueTyped DEF Reopen
<1>5. ClearQueue => queue' \in QueueType /\ active' \in ClaimType
  BY QueueTyped DEF ClearQueue
<1> QED
  BY <1>0, <1>1, <1>2, <1>3, <1>4, <1>5

\* findQboExportRunRow_ returns the greatest attempt of the run and exporter, and 0
\* exactly when there is none
LEMMA LastRowIsAttempt ==
  ASSUME rows \in Seq(RowType), NEW r, NEW i
  PROVE  /\ Attempts(r, i) = {} => LastRow(r, i) = 0
         /\ Attempts(r, i) # {} =>
              /\ LastRow(r, i) \in Attempts(r, i)
              /\ \A j \in Attempts(r, i) : j <= LastRow(r, i)
         /\ LastRow(r, i) # 0 => LastRow(r, i) \in Attempts(r, i)
<1>1. Attempts(r, i) \subseteq 0..Len(rows) /\ Len(rows) \in Nat
  BY LenProperties DEF Attempts
<1>2. Attempts(r, i) # {} =>
        \E k \in Attempts(r, i) : \A j \in Attempts(r, i) : j <= k
  BY <1>1, GreatestExists
<1> QED
  BY <1>2 DEF LastRow

\* The resume point exists, and every position before it is COMPLETE
\* (buildResumeState)
LEMMA ResumeIndexIsFirst ==
  ASSUME NEW r
  PROVE  /\ ResumeIndex(r) \in 0..N
         /\ \A j \in 0..(ResumeIndex(r) - 1) : IsComplete(r, j)
<1> DEFINE Open == {i \in 0..N : i = N \/ ~IsComplete(r, i)}
<1>1. N \in Nat
  BY SchedulerConstants
<1>2. Open \subseteq Nat /\ N \in Open
  BY <1>1
<1>3. PICK i \in Open : \A j \in Open : i <= j
  BY <1>2, LeastExists
<1>4. \A j \in 0..(i - 1) : IsComplete(r, j)
  BY <1>1, <1>3
<1>5. \E k \in 0..N : /\ \A j \in 0..(k - 1) : IsComplete(r, j)
                      /\ k = N \/ ~IsComplete(r, k)
  BY <1>3, <1>4
<1> QED
  BY <1>5 DEF ResumeIndex

\* The latest of a nonempty set of runs is one of them
\* (getLatestResumeState)
LEMMA LatestResumable ==
  ASSUME NEW S, S \subseteq Runs, S # {}
  PROVE  (CHOOSE x \in S : \A y \in S : y <= x) \in S
<1>1. S \subseteq 0..MaxRuns /\ MaxRuns \in Nat
  BY SchedulerConstants DEF Runs
<1>2. \E x \in S : \A y \in S : y <= x
  BY <1>1, GreatestExists
<1> QED
  BY <1>2

\* Every checkpoint an execution writes is well typed (qboDailyV1284Checkpoint_)
LEMMA WriteTyped ==
  ASSUME TypeOK, NEW e \in Execs, NEW p \in Phases, NEW b \in Nat
  PROVE  /\ WriteCheckpoint(e, p, b) => checkpoint' \in CheckpointType
         /\ UNCHANGED checkpoint => checkpoint' \in CheckpointType
<1>1. [run |-> job[e].run, index |-> job[e].index, token |-> job[e].token,
       phase |-> p, backup |-> b] \in CheckpointType
  BY Read, CheckpointTyped
<1> QED
  BY <1>1 DEF WriteCheckpoint, TypeOK

-----------------------------------------------------------------------------
(* Types are preserved *)

\* The step CheckpointClaimed preserves the types
LEMMA CheckpointClaimedTyped ==
  ASSUME TypeOK, Bounds, Working, NEW e \in Execs, CheckpointClaimed(e)
  PROVE  TypeOK'
<1>1. checkpoint' \in CheckpointType
  <2>1. UNCHANGED checkpoint \/ WriteCheckpoint(e, "CLAIMED", 0)
    BY DEF CheckpointClaimed, CheckpointStep
  <2>2. "CLAIMED" \in Phases /\ 0 \in Nat
    BY PhaseNames, Read
  <2> QED
    BY <2>1, <2>2, WriteTyped
<1>2. pc' \in [Execs -> Pcs] /\ job' \in [Execs -> JobType]
  <2>1. End(e) \/ (Goto(e, "recordStart") /\ UNCHANGED job)
    BY DEF CheckpointClaimed, CheckpointStep
  <2>2. "recordStart" \in Pcs /\ job \in [Execs -> JobType]
    BY PcNames DEF TypeOK
  <2> QED
    BY <2>1, <2>2, StepTyped
<1>3. UNCHANGED <<queue, active, nextTrig, paused, historyVars, countVars>>
  BY DEF CheckpointClaimed, CheckpointStep
<1> QED
  BY <1>1, <1>2, <1>3 DEF TypeOK, historyVars, countVars

\* The step RecordStart preserves the types
LEMMA RecordStartTyped ==
  ASSUME TypeOK, Bounds, Working, NEW e \in Execs, RecordStart(e)
  PROVE  TypeOK'
<1>1. "RUNNING" \in RowStatuses
  BY DEF RowStatuses
<1>2. job[e].run \in Runs /\ job[e].index \in 0..(N - 1)
  BY Read, SchedulerConstants DEF TypeOK, Bounds, Working, Holding, RecordStart, Runs
<1>3. [run |-> job[e].run, index |-> job[e].index, token |-> job[e].token, status |-> "RUNNING", backup |-> 0] \in RowType
  BY <1>1, <1>2, Read, RowTyped
<1>4. rows' \in Seq(RowType)
  BY <1>3, AppendProperties DEF TypeOK, RecordStart
<1> QED
  BY <1>1, <1>2, <1>3, <1>4, Read, StepTyped, PcNames, QueueTyped, JobTyped, SchedulerConstants
     DEF TypeOK, RecordStart, queueVars, historyVars, countVars

\* The step CheckpointStarted preserves the types
LEMMA CheckpointStartedTyped ==
  ASSUME TypeOK, Bounds, Working, NEW e \in Execs, CheckpointStarted(e)
  PROVE  TypeOK'
<1>1. checkpoint' \in CheckpointType
  <2>1. UNCHANGED checkpoint \/ WriteCheckpoint(e, "EXPORT_STARTED", 0)
    BY DEF CheckpointStarted, CheckpointStep
  <2>2. "EXPORT_STARTED" \in Phases /\ 0 \in Nat
    BY PhaseNames, Read
  <2> QED
    BY <2>1, <2>2, WriteTyped
<1>2. pc' \in [Execs -> Pcs] /\ job' \in [Execs -> JobType]
  <2>1. End(e) \/ (Goto(e, "export") /\ UNCHANGED job)
    BY DEF CheckpointStarted, CheckpointStep
  <2>2. "export" \in Pcs /\ job \in [Execs -> JobType]
    BY PcNames DEF TypeOK
  <2> QED
    BY <2>1, <2>2, StepTyped
<1>3. UNCHANGED <<queue, active, nextTrig, paused, historyVars, countVars>>
  BY DEF CheckpointStarted, CheckpointStep
<1> QED
  BY <1>1, <1>2, <1>3 DEF TypeOK, historyVars, countVars

\* The step Export preserves the types
LEMMA ExportTyped ==
  ASSUME TypeOK, Bounds, Working, NEW e \in Execs, Export(e)
  PROVE  TypeOK'
<1>1. job' \in [Execs -> JobType]
  BY Read, JobUpdates, StepTyped DEF TypeOK, Export, Outcomes
<1>2. pc' \in [Execs -> Pcs] /\ faults' \in 0..MaxFaults
  BY StepTyped, PcNames DEF TypeOK, Export
<1>3. UNCHANGED <<queueVars, historyVars, lastRun, lastToken>>
  BY DEF Export
<1> QED
  BY <1>1, <1>2, <1>3 DEF TypeOK, queueVars, historyVars

\* The step MakeBackup preserves the types
LEMMA MakeBackupTyped ==
  ASSUME TypeOK, Bounds, Working, NEW e \in Execs, MakeBackup(e)
  PROVE  TypeOK'
<1>0. PICK x \in {"ok", "error"} : job' = [job EXCEPT ![e] = [job[e] EXCEPT !.outcome = x]]
  BY DEF MakeBackup, Remember
<1>1. job' \in [Execs -> JobType] /\ faults' \in 0..MaxFaults
  <2>1. job' \in [Execs -> JobType]
    <3>1. [job[e] EXCEPT !.outcome = x] \in JobType
      BY Read, JobUpdates DEF Outcomes
    <3> QED
      BY <3>1, <1>0 DEF TypeOK
  <2>2. faults' \in 0..MaxFaults
    BY StepTyped DEF TypeOK, MakeBackup
  <2> QED
    BY <2>1, <2>2
<1>2. [run |-> job[e].run, index |-> job[e].index, token |-> job[e].token] \in BackupType
  <2>1. pc[e] = "snapshot"
    BY DEF MakeBackup
  <2>2. job[e].run \in Runs /\ job[e].index \in 0..(N - 1) /\ job[e].token \in Nat \ {0}
    BY <2>1, Read, SchedulerConstants DEF TypeOK, Bounds, Working, Holding, Runs
  <2> QED
    BY <2>2 DEF BackupType
<1>3. backups' \subseteq BackupType
  BY <1>2 DEF TypeOK, MakeBackup
<1> QED
  BY <1>1, <1>2, <1>3, Read, StepTyped, PcNames, QueueTyped, JobTyped, SchedulerConstants
     DEF TypeOK, MakeBackup, queueVars

\* The step RecordResult preserves the types
LEMMA RecordResultTyped ==
  ASSUME TypeOK, Bounds, Working, NEW e \in Execs, RecordResult(e)
  PROVE  TypeOK'
<1>1. \A k : k = LastRow(job[e].run, job[e].index) /\ k # 0 => k \in DOMAIN rows
  BY LastRowIsAttempt DEF TypeOK, Attempts
<1>2. (IF job[e].outcome = "ok" THEN job[e].token ELSE 0) \in Nat
  BY Read
<1>3. rows' \in Seq(RowType)
  <2>1. rows' = rows \/ \E k \in DOMAIN rows : \E b \in Nat :
          rows' = [rows EXCEPT ![k] = Resulted(@, ResultStatus(e), b)]
    BY <1>1, <1>2 DEF RecordResult
  <2> QED
    BY <2>1, ResultNames, RowReplaced DEF TypeOK
<1>4. pc' \in [Execs -> Pcs]
  BY StepTyped, PcNames DEF RecordResult
<1>5. faults' \in 0..MaxFaults
  BY StepTyped DEF RecordResult
<1>6. UNCHANGED <<queueVars, runStatus, backups, job, lastRun, lastToken>>
  BY DEF RecordResult
<1> QED
  BY <1>3, <1>4, <1>5, <1>6 DEF TypeOK, queueVars

\* The step CheckpointSnapshot preserves the types
LEMMA CheckpointSnapshotTyped ==
  ASSUME TypeOK, Bounds, Working, NEW e \in Execs, CheckpointSnapshot(e)
  PROVE  TypeOK'
<1>1. checkpoint' \in CheckpointType
  <2>1. UNCHANGED checkpoint \/ WriteCheckpoint(e, "SNAPSHOT_RECORDED", job[e].token)
    BY DEF CheckpointSnapshot
  <2>2. "SNAPSHOT_RECORDED" \in Phases /\ job[e].token \in Nat
    BY PhaseNames, Read
  <2> QED
    BY <2>1, <2>2, WriteTyped
<1>2. pc' \in [Execs -> Pcs] /\ job' \in [Execs -> JobType]
  <2>1. End(e) \/ (Goto(e, "finalize") /\ UNCHANGED job)
    BY DEF CheckpointSnapshot
  <2>2. "finalize" \in Pcs /\ job \in [Execs -> JobType]
    BY PcNames DEF TypeOK
  <2> QED
    BY <2>1, <2>2, StepTyped
<1>3. UNCHANGED <<queue, active, nextTrig, paused, historyVars, countVars>>
  BY DEF CheckpointSnapshot
<1> QED
  BY <1>1, <1>2, <1>3 DEF TypeOK, historyVars, countVars

\* The step Finalize preserves the types
LEMMA FinalizeTyped ==
  ASSUME TypeOK, Bounds, Working, NEW e \in Execs, Finalize(e)
  PROVE  TypeOK'
<1>1. checkpoint' \in CheckpointType
  BY Read, CheckpointTyped, PhaseNames DEF TypeOK, Finalize, WriteCheckpoint
<1> QED
  BY <1>1, Read, StepTyped, PcNames, QueueTyped, JobTyped, SchedulerConstants
     DEF TypeOK, Finalize, queueVars, historyVars, countVars

\* The step Advance preserves the types
LEMMA AdvanceTyped ==
  ASSUME TypeOK, Bounds, Working, NEW e \in Execs, Advance(e)
  PROVE  TypeOK'
<1>1. NextIndex(e) \in 0..N /\ NextFailed(e) \in Nat
  BY Read DEF Working, Holding, Advance, NextIndex, NextFailed
<1>2. job' \in [Execs -> JobType]
  BY <1>1, Read, StepTyped, JobUpdates DEF TypeOK, Advance
<1>3. queue' \in QueueType
  BY <1>1, Read, QueueTyped DEF TypeOK, Advance, QueueType
<1> QED
  BY <1>1, <1>2, <1>3, Read, StepTyped, PcNames, QueueTyped, JobTyped, SchedulerConstants
     DEF TypeOK, Advance, queueVars, historyVars, countVars

\* The step RecordComplete preserves the types
LEMMA RecordCompleteTyped ==
  ASSUME TypeOK, Bounds, Working, NEW e \in Execs, RecordComplete(e)
  PROVE  TypeOK'
<1>1. runStatus' \in [Runs -> RunStatuses]
  BY DEF TypeOK, RecordComplete, RunStatuses
<1> QED
  BY <1>1, Read, StepTyped, PcNames, QueueTyped, JobTyped, SchedulerConstants
     DEF TypeOK, RecordComplete, queueVars, historyVars, countVars

\* The step RecordResumed preserves the types
LEMMA RecordResumedTyped ==
  ASSUME TypeOK, Bounds, Working, NEW e \in Execs, RecordResumed(e)
  PROVE  TypeOK'
<1>1. runStatus' \in [Runs -> RunStatuses]
  BY DEF TypeOK, RecordResumed, RunStatuses
<1> QED
  BY <1>1, Read, StepTyped, PcNames, QueueTyped, JobTyped, SchedulerConstants
     DEF TypeOK, RecordResumed, queueVars, historyVars, countVars

\* The step StarterCapture preserves the types
LEMMA StarterCaptureTyped ==
  ASSUME TypeOK, Bounds, Working, NEW e \in Execs, StarterCapture(e)
  PROVE  TypeOK'
<1>1. job' \in [Execs -> JobType]
  BY Read, StepTyped, JobUpdates DEF TypeOK, StarterCapture
<1> QED
  BY <1>1, Read, StepTyped, PcNames, QueueTyped, JobTyped, SchedulerConstants
     DEF TypeOK, StarterCapture, queueVars, historyVars, countVars

\* The step StarterRecover preserves the types
LEMMA StarterRecoverTyped ==
  ASSUME TypeOK, Bounds, Working, NEW e \in Execs, StarterRecover(e)
  PROVE  TypeOK'
<1>1. job' \in [Execs -> JobType]
  BY Read, ResumeIndexIsFirst, StepTyped, JobUpdates DEF TypeOK, StarterRecover
<1>2. rows' \in Seq(RowType)
  BY InterruptedTyped DEF TypeOK, StarterRecover
<1> QED
  BY <1>1, <1>2, Read, StepTyped, PcNames, QueueTyped, JobTyped, SchedulerConstants
     DEF TypeOK, StarterRecover, queueVars, historyVars, countVars

\* The step StarterCreate preserves the types
LEMMA StarterCreateTyped ==
  ASSUME TypeOK, Bounds, Working, NEW e \in Execs, StarterCreate(e)
  PROVE  TypeOK'
<1>1. queue' \in QueueType
  BY Read, QueueTyped, SchedulerConstants DEF TypeOK, StarterCreate
<1>2. job' \in [Execs -> JobType]
  BY Read, StepTyped, JobTyped, SchedulerConstants DEF TypeOK, StarterCreate
<1> QED
  BY <1>1, <1>2, Read, StepTyped, PcNames, QueueTyped, JobTyped, SchedulerConstants
     DEF TypeOK, StarterCreate, queueVars, historyVars, countVars

\* The step StarterRecordRun preserves the types
LEMMA StarterRecordRunTyped ==
  ASSUME TypeOK, Bounds, Working, NEW e \in Execs, StarterRecordRun(e)
  PROVE  TypeOK'
<1>1. runStatus' \in [Runs -> RunStatuses]
  BY DEF TypeOK, StarterRecordRun, RunStatuses
<1> QED
  BY <1>1, Read, StepTyped, PcNames, QueueTyped, JobTyped, SchedulerConstants
     DEF TypeOK, StarterRecordRun, queueVars, historyVars, countVars

\* The step ResumeCapture preserves the types
LEMMA ResumeCaptureTyped ==
  ASSUME TypeOK, Bounds, Working, NEW e \in Execs, ResumeCapture(e)
  PROVE  TypeOK'
<1>1. job' \in [Execs -> JobType]
  BY Read, StepTyped, JobUpdates DEF TypeOK, ResumeCapture
<1> QED
  BY <1>1, Read, StepTyped, PcNames, QueueTyped, JobTyped, SchedulerConstants
     DEF TypeOK, ResumeCapture, queueVars, historyVars, countVars

\* The step ResumeInterrupt preserves the types
LEMMA ResumeInterruptTyped ==
  ASSUME TypeOK, Bounds, Working, NEW e \in Execs, ResumeInterrupt(e)
  PROVE  TypeOK'
<1>1. job' \in [Execs -> JobType]
  BY Read, ResumeIndexIsFirst, StepTyped, JobUpdates DEF TypeOK, ResumeInterrupt
<1>2. rows' \in Seq(RowType)
  BY InterruptedTyped DEF TypeOK, ResumeInterrupt
<1> QED
  BY <1>1, <1>2, Read, StepTyped, PcNames, QueueTyped, JobTyped, SchedulerConstants
     DEF TypeOK, ResumeInterrupt, queueVars, historyVars, countVars

\* The step ResumeRead preserves the types
LEMMA ResumeReadTyped ==
  ASSUME TypeOK, Bounds, Working, NEW e \in Execs, ResumeRead(e)
  PROVE  TypeOK'
<1> DEFINE candidates == IF job[e].run # 0 THEN {job[e].run} ELSE ResumableRuns
           r == CHOOSE x \in candidates : \A y \in candidates : y <= x
           x == IF job[e].run # 0 THEN "captured" ELSE "none"
<1>1. candidates # {} => r \in Nat
  <2>1. CASE job[e].run # 0
    <3>1. job[e].run <= job[e].run
      BY Read
    <3> QED
      BY <2>1, <3>1, Read
  <2>2. CASE job[e].run = 0
    <3>1. candidates \subseteq Runs
      BY <2>2 DEF ResumableRuns
    <3>2. ASSUME candidates # {} PROVE r \in Runs
      <4> HIDE DEF candidates
      <4> QED
        BY <3>1, <3>2, LatestResumable
    <3> QED
      BY <3>2, SchedulerConstants DEF Runs
  <2> QED
    BY <2>1, <2>2
<1>2. x \in Outcomes
  BY DEF Outcomes
<1>3. candidates # {} =>
        [job[e] EXCEPT !.run = r, !.target = ResumeIndex(r), !.outcome = x] \in JobType
  BY <1>1, <1>2, Read, ResumeIndexIsFirst, JobUpdates
<1>4. job' \in [Execs -> JobType] /\ pc' \in [Execs -> Pcs]
  <2> HIDE DEF x
  <2> QED
  BY <1>3, StepTyped, PcNames DEF ResumeRead, x
<1> QED
  BY <1>4, StepTyped DEF TypeOK, ResumeRead, queueVars, historyVars

\* The other actions change only what the shared steps change
LEMMA StepTypeOK ==
  ASSUME TypeOK, Bounds, Working, NEW e \in Execs, Step(e)
  PROVE  TypeOK'
<1>1. ASSUME \/ ClaimRefused(e) \/ ArmWatchdog(e) \/ VerifyHistory(e)
        \/ Continue(e) \/ DropNext(e) \/ MakeNext(e)
        \/ ClearCompleted(e) \/ StarterCommit(e) \/ StarterRollback(e)
        \/ ResumeCommit(e) \/ WorkerFires(e) \/ StarterFires(e)
        \/ ResumeCalled(e) \/ Crash(e)
      PROVE  TypeOK'
  BY <1>1, StepTyped, PcNames
     DEF TypeOK, ClaimRefused, ArmWatchdog, VerifyHistory, Continue, DropNext, MakeNext,
         ClearCompleted, StarterCommit, StarterRollback, ResumeCommit, WorkerFires,
         StarterFires, ResumeCalled, Crash,
         queueVars, historyVars, countVars
<1>2. ASSUME Claim(e) PROVE TypeOK'
  <2>1. lastToken' \in 0..MaxClaims /\ lastToken' \in Nat
    BY <1>2, Read, SchedulerConstants DEF TypeOK, Claim
  <2>2. active' \in ClaimType
    BY <1>2, <2>1, Read, QueueTyped, SchedulerConstants DEF Claim
  <2>3. Job(queue.run, queue.index, queue.failed, lastToken') \in JobType
    BY <2>1, Read, JobTyped
  <2>4. pc' \in [Execs -> Pcs] /\ job' \in [Execs -> JobType]
    BY <1>2, <2>3, StepTyped, PcNames DEF Claim
  <2>5. UNCHANGED <<queue, checkpoint, nextTrig, paused, historyVars, lastRun, faults>>
    BY <1>2 DEF Claim
  <2> QED
    BY <2>1, <2>2, <2>4, <2>5 DEF TypeOK, historyVars
<1>3. ASSUME ClaimCompletion(e) PROVE TypeOK'
  <2>1. Job(queue.run, 0, queue.failed, 0) \in JobType /\ active' \in ClaimType
    BY <1>3, Read, JobTyped, QueueTyped, SchedulerConstants DEF ClaimCompletion
  <2>2. pc' \in [Execs -> Pcs] /\ job' \in [Execs -> JobType]
    BY <1>3, <2>1, StepTyped, PcNames DEF ClaimCompletion
  <2>3. UNCHANGED <<queue, checkpoint, nextTrig, paused, historyVars, countVars>>
    BY <1>3 DEF ClaimCompletion
  <2> QED
    BY <2>1, <2>2, <2>3 DEF TypeOK, historyVars, countVars
<1> QED
  BY <1>1, <1>2, <1>3, CheckpointClaimedTyped, RecordStartTyped, CheckpointStartedTyped, ExportTyped,
     MakeBackupTyped, RecordResultTyped, CheckpointSnapshotTyped, FinalizeTyped,
     AdvanceTyped, RecordCompleteTyped, RecordResumedTyped, StarterCaptureTyped,
     StarterRecoverTyped, StarterCreateTyped, StarterRecordRunTyped,
     ResumeCaptureTyped, ResumeReadTyped, ResumeInterruptTyped
     DEF Step, Progress

-----------------------------------------------------------------------------
(* What a step of an execution can change *)

\* What the shared steps do to the execution that takes them, and to no other
LEMMA SharedEffect ==
  ASSUME TypeOK, NEW e \in Execs
  PROVE  /\ \A w : Goto(e, w) => pc'[e] = w /\ \A f \in Execs \ {e} : pc'[f] = pc[f]
         /\ \A j : Remember(e, j) => job'[e] = j /\ \A f \in Execs \ {e} : job'[f] = job[f]
         /\ End(e) => /\ pc'[e] = "idle" /\ job'[e] = NoJob
                      /\ \A f \in Execs \ {e} : pc'[f] = pc[f] /\ job'[f] = job[f]
BY DEF TypeOK, Goto, Remember, End


\* Which actions change what
LEMMA StepEffect ==
  ASSUME NEW e \in Execs, Step(e)
  PROVE  /\ \/ UNCHANGED job \/ End(e) \/ Claim(e) \/ ClaimCompletion(e) \/ Export(e)
            \/ MakeBackup(e) \/ Advance(e) \/ StarterCapture(e) \/ StarterRecover(e)
            \/ StarterCreate(e) \/ ResumeCapture(e) \/ ResumeRead(e) \/ ResumeInterrupt(e)
         /\ \/ UNCHANGED <<queue, active>> \/ ClearCompleted(e) \/ StarterRollback(e)
            \/ StarterCommit(e) \/ ResumeCommit(e) \/ Claim(e) \/ ClaimCompletion(e)
            \/ Advance(e) \/ StarterCreate(e)
         /\ backups' = backups \/ MakeBackup(e)
         /\ lastToken' = lastToken \/ Claim(e)
         /\ lastRun' = lastRun \/ StarterCreate(e)
         /\ \/ UNCHANGED runStatus \/ RecordComplete(e) \/ RecordResumed(e)
            \/ StarterRecordRun(e)
         /\ \/ UNCHANGED rows \/ RecordStart(e) \/ RecordResult(e)
            \/ StarterRecover(e) \/ ResumeInterrupt(e)
         /\ \/ UNCHANGED checkpoint \/ CheckpointClaimed(e) \/ CheckpointStarted(e)
            \/ CheckpointSnapshot(e) \/ Finalize(e)
<1> USE DEF Step, Progress, ClaimRefused, ClaimCompletion, Claim, ArmWatchdog, CheckpointClaimed,
        RecordStart, CheckpointStarted, Export, MakeBackup, RecordResult, VerifyHistory,
        CheckpointSnapshot, Finalize, Advance, Continue, DropNext, MakeNext, RecordComplete,
        ClearCompleted, RecordResumed, StarterCapture, StarterRecover, StarterCommit,
        StarterCreate, StarterRecordRun, StarterRollback, ResumeCapture, ResumeRead,
        ResumeInterrupt, ResumeCommit, WorkerFires, StarterFires, ResumeCalled, Crash,
        CheckpointStep, queueVars, historyVars, countVars
<1>1. \/ UNCHANGED job \/ End(e) \/ Claim(e) \/ ClaimCompletion(e) \/ Export(e)
      \/ MakeBackup(e) \/ Advance(e) \/ StarterCapture(e) \/ StarterRecover(e)
      \/ StarterCreate(e) \/ ResumeCapture(e) \/ ResumeRead(e) \/ ResumeInterrupt(e)
  OBVIOUS
<1>2. \/ UNCHANGED <<queue, active>> \/ ClearCompleted(e) \/ StarterRollback(e)
      \/ StarterCommit(e) \/ ResumeCommit(e) \/ Claim(e) \/ ClaimCompletion(e)
      \/ Advance(e) \/ StarterCreate(e)
  OBVIOUS
<1>3. backups' = backups \/ MakeBackup(e)
  OBVIOUS
<1>4. lastToken' = lastToken \/ Claim(e)
  OBVIOUS
<1>5. lastRun' = lastRun \/ StarterCreate(e)
  OBVIOUS
<1>6. \/ UNCHANGED runStatus \/ RecordComplete(e) \/ RecordResumed(e)
      \/ StarterRecordRun(e)
  OBVIOUS
<1>7. \/ UNCHANGED rows \/ RecordStart(e) \/ RecordResult(e)
      \/ StarterRecover(e) \/ ResumeInterrupt(e)
  OBVIOUS
<1>8. \/ UNCHANGED checkpoint \/ CheckpointClaimed(e) \/ CheckpointStarted(e)
      \/ CheckpointSnapshot(e) \/ Finalize(e)
  OBVIOUS
<1> QED
  BY <1>1, <1>2, <1>3, <1>4, <1>5, <1>6, <1>7, <1>8

\* A step changes the stage and the local variables of its own execution only
LEMMA OthersKept ==
  ASSUME TypeOK, NEW e \in Execs, Step(e)
  PROVE  \A f \in Execs \ {e} : pc'[f] = pc[f] /\ job'[f] = job[f]
BY SharedEffect
   DEF Step, Progress, ClaimRefused, ClaimCompletion, Claim, ArmWatchdog, CheckpointClaimed,
        RecordStart, CheckpointStarted, Export, MakeBackup, RecordResult, VerifyHistory,
        CheckpointSnapshot, Finalize, Advance, Continue, DropNext, MakeNext, RecordComplete,
        ClearCompleted, RecordResumed, StarterCapture, StarterRecover, StarterCommit,
        StarterCreate, StarterRecordRun, StarterRollback, ResumeCapture, ResumeRead,
        ResumeInterrupt, ResumeCommit, WorkerFires, StarterFires, ResumeCalled, Crash,
        CheckpointStep, queueVars, historyVars, countVars

\* An execution gets a token by Claim only, and its run from the queue, a creation
\* or the history
LEMMA JobEffect ==
  ASSUME TypeOK, NEW e \in Execs, Step(e)
  PROVE  /\ Claim(e) \/ job'[e].token \in {0, job[e].token}
         /\ \/ StarterCreate(e) \/ ResumeRead(e)
            \/ job'[e].run \in {job[e].run, queue.run, 0}
<1> DEFINE Goal == /\ Claim(e) \/ job'[e].token \in {0, job[e].token}
                   /\ \/ StarterCreate(e) \/ ResumeRead(e)
                      \/ job'[e].run \in {job[e].run, queue.run, 0}
<1>1. ASSUME UNCHANGED job \/ End(e) PROVE Goal
  BY <1>1, Read DEF End, Goto, Remember, NoJob, Job, TypeOK, JobType
<1>2. ASSUME Claim(e) PROVE Goal
  BY <1>2, Read DEF Claim, Goto, Remember, End, Job, NoJob, TypeOK, JobType
<1>3. ASSUME ClaimCompletion(e) PROVE Goal
  BY <1>3, Read DEF ClaimCompletion, Goto, Remember, End, Job, NoJob, TypeOK, JobType
<1>4. ASSUME Export(e) PROVE Goal
  BY <1>4, Read DEF Export, Goto, Remember, End, Job, NoJob, TypeOK, JobType
<1>5. ASSUME MakeBackup(e) PROVE Goal
  BY <1>5, Read DEF MakeBackup, Goto, Remember, End, Job, NoJob, TypeOK, JobType
<1>6. ASSUME Advance(e) PROVE Goal
  BY <1>6, Read DEF Advance, Goto, Remember, End, Job, NoJob, TypeOK, JobType
<1>7. ASSUME StarterCapture(e) \/ ResumeCapture(e) PROVE Goal
  BY <1>7, Read DEF StarterCapture, ResumeCapture, Goto, Remember, End, Job, NoJob, TypeOK, JobType
<1>8. ASSUME StarterRecover(e) \/ ResumeInterrupt(e) PROVE Goal
  BY <1>8, Read DEF StarterRecover, ResumeInterrupt, Goto, Remember, End, Job, NoJob, TypeOK, JobType
<1>9. ASSUME StarterCreate(e) PROVE Goal
  BY <1>9, Read DEF StarterCreate, Goto, Remember, End, Job, NoJob, TypeOK, JobType
<1>10. ASSUME ResumeRead(e) PROVE Goal
  <2> DEFINE candidates == IF job[e].run # 0 THEN {job[e].run} ELSE ResumableRuns
             r == CHOOSE x \in candidates : \A y \in candidates : y <= x
  <2>1. CASE End(e)
    BY <1>10, <2>1, Read DEF Goto, Remember, End, Job, NoJob, TypeOK, JobType
  <2>2. CASE ~End(e)
    <3>1. \E y, z : Remember(e, [job[e] EXCEPT !.run = r, !.target = y, !.outcome = z])
      BY <1>10, <2>2 DEF ResumeRead
    <3> HIDE DEF r
    <3> QED
      BY <1>10, <3>1, Read DEF Remember, TypeOK, JobType
  <2> QED
    BY <2>1, <2>2
<1> QED
  BY <1>1, <1>2, <1>3, <1>4, <1>5, <1>6, <1>7, <1>8, <1>9, <1>10, StepEffect

\* Identifiers stay below the counters they are handed out from
LEMMA BoundsStep ==
  ASSUME TypeOK, Bounds, NEW e \in Execs, Step(e)
  PROVE  Bounds'
<1>1. lastToken \in Nat /\ lastToken' \in Nat /\ lastToken <= lastToken'
  BY StepEffect, Read DEF Claim
<1>2. lastRun \in Nat /\ lastRun' \in Nat /\ lastRun <= lastRun'
  BY StepEffect, Read DEF StarterCreate
<1>3. active'.token <= lastToken'
  <2>1. CASE UNCHANGED active
    BY <1>1, <2>1, Read DEF Bounds
  <2>2. CASE active' = NoClaim
    BY <1>1, <2>2 DEF NoClaim
  <2>3. CASE Claim(e)
    BY <1>1, <2>3 DEF Claim
  <2> QED
    BY <2>1, <2>2, <2>3, StepEffect
       DEF ClearCompleted, StarterRollback, StarterCommit, ResumeCommit, ClearQueue, Reopen,
           ClaimCompletion, Advance, StarterCreate
<1>4. queue'.run <= lastRun'
  <2>1. CASE UNCHANGED queue
    BY <1>2, <2>1, Read DEF Bounds
  <2>2. CASE ClearQueue
    BY <1>2, <2>2 DEF ClearQueue, NoQueue
  <2>3. CASE Reopen(e)
    BY <1>2, <2>3, Read DEF Reopen, Bounds
  <2>4. CASE Advance(e)
    BY <1>2, <2>4, Read DEF Advance, Bounds, TypeOK, QueueType
  <2>5. CASE StarterCreate(e)
    BY <1>2, <2>5, Read DEF StarterCreate, Bounds
  <2> QED
    BY <2>1, <2>2, <2>3, <2>4, <2>5, StepEffect
       DEF Claim, ClaimCompletion, ClearCompleted, StarterRollback, StarterCommit, ResumeCommit
<1>5. job'[e].token <= lastToken'
  <2>1. CASE Claim(e)
    BY <1>1, <2>1, SharedEffect DEF Claim, Job
  <2> QED
    BY <1>1, <2>1, JobEffect, Read DEF Bounds
<1>6. job'[e].run <= lastRun'
  <2>1. CASE StarterCreate(e)
    BY <1>2, <2>1, SharedEffect, Read DEF StarterCreate, Bounds, Job, NoJob
  <2>2. CASE ResumeRead(e)
    <3> DEFINE candidates == IF job[e].run # 0 THEN {job[e].run} ELSE ResumableRuns
               r == CHOOSE x \in candidates : \A y \in candidates : y <= x
    <3>1. CASE End(e)
      BY <1>2, <3>1, SharedEffect DEF NoJob, Job
    <3>2. CASE ~End(e)
      <4>1. candidates # {} /\ \E y, z : Remember(e, [job[e] EXCEPT !.run = r, !.target = y, !.outcome = z])
        BY <2>2, <3>2 DEF ResumeRead
      <4>2. r <= lastRun
        <5>1. CASE job[e].run # 0
          <6>1. r = job[e].run
            BY <5>1, Read
          <6> QED
            BY <6>1 DEF Bounds
        <5>2. CASE job[e].run = 0
          <6>1. \A x \in candidates : x \in Runs /\ runStatus[x] # "absent"
            BY <5>2 DEF ResumableRuns
          <6>2. candidates \subseteq Runs
            BY <6>1
          <6>3. r \in candidates
            <7> HIDE DEF candidates
            <7> QED
              BY <4>1, <6>2, LatestResumable
          <6> QED
            BY <6>1, <6>3 DEF Bounds
        <5> QED
          BY <5>1, <5>2
      <4>3. job'[e].run = r
        <5> HIDE DEF r
        <5> QED
          BY <4>1, Read DEF Remember, TypeOK, JobType
      <4> QED
        <5> HIDE DEF r
        <5> QED
          BY <4>2, <4>3, <1>2, <2>2 DEF ResumeRead
    <3> QED
      BY <3>1, <3>2
  <2> QED
    BY <1>2, <2>1, <2>2, JobEffect, Read DEF Bounds
<1>7. \A f \in Execs \ {e} : job'[f].run <= lastRun' /\ job'[f].token <= lastToken'
  BY <1>1, <1>2, OthersKept, Read DEF Bounds
<1>8. ASSUME NEW r \in Runs, runStatus'[r] # "absent" PROVE r <= lastRun'
  <2>1. runStatus'[r] = runStatus[r] \/ r = job[e].run
    BY StepEffect DEF TypeOK, RecordComplete, RecordResumed, StarterRecordRun
  <2>2. r \in Nat
    BY SchedulerConstants DEF Runs
  <2> QED
    BY <1>2, <1>8, <2>1, <2>2, Read DEF Bounds
<1> QED
  BY <1>3, <1>4, <1>5, <1>6, <1>7, <1>8 DEF Bounds

\* A worker that stays between its claim and the end of its finalization keeps its
\* position and token, and moves neither the queue nor the claim
LEMMA HoldingKept ==
  ASSUME TypeOK, NEW e \in Execs, Step(e), pc'[e] \in Holding, ~Claim(e)
  PROVE  /\ pc[e] \in Holding
         /\ UNCHANGED <<queue, active>> 
         /\ job'[e].run = job[e].run /\ job'[e].index = job[e].index
         /\ job'[e].token = job[e].token /\ job'[e].failed = job[e].failed
<1>1. /\ pc[e] \in Holding
      /\ \/ UNCHANGED job \/ Export(e) \/ MakeBackup(e)
      /\ UNCHANGED <<queue, active>>
  BY SharedEffect
     DEF Step, Progress, ClaimRefused, ClaimCompletion, ArmWatchdog, CheckpointClaimed,
         RecordStart, CheckpointStarted, Export, MakeBackup, RecordResult, VerifyHistory,
         CheckpointSnapshot, Finalize, Advance, Continue, DropNext, MakeNext,
         RecordComplete, ClearCompleted, RecordResumed, StarterCapture, StarterRecover,
         StarterCommit, StarterCreate, StarterRecordRun, StarterRollback, ResumeCapture,
         ResumeRead, ResumeInterrupt, ResumeCommit, WorkerFires, StarterFires,
         ResumeCalled, Crash, CheckpointStep, Holding, queueVars, historyVars, countVars
<1>2. CASE UNCHANGED job
  BY <1>1, <1>2
<1>3. CASE Export(e)
  <2>1. UNCHANGED job \/ \E x \in Outcomes : Remember(e, [job[e] EXCEPT !.outcome = x])
    BY <1>3 DEF Export, Outcomes
  <2>2. ASSUME NEW x \in Outcomes, Remember(e, [job[e] EXCEPT !.outcome = x])
        PROVE  job'[e] = [job[e] EXCEPT !.outcome = x]
    BY <2>2 DEF Remember, TypeOK
  <2> QED
    BY <1>1, <2>1, <2>2, Read DEF JobType
<1>4. CASE MakeBackup(e)
  <2>1. \E x \in {"ok", "error"} : Remember(e, [job[e] EXCEPT !.outcome = x])
    BY <1>4 DEF MakeBackup
  <2> QED
    BY <1>1, <2>1, Read DEF Remember, TypeOK, JobType
<1> QED
  BY <1>1, <1>2, <1>3, <1>4

\* A worker that has claimed keeps naming a run, an existing position and a token
LEMMA WorkingStep ==
  ASSUME TypeOK, Bounds, Working, NEW e \in Execs, Step(e)
  PROVE  Working'
<1>1. ASSUME pc'[e] \in Holding
      PROVE  job'[e].run # 0 /\ job'[e].index < N /\ job'[e].token # 0
  <2>1. CASE Claim(e)
    BY <2>1, SharedEffect, Read DEF Claim, Job
  <2>2. CASE ~Claim(e)
    BY <2>2, <1>1, HoldingKept, Read DEF Working
  <2> QED
    BY <2>1, <2>2
<1> QED
  BY <1>1, OthersKept DEF Working

-----------------------------------------------------------------------------
(* Commands without an execution, initial states, and the theorem *)

\* The operator commands preserve the types and the identifiers
LEMMA CommandTyped ==
  ASSUME TypeOK, Bounds, Working, Remove \/ Quiesce \/ OpenGate
  PROVE  TypeOK' /\ Bounds' /\ Working'
<1>1. CASE Remove
  <2>1. rows' \in Seq(RowType)
    BY <1>1, InterruptedTyped DEF TypeOK, Remove
  <2>2. runStatus' \in [Runs -> RunStatuses]
    BY <1>1 DEF TypeOK, Remove, RunStatuses
  <2>3. TypeOK'
    BY <1>1, <2>1, <2>2, StepTyped DEF TypeOK, Remove
  <2>4. \A r \in Runs : runStatus'[r] # "absent" => runStatus[r] # "absent"
    BY <1>1 DEF TypeOK, Remove
  <2>5. queue'.run = 0 /\ active'.token = 0
    BY <1>1 DEF Remove, ClearQueue, NoQueue, NoClaim
  <2>6. UNCHANGED <<pc, job, lastRun, lastToken>>
    BY <1>1 DEF Remove
  <2>7. lastRun \in Nat /\ lastToken \in Nat
    BY SchedulerConstants DEF TypeOK
  <2> QED
    BY <2>3, <2>4, <2>5, <2>6, <2>7 DEF Bounds, Working
<1>2. CASE Quiesce \/ OpenGate
  <2>1. paused' \in BOOLEAN
    BY <1>2 DEF Quiesce, OpenGate
  <2>2. nextTrig' \in Nat /\ faults' \in 0..MaxFaults
    BY <1>2, StepTyped DEF TypeOK, Quiesce, OpenGate, countVars
  <2>3. TypeOK'
    BY <1>2, <2>1, <2>2 DEF TypeOK, Quiesce, OpenGate, historyVars, countVars
  <2>4. UNCHANGED <<pc, job, lastRun, lastToken, queue, active, runStatus>>
    BY <1>2 DEF Quiesce, OpenGate, historyVars, countVars
  <2> QED
    BY <2>3, <2>4 DEF Bounds, Working
<1> QED
  BY <1>1, <1>2

\* The initial state is well typed
LEMMA InitTyped ==
  ASSUME Init
  PROVE  TypeOK /\ Bounds /\ Working
<1>1. queue \in QueueType /\ active \in ClaimType
  BY QueueTyped DEF Init
<1>2. checkpoint \in CheckpointType
  BY SchedulerConstants DEF Init, NoCheckpoint, CheckpointType, Phases
<1>3. pc \in [Execs -> Pcs] /\ job \in [Execs -> JobType]
  BY PcNames, JobTyped DEF Init
<1>4. runStatus \in [Runs -> RunStatuses] /\ rows \in Seq(RowType)
  BY DEF Init, RunStatuses
<1>5. paused \in BOOLEAN
  BY DEF Init
<1>6. /\ nextTrig \in Nat /\ backups \subseteq BackupType
      /\ lastRun \in 0..MaxRuns /\ lastToken \in 0..MaxClaims /\ faults \in 0..MaxFaults
  BY SchedulerConstants DEF Init
<1>7. TypeOK
  BY <1>1, <1>2, <1>3, <1>4, <1>5, <1>6 DEF TypeOK
<1>8. Bounds
  BY DEF Init, Bounds, NoQueue, NoClaim, NoJob, Job
<1>9. Working
  BY DEF Init, Working, Holding
<1> QED
  BY <1>7, <1>8, <1>9

\* The first part of the inductive invariant
Typed == TypeOK /\ Bounds /\ Working

\* Every reachable state is typed, its identifiers are among those handed out, and
\* every claimed worker has a run, a position of the queue and a token.
THEOREM TypedInvariant == Spec => []Typed
<1>1. Init => Typed
  BY InitTyped DEF Typed
<1>2. Typed /\ [Next]_vars => Typed'
  <2> SUFFICES ASSUME Typed, [Next]_vars PROVE Typed'
    OBVIOUS
  <2>1. CASE \E e \in Execs : Step(e)
    BY <2>1, StepTypeOK, BoundsStep, WorkingStep DEF Typed
  <2>2. CASE Remove \/ Quiesce \/ OpenGate
    BY <2>2, CommandTyped DEF Typed
  <2>3. CASE UNCHANGED vars
    BY <2>3 DEF Typed, TypeOK, Bounds, Working, vars, queueVars, historyVars, countVars
  <2> QED
    BY <2>1, <2>2, <2>3 DEF Next
<1> QED
  BY <1>1, <1>2, PTL DEF Spec

\* TypeOK holds in every reachable state, for every number of executions, exporters,
\* runs, claims and faults (24_TriggerManagement.js, 26_RunHistory.js).
THEOREM TypeCorrect == Spec => []TypeOK
<1>1. Typed => TypeOK
  BY DEF Typed
<1> QED
  BY <1>1, TypedInvariant, PTL

-----------------------------------------------------------------------------
(* The claim *)

\* At most one execution is inside a stage that keeps the UserLock
Locking ==
  \A e, f \in Execs : pc[e] \in Locked /\ pc[f] \in Locked => e = f

\* A worker whose token is the persisted one sees the queue it claimed
HeldClaim ==
  \A e \in Execs : pc[e] \in Holding /\ active.token = job[e].token =>
    /\ queue.run = job[e].run /\ queue.index = job[e].index
    /\ active.index = job[e].index /\ queue.failed = job[e].failed

\* A worker about to move the queue owns the claim, or the queue was cleared
AdvanceOwned ==
  \A e \in Execs : pc[e] = "advance" =>
    active.token = job[e].token \/ (queue.run = 0 /\ active.token = 0)

ClaimPart == Locking /\ HeldClaim /\ ClaimTracksQueue /\ AdvanceOwned

\* The queue or the claim changes only with the claim given up, or by Claim
LEMMA ClaimEffect ==
  ASSUME NEW e \in Execs, Step(e)
  PROVE  active' = NoClaim \/ UNCHANGED <<queue, active>> \/ Claim(e)
BY StepEffect
   DEF ClearCompleted, StarterRollback, StarterCommit, ResumeCommit, ClearQueue, Reopen,
       ClaimCompletion, Advance, StarterCreate

\* Only the owner of the lock moves through its stages
LEMMA LockEffect ==
  ASSUME TypeOK, NEW e \in Execs, Step(e)
  PROVE  /\ pc'[e] \in Locked => pc[e] \in Locked \/ LockFree
         /\ LockFree \/ pc[e] \in Locked \/ UNCHANGED <<queue, active>>
              \/ (queue' = NoQueue /\ active' = NoClaim)
         /\ LockFree \/ pc[e] \in Locked \/ UNCHANGED checkpoint
         /\ pc'[e] = "advance" => Finalize(e)
<1> USE SharedEffect
    DEF Step, Progress, ClaimRefused, ClaimCompletion, Claim, ArmWatchdog,
        CheckpointClaimed, RecordStart, CheckpointStarted, Export, MakeBackup,
        RecordResult, VerifyHistory, CheckpointSnapshot, Advance, Continue,
        DropNext, MakeNext, RecordComplete, ClearCompleted, RecordResumed, StarterCapture,
        StarterRecover, StarterCommit, StarterCreate, StarterRecordRun, StarterRollback,
        ResumeCapture, ResumeRead, ResumeInterrupt, ResumeCommit, WorkerFires,
        StarterFires, ResumeCalled, Crash, CheckpointStep, queueVars, historyVars, countVars
<1>1. pc'[e] \in Locked => pc[e] \in Locked \/ LockFree
  BY DEF Locked, Finalize
<1>2. LockFree \/ pc[e] \in Locked \/ UNCHANGED <<queue, active>>
        \/ (queue' = NoQueue /\ active' = NoClaim)
  BY StepEffect DEF Locked, ClearQueue
<1>3. LockFree \/ pc[e] \in Locked \/ UNCHANGED checkpoint
  BY DEF Locked, Finalize
<1>4. pc'[e] = "advance" => Finalize(e)
  OBVIOUS
<1> QED
  BY <1>1, <1>2, <1>3, <1>4

\* A finalization that goes on to advance the queue has checked the claim and, for a
\* success, has left the proof in the checkpoint (qboDailyV1290Commit_)
LEMMA FinalizeEffect ==
  ASSUME TypeOK, NEW e \in Execs, Finalize(e), pc'[e] = "advance"
  PROVE  /\ active.token = job[e].token /\ UNCHANGED <<queue, active, job, backups>>
         /\ job[e].outcome = "ok" =>
              /\ OwnsClaim(e) /\ SnapshotProved(e)
              /\ WriteCheckpoint(e, "QUEUE_ADVANCED", checkpoint.backup)
         /\ job[e].outcome # "ok" => UNCHANGED checkpoint
BY SharedEffect DEF Finalize, historyVars

\* Every step of an execution keeps the claim part of the invariant
LEMMA ClaimStep ==
  ASSUME Typed, ClaimPart, NEW e \in Execs, Step(e)
  PROVE  ClaimPart'
<1> USE DEF Typed
<1>1. Locking'
  <2>1. ASSUME NEW f \in Execs \ {e}, NEW g \in Execs \ {e}, pc'[f] \in Locked, pc'[g] \in Locked
        PROVE  f = g
    BY <2>1, OthersKept DEF ClaimPart, Locking
  <2>2. ASSUME NEW f \in Execs \ {e}, pc'[e] \in Locked, pc'[f] \in Locked
        PROVE  FALSE
    BY <2>2, OthersKept, LockEffect DEF ClaimPart, Locking, LockFree
  <2> QED
    BY <2>1, <2>2 DEF Locking
<1>2. HeldClaim'
  <2>1. ASSUME NEW f \in Execs, pc'[f] \in Holding, active'.token = job'[f].token
        PROVE  /\ queue'.run = job'[f].run /\ queue'.index = job'[f].index
               /\ active'.index = job'[f].index /\ queue'.failed = job'[f].failed
    <3>1. job'[f].token # 0
      BY <2>1, WorkingStep DEF Working
    <3>2. active' # NoClaim
      BY <2>1, <3>1 DEF NoClaim
    <3>3. CASE Claim(e) /\ f = e
      BY <3>3, SharedEffect DEF Claim, Job
    <3>4. CASE Claim(e) /\ f # e
      <4>1. active'.token = lastToken + 1
        BY <3>4 DEF Claim
      <4>2. job'[f].token <= lastToken /\ job'[f].token \in Nat
        BY <3>4, OthersKept, Read DEF Bounds
      <4> QED
        BY <4>1, <4>2, <2>1, Read
    <3>5. CASE ~Claim(e)
      <4>1. UNCHANGED <<queue, active>>
        BY <3>2, <3>5, ClaimEffect
      <4>2. CASE f = e
        BY <2>1, <3>5, <4>1, <4>2, HoldingKept DEF ClaimPart, HeldClaim
      <4>3. CASE f # e
        BY <2>1, <4>1, <4>3, OthersKept DEF ClaimPart, HeldClaim
      <4> QED
        BY <4>2, <4>3
    <3> QED
      BY <3>3, <3>4, <3>5
  <2> QED
    BY <2>1 DEF HeldClaim
<1>3. ClaimTracksQueue'
  <2>1. CASE active' = NoClaim
    BY <2>1 DEF NoClaim, ClaimTracksQueue
  <2>2. CASE UNCHANGED <<queue, active>>
    BY <2>2 DEF ClaimPart, ClaimTracksQueue
  <2>3. CASE Claim(e)
    BY <2>3 DEF Claim, ClaimTracksQueue
  <2> QED
    BY <2>1, <2>2, <2>3, ClaimEffect
<1>4. AdvanceOwned'
  <2>1. ASSUME NEW f \in Execs, pc'[f] = "advance"
        PROVE  active'.token = job'[f].token \/ (queue'.run = 0 /\ active'.token = 0)
    <3>1. CASE f = e
      <4>1. Finalize(e)
        BY <2>1, <3>1, LockEffect
      <4>2. active.token = job[e].token /\ UNCHANGED <<active, job>>
        BY <2>1, <3>1, <4>1, FinalizeEffect
      <4> QED
        BY <3>1, <4>2
    <3>2. CASE f # e
      <4>1. pc[f] = "advance" /\ job'[f] = job[f]
        BY <2>1, <3>2, OthersKept
      <4>2. ~LockFree /\ pc[e] \notin Locked
        BY <3>2, <4>1 DEF ClaimPart, Locking, LockFree, Locked
      <4>3. CASE UNCHANGED <<queue, active>>
        BY <4>1, <4>3 DEF ClaimPart, AdvanceOwned
      <4>4. CASE queue' = NoQueue /\ active' = NoClaim
        BY <4>4 DEF NoQueue, NoClaim
      <4> QED
        BY <4>2, <4>3, <4>4, LockEffect
    <3> QED
      BY <3>1, <3>2
  <2> QED
    BY <2>1 DEF AdvanceOwned
<1> QED
  BY <1>1, <1>2, <1>3, <1>4 DEF ClaimPart
-----------------------------------------------------------------------------
(* The evidence *)

\* Stages of a worker whose exporter has ended
Reporting == {"recordResult", "verify", "prove", "finalize", "advance"}

Produced(j) == [run |-> j.run, index |-> j.index, token |-> j.token]

\* A worker reports success only with its own Master Backup in Drive
JobBacked ==
  \A e \in Execs : pc[e] \in Reporting =>
    /\ job[e].outcome \in {"ok", "error", "busy"}
    /\ pc[e] \in {"verify", "prove"} => job[e].outcome = "ok"
    /\ job[e].outcome = "ok" => Produced(job[e]) \in backups

\* A checkpoint that records a snapshot names an existing one
CheckpointBacked ==
  checkpoint.phase \in {"SNAPSHOT_RECORDED", "QUEUE_ADVANCED"} =>
    [run |-> checkpoint.run, index |-> checkpoint.index, token |-> checkpoint.backup]
      \in backups

\* A success about to move the queue has its checkpoint
AdvanceReady ==
  \A e \in Execs : pc[e] = "advance" /\ job[e].outcome = "ok" =>
    /\ checkpoint.phase = "QUEUE_ADVANCED"
    /\ checkpoint.run = job[e].run /\ checkpoint.index = job[e].index

EvidencePart == JobBacked /\ CheckpointBacked /\ AdvanceReady /\ CompleteRowBacked

\* A worker comes to report from its exporter only
LEMMA ReportEffect ==
  ASSUME TypeOK, NEW e \in Execs, Step(e), pc'[e] \in Reporting
  PROVE  \/ MakeBackup(e) \/ Export(e)
         \/ /\ pc[e] \in Reporting /\ UNCHANGED job
            /\ pc'[e] \in {"verify", "prove"} =>
                 pc[e] = "verify" \/ job[e].outcome = "ok"
BY SharedEffect
   DEF Step, Progress, ClaimRefused, ClaimCompletion, Claim, ArmWatchdog,
       CheckpointClaimed, RecordStart, CheckpointStarted, RecordResult,
       VerifyHistory, CheckpointSnapshot, Finalize, Advance, Continue, DropNext, MakeNext,
       RecordComplete, ClearCompleted, RecordResumed, StarterCapture, StarterRecover,
       StarterCommit, StarterCreate, StarterRecordRun, StarterRollback, ResumeCapture,
       ResumeRead, ResumeInterrupt, ResumeCommit, WorkerFires, StarterFires,
       ResumeCalled, Crash, CheckpointStep, Reporting

\* Every step keeps: a worker reporting success has made its Master Backup
LEMMA JobBackedStep ==
  ASSUME Typed, EvidencePart, NEW e \in Execs, Step(e)
  PROVE  JobBacked'
<1> USE DEF Typed
<1>1. backups \subseteq backups'
  BY StepEffect DEF MakeBackup
<1>2. ASSUME NEW f \in Execs, pc'[f] \in Reporting
      PROVE  /\ job'[f].outcome \in {"ok", "error", "busy"}
             /\ pc'[f] \in {"verify", "prove"} => job'[f].outcome = "ok"
             /\ job'[f].outcome = "ok" => Produced(job'[f]) \in backups'
  <2>1. CASE f # e
    BY <1>1, <1>2, <2>1, OthersKept DEF EvidencePart, JobBacked
  <2>2. CASE f = e /\ MakeBackup(e)
    <3>1. /\ job'[e].run = job[e].run /\ job'[e].index = job[e].index
          /\ job'[e].token = job[e].token /\ job'[e].outcome \in {"ok", "error"}
      <4>1. \E x \in {"ok", "error"} : Remember(e, [job[e] EXCEPT !.outcome = x])
        BY <2>2 DEF MakeBackup
      <4> QED
        BY <4>1, Read DEF Remember, TypeOK, JobType
    <3>2. pc'[e] = "recordResult" /\ Produced(job[e]) \in backups'
      BY <2>2, SharedEffect DEF MakeBackup, Produced
    <3> QED
      BY <2>2, <3>1, <3>2 DEF Produced
  <2>3. CASE f = e /\ Export(e)
    <3>1. pc'[e] = "recordResult"
          /\ \E x \in {"error", "busy"} : Remember(e, [job[e] EXCEPT !.outcome = x])
      <4>1. pc'[e] # "snapshot"
        BY <1>2, <2>3 DEF Reporting
      <4> QED
        BY <2>3, <4>1, SharedEffect DEF Export
    <3>2. job'[e].outcome \in {"error", "busy"}
      <4>1. PICK x \in {"error", "busy"} : Remember(e, [job[e] EXCEPT !.outcome = x])
        BY <3>1
      <4>2. job'[e] = [job[e] EXCEPT !.outcome = x]
        BY <4>1, SharedEffect
      <4> QED
        BY <4>2, Read DEF JobType
    <3> QED
      BY <2>3, <3>1, <3>2
  <2>4. CASE f = e /\ ~MakeBackup(e) /\ ~Export(e)
    BY <1>1, <1>2, <2>4, ReportEffect DEF EvidencePart, JobBacked
  <2> QED
    BY <2>1, <2>2, <2>3, <2>4
<1> QED
  BY <1>2 DEF JobBacked

\* Every step keeps: a checkpoint with a recorded snapshot names a Master Backup that
\* exists
LEMMA CheckpointBackedStep ==
  ASSUME Typed, EvidencePart, NEW e \in Execs, Step(e)
  PROVE  CheckpointBacked'
<1> USE DEF Typed
<1>1. backups \subseteq backups'
  BY StepEffect DEF MakeBackup
<1>2. CASE UNCHANGED checkpoint
  BY <1>1, <1>2 DEF EvidencePart, CheckpointBacked
<1>3. CASE CheckpointClaimed(e) \/ CheckpointStarted(e)
  <2>1. UNCHANGED checkpoint \/ checkpoint'.phase \in {"CLAIMED", "EXPORT_STARTED"}
    BY <1>3 DEF CheckpointClaimed, CheckpointStarted, CheckpointStep, WriteCheckpoint
  <2> QED
    BY <1>2, <2>1 DEF CheckpointBacked
<1>4. CASE CheckpointSnapshot(e)
  <2>1. UNCHANGED checkpoint \/ WriteCheckpoint(e, "SNAPSHOT_RECORDED", job[e].token)
    BY <1>4 DEF CheckpointSnapshot
  <2>2. Produced(job[e]) \in backups'
    BY <1>1, <1>4 DEF EvidencePart, JobBacked, Reporting, CheckpointSnapshot
  <2> QED
    BY <1>2, <2>1, <2>2 DEF CheckpointBacked, WriteCheckpoint, Produced
<1>5. CASE Finalize(e)
  <2>1. \/ UNCHANGED checkpoint
        \/ SnapshotProved(e) /\ WriteCheckpoint(e, "QUEUE_ADVANCED", checkpoint.backup)
    BY <1>5 DEF Finalize
  <2>2. CASE SnapshotProved(e) /\ WriteCheckpoint(e, "QUEUE_ADVANCED", checkpoint.backup)
    <3>1. [run |-> job[e].run, index |-> job[e].index, token |-> checkpoint.backup] \in backups
      BY <2>2 DEF EvidencePart, CheckpointBacked, SnapshotProved, SameGeneration
    <3>2. /\ checkpoint'.run = job[e].run /\ checkpoint'.index = job[e].index
          /\ checkpoint'.backup = checkpoint.backup
      BY <2>2 DEF WriteCheckpoint
    <3> QED
      BY <1>1, <3>1, <3>2 DEF CheckpointBacked
  <2> QED
    BY <1>2, <2>1, <2>2
<1> QED
  BY <1>2, <1>3, <1>4, <1>5, StepEffect

\* Every step keeps: a worker about to advance over a success has the QUEUE_ADVANCED
\* checkpoint of its position
LEMMA AdvanceReadyStep ==
  ASSUME Typed, ClaimPart, EvidencePart, NEW e \in Execs, Step(e)
  PROVE  AdvanceReady'
<1> USE DEF Typed
<1>1. ASSUME NEW f \in Execs, pc'[f] = "advance", job'[f].outcome = "ok"
      PROVE  /\ checkpoint'.phase = "QUEUE_ADVANCED"
             /\ checkpoint'.run = job'[f].run /\ checkpoint'.index = job'[f].index
  <2>1. CASE f = e
    <3>1. Finalize(e)
      BY <1>1, <2>1, LockEffect
    <3>2. UNCHANGED job /\ WriteCheckpoint(e, "QUEUE_ADVANCED", checkpoint.backup)
      BY <1>1, <2>1, <3>1, FinalizeEffect
    <3> QED
      BY <2>1, <3>2 DEF WriteCheckpoint
  <2>2. CASE f # e
    <3>1. pc[f] = "advance" /\ job'[f] = job[f]
      BY <1>1, <2>2, OthersKept
    <3>2. ~LockFree /\ pc[e] \notin Locked
      BY <2>2, <3>1 DEF ClaimPart, Locking, LockFree, Locked
    <3>3. UNCHANGED checkpoint
      BY <3>2, LockEffect
    <3> QED
      BY <1>1, <3>1, <3>3 DEF EvidencePart, AdvanceReady
  <2> QED
    BY <2>1, <2>2
<1> QED
  BY <1>1 DEF AdvanceReady

\* Closing attempts completes none of them
LEMMA InterruptedBacked ==
  ASSUME TypeOK, CompleteRowBacked, backups \subseteq backups', NEW r, rows' = Interrupted(r)
  PROVE  CompleteRowBacked'
<1>1. rows \in Seq(RowType) /\ DOMAIN rows' = 1..Len(rows) /\ DOMAIN rows = 1..Len(rows)
  BY LenProperties DEF TypeOK, Interrupted
<1>2. ASSUME NEW k \in DOMAIN rows', rows'[k].status = "COMPLETE"
      PROVE  rows'[k] = rows[k]
  <2>1. rows[k] \in RowType
    BY <1>1, ElementOfSeq
  <2> QED
    BY <1>1, <1>2, <2>1 DEF Interrupted, Closed, RowType
<1> QED
  BY <1>1, <1>2 DEF CompleteRowBacked

\* Every step keeps: a COMPLETE row names a Master Backup that exists
LEMMA RowBackedStep ==
  ASSUME Typed, EvidencePart, NEW e \in Execs, Step(e)
  PROVE  CompleteRowBacked'
<1> USE DEF Typed
<1>1. backups \subseteq backups' /\ rows \in Seq(RowType)
  BY StepEffect DEF MakeBackup, TypeOK
<1>2. CASE UNCHANGED rows
  BY <1>1, <1>2 DEF EvidencePart, CompleteRowBacked
<1>3. CASE RecordStart(e)
  <2> DEFINE new == [run |-> job[e].run, index |-> job[e].index, token |-> job[e].token,
                     status |-> "RUNNING", backup |-> 0]
  <2>1. CASE rows' = Append(rows, new)
    <3>1. DOMAIN rows' = 1..(Len(rows) + 1) /\ rows'[Len(rows) + 1] = new
          /\ \A k \in 1..Len(rows) : rows'[k] = rows[k]
      <4> HIDE DEF new
      <4>1. rows \in Seq(RowType \union {new}) /\ new \in RowType \union {new}
        BY <1>1, SeqMonotonic
      <4> QED
        BY <2>1, <4>1, AppendProperties, LenProperties
    <3>2. DOMAIN rows = 1..Len(rows) /\ Len(rows) \in Nat
      BY <1>1, LenProperties
    <3>3. new.status # "COMPLETE"
      OBVIOUS
    <3> QED
      <4> HIDE DEF new
      <4> QED
        BY <1>1, <3>1, <3>2, <3>3 DEF EvidencePart, CompleteRowBacked
  <2> QED
    BY <1>2, <1>3, <2>1 DEF RecordStart
<1>4. CASE RecordResult(e)
  <2> DEFINE k == LastRow(job[e].run, job[e].index)
             b == IF job[e].outcome = "ok" THEN job[e].token ELSE 0
  <2>1. CASE k # 0 /\ rows' = [rows EXCEPT ![k] = Resulted(@, ResultStatus(e), b)]
    <3>1. k \in DOMAIN rows /\ rows[k].run = job[e].run /\ rows[k].index = job[e].index
      BY <1>1, <2>1, LastRowIsAttempt DEF Attempts
    <3>2. DOMAIN rows' = DOMAIN rows /\ rows'[k] = Resulted(rows[k], ResultStatus(e), b)
          /\ \A j \in DOMAIN rows \ {k} : rows'[j] = rows[j]
      <4> HIDE DEF k, b
      <4> QED
        BY <2>1, <3>1
    <3>3. rows[k] \in RowType
      BY <1>1, <3>1, ElementOfSeq, LenProperties
    <3>4. /\ rows'[k].run = job[e].run /\ rows'[k].index = job[e].index
          /\ rows'[k].status = ResultStatus(e) /\ rows'[k].backup = b
      <4> HIDE DEF k, b
      <4> QED
        BY <3>1, <3>2, <3>3 DEF Resulted, RowType
    <3>5. ResultStatus(e) = "COMPLETE" => b = job[e].token /\ Produced(job[e]) \in backups
      BY <1>4 DEF ResultStatus, EvidencePart, JobBacked, Reporting, RecordResult
    <3> QED
      <4> HIDE DEF k, b
      <4> QED
        BY <1>1, <3>2, <3>4, <3>5 DEF EvidencePart, CompleteRowBacked, Produced
  <2> QED
    BY <1>2, <1>4, <2>1 DEF RecordResult
<1>5. CASE StarterRecover(e) \/ ResumeInterrupt(e)
  <2>1. UNCHANGED rows \/ rows' = Interrupted(job[e].run)
    BY <1>5 DEF StarterRecover, ResumeInterrupt
  <2> QED
    BY <1>1, <1>2, <2>1, InterruptedBacked DEF EvidencePart
<1> QED
  BY <1>2, <1>3, <1>4, <1>5, StepEffect
-----------------------------------------------------------------------------
(* The theorems *)

\* The operator commands preserve the claim and the evidence
LEMMA CommandSafe ==
  ASSUME Typed, ClaimPart, EvidencePart, Remove \/ Quiesce \/ OpenGate
  PROVE  ClaimPart' /\ EvidencePart'
<1> USE DEF Typed
<1>1. UNCHANGED <<pc, job, checkpoint, backups>>
  BY DEF Remove, Quiesce, OpenGate, historyVars, countVars
<1>2. UNCHANGED <<queue, active>> \/ (LockFree /\ queue' = NoQueue /\ active' = NoClaim)
  BY DEF Remove, Quiesce, OpenGate, ClearQueue, historyVars, countVars
<1>3. UNCHANGED rows \/ rows' = Interrupted(queue.run)
  BY DEF Remove, Quiesce, OpenGate, historyVars, countVars
<1>4. ClaimPart'
  <2>1. CASE UNCHANGED <<queue, active>>
    BY <1>1, <2>1 DEF ClaimPart, Locking, HeldClaim, ClaimTracksQueue, AdvanceOwned
  <2>2. CASE LockFree /\ queue' = NoQueue /\ active' = NoClaim
    <3>1. Locking'
      BY <1>1 DEF ClaimPart, Locking
    <3>2. HeldClaim'
      BY <1>1, <2>2 DEF HeldClaim, Working, NoClaim
    <3>3. ClaimTracksQueue' /\ AdvanceOwned'
      BY <2>2 DEF ClaimTracksQueue, AdvanceOwned, NoClaim, NoQueue
    <3> QED
      BY <3>1, <3>2, <3>3 DEF ClaimPart
  <2> QED
    BY <1>2, <2>1, <2>2
<1>5. JobBacked' /\ CheckpointBacked' /\ AdvanceReady'
  BY <1>1 DEF EvidencePart, JobBacked, CheckpointBacked, AdvanceReady
<1>6. CompleteRowBacked'
  <2>1. CASE UNCHANGED rows
    BY <1>1, <2>1 DEF EvidencePart, CompleteRowBacked
  <2> QED
    BY <1>1, <1>3, <2>1, InterruptedBacked DEF EvidencePart
<1> QED
  BY <1>4, <1>5, <1>6 DEF EvidencePart

\* Initially nothing is claimed and nothing needs evidence
LEMMA InitSafe ==
  ASSUME Init
  PROVE  ClaimPart /\ EvidencePart
<1>1. ClaimPart
  BY DEF Init, ClaimPart, Locking, Locked, HeldClaim, Holding, ClaimTracksQueue,
         AdvanceOwned, NoClaim
<1>2. JobBacked /\ AdvanceReady
  BY DEF Init, JobBacked, Reporting, AdvanceReady
<1>3. CheckpointBacked /\ CompleteRowBacked
  BY DEF Init, NoCheckpoint, CheckpointBacked, CompleteRowBacked
<1> QED
  BY <1>1, <1>2, <1>3 DEF EvidencePart

\* The claim, the checkpoint and the history rows keep their evidence in every
\* reachable state: the conjunction is inductive relative to Typed.
THEOREM SafetyInvariant == Spec => [](ClaimPart /\ EvidencePart)
<1>1. Init => ClaimPart /\ EvidencePart
  BY InitSafe
<1>2. Typed /\ Typed' /\ ClaimPart /\ EvidencePart /\ [Next]_vars
        => (ClaimPart /\ EvidencePart)'
  <2> SUFFICES ASSUME Typed, ClaimPart, EvidencePart, [Next]_vars
               PROVE  ClaimPart' /\ EvidencePart'
    OBVIOUS
  <2>1. CASE \E e \in Execs : Step(e)
    BY <2>1, ClaimStep, JobBackedStep, CheckpointBackedStep, AdvanceReadyStep, RowBackedStep
       DEF EvidencePart
  <2>2. CASE Remove \/ Quiesce \/ OpenGate
    BY <2>2, CommandSafe
  <2>3. CASE UNCHANGED vars
    BY <2>3 DEF ClaimPart, Locking, LockFree, HeldClaim, ClaimTracksQueue, AdvanceOwned,
                EvidencePart, JobBacked, CheckpointBacked, AdvanceReady, CompleteRowBacked,
                vars, queueVars, historyVars
  <2> QED
    BY <2>1, <2>2, <2>3 DEF Next
<1> QED
  BY <1>1, <1>2, TypedInvariant, PTL DEF Spec

\* ClaimTracksQueue: whatever moves the queue gives the claim up in the same step, so
\* a persisted claim is about the current position (claimDailyQboWorker_,
\* finalizeDailyQboWorkerClaim_ and both recovery commits).
THEOREM ClaimCorrect == Spec => []ClaimTracksQueue
<1>1. ClaimPart /\ EvidencePart => ClaimTracksQueue
  BY DEF ClaimPart
<1> QED
  BY <1>1, SafetyInvariant, PTL

\* CompleteRowBacked: a COMPLETE row of the history always names an existing Master
\* Backup, although executions overwrite each other's rows
\* (recordQboScheduledExportResult_).
THEOREM RowsCorrect == Spec => []CompleteRowBacked
<1>1. ClaimPart /\ EvidencePart => CompleteRowBacked
  BY DEF EvidencePart
<1> QED
  BY <1>1, SafetyInvariant, PTL

\* The step of AdvanceProved, for the state change of any execution
LEMMA AdvanceStep ==
  ASSUME Typed, ClaimPart, EvidencePart, [Next]_vars,
         queue'.run = queue.run, queue'.index = queue.index + 1,
         queue'.failed = queue.failed, active.token # 0
  PROVE  /\ checkpoint.phase = "QUEUE_ADVANCED"
         /\ checkpoint.run = queue.run /\ checkpoint.index = queue.index
         /\ [run |-> queue.run, index |-> queue.index, token |-> checkpoint.backup]
              \in backups
<1> USE DEF Typed
<1>1. queue.run # 0 /\ queue.index \in 0..N /\ queue.run \in Nat /\ N \in Nat
  BY QueueTyped, SchedulerConstants DEF ClaimPart, ClaimTracksQueue, TypeOK
<1>2. queue' # queue /\ queue' # NoQueue
  BY <1>1 DEF NoQueue
<1>3. PICK e \in Execs : Step(e)
  <2>1. UNCHANGED queue \/ queue' = NoQueue \/ \E e \in Execs : Step(e)
    BY DEF Next, Remove, Quiesce, OpenGate, ClearQueue, vars, queueVars, historyVars, countVars
  <2> QED
    BY <1>2, <2>1
<1>4. Advance(e)
  BY <1>1, <1>2, <1>3, StepEffect
     DEF ClearCompleted, StarterRollback, StarterCommit, ResumeCommit, ClearQueue, Claim,
         ClaimCompletion, StarterCreate
<1>5. pc[e] = "advance" /\ active.token = job[e].token
  BY <1>4 DEF Advance, ClaimPart, AdvanceOwned
<1>6. queue.run = job[e].run /\ queue.index = job[e].index /\ queue.failed = job[e].failed
  BY <1>5 DEF ClaimPart, HeldClaim, Holding
<1>7. queue'.index = NextIndex(e) /\ queue'.failed = NextFailed(e)
  BY <1>4 DEF Advance, TypeOK, QueueType
<1>8. job[e].outcome = "ok"
  BY <1>1, <1>5, <1>6, <1>7, Read
     DEF NextIndex, NextFailed, EvidencePart, JobBacked, Reporting
<1>9. /\ checkpoint.phase = "QUEUE_ADVANCED"
      /\ checkpoint.run = queue.run /\ checkpoint.index = queue.index
  BY <1>5, <1>6, <1>8 DEF EvidencePart, AdvanceReady
<1> QED
  BY <1>9 DEF EvidencePart, CheckpointBacked

\* AdvanceProved: a step that moves the queue without counting a failure has its
\* checkpoint and its Master Backup, for every instance (V1290 commit under the
\* scheduler lock, finalizeDailyQboWorkerClaim_).
THEOREM AdvanceCorrect == Spec => AdvanceProved
<1>1. Typed /\ ClaimPart /\ EvidencePart /\ [Next]_vars =>
        [(/\ queue'.run = queue.run /\ queue'.index = queue.index + 1
          /\ queue'.failed = queue.failed /\ active.token # 0)
         => /\ checkpoint.phase = "QUEUE_ADVANCED"
            /\ checkpoint.run = queue.run /\ checkpoint.index = queue.index
            /\ [run |-> queue.run, index |-> queue.index, token |-> checkpoint.backup]
                 \in backups]_vars
  BY AdvanceStep
<1> QED
  BY <1>1, TypedInvariant, SafetyInvariant, PTL DEF Spec, AdvanceProved

-----------------------------------------------------------------------------
(* The count of failures *)

\* The positions before i of run r without a Master Backup among B
Lacking(B, r, i) == {j \in 0..(i - 1) : \A b \in B : b.run # r \/ b.index # j}

\* FAILED_COUNT f accounts for every position before i that lacks a Master Backup
Owed(B, r, i, f) == Cardinality(Lacking(B, r, i)) <= f

\* Every position before i has a Master Backup
Covered(B, r, i) == \A j \in 0..(i - 1) : \E b \in B : b.run = r /\ b.index = j

\* A worker carries the account of its queue from the claim to its continuation
JobOwed ==
  \A e \in Execs : pc[e] \in Holding \union {"continue"} =>
    Owed(backups, job[e].run, job[e].index, job[e].failed)

\* An execution about to close a run has the account of the whole of it
ClosingOwed ==
  \A e \in Execs : pc[e] = "recordComplete" => Owed(backups, job[e].run, N, job[e].failed)

\* Stages of a recovery that has read its resume point
Recovering == {"commit", "resumeInterrupt", "resumeCommit", "recordClosed"}

\* A resume point read from the history has Master Backups of all before it, and is
\* committed only if there is anything left to export
TargetCovered ==
  \A e \in Execs : pc[e] \in Recovering =>
    /\ Covered(backups, job[e].run, job[e].target)
    /\ pc[e] = "recordClosed" => job[e].target = N
    /\ pc[e] \in {"commit", "resumeCommit"} => job[e].target < N

AccountPart == ProgressBacked /\ JobOwed /\ ClosingOwed /\ TargetCovered /\ CompleteRunBacked

\* There are finitely many positions to lack a backup
LEMMA LackingFinite ==
  ASSUME NEW B, NEW r, NEW i \in Nat
  PROVE  IsFiniteSet(Lacking(B, r, i)) /\ Cardinality(Lacking(B, r, i)) \in Nat
<1>1. IsFiniteSet(0..(i - 1))
  BY FS_Interval
<1>2. Lacking(B, r, i) \subseteq 0..(i - 1)
  BY DEF Lacking
<1>3. IsFiniteSet(Lacking(B, r, i))
  BY <1>1, <1>2, FS_Subset
<1> QED
  BY <1>3, FS_CardinalityType

\* More backups and a higher count keep the account
LEMMA OwedGrows ==
  ASSUME NEW B, NEW C, B \subseteq C, NEW r, NEW i \in Nat, NEW f \in Nat, Owed(B, r, i, f)
  PROVE  Owed(C, r, i, f)
<1>1. Lacking(C, r, i) \in SUBSET Lacking(B, r, i)
  BY DEF Lacking
<1>2. Cardinality(Lacking(C, r, i)) <= Cardinality(Lacking(B, r, i))
  BY <1>1, LackingFinite, FS_Subset
<1> QED
  BY <1>2, LackingFinite DEF Owed

\* One position further with its backup, or counted as a failure
LEMMA OwedNext ==
  ASSUME NEW B, NEW r, NEW i \in Nat, NEW f \in Nat, Owed(B, r, i, f)
  PROVE  /\ (\E b \in B : b.run = r /\ b.index = i) => Owed(B, r, i + 1, f)
         /\ Owed(B, r, i + 1, f + 1)
<1>1. Lacking(B, r, i + 1) \subseteq Lacking(B, r, i) \union {i}
  BY DEF Lacking
<1>2. ASSUME NEW b \in B, b.run = r, b.index = i
      PROVE  Lacking(B, r, i + 1) = Lacking(B, r, i)
  BY <1>2 DEF Lacking
<1>3. /\ IsFiniteSet(Lacking(B, r, i) \union {i})
      /\ Cardinality(Lacking(B, r, i) \union {i}) <= Cardinality(Lacking(B, r, i)) + 1
  BY LackingFinite, FS_AddElement
<1>4. Cardinality(Lacking(B, r, i + 1)) <= Cardinality(Lacking(B, r, i) \union {i})
  BY <1>1, <1>3, FS_Subset
<1>5. Owed(B, r, i + 1, f + 1)
  <2>1. /\ Cardinality(Lacking(B, r, i)) \in Nat /\ Cardinality(Lacking(B, r, i + 1)) \in Nat
        /\ Cardinality(Lacking(B, r, i) \union {i}) \in Nat
    BY <1>3, LackingFinite, FS_CardinalityType
  <2> QED
    BY <1>3, <1>4, <2>1 DEF Owed
<1> QED
  BY <1>2, <1>5 DEF Owed

\* With a count of zero nothing is lacking, and the other way round
LEMMA OwedNothing ==
  ASSUME NEW B, NEW r, NEW i \in Nat
  PROVE  Owed(B, r, i, 0) <=> Covered(B, r, i)
<1>1. Lacking(B, r, i) = {} <=> Covered(B, r, i)
  BY DEF Lacking, Covered
<1>2. Cardinality(Lacking(B, r, i)) = 0 <=> Lacking(B, r, i) = {}
  BY LackingFinite, FS_EmptySet
<1> QED
  BY <1>1, <1>2, LackingFinite DEF Owed

\* ProgressBacked is the account of the persisted queue
LEMMA QueueAccount ==
  /\ ProgressBacked <=>
       (queue.run # 0 => Owed(backups, queue.run, queue.index, queue.failed))
  /\ ProgressBacked' <=>
       (queue'.run # 0 => Owed(backups', queue'.run, queue'.index, queue'.failed))
<1>1. {i \in 0..(queue.index - 1) : ~HasBackup(queue.run, i)}
        = Lacking(backups, queue.run, queue.index)
  BY DEF Lacking, HasBackup
<1>2. {i \in 0..(queue'.index - 1) : ~HasBackup(queue.run, i)'}
        = Lacking(backups', queue'.run, queue'.index)
  BY DEF Lacking, HasBackup
<1> QED
  BY <1>1, <1>2 DEF ProgressBacked, Owed

\* What the history calls complete is in Drive (getQboScheduledRunResumeState_)
LEMMA ResumePointCovered ==
  ASSUME TypeOK, CompleteRowBacked, NEW r
  PROVE  Covered(backups, r, ResumeIndex(r))
<1>1. ASSUME NEW j, IsComplete(r, j)
      PROVE  \E b \in backups : b.run = r /\ b.index = j
  <2>1. LastRow(r, j) \in Attempts(r, j) /\ rows[LastRow(r, j)].status = "COMPLETE"
    BY <1>1, LastRowIsAttempt DEF IsComplete, TypeOK
  <2> QED
    BY <2>1 DEF Attempts, CompleteRowBacked
<1> QED
  BY <1>1, ResumeIndexIsFirst DEF Covered

\* How an execution comes to hold an account
LEMMA AccountEffect ==
  ASSUME TypeOK, NEW e \in Execs, Step(e)
  PROVE  /\ pc'[e] = "continue" => Advance(e)
         /\ pc'[e] = "recordComplete" => ClaimCompletion(e) \/ Continue(e)
         /\ pc'[e] \in Recovering =>
              StarterRecover(e) \/ ResumeRead(e) \/ ResumeInterrupt(e)
<1> USE SharedEffect
    DEF Step, Progress, ClaimRefused, ClaimCompletion, Claim, ArmWatchdog,
        CheckpointClaimed, RecordStart, CheckpointStarted, Export, MakeBackup,
        RecordResult, VerifyHistory, CheckpointSnapshot, Finalize, Continue, DropNext,
        MakeNext, RecordComplete, ClearCompleted, RecordResumed, StarterCapture,
        StarterRecover, StarterCommit, StarterCreate, StarterRecordRun, StarterRollback,
        ResumeCapture, ResumeRead, ResumeInterrupt, ResumeCommit, WorkerFires,
        StarterFires, ResumeCalled, Crash, CheckpointStep
<1>1. pc'[e] = "continue" => Advance(e)
  OBVIOUS
<1>2. pc'[e] = "recordComplete" => ClaimCompletion(e) \/ Continue(e)
  BY DEF Advance
<1>3. pc'[e] \in Recovering => StarterRecover(e) \/ ResumeRead(e) \/ ResumeInterrupt(e)
  BY DEF Advance, Recovering
<1> QED
  BY <1>1, <1>2, <1>3

\* An advance moves the account with the position: a success has its backup, a
\* failure is counted, a busy exporter stays where it is
LEMMA AdvanceAccount ==
  ASSUME Typed, EvidencePart, JobOwed, NEW e \in Execs, Advance(e)
  PROVE  Owed(backups, job[e].run, NextIndex(e), NextFailed(e))
<1> USE DEF Typed
<1>1. /\ Owed(backups, job[e].run, job[e].index, job[e].failed)
      /\ job[e].outcome \in {"ok", "error", "busy"}
      /\ job[e].outcome = "ok" => Produced(job[e]) \in backups
  BY DEF Advance, JobOwed, Holding, EvidencePart, JobBacked, Reporting
<1>2. job[e].index \in Nat /\ job[e].failed \in Nat
  BY Read
<1>3. CASE job[e].outcome = "ok"
  <2>1. Produced(job[e]) \in backups /\ Produced(job[e]).run = job[e].run
        /\ Produced(job[e]).index = job[e].index
    BY <1>1, <1>3 DEF Produced
  <2>2. Owed(backups, job[e].run, job[e].index + 1, job[e].failed)
    BY <1>1, <1>2, <2>1, OwedNext
  <2> QED
    BY <1>3, <2>2 DEF NextIndex, NextFailed
<1>4. CASE job[e].outcome = "error"
  <2>1. Owed(backups, job[e].run, job[e].index + 1, job[e].failed + 1)
    BY <1>1, <1>2, OwedNext
  <2> QED
    BY <1>4, <2>1 DEF NextIndex, NextFailed
<1>5. CASE job[e].outcome = "busy"
  BY <1>1, <1>5 DEF NextIndex, NextFailed
<1> QED
  BY <1>1, <1>3, <1>4, <1>5

\* Every step keeps the account of the persisted queue
LEMMA ProgressStep ==
  ASSUME Typed, ClaimPart, EvidencePart, AccountPart, NEW e \in Execs, Step(e)
  PROVE  ProgressBacked'
<1> USE DEF Typed
<1> SUFFICES ASSUME queue'.run # 0
             PROVE  Owed(backups', queue'.run, queue'.index, queue'.failed)
  BY QueueAccount
<1>1. backups \subseteq backups'
  BY StepEffect DEF MakeBackup
<1>2. CASE UNCHANGED queue
  BY <1>1, <1>2, QueueAccount, OwedGrows, Read DEF AccountPart
<1>3. CASE queue' = NoQueue
  BY <1>3 DEF NoQueue
<1>4. CASE Advance(e)
  <2>1. /\ queue'.run = queue.run /\ queue'.index = NextIndex(e)
        /\ queue'.failed = NextFailed(e) /\ backups' = backups
    BY <1>4 DEF Advance, TypeOK, QueueType, historyVars
  <2>2. queue.run = job[e].run
    BY <1>4, <2>1 DEF Advance, ClaimPart, AdvanceOwned, HeldClaim, Holding
  <2> QED
    BY <1>4, <2>1, <2>2, AdvanceAccount DEF AccountPart
<1>5. CASE StarterCreate(e) /\ ~UNCHANGED queue
  <2>1. queue'.index = 0 /\ queue'.failed = 0
    BY <1>5 DEF StarterCreate
  <2>2. Covered(backups', queue'.run, 0)
    BY DEF Covered
  <2> QED
    BY <2>1, <2>2, OwedNothing
<1>6. CASE (StarterCommit(e) \/ ResumeCommit(e)) /\ ~UNCHANGED queue
  <2>1. /\ queue'.run = job[e].run /\ queue'.index = job[e].target /\ queue'.failed = 0
        /\ backups' = backups /\ pc[e] \in Recovering
    BY <1>6 DEF StarterCommit, ResumeCommit, Reopen, Recovering, historyVars
  <2>2. Covered(backups, job[e].run, job[e].target)
    BY <2>1 DEF AccountPart, TargetCovered
  <2> QED
    BY <2>1, <2>2, OwedNothing, Read
<1> QED
  BY <1>2, <1>3, <1>4, <1>5, <1>6, StepEffect
     DEF ClearCompleted, StarterRollback, ClearQueue, Claim, ClaimCompletion

\* Every step keeps: a worker carries the account of its queue
LEMMA JobOwedStep ==
  ASSUME Typed, ClaimPart, EvidencePart, AccountPart, NEW e \in Execs, Step(e)
  PROVE  JobOwed'
<1> USE DEF Typed
<1>1. backups \subseteq backups'
  BY StepEffect DEF MakeBackup
<1>2. ASSUME NEW f \in Execs, pc'[f] \in Holding \union {"continue"}
      PROVE  Owed(backups', job'[f].run, job'[f].index, job'[f].failed)
  <2>1. CASE f # e
    <3>1. pc[f] = pc'[f] /\ job'[f] = job[f]
      BY <2>1, OthersKept
    <3>2. Owed(backups, job[f].run, job[f].index, job[f].failed)
      BY <1>2, <3>1 DEF AccountPart, JobOwed
    <3> QED
      BY <1>1, <3>1, <3>2, OwedGrows, Read
  <2>2. CASE f = e /\ pc'[e] = "continue"
    <3>1. Advance(e)
      BY <2>2, AccountEffect
    <3>2. job'[e] = [job[e] EXCEPT !.failed = NextFailed(e), !.index = NextIndex(e)]
          /\ backups' = backups
      BY <3>1, SharedEffect DEF Advance, historyVars
    <3>3. /\ job'[e].run = job[e].run /\ job'[e].index = NextIndex(e)
          /\ job'[e].failed = NextFailed(e)
      BY <3>2, Read DEF JobType
    <3> QED
      BY <2>2, <3>1, <3>2, <3>3, AdvanceAccount DEF AccountPart
  <2>3. CASE f = e /\ Claim(e)
    <3>1. /\ job'[e].run = queue.run /\ job'[e].index = queue.index
          /\ job'[e].failed = queue.failed /\ backups' = backups /\ queue.run # 0
      BY <2>3, SharedEffect DEF Claim, Job, historyVars
    <3> QED
      BY <2>3, <3>1, QueueAccount DEF AccountPart
  <2>4. CASE f = e /\ pc'[e] \in Holding /\ ~Claim(e)
    <3>1. /\ pc[e] \in Holding
          /\ job'[e].run = job[e].run /\ job'[e].index = job[e].index
          /\ job'[e].failed = job[e].failed
      BY <2>4, HoldingKept
    <3>2. Owed(backups, job[e].run, job[e].index, job[e].failed)
      BY <3>1 DEF AccountPart, JobOwed
    <3> QED
      BY <1>1, <2>4, <3>1, <3>2, OwedGrows, Read
  <2> QED
    BY <1>2, <2>1, <2>2, <2>3, <2>4
<1> QED
  BY <1>2 DEF JobOwed

\* Every step keeps: an execution that closes a run has the account of all of it
LEMMA ClosingOwedStep ==
  ASSUME Typed, AccountPart, NEW e \in Execs, Step(e)
  PROVE  ClosingOwed'
<1> USE DEF Typed
<1>1. backups \subseteq backups' /\ N \in Nat
  BY StepEffect, Read DEF MakeBackup
<1>2. ASSUME NEW f \in Execs, pc'[f] = "recordComplete"
      PROVE  Owed(backups', job'[f].run, N, job'[f].failed)
  <2>1. CASE f # e
    <3>1. pc[f] = pc'[f] /\ job'[f] = job[f]
      BY <2>1, OthersKept
    <3>2. Owed(backups, job[f].run, N, job[f].failed)
      BY <1>2, <3>1 DEF AccountPart, ClosingOwed
    <3> QED
      BY <1>1, <3>1, <3>2, OwedGrows, Read
  <2>2. CASE f = e /\ ClaimCompletion(e)
    <3>1. /\ job'[e].run = queue.run /\ job'[e].failed = queue.failed
          /\ backups' = backups /\ queue.run # 0 /\ queue.index = N
      BY <2>2, SharedEffect, Read DEF ClaimCompletion, Job, historyVars
    <3> QED
      BY <2>2, <3>1, QueueAccount DEF AccountPart
  <2>3. CASE f = e /\ Continue(e)
    <3>1. /\ job'[e] = job[e] /\ job[e].index = N /\ pc[e] = "continue"
          /\ backups' = backups
      BY <1>2, <2>3, SharedEffect, Read DEF Continue, historyVars
    <3> QED
      BY <2>3, <3>1 DEF AccountPart, JobOwed
  <2> QED
    BY <1>2, <2>1, <2>2, <2>3, AccountEffect
<1> QED
  BY <1>2 DEF ClosingOwed

\* Every step keeps: a resume point has the Master Backups of all before it
LEMMA TargetStep ==
  ASSUME Typed, EvidencePart, AccountPart, NEW e \in Execs, Step(e)
  PROVE  TargetCovered'
<1> USE DEF Typed
<1>1. backups \subseteq backups'
  BY StepEffect DEF MakeBackup
<1>2. \A r, i : Covered(backups, r, i) => Covered(backups', r, i)
  BY <1>1 DEF Covered
<1>3. ASSUME NEW f \in Execs, pc'[f] \in Recovering
      PROVE  /\ Covered(backups', job'[f].run, job'[f].target)
             /\ pc'[f] = "recordClosed" => job'[f].target = N
             /\ pc'[f] \in {"commit", "resumeCommit"} => job'[f].target < N
  <2>1. CASE f # e
    BY <1>2, <1>3, <2>1, OthersKept DEF AccountPart, TargetCovered
  <2>2. CASE f = e /\ StarterRecover(e)
    <3>1. /\ job'[e] = [job[e] EXCEPT !.target = ResumeIndex(job[e].run)]
          /\ pc'[e] = "recordClosed" <=> ~(ResumeIndex(job[e].run) < N)
          /\ pc'[e] # "resumeCommit"
      BY <1>3, <2>2, SharedEffect DEF StarterRecover, Recovering
    <3>2. job'[e].run = job[e].run /\ job'[e].target = ResumeIndex(job[e].run)
      BY <3>1, Read DEF JobType
    <3>3. ResumeIndex(job[e].run) \in 0..N
      BY ResumeIndexIsFirst
    <3> QED
      BY <1>2, <2>2, <3>1, <3>2, <3>3, ResumePointCovered, Read DEF EvidencePart
  <2>3. CASE f = e /\ ResumeRead(e)
    <3> DEFINE candidates == IF job[e].run # 0 THEN {job[e].run} ELSE ResumableRuns
               r == CHOOSE x \in candidates : \A y \in candidates : y <= x
               z == IF job[e].run # 0 THEN "captured" ELSE "none"
    <3>1. /\ pc'[e] = "resumeInterrupt"
          /\ Remember(e, [job[e] EXCEPT !.run = r, !.target = ResumeIndex(r),
                                          !.outcome = z])
      BY <1>3, <2>3, SharedEffect DEF ResumeRead, Recovering
    <3>2. job'[e].run = r /\ job'[e].target = ResumeIndex(r)
      <4> HIDE DEF r, z
      <4>1. job'[e] = [job[e] EXCEPT !.run = r, !.target = ResumeIndex(r), !.outcome = z]
        BY <3>1, SharedEffect
      <4> QED
        BY <4>1, Read DEF JobType
    <3> HIDE DEF r
    <3> QED
      BY <1>2, <2>3, <3>1, <3>2, ResumePointCovered DEF EvidencePart
  <2>4. CASE f = e /\ ResumeInterrupt(e)
    <3> DEFINE target == IF Interrupted(job[e].run) # rows THEN ResumeIndex(job[e].run)
                         ELSE job[e].target
    <3>1. /\ pc'[e] = "resumeCommit" /\ pc[e] = "resumeInterrupt"
          /\ job'[e] = [job[e] EXCEPT !.target = target] /\ ~(target >= N)
      BY <1>3, <2>4, SharedEffect DEF ResumeInterrupt, Recovering
    <3>2. Covered(backups, job[e].run, target)
      BY <3>1, ResumePointCovered DEF AccountPart, TargetCovered, Recovering, EvidencePart
    <3>3. job'[e].run = job[e].run /\ job'[e].target = target
      <4> HIDE DEF target
      <4> QED
        BY <3>1, Read DEF JobType
    <3>4. target \in 0..N
      BY ResumeIndexIsFirst, Read
    <3> HIDE DEF target
    <3> QED
      BY <1>2, <2>4, <3>1, <3>2, <3>3, <3>4, Read
  <2> QED
    BY <1>3, <2>1, <2>2, <2>3, <2>4, AccountEffect
<1> QED
  BY <1>3 DEF TargetCovered

\* Every step keeps: a run called COMPLETE has the Master Backups of all exporters
LEMMA CompleteRunStep ==
  ASSUME Typed, AccountPart, NEW e \in Execs, Step(e)
  PROVE  CompleteRunBacked'
<1> USE DEF Typed
<1>1. backups \subseteq backups' /\ N \in Nat
  BY StepEffect, Read DEF MakeBackup
<1>2. ASSUME NEW r \in Runs, runStatus'[r] = "COMPLETE"
      PROVE  Covered(backups, r, N)
  <2>1. CASE runStatus[r] = "COMPLETE"
    BY <2>1 DEF AccountPart, CompleteRunBacked, HasBackup, Covered
  <2>2. CASE runStatus[r] # "COMPLETE"
    <3>1. RecordComplete(e) /\ job[e].run = r /\ ~(job[e].failed > 0)
      BY <1>2, <2>2, StepEffect DEF TypeOK, RecordComplete, RecordResumed, StarterRecordRun
    <3>2. CASE pc[e] = "recordComplete"
      <4>1. Owed(backups, r, N, 0)
        BY <3>1, <3>2, Read DEF AccountPart, ClosingOwed
      <4> QED
        BY <1>1, <4>1, OwedNothing
    <3>3. CASE pc[e] = "recordClosed"
      BY <3>1, <3>3 DEF AccountPart, TargetCovered, Recovering
    <3> QED
      BY <3>1, <3>2, <3>3 DEF RecordComplete
  <2> QED
    BY <2>1, <2>2
<1> QED
  BY <1>1, <1>2 DEF CompleteRunBacked, HasBackup, Covered

\* The operator commands give up the queue or leave it, and complete no run
LEMMA CommandAccount ==
  ASSUME Typed, AccountPart, Remove \/ Quiesce \/ OpenGate
  PROVE  AccountPart'
<1>1. UNCHANGED <<pc, job, backups>>
  BY DEF Remove, Quiesce, OpenGate, historyVars, countVars
<1>2. UNCHANGED queue \/ queue' = NoQueue
  BY DEF Remove, Quiesce, OpenGate, ClearQueue, historyVars, countVars
<1>3. ProgressBacked'
  BY <1>1, <1>2, QueueAccount DEF AccountPart, NoQueue
<1>4. JobOwed' /\ ClosingOwed' /\ TargetCovered'
  BY <1>1 DEF AccountPart, JobOwed, ClosingOwed, TargetCovered
<1>5. \A r \in Runs : runStatus'[r] = "COMPLETE" => runStatus[r] = "COMPLETE"
  BY DEF Remove, Quiesce, OpenGate, historyVars, countVars, Typed, TypeOK
<1>6. CompleteRunBacked'
  BY <1>1, <1>5 DEF AccountPart, CompleteRunBacked, HasBackup
<1> QED
  BY <1>3, <1>4, <1>6 DEF AccountPart

\* The accounts of the queue, of the workers, of the closings and of the recoveries
\* balance in every reachable state: the conjunction is inductive relative to Typed,
\* ClaimPart and EvidencePart.
THEOREM AccountInvariant == Spec => []AccountPart
<1>1. Init => AccountPart
  <2> SUFFICES ASSUME Init PROVE AccountPart
    OBVIOUS
  <2>1. ProgressBacked /\ CompleteRunBacked
    BY DEF Init, NoQueue, ProgressBacked, CompleteRunBacked
  <2>2. JobOwed /\ ClosingOwed /\ TargetCovered
    BY DEF Init, JobOwed, ClosingOwed, TargetCovered, Holding, Recovering
  <2> QED
    BY <2>1, <2>2 DEF AccountPart
<1>2. Typed /\ ClaimPart /\ EvidencePart /\ AccountPart /\ [Next]_vars => AccountPart'
  <2> SUFFICES ASSUME Typed, ClaimPart, EvidencePart, AccountPart, [Next]_vars
               PROVE  AccountPart'
    OBVIOUS
  <2>1. CASE \E e \in Execs : Step(e)
    BY <2>1, ProgressStep, JobOwedStep, ClosingOwedStep, TargetStep, CompleteRunStep
       DEF AccountPart
  <2>2. CASE Remove \/ Quiesce \/ OpenGate
    BY <2>2, CommandAccount
  <2>3. CASE UNCHANGED vars
    <3>1. UNCHANGED <<queue, backups, pc, job, runStatus>>
      BY <2>3 DEF vars, queueVars, historyVars
    <3> QED
      BY <3>1 DEF AccountPart, ProgressBacked, HasBackup, JobOwed, ClosingOwed,
                  TargetCovered, CompleteRunBacked
  <2> QED
    BY <2>1, <2>2, <2>3 DEF Next
<1> QED
  BY <1>1, <1>2, TypedInvariant, SafetyInvariant, PTL DEF Spec

\* ProgressBacked: the queue never stands beyond an exporter that has neither a Master
\* Backup nor a place in FAILED_COUNT (finalizeDailyQboWorkerClaim_ and both recovery
\* commits).
THEOREM ProgressCorrect == Spec => []ProgressBacked
<1>1. AccountPart => ProgressBacked
  BY DEF AccountPart
<1> QED
  BY <1>1, AccountInvariant, PTL

\* CompleteRunBacked: a run the history calls COMPLETE has a Master Backup of every
\* exporter, although its count was read long before the status is written
\* (completeDailyQboExportSchedule_).
THEOREM CompleteRunCorrect == Spec => []CompleteRunBacked
<1>1. AccountPart => CompleteRunBacked
  BY DEF AccountPart
<1> QED
  BY <1>1, AccountInvariant, PTL

-----------------------------------------------------------------------------
(* One run driven by the starter and its triggers *)

\* At most one execution is between its claim and the end of its finalization
Alone == \A e, f \in Execs : pc[e] \in Holding /\ pc[f] \in Holding => e = f

\* A working execution has the persisted claim, or its queue is gone for good
HeldOrGone ==
  \A e \in Execs : pc[e] \in Holding => active.token = job[e].token \/ queue.run = 0

\* Only the starter recovers, and only a queue that was initialized
StarterOnly ==
  \A e \in Execs : /\ pc[e] \notin ResumePcs
                   /\ pc[e] \in {"recover", "commit"} => job[e].run # 0

\* Stages of a worker whose exporter has not ended
BeforeResult == {"arm", "claimed", "recordStart", "checkpointStart", "export", "snapshot"}

\* No attempt of the position a worker is about to export is COMPLETE
Unfinished ==
  \A e \in Execs, k \in DOMAIN rows :
    pc[e] \in BeforeResult /\ rows[k].status = "COMPLETE"
      => rows[k].run # job[e].run \/ rows[k].index # job[e].index

OneRunPart == Alone /\ HeldOrGone /\ StarterOnly /\ Unfinished

\* How an execution comes to recover, to resume, or to work towards its exporter
LEMMA EntryEffect ==
  ASSUME TypeOK, NEW e \in Execs, Step(e)
  PROVE  /\ pc'[e] \in ResumePcs => Resumable \/ pc[e] \in ResumePcs
         /\ pc'[e] = "recover" => StarterCapture(e)
         /\ pc'[e] = "commit" => StarterRecover(e)
         /\ pc'[e] \in BeforeResult => Claim(e) \/ pc[e] \in BeforeResult
<1> USE SharedEffect
    DEF Step, Progress, ClaimRefused, ClaimCompletion, ArmWatchdog, CheckpointClaimed,
        RecordStart, CheckpointStarted, Export, MakeBackup, RecordResult, VerifyHistory,
        CheckpointSnapshot, Finalize, Advance, Continue, DropNext, MakeNext,
        RecordComplete, ClearCompleted, RecordResumed, StarterCommit, StarterCreate,
        StarterRecordRun, StarterRollback, ResumeCapture, ResumeRead, ResumeInterrupt,
        ResumeCommit, WorkerFires, StarterFires, ResumeCalled, Crash, CheckpointStep
<1>1. pc'[e] \in ResumePcs => Resumable \/ pc[e] \in ResumePcs
  BY DEF Claim, StarterCapture, StarterRecover, ResumePcs
<1>2. pc'[e] = "recover" => StarterCapture(e)
  BY DEF Claim, StarterRecover
<1>3. pc'[e] = "commit" => StarterRecover(e)
  BY DEF Claim, StarterCapture
<1>4. pc'[e] \in BeforeResult => Claim(e) \/ pc[e] \in BeforeResult
  BY DEF StarterCapture, StarterRecover, BeforeResult
<1> QED
  BY <1>1, <1>2, <1>3, <1>4

\* Only recordQboScheduledExportResult_ makes a row COMPLETE
LEMMA RowsEffect ==
  ASSUME TypeOK, NEW e \in Execs, Step(e), ~RecordResult(e),
         NEW k \in DOMAIN rows', rows'[k].status = "COMPLETE"
  PROVE  k \in DOMAIN rows /\ rows'[k] = rows[k]
<1>1. rows \in Seq(RowType) /\ DOMAIN rows = 1..Len(rows) /\ Len(rows) \in Nat
  BY LenProperties DEF TypeOK
<1>2. CASE UNCHANGED rows
  BY <1>2
<1>3. CASE RecordStart(e) /\ ~UNCHANGED rows
  <2> DEFINE new == [run |-> job[e].run, index |-> job[e].index, token |-> job[e].token,
                     status |-> "RUNNING", backup |-> 0]
  <2>1. rows' = Append(rows, new)
    BY <1>3 DEF RecordStart
  <2>2. new.status # "COMPLETE"
    OBVIOUS
  <2>3. DOMAIN rows' = 1..(Len(rows) + 1) /\ rows'[Len(rows) + 1] = new
        /\ \A j \in 1..Len(rows) : rows'[j] = rows[j]
    <3> HIDE DEF new
    <3>1. rows \in Seq(RowType \union {new}) /\ new \in RowType \union {new}
      BY <1>1, SeqMonotonic
    <3> QED
      BY <2>1, <3>1, AppendProperties, LenProperties
  <2> HIDE DEF new
  <2> QED
    BY <1>1, <2>2, <2>3
<1>4. CASE rows' = Interrupted(job[e].run)
  <2>1. DOMAIN rows' = 1..Len(rows) /\ rows[k] \in RowType
    BY <1>1, <1>4, ElementOfSeq DEF Interrupted
  <2> QED
    BY <1>1, <1>4, <2>1 DEF Interrupted, Closed, RowType
<1> QED
  BY <1>2, <1>3, <1>4, StepEffect DEF StarterRecover, ResumeInterrupt

\* Every step of an execution keeps the claim to one worker
LEMMA AloneStep ==
  ASSUME Typed, OneRunPart, NEW e \in Execs, Step(e)
  PROVE  Alone'
<1> USE DEF Typed
<1>1. ASSUME NEW f \in Execs, NEW g \in Execs, pc'[f] \in Holding, pc'[g] \in Holding
      PROVE  f = g
  <2>1. CASE Claim(e)
    <3>1. \A h \in Execs : pc[h] \notin Holding
      BY <2>1, Read DEF Claim, OneRunPart, HeldOrGone, Working
    <3> QED
      BY <1>1, <3>1, OthersKept
  <2>2. CASE ~Claim(e)
    <3>1. pc[f] \in Holding /\ pc[g] \in Holding
      BY <1>1, <2>2, OthersKept, HoldingKept
    <3> QED
      BY <3>1 DEF OneRunPart, Alone
  <2> QED
    BY <2>1, <2>2
<1> QED
  BY <1>1 DEF Alone

\* Every step of an execution keeps the claim of a worker, or ends the run
LEMMA HeldOrGoneStep ==
  ASSUME MaxRuns = 1, Typed, ClaimPart, OneRunPart, NEW e \in Execs, Step(e)
  PROVE  HeldOrGone'
<1> USE DEF Typed
<1>1. ASSUME NEW f \in Execs \ {e}, pc'[f] \in Holding
      PROVE  active'.token = job'[f].token \/ queue'.run = 0
  <2>1. /\ pc[f] \in Holding /\ job'[f] = job[f]
        /\ job[f].run # 0 /\ job[f].token # 0 /\ job[f].run <= lastRun
        /\ active.token = job[f].token \/ queue.run = 0
    BY <1>1, OthersKept DEF Working, OneRunPart, HeldOrGone, Bounds
  <2>2. CASE UNCHANGED <<queue, active>>
    BY <2>1, <2>2
  <2>3. CASE queue' = NoQueue
    BY <2>3 DEF NoQueue
  <2>4. CASE Claim(e)
    BY <2>1, <2>4 DEF Claim
  <2>5. CASE ClaimCompletion(e)
    <3>1. ~(queue.index < N) /\ queue.run # 0
      BY <2>5, Read DEF ClaimCompletion
    <3> QED
      BY <2>1, <3>1 DEF ClaimPart, ClaimTracksQueue
  <2>6. CASE Advance(e)
    BY <2>1, <2>6 DEF Advance, OneRunPart, Alone, Holding
  <2>7. CASE StarterCreate(e)
    <3>1. lastRun # 0 /\ lastRun \in Nat /\ job[f].run \in Nat
      BY <2>1, Read
    <3> QED
      BY <2>2, <2>7, <3>1 DEF StarterCreate
  <2>8. CASE StarterCommit(e)
    <3>1. job[e].run # 0
      BY <2>8 DEF StarterCommit, OneRunPart, StarterOnly
    <3> QED
      BY <2>1, <2>2, <2>8, <3>1 DEF StarterCommit
  <2>9. ~ResumeCommit(e)
    BY DEF ResumeCommit, OneRunPart, StarterOnly, ResumePcs
  <2> QED
    BY <2>2, <2>3, <2>4, <2>5, <2>6, <2>7, <2>8, <2>9, StepEffect
       DEF ClearCompleted, StarterRollback, ClearQueue
<1>2. ASSUME pc'[e] \in Holding
      PROVE  active'.token = job'[e].token \/ queue'.run = 0
  <2>1. CASE Claim(e)
    BY <2>1, SharedEffect DEF Claim, Job
  <2>2. CASE ~Claim(e)
    BY <1>2, <2>2, HoldingKept DEF OneRunPart, HeldOrGone
  <2> QED
    BY <2>1, <2>2
<1> QED
  BY <1>1, <1>2 DEF HeldOrGone

\* Every step of an execution leaves recoveries to the starter
LEMMA StarterOnlyStep ==
  ASSUME ~Resumable, Typed, OneRunPart, NEW e \in Execs, Step(e)
  PROVE  StarterOnly'
<1> USE DEF Typed
<1>1. \A f \in Execs \ {e} :
        /\ pc'[f] \notin ResumePcs
        /\ pc'[f] \in {"recover", "commit"} => job'[f].run # 0
  BY OthersKept DEF OneRunPart, StarterOnly
<1>2. pc'[e] \notin ResumePcs
  BY EntryEffect DEF OneRunPart, StarterOnly
<1>3. ASSUME pc'[e] = "recover" PROVE job'[e].run # 0
  <2>1. StarterCapture(e)
    BY <1>3, EntryEffect
  <2>2. queue.run # 0
    BY <1>3, <2>1, SharedEffect DEF StarterCapture
  <2>3. job'[e] = [job[e] EXCEPT !.run = queue.run, !.index = queue.index]
    BY <2>1, SharedEffect DEF StarterCapture
  <2> QED
    BY <2>2, <2>3, Read DEF JobType
<1>4. ASSUME pc'[e] = "commit" PROVE job'[e].run # 0
  <2>1. /\ job[e].run # 0
        /\ job'[e] = [job[e] EXCEPT !.target = ResumeIndex(job[e].run)]
    BY <1>4, EntryEffect, SharedEffect DEF StarterRecover, OneRunPart, StarterOnly
  <2> QED
    BY <2>1, Read DEF JobType
<1> QED
  BY <1>1, <1>2, <1>3, <1>4 DEF StarterOnly

\* Every step of an execution keeps COMPLETE attempts away from exporters to be run
LEMMA UnfinishedStep ==
  ASSUME Typed, OneRunPart, NEW e \in Execs, Step(e)
  PROVE  Unfinished'
<1> USE DEF Typed
<1>1. ASSUME NEW f \in Execs, NEW k \in DOMAIN rows', pc'[f] \in BeforeResult,
             rows'[k].status = "COMPLETE"
      PROVE  rows'[k].run # job'[f].run \/ rows'[k].index # job'[f].index
  <2>1. CASE Claim(e) /\ f = e
    <3>1. /\ rows' = rows /\ Claimable(queue.run, queue.index)
          /\ job'[e].run = queue.run /\ job'[e].index = queue.index
      BY <2>1, SharedEffect DEF Claim, Job, historyVars
    <3> QED
      BY <1>1, <2>1, <3>1 DEF Claimable, Attempts
  <2>2. CASE ~(Claim(e) /\ f = e)
    <3>1. /\ pc[f] \in BeforeResult
          /\ job'[f].run = job[f].run /\ job'[f].index = job[f].index
      BY <1>1, <2>2, OthersKept, EntryEffect, HoldingKept DEF BeforeResult, Holding
    <3>2. ~RecordResult(e)
      <4>1. pc[e] = "recordResult" => e = f
        BY <3>1 DEF OneRunPart, Alone, Holding, BeforeResult
      <4> QED
        BY <3>1, <4>1 DEF RecordResult, BeforeResult
    <3>3. k \in DOMAIN rows /\ rows'[k] = rows[k]
      BY <1>1, <3>2, RowsEffect
    <3> QED
      BY <1>1, <3>1, <3>3 DEF OneRunPart, Unfinished
  <2> QED
    BY <2>1, <2>2
<1> QED
  BY <1>1 DEF Unfinished

\* The operator commands start no execution, and a removal ends the run
LEMMA CommandOneRun ==
  ASSUME Typed, OneRunPart, Remove \/ Quiesce \/ OpenGate
  PROVE  OneRunPart'
<1>1. UNCHANGED <<pc, job>>
  BY DEF Remove, Quiesce, OpenGate, historyVars, countVars
<1>2. UNCHANGED <<queue, active>> \/ queue' = NoQueue
  BY DEF Remove, Quiesce, OpenGate, ClearQueue, historyVars, countVars
<1>3. HeldOrGone'
  BY <1>1, <1>2 DEF OneRunPart, HeldOrGone, NoQueue
<1>4. ASSUME NEW k \in DOMAIN rows', rows'[k].status = "COMPLETE"
      PROVE  k \in DOMAIN rows /\ rows'[k] = rows[k]
  <2>1. CASE UNCHANGED rows
    BY <1>4, <2>1
  <2>2. CASE rows' = Interrupted(queue.run)
    <3>1. DOMAIN rows' = 1..Len(rows) /\ DOMAIN rows = 1..Len(rows)
          /\ rows \in Seq(RowType)
      BY <2>2, LenProperties DEF Interrupted, Typed, TypeOK
    <3>2. rows[k] \in RowType
      BY <1>4, <3>1, ElementOfSeq
    <3> QED
      BY <1>4, <2>2, <3>1, <3>2 DEF Interrupted, Closed, RowType
  <2> QED
    BY <2>1, <2>2 DEF Remove, Quiesce, OpenGate, historyVars, countVars
<1>5. Unfinished'
  BY <1>1, <1>4 DEF OneRunPart, Unfinished
<1> QED
  BY <1>1, <1>3, <1>5 DEF OneRunPart, Alone, StarterOnly

\* With one run and no manual resume the claim admits one worker at a time, and never to
\* a position that is COMPLETE: inductive relative to Typed and ClaimPart.
THEOREM OneRunInvariant ==
  ASSUME ~Resumable, MaxRuns = 1
  PROVE  Spec => []OneRunPart
<1>1. Init => OneRunPart
  BY DEF Init, OneRunPart, Alone, HeldOrGone, StarterOnly, Unfinished, Holding, ResumePcs,
         BeforeResult
<1>2. Typed /\ ClaimPart /\ EvidencePart /\ OneRunPart /\ [Next]_vars => OneRunPart'
  <2> SUFFICES ASSUME Typed, ClaimPart, OneRunPart, [Next]_vars PROVE OneRunPart'
    OBVIOUS
  <2>1. CASE \E e \in Execs : Step(e)
    BY <2>1, AloneStep, HeldOrGoneStep, StarterOnlyStep, UnfinishedStep DEF OneRunPart
  <2>2. CASE Remove \/ Quiesce \/ OpenGate
    BY <2>2, CommandOneRun
  <2>3. CASE UNCHANGED vars
    <3>1. UNCHANGED <<queue, active, rows, pc, job>>
      BY <2>3 DEF vars, queueVars, historyVars
    <3> QED
      BY <3>1 DEF OneRunPart, Alone, HeldOrGone, StarterOnly, Unfinished
  <2> QED
    BY <2>1, <2>2, <2>3 DEF Next
<1> QED
  BY <1>1, <1>2, TypedInvariant, SafetyInvariant, PTL DEF Spec

\* OneExporterAtATime: within one run driven by the starter and its triggers two
\* executions are never inside an exporter at once, whatever faults and removals occur
\* (claimDailyQboWorker_, V1280).
THEOREM OneExporterCorrect ==
  ASSUME ~Resumable, MaxRuns = 1
  PROVE  Spec => []OneExporterAtATime
<1>1. OneRunPart => OneExporterAtATime
  BY DEF OneRunPart, Alone, OneExporterAtATime, Exporting, Holding
<1> QED
  BY <1>1, OneRunInvariant, PTL

\* CompleteNotRerun: within such a run an exporter whose attempt is COMPLETE in the
\* history is not run again (qboDailyV1338Decision_).
THEOREM NotRerunCorrect ==
  ASSUME ~Resumable, MaxRuns = 1
  PROVE  Spec => []CompleteNotRerun
<1>1. OneRunPart => CompleteNotRerun
  BY DEF OneRunPart, Unfinished, CompleteNotRerun, Exporting, BeforeResult
<1> QED
  BY <1>1, OneRunInvariant, PTL

-----------------------------------------------------------------------------
(* The scheduler implements the abstract queue *)

\* The owner of the abstract queue
Owner == IF queue.run = 0 THEN NoQueue ELSE queue

\* What of the state the abstract queue shows
Shown == <<Owner, active.token, backups, lastRun, lastToken>>

\* A claim acquires the position (claimDailyQboWorker_)
LEMMA ClaimAcquires ==
  ASSUME TypeOK, NEW e \in Execs, Claim(e)
  PROVE  Queue!Acquire
<1>1. /\ queue.run # 0 /\ queue.index < N /\ active.token = 0
      /\ UNCHANGED <<queue, backups, lastRun>>
      /\ lastToken' = lastToken + 1 /\ active'.token = lastToken'
  BY DEF Claim, historyVars
<1> QED
  BY <1>1 DEF Queue!Acquire

\* A copy in Drive is evidence, whether or not its claim still stands
\* (createQboExportSnapshot_)
LEMMA BackupProduces ==
  ASSUME Typed, NEW e \in Execs, MakeBackup(e)
  PROVE  Queue!Produce
<1> USE DEF Typed
<1> DEFINE b == Produced(job[e])
<1>1. /\ backups' = backups \union {b}
      /\ UNCHANGED <<queue, active, lastRun, lastToken>>
  BY DEF MakeBackup, Produced, queueVars
<1>2. /\ job[e].run # 0 /\ job[e].index < N /\ job[e].token # 0
      /\ job[e].run <= lastRun /\ job[e].token <= lastToken
  BY DEF MakeBackup, Working, Holding, Bounds
<1>3. b \in [run : 1..lastRun, index : 0..(N - 1), token : 1..lastToken]
  <2>1. /\ job[e].run \in 1..lastRun /\ job[e].index \in 0..(N - 1)
        /\ job[e].token \in 1..lastToken
    BY <1>2, Read
  <2> QED
    BY <2>1 DEF Produced
<1> HIDE DEF b
<1> QED
  BY <1>1, <1>3 DEF Queue!Produce

\* A finalization passes, fails or retries the position it holds, and does nothing to
\* a queue that is gone (finalizeDailyQboWorkerClaim_)
LEMMA AdvanceLeaves ==
  ASSUME Typed, ClaimPart, EvidencePart, NEW e \in Execs, Advance(e)
  PROVE  Queue!Pass \/ Queue!Fail \/ Queue!Retry \/ UNCHANGED Shown
<1> USE DEF Typed
<1>1. /\ queue' = [queue EXCEPT !.index = NextIndex(e), !.failed = NextFailed(e)]
      /\ active'.token = 0 /\ pc[e] = "advance"
      /\ UNCHANGED <<backups, lastRun, lastToken>>
  BY DEF Advance, NoClaim, historyVars, countVars
<1>2. queue \in QueueType /\ queue'.run = queue.run
  BY <1>1 DEF TypeOK, QueueType
<1>3. CASE queue.run = 0
  <2>1. active.token = 0
    BY <1>3 DEF ClaimPart, ClaimTracksQueue
  <2> QED
    BY <1>1, <1>2, <1>3, <2>1 DEF Shown, Owner
<1>4. CASE queue.run # 0
  <2>1. /\ active.token = job[e].token /\ queue.run = job[e].run
        /\ queue.index = job[e].index /\ queue.failed = job[e].failed
        /\ job[e].token # 0 /\ queue.index < N
    BY <1>1, <1>4 DEF ClaimPart, AdvanceOwned, HeldClaim, Holding, Working
  <2>2. /\ job[e].outcome \in {"ok", "error", "busy"}
        /\ job[e].outcome = "ok" => Produced(job[e]) \in backups
    BY <1>1 DEF EvidencePart, JobBacked, Reporting
  <2>3. CASE job[e].outcome = "ok"
    <3>1. queue' = [queue EXCEPT !.index = queue.index + 1]
      BY <1>1, <1>2, <2>1, <2>3 DEF NextIndex, NextFailed, QueueType
    <3>2. [run |-> queue.run, index |-> queue.index, token |-> active.token] \in backups
      BY <2>1, <2>2, <2>3 DEF Produced
    <3> QED
      BY <1>1, <1>2, <1>4, <2>1, <3>1, <3>2 DEF Queue!Pass
  <2>4. CASE job[e].outcome = "error"
    <3>1. queue' = [queue EXCEPT !.index = queue.index + 1, !.failed = queue.failed + 1]
      BY <1>1, <2>1, <2>4 DEF NextIndex, NextFailed
    <3> QED
      BY <1>1, <1>2, <1>4, <2>1, <3>1 DEF Queue!Fail
  <2>5. CASE job[e].outcome = "busy"
    <3>1. queue' = queue
      BY <1>1, <1>2, <2>1, <2>5 DEF NextIndex, NextFailed, QueueType
    <3> QED
      BY <1>1, <1>4, <2>1, <3>1 DEF Queue!Retry
  <2> QED
    BY <2>2, <2>3, <2>4, <2>5
<1> QED
  BY <1>3, <1>4

\* A committed recovery reopens a run at the end of its evidence (the compare-and-set
\* commits of the starter and of the resume)
LEMMA CommitReopens ==
  ASSUME Typed, AccountPart, NEW e \in Execs, StarterCommit(e) \/ ResumeCommit(e)
  PROVE  Queue!Reopen \/ UNCHANGED Shown
<1> USE DEF Typed
<1>1. UNCHANGED <<backups, lastRun, lastToken>>
  BY DEF StarterCommit, ResumeCommit, historyVars, countVars
<1>2. CASE UNCHANGED <<queue, active>>
  BY <1>1, <1>2 DEF Shown, Owner
<1>3. CASE ~UNCHANGED <<queue, active>>
  <2>1. /\ active.token = 0 /\ active'.token = 0 /\ queue.run \in {0, job[e].run}
        /\ queue' = [run |-> job[e].run, index |-> job[e].target, failed |-> 0]
        /\ pc[e] \in {"commit", "resumeCommit"}
    BY <1>3 DEF StarterCommit, ResumeCommit, Reopen, NoClaim
  <2>2. CASE job[e].run = 0
    BY <1>1, <2>1, <2>2 DEF Shown, Owner
  <2>3. CASE job[e].run # 0
    <3>1. job[e].run \in 1..lastRun /\ job[e].target \in 0..(N - 1)
      BY <2>1, <2>3, Read DEF AccountPart, TargetCovered, Recovering, Bounds
    <3>2. \A j \in 0..(job[e].target - 1) :
            \E b \in backups : b.run = job[e].run /\ b.index = j
      BY <2>1 DEF AccountPart, TargetCovered, Recovering, Covered
    <3>3. Owner.run \in {0, job[e].run} /\ Owner' = queue'
      BY <2>1, <2>3 DEF Owner, NoQueue
    <3> QED
      BY <1>1, <2>1, <3>1, <3>2, <3>3 DEF Queue!Reopen, Queue!Evidenced, Owner
  <2> QED
    BY <2>2, <2>3
<1> QED
  BY <1>2, <1>3

\* A creation opens a run, over no other (startDailyQboExportSchedule)
LEMMA CreateOpens ==
  ASSUME Typed, ClaimPart, NEW e \in Execs, StarterCreate(e)
  PROVE  Queue!Open \/ UNCHANGED Shown
<1>1. UNCHANGED <<backups, lastToken>>
  BY DEF StarterCreate, historyVars
<1>2. CASE UNCHANGED <<queue, active, lastRun>>
  BY <1>1, <1>2 DEF Shown, Owner
<1>3. CASE ~UNCHANGED <<queue, active, lastRun>>
  <2>1. /\ queue.run = 0 /\ active'.token = 0 /\ lastRun' = lastRun + 1
        /\ queue' = [run |-> lastRun', index |-> 0, failed |-> 0]
    BY <1>3 DEF StarterCreate, NoClaim
  <2>2. active.token = 0
    BY <2>1 DEF ClaimPart, ClaimTracksQueue
  <2>3. lastRun' # 0
    BY <2>1, Read DEF Typed, TypeOK
  <2>4. Owner = NoQueue /\ Owner' = queue'
    BY <2>1, <2>3 DEF Owner
  <2> QED
    BY <1>1, <2>1, <2>2, <2>4 DEF Queue!Open, Owner, NoQueue
<1> QED
  BY <1>2, <1>3

\* A queue that is cleared is closed
LEMMA ClearCloses ==
  ASSUME ClearQueue, UNCHANGED <<backups, lastRun, lastToken>>
  PROVE  Queue!Close
BY DEF ClearQueue, NoQueue, NoClaim, Queue!Close, Queue!Unowned

\* Every step of an execution is a step of the abstract queue, or shows nothing
LEMMA StepImplements ==
  ASSUME Typed, ClaimPart, EvidencePart, AccountPart, NEW e \in Execs, Step(e)
  PROVE  Queue!Next \/ UNCHANGED Shown
<1> USE DEF Typed
<1>1. CASE Claim(e)
  BY <1>1, ClaimAcquires DEF Queue!Next
<1>2. CASE MakeBackup(e)
  BY <1>2, BackupProduces DEF Queue!Next
<1>3. CASE Advance(e)
  BY <1>3, AdvanceLeaves DEF Queue!Next
<1>4. CASE StarterCommit(e) \/ ResumeCommit(e)
  BY <1>4, CommitReopens DEF Queue!Next
<1>5. CASE StarterCreate(e)
  BY <1>5, CreateOpens DEF Queue!Next
<1>6. CASE ClearCompleted(e) \/ StarterRollback(e)
  <2>1. UNCHANGED <<backups, lastRun, lastToken>>
        /\ (ClearQueue \/ UNCHANGED <<queue, active>>)
    BY <1>6 DEF ClearCompleted, StarterRollback, historyVars, countVars
  <2> QED
    BY <2>1, ClearCloses DEF Queue!Next, Shown, Owner
<1>7. CASE ClaimCompletion(e)
  <2>1. /\ UNCHANGED <<queue, backups, lastRun, lastToken>>
        /\ active'.token = 0 /\ queue.run # 0 /\ ~(queue.index < N)
    BY <1>7, Read DEF ClaimCompletion, NoClaim, historyVars, countVars
  <2>2. active.token = 0
    BY <2>1 DEF ClaimPart, ClaimTracksQueue
  <2> QED
    BY <2>1, <2>2 DEF Shown, Owner
<1>8. CASE /\ ~Claim(e) /\ ~MakeBackup(e) /\ ~StarterCreate(e)
           /\ UNCHANGED <<queue, active>>
  <2>1. UNCHANGED <<backups, lastRun, lastToken>>
    BY <1>8, StepEffect
  <2> QED
    BY <1>8, <2>1 DEF Shown, Owner
<1> QED
  BY <1>1, <1>2, <1>3, <1>4, <1>5, <1>6, <1>7, <1>8, StepEffect

\* QueueKept: the scheduler implements the abstract queue for every number of
\* executions, exporters, runs and faults.  Initial states map to initial states and
\* every step to a step or a stutter (24_TriggerManagement.js, every path that writes
\* the queue or the claim).
THEOREM QueueImplemented == Spec => QueueKept
<1>1. Init => Queue!Init
  BY DEF Init, NoQueue, NoClaim, Queue!Init, Queue!Unowned
<1>2. Typed /\ ClaimPart /\ EvidencePart /\ AccountPart /\ [Next]_vars
        => [Queue!Next]_Shown
  <2> SUFFICES ASSUME Typed, ClaimPart, EvidencePart, AccountPart, [Next]_vars
               PROVE  Queue!Next \/ UNCHANGED Shown
    OBVIOUS
  <2>1. CASE \E e \in Execs : Step(e)
    BY <2>1, StepImplements
  <2>2. CASE Remove
    <3>1. ClearQueue /\ UNCHANGED <<backups, lastRun, lastToken>>
      BY <2>2 DEF Remove
    <3> QED
      BY <3>1, ClearCloses DEF Queue!Next
  <2>3. CASE Quiesce \/ OpenGate \/ UNCHANGED vars
    <3>1. UNCHANGED <<queue, active, backups, lastRun, lastToken>>
      BY <2>3 DEF Quiesce, OpenGate, vars, queueVars, historyVars, countVars
    <3> QED
      BY <3>1 DEF Shown, Owner
  <2> QED
    BY <2>1, <2>2, <2>3 DEF Next
<1> QED
  BY <1>1, <1>2, TypedInvariant, SafetyInvariant, AccountInvariant, PTL
     DEF Spec, QueueKept, Queue!Spec, Queue!vars, Shown, Owner

=============================================================================
