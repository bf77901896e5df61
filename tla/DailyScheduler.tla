--------------------------- MODULE DailyScheduler ---------------------------
(***************************************************************************)
(* The daily FULL_EXPORT queue of 24_TriggerManagement.js: a starter, a    *)
(* chain of workers that each run one exporter in an execution of its own, *)
(* and the manual resume and remove commands.  The queue and the worker    *)
(* claim live in Script Properties, the run history in a Sheets workbook,  *)
(* the chain is carried by one-shot NEXT triggers.                         *)
(*                                                                         *)
(* Every execution is a sequence of steps; between two steps any other     *)
(* execution may run, and an execution may be terminated by the platform.  *)
(* Steps that hold the scheduler UserLock in the code are single actions,  *)
(* except where a termination inside the lock leaves a partial update: the *)
(* program counters in Locked mark those.                                  *)
(*                                                                         *)
(* A claim's worker token also names the attempt (the row's StartedAt) and *)
(* the Master Backup it produces: a token makes at most one of each.       *)
(* Positions are numbered from 0, as QUEUE_INDEX is.                       *)
(***************************************************************************)
EXTENDS Integers, Sequences, FiniteSets

CONSTANTS
  Execs,      \* Apps Script executions that may be alive at the same time
  N,          \* number of exporters in DAILY_QBO_EXPORT_ORDER
  MaxRuns,    \* bound: runs ever created
  MaxClaims,  \* bound: worker tokens ever issued
  MaxFaults,  \* bound: occurrences of the events of Hazards
  Hazards,    \* the events below that may happen in this instance
  Resumable   \* whether resumeQboExportSchedule is called by an operator

HazardKinds == {"crash", "history", "error", "busy", "remove", "quiesce"}

ASSUME SchedulerConstants ==
  /\ N \in Nat \ {0}
  /\ MaxRuns \in Nat /\ MaxClaims \in Nat /\ MaxFaults \in Nat
  /\ Hazards \subseteq HazardKinds
  /\ Resumable \in BOOLEAN

VARIABLES
  queue,      \* RUN_ID, QUEUE_INDEX, FAILED_COUNT (run 0: not initialized)
  active,     \* ACTIVE_TOKEN and ACTIVE_INDEX (token 0: no claim)
  checkpoint, \* QBO_DAILY_V1284_CHECKPOINT_V1
  nextTrig,   \* number of NEXT triggers installed
  paused,     \* QBO_DAILY_V1279_PAUSED
  runStatus,  \* Runs sheet: status of each run, "absent" without a row
  rows,       \* Exports sheet: one row per attempt, in the order appended
  backups,    \* Master Backup files in Drive
  pc, job,    \* per execution: where it is, and its local variables
  lastRun, lastToken, faults  \* counters behind getUuid and the bounds

queueVars == <<queue, active, checkpoint, nextTrig, paused>>
historyVars == <<runStatus, rows, backups>>
countVars == <<lastRun, lastToken, faults>>
vars == <<queueVars, historyVars, pc, job, countVars>>

-----------------------------------------------------------------------------
(* Values *)

Runs == 1..MaxRuns
NoQueue == [run |-> 0, index |-> 0, failed |-> 0]
NoClaim == [token |-> 0, index |-> 0]
NoCheckpoint == [run |-> 0, index |-> 0, token |-> 0, phase |-> "NONE", backup |-> 0]

\* The local variables of an execution, by what it has read of the queue
Job(run, index, failed, token) ==
  [run |-> run, index |-> index, token |-> token, failed |-> failed, target |-> 0,
   outcome |-> "none"]
NoJob == Job(0, 0, 0, 0)

\* The order of the checkpoint phases of one claim
PhaseRank == [NONE |-> -1, CLAIMED |-> 0, EXPORT_STARTED |-> 1,
              SNAPSHOT_RECORDED |-> 2, QUEUE_ADVANCED |-> 3]
Phases == {"NONE", "CLAIMED", "EXPORT_STARTED", "SNAPSHOT_RECORDED", "QUEUE_ADVANCED"}

RunStatuses == {"absent", "RUNNING", "COMPLETE", "COMPLETE_WITH_ERRORS", "CANCELLED"}
RowStatuses == {"RUNNING", "COMPLETE", "ERROR", "INTERRUPTED"}

WorkerPcs == {"claim", "arm", "claimed", "recordStart", "checkpointStart", "export",
              "snapshot", "recordResult", "verify", "prove", "finalize", "advance",
              "continue"}
StarterPcs == {"capture", "recover", "commit", "recordResumed", "create",
               "recordRun", "rollback"}
ResumePcs == {"resumeCapture", "resumeRead", "resumeInterrupt", "resumeCommit"}
SharedPcs == {"dropNext", "makeNext", "recordComplete", "clear", "recordClosed",
              "clearClosed"}
Pcs == {"idle"} \union WorkerPcs \union StarterPcs \union ResumePcs \union SharedPcs

\* Stages that hold the UserLock over more than one step
Locked == {"arm", "advance"}
LockFree == \A e \in Execs : pc[e] \notin Locked

-----------------------------------------------------------------------------
(* Helpers *)

Goto(e, where) == pc' = [pc EXCEPT ![e] = where]

\* The execution's local variables change to j
Remember(e, j) == job' = [job EXCEPT ![e] = j]

\* The execution ends: by return, by a thrown error, or by termination
End(e) == Goto(e, "idle") /\ Remember(e, NoJob)

Charge(kind) == kind \in Hazards /\ faults < MaxFaults /\ faults' = faults + 1

\* A history write either succeeds or, charged as a fault, throws
HistoryOk == UNCHANGED faults
HistoryFails == Charge("history")

Attempts(r, i) == {k \in DOMAIN rows : rows[k].run = r /\ rows[k].index = i}

\* Mutant: the row is looked up by exporter only, whichever run it belongs to
MutLastRowAnyRun(r, i) ==
  LET K == {k \in DOMAIN rows : rows[k].index = i} IN
  IF K = {} THEN 0 ELSE CHOOSE k \in K : \A j \in K : j <= k

\* findQboExportRunRow_: the last row of a run and exporter, 0 if none
LastRow(r, i) ==
  IF Attempts(r, i) = {} THEN 0
  ELSE CHOOSE k \in Attempts(r, i) : \A j \in Attempts(r, i) : j <= k

IsComplete(r, i) == Attempts(r, i) # {} /\ rows[LastRow(r, i)].status = "COMPLETE"

\* The first position whose latest attempt is not COMPLETE, N when all are
ResumeIndex(r) ==
  CHOOSE i \in 0..N :
    /\ \A j \in 0..(i - 1) : IsComplete(r, j)
    /\ i = N \/ ~IsComplete(r, i)

Closed(row) == [row EXCEPT !.status = "INTERRUPTED"]

\* The rows with every RUNNING attempt of run r closed as INTERRUPTED
Interrupted(r) ==
  [k \in 1..Len(rows) |->
     IF rows[k].run = r /\ rows[k].status = "RUNNING"
     THEN Closed(rows[k]) ELSE rows[k]]

\* Mutant: only the run status is checked before a claim
MutClaimableOpenRun(r, i) == runStatus[r] = "RUNNING"

\* qboDailyV1338Decision_: the position has no COMPLETE or unresolved RUNNING
\* attempt, and its run has exactly one, open, row
Claimable(r, i) ==
  /\ \A k \in Attempts(r, i) : rows[k].status \notin {"COMPLETE", "RUNNING"}
  /\ runStatus[r] = "RUNNING"

\* qboDailyV1284AssertClaim_: the persisted claim is still the execution's own
OwnsClaim(e) ==
  /\ queue.run = job[e].run /\ queue.index = job[e].index
  /\ active = [token |-> job[e].token, index |-> job[e].index]

\* qboV1298Decision_ for a scheduled exporter: RUN_ID, ACTIVE_TOKEN and
\* ACTIVE_INDEX still name the invocation
BoundaryHolds(e) ==
  queue.run = job[e].run /\ active = [token |-> job[e].token, index |-> job[e].index]

SameGeneration(e) ==
  /\ checkpoint.run = job[e].run /\ checkpoint.index = job[e].index
  /\ checkpoint.token = job[e].token

\* qboDailyV1284Checkpoint_: phases of one claim advance one by one from CLAIMED
MayCheckpoint(e, phase) ==
  /\ OwnsClaim(e)
  /\ IF SameGeneration(e) THEN PhaseRank[phase] = PhaseRank[checkpoint.phase] + 1
                          ELSE phase = "CLAIMED"

WriteCheckpoint(e, phase, backup) ==
  checkpoint' = [run |-> job[e].run, index |-> job[e].index, token |-> job[e].token,
                 phase |-> phase, backup |-> backup]

\* A checkpoint step: write it and go on, or throw
CheckpointStep(e, at, phase, then) ==
  /\ pc[e] = at /\ LockFree
  /\ IF MayCheckpoint(e, phase)
     THEN WriteCheckpoint(e, phase, 0) /\ Goto(e, then) /\ UNCHANGED job
     ELSE UNCHANGED checkpoint /\ End(e)
  /\ UNCHANGED <<queue, active, nextTrig, paused, historyVars, countVars>>

\* Mutant: the cleanup of the queue forgets the active-worker properties
MutClearQueueOnly == queue' = NoQueue /\ UNCHANGED active

ClearQueue == queue' = NoQueue /\ active' = NoClaim

-----------------------------------------------------------------------------
(* The worker: runNextScheduledQboExport *)

\* A NEXT trigger fires; it is one-shot
WorkerFires(e) ==
  /\ pc[e] = "idle" /\ nextTrig > 0
  /\ nextTrig' = nextTrig - 1
  /\ Goto(e, "claim")
  /\ UNCHANGED <<queue, active, checkpoint, paused, historyVars, job, countVars>>

\* claimDailyQboWorker_ when there is nothing to claim, a claim is already
\* held, or the completed-position guard throws or cannot read the history
ClaimRefused(e) ==
  /\ pc[e] = "claim" /\ LockFree
  /\ \/ /\ \/ paused \/ queue.run = 0
           \/ queue.index < N /\ active.token # 0
           \/ queue.run # 0 /\ queue.index < N /\ ~Claimable(queue.run, queue.index)
        /\ HistoryOk
     \/ /\ ~paused /\ queue.run # 0 /\ queue.index < N /\ active.token = 0
        /\ HistoryFails
  /\ End(e)
  /\ UNCHANGED <<queueVars, historyVars, lastRun, lastToken>>

\* Mutant: the closing execution is not given the FAILED_COUNT
MutClaimCompletionUncounted(e) ==
  /\ pc[e] = "claim" /\ LockFree
  /\ ~paused /\ queue.run # 0 /\ queue.index >= N
  /\ active' = NoClaim
  /\ Remember(e, Job(queue.run, 0, 0, 0))
  /\ Goto(e, "recordComplete")
  /\ UNCHANGED <<queue, checkpoint, nextTrig, paused, historyVars, countVars>>

\* The queue is exhausted: this execution only closes the run
ClaimCompletion(e) ==
  /\ pc[e] = "claim" /\ LockFree
  /\ ~paused /\ queue.run # 0 /\ queue.index >= N
  /\ active' = NoClaim
  /\ Remember(e, Job(queue.run, 0, queue.failed, 0))
  /\ Goto(e, "recordComplete")
  /\ UNCHANGED <<queue, checkpoint, nextTrig, paused, historyVars, countVars>>

\* Mutant: a held claim is taken over, as before V1280
MutClaimTakesOver(e) ==
  /\ pc[e] = "claim" /\ LockFree
  /\ ~paused /\ queue.run # 0 /\ queue.index < N
  /\ runStatus[queue.run] = "RUNNING" /\ ~IsComplete(queue.run, queue.index)
  /\ lastToken < MaxClaims
  /\ lastToken' = lastToken + 1
  /\ active' = [token |-> lastToken', index |-> queue.index]
  /\ Remember(e, Job(queue.run, queue.index, queue.failed, lastToken'))
  /\ Goto(e, "arm")
  /\ UNCHANGED <<queue, checkpoint, nextTrig, paused, historyVars, lastRun, faults>>

\* Mutant: the end of the queue is not checked before a claim
MutClaimPastEnd(e) ==
  /\ pc[e] = "claim" /\ LockFree
  /\ ~paused /\ queue.run # 0 /\ active.token = 0
  /\ Claimable(queue.run, queue.index)
  /\ lastToken < MaxClaims
  /\ lastToken' = lastToken + 1
  /\ active' = [token |-> lastToken', index |-> queue.index]
  /\ Remember(e, Job(queue.run, queue.index, queue.failed, lastToken'))
  /\ Goto(e, "arm")
  /\ UNCHANGED <<queue, checkpoint, nextTrig, paused, historyVars, lastRun, faults>>

\* The position is claimed under a fresh token; the lock is kept to arm the
\* watchdog
Claim(e) ==
  /\ pc[e] = "claim" /\ LockFree
  /\ ~paused /\ queue.run # 0 /\ queue.index < N /\ active.token = 0
  /\ Claimable(queue.run, queue.index)
  /\ lastToken < MaxClaims
  /\ lastToken' = lastToken + 1
  /\ active' = [token |-> lastToken', index |-> queue.index]
  /\ Remember(e, Job(queue.run, queue.index, queue.failed, lastToken'))
  /\ Goto(e, "arm")
  /\ UNCHANGED <<queue, checkpoint, nextTrig, paused, historyVars, lastRun, faults>>

\* scheduleNextQboExportTrigger_ inside the claim: the watchdog trigger
ArmWatchdog(e) ==
  /\ pc[e] = "arm"
  /\ nextTrig' = 1
  /\ Goto(e, "claimed")
  /\ UNCHANGED <<queue, active, checkpoint, paused, historyVars, job, countVars>>

CheckpointClaimed(e) == CheckpointStep(e, "claimed", "CLAIMED", "recordStart")

\* recordQboScheduledExportStart_ appends a RUNNING row; errors are swallowed
RecordStart(e) ==
  /\ pc[e] = "recordStart"
  /\ \/ /\ rows' = Append(rows, [run |-> job[e].run, index |-> job[e].index,
                                 token |-> job[e].token, status |-> "RUNNING", backup |-> 0])
        /\ HistoryOk
     \/ HistoryFails /\ UNCHANGED rows
  /\ Goto(e, "checkpointStart")
  /\ UNCHANGED <<queueVars, runStatus, backups, job, lastRun, lastToken>>

CheckpointStarted(e) == CheckpointStep(e, "checkpointStart", "EXPORT_STARTED", "export")

\* The exporter writes its sheets and passes the last write boundary, which
\* compares the persisted claim with the invocation's identity
\* (qboV1298AssertWriteBoundary_); or it throws
Export(e) ==
  /\ pc[e] = "export"
  /\ \/ /\ BoundaryHolds(e)
        /\ Goto(e, "snapshot") /\ UNCHANGED <<job, faults>>
     \/ /\ ~BoundaryHolds(e)
        /\ Remember(e, [job[e] EXCEPT !.outcome = "error"])
        /\ Goto(e, "recordResult") /\ UNCHANGED faults
     \/ /\ \E kind \in {"error", "busy"} :
             Charge(kind) /\ Remember(e, [job[e] EXCEPT !.outcome = kind])
        /\ Goto(e, "recordResult")
  /\ UNCHANGED <<queueVars, historyVars, lastRun, lastToken>>

\* createQboExportSnapshot_: the copy is made after the boundary check; reading it
\* back for the observation count may still fail the exporter
MakeBackup(e) ==
  /\ pc[e] = "snapshot"
  /\ backups' = backups \union {[run |-> job[e].run, index |-> job[e].index,
                                 token |-> job[e].token]}
  /\ \/ Remember(e, [job[e] EXCEPT !.outcome = "ok"]) /\ UNCHANGED faults
     \/ Remember(e, [job[e] EXCEPT !.outcome = "error"]) /\ Charge("error")
  /\ Goto(e, "recordResult")
  /\ UNCHANGED <<queueVars, runStatus, rows, lastRun, lastToken>>

Resulted(row, status, backup) == [row EXCEPT !.status = status, !.backup = backup]

ResultStatus(e) ==
  CASE job[e].outcome = "ok" -> "COMPLETE"
    [] job[e].outcome = "busy" -> "INTERRUPTED"
    [] OTHER -> "ERROR"

\* recordQboScheduledExportResult_ overwrites the last row of this run and
\* exporter, whichever attempt appended it; errors are swallowed
RecordResult(e) ==
  LET k == LastRow(job[e].run, job[e].index) IN
  /\ pc[e] = "recordResult"
  /\ \/ /\ k # 0 /\ HistoryOk
        /\ rows' = [rows EXCEPT ![k] =
              Resulted(@, ResultStatus(e), IF job[e].outcome = "ok" THEN job[e].token ELSE 0)]
     \/ k = 0 /\ HistoryOk /\ UNCHANGED rows
     \/ HistoryFails /\ UNCHANGED rows
  /\ Goto(e, IF job[e].outcome = "ok" THEN "verify" ELSE "finalize")
  /\ UNCHANGED <<queueVars, runStatus, backups, job, lastRun, lastToken>>

\* qboDailyV1289VerifyCompletion_: the last row must be this attempt's, COMPLETE,
\* with this attempt's backup; otherwise the completion is held
VerifyHistory(e) ==
  LET k == LastRow(job[e].run, job[e].index) IN
  /\ pc[e] = "verify"
  /\ \/ /\ HistoryOk
        /\ IF /\ k # 0
              /\ rows[k].status = "COMPLETE"
              /\ rows[k].token = job[e].token
              /\ rows[k].backup = job[e].token
           THEN Goto(e, "prove") /\ UNCHANGED job
           ELSE End(e)
     \/ HistoryFails /\ End(e)
  /\ UNCHANGED <<queueVars, historyVars, lastRun, lastToken>>

CheckpointSnapshot(e) ==
  /\ pc[e] = "prove" /\ LockFree
  /\ IF MayCheckpoint(e, "SNAPSHOT_RECORDED")
     THEN /\ WriteCheckpoint(e, "SNAPSHOT_RECORDED", job[e].token)
          /\ Goto(e, "finalize") /\ UNCHANGED job
     ELSE UNCHANGED checkpoint /\ End(e)
  /\ UNCHANGED <<queue, active, nextTrig, paused, historyVars, countVars>>

\* qboDailyV1290AdvanceDecision_: the persisted checkpoint is this claim's and
\* records a snapshot
SnapshotProved(e) ==
  SameGeneration(e) /\ checkpoint.phase = "SNAPSHOT_RECORDED" /\ checkpoint.backup # 0

\* Mutant: a success advances the queue without the V1290 commit
MutFinalizeUnproved(e) ==
  /\ pc[e] = "finalize" /\ LockFree
  /\ IF active.token = job[e].token THEN Goto(e, "advance") /\ UNCHANGED job ELSE End(e)
  /\ UNCHANGED <<queueVars, historyVars, countVars>>

\* finalizeDailyQboWorkerClaim_ up to the queue mutation: a lost claim or a
\* missing proof ends the execution, a success is checkpointed first
Finalize(e) ==
  /\ pc[e] = "finalize" /\ LockFree
  /\ \/ /\ active.token # job[e].token
        /\ UNCHANGED checkpoint /\ End(e)
     \/ /\ active.token = job[e].token /\ job[e].outcome # "ok"
        /\ Goto(e, "advance") /\ UNCHANGED <<job, checkpoint>>
     \/ /\ active.token = job[e].token /\ job[e].outcome = "ok"
        /\ IF OwnsClaim(e) /\ SnapshotProved(e)
           THEN /\ WriteCheckpoint(e, "QUEUE_ADVANCED", checkpoint.backup)
                /\ Goto(e, "advance") /\ UNCHANGED job
           ELSE UNCHANGED checkpoint /\ End(e)
  /\ UNCHANGED <<queue, active, nextTrig, paused, historyVars, countVars>>

NextIndex(e) == IF job[e].outcome = "busy" THEN job[e].index ELSE job[e].index + 1

\* Mutant: a failed exporter is not counted
MutNextFailedUncounted(e) == job[e].failed

NextFailed(e) == IF job[e].outcome = "error" THEN job[e].failed + 1 ELSE job[e].failed

\* The queue mutation of finalizeDailyQboWorkerClaim_, same lock
Advance(e) ==
  /\ pc[e] = "advance"
  /\ queue' = [queue EXCEPT !.index = NextIndex(e), !.failed = NextFailed(e)]
  /\ active' = NoClaim
  /\ Remember(e, [job[e] EXCEPT !.failed = NextFailed(e), !.index = NextIndex(e)])
  /\ Goto(e, "continue")
  /\ UNCHANGED <<checkpoint, nextTrig, paused, historyVars, countVars>>

\* After finalization: close the run, schedule the next worker, or stop
Continue(e) ==
  /\ pc[e] = "continue"
  /\ IF job[e].index >= N THEN Goto(e, "recordComplete") /\ UNCHANGED job
     ELSE IF paused THEN End(e)
     ELSE Goto(e, "dropNext") /\ UNCHANGED job
  /\ UNCHANGED <<queueVars, historyVars, countVars>>

-----------------------------------------------------------------------------
(* Scheduling the next worker and closing a run, shared by several callers *)

\* scheduleNextQboExportTrigger_ without the lock: delete, then create
DropNext(e) ==
  /\ pc[e] = "dropNext"
  /\ nextTrig' = 0
  /\ Goto(e, "makeNext")
  /\ UNCHANGED <<queue, active, checkpoint, paused, historyVars, job, countVars>>

MakeNext(e) ==
  /\ pc[e] = "makeNext"
  /\ nextTrig' = nextTrig + 1
  /\ End(e)
  /\ UNCHANGED <<queue, active, checkpoint, paused, historyVars, countVars>>

\* completeDailyQboExportSchedule_, first half: the final run status, with
\* history errors swallowed
RecordComplete(e) ==
  /\ pc[e] \in {"recordComplete", "recordClosed"}
  /\ \/ /\ HistoryOk
        /\ runStatus' = IF runStatus[job[e].run] = "absent" THEN runStatus
                        ELSE [runStatus EXCEPT ![job[e].run] =
                                IF job[e].failed > 0 THEN "COMPLETE_WITH_ERRORS"
                                                     ELSE "COMPLETE"]
     \/ HistoryFails /\ UNCHANGED runStatus
  /\ Goto(e, IF pc[e] = "recordComplete" THEN "clear" ELSE "clearClosed")
  /\ UNCHANGED <<queueVars, rows, backups, job, lastRun, lastToken>>

\* second half: the triggers and the queue go, with no lock and no check that
\* the queue still belongs to the completed run
ClearCompleted(e) ==
  /\ pc[e] \in {"clear", "clearClosed"}
  /\ nextTrig' = 0 /\ ClearQueue
  /\ IF pc[e] = "clear" THEN End(e) ELSE Goto(e, "create") /\ UNCHANGED job
  /\ UNCHANGED <<checkpoint, paused, historyVars, countVars>>

\* recordQboScheduledRunResumed_; an error here is thrown
RecordResumed(e) ==
  /\ pc[e] = "recordResumed"
  /\ \/ /\ HistoryOk
        /\ runStatus' = [runStatus EXCEPT ![job[e].run] = "RUNNING"]
        /\ Goto(e, "dropNext") /\ UNCHANGED job
     \/ HistoryFails /\ End(e) /\ UNCHANGED runStatus
  /\ UNCHANGED <<queueVars, rows, backups, lastRun, lastToken>>

\* The compare-and-set commits of both recovery paths write this queue
Reopen(e) ==
  /\ queue' = [run |-> job[e].run, index |-> job[e].target, failed |-> 0]
  /\ active' = NoClaim

-----------------------------------------------------------------------------
(* The daily starter: startDailyQboExportSchedule *)

StarterFires(e) ==
  /\ pc[e] = "idle" /\ ~paused
  /\ Goto(e, "capture")
  /\ UNCHANGED <<queueVars, historyVars, job, countVars>>

\* Phase 1: stop the chain and capture the queue identity; a held claim is
\* preserved and the chain re-armed
StarterCapture(e) ==
  /\ pc[e] = "capture" /\ LockFree
  /\ nextTrig' = 0
  /\ Remember(e, [job[e] EXCEPT !.run = queue.run, !.index = queue.index])
  /\ Goto(e, IF queue.run = 0 THEN "create"
             ELSE IF active.token # 0 THEN "dropNext" ELSE "recover")
  /\ UNCHANGED <<queue, active, checkpoint, paused, historyVars, countVars>>

\* Mutant: a run that is found finished is left alone instead of closed
MutStarterRecoverFinished(e) ==
  LET r == job[e].run IN
  /\ pc[e] = "recover"
  /\ \/ /\ HistoryOk
        /\ rows' = Interrupted(r)
        /\ IF runStatus[r] = "absent" \/ ResumeIndex(r) = N THEN End(e)
           ELSE /\ Remember(e, [job[e] EXCEPT !.target = ResumeIndex(r)])
                /\ Goto(e, "commit")
     \/ HistoryFails /\ End(e) /\ UNCHANGED rows
  /\ UNCHANGED <<queueVars, runStatus, backups, lastRun, lastToken>>

\* Outside the lock: close RUNNING attempts and rebuild the resume point from
\* the history; a run without a row cannot be rebuilt
StarterRecover(e) ==
  LET r == job[e].run IN
  /\ pc[e] = "recover"
  /\ \/ /\ HistoryOk
        /\ rows' = Interrupted(r)
        /\ IF runStatus[r] = "absent" THEN End(e)
           ELSE /\ Remember(e, [job[e] EXCEPT !.target = ResumeIndex(r)])
                /\ Goto(e, IF ResumeIndex(r) < N THEN "commit" ELSE "recordClosed")
     \/ HistoryFails /\ End(e) /\ UNCHANGED rows
  /\ UNCHANGED <<queueVars, runStatus, backups, lastRun, lastToken>>

\* Mutant: the recovery commits over a claim made meanwhile
MutStarterCommitOverClaim(e) ==
  /\ pc[e] = "commit" /\ LockFree
  /\ IF queue.run = job[e].run /\ queue.index = job[e].index
     THEN Reopen(e) /\ Goto(e, "recordResumed") /\ UNCHANGED job
     ELSE End(e) /\ UNCHANGED <<queue, active>>
  /\ UNCHANGED <<checkpoint, nextTrig, paused, historyVars, countVars>>

\* Phase 2: the queue must be as captured and unclaimed
StarterCommit(e) ==
  /\ pc[e] = "commit" /\ LockFree
  /\ IF queue.run = job[e].run /\ queue.index = job[e].index /\ active.token = 0
     THEN Reopen(e) /\ Goto(e, "recordResumed") /\ UNCHANGED job
     ELSE End(e) /\ UNCHANGED <<queue, active>>
  /\ UNCHANGED <<checkpoint, nextTrig, paused, historyVars, countVars>>

\* A new run, unless one owns the queue by now
StarterCreate(e) ==
  /\ pc[e] = "create" /\ LockFree
  /\ \/ /\ queue.run = 0 /\ lastRun < MaxRuns
        /\ lastRun' = lastRun + 1
        /\ queue' = [run |-> lastRun', index |-> 0, failed |-> 0]
        /\ active' = NoClaim
        /\ Remember(e, Job(lastRun', 0, 0, 0))
        /\ Goto(e, "recordRun")
     \/ /\ queue.run # 0 \/ lastRun = MaxRuns
        /\ End(e) /\ UNCHANGED <<queue, active, lastRun>>
  /\ UNCHANGED <<checkpoint, nextTrig, paused, historyVars, lastToken, faults>>

\* recordQboScheduledRunStart_ outside the lock
StarterRecordRun(e) ==
  /\ pc[e] = "recordRun"
  /\ \/ /\ HistoryOk
        /\ runStatus' = [runStatus EXCEPT ![job[e].run] = "RUNNING"]
        /\ Goto(e, "dropNext")
     \/ HistoryFails /\ Goto(e, "rollback") /\ UNCHANGED runStatus
  /\ UNCHANGED <<queueVars, rows, backups, job, lastRun, lastToken>>

\* The new queue is withdrawn if it is still this run's and unclaimed
StarterRollback(e) ==
  /\ pc[e] = "rollback" /\ LockFree
  /\ IF queue.run = job[e].run /\ active.token = 0
     THEN ClearQueue ELSE UNCHANGED <<queue, active>>
  /\ End(e)
  /\ UNCHANGED <<checkpoint, nextTrig, paused, historyVars, countVars>>

-----------------------------------------------------------------------------
(* The manual resume: resumeQboExportSchedule *)

ResumeCalled(e) ==
  /\ Resumable /\ pc[e] = "idle" /\ ~paused
  /\ Goto(e, "resumeCapture")
  /\ UNCHANGED <<queueVars, historyVars, job, countVars>>

ResumeCapture(e) ==
  /\ pc[e] = "resumeCapture" /\ LockFree
  /\ nextTrig' = 0
  /\ Remember(e, [job[e] EXCEPT !.run = queue.run, !.index = queue.index])
  /\ Goto(e, "resumeRead")
  /\ UNCHANGED <<queue, active, checkpoint, paused, historyVars, countVars>>

\* getLatestQboScheduledRunResumeState_ looks for a run in one of these states
ResumableRuns ==
  {r \in Runs : runStatus[r] \in {"RUNNING", "CANCELLED"} /\ ResumeIndex(r) < N}

\* The captured run, or the latest resumable one of the history; outcome
\* "captured" remembers that a queue was initialized
ResumeRead(e) ==
  LET captured == job[e].run # 0
      candidates == IF captured THEN {job[e].run} ELSE ResumableRuns
      r == CHOOSE x \in candidates : \A y \in candidates : y <= x
  IN
  /\ pc[e] = "resumeRead"
  /\ \/ /\ HistoryOk
        /\ IF candidates = {} \/ (captured /\ runStatus[job[e].run] = "absent")
           THEN End(e)
           ELSE /\ Remember(e, [job[e] EXCEPT !.run = r, !.target = ResumeIndex(r),
                                      !.outcome = IF captured THEN "captured" ELSE "none"])
                /\ Goto(e, "resumeInterrupt")
     \/ HistoryFails /\ End(e)
  /\ UNCHANGED <<queueVars, historyVars, lastRun, lastToken>>

\* RUNNING attempts are closed; the resume point is read again only if there
\* were any.  A run with nothing left to do cannot be resumed
ResumeInterrupt(e) ==
  LET r == job[e].run
      target == IF Interrupted(r) # rows THEN ResumeIndex(r) ELSE job[e].target
  IN
  /\ pc[e] = "resumeInterrupt"
  /\ \/ /\ HistoryOk
        /\ rows' = Interrupted(r)
        /\ IF target >= N THEN End(e)
           ELSE Remember(e, [job[e] EXCEPT !.target = target]) /\ Goto(e, "resumeCommit")
     \/ HistoryFails /\ End(e) /\ UNCHANGED rows
  /\ UNCHANGED <<queueVars, runStatus, backups, lastRun, lastToken>>

\* Phase 2: unclaimed, and either as captured or not taken by another run
ResumeCommit(e) ==
  /\ pc[e] = "resumeCommit" /\ LockFree
  /\ IF /\ active.token = 0
        /\ IF job[e].outcome = "captured"
           THEN queue.run = job[e].run /\ queue.index = job[e].index
           ELSE queue.run \in {0, job[e].run}
     THEN Reopen(e) /\ Goto(e, "recordResumed") /\ UNCHANGED job
     ELSE End(e) /\ UNCHANGED <<queue, active>>
  /\ UNCHANGED <<checkpoint, nextTrig, paused, historyVars, countVars>>

-----------------------------------------------------------------------------
(* Operator commands that need no execution of their own, and termination *)

\* removeDailyQboExportTriggers (also the first half of an installation): the
\* run is cancelled in the history, triggers and queue go, under the lock and
\* whether or not a worker is still running
Remove ==
  /\ LockFree /\ Charge("remove")
  /\ \/ /\ queue.run # 0
        /\ rows' = Interrupted(queue.run)
        /\ runStatus' = IF runStatus[queue.run] = "absent" THEN runStatus
                        ELSE [runStatus EXCEPT ![queue.run] = "CANCELLED"]
     \/ UNCHANGED <<rows, runStatus>>   \* no queue, or history errors swallowed
  /\ nextTrig' = 0 /\ ClearQueue
  /\ UNCHANGED <<checkpoint, paused, backups, pc, job, lastRun, lastToken>>

\* quiesceQboDailyV1279: set the pause gate and stop the chain
Quiesce ==
  /\ LockFree /\ ~paused /\ Charge("quiesce")
  /\ paused' = TRUE /\ nextTrig' = 0
  /\ UNCHANGED <<queue, active, checkpoint, historyVars, pc, job, lastRun, lastToken>>

\* The gate opens on an idle queue: resumeDailyFullExportAdministrativeSchedule, under
\* another lock than the scheduler's; reconcileDailyFullExportLegacyPauseGate demands
\* more
OpenGate ==
  /\ paused /\ queue.run = 0 /\ active.token = 0
  /\ paused' = FALSE
  /\ UNCHANGED <<queue, active, checkpoint, nextTrig, historyVars, pc, job, countVars>>

\* The platform terminates an execution; its lock, if any, is released
Crash(e) ==
  /\ pc[e] # "idle" /\ Charge("crash")
  /\ End(e)
  /\ UNCHANGED <<queueVars, historyVars, lastRun, lastToken>>

-----------------------------------------------------------------------------
Init ==
  /\ queue = NoQueue /\ active = NoClaim /\ checkpoint = NoCheckpoint
  /\ nextTrig = 0 /\ paused = FALSE
  /\ runStatus = [r \in Runs |-> "absent"] /\ rows = <<>> /\ backups = {}
  /\ pc = [e \in Execs |-> "idle"] /\ job = [e \in Execs |-> NoJob]
  /\ lastRun = 0 /\ lastToken = 0 /\ faults = 0

\* Every step of an execution once it has been started
Progress(e) ==
  \/ ClaimRefused(e) \/ ClaimCompletion(e) \/ Claim(e) \/ ArmWatchdog(e)
  \/ CheckpointClaimed(e) \/ RecordStart(e) \/ CheckpointStarted(e)
  \/ Export(e) \/ MakeBackup(e) \/ RecordResult(e)
  \/ VerifyHistory(e) \/ CheckpointSnapshot(e) \/ Finalize(e) \/ Advance(e)
  \/ Continue(e) \/ DropNext(e) \/ MakeNext(e)
  \/ RecordComplete(e) \/ ClearCompleted(e) \/ RecordResumed(e)
  \/ StarterCapture(e) \/ StarterRecover(e) \/ StarterCommit(e)
  \/ StarterCreate(e) \/ StarterRecordRun(e) \/ StarterRollback(e)
  \/ ResumeCapture(e) \/ ResumeRead(e) \/ ResumeInterrupt(e) \/ ResumeCommit(e)

Step(e) ==
  WorkerFires(e) \/ StarterFires(e) \/ ResumeCalled(e) \/ Progress(e) \/ Crash(e)

Next == (\E e \in Execs : Step(e)) \/ Remove \/ Quiesce \/ OpenGate

Spec == Init /\ [][Next]_vars

-----------------------------------------------------------------------------
(* Properties *)

QueueType == [run : Nat, index : 0..N, failed : Nat]
ClaimType == [token : Nat, index : Nat]
CheckpointType == [run : Nat, index : Nat, token : Nat, phase : Phases, backup : Nat]
RowType == [run : Runs, index : 0..(N - 1), token : Nat, status : RowStatuses, backup : Nat]
BackupType == [run : Runs, index : 0..(N - 1), token : Nat \ {0}]
Outcomes == {"none", "captured", "ok", "error", "busy"}
JobType == [run : Nat, index : 0..N, token : Nat, failed : Nat, target : 0..N,
            outcome : Outcomes]

\* Types of every variable: Script Properties, history, triggers, executions.
TypeOK ==
  /\ queue \in QueueType /\ active \in ClaimType /\ checkpoint \in CheckpointType
  /\ nextTrig \in Nat /\ paused \in BOOLEAN
  /\ runStatus \in [Runs -> RunStatuses] /\ rows \in Seq(RowType)
  /\ backups \subseteq BackupType
  /\ pc \in [Execs -> Pcs] /\ job \in [Execs -> JobType]
  /\ lastRun \in 0..MaxRuns /\ lastToken \in 0..MaxClaims /\ faults \in 0..MaxFaults

HasBackup(r, i) == \E b \in backups : b.run = r /\ b.index = i

\* The queue of a run never stands beyond an exporter that has neither a Master
\* Backup in Drive nor a place in FAILED_COUNT, whatever mix of finalizations,
\* recoveries, resumes and removals led there
\* (finalizeDailyQboWorkerClaim_, both recovery commits).
ProgressBacked ==
  queue.run # 0 =>
    Cardinality({i \in 0..(queue.index - 1) : ~HasBackup(queue.run, i)})
      <= queue.failed

\* A run the history calls COMPLETE has a Master Backup of every exporter: the
\* final status is written from counts computed long before, outside any lock
\* (completeDailyQboExportSchedule_).
CompleteRunBacked ==
  \A r \in Runs : runStatus[r] = "COMPLETE" => \A i \in 0..(N - 1) : HasBackup(r, i)

\* An exporter row marked COMPLETE names a Master Backup that exists for that run
\* and exporter, although the row written is the last one and not necessarily
\* the writer's (recordQboScheduledExportResult_).
CompleteRowBacked ==
  \A k \in DOMAIN rows : rows[k].status = "COMPLETE" =>
    [run |-> rows[k].run, index |-> rows[k].index, token |-> rows[k].backup] \in backups

\* A persisted claim is always about the position the queue stands at
\* (claimDailyQboWorker_, and every path that moves the queue).
ClaimTracksQueue ==
  active.token # 0 => queue.run # 0 /\ active.index = queue.index /\ queue.index < N

Exporting(e) == pc[e] \in {"export", "snapshot"}

\* Within one run driven by the starter and its triggers, two executions are never
\* inside an exporter at once, whatever crashes, history failures, errors and stale
\* triggers occur: the claim is the only admission (V1280, no takeover by age).
OneExporterAtATime ==
  \A e, f \in Execs : Exporting(e) /\ Exporting(f) => e = f

\* Within one run driven by the starter and its triggers, an exporter whose attempt the
\* history calls COMPLETE is not run again, however often the starter recovers the run
\* (V1338 guard, completion hold; "COMPLETE exporters are not rerun").
CompleteNotRerun ==
  \A e \in Execs, k \in DOMAIN rows :
    Exporting(e) /\ rows[k].status = "COMPLETE"
      => rows[k].run # job[e].run \/ rows[k].index # job[e].index

\* A recovery that commits writes the resume point the history still has: had
\* another execution moved the queue since it was captured, the recovery would have
\* aborted (README v1.5.42, both compare-and-set commits).
RecoveryFresh ==
  [][\A e \in Execs :
       pc[e] \in {"commit", "resumeCommit"} /\ pc'[e] = "recordResumed"
         => job[e].target = ResumeIndex(job[e].run)]_vars

\* A step that moves the queue one position up without counting a failure is
\* checkpointed as QUEUE_ADVANCED for exactly that position and for a Master Backup
\* that exists (V1290 commit under the scheduler lock).
AdvanceProved ==
  [][(/\ queue'.run = queue.run /\ queue'.index = queue.index + 1
      /\ queue'.failed = queue.failed /\ active.token # 0)
     => /\ checkpoint.phase = "QUEUE_ADVANCED"
        /\ checkpoint.run = queue.run /\ checkpoint.index = queue.index
        /\ [run |-> queue.run, index |-> queue.index, token |-> checkpoint.backup]
             \in backups]_vars

\* Scheduling: a started execution keeps taking steps, an installed NEXT trigger
\* fires even if recoveries keep replacing it (it fires after two minutes, the
\* starter runs once a day), and the daily starter keeps firing
Fairness ==
  /\ \A e \in Execs : WF_vars(Progress(e))
  /\ \A e \in Execs : SF_vars(WorkerFires(e))
  /\ \A e \in Execs : SF_vars(StarterFires(e))

FairSpec == Spec /\ Fairness

\* The persisted state as an ExportQueue: the queue of no run is unowned, whatever
\* index a finalization left behind after an unlocked clear
Queue == INSTANCE ExportQueue WITH
  queue <- IF queue.run = 0 THEN NoQueue ELSE queue,
  holder <- active.token,
  evidence <- backups,
  opened <- lastRun,
  issued <- lastToken

\* Every step of every execution, with its crashes, is a step of the queue's
\* promise or changes nothing of it: no recovery moves a run past its evidence,
\* overwrites a claim or another run.
QueueKept == Queue!Spec

\* A claim whose worker the platform terminated: no execution is about to end it
Abandoned == active.token # 0 /\ \A e \in Execs : pc[e] = "idle" \/ job[e].token # active.token

\* A queue whose starter the platform terminated before the run's row was written:
\* no recovery can rebuild it
Unrecorded ==
  /\ queue.run # 0 /\ runStatus[queue.run] = "absent"
  /\ \A e \in Execs : pc[e] \notin {"recordRun", "rollback"}

\* Every run that owns the queue eventually leaves it, through retries of a busy
\* workbook, failed exporters, lost history writes, terminations and daily recoveries.
\* Only two terminations stop it: of a worker that holds the claim, and of the starter
\* between the new queue and its row.
RunFinishes == \A r \in Runs : (queue.run = r) ~> (queue.run # r \/ Abandoned \/ Unrecorded)

\* A claim is eventually given up, even if the platform terminates the worker that
\* holds it (README v1.5.40, comment of claimDailyQboWorker_).
ClaimReleased == \A t \in 1..MaxClaims : (active.token = t) ~> (active.token # t)

=============================================================================
