------------------------------ MODULE NativeCdc ------------------------------
(***************************************************************************)
(* Acquisition of QBO Native CDC evidence (65_QBO_NativeCdcProduction.js). *)
(* A recurring starter opens a cycle with a frozen window; workers, each   *)
(* an execution started by a one-time NEXT trigger, fetch the evidence of  *)
(* the entities in order, a few per wave, and checkpoint each; the last    *)
(* one moves the durable watermark to the end of the window and hands the  *)
(* cycle's manifest over to the ingestion.                                 *)
(*                                                                         *)
(* The cycle's state is one Script Property, every change of it one short  *)
(* section under the control lock and one action here.  Between two such   *)
(* sections an execution calls QBO and Drive without the lock, may be      *)
(* terminated by the platform, or may outlast its lease.                   *)
(*                                                                         *)
(* Time is the number of QBO requests answered so far.  A response holds   *)
(* every change since the start of the window up to the request.           *)
(***************************************************************************)
EXTENDS Integers, Sequences

CONSTANTS
  Execs,       \* Apps Script executions that may be alive at the same time
  N,           \* number of ENTITIES, taken in order 0..N-1
  Wave,        \* ENTITIES_PER_WAVE
  Overlap,     \* OVERLAP_MINUTES
  MaxAttempts, \* MAX_ENTITY_ATTEMPTS
  MaxCycles,   \* bound: cycles ever opened
  MaxWorkers,  \* bound: worker ids ever drawn
  MaxFaults,   \* bound: occurrences of the events of Hazards
  Hazards      \* the events below that may happen in this instance

(* "crash" ends an execution anywhere, "killed" only among its entities;   *)
(* "qbo" fails or truncates a request, "drive" a file or manifest write,   *)
(* "lock" is a control lock not to be had in time, "register" a failed     *)
(* registration; "slow" is a live worker that outlasts its lease; the rest *)
(* are operator commands.                                                  *)
HazardKinds == {"crash", "killed", "qbo", "drive", "lock", "register", "slow",
                "pause", "remove", "install"}

ASSUME CdcConstants ==
  /\ N \in Nat \ {0} /\ Wave \in Nat \ {0} /\ Overlap \in Nat
  /\ MaxAttempts \in Nat \ {0}
  /\ MaxCycles \in Nat /\ MaxWorkers \in Nat /\ MaxFaults \in Nat
  /\ Hazards \subseteq HazardKinds

VARIABLES
  state,      \* QBO_NATIVE_CDC_CYCLE_STATE_V2
  watermark,  \* QBO_NATIVE_CDC_SUCCESS_WATERMARK (0: none yet)
  attempts,   \* ATTEMPTS of the current cycle by entity, N for none current
  meta,       \* SUCCESS entity metadata: pairs of a cycle and an entity
  leases,     \* per entity: the worker and cycle of an unexpired lease
  starter,    \* whether the recurring START trigger is installed
  next,       \* the NEXT trigger: none, armed, or fired and still listed
  paused,     \* QBO_NATIVE_CDC_PRODUCTION_PAUSED_V1
  files,      \* evidence files in Drive
  manifests,  \* the manifest file recorded for a cycle, as last written
  handoffs,   \* QBO_NATIVE_CDC_PENDING_INGESTION_HANDOFFS_V2
  registered, \* cycles registered for ingestion
  pc, job,    \* per execution: where it is, and its local variables
  now,        \* requests answered so far
  outlasted,  \* history: whether a live worker outlasted its lease
  lastCycle, lastWorker, faults  \* counters behind getUuid and the bounds

controlVars == <<state, watermark, attempts, starter, next, paused>>
driveVars == <<files, manifests>>
handoffVars == <<handoffs, registered>>
countVars == <<lastCycle, lastWorker>>
faultVars == <<faults, outlasted>>
vars == <<controlVars, meta, leases, driveVars, handoffVars, pc, job, now,
          countVars, faultVars>>

-----------------------------------------------------------------------------
(* Values *)

Entities == 0..(N - 1)
Cycles == 1..MaxCycles
Active == {"RUNNING", "INITIALIZING", "FINALIZING"}

NoState == [cycle |-> 0, status |-> "NONE", from |-> 0, to |-> 0, index |-> 0,
            owner |-> 0, live |-> FALSE, manifest |-> FALSE]
NoLease == [worker |-> 0, cycle |-> 0]
NoManifest == [status |-> "NONE", evidence |-> {}]

(* from and to are the window a starter built, or the time of a response;   *)
(* seen is the last cycle the starter knew of; snap and recorded are the    *)
(* status and manifest id of the copy of the state a manifest is made from. *)
NoJob == [worker |-> 0, cycle |-> 0, index |-> 0, done |-> 0, from |-> 0, to |-> 0,
          seen |-> 0, whole |-> FALSE, failed |-> FALSE, snap |-> "NONE",
          recorded |-> FALSE]

StarterPcs == {"reserve", "open", "openManifest"}
EntityPcs == {"wave", "lease", "heartbeat", "process", "store", "describe", "checkpoint",
              "manifest", "unlease"}
ClosingPcs == {"finalize", "finalManifest", "commit", "committedManifest", "cleanup",
               "enqueue", "register", "unqueue"}
ErrorPcs == {"recordError", "errorManifest"}
Pcs == {"idle", "claim", "release", "schedule", "retry", "retryRemove"}
         \union StarterPcs \union EntityPcs \union ClosingPcs \union ErrorPcs

-----------------------------------------------------------------------------
(* Helpers *)

Goto(e, where) == pc' = [pc EXCEPT ![e] = where]
End(e) == Goto(e, "idle") /\ job' = [job EXCEPT ![e] = NoJob]
Charge(kind) ==
  /\ kind \in Hazards /\ faults < MaxFaults
  /\ faults' = faults + 1 /\ outlasted' = (outlasted \/ kind = "slow")

(* A started execution of worker w is still there. *)
Alive(w) == \E e \in Execs : pc[e] # "idle" /\ job[e].worker = w

EnsureNext == IF next = "none" /\ ~paused THEN "armed" ELSE next

(* pause and resume refuse while a cycle or a worker is active. *)
Busy == state.status \in Active \/ (state.owner # 0 /\ state.live)

(* qboNativeCdcAssertWorkerOwner_ *)
Owns(e) == state.status = "RUNNING" /\ state.owner = job[e].worker /\ state.live

Files(c, i) == {f \in files : f.cycle = c /\ f.entity = i}
Described(c) == {i \in Entities : <<c, i>> \in meta}

(* The error path of an execution that holds an entity lease, or none. *)
Fail(e, where) ==
  Goto(e, where) /\ job' = [job EXCEPT ![e].failed = TRUE]

-----------------------------------------------------------------------------
(* The starter: startQboNativeCdcCycle *)

(* The window is built from the watermark before the lock is asked for.    *)
StarterFires(e) ==
  /\ pc[e] = "idle" /\ starter
  /\ lastCycle < MaxCycles \/ state.status \in Active
  /\ job' = [job EXCEPT ![e] = [NoJob EXCEPT
        !.from = IF watermark > Overlap THEN watermark - Overlap ELSE 0,
        !.to = now, !.seen = lastCycle]]
  /\ Goto(e, "reserve")
  /\ UNCHANGED <<controlVars, meta, leases, driveVars, handoffVars, now, countVars, faultVars>>

(* Mutant: a starter waits for the lock however long it takes. *)
MutReserveLate(e) ==
  /\ pc[e] = "reserve" /\ ~paused /\ state.status \notin Active /\ lastCycle < MaxCycles
  /\ lastCycle' = lastCycle + 1
  /\ state' = [NoState EXCEPT !.cycle = lastCycle + 1, !.status = "INITIALIZING",
                              !.from = job[e].from, !.to = job[e].to]
  /\ job' = [job EXCEPT ![e].cycle = lastCycle + 1]
  /\ Goto(e, "open")
  /\ UNCHANGED <<watermark, attempts, starter, next, paused, meta, leases, driveVars,
                 handoffVars, now, lastWorker, faultVars>>

(* The lock is had within CONTROL_LOCK_TIMEOUT_MS of the window, and no     *)
(* cycle begins and ends in that time: each needs a NEXT trigger, which     *)
(* fires later than that.                                                   *)
Reserve(e) ==
  /\ pc[e] = "reserve" /\ ~paused /\ state.status \notin Active
  /\ lastCycle < MaxCycles /\ lastCycle = job[e].seen
  /\ lastCycle' = lastCycle + 1
  /\ state' = [NoState EXCEPT !.cycle = lastCycle + 1, !.status = "INITIALIZING",
                              !.from = job[e].from, !.to = job[e].to]
  /\ job' = [job EXCEPT ![e].cycle = lastCycle + 1]
  /\ Goto(e, "open")
  /\ UNCHANGED <<watermark, attempts, starter, next, paused, meta, leases, driveVars,
                 handoffVars, now, lastWorker, faultVars>>

(* PAUSED, ALREADY_ACTIVE, or the lock was not to be had in time. *)
Refused(e) ==
  /\ pc[e] = "reserve"
  /\ \/ paused /\ UNCHANGED next
     \/ /\ ~paused /\ state.status \in Active
        /\ next' = IF state.status = "RUNNING" THEN EnsureNext ELSE next
     \/ /\ state.status \notin Active /\ (lastCycle # job[e].seen \/ lastCycle = MaxCycles)
        /\ UNCHANGED next
  /\ End(e)
  /\ UNCHANGED <<state, watermark, attempts, starter, paused, meta, leases, driveVars,
                 handoffVars, now, countVars, faultVars>>

(* The run folder is made, then the reservation becomes a RUNNING cycle. *)
Open(e) ==
  /\ pc[e] = "open"
  /\ IF state.status = "INITIALIZING" /\ state.cycle = job[e].cycle
     THEN /\ state' = [state EXCEPT !.status = "RUNNING"]
          /\ attempts' = [i \in 0..N |-> 0]
          /\ next' = EnsureNext
          /\ job' = [job EXCEPT ![e].snap = "RUNNING"]
          /\ Goto(e, "openManifest")
     ELSE End(e) /\ UNCHANGED <<state, attempts, next>>
  /\ UNCHANGED <<watermark, starter, paused, meta, leases, driveVars, handoffVars, now,
                 countVars, faultVars>>

-----------------------------------------------------------------------------
(* Manifests *)

Manifest(e) == [status |-> job[e].snap, evidence |-> Described(job[e].cycle)]

(* qboNativeCdcWriteManifest_ from the copy of the state the execution      *)
(* took: it overwrites the recorded file, or makes one and records it,      *)
(* which fails when the cycle changed or another was recorded meanwhile.    *)
(* The file of a failed recording stays unreferenced.                       *)
ManifestWritten(e) ==
  LET c == job[e].cycle IN
  /\ job[e].recorded \/ (state.cycle = c /\ ~state.manifest)
  /\ manifests' = [manifests EXCEPT ![c] = Manifest(e)]
  /\ state' = IF job[e].recorded THEN state ELSE [state EXCEPT !.manifest = TRUE]
  /\ UNCHANGED faultVars
ManifestFails(e) ==
  /\ \/ ~job[e].recorded /\ (state.cycle # job[e].cycle \/ state.manifest) /\ UNCHANGED faultVars
     \/ Charge("drive")
  /\ UNCHANGED <<manifests, state>>

ManifestStep(e, at, then, onError) ==
  /\ pc[e] = at
  /\ \/ ManifestWritten(e) /\ Goto(e, then) /\ UNCHANGED job
     \/ ManifestFails(e) /\ Fail(e, onError)
  /\ UNCHANGED <<watermark, attempts, starter, next, paused, meta, leases, files,
                 handoffVars, now, countVars>>

OpenManifest(e) ==
  /\ pc[e] = "openManifest"
  /\ ManifestWritten(e) \/ ManifestFails(e)
  /\ End(e)
  /\ UNCHANGED <<watermark, attempts, starter, next, paused, meta, leases, files,
                 handoffVars, now, countVars>>

EntityManifest(e) == ManifestStep(e, "manifest", "unlease", "unlease")
FinalManifest(e) == ManifestStep(e, "finalManifest", "commit", "recordError")
CommittedManifest(e) == ManifestStep(e, "committedManifest", "cleanup", "recordError")
ErrorManifest(e) == ManifestStep(e, "errorManifest", "release", "release")

-----------------------------------------------------------------------------
(* The worker: runNextQboNativeCdcWave *)

(* A one-time trigger that has fired stays listed until it is deleted. *)
WaveFires(e) ==
  /\ pc[e] = "idle" /\ next = "armed"
  /\ next' = "fired"
  /\ Goto(e, "claim")
  /\ UNCHANGED <<state, watermark, attempts, starter, paused, meta, leases, driveVars,
                 handoffVars, job, now, countVars, faultVars>>

(* qboNativeCdcClaimWorker_ first deletes the NEXT triggers. *)
Claim(e) ==
  /\ pc[e] = "claim" /\ ~paused /\ state.status = "RUNNING"
  /\ ~(state.owner # 0 /\ state.live)
  /\ lastWorker < MaxWorkers
  /\ lastWorker' = lastWorker + 1
  /\ next' = "none"
  /\ state' = [state EXCEPT !.owner = lastWorker + 1, !.live = TRUE]
  /\ job' = [job EXCEPT ![e] = [NoJob EXCEPT !.worker = lastWorker + 1]]
  /\ Goto(e, "wave")
  /\ UNCHANGED <<watermark, attempts, starter, paused, meta, leases, driveVars, handoffVars,
                 now, lastCycle, faultVars>>

NoClaim(e) ==
  /\ pc[e] = "claim"
  /\ \/ /\ paused \/ state.status # "RUNNING"
        /\ next' = "none"
     \/ /\ ~paused /\ state.status = "RUNNING" /\ state.owner # 0 /\ state.live
        /\ next' = "armed"
  /\ End(e)
  /\ UNCHANGED <<state, watermark, attempts, starter, paused, meta, leases, driveVars,
                 handoffVars, now, countVars, faultVars>>

(* The head of the loop: the next entity of the state, or the loop is over: *)
(* enough entities, no time left, or nothing to do.                         *)
NextEntity(e) ==
  /\ pc[e] = "wave"
  /\ \/ /\ job[e].done < Wave /\ state.status = "RUNNING" /\ state.index < N
        /\ IF Owns(e)
           THEN /\ job' = [job EXCEPT ![e].cycle = state.cycle, ![e].index = state.index,
                                      ![e].from = state.from]
                /\ Goto(e, "lease")
           ELSE Fail(e, "recordError")
     \/ /\ job[e].done > 0 \/ state.status # "RUNNING" \/ state.index >= N
        /\ Goto(e, "finalize") /\ UNCHANGED job
  /\ UNCHANGED <<controlVars, meta, leases, driveVars, handoffVars, now, countVars, faultVars>>

AcquireEntity(e) ==
  LET mine == [worker |-> job[e].worker, cycle |-> job[e].cycle] IN
  /\ pc[e] = "lease"
  /\ IF leases[job[e].index] \in {NoLease, mine}
     THEN /\ leases' = [leases EXCEPT ![job[e].index] = mine]
          /\ Goto(e, "heartbeat") /\ UNCHANGED job
     ELSE Fail(e, "recordError") /\ UNCHANGED leases
  /\ UNCHANGED <<controlVars, meta, driveVars, handoffVars, now, countVars, faultVars>>

Heartbeat(e) ==
  /\ pc[e] = "heartbeat"
  /\ IF Owns(e) THEN Goto(e, "process") /\ UNCHANGED job ELSE Fail(e, "unlease")
  /\ UNCHANGED <<controlVars, meta, leases, driveVars, handoffVars, now, countVars, faultVars>>

(* Evidence of the cycle is looked for before QBO is asked again. *)
Recover(e) ==
  LET prior == Files(job[e].cycle, job[e].index) IN
  /\ pc[e] = "process" /\ prior # {}
  /\ \/ /\ \E f \in prior : prior = {f} /\ f.whole
        /\ Goto(e, "describe") /\ UNCHANGED job
     \/ /\ ~ \E f \in prior : prior = {f} /\ f.whole
        /\ Fail(e, "unlease")
  /\ UNCHANGED <<controlVars, meta, leases, driveVars, handoffVars, now, countVars, faultVars>>

(* Mutant: QBO is asked again whatever the run folder holds. *)
MutRequestAgain(e) ==
  /\ pc[e] = "process"
  /\ now' = now + 1
  /\ job' = [job EXCEPT ![e].to = now + 1, ![e].whole = TRUE]
  /\ Goto(e, "store")
  /\ UNCHANGED <<controlVars, meta, leases, driveVars, handoffVars, countVars, faultVars>>

Request(e) ==
  /\ pc[e] = "process" /\ Files(job[e].cycle, job[e].index) = {}
  /\ \/ /\ now' = now + 1
        /\ \/ job' = [job EXCEPT ![e].to = now + 1, ![e].whole = TRUE] /\ UNCHANGED faultVars
           \/ job' = [job EXCEPT ![e].to = now + 1, ![e].whole = FALSE] /\ Charge("qbo")
        /\ Goto(e, "store")
     \/ Charge("qbo") /\ Fail(e, "unlease") /\ UNCHANGED now
  /\ UNCHANGED <<controlVars, meta, leases, driveVars, handoffVars, countVars>>

(* The raw response is kept; then it must prove complete. *)
Store(e) ==
  /\ pc[e] = "store"
  /\ \/ /\ files' = files \union
             {[cycle |-> job[e].cycle, entity |-> job[e].index, from |-> job[e].from,
               to |-> job[e].to, whole |-> job[e].whole]}
        /\ IF job[e].whole THEN Goto(e, "describe") /\ UNCHANGED job ELSE Fail(e, "unlease")
        /\ UNCHANGED faultVars
     \/ Charge("drive") /\ Fail(e, "unlease") /\ UNCHANGED files
  /\ UNCHANGED <<controlVars, meta, leases, manifests, handoffVars, now, countVars>>

Describe(e) ==
  /\ pc[e] = "describe"
  /\ meta' = meta \union {<<job[e].cycle, job[e].index>>}
  /\ Goto(e, "checkpoint")
  /\ UNCHANGED <<controlVars, leases, driveVars, handoffVars, job, now, countVars, faultVars>>

(* qboNativeCdcCommitEntityCheckpoint_, up to its manifest. *)
Checkpoint(e) ==
  /\ pc[e] = "checkpoint"
  /\ IF /\ Owns(e) /\ state.cycle = job[e].cycle /\ state.index = job[e].index
        /\ <<job[e].cycle, job[e].index>> \in meta
     THEN /\ state' = [state EXCEPT !.index = @ + 1]
          /\ job' = [job EXCEPT ![e].done = @ + 1, ![e].snap = "RUNNING",
                                ![e].recorded = state.manifest]
          /\ Goto(e, "manifest")
     ELSE Fail(e, "unlease") /\ UNCHANGED state
  /\ UNCHANGED <<watermark, attempts, starter, next, paused, meta, leases, driveVars,
                 handoffVars, now, countVars, faultVars>>

ReleaseEntity(e) ==
  LET i == job[e].index IN
  /\ pc[e] = "unlease"
  /\ leases' = IF leases[i] = [worker |-> job[e].worker, cycle |-> job[e].cycle]
               THEN [leases EXCEPT ![i] = NoLease] ELSE leases
  /\ Goto(e, IF job[e].failed THEN "recordError" ELSE "wave")
  /\ UNCHANGED <<controlVars, meta, driveVars, handoffVars, job, now, countVars, faultVars>>

-----------------------------------------------------------------------------
(* The end of a wave *)

(* Mutant: the complete manifest is not written before the commit. *)
MutFinalizeNoManifest(e) ==
  /\ pc[e] = "finalize"
  /\ IF ~(state.status = "RUNNING" /\ state.index >= N)
     THEN Goto(e, "release") /\ UNCHANGED <<state, job>>
     ELSE IF Owns(e) /\ (\A i \in Entities : <<state.cycle, i>> \in meta)
     THEN /\ state' = [state EXCEPT !.status = "FINALIZING"]
          /\ job' = [job EXCEPT ![e].cycle = state.cycle]
          /\ Goto(e, "commit")
     ELSE Fail(e, "recordError") /\ UNCHANGED state
  /\ UNCHANGED <<watermark, attempts, starter, next, paused, meta, leases, driveVars,
                 handoffVars, now, countVars, faultVars>>

(* qboNativeCdcFinalizeCycle_, when the state says all entities are done. *)
Finalize(e) ==
  /\ pc[e] = "finalize"
  /\ IF ~(state.status = "RUNNING" /\ state.index >= N)
     THEN Goto(e, "release") /\ UNCHANGED <<state, job>>
     ELSE IF Owns(e) /\ (\A i \in Entities : <<state.cycle, i>> \in meta)
     THEN /\ state' = [state EXCEPT !.status = "FINALIZING"]
          /\ job' = [job EXCEPT ![e].cycle = state.cycle, ![e].snap = "FINALIZING",
                                ![e].recorded = state.manifest]
          /\ Goto(e, "finalManifest")
     ELSE Fail(e, "recordError") /\ UNCHANGED state
  /\ UNCHANGED <<watermark, attempts, starter, next, paused, meta, leases, driveVars,
                 handoffVars, now, countVars, faultVars>>

(* Mutant: the watermark is the time of the commit. *)
MutCommitAtNow(e) ==
  /\ pc[e] = "commit" /\ state.cycle = job[e].cycle /\ state.status = "FINALIZING"
  /\ watermark' = now
  /\ state' = [state EXCEPT !.status = "SUCCESS", !.owner = 0, !.live = FALSE]
  /\ job' = [job EXCEPT ![e].snap = "SUCCESS", ![e].recorded = state.manifest]
  /\ Goto(e, "committedManifest")
  /\ UNCHANGED <<attempts, starter, next, paused, meta, leases, driveVars, handoffVars, now,
                 countVars, faultVars>>

(* Mutant: the handoff is queued before the committed manifest is written. *)
MutCommitNoManifest(e) ==
  /\ pc[e] = "commit" /\ state.cycle = job[e].cycle /\ state.status = "FINALIZING"
  /\ watermark' = state.to
  /\ state' = [state EXCEPT !.status = "SUCCESS", !.owner = 0, !.live = FALSE]
  /\ UNCHANGED job
  /\ Goto(e, "enqueue")
  /\ UNCHANGED <<attempts, starter, next, paused, meta, leases, driveVars, handoffVars, now,
                 countVars, faultVars>>

(* The second section looks at the cycle and its status, not at the owner. *)
Commit(e) ==
  /\ pc[e] = "commit"
  /\ IF state.cycle = job[e].cycle /\ state.status = "FINALIZING"
     THEN /\ watermark' = state.to
          /\ state' = [state EXCEPT !.status = "SUCCESS", !.owner = 0, !.live = FALSE]
          /\ job' = [job EXCEPT ![e].snap = "SUCCESS", ![e].recorded = state.manifest]
          /\ Goto(e, "committedManifest")
     ELSE Fail(e, "recordError") /\ UNCHANGED <<watermark, state>>
  /\ UNCHANGED <<attempts, starter, next, paused, meta, leases, driveVars, handoffVars, now,
                 countVars, faultVars>>

(* The execution is terminated between the two properties of the commit. *)
CommitCut(e) ==
  /\ pc[e] = "commit" /\ state.cycle = job[e].cycle /\ state.status = "FINALIZING"
  /\ Charge("crash")
  /\ watermark' = state.to
  /\ End(e)
  /\ UNCHANGED <<state, attempts, starter, next, paused, meta, leases, driveVars, handoffVars,
                 now, countVars>>

(* Best effort: the transient properties of the committed cycle go. *)
Cleanup(e) ==
  /\ pc[e] = "cleanup"
  /\ \/ meta' = {p \in meta : p[1] # job[e].cycle}
     \/ UNCHANGED meta
  /\ Goto(e, "enqueue")
  /\ UNCHANGED <<controlVars, leases, driveVars, handoffVars, job, now, countVars, faultVars>>

(* qboNativeCdcPublishIngestionHandoff_ *)
Queued(c) == \E k \in 1..Len(handoffs) : handoffs[k] = c

Enqueue(e) ==
  /\ pc[e] = "enqueue"
  /\ handoffs' = IF Queued(job[e].cycle) THEN handoffs ELSE Append(handoffs, job[e].cycle)
  /\ Goto(e, "register")
  /\ UNCHANGED <<controlVars, meta, leases, driveVars, registered, job, now, countVars, faultVars>>

(* registerQboNativeCdcManifestForIngestion_ takes a committed manifest     *)
(* with the evidence of every entity.                                       *)
Registrable(c) == manifests[c] = [status |-> "SUCCESS", evidence |-> Entities]

RegisterStep(e, at, then, onError) ==
  /\ pc[e] = at
  /\ \/ /\ Registrable(job[e].cycle)
        /\ registered' = registered \union {job[e].cycle}
        /\ Goto(e, then) /\ UNCHANGED <<job, faultVars>>
     \/ /\ \/ ~Registrable(job[e].cycle) /\ UNCHANGED faultVars
           \/ Charge("register")
        /\ IF onError = "idle" THEN End(e) ELSE Goto(e, onError) /\ UNCHANGED job
        /\ UNCHANGED registered
  /\ UNCHANGED <<controlVars, meta, leases, driveVars, handoffs, now, countVars>>

(* Mutant: the handoff is taken off the queue although it failed. *)
MutRegisterDropped(e) == RegisterStep(e, "register", "unqueue", "unqueue")
Register(e) == RegisterStep(e, "register", "unqueue", "release")

(* A cycle is queued at most once. *)
Others(c) ==
  IF Queued(c)
  THEN LET k == CHOOSE k \in 1..Len(handoffs) : handoffs[k] = c IN
       SubSeq(handoffs, 1, k - 1) \o SubSeq(handoffs, k + 1, Len(handoffs))
  ELSE handoffs

Unqueue(e) ==
  /\ pc[e] = "unqueue"
  /\ handoffs' = Others(job[e].cycle)
  /\ Goto(e, "release")
  /\ UNCHANGED <<controlVars, meta, leases, driveVars, registered, job, now, countVars, faultVars>>

(* The ingestion dispatcher retries the head of the queue. *)
RetryFires(e) ==
  /\ pc[e] = "idle" /\ handoffs # <<>>
  /\ job' = [job EXCEPT ![e] = [NoJob EXCEPT !.cycle = Head(handoffs)]]
  /\ Goto(e, "retry")
  /\ UNCHANGED <<controlVars, meta, leases, driveVars, handoffVars, now, countVars, faultVars>>

Retry(e) == RegisterStep(e, "retry", "retryRemove", "idle")

RetryRemove(e) ==
  /\ pc[e] = "retryRemove"
  /\ handoffs' = Others(job[e].cycle)
  /\ End(e)
  /\ UNCHANGED <<controlVars, meta, leases, driveVars, registered, now, countVars, faultVars>>

-----------------------------------------------------------------------------
(* Errors and the finally block *)

(* Mutant: the attempts are never compared with their limit. *)
MutRecordErrorUnlimited(e) ==
  /\ pc[e] = "recordError"
  /\ IF state.owner = job[e].worker
     THEN /\ attempts' = [attempts EXCEPT ![state.index] = @ + 1]
          /\ Goto(e, "release") /\ UNCHANGED <<state, job>>
     ELSE Goto(e, "release") /\ UNCHANGED <<attempts, state, job>>
  /\ UNCHANGED <<watermark, starter, next, paused, meta, leases, driveVars, handoffVars,
                 now, countVars, faultVars>>

(* Mutant: errors are recorded without counting attempts. *)
MutRecordErrorUncounted(e) ==
  /\ pc[e] = "recordError"
  /\ Goto(e, "release")
  /\ UNCHANGED <<controlVars, meta, leases, driveVars, handoffVars, job, now, countVars,
                 faultVars>>

(* qboNativeCdcRecordWorkerError_: only the lease owner counts an attempt;  *)
(* the attempts of a cycle past its last entity share one counter.          *)
RecordError(e) ==
  LET i == state.index IN
  /\ pc[e] = "recordError"
  /\ IF state.owner = job[e].worker
     THEN LET failed == attempts[i] + 1 >= MaxAttempts
              status == IF failed THEN "FAILED" ELSE state.status IN
          /\ attempts' = [attempts EXCEPT ![i] = @ + 1]
          /\ state' = [state EXCEPT !.status = status]
          /\ job' = [job EXCEPT ![e].cycle = state.cycle, ![e].snap = status,
                                ![e].recorded = state.manifest]
          /\ Goto(e, "errorManifest")
     ELSE Goto(e, "release") /\ UNCHANGED <<attempts, state, job>>
  /\ UNCHANGED <<watermark, starter, next, paused, meta, leases, driveVars, handoffVars,
                 now, countVars, faultVars>>

Release(e) ==
  /\ pc[e] = "release"
  /\ state' = IF state.owner = job[e].worker
              THEN [state EXCEPT !.owner = 0, !.live = FALSE] ELSE state
  /\ Goto(e, "schedule")
  /\ UNCHANGED <<watermark, attempts, starter, next, paused, meta, leases, driveVars,
                 handoffVars, job, now, countVars, faultVars>>

(* qboNativeCdcScheduleIfNeeded_ *)
Schedule(e) ==
  /\ pc[e] = "schedule"
  /\ next' = IF ~paused /\ state.status = "RUNNING" THEN EnsureNext ELSE "none"
  /\ End(e)
  /\ UNCHANGED <<state, watermark, attempts, starter, paused, meta, leases, driveVars,
                 handoffVars, now, countVars, faultVars>>

(* qboNativeCdcWithControlLock_ throws when the lock is not to be had in    *)
(* time; where the execution goes on from there.                            *)
OnLockError(at) ==
  CASE at \in {"lease", "unlease", "finalize", "commit", "enqueue"} -> "recordError"
    [] at \in {"heartbeat", "checkpoint"} -> "unlease"
    [] at \in {"recordError", "unqueue"} -> "release"
    [] OTHER -> "idle"

LockFails(e) ==
  /\ pc[e] \in {"reserve", "open", "claim", "lease", "heartbeat", "checkpoint", "unlease",
                "finalize", "commit", "enqueue", "unqueue", "recordError", "release",
                "schedule", "retryRemove"}
  /\ Charge("lock")
  /\ IF OnLockError(pc[e]) = "idle" THEN End(e) ELSE Fail(e, OnLockError(pc[e]))
  /\ UNCHANGED <<controlVars, meta, leases, driveVars, handoffVars, now, countVars>>

-----------------------------------------------------------------------------
(* Leases that expire, terminations and operator commands *)

(* The platform ends an execution about as soon as a lease it took expires, *)
(* so only a fault lets its worker, or the starter from before, live on.    *)
Expires(w) ==
  IF Alive(w) \/ (\E e \in Execs : pc[e] = "openManifest" /\ job[e].cycle = state.cycle)
  THEN Charge("slow") ELSE UNCHANGED faultVars

ExpireWorker ==
  /\ state.owner # 0 /\ state.live
  /\ Expires(state.owner)
  /\ state' = [state EXCEPT !.live = FALSE]
  /\ UNCHANGED <<watermark, attempts, starter, next, paused, meta, leases, driveVars,
                 handoffVars, pc, job, now, countVars>>

ExpireEntity ==
  /\ \E i \in Entities :
       /\ leases[i] # NoLease /\ Expires(leases[i].worker)
       /\ leases' = [leases EXCEPT ![i] = NoLease]
  /\ UNCHANGED <<controlVars, meta, driveVars, handoffVars, pc, job, now, countVars>>

Crash(e) ==
  /\ pc[e] # "idle"
  /\ Charge("crash") \/ (pc[e] \in EntityPcs /\ Charge("killed"))
  /\ End(e)
  /\ UNCHANGED <<controlVars, meta, leases, driveVars, handoffVars, now, countVars>>

Pause ==
  /\ ~paused /\ ~Busy /\ Charge("pause")
  /\ paused' = TRUE /\ starter' = FALSE /\ next' = "none"
  /\ UNCHANGED <<state, watermark, attempts, meta, leases, driveVars, handoffVars, pc, job,
                 now, countVars>>

Resume ==
  /\ paused /\ ~Busy
  /\ paused' = FALSE /\ starter' = TRUE /\ next' = "none"
  /\ UNCHANGED <<state, watermark, attempts, meta, leases, driveVars, handoffVars, pc, job,
                 now, countVars, faultVars>>

(* removeQboNativeCdcTriggers and installQboNativeCdcTriggers do not ask    *)
(* whether a cycle is active.                                               *)
Remove ==
  /\ Charge("remove")
  /\ starter' = FALSE /\ next' = "none"
  /\ UNCHANGED <<state, watermark, attempts, paused, meta, leases, driveVars, handoffVars,
                 pc, job, now, countVars>>

Install ==
  /\ \/ ~starter /\ UNCHANGED faultVars
     \/ Charge("install")
  /\ starter' = TRUE /\ next' = "none"
  /\ UNCHANGED <<state, watermark, attempts, paused, meta, leases, driveVars, handoffVars,
                 pc, job, now, countVars>>

(* resumeQboNativeCdcCycle *)
ResumeCycle ==
  /\ ~paused /\ state.status = "RUNNING" /\ next = "none"
  /\ next' = "armed"
  /\ UNCHANGED <<state, watermark, attempts, starter, paused, meta, leases, driveVars,
                 handoffVars, pc, job, now, countVars, faultVars>>

-----------------------------------------------------------------------------
Init ==
  /\ state = NoState /\ watermark = 0 /\ attempts = [i \in 0..N |-> 0]
  /\ starter = TRUE /\ next = "none" /\ paused = FALSE
  /\ meta = {} /\ leases = [i \in Entities |-> NoLease]
  /\ files = {} /\ manifests = [c \in Cycles |-> NoManifest]
  /\ handoffs = <<>> /\ registered = {}
  /\ pc = [e \in Execs |-> "idle"] /\ job = [e \in Execs |-> NoJob]
  /\ now = 1 /\ lastCycle = 0 /\ lastWorker = 0 /\ faults = 0 /\ outlasted = FALSE

Progress(e) ==
  \/ Reserve(e) \/ Refused(e) \/ Open(e) \/ OpenManifest(e)
  \/ Claim(e) \/ NoClaim(e) \/ NextEntity(e) \/ AcquireEntity(e) \/ Heartbeat(e)
  \/ Recover(e) \/ Request(e) \/ Store(e) \/ Describe(e) \/ Checkpoint(e)
  \/ EntityManifest(e) \/ ReleaseEntity(e)
  \/ Finalize(e) \/ FinalManifest(e) \/ Commit(e) \/ CommittedManifest(e)
  \/ Cleanup(e) \/ Enqueue(e) \/ Register(e) \/ Unqueue(e)
  \/ RecordError(e) \/ ErrorManifest(e) \/ Release(e) \/ Schedule(e)
  \/ Retry(e) \/ RetryRemove(e)

Step(e) == StarterFires(e) \/ WaveFires(e) \/ RetryFires(e) \/ Progress(e) \/ LockFails(e)
           \/ CommitCut(e) \/ Crash(e)

Environment == ExpireWorker \/ ExpireEntity \/ Pause \/ Resume \/ Remove \/ Install \/ ResumeCycle

Next == (\E e \in Execs : Step(e)) \/ Environment

Spec == Init /\ [][Next]_vars

(* A live execution goes on, a lease expires, and the recurring triggers    *)
(* and an armed NEXT trigger fire although executions come between.         *)
FairSpec ==
  /\ Spec
  /\ \A e \in Execs : WF_vars(Progress(e))
  /\ WF_vars(ExpireWorker) /\ WF_vars(ExpireEntity)
  /\ SF_vars(\E e \in Execs : StarterFires(e))
  /\ SF_vars(\E e \in Execs : WaveFires(e))
  /\ SF_vars(\E e \in Execs : RetryFires(e))

-----------------------------------------------------------------------------
(* Properties *)

Statuses == Active \union {"NONE", "SUCCESS", "FAILED"}
StateType ==
  [cycle : 0..MaxCycles, status : Statuses, from : Nat, to : Nat, index : 0..N,
   owner : 0..MaxWorkers, live : BOOLEAN, manifest : BOOLEAN]
JobType ==
  [worker : 0..MaxWorkers, cycle : 0..MaxCycles, index : 0..N, done : Nat, from : Nat,
   to : Nat, seen : 0..MaxCycles, whole : BOOLEAN, failed : BOOLEAN, snap : Statuses,
   recorded : BOOLEAN]
FileType == [cycle : Cycles, entity : Entities, from : Nat, to : Nat, whole : BOOLEAN]
ManifestType == [status : Statuses, evidence : SUBSET Entities]

(* Every variable keeps its type; attempts never exceed their limit. *)
TypeOK ==
  /\ state \in StateType /\ watermark \in Nat
  /\ attempts \in [0..N -> 0..MaxAttempts]
  /\ meta \subseteq Cycles \X Entities
  /\ leases \in [Entities -> [worker : 0..MaxWorkers, cycle : 0..MaxCycles]]
  /\ starter \in BOOLEAN /\ next \in {"none", "armed", "fired"} /\ paused \in BOOLEAN
  /\ files \subseteq FileType /\ manifests \in [Cycles -> ManifestType]
  /\ handoffs \in Seq(Cycles) /\ registered \subseteq Cycles
  /\ pc \in [Execs -> Pcs] /\ job \in [Execs -> JobType]
  /\ now \in Nat /\ lastCycle \in 0..MaxCycles /\ lastWorker \in 0..MaxWorkers
  /\ faults \in 0..MaxFaults /\ outlasted \in BOOLEAN

(* Up to the watermark no change of any entity is missed: for every entity  *)
(* and time some whole evidence file in Drive covers it, although windows   *)
(* are built before the cycle is reserved, cycles fail and are abandoned,   *)
(* and entities are asked for at different times.                           *)
NoGap ==
  \A i \in Entities, t \in 1..watermark :
    \E f \in files : f.entity = i /\ f.whole /\ f.from < t /\ t <= f.to

(* The watermark only moves forward, also when a starter built its window   *)
(* while another cycle was about to commit.                                 *)
WatermarkMonotone == [][watermark' > watermark]_watermark

(* The watermark moves only when the manifest recorded for the cycle is in  *)
(* Drive with the evidence of every entity (README: "the full-cycle         *)
(* manifest is persisted").                                                 *)
CommitManifested ==
  [][state.manifest /\ manifests[state.cycle].evidence = Entities]_watermark

(* However workers die and are replaced, a cycle has at most one evidence   *)
(* file of an entity: two would make every later attempt fail.  Nothing but *)
(* the length of the leases keeps a worker that outlasts its own from this. *)
EvidenceOnce ==
  ~outlasted => \A f, g \in files : f.cycle = g.cycle /\ f.entity = g.entity => f = g

(* The cycles an execution may still hand over: just committed, queued, or  *)
(* in the hands of a worker or dispatcher.                                  *)
HandoffPcs == {"committedManifest", "cleanup", "enqueue", "register", "unqueue", "retry",
               "retryRemove"}
Promised ==
  {c \in Cycles : \/ c = state.cycle /\ state.status = "SUCCESS"
                  \/ Queued(c)
                  \/ \E e \in Execs : pc[e] \in HandoffPcs /\ job[e].cycle = c}

(* Acquisition, with its windows, its evidence and its handoffs in the      *)
(* properties, Drive files and executions of the code.                      *)
Abstract == INSTANCE Acquisition WITH
  cycle <- state.cycle,
  window <- [from |-> state.from, to |-> state.to],
  open <- state.status \in Active,
  evidence <- {f \in files : f.whole},
  pending <- Promised

(* Whatever executions, terminations and operators do, the acquisition opens *)
(* one window after the other, moves the watermark over a window only with   *)
(* all its evidence, and hands over committed cycles only.                   *)
Acquired == Abstract!Spec

(* A queued handoff names a committed manifest with all its evidence, so    *)
(* the head of the queue, which alone is retried, never blocks the rest,    *)
(* as long as no worker outlasts its lease: manifests are written unfenced. *)
HandoffRegistrable ==
  ~outlasted => \A k \in 1..Len(handoffs) : Registrable(handoffs[k])

(* Every cycle that is opened succeeds or fails at last.                    *)
CycleEnds ==
  \A c \in Cycles : (state.cycle = c) ~> (state.cycle # c \/ state.status \notin Active)

(* Every committed cycle is registered for ingestion at last, through       *)
(* failed registrations and manifests.                                      *)
HandoffRegistered ==
  \A c \in Cycles : (state.cycle = c /\ state.status = "SUCCESS") ~> (c \in registered)
=============================================================================
