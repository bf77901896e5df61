--------------------------- MODULE NativeCdcProofs ---------------------------
(***************************************************************************)
(* Proofs about NativeCdc for every number of executions, entities, cycles,*)
(* workers and faults, every overlap and every set of hazards, operator    *)
(* commands and workers that outlast their lease included: the watermark   *)
(* never passes a change that no evidence in Drive holds, moves only       *)
(* forward, and only once the manifest of the cycle is complete; as long   *)
(* as no live worker outlasts its lease, evidence is fetched once and what *)
(* is queued for the ingestion can be registered; and all of it implements *)
(* Acquisition.                                                            *)
(***************************************************************************)
EXTENDS NativeCdc, SequenceTheorems, TLAPS

-----------------------------------------------------------------------------
(* Types of the values the actions build *)

\* The types of the local variables of an execution
LEMMA JobFields ==
  ASSUME NEW j \in JobType
  PROVE  /\ j.worker \in 0..MaxWorkers /\ j.cycle \in 0..MaxCycles /\ j.index \in 0..N
         /\ j.done \in Nat /\ j.from \in Nat /\ j.to \in Nat /\ j.seen \in 0..MaxCycles
         /\ j.whole \in BOOLEAN /\ j.failed \in BOOLEAN /\ j.snap \in Statuses
         /\ j.recorded \in BOOLEAN
BY DEF JobType

\* The types of the parts of the cycle state
LEMMA StateFields ==
  ASSUME NEW s \in StateType
  PROVE  /\ s.cycle \in 0..MaxCycles /\ s.status \in Statuses /\ s.from \in Nat /\ s.to \in Nat
         /\ s.index \in 0..N /\ s.owner \in 0..MaxWorkers /\ s.live \in BOOLEAN
         /\ s.manifest \in BOOLEAN
BY DEF StateType

\* The local variables an execution starts from
LEMMA JobStarts ==
  /\ NoJob \in JobType
  /\ \A w \in 0..MaxWorkers : [NoJob EXCEPT !.worker = w] \in JobType
  /\ \A c \in 0..MaxCycles : [NoJob EXCEPT !.cycle = c] \in JobType
  /\ \A a, b \in Nat, c \in 0..MaxCycles :
       [NoJob EXCEPT !.from = a, !.to = b, !.seen = c] \in JobType
<1>1. NoJob \in JobType
  BY CdcConstants DEF JobType, NoJob, Statuses, Active
<1> QED
  BY <1>1, CdcConstants DEF JobType

\* The updates the actions make to the local variables
LEMMA JobUpdates ==
  ASSUME NEW j \in JobType, NEW b \in BOOLEAN, NEW c \in 0..MaxCycles
  PROVE  /\ [j EXCEPT !.failed = TRUE] \in JobType
         /\ [j EXCEPT !.cycle = c] \in JobType
         /\ [j EXCEPT !.snap = "RUNNING"] \in JobType
         /\ \A i \in 0..N, a \in Nat :
              [j EXCEPT !.cycle = c, !.index = i, !.from = a] \in JobType
         /\ \A t \in Nat : [j EXCEPT !.to = t, !.whole = b] \in JobType
         /\ [j EXCEPT !.done = @ + 1, !.snap = "RUNNING", !.recorded = b] \in JobType
         /\ [j EXCEPT !.snap = "SUCCESS", !.recorded = b] \in JobType
         /\ \A s \in Statuses : [j EXCEPT !.cycle = c, !.snap = s, !.recorded = b] \in JobType
<1>1. "RUNNING" \in Statuses /\ "SUCCESS" \in Statuses
  BY DEF Statuses, Active
<1>2. /\ [j EXCEPT !.cycle = c] \in JobType
      /\ [j EXCEPT !.snap = "RUNNING"] \in JobType
  BY <1>1 DEF JobType
<1>3. \A i \in 0..N, a \in Nat : [j EXCEPT !.cycle = c, !.index = i, !.from = a] \in JobType
  BY DEF JobType
<1>4. \A t \in Nat : [j EXCEPT !.to = t, !.whole = b] \in JobType
  BY DEF JobType
<1>5. [j EXCEPT !.done = @ + 1, !.snap = "RUNNING", !.recorded = b] \in JobType
  <2>1. \A n \in Nat : [j EXCEPT !.done = n, !.snap = "RUNNING", !.recorded = b] \in JobType
    BY <1>1 DEF JobType
  <2>2. j.done + 1 \in Nat
    BY JobFields
  <2> QED
    BY <2>1, <2>2
<1>6. [j EXCEPT !.snap = "SUCCESS", !.recorded = b] \in JobType
  BY <1>1 DEF JobType
<1>7. \A s \in Statuses : [j EXCEPT !.cycle = c, !.snap = s, !.recorded = b] \in JobType
  BY DEF JobType
<1>8. \A x \in BOOLEAN : [j EXCEPT !.failed = x] \in JobType
  BY DEF JobType
<1> QED
  BY <1>8, <1>2, <1>3, <1>4, <1>5, <1>6, <1>7

\* The state before the first cycle, and the one a reservation writes
LEMMA StateStarts ==
  /\ NoState \in StateType
  /\ \A c \in 0..MaxCycles, a, b \in Nat :
       [NoState EXCEPT !.cycle = c, !.status = "INITIALIZING", !.from = a, !.to = b] \in StateType
<1>1. NoState \in StateType /\ "INITIALIZING" \in Statuses
  BY CdcConstants DEF StateType, NoState, Statuses, Active
<1> QED
  BY <1>1 DEF StateType

\* The updates later sections make to the cycle state
LEMMA StateUpdates ==
  ASSUME NEW s \in StateType
  PROVE  /\ \A x \in Statuses : [s EXCEPT !.status = x] \in StateType
         /\ [s EXCEPT !.manifest = TRUE] \in StateType
         /\ \A w \in 0..MaxWorkers : [s EXCEPT !.owner = w, !.live = TRUE] \in StateType
         /\ s.index < N => [s EXCEPT !.index = @ + 1] \in StateType
         /\ [s EXCEPT !.status = "SUCCESS", !.owner = 0, !.live = FALSE] \in StateType
         /\ [s EXCEPT !.owner = 0, !.live = FALSE] \in StateType
         /\ [s EXCEPT !.live = FALSE] \in StateType
<1>1. "SUCCESS" \in Statuses /\ 0 \in 0..MaxWorkers
  BY CdcConstants DEF Statuses
<1>2. s.index < N => s.index + 1 \in 0..N
  BY StateFields, CdcConstants
<1> QED
  BY <1>1, <1>2 DEF StateType

-----------------------------------------------------------------------------
(* The inductive invariant, first part: types and identifiers *)

\* Stages of a worker among one entity, stages about one cycle, stages from which an error
\* is recorded, and all stages of a worker that has claimed
AtEntity == EntityPcs \ {"wave"}
InCycle == AtEntity \union {"open", "openManifest", "finalManifest", "commit",
                            "committedManifest", "cleanup", "enqueue", "register", "unqueue",
                            "retry", "retryRemove"}
BeforeError == {"recordError"} \union EntityPcs \union ClosingPcs
AtWork == BeforeError \union {"errorManifest", "release"}

\* The state is about the last cycle opened, and everything else about it or an older one
CycleBounds ==
  /\ state.cycle = lastCycle
  /\ state.status \in Active => state.cycle # 0
  /\ \A e \in Execs : /\ pc[e] \notin {"retry", "retryRemove"} => job[e].cycle <= lastCycle
                      /\ job[e].seen <= lastCycle
  /\ \A f \in files : f.cycle <= lastCycle

\* What an execution knows at each stage
JobShape ==
  \A e \in Execs :
    /\ pc[e] \in AtEntity => job[e].index \in Entities
    /\ pc[e] \in InCycle => job[e].cycle # 0
    /\ pc[e] \in AtWork => job[e].worker \in 1..lastWorker

\* No two executions are the same worker
WorkersDiffer ==
  \A e, f \in Execs :
    pc[e] \in AtWork /\ pc[f] \in AtWork /\ job[e].worker = job[f].worker => e = f

\* A cycle has an owner only while it can be worked on
OwnerShape ==
  /\ state.owner <= lastWorker
  /\ state.status \in {"NONE", "INITIALIZING", "SUCCESS"} => state.owner = 0

\* A cycle that has not failed has attempts left, and nobody counts another attempt of a
\* failed one
AttemptsLeft ==
  /\ state.status \notin {"FAILED", "INITIALIZING"} => \A i \in 0..N : attempts[i] < MaxAttempts
  /\ state.status = "FAILED" =>
       \A e \in Execs : pc[e] \in BeforeError => job[e].worker # state.owner

Typed ==
  /\ TypeOK /\ CycleBounds /\ JobShape
  /\ WorkersDiffer /\ OwnerShape /\ AttemptsLeft

-----------------------------------------------------------------------------

(* What one step of an execution changes *)

\* Every stage an action goes to is a program counter, and no other execution moves
LEMMA PcEffect ==
  ASSUME NEW e \in Execs, Step(e)
  PROVE  \E w \in Pcs : Goto(e, w)
<1> USE DEF Pcs, StarterPcs, EntityPcs, ClosingPcs, ErrorPcs, End, Fail
<1>1. CASE StarterFires(e) \/ Reserve(e) \/ Refused(e) \/ Open(e) \/ OpenManifest(e)
  BY <1>1 DEF StarterFires, Reserve, Refused, Open, OpenManifest
<1>2. CASE EntityManifest(e) \/ FinalManifest(e) \/ CommittedManifest(e) \/ ErrorManifest(e)
  BY <1>2 DEF EntityManifest, FinalManifest, CommittedManifest, ErrorManifest, ManifestStep
<1>3. CASE WaveFires(e) \/ Claim(e) \/ NoClaim(e) \/ NextEntity(e) \/ AcquireEntity(e)
  BY <1>3 DEF WaveFires, Claim, NoClaim, NextEntity, AcquireEntity
<1>4. CASE Heartbeat(e) \/ Recover(e) \/ Request(e) \/ Store(e) \/ Describe(e)
  BY <1>4 DEF Heartbeat, Recover, Request, Store, Describe
<1>5. CASE Checkpoint(e) \/ ReleaseEntity(e) \/ Finalize(e) \/ Commit(e) \/ CommitCut(e)
  BY <1>5 DEF Checkpoint, ReleaseEntity, Finalize, Commit, CommitCut
<1>6. CASE Cleanup(e) \/ Enqueue(e) \/ Register(e) \/ Unqueue(e) \/ RetryFires(e)
  BY <1>6 DEF Cleanup, Enqueue, Register, Unqueue, RetryFires, RegisterStep
<1>7. CASE Retry(e) \/ RetryRemove(e) \/ RecordError(e) \/ Release(e) \/ Schedule(e)
  BY <1>7 DEF Retry, RetryRemove, RecordError, Release, Schedule, RegisterStep
<1>8. CASE LockFails(e) \/ Crash(e)
  BY <1>8 DEF LockFails, Crash, OnLockError
<1> QED
  BY <1>1, <1>2, <1>3, <1>4, <1>5, <1>6, <1>7, <1>8 DEF Step, Progress

\* Which steps change which variables
LEMMA StepEffect ==
  ASSUME NEW e \in Execs, Step(e)
  PROVE  /\ \/ UNCHANGED job \/ End(e) \/ job' = [job EXCEPT ![e].failed = TRUE]
            \/ StarterFires(e) \/ Reserve(e) \/ Open(e) \/ Claim(e) \/ NextEntity(e)
            \/ Request(e) \/ Checkpoint(e) \/ Finalize(e) \/ Commit(e) \/ RetryFires(e)
            \/ RecordError(e)
         /\ \/ UNCHANGED state \/ Reserve(e) \/ Open(e) \/ ManifestWritten(e) \/ Claim(e)
            \/ Checkpoint(e) \/ Finalize(e) \/ Commit(e) \/ RecordError(e) \/ Release(e)
         /\ UNCHANGED watermark \/ Commit(e) \/ CommitCut(e)
         /\ UNCHANGED attempts \/ Open(e) \/ RecordError(e)
         /\ UNCHANGED meta \/ Describe(e) \/ Cleanup(e)
         /\ UNCHANGED leases \/ AcquireEntity(e) \/ ReleaseEntity(e)
         /\ UNCHANGED <<starter, paused>>
         /\ next' \in {next, "none", "armed", "fired"}
         /\ UNCHANGED files \/ Store(e)
         /\ UNCHANGED manifests \/ ManifestWritten(e)
         /\ UNCHANGED registered \/ RegisterStep(e, "register", "unqueue", "release")
              \/ RegisterStep(e, "retry", "retryRemove", "idle")
         /\ UNCHANGED now \/ Request(e)
         /\ UNCHANGED lastCycle \/ Reserve(e)
         /\ UNCHANGED lastWorker \/ Claim(e)
         /\ UNCHANGED faultVars \/ \E k \in HazardKinds : Charge(k)
<1> USE DEF controlVars, driveVars, handoffVars, countVars, faultVars, Fail, HazardKinds,
            EnsureNext, ManifestFails
<1>0. ManifestWritten(e) => UNCHANGED <<faults, outlasted>>
  BY DEF ManifestWritten
<1>1. CASE StarterFires(e) \/ Reserve(e) \/ Refused(e) \/ Open(e) \/ OpenManifest(e)
  BY <1>0, <1>1 DEF StarterFires, Reserve, Refused, Open, OpenManifest
<1>2. CASE EntityManifest(e) \/ FinalManifest(e) \/ CommittedManifest(e) \/ ErrorManifest(e)
  BY <1>0, <1>2 DEF EntityManifest, FinalManifest, CommittedManifest, ErrorManifest, ManifestStep
<1>3. CASE WaveFires(e) \/ Claim(e) \/ NoClaim(e) \/ NextEntity(e) \/ AcquireEntity(e)
  BY <1>3 DEF WaveFires, Claim, NoClaim, NextEntity, AcquireEntity
<1>4. CASE Heartbeat(e) \/ Recover(e) \/ Request(e) \/ Store(e) \/ Describe(e)
  BY <1>4 DEF Heartbeat, Recover, Request, Store, Describe
<1>5. CASE Checkpoint(e) \/ ReleaseEntity(e) \/ Finalize(e) \/ Commit(e) \/ CommitCut(e)
  BY <1>5 DEF Checkpoint, ReleaseEntity, Finalize, Commit, CommitCut
<1>6. CASE Cleanup(e) \/ Enqueue(e) \/ Register(e) \/ Unqueue(e) \/ RetryFires(e)
  BY <1>6 DEF Cleanup, Enqueue, Register, Unqueue, RetryFires, RegisterStep
<1>7. CASE Retry(e) \/ RetryRemove(e) \/ RecordError(e) \/ Release(e) \/ Schedule(e)
  BY <1>7 DEF Retry, RetryRemove, RecordError, Release, Schedule, RegisterStep
<1>8. CASE LockFails(e) \/ Crash(e)
  BY <1>8 DEF LockFails, Crash
<1> QED
  BY <1>1, <1>2, <1>3, <1>4, <1>5, <1>6, <1>7, <1>8 DEF Step, Progress

-----------------------------------------------------------------------------
(* Types are kept *)

\* The values an action of e reads
LEMMA Read ==
  ASSUME Typed, NEW e \in Execs
  PROVE  /\ job[e] \in JobType /\ state \in StateType /\ pc[e] \in Pcs
         /\ job[e].worker \in Nat /\ job[e].cycle \in 0..MaxCycles /\ job[e].index \in 0..N
         /\ job[e].from \in Nat /\ job[e].to \in Nat /\ job[e].seen \in Nat
         /\ job[e].whole \in BOOLEAN /\ job[e].recorded \in BOOLEAN
         /\ job[e].snap \in Statuses
         /\ state.cycle \in Nat /\ state.from \in Nat /\ state.to \in Nat
         /\ state.index \in 0..N /\ state.owner \in Nat /\ state.status \in Statuses
         /\ state.manifest \in BOOLEAN
         /\ now \in Nat /\ watermark \in Nat /\ lastCycle \in 0..MaxCycles
         /\ lastWorker \in 0..MaxWorkers /\ N \in Nat /\ MaxCycles \in Nat /\ MaxWorkers \in Nat
<1>1. job[e] \in JobType /\ state \in StateType /\ pc[e] \in Pcs /\ watermark \in Nat
  BY DEF Typed, TypeOK
<1>2. now \in Nat /\ lastCycle \in 0..MaxCycles /\ lastWorker \in 0..MaxWorkers
  BY DEF Typed, TypeOK
<1>3. N \in Nat /\ MaxCycles \in Nat /\ MaxWorkers \in Nat
  BY CdcConstants
<1> QED
  BY <1>1, <1>2, <1>3, JobFields, StateFields

\* The identifiers a reservation, a claim and a retry take are within their bounds
LEMMA Taken ==
  ASSUME Typed, NEW e \in Execs
  PROVE  /\ Reserve(e) => lastCycle + 1 \in 0..MaxCycles
         /\ Claim(e) => lastWorker + 1 \in 0..MaxWorkers
         /\ RetryFires(e) => Head(handoffs) \in 0..MaxCycles
         /\ now + 1 \in Nat
<1>1. Reserve(e) => lastCycle < MaxCycles
  BY DEF Reserve
<1>2. Claim(e) => lastWorker < MaxWorkers
  BY DEF Claim
<1>3. RetryFires(e) => handoffs # << >>
  BY DEF RetryFires
<1>4. handoffs \in Seq(Cycles) /\ Cycles \subseteq 0..MaxCycles
  BY CdcConstants DEF Typed, TypeOK, Cycles
<1>5. handoffs # << >> => Head(handoffs) \in Cycles
  BY <1>4, HeadTailProperties
<1>6. lastCycle < MaxCycles => lastCycle + 1 \in 0..MaxCycles
  BY Read
<1>7. lastWorker < MaxWorkers => lastWorker + 1 \in 0..MaxWorkers
  BY Read
<1>8. now + 1 \in Nat
  BY Read
<1> QED
  BY <1>1, <1>2, <1>3, <1>4, <1>5, <1>6, <1>7, <1>8

\* The program counters and local variables after a step
LEMMA Moved ==
  ASSUME Typed, NEW e \in Execs, Step(e)
  PROVE  /\ pc' \in [Execs -> Pcs] /\ job' \in [Execs -> JobType]
         /\ \A f \in Execs \ {e} : pc'[f] = pc[f] /\ job'[f] = job[f]
<1> USE DEF Typed, TypeOK
<1>1. PICK w \in Pcs : Goto(e, w)
  BY PcEffect
<1>2. pc' \in [Execs -> Pcs] /\ \A f \in Execs \ {e} : pc'[f] = pc[f]
  BY <1>1 DEF Goto
<1>3. \E j \in JobType : job' = [job EXCEPT ![e] = j]
  <2>1. CASE UNCHANGED job
    BY <2>1
  <2>2. CASE End(e)
    BY <2>2, JobStarts DEF End
  <2>3. CASE job' = [job EXCEPT ![e].failed = TRUE]
    BY <2>3, Read, JobUpdates
  <2>4. CASE StarterFires(e)
    <3>1. (IF watermark > Overlap THEN watermark - Overlap ELSE 0) \in Nat
      BY Read, CdcConstants
    <3> QED
      BY <2>4, <3>1, Read, JobStarts DEF StarterFires
  <2>5. CASE Reserve(e)
    <3>1. lastCycle + 1 \in 0..MaxCycles
      BY <2>5, Taken
    <3> QED
      BY <2>5, <3>1, Read, JobUpdates DEF Reserve
  <2>6. CASE Open(e)
    BY <2>6, Read, JobStarts, JobUpdates DEF Open, End
  <2>7. CASE Claim(e)
    <3>1. lastWorker + 1 \in 0..MaxWorkers
      BY <2>7, Taken
    <3> QED
      BY <2>7, <3>1, JobStarts DEF Claim
  <2>8. CASE NextEntity(e)
    BY <2>8, Read, StateFields, JobUpdates DEF NextEntity, Fail
  <2>9. CASE Request(e)
    <3>1. now + 1 \in Nat /\ TRUE \in BOOLEAN /\ FALSE \in BOOLEAN
      BY Taken
    <3> QED
      BY <2>9, <3>1, Read, JobUpdates DEF Request, Fail
  <2>10. CASE Checkpoint(e)
    BY <2>10, Read, JobUpdates DEF Checkpoint, Fail
  <2>11. CASE Finalize(e)
    <3>1. "FINALIZING" \in Statuses
      BY DEF Statuses, Active
    <3> QED
      BY <2>11, <3>1, Read, StateFields, JobUpdates DEF Finalize, Fail
  <2>12. CASE Commit(e)
    BY <2>12, Read, JobUpdates DEF Commit, Fail
  <2>13. CASE RetryFires(e)
    <3>1. Head(handoffs) \in 0..MaxCycles
      BY <2>13, Taken
    <3> QED
      BY <2>13, <3>1, JobStarts DEF RetryFires
  <2>14. CASE RecordError(e)
    <3>1. "FAILED" \in Statuses
      BY DEF Statuses
    <3>2. state.cycle \in 0..MaxCycles /\ state.manifest \in BOOLEAN
      BY Read, StateFields
    <3>3. \A x \in Statuses : [job[e] EXCEPT !.cycle = state.cycle, !.snap = x,
                                             !.recorded = state.manifest] \in JobType
      BY <3>2, Read, JobUpdates
    <3>4. UNCHANGED job \/ \E x \in {"FAILED", state.status} :
            job' = [job EXCEPT ![e].cycle = state.cycle, ![e].snap = x,
                               ![e].recorded = state.manifest]
      BY <2>14 DEF RecordError
    <3>5. {"FAILED", state.status} \subseteq Statuses
      BY <3>1, Read
    <3>6. \A x \in Statuses : [job EXCEPT ![e].cycle = state.cycle, ![e].snap = x,
                                          ![e].recorded = state.manifest]
            = [job EXCEPT ![e] = [job[e] EXCEPT !.cycle = state.cycle, !.snap = x,
                                                !.recorded = state.manifest]]
      OBVIOUS
    <3> HIDE DEF Typed, TypeOK
    <3> QED
      BY <2>1, <3>3, <3>4, <3>5, <3>6, Read
  <2> QED
    BY <2>1, <2>2, <2>3, <2>4, <2>5, <2>6, <2>7, <2>8, <2>9, <2>10, <2>11, <2>12, <2>13, <2>14,
       StepEffect
<1> QED
  BY <1>2, <1>3

\* The cycle state after a step
LEMMA StateTyped ==
  ASSUME Typed, NEW e \in Execs, Step(e)
  PROVE  state' \in StateType
<1>1. /\ \A x \in Statuses : [state EXCEPT !.status = x] \in StateType
      /\ [state EXCEPT !.manifest = TRUE] \in StateType
      /\ [state EXCEPT !.status = "SUCCESS", !.owner = 0, !.live = FALSE] \in StateType
      /\ [state EXCEPT !.owner = 0, !.live = FALSE] \in StateType
      /\ state \in StateType
  BY Read, StateUpdates
<1>2. CASE UNCHANGED state \/ ManifestWritten(e) \/ Release(e)
  BY <1>1, <1>2 DEF ManifestWritten, Release
<1>3. CASE Reserve(e)
  <2>1. lastCycle + 1 \in 0..MaxCycles
    BY <1>3, Read DEF Reserve
  <2> QED
    BY <1>3, <2>1, Read, StateStarts DEF Reserve
<1>4. CASE Open(e) \/ Finalize(e) \/ Commit(e)
  BY <1>1, <1>4 DEF Open, Finalize, Commit, Statuses, Active
<1>5. CASE RecordError(e)
  <2>1. state' = state \/ \E x \in Statuses : state' = [state EXCEPT !.status = x]
    BY <1>5, Read DEF RecordError, Statuses
  <2> QED
    BY <1>1, <2>1
<1>6. CASE Claim(e)
  <2>1. lastWorker + 1 \in 0..MaxWorkers
    BY <1>6, Read DEF Claim
  <2>2. [state EXCEPT !.owner = lastWorker + 1, !.live = TRUE] \in StateType
    BY <2>1, Read, StateUpdates
  <2> QED
    BY <1>6, <2>2 DEF Claim
<1>7. CASE Checkpoint(e)
  <2>1. CASE state.index < N
    <3>1. [state EXCEPT !.index = @ + 1] \in StateType
      BY <2>1, Read, StateUpdates
    <3> QED
      BY <1>1, <1>7, <3>1 DEF Checkpoint
  <2>2. CASE ~(state.index < N)
    <3>1. pc[e] = "checkpoint" /\ job[e].index < N
      BY <1>7, Read DEF Checkpoint, Typed, JobShape, AtEntity, EntityPcs, Entities
    <3> QED
      BY <1>1, <1>7, <2>2, <3>1 DEF Checkpoint
  <2> QED
    BY <2>1, <2>2
<1> QED
  BY <1>2, <1>3, <1>4, <1>5, <1>6, <1>7, StepEffect

\* Every event of a kind in Hazards leaves the counters typed
LEMMA Charged ==
  ASSUME TypeOK, NEW k, Charge(k)
  PROVE  faults' \in 0..MaxFaults /\ outlasted' \in BOOLEAN
<1>1. faults' \in 0..MaxFaults
  BY CdcConstants DEF Charge, TypeOK
<1>2. outlasted' \in BOOLEAN
  BY DEF Charge
<1> QED
  BY <1>1, <1>2

\* A queue without one of its elements is a queue
LEMMA WithoutOne ==
  ASSUME NEW S, NEW s \in Seq(S), NEW k \in 1..Len(s)
  PROVE  SubSeq(s, 1, k - 1) \o SubSeq(s, k + 1, Len(s)) \in Seq(S)
<1>1. k - 1 \in Int /\ k + 1 \in Int /\ Len(s) \in Int /\ 1 \in Int
  BY LenProperties
<1>2. \A i \in 1..Len(s) : s[i] \in S
  BY ElementOfSeq
<1>3. SubSeq(s, 1, k - 1) \in Seq(S)
  <2>1. \A i \in 1..(k - 1) : s[i] \in S
    BY <1>1, <1>2
  <2> QED
    BY <1>1, <2>1, SubSeqProperties, Zenon
<1>4. SubSeq(s, k + 1, Len(s)) \in Seq(S)
  <2>1. \A i \in (k + 1)..Len(s) : s[i] \in S
    BY <1>1, <1>2
  <2> QED
    BY <1>1, <2>1, SubSeqProperties, Zenon
<1> QED
  BY <1>3, <1>4, ConcatProperties

\* A handoff taken off the queue leaves a queue
LEMMA OthersTyped ==
  ASSUME TypeOK, NEW c
  PROVE  Others(c) \in Seq(Cycles)
<1>1. CASE Queued(c)
  <2>1. (CHOOSE k \in 1..Len(handoffs) : handoffs[k] = c) \in 1..Len(handoffs)
    BY <1>1 DEF Queued
  <2>2. handoffs \in Seq(Cycles)
    BY DEF TypeOK
  <2> QED
    BY <1>1, <2>1, <2>2, WithoutOne DEF Others
<1>2. CASE ~Queued(c)
  BY <1>2 DEF Others, TypeOK
<1> QED
  BY <1>1, <1>2

-----------------------------------------------------------------------------
(* How an execution moves among the stages *)

\* An execution that ends, and one that takes its error path
LEMMA EndEffect ==
  ASSUME TypeOK, NEW e \in Execs, End(e)
  PROVE  pc'[e] = "idle" /\ job'[e] = NoJob
BY DEF TypeOK, End, Goto

\* What the error path keeps of the local variables
SameJob(e) ==
  /\ job'[e].worker = job[e].worker /\ job'[e].cycle = job[e].cycle
  /\ job'[e].index = job[e].index /\ job'[e].from = job[e].from
  /\ job'[e].to = job[e].to /\ job'[e].seen = job[e].seen
  /\ job'[e].recorded = job[e].recorded

\* The error path changes only the flag that says so
LEMMA FailEffect ==
  ASSUME TypeOK, NEW e \in Execs, NEW w, Fail(e, w)
  PROVE  pc'[e] = w /\ SameJob(e)
<1>1. job[e] \in JobType /\ job' = [job EXCEPT ![e] = [job[e] EXCEPT !.failed = TRUE]]
  BY DEF TypeOK, Fail
<1>2. job'[e] = [job[e] EXCEPT !.failed = TRUE]
  BY <1>1 DEF TypeOK
<1> QED
  BY <1>1, <1>2 DEF JobType, TypeOK, Fail, Goto, SameJob

\* The local variables after each action that assigns them
LEMMA JobAfter ==
  ASSUME Typed, NEW e \in Execs
  PROVE
    /\ StarterFires(e) =>
         /\ pc[e] = "idle"
         /\ pc'[e] = "reserve" /\ job'[e].seen = lastCycle /\ job'[e].to = now
         /\ job'[e].from = (IF watermark > Overlap THEN watermark - Overlap ELSE 0)
         /\ job'[e].cycle = 0
    /\ Reserve(e) =>
         /\ pc[e] = "reserve"
         /\ pc'[e] = "open" /\ job'[e].cycle = lastCycle + 1
         /\ job'[e].seen = job[e].seen
    /\ Open(e) =>
         /\ pc[e] = "open"
         /\ \/ pc'[e] = "idle" /\ job'[e] = NoJob
            \/ /\ pc'[e] = "openManifest"
               /\ job'[e].cycle = job[e].cycle /\ job'[e].seen = job[e].seen
    /\ Claim(e) =>
         /\ pc[e] = "claim"
         /\ pc'[e] = "wave" /\ job'[e].worker = lastWorker + 1
         /\ job'[e].cycle = 0 /\ job'[e].seen = 0
    /\ NextEntity(e) =>
         /\ pc[e] = "wave"
         /\ \/ pc'[e] \in {"recordError", "finalize"} /\ SameJob(e)
            \/ /\ pc'[e] = "lease" /\ job'[e].cycle = state.cycle /\ job'[e].index = state.index
               /\ job'[e].from = state.from /\ job'[e].seen = job[e].seen
               /\ job'[e].worker = job[e].worker
               /\ state.status = "RUNNING" /\ state.index < N
    /\ Request(e) =>
         /\ pc[e] = "process"
         /\ \/ pc'[e] = "unlease" /\ SameJob(e)
            \/ /\ pc'[e] = "store" /\ job'[e].to = now + 1
               /\ job'[e].worker = job[e].worker /\ job'[e].cycle = job[e].cycle
               /\ job'[e].index = job[e].index /\ job'[e].from = job[e].from
               /\ job'[e].seen = job[e].seen
    /\ Checkpoint(e) =>
         /\ pc[e] = "checkpoint"
         /\ \/ pc'[e] = "unlease" /\ SameJob(e)
            \/ /\ pc'[e] = "manifest" /\ job'[e].recorded = state.manifest
               /\ job'[e].worker = job[e].worker /\ job'[e].cycle = job[e].cycle
               /\ job'[e].index = job[e].index /\ job'[e].from = job[e].from
               /\ job'[e].seen = job[e].seen
    /\ Finalize(e) =>
         /\ pc[e] = "finalize"
         /\ \/ pc'[e] \in {"release", "recordError"} /\ SameJob(e)
            \/ /\ pc'[e] = "finalManifest" /\ job'[e].recorded = state.manifest
               /\ job'[e].cycle = state.cycle /\ state.cycle # 0
               /\ job'[e].worker = job[e].worker /\ job'[e].seen = job[e].seen
    /\ Commit(e) =>
         /\ pc[e] = "commit"
         /\ \/ pc'[e] = "recordError" /\ SameJob(e)
            \/ /\ pc'[e] = "committedManifest" /\ job'[e].recorded = state.manifest
               /\ job'[e].worker = job[e].worker /\ job'[e].cycle = job[e].cycle
               /\ job'[e].seen = job[e].seen
    /\ RetryFires(e) =>
         /\ pc[e] = "idle"
         /\ pc'[e] = "retry" /\ job'[e].seen = 0
         /\ handoffs # <<>> /\ job'[e].cycle = Head(handoffs)
    /\ RecordError(e) =>
         /\ pc[e] = "recordError"
         /\ \/ pc'[e] = "release" /\ SameJob(e)
            \/ /\ pc'[e] = "errorManifest" /\ job'[e].recorded = state.manifest
               /\ job'[e].cycle = state.cycle
               /\ job'[e].worker = job[e].worker /\ job'[e].seen = job[e].seen
               /\ state.owner = job[e].worker
<1> USE DEF Typed, TypeOK
<1>0. job[e] \in JobType
  OBVIOUS
<1>1. StarterFires(e) =>
         /\ pc[e] = "idle"
         /\ pc'[e] = "reserve" /\ job'[e].seen = lastCycle /\ job'[e].to = now
         /\ job'[e].from = (IF watermark > Overlap THEN watermark - Overlap ELSE 0)
         /\ job'[e].cycle = 0
  <2> HAVE StarterFires(e)
  <2>1. job'[e] = [NoJob EXCEPT !.from = IF watermark > Overlap THEN watermark - Overlap ELSE 0,
                             !.to = now, !.seen = lastCycle]
    BY DEF StarterFires
  <2> QED
    BY <2>1 DEF StarterFires, Goto, NoJob
<1>2. Reserve(e) =>
         /\ pc[e] = "reserve"
         /\ pc'[e] = "open" /\ job'[e].cycle = lastCycle + 1
         /\ job'[e].seen = job[e].seen
  <2> HAVE Reserve(e)
  <2>1. job'[e] = [job[e] EXCEPT !.cycle = lastCycle + 1]
    BY DEF Reserve
  <2> QED
    BY <1>0, <2>1 DEF Reserve, Goto, JobType
<1>3. Open(e) =>
         /\ pc[e] = "open"
         /\ \/ pc'[e] = "idle" /\ job'[e] = NoJob
            \/ /\ pc'[e] = "openManifest"
               /\ job'[e].cycle = job[e].cycle /\ job'[e].seen = job[e].seen
  <2> HAVE Open(e)
  <2>1. CASE pc'[e] # "openManifest"
    BY <2>1, EndEffect DEF Open, Goto
  <2>2. CASE pc'[e] = "openManifest"
    <3>0. job' = [job EXCEPT ![e].snap = "RUNNING"]
      BY <2>2 DEF Open, Goto, Fail, End
    <3>1. job'[e] = [job[e] EXCEPT !.snap = "RUNNING"]
      BY <1>0, <3>0
    <3> QED
      BY <1>0, <2>2, <3>1, EndEffect DEF Open, Goto, JobType
  <2> QED
    BY <2>1, <2>2
<1>4. Claim(e) =>
         /\ pc[e] = "claim"
         /\ pc'[e] = "wave" /\ job'[e].worker = lastWorker + 1
         /\ job'[e].cycle = 0 /\ job'[e].seen = 0
  <2> HAVE Claim(e)
  <2>1. job'[e] = [NoJob EXCEPT !.worker = lastWorker + 1]
    BY DEF Claim
  <2> QED
    BY <2>1 DEF Claim, Goto, NoJob
<1>5. NextEntity(e) =>
         /\ pc[e] = "wave"
         /\ \/ pc'[e] \in {"recordError", "finalize"} /\ SameJob(e)
            \/ /\ pc'[e] = "lease" /\ job'[e].cycle = state.cycle /\ job'[e].index = state.index
               /\ job'[e].from = state.from /\ job'[e].seen = job[e].seen
               /\ job'[e].worker = job[e].worker
               /\ state.status = "RUNNING" /\ state.index < N
  <2> HAVE NextEntity(e)
  <2>1. CASE pc'[e] # "lease"
    BY <2>1, FailEffect DEF NextEntity, Goto, SameJob
  <2>2. CASE pc'[e] = "lease"
    <3>0. job' = [job EXCEPT ![e].cycle = state.cycle, ![e].index = state.index,
                              ![e].from = state.from]
      BY <2>2 DEF NextEntity, Goto, Fail
    <3>1. job'[e] = [job[e] EXCEPT !.cycle = state.cycle, !.index = state.index,
                              !.from = state.from]
      BY <1>0, <3>0
    <3>2. pc[e] = "wave" /\ state.status = "RUNNING" /\ state.index < N
      BY <2>2 DEF NextEntity, Goto, Fail
    <3> QED
      BY <1>0, <2>2, <3>1, <3>2 DEF JobType
  <2> QED
    BY <2>1, <2>2
<1>6. Request(e) =>
         /\ pc[e] = "process"
         /\ \/ pc'[e] = "unlease" /\ SameJob(e)
            \/ /\ pc'[e] = "store" /\ job'[e].to = now + 1
               /\ job'[e].worker = job[e].worker /\ job'[e].cycle = job[e].cycle
               /\ job'[e].index = job[e].index /\ job'[e].from = job[e].from
               /\ job'[e].seen = job[e].seen
  <2> HAVE Request(e)
  <2>1. pc[e] = "process" /\ pc'[e] \in {"unlease", "store"}
    BY FailEffect DEF Request, Goto
  <2>2. CASE pc'[e] = "unlease"
    BY <2>1, <2>2, FailEffect DEF Request, Goto
  <2>3. CASE pc'[e] = "store"
    <3>0. PICK b \in BOOLEAN : job' = [job EXCEPT ![e].to = now + 1, ![e].whole = b]
      BY <2>3 DEF Request, Goto, Fail
    <3>1. job'[e] = [job[e] EXCEPT !.to = now + 1, !.whole = b]
      BY <1>0, <3>0
    <3> QED
      BY <1>0, <2>1, <2>3, <3>1 DEF JobType
  <2> QED
    BY <2>1, <2>2, <2>3
<1>7. Checkpoint(e) =>
         /\ pc[e] = "checkpoint"
         /\ \/ pc'[e] = "unlease" /\ SameJob(e)
            \/ /\ pc'[e] = "manifest" /\ job'[e].recorded = state.manifest
               /\ job'[e].worker = job[e].worker /\ job'[e].cycle = job[e].cycle
               /\ job'[e].index = job[e].index /\ job'[e].from = job[e].from
               /\ job'[e].seen = job[e].seen
  <2> HAVE Checkpoint(e)
  <2>1. CASE pc'[e] # "manifest"
    BY <2>1, FailEffect DEF Checkpoint, Goto
  <2>2. CASE pc'[e] = "manifest"
    <3>0. job' = [job EXCEPT ![e].done = @ + 1, ![e].snap = "RUNNING",
                              ![e].recorded = state.manifest]
      BY <2>2 DEF Checkpoint, Goto, Fail
    <3>1. job'[e] = [job[e] EXCEPT !.done = @ + 1, !.snap = "RUNNING",
                              !.recorded = state.manifest]
      BY <1>0, <3>0
    <3> QED
      BY <1>0, <2>2, <3>1, FailEffect DEF Checkpoint, Goto, JobType
  <2> QED
    BY <2>1, <2>2
<1>8. Finalize(e) =>
         /\ pc[e] = "finalize"
         /\ \/ pc'[e] \in {"release", "recordError"} /\ SameJob(e)
            \/ /\ pc'[e] = "finalManifest" /\ job'[e].recorded = state.manifest
               /\ job'[e].cycle = state.cycle /\ state.cycle # 0
               /\ job'[e].worker = job[e].worker /\ job'[e].seen = job[e].seen
  <2> HAVE Finalize(e)
  <2>1. CASE pc'[e] # "finalManifest"
    BY <2>1, FailEffect DEF Finalize, Goto, SameJob
  <2>2. CASE pc'[e] = "finalManifest"
    <3>0. job' = [job EXCEPT ![e].cycle = state.cycle, ![e].snap = "FINALIZING",
                              ![e].recorded = state.manifest]
      BY <2>2 DEF Finalize, Goto, Fail
    <3>1. job'[e] = [job[e] EXCEPT !.cycle = state.cycle, !.snap = "FINALIZING",
                              !.recorded = state.manifest]
      BY <1>0, <3>0
    <3>2. state.cycle # 0
      BY <2>2 DEF Finalize, Goto, Fail, Owns, CycleBounds, Active
    <3> QED
      BY <1>0, <2>2, <3>1, <3>2 DEF Finalize, JobType
  <2> QED
    BY <2>1, <2>2
<1>9. Commit(e) =>
         /\ pc[e] = "commit"
         /\ \/ pc'[e] = "recordError" /\ SameJob(e)
            \/ /\ pc'[e] = "committedManifest" /\ job'[e].recorded = state.manifest
               /\ job'[e].worker = job[e].worker /\ job'[e].cycle = job[e].cycle
               /\ job'[e].seen = job[e].seen
  <2> HAVE Commit(e)
  <2>1. CASE pc'[e] # "committedManifest"
    BY <2>1, FailEffect DEF Commit, Goto
  <2>2. CASE pc'[e] = "committedManifest"
    <3>0. job' = [job EXCEPT ![e].snap = "SUCCESS", ![e].recorded = state.manifest]
      BY <2>2 DEF Commit, Goto, Fail
    <3>1. job'[e] = [job[e] EXCEPT !.snap = "SUCCESS", !.recorded = state.manifest]
      BY <1>0, <3>0
    <3> QED
      BY <1>0, <2>2, <3>1, FailEffect DEF Commit, Goto, JobType
  <2> QED
    BY <2>1, <2>2
<1>10. RetryFires(e) =>
         /\ pc[e] = "idle"
         /\ pc'[e] = "retry" /\ job'[e].seen = 0
         /\ handoffs # <<>> /\ job'[e].cycle = Head(handoffs)
  <2> HAVE RetryFires(e)
  <2>1. job'[e] = [NoJob EXCEPT !.cycle = Head(handoffs)]
    BY DEF RetryFires
  <2> QED
    BY <2>1 DEF RetryFires, Goto, NoJob
<1>11. RecordError(e) =>
         /\ pc[e] = "recordError"
         /\ \/ pc'[e] = "release" /\ SameJob(e)
            \/ /\ pc'[e] = "errorManifest" /\ job'[e].recorded = state.manifest
               /\ job'[e].cycle = state.cycle
               /\ job'[e].worker = job[e].worker /\ job'[e].seen = job[e].seen
               /\ state.owner = job[e].worker
  <2> HAVE RecordError(e)
  <2>1. CASE pc'[e] # "errorManifest"
    BY <2>1 DEF RecordError, Goto, SameJob
  <2>2. CASE pc'[e] = "errorManifest"
    <3>0. PICK newStatus : job' = [job EXCEPT ![e].cycle = state.cycle, ![e].snap = newStatus,
                              ![e].recorded = state.manifest]
      BY <2>2 DEF RecordError, Goto
    <3>1. job'[e] = [job[e] EXCEPT !.cycle = state.cycle, !.snap = newStatus,
                              !.recorded = state.manifest]
      BY <1>0, <3>0
    <3> QED
      BY <1>0, <2>2, <3>1 DEF RecordError, Goto, JobType
  <2> QED
    BY <2>1, <2>2
<1> HIDE DEF Typed, TypeOK
<1> QED
  BY <1>1, <1>2, <1>3, <1>4, <1>5, <1>6, <1>7, <1>8, <1>9, <1>10, <1>11


\* The stage after each action that assigns no local variable
LEMMA JobKept ==
  ASSUME Typed, NEW e \in Execs
  PROVE
    /\ EntityManifest(e) => pc[e] = "manifest" /\ pc'[e] = "unlease" /\ SameJob(e)
    /\ FinalManifest(e) =>
         pc[e] = "finalManifest" /\ pc'[e] \in {"commit", "recordError"} /\ SameJob(e)
    /\ CommittedManifest(e) =>
         pc[e] = "committedManifest" /\ pc'[e] \in {"cleanup", "recordError"} /\ SameJob(e)
    /\ ErrorManifest(e) => pc[e] = "errorManifest" /\ pc'[e] = "release" /\ SameJob(e)
    /\ WaveFires(e) => pc[e] = "idle" /\ pc'[e] = "claim" /\ SameJob(e)
    /\ AcquireEntity(e) => pc[e] = "lease" /\ pc'[e] \in {"heartbeat", "recordError"} /\ SameJob(e)
    /\ Heartbeat(e) => pc[e] = "heartbeat" /\ pc'[e] \in {"process", "unlease"} /\ SameJob(e)
    /\ Recover(e) => pc[e] = "process" /\ pc'[e] \in {"describe", "unlease"} /\ SameJob(e)
    /\ Store(e) => pc[e] = "store" /\ pc'[e] \in {"describe", "unlease"} /\ SameJob(e)
    /\ Describe(e) => pc[e] = "describe" /\ pc'[e] = "checkpoint" /\ SameJob(e)
    /\ ReleaseEntity(e) => pc[e] = "unlease" /\ pc'[e] \in {"recordError", "wave"} /\ SameJob(e)
    /\ Cleanup(e) => pc[e] = "cleanup" /\ pc'[e] = "enqueue" /\ SameJob(e)
    /\ Enqueue(e) => pc[e] = "enqueue" /\ pc'[e] = "register" /\ SameJob(e)
    /\ Register(e) => pc[e] = "register" /\ pc'[e] \in {"unqueue", "release"} /\ SameJob(e)
    /\ Unqueue(e) => pc[e] = "unqueue" /\ pc'[e] = "release" /\ SameJob(e)
    /\ Release(e) => pc[e] = "release" /\ pc'[e] = "schedule" /\ SameJob(e)
    /\ Retry(e) =>
         /\ pc[e] = "retry"
         /\ (pc'[e] = "retryRemove" /\ SameJob(e)) \/ (pc'[e] = "idle" /\ job'[e] = NoJob)
    /\ NoClaim(e) \/ Refused(e) \/ OpenManifest(e) \/ CommitCut(e) \/ RetryRemove(e)
         \/ Schedule(e) \/ Crash(e)
         => pc'[e] = "idle" /\ job'[e] = NoJob
    /\ LockFails(e) =>
         \/ pc'[e] = "idle" /\ job'[e] = NoJob
         \/ SameJob(e) /\ pc[e] \in {"lease", "unlease", "finalize", "commit", "enqueue"}
              /\ pc'[e] = "recordError"
         \/ SameJob(e) /\ pc[e] \in {"heartbeat", "checkpoint"} /\ pc'[e] = "unlease"
         \/ SameJob(e) /\ pc[e] \in {"recordError", "unqueue"} /\ pc'[e] = "release"
<1> USE DEF Typed, TypeOK, Goto, SameJob
<1>1. EntityManifest(e) => pc[e] = "manifest" /\ pc'[e] = "unlease" /\ SameJob(e)
  BY FailEffect DEF EntityManifest, ManifestStep
<1>2. FinalManifest(e) =>
     pc[e] = "finalManifest" /\ pc'[e] \in {"commit", "recordError"} /\ SameJob(e)
  BY FailEffect DEF FinalManifest, ManifestStep
<1>3. CommittedManifest(e) =>
     pc[e] = "committedManifest" /\ pc'[e] \in {"cleanup", "recordError"} /\ SameJob(e)
  BY FailEffect DEF CommittedManifest, ManifestStep
<1>4. ErrorManifest(e) => pc[e] = "errorManifest" /\ pc'[e] = "release" /\ SameJob(e)
  BY FailEffect DEF ErrorManifest, ManifestStep
<1>5. WaveFires(e) => pc[e] = "idle" /\ pc'[e] = "claim" /\ SameJob(e)
  BY FailEffect DEF WaveFires
<1>6. AcquireEntity(e) => pc[e] = "lease" /\ pc'[e] \in {"heartbeat", "recordError"} /\ SameJob(e)
  BY FailEffect DEF AcquireEntity
<1>7. Heartbeat(e) => pc[e] = "heartbeat" /\ pc'[e] \in {"process", "unlease"} /\ SameJob(e)
  BY FailEffect DEF Heartbeat
<1>8. Recover(e) => pc[e] = "process" /\ pc'[e] \in {"describe", "unlease"} /\ SameJob(e)
  BY FailEffect DEF Recover
<1>9. Store(e) => pc[e] = "store" /\ pc'[e] \in {"describe", "unlease"} /\ SameJob(e)
  BY FailEffect DEF Store
<1>10. Describe(e) => pc[e] = "describe" /\ pc'[e] = "checkpoint" /\ SameJob(e)
  BY FailEffect DEF Describe
<1>11. ReleaseEntity(e) => pc[e] = "unlease" /\ pc'[e] \in {"recordError", "wave"} /\ SameJob(e)
  BY FailEffect DEF ReleaseEntity
<1>12. Cleanup(e) => pc[e] = "cleanup" /\ pc'[e] = "enqueue" /\ SameJob(e)
  BY FailEffect DEF Cleanup
<1>13. Enqueue(e) => pc[e] = "enqueue" /\ pc'[e] = "register" /\ SameJob(e)
  BY FailEffect DEF Enqueue
<1>14. Register(e) => pc[e] = "register" /\ pc'[e] \in {"unqueue", "release"} /\ SameJob(e)
  BY FailEffect DEF Register, RegisterStep
<1>15. Unqueue(e) => pc[e] = "unqueue" /\ pc'[e] = "release" /\ SameJob(e)
  BY FailEffect DEF Unqueue
<1>16. Release(e) => pc[e] = "release" /\ pc'[e] = "schedule" /\ SameJob(e)
  BY FailEffect DEF Release
<1>17. Retry(e) =>
         /\ pc[e] = "retry"
         /\ (pc'[e] = "retryRemove" /\ SameJob(e)) \/ (pc'[e] = "idle" /\ job'[e] = NoJob)
  BY EndEffect DEF Retry, RegisterStep
<1>18. NoClaim(e) \/ Refused(e) \/ OpenManifest(e) \/ CommitCut(e) \/ RetryRemove(e)
         \/ Schedule(e) \/ Crash(e)
         => pc'[e] = "idle" /\ job'[e] = NoJob
  BY EndEffect DEF NoClaim, Refused, OpenManifest, CommitCut, RetryRemove, Schedule, Crash
<1>19. LockFails(e) =>
         \/ pc'[e] = "idle" /\ job'[e] = NoJob
         \/ SameJob(e) /\ pc[e] \in {"lease", "unlease", "finalize", "commit", "enqueue"}
              /\ pc'[e] = "recordError"
         \/ SameJob(e) /\ pc[e] \in {"heartbeat", "checkpoint"} /\ pc'[e] = "unlease"
         \/ SameJob(e) /\ pc[e] \in {"recordError", "unqueue"} /\ pc'[e] = "release"
  BY EndEffect, FailEffect DEF LockFails, OnLockError
<1> HIDE DEF Typed, TypeOK
<1> QED
  BY <1>1, <1>2, <1>3, <1>4, <1>5, <1>6, <1>7, <1>8, <1>9, <1>10, <1>11, <1>12, <1>13, <1>14,
     <1>15, <1>16, <1>17, <1>18, <1>19

\* Only a claim makes a worker; otherwise a worker was one before, and one that may still
\* record an error was so before
LEMMA WorkerFlow ==
  ASSUME Typed, NEW e \in Execs, Step(e), pc'[e] \in AtWork
  PROVE  \/ Claim(e)
         \/ /\ pc[e] \in AtWork /\ job'[e].worker = job[e].worker
            /\ pc'[e] \in BeforeError => pc[e] \in BeforeError
<1> USE DEF Typed, TypeOK, AtWork, BeforeError, EntityPcs, ClosingPcs, Goto, SameJob
<1>1. CASE StarterFires(e) \/ Reserve(e) \/ Open(e) \/ Claim(e) \/ NextEntity(e) \/ Request(e)
  BY <1>1, JobAfter
<1>2. CASE Checkpoint(e) \/ Finalize(e) \/ Commit(e) \/ RetryFires(e) \/ RecordError(e)
  BY <1>2, JobAfter
<1>3. CASE EntityManifest(e) \/ FinalManifest(e) \/ CommittedManifest(e) \/ ErrorManifest(e)
        \/ WaveFires(e) \/ AcquireEntity(e)
  BY <1>3, JobKept
<1>4. CASE Heartbeat(e) \/ Recover(e) \/ Store(e) \/ Describe(e) \/ ReleaseEntity(e)
  BY <1>4, JobKept
<1>5. CASE Cleanup(e) \/ Enqueue(e) \/ Register(e) \/ Unqueue(e) \/ Release(e)
  BY <1>5, JobKept
<1>6. CASE Retry(e) \/ LockFails(e) \/ NoClaim(e) \/ Refused(e)
  BY <1>6, JobKept
<1>7. CASE OpenManifest(e) \/ CommitCut(e) \/ RetryRemove(e) \/ Schedule(e) \/ Crash(e)
  BY <1>7, JobKept
<1> QED
  BY <1>1, <1>2, <1>3, <1>4, <1>5, <1>6, <1>7 DEF Step, Progress

\* Only the loop of a worker makes it one that is at an entity
LEMMA EntityFlow ==
  ASSUME Typed, NEW e \in Execs, Step(e), pc'[e] \in AtEntity
  PROVE  \/ NextEntity(e) /\ pc'[e] = "lease"
         \/ /\ pc[e] \in AtEntity /\ job'[e].cycle = job[e].cycle
            /\ job'[e].index = job[e].index /\ job'[e].from = job[e].from
<1> USE DEF Typed, TypeOK, AtEntity, EntityPcs, Goto, SameJob
<1>1. CASE StarterFires(e) \/ Reserve(e) \/ Open(e) \/ Claim(e) \/ NextEntity(e) \/ Request(e)
  BY <1>1, JobAfter
<1>2. CASE Checkpoint(e) \/ Finalize(e) \/ Commit(e) \/ RetryFires(e) \/ RecordError(e)
  BY <1>2, JobAfter
<1>3. CASE EntityManifest(e) \/ FinalManifest(e) \/ CommittedManifest(e) \/ ErrorManifest(e)
        \/ WaveFires(e) \/ AcquireEntity(e)
  BY <1>3, JobKept
<1>4. CASE Heartbeat(e) \/ Recover(e) \/ Store(e) \/ Describe(e) \/ ReleaseEntity(e)
  BY <1>4, JobKept
<1>5. CASE Cleanup(e) \/ Enqueue(e) \/ Register(e) \/ Unqueue(e) \/ Release(e)
  BY <1>5, JobKept
<1>6. CASE Retry(e) \/ LockFails(e) \/ NoClaim(e) \/ Refused(e)
  BY <1>6, JobKept
<1>7. CASE OpenManifest(e) \/ CommitCut(e) \/ RetryRemove(e) \/ Schedule(e) \/ Crash(e)
  BY <1>7, JobKept
<1> QED
  BY <1>1, <1>2, <1>3, <1>4, <1>5, <1>6, <1>7 DEF Step, Progress

\* Which steps change the cycle an execution is about
LEMMA CycleFlow ==
  ASSUME Typed, NEW e \in Execs, Step(e), pc'[e] \in InCycle
  PROVE  \/ Reserve(e) \/ NextEntity(e) \/ Finalize(e) \/ RetryFires(e)
         \/ pc[e] \in InCycle /\ job'[e].cycle = job[e].cycle
<1> USE DEF Typed, TypeOK, InCycle, AtEntity, EntityPcs, Goto, SameJob
<1>1. CASE StarterFires(e) \/ Reserve(e) \/ Open(e) \/ Claim(e) \/ NextEntity(e) \/ Request(e)
  BY <1>1, JobAfter
<1>2. CASE Checkpoint(e) \/ Finalize(e) \/ Commit(e) \/ RetryFires(e) \/ RecordError(e)
  BY <1>2, JobAfter
<1>3. CASE EntityManifest(e) \/ FinalManifest(e) \/ CommittedManifest(e) \/ ErrorManifest(e)
        \/ WaveFires(e) \/ AcquireEntity(e)
  BY <1>3, JobKept
<1>4. CASE Heartbeat(e) \/ Recover(e) \/ Store(e) \/ Describe(e) \/ ReleaseEntity(e)
  BY <1>4, JobKept
<1>5. CASE Cleanup(e) \/ Enqueue(e) \/ Register(e) \/ Unqueue(e) \/ Release(e)
  BY <1>5, JobKept
<1>6. CASE Retry(e) \/ LockFails(e) \/ NoClaim(e) \/ Refused(e)
  BY <1>6, JobKept
<1>7. CASE OpenManifest(e) \/ CommitCut(e) \/ RetryRemove(e) \/ Schedule(e) \/ Crash(e)
  BY <1>7, JobKept
<1> QED
  BY <1>1, <1>2, <1>3, <1>4, <1>5, <1>6, <1>7 DEF Step, Progress


\* What an execution knows of cycles after its step: what it knew, the current one, or what a
\* new execution knows
LEMMA JobMoves ==
  ASSUME Typed, NEW e \in Execs, Step(e), ~Reserve(e)
  PROVE  \/ /\ job'[e].seen = job[e].seen
            /\ job'[e].cycle \in {job[e].cycle, state.cycle}
            /\ pc[e] \in {"retry", "retryRemove"} => pc'[e] \in {"retry", "retryRemove"}
         \/ /\ job'[e].seen \in {0, lastCycle}
            /\ job'[e].cycle = 0 \/ pc'[e] = "retry"
<1> USE DEF Typed, TypeOK, Goto, SameJob
<1>0. NoJob.cycle = 0 /\ NoJob.seen = 0
  BY DEF NoJob
<1>1. CASE StarterFires(e) \/ Reserve(e) \/ Open(e) \/ Claim(e) \/ NextEntity(e) \/ Request(e)
  BY <1>0, <1>1, JobAfter
<1>2. CASE Checkpoint(e) \/ Finalize(e) \/ Commit(e) \/ RetryFires(e) \/ RecordError(e)
  BY <1>0, <1>2, JobAfter
<1>3. CASE EntityManifest(e) \/ FinalManifest(e) \/ CommittedManifest(e) \/ ErrorManifest(e)
        \/ WaveFires(e) \/ AcquireEntity(e)
  BY <1>0, <1>3, JobKept
<1>4. CASE Heartbeat(e) \/ Recover(e) \/ Store(e) \/ Describe(e) \/ ReleaseEntity(e)
  BY <1>0, <1>4, JobKept
<1>5. CASE Cleanup(e) \/ Enqueue(e) \/ Register(e) \/ Unqueue(e) \/ Release(e)
  BY <1>0, <1>5, JobKept
<1>6. CASE Retry(e) \/ LockFails(e) \/ NoClaim(e) \/ Refused(e)
  BY <1>0, <1>6, JobKept
<1>7. CASE OpenManifest(e) \/ CommitCut(e) \/ RetryRemove(e) \/ Schedule(e) \/ Crash(e)
  BY <1>0, <1>7, JobKept
<1> QED
  BY <1>0, <1>1, <1>2, <1>3, <1>4, <1>5, <1>6, <1>7 DEF Step, Progress

-----------------------------------------------------------------------------
(* The types and identifiers are inductive *)

\* The queue of handoffs changes only where it is written
LEMMA HandoffsEffect ==
  ASSUME NEW e \in Execs, Step(e)
  PROVE  UNCHANGED handoffs \/ Enqueue(e) \/ Unqueue(e) \/ RetryRemove(e)
<1> USE DEF handoffVars
<1>1. CASE StarterFires(e) \/ Reserve(e) \/ Refused(e) \/ Open(e) \/ OpenManifest(e)
  BY <1>1 DEF StarterFires, Reserve, Refused, Open, OpenManifest
<1>2. CASE EntityManifest(e) \/ FinalManifest(e) \/ CommittedManifest(e) \/ ErrorManifest(e)
  BY <1>2 DEF EntityManifest, FinalManifest, CommittedManifest, ErrorManifest, ManifestStep
<1>3. CASE WaveFires(e) \/ Claim(e) \/ NoClaim(e) \/ NextEntity(e) \/ AcquireEntity(e)
  BY <1>3 DEF WaveFires, Claim, NoClaim, NextEntity, AcquireEntity
<1>4. CASE Heartbeat(e) \/ Recover(e) \/ Request(e) \/ Store(e) \/ Describe(e)
  BY <1>4 DEF Heartbeat, Recover, Request, Store, Describe
<1>5. CASE Checkpoint(e) \/ ReleaseEntity(e) \/ Finalize(e) \/ Commit(e) \/ CommitCut(e)
  BY <1>5 DEF Checkpoint, ReleaseEntity, Finalize, Commit, CommitCut
<1>6. CASE Cleanup(e) \/ Register(e) \/ RetryFires(e)
  BY <1>6 DEF Cleanup, Register, RetryFires, RegisterStep
<1>7. CASE Retry(e) \/ RecordError(e) \/ Release(e) \/ Schedule(e) \/ LockFails(e) \/ Crash(e)
  BY <1>7 DEF Retry, RecordError, Release, Schedule, RegisterStep, LockFails, Crash
<1> QED
  BY <1>1, <1>2, <1>3, <1>4, <1>5, <1>6, <1>7 DEF Step, Progress

\* Who counts another attempt of a cycle is its owner, and the cycle has attempts left
LEMMA AnotherAttempt ==
  ASSUME Typed, NEW e \in Execs, RecordError(e), state.owner = job[e].worker
  PROVE  /\ state.status \in {"RUNNING", "FINALIZING"}
         /\ \A i \in 0..N : attempts[i] < MaxAttempts
<1>1. job[e].worker # 0 /\ pc[e] \in BeforeError
  BY DEF RecordError, Typed, JobShape, AtWork, BeforeError
<1>2. state.status \notin {"NONE", "INITIALIZING", "SUCCESS", "FAILED"}
  BY <1>1 DEF Typed, OwnerShape, AttemptsLeft
<1> QED
  BY <1>2, Read DEF Typed, AttemptsLeft, Statuses, Active

\* Every step of an execution keeps the types
LEMMA StepTyped ==
  ASSUME Typed, NEW e \in Execs, Step(e)
  PROVE  TypeOK'
<1> USE DEF Typed
<1>1. state' \in StateType /\ pc' \in [Execs -> Pcs] /\ job' \in [Execs -> JobType]
  BY StateTyped, Moved
<1>2. watermark' \in Nat /\ now' \in Nat
  <2>1. state.to \in Nat /\ watermark \in Nat /\ now \in Nat
    BY Read
  <2>2. now' \in Nat
    <3>1. CASE Request(e)
      BY <2>1, <3>1 DEF Request
    <3> QED
      BY <2>1, <3>1, StepEffect
  <2>3. watermark' \in Nat
    BY <2>1, StepEffect DEF Commit, CommitCut
  <2> QED
    BY <2>2, <2>3
<1>3. attempts' \in [0..N -> 0..MaxAttempts]
  <2>1. attempts \in [0..N -> 0..MaxAttempts] /\ MaxAttempts \in Nat
    BY CdcConstants DEF TypeOK
  <2>2. CASE UNCHANGED attempts
    BY <2>1, <2>2
  <2>3. CASE Open(e)
    BY <2>1, <2>3 DEF Open
  <2>4. CASE RecordError(e)
    <3>1. CASE state.owner = job[e].worker
      <4>1. state.index \in 0..N /\ attempts[state.index] < MaxAttempts
        BY <2>4, <3>1, AnotherAttempt, Read
      <4>2. attempts[state.index] + 1 \in 0..MaxAttempts
        BY <2>1, <4>1
      <4>3. attempts' = [attempts EXCEPT ![state.index] = attempts[state.index] + 1]
        BY <2>4, <3>1 DEF RecordError
      <4> QED
        BY <2>1, <4>2, <4>3
    <3>2. CASE state.owner # job[e].worker
      BY <2>1, <2>4, <3>2 DEF RecordError
    <3> QED
      BY <3>1, <3>2
  <2> QED
    BY <2>2, <2>3, <2>4, StepEffect
<1>4. meta' \subseteq Cycles \X Entities
  <2>1. meta \subseteq Cycles \X Entities
    BY DEF TypeOK
  <2>2. CASE Describe(e)
    <3>1. job[e].cycle \in Cycles /\ job[e].index \in Entities
      BY <2>2, Read DEF Describe, JobShape, InCycle, AtEntity, EntityPcs, Cycles
    <3> QED
      BY <2>1, <2>2, <3>1 DEF Describe
  <2>3. CASE Cleanup(e)
    BY <2>1, <2>3 DEF Cleanup
  <2> QED
    BY <2>1, <2>2, <2>3, StepEffect
<1>5. leases' \in [Entities -> [worker : 0..MaxWorkers, cycle : 0..MaxCycles]]
  <2>1. /\ leases \in [Entities -> [worker : 0..MaxWorkers, cycle : 0..MaxCycles]]
        /\ NoLease \in [worker : 0..MaxWorkers, cycle : 0..MaxCycles]
        /\ [worker |-> job[e].worker, cycle |-> job[e].cycle]
             \in [worker : 0..MaxWorkers, cycle : 0..MaxCycles]
    BY CdcConstants, JobFields DEF TypeOK, NoLease
  <2>2. UNCHANGED leases \/ \E i, l : leases' = [leases EXCEPT ![i] = l]
          /\ l \in {NoLease, [worker |-> job[e].worker, cycle |-> job[e].cycle]}
    BY StepEffect DEF AcquireEntity, ReleaseEntity
  <2> QED
    BY <2>1, <2>2
<1>6. starter' \in BOOLEAN /\ next' \in {"none", "armed", "fired"} /\ paused' \in BOOLEAN
  BY StepEffect DEF TypeOK
<1>7. files' \subseteq FileType
  <2>1. CASE Store(e)
    <3>1. job[e].cycle \in Cycles /\ job[e].index \in Entities
      BY <2>1, Read DEF Store, JobShape, InCycle, AtEntity, EntityPcs, Cycles
    <3>2. [cycle |-> job[e].cycle, entity |-> job[e].index, from |-> job[e].from,
           to |-> job[e].to, whole |-> job[e].whole] \in FileType
      BY <3>1, Read DEF FileType
    <3> QED
      BY <2>1, <3>2 DEF Store, TypeOK
  <2> QED
    BY <2>1, StepEffect DEF TypeOK
<1>8. manifests' \in [Cycles -> ManifestType]
  <2>1. CASE ManifestWritten(e)
    <3>1. Manifest(e) \in ManifestType
      BY Read DEF Manifest, ManifestType, Described
    <3> QED
      BY <2>1, <3>1 DEF ManifestWritten, TypeOK
  <2> QED
    BY <2>1, StepEffect DEF TypeOK
<1>9. handoffs' \in Seq(Cycles)
  <2>1. handoffs \in Seq(Cycles)
    BY DEF TypeOK
  <2>2. CASE UNCHANGED handoffs
    BY <2>1, <2>2
  <2>3. CASE Enqueue(e)
    <3>1. job[e].cycle \in Cycles
      BY <2>3, Read DEF Enqueue, JobShape, InCycle, Cycles
    <3> QED
      BY <2>1, <2>3, <3>1, AppendProperties DEF Enqueue
  <2>4. CASE Unqueue(e) \/ RetryRemove(e)
    BY <2>4, OthersTyped DEF Unqueue, RetryRemove
  <2> QED
    BY <2>2, <2>3, <2>4, HandoffsEffect
<1>10. registered' \subseteq Cycles
  <2>1. CASE RegisterStep(e, "register", "unqueue", "release")
             \/ RegisterStep(e, "retry", "retryRemove", "idle")
    <3>1. job[e].cycle \in Cycles
      BY <2>1, Read DEF RegisterStep, JobShape, InCycle, Cycles
    <3> QED
      BY <2>1, <3>1 DEF RegisterStep, TypeOK
  <2> QED
    BY <2>1, StepEffect DEF TypeOK
<1>11. lastCycle' \in 0..MaxCycles /\ lastWorker' \in 0..MaxWorkers
  <2>1. lastCycle \in 0..MaxCycles /\ lastWorker \in 0..MaxWorkers
    BY DEF TypeOK
  <2>2. lastCycle' \in 0..MaxCycles
    <3>1. CASE Reserve(e)
      BY <2>1, <3>1, CdcConstants DEF Reserve
    <3> QED
      BY <2>1, <3>1, StepEffect
  <2>3. lastWorker' \in 0..MaxWorkers
    BY <2>1, StepEffect, CdcConstants DEF Claim
  <2> QED
    BY <2>2, <2>3
<1>12. faults' \in 0..MaxFaults /\ outlasted' \in BOOLEAN
  <2>1. CASE UNCHANGED faultVars
    BY <2>1 DEF faultVars, TypeOK
  <2> QED
    BY <2>1, StepEffect, Charged
<1> QED
  BY <1>1, <1>2, <1>3, <1>4, <1>5, <1>6, <1>7, <1>8, <1>9, <1>10, <1>11, <1>12 DEF TypeOK

-----------------------------------------------------------------------------
(* How the cycle state moves *)

\* What sections after the reservation keep of the cycle
SameCycle ==
  /\ state'.cycle = state.cycle /\ state'.from = state.from /\ state'.to = state.to
  /\ state.manifest => state'.manifest

\* Only a reservation begins a cycle; who changes its status and its owner
LEMMA StateFlow ==
  ASSUME Typed, NEW e \in Execs, Step(e), ~Reserve(e)
  PROVE  /\ lastCycle' = lastCycle /\ SameCycle
         /\ \/ state'.status = state.status
            \/ Open(e) /\ state.status = "INITIALIZING" /\ state'.status = "RUNNING"
            \/ Finalize(e) /\ state.status = "RUNNING" /\ state'.status = "FINALIZING"
            \/ Commit(e) /\ state.status = "FINALIZING" /\ state'.status = "SUCCESS"
               /\ state'.owner = 0
            \/ RecordError(e) /\ state.owner = job[e].worker /\ state'.status = "FAILED"
         /\ \/ state'.owner = state.owner \/ state'.owner = 0
            \/ Claim(e) /\ state.status = "RUNNING" /\ state'.owner = lastWorker + 1
<1>1. state \in StateType /\ lastCycle' = lastCycle
  BY Read, StepEffect
<1> USE DEF SameCycle, StateType
<1>2. CASE UNCHANGED state
  BY <1>1, <1>2
<1>3. CASE Open(e)
  <2>1. state' = state \/ (state' = [state EXCEPT !.status = "RUNNING"]
                            /\ state.status = "INITIALIZING")
    BY <1>3 DEF Open
  <2> QED
    BY <1>1, <1>3, <2>1
<1>4. CASE ManifestWritten(e)
  <2>1. state' = state \/ state' = [state EXCEPT !.manifest = TRUE]
    BY <1>4 DEF ManifestWritten
  <2> QED
    BY <1>1, <2>1
<1>5. CASE Claim(e)
  <2>1. state' = [state EXCEPT !.owner = lastWorker + 1, !.live = TRUE]
        /\ state.status = "RUNNING"
    BY <1>5 DEF Claim
  <2> QED
    BY <1>1, <1>5, <2>1
<1>6. CASE Checkpoint(e)
  <2>1. state' = state \/ state' = [state EXCEPT !.index = @ + 1]
    BY <1>6 DEF Checkpoint
  <2> QED
    BY <1>1, <2>1
<1>7. CASE Finalize(e)
  <2>1. state' = state \/ (state' = [state EXCEPT !.status = "FINALIZING"]
                            /\ state.status = "RUNNING")
    BY <1>7 DEF Finalize
  <2> QED
    BY <1>1, <1>7, <2>1
<1>8. CASE Commit(e)
  <2>1. state' = state
        \/ (state' = [state EXCEPT !.status = "SUCCESS", !.owner = 0, !.live = FALSE]
             /\ state.status = "FINALIZING")
    BY <1>8 DEF Commit
  <2> QED
    BY <1>1, <1>8, <2>1
<1>9. CASE RecordError(e)
  <2>1. \/ state' = state
        \/ /\ state.owner = job[e].worker
           /\ \E x \in {"FAILED", state.status} : state' = [state EXCEPT !.status = x]
    BY <1>9 DEF RecordError
  <2> QED
    BY <1>1, <1>9, <2>1
<1>10. CASE Release(e)
  <2>1. state' = state \/ state' = [state EXCEPT !.owner = 0, !.live = FALSE]
    BY <1>10 DEF Release
  <2> QED
    BY <1>1, <2>1
<1> QED
  BY <1>2, <1>3, <1>4, <1>5, <1>6, <1>7, <1>8, <1>9, <1>10, StepEffect

\* A reservation writes a new cycle with the window of the starter
LEMMA Reserved ==
  ASSUME Typed, NEW e \in Execs, Reserve(e)
  PROVE  /\ lastCycle' = lastCycle + 1 /\ state'.cycle = lastCycle + 1
         /\ state'.status = "INITIALIZING" /\ state'.owner = 0 /\ ~state'.manifest
         /\ state'.from = job[e].from /\ state'.to = job[e].to
         /\ pc[e] = "reserve" /\ job[e].seen = lastCycle /\ state.status \notin Active
BY DEF Reserve, NoState

-----------------------------------------------------------------------------
(* The first part is inductive *)

\* The identifiers an execution has after its step
LEMMA JobBound ==
  ASSUME Typed, NEW e \in Execs, Step(e)
  PROVE  /\ pc'[e] \notin {"retry", "retryRemove"} => job'[e].cycle <= lastCycle'
         /\ job'[e].seen <= lastCycle'
<1>1. /\ lastCycle' = lastCycle \/ (Reserve(e) /\ lastCycle' = lastCycle + 1)
      /\ lastCycle \in Nat /\ state.cycle = lastCycle
      /\ job[e].cycle \in Nat /\ job[e].seen \in Nat
      /\ pc[e] \notin {"retry", "retryRemove"} => job[e].cycle <= lastCycle
      /\ job[e].seen <= lastCycle
  <2>1. lastCycle' = lastCycle \/ (Reserve(e) /\ lastCycle' = lastCycle + 1)
    <3>1. Reserve(e) => lastCycle' = lastCycle + 1
      BY DEF Reserve
    <3> QED
      BY <3>1, StepEffect
  <2>2. lastCycle \in Nat /\ job[e].cycle \in Nat /\ job[e].seen \in Nat
    BY Read
  <2> QED
    BY <2>1, <2>2 DEF Typed, CycleBounds
<1>2. NoJob.cycle = 0 /\ NoJob.seen = 0
  BY DEF NoJob
<1>3. CASE Reserve(e)
  <2>1. job'[e].cycle = lastCycle + 1 /\ job'[e].seen = job[e].seen
        /\ lastCycle' = lastCycle + 1
    BY <1>3, JobAfter DEF Reserve
  <2> QED
    BY <1>1, <2>1
<1>4. CASE ~Reserve(e)
  <2>1. \/ job'[e].seen = job[e].seen /\ (job'[e].cycle = job[e].cycle \/ job'[e].cycle = lastCycle)
           /\ (pc[e] \in {"retry", "retryRemove"} => pc'[e] \in {"retry", "retryRemove"})
        \/ job'[e].seen \in {0, lastCycle} /\ (job'[e].cycle = 0 \/ pc'[e] = "retry")
    BY <1>1, <1>2, <1>4, JobMoves
  <2> QED
    BY <1>1, <1>4, <2>1
<1> QED
  BY <1>3, <1>4

\* No stage about a cycle is entered without one
LEMMA CycleStarts ==
  ASSUME Typed, NEW e \in Execs, Step(e), pc'[e] \in InCycle
  PROVE  job'[e].cycle # 0
<1>1. CASE Reserve(e)
  <2>1. job'[e].cycle = lastCycle + 1
    BY <1>1, JobAfter
  <2> QED
    BY <2>1, Read
<1>2. CASE NextEntity(e)
  <2>1. pc'[e] \notin {"recordError", "finalize"}
    BY DEF InCycle, AtEntity, EntityPcs
  <2>2. job'[e].cycle = state.cycle /\ state.status = "RUNNING"
    BY <1>2, <2>1, JobAfter
  <2> QED
    BY <2>2 DEF Typed, CycleBounds, Active
<1>3. CASE Finalize(e)
  <2>1. pc'[e] \notin {"recordError", "release"}
    BY DEF InCycle, AtEntity, EntityPcs
  <2> QED
    BY <1>3, <2>1, JobAfter
<1>4. CASE RetryFires(e)
  <2>1. handoffs # <<>> /\ job'[e].cycle = Head(handoffs)
    BY <1>4, JobAfter
  <2>2. Head(handoffs) \in Cycles
    BY <2>1, HeadTailProperties DEF Typed, TypeOK
  <2> QED
    BY <2>1, <2>2 DEF Cycles
<1> QED
  BY <1>1, <1>2, <1>3, <1>4, CycleFlow DEF Typed, JobShape

\* The identifiers after a step of an execution
LEMMA CycleBoundsStep ==
  ASSUME Typed, NEW e \in Execs, Step(e)
  PROVE  CycleBounds'
<1>1. lastCycle' >= lastCycle /\ lastCycle' \in Nat /\ lastCycle \in Nat
      /\ state'.cycle = lastCycle' /\ (state'.status \in Active => state'.cycle # 0)
  <2>1. CASE Reserve(e)
    BY <2>1, Reserved, Read
  <2>2. CASE ~Reserve(e)
    <3>1. state'.status \in Active => state.status \in Active
      <4>1. state'.status = state.status \/ state'.status \in {"SUCCESS", "FAILED"}
            \/ state.status \in {"INITIALIZING", "RUNNING"}
        BY <2>2, StateFlow
      <4> QED
        BY <4>1 DEF Active
    <3>2. lastCycle' = lastCycle /\ state'.cycle = state.cycle
      BY <2>2, StateFlow DEF SameCycle
    <3> QED
      BY <3>1, <3>2, Read DEF Typed, CycleBounds
  <2> QED
    BY <2>1, <2>2
<1>2. ASSUME NEW f \in Execs
      PROVE  /\ pc'[f] \notin {"retry", "retryRemove"} => job'[f].cycle <= lastCycle'
             /\ job'[f].seen <= lastCycle'
  <2>1. CASE f # e
    BY <1>1, <2>1, Moved, Read DEF Typed, CycleBounds
  <2>2. CASE f = e
    BY <1>1, <2>2, JobBound
  <2> QED
    BY <2>1, <2>2
<1>3. ASSUME NEW f \in files' PROVE f.cycle <= lastCycle'
  <2>1. f \in files \/ (Store(e) /\ f.cycle = job[e].cycle)
    BY <1>3, StepEffect DEF Store
  <2>2. CASE f \in files
    <3>1. f.cycle <= lastCycle /\ f.cycle \in Nat
      BY <2>2 DEF Typed, CycleBounds, TypeOK, FileType, Cycles
    <3> QED
      BY <1>1, <3>1
  <2>3. CASE Store(e) /\ f.cycle = job[e].cycle
    <3>1. job[e].cycle <= lastCycle /\ job[e].cycle \in Nat
      BY <2>3, Read DEF Store, Typed, CycleBounds
    <3> QED
      BY <1>1, <2>3, <3>1
  <2> QED
    BY <2>1, <2>2, <2>3
<1> QED
  BY <1>1, <1>2, <1>3 DEF CycleBounds

\* What an execution knows after its step
LEMMA JobShapeStep ==
  ASSUME Typed, NEW e \in Execs, Step(e)
  PROVE  JobShape'
<1>1. lastWorker' >= lastWorker /\ lastWorker' \in Nat /\ lastWorker \in Nat
  <2>1. lastWorker' = lastWorker \/ lastWorker' = lastWorker + 1
    BY StepEffect DEF Claim
  <2> QED
    BY <2>1, Read
<1> SUFFICES ASSUME NEW f \in Execs
             PROVE  /\ pc'[f] \in AtEntity => job'[f].index \in Entities
                    /\ pc'[f] \in InCycle => job'[f].cycle # 0
                    /\ pc'[f] \in AtWork => job'[f].worker \in 1..lastWorker'
  BY DEF JobShape
<1>2. CASE f # e
  BY <1>1, <1>2, Moved DEF Typed, JobShape
<1>3. CASE f = e
  <2>1. ASSUME pc'[e] \in AtEntity PROVE job'[e].index \in Entities
    <3>1. CASE NextEntity(e) /\ pc'[e] = "lease"
      <4>1. job'[e].index = state.index /\ state.index < N
        BY <3>1, JobAfter
      <4>2. state.index \in 0..N /\ N \in Nat
        BY Read
      <4> QED
        BY <4>1, <4>2 DEF Entities
    <3> QED
      BY <2>1, <3>1, EntityFlow DEF Typed, JobShape
  <2>2. ASSUME pc'[e] \in InCycle PROVE job'[e].cycle # 0
    BY <2>2, CycleStarts
  <2>3. ASSUME pc'[e] \in AtWork PROVE job'[e].worker \in 1..lastWorker'
    <3>1. CASE Claim(e)
      <4>1. job'[e].worker = lastWorker + 1
        BY <3>1, JobAfter
      <4>2. lastWorker' = lastWorker + 1
        BY <3>1 DEF Claim
      <4> QED
        BY <1>1, <4>1, <4>2
    <3>2. CASE ~Claim(e)
      <4>1. pc[e] \in AtWork /\ job'[e].worker = job[e].worker
        BY <2>3, <3>2, WorkerFlow
      <4>2. job[e].worker \in 1..lastWorker
        BY <4>1 DEF Typed, JobShape
      <4> QED
        BY <1>1, <4>1, <4>2
    <3> QED
      BY <3>1, <3>2
  <2> QED
    BY <1>3, <2>1, <2>2, <2>3
<1> QED
  BY <1>2, <1>3

\* Workers after a step of an execution
LEMMA WorkersDifferStep ==
  ASSUME Typed, NEW e \in Execs, Step(e)
  PROVE  WorkersDiffer'
<1> SUFFICES ASSUME NEW f \in Execs, NEW g \in Execs, pc'[f] \in AtWork, pc'[g] \in AtWork,
                    job'[f].worker = job'[g].worker, f # g
             PROVE  FALSE
  BY DEF WorkersDiffer
<1>1. ASSUME NEW h \in Execs, h # e, pc'[h] \in AtWork, pc'[e] \in AtWork,
             job'[h].worker = job'[e].worker
      PROVE  FALSE
  <2>1. pc[h] \in AtWork /\ job'[h].worker = job[h].worker /\ job[h].worker \in 1..lastWorker
    BY <1>1, Moved DEF Typed, JobShape
  <2>2. CASE Claim(e)
    <3>1. job'[e].worker = lastWorker + 1
      BY <2>2, JobAfter
    <3> QED
      <4>1. lastWorker \in Nat
        BY Read
      <4>2. job[h].worker = lastWorker + 1
        BY <1>1, <2>1, <3>1
      <4>3. job[h].worker \in 1..lastWorker
        BY <2>1
      <4> QED
        BY <4>1, <4>2, <4>3
  <2>3. CASE ~Claim(e)
    <3>1. pc[e] \in AtWork /\ job'[e].worker = job[e].worker
      BY <1>1, <2>3, WorkerFlow
    <3> QED
      BY <1>1, <2>1, <3>1 DEF Typed, WorkersDiffer
  <2> QED
    BY <2>2, <2>3
<1>2. CASE f = e
  BY <1>1, <1>2
<1>3. CASE g = e
  BY <1>1, <1>3
<1>4. CASE f # e /\ g # e
  BY <1>4, Moved DEF Typed, WorkersDiffer
<1> QED
  BY <1>2, <1>3, <1>4

\* The owner after a step of an execution
LEMMA OwnerShapeStep ==
  ASSUME Typed, NEW e \in Execs, Step(e)
  PROVE  OwnerShape'
<1>1. lastWorker' >= lastWorker /\ lastWorker' \in Nat /\ lastWorker \in Nat /\ state.owner \in Nat
  <2>1. lastWorker' = lastWorker \/ lastWorker' = lastWorker + 1
    BY StepEffect DEF Claim
  <2> QED
    BY <2>1, Read
<1>2. CASE Reserve(e)
  <2>1. state'.owner = 0
    BY <1>2, Reserved
  <2> QED
    BY <1>1, <2>1 DEF OwnerShape
<1>3. CASE Claim(e)
  <2>1. lastWorker' = lastWorker + 1 /\ state.status = "RUNNING" /\ ~Open(e)
        /\ ~Finalize(e) /\ ~Commit(e) /\ ~RecordError(e) /\ ~Reserve(e)
    BY <1>3 DEF Claim, Open, Finalize, Commit, RecordError, Reserve
  <2>2. state'.status = "RUNNING" /\ state'.owner \in {0, state.owner, lastWorker + 1}
    BY <2>1, StateFlow
  <2>3. state.owner <= lastWorker
    BY DEF Typed, OwnerShape
  <2> QED
    BY <1>1, <2>1, <2>2, <2>3 DEF OwnerShape
<1>4. CASE ~Reserve(e) /\ ~Claim(e)
  <2>1. state'.owner \in {0, state.owner}
    BY <1>4, StateFlow
  <2>2. state'.status \in {"NONE", "INITIALIZING", "SUCCESS"} =>
          state'.owner = 0 \/ state'.status = state.status
    BY <1>4, StateFlow
  <2>3. state.owner <= lastWorker
        /\ (state.status \in {"NONE", "INITIALIZING", "SUCCESS"} => state.owner = 0)
    BY DEF Typed, OwnerShape
  <2> QED
    BY <1>1, <2>1, <2>2, <2>3 DEF OwnerShape
<1> QED
  BY <1>2, <1>3, <1>4

-----------------------------------------------------------------------------
(* Attempts, the environment, and the first theorem *)

\* A worker has a number
LEMMA WorkerPositive ==
  ASSUME Typed, NEW e \in Execs, pc[e] \in AtWork
  PROVE  job[e].worker # 0
BY DEF Typed, JobShape

\* The attempts after a step of an execution
LEMMA AttemptsLeftStep ==
  ASSUME Typed, NEW e \in Execs, Step(e)
  PROVE  AttemptsLeft'
<1>1. ASSUME state'.status \notin {"FAILED", "INITIALIZING"}
      PROVE  \A i \in 0..N : attempts'[i] < MaxAttempts
  <2>1. CASE Open(e)
    <3>1. CASE UNCHANGED <<state, attempts>>
      BY <1>1, <3>1 DEF Typed, AttemptsLeft
    <3>2. CASE attempts' = [i \in 0..N |-> 0]
      BY <3>2, CdcConstants
    <3> QED
      BY <2>1, <3>1, <3>2 DEF Open
  <2>2. CASE RecordError(e)
    <3>1. CASE state.owner = job[e].worker
      <4>1. \A i \in 0..N : attempts[i] < MaxAttempts
        BY <2>2, <3>1, AnotherAttempt
      <4>2. /\ attempts' = [attempts EXCEPT ![state.index] = attempts[state.index] + 1]
            /\ state' = [state EXCEPT !.status =
                           IF attempts[state.index] + 1 >= MaxAttempts THEN "FAILED"
                           ELSE state.status]
        BY <2>2, <3>1 DEF RecordError
      <4>3. state'.status = IF attempts[state.index] + 1 >= MaxAttempts THEN "FAILED"
                            ELSE state.status
        BY <4>2, Read DEF StateType
      <4>4. attempts[state.index] + 1 < MaxAttempts
        <5>1. attempts[state.index] \in Nat /\ MaxAttempts \in Nat
          BY Read, CdcConstants DEF Typed, TypeOK
        <5> QED
          BY <1>1, <4>3, <5>1
      <4> QED
        BY <4>1, <4>2, <4>4, CdcConstants DEF Typed, TypeOK
    <3>2. CASE state.owner # job[e].worker
      BY <1>1, <2>2, <3>2 DEF RecordError, Typed, AttemptsLeft
    <3> QED
      BY <3>1, <3>2
  <2>3. CASE UNCHANGED attempts /\ ~Open(e)
    <3>1. ~Reserve(e)
      BY <1>1, Reserved
    <3>2. state'.status = state.status \/ state.status \notin {"FAILED", "INITIALIZING"}
      BY <1>1, <2>3, <3>1, StateFlow
    <3> QED
      BY <1>1, <2>3, <3>2 DEF Typed, AttemptsLeft
  <2> QED
    BY <2>1, <2>2, <2>3, StepEffect
<1>2. ASSUME state'.status = "FAILED", NEW f \in Execs, pc'[f] \in BeforeError
      PROVE  job'[f].worker # state'.owner
  <2>1. ~Reserve(e)
    BY <1>2, Reserved
  <2>2. CASE RecordError(e) /\ state.owner = job[e].worker
    <3>1. f # e
      <4>1. pc'[e] = "errorManifest"
        BY <2>2 DEF RecordError, Goto, Typed, TypeOK
      <4> QED
        BY <1>2, <4>1 DEF BeforeError, EntityPcs, ClosingPcs
    <3>2. pc[f] \in AtWork /\ pc[e] \in AtWork /\ job'[f].worker = job[f].worker
      BY <1>2, <2>2, <3>1, Moved DEF RecordError, AtWork, BeforeError
    <3>3. state'.owner = state.owner \/ state'.owner = 0
      <4>1. ~Claim(e)
        BY <2>2 DEF RecordError, Claim
      <4> QED
        BY <2>1, <4>1, StateFlow
    <3> QED
      BY <2>2, <3>1, <3>2, <3>3, WorkerPositive DEF Typed, WorkersDiffer
  <2>3. CASE state.status = "FAILED"
    <3>1. ~Claim(e)
      BY <2>3 DEF Claim
    <3>2. state'.owner = state.owner \/ state'.owner = 0
      BY <2>1, <3>1, StateFlow
    <3>3. pc[f] \in BeforeError /\ job'[f].worker = job[f].worker
      BY <1>2, <3>1, Moved, WorkerFlow DEF AtWork
    <3> QED
      BY <2>3, <3>2, <3>3, WorkerPositive DEF Typed, AttemptsLeft, AtWork
  <2> QED
    BY <1>2, <2>1, <2>2, <2>3, StateFlow
<1> QED
  BY <1>1, <1>2 DEF AttemptsLeft

\* An operator command, a lease that expires and a step that changes nothing
LEMMA EnvironmentTyped ==
  ASSUME Typed, Environment \/ UNCHANGED vars
  PROVE  Typed'
<1>1. /\ state' = state \/ state' = [state EXCEPT !.live = FALSE]
      /\ leases' = leases \/ \E i \in Entities : leases' = [leases EXCEPT ![i] = NoLease]
      /\ starter' \in {starter, TRUE, FALSE} /\ paused' \in {paused, TRUE, FALSE}
      /\ next' \in {next, "none", "armed"}
      /\ UNCHANGED faultVars \/ \E k \in HazardKinds : Charge(k)
      /\ UNCHANGED <<watermark, attempts, meta, driveVars, handoffVars, pc, job, now, countVars>>
  BY DEF Environment, ExpireWorker, ExpireEntity, Pause, Resume, Remove, Install, ResumeCycle,
         Expires, vars, controlVars, driveVars, handoffVars, countVars, faultVars, HazardKinds
<1>2. UNCHANGED <<watermark, attempts, meta, files, manifests, handoffs, registered, pc, job, now,
                  lastCycle, lastWorker>>
  BY <1>1 DEF driveVars, handoffVars, countVars
<1>3. state \in StateType
  BY DEF Typed, TypeOK
<1>4. /\ state' \in StateType /\ state'.cycle = state.cycle /\ state'.status = state.status
      /\ state'.owner = state.owner
  BY <1>1, <1>3 DEF StateType
<1>5. TypeOK'
  <2>1. leases' \in [Entities -> [worker : 0..MaxWorkers, cycle : 0..MaxCycles]]
    <3>1. NoLease \in [worker : 0..MaxWorkers, cycle : 0..MaxCycles]
      BY CdcConstants DEF NoLease
    <3> QED
      BY <1>1, <3>1 DEF Typed, TypeOK
  <2>2. faults' \in 0..MaxFaults /\ outlasted' \in BOOLEAN
    <3>1. CASE UNCHANGED faultVars
      BY <3>1 DEF faultVars, Typed, TypeOK
    <3> QED
      BY <1>1, <3>1, Charged DEF Typed
  <2>3. starter' \in BOOLEAN /\ next' \in {"none", "armed", "fired"} /\ paused' \in BOOLEAN
    BY <1>1 DEF Typed, TypeOK
  <2> QED
    BY <1>2, <1>4, <2>1, <2>2, <2>3 DEF Typed, TypeOK
<1> QED
  BY <1>2, <1>4, <1>5 DEF Typed, CycleBounds, JobShape, WorkersDiffer, OwnerShape, AttemptsLeft

\* The first part holds at the start
LEMMA InitTyped ==
  ASSUME Init
  PROVE  Typed
<1>1. NoState \in StateType /\ NoJob \in JobType
  BY StateStarts, JobStarts
<1>2. TypeOK
  <2>1. state \in StateType /\ job \in [Execs -> JobType] /\ pc \in [Execs -> Pcs]
    BY <1>1 DEF Init, Pcs
  <2>2. attempts \in [0..N -> 0..MaxAttempts]
    BY CdcConstants DEF Init
  <2>3. leases \in [Entities -> [worker : 0..MaxWorkers, cycle : 0..MaxCycles]]
    BY CdcConstants DEF Init, NoLease
  <2>4. manifests \in [Cycles -> ManifestType]
    BY DEF Init, NoManifest, ManifestType, Statuses
  <2>5. handoffs \in Seq(Cycles)
    BY EmptySeq DEF Init
  <2>6. lastCycle \in 0..MaxCycles /\ lastWorker \in 0..MaxWorkers /\ faults \in 0..MaxFaults
    BY CdcConstants DEF Init
  <2> QED
    BY <2>1, <2>2, <2>3, <2>4, <2>5, <2>6 DEF Init, TypeOK
<1>3. NoJob.cycle = 0 /\ NoJob.seen = 0 /\ NoState.cycle = 0 /\ NoState.status = "NONE"
      /\ NoState.owner = 0
  BY DEF NoJob, NoState
<1>4. \A e \in Execs : pc[e] = "idle" /\ job[e] = NoJob
  BY DEF Init
<1>5. CycleBounds
  BY <1>3, <1>4 DEF CycleBounds, Init, Active
<1>6. JobShape /\ WorkersDiffer
  BY <1>4 DEF JobShape, WorkersDiffer, AtEntity, InCycle, AtWork, BeforeError, EntityPcs,
              ClosingPcs
<1>7. OwnerShape
  BY <1>3 DEF OwnerShape, Init
<1>8. AttemptsLeft
  BY <1>3, CdcConstants DEF AttemptsLeft, Init
<1> QED
  BY <1>2, <1>5, <1>6, <1>7, <1>8 DEF Typed

\* Every variable keeps its type, no execution is two workers, and a cycle never counts more
\* attempts than its limit, whatever fails and whichever lease runs out
THEOREM TypedInvariant == Spec => []Typed
<1>1. Init => Typed
  BY InitTyped
<1>2. Typed /\ [Next]_vars => Typed'
  <2> SUFFICES ASSUME Typed, [Next]_vars PROVE Typed'
    OBVIOUS
  <2>1. ASSUME NEW e \in Execs, Step(e) PROVE Typed'
    BY <2>1, StepTyped, CycleBoundsStep, JobShapeStep, WorkersDifferStep, OwnerShapeStep,
       AttemptsLeftStep DEF Typed
  <2>2. CASE Environment \/ UNCHANGED vars
    BY <2>2, EnvironmentTyped
  <2> QED
    BY <2>1, <2>2 DEF Next
<1> QED
  BY <1>1, <1>2, PTL DEF Spec

\* The type invariant of the acquisition, the limit of the attempts among it
THEOREM TypeCorrect == Spec => []TypeOK
<1>1. Typed => TypeOK
  BY DEF Typed
<1> QED
  BY <1>1, TypedInvariant, PTL

-----------------------------------------------------------------------------
(* The inductive invariant, second part: windows and evidence *)

\* The window of a cycle that may still commit begins at or before the watermark, does not
\* end before it, and lies in the past
WindowOrdered ==
  /\ watermark <= now /\ state.to <= now
  /\ state.status \in Active => state.from <= watermark /\ watermark <= state.to

\* So does the window of a starter, as long as no cycle was opened since it was built; and it
\* ends no earlier than that of the cycle under way, which may commit meanwhile
StarterWindow ==
  \A e \in Execs : pc[e] = "reserve" /\ job[e].seen = lastCycle =>
    /\ job[e].from <= watermark /\ watermark <= job[e].to /\ job[e].to <= now
    /\ state.status \in Active => state.to <= job[e].to

\* A worker among the entities of the cycle asks for changes since the start of its window,
\* and what it got holds every change up to the end of the window
WorkerWindow ==
  \A e \in Execs : pc[e] \in AtEntity /\ job[e].cycle = state.cycle =>
    job[e].from = state.from /\ (pc[e] = "store" => state.to <= job[e].to)
FileWindow ==
  \A f \in files : f.cycle = state.cycle => f.from = state.from /\ state.to <= f.to

\* Metadata says that an entity succeeded only when its whole evidence is in Drive
Evidenced(c, i) == \E f \in files : f.cycle = c /\ f.entity = i /\ f.whole
MetaEvidenced ==
  /\ \A p \in meta : Evidenced(p[1], p[2])
  /\ \A e \in Execs : pc[e] = "describe" => Evidenced(job[e].cycle, job[e].index)

\* A cycle that is about to commit has the metadata of every entity, and keeps it until then
ClosingDescribed ==
  state.status = "FINALIZING" => \A i \in Entities : <<state.cycle, i>> \in meta
Closing ==
  \A e \in Execs : job[e].cycle = state.cycle =>
    /\ pc[e] \in {"finalManifest", "commit"} => state.status \in {"FINALIZING", "SUCCESS", "FAILED"}
    /\ pc[e] \in {"committedManifest", "cleanup"} => state.status = "SUCCESS"

\* An execution overwrites a manifest file only where one is recorded
Recorded ==
  \A e \in Execs :
    /\ pc[e] \in {"manifest", "finalManifest", "committedManifest", "errorManifest"}
    /\ job[e].recorded /\ job[e].cycle = state.cycle
    => state.manifest

\* Before the commit the recorded manifest has the evidence of every entity
CommitReady ==
  \A e \in Execs : pc[e] = "commit" /\ job[e].cycle = state.cycle /\ state.status = "FINALIZING" =>
    state.manifest /\ manifests[state.cycle].evidence = Entities

Windowed ==
  /\ Typed /\ WindowOrdered /\ StarterWindow /\ WorkerWindow /\ FileWindow
  /\ MetaEvidenced /\ ClosingDescribed /\ Closing /\ Recorded /\ CommitReady /\ NoGap

-----------------------------------------------------------------------------
(* Which steps lead to the stages the invariant is about *)

\* Each of these stages is reached in one way only
LEMMA StageFlow ==
  ASSUME Typed, NEW e \in Execs, Step(e)
  PROVE  /\ pc'[e] = "reserve" => StarterFires(e)
         /\ pc'[e] = "store" => Request(e)
         /\ pc'[e] = "describe" => Recover(e) \/ Store(e)
         /\ pc'[e] = "manifest" => Checkpoint(e)
         /\ pc'[e] = "finalManifest" => Finalize(e)
         /\ pc'[e] = "commit" => FinalManifest(e)
         /\ pc'[e] = "committedManifest" => Commit(e)
         /\ pc'[e] = "cleanup" => CommittedManifest(e)
         /\ pc'[e] = "errorManifest" => RecordError(e)
<1> USE DEF Typed, TypeOK, Goto, SameJob
<1>1. CASE StarterFires(e) \/ Reserve(e) \/ Open(e) \/ Claim(e) \/ NextEntity(e) \/ Request(e)
  BY <1>1, JobAfter
<1>2. CASE Checkpoint(e) \/ Finalize(e) \/ Commit(e) \/ RetryFires(e) \/ RecordError(e)
  BY <1>2, JobAfter
<1>3. CASE EntityManifest(e) \/ FinalManifest(e) \/ CommittedManifest(e) \/ ErrorManifest(e)
        \/ WaveFires(e) \/ AcquireEntity(e)
  BY <1>3, JobKept
<1>4. CASE Heartbeat(e) \/ Recover(e) \/ Store(e) \/ Describe(e) \/ ReleaseEntity(e)
  BY <1>4, JobKept
<1>5. CASE Cleanup(e) \/ Enqueue(e) \/ Register(e) \/ Unqueue(e) \/ Release(e)
  BY <1>5, JobKept
<1>6. CASE Retry(e) \/ LockFails(e) \/ NoClaim(e) \/ Refused(e)
  BY <1>6, JobKept
<1>7. CASE OpenManifest(e) \/ CommitCut(e) \/ RetryRemove(e) \/ Schedule(e) \/ Crash(e)
  BY <1>7, JobKept
<1> QED
  BY <1>1, <1>2, <1>3, <1>4, <1>5, <1>6, <1>7 DEF Step, Progress


\* Evidence files are only added
LEMMA FilesGrow ==
  ASSUME Typed, NEW e \in Execs, Step(e)
  PROVE  files \subseteq files' /\ \A c, i : Evidenced(c, i) => Evidenced(c, i)'
<1>1. files \subseteq files'
  BY StepEffect DEF Store
<1> QED
  BY <1>1 DEF Evidenced

\* The watermark only moves to the end of the window of a cycle that is about to commit
LEMMA WatermarkMoves ==
  ASSUME Typed, NEW e \in Execs, Step(e), watermark' # watermark
  PROVE  /\ watermark' = state.to /\ state.status = "FINALIZING"
         /\ pc[e] = "commit" /\ job[e].cycle = state.cycle
         /\ Commit(e) \/ CommitCut(e)
         /\ UNCHANGED <<now, lastCycle, files>>
<1>1. Commit(e) \/ CommitCut(e)
  BY StepEffect
<1> QED
  BY <1>1 DEF Commit, CommitCut, driveVars, countVars

\* Where an execution is about the current cycle after a step that is not a reservation, it is
\* one of the same cycle; a reservation leaves nobody else about the new cycle
LEMMA OldCycles ==
  ASSUME Typed, NEW e \in Execs, Reserve(e)
  PROVE  /\ \A f \in Execs : job'[f].cycle = state'.cycle =>
                f = e \/ pc'[f] \in {"retry", "retryRemove"}
         /\ \A f \in files' : f.cycle # state'.cycle
<1>1. state'.cycle = lastCycle + 1 /\ lastCycle \in Nat /\ files' = files
  BY Reserved, Read DEF Reserve, driveVars
<1>2. \A f \in Execs : f = e \/ pc[f] \in {"retry", "retryRemove"} \/ job[f].cycle <= lastCycle
  BY DEF Typed, CycleBounds
<1>3. \A f \in Execs : job[f].cycle \in Nat
  BY Read
<1>4. \A f \in files : f.cycle <= lastCycle /\ f.cycle \in Nat
  BY DEF Typed, CycleBounds, TypeOK, FileType, Cycles
<1>5. \A f \in Execs \ {e} : pc'[f] = pc[f] /\ job'[f] = job[f]
  BY Moved DEF Step, Progress
<1> QED
  BY <1>1, <1>2, <1>3, <1>4, <1>5

-----------------------------------------------------------------------------
(* Each part after a step of an execution *)

\* The numbers the windows are made of
LEMMA WindowTypes ==
  ASSUME Typed
  PROVE  /\ watermark \in Nat /\ now \in Nat /\ state.from \in Nat /\ state.to \in Nat
         /\ Overlap \in Nat /\ lastCycle \in Nat /\ N \in Nat
         /\ \A e \in Execs : job[e].from \in Nat /\ job[e].to \in Nat /\ job[e].seen \in Nat
         /\ \A f \in files : f.from \in Nat /\ f.to \in Nat
BY StateFields, JobFields, CdcConstants DEF Typed, TypeOK, FileType

\* Requests are only answered one after the other
LEMMA NowMoves ==
  ASSUME Typed, NEW e \in Execs, Step(e)
  PROVE  now' = now \/ (Request(e) /\ now' = now + 1)
<1>1. Request(e) => now' = now \/ now' = now + 1
  BY DEF Request
<1> QED
  BY <1>1, StepEffect

\* The status is active after a step only if it was, or the cycle is new
LEMMA ActiveBefore ==
  ASSUME Typed, NEW e \in Execs, Step(e), ~Reserve(e), state'.status \in Active
  PROVE  state.status \in Active
<1>1. \/ state'.status = state.status \/ state'.status \in {"SUCCESS", "FAILED"}
      \/ state.status \in {"INITIALIZING", "RUNNING"}
  BY StateFlow
<1> QED
  BY <1>1 DEF Active

\* The window after a step
LEMMA WindowOrderedStep ==
  ASSUME Windowed, NEW e \in Execs, Step(e)
  PROVE  WindowOrdered'
<1>1. Typed /\ watermark <= now /\ state.to <= now
      /\ (state.status \in Active => state.from <= watermark /\ watermark <= state.to)
  BY DEF Windowed, WindowOrdered
<1>2. now' >= now /\ now' \in Nat
  BY <1>1, NowMoves, WindowTypes
<1>3. CASE Reserve(e)
  <2>1. /\ state'.from = job[e].from /\ state'.to = job[e].to
        /\ job[e].from <= watermark /\ watermark <= job[e].to /\ job[e].to <= now
    BY <1>1, <1>3, Reserved DEF Windowed, StarterWindow
  <2>2. watermark' = watermark /\ now' = now
    BY <1>3 DEF Reserve
  <2> QED
    BY <1>1, <2>1, <2>2 DEF WindowOrdered
<1>4. CASE ~Reserve(e)
  <2>1. state'.from = state.from /\ state'.to = state.to
    BY <1>1, <1>4, StateFlow DEF SameCycle
  <2>2. state'.status \in Active => state.status \in Active
    BY <1>1, <1>4, ActiveBefore
  <2>3. CASE watermark' = watermark
    BY <1>1, <1>2, <2>1, <2>2, <2>3, WindowTypes DEF WindowOrdered
  <2>4. CASE watermark' # watermark
    <3>1. watermark' = state.to /\ state.status = "FINALIZING" /\ now' = now
      BY <1>1, <2>4, WatermarkMoves
    <3>2. state.from <= watermark /\ watermark <= state.to
      BY <1>1, <3>1 DEF Active
    <3> QED
      BY <1>1, <2>1, <3>1, <3>2, WindowTypes DEF WindowOrdered
  <2> QED
    BY <2>3, <2>4
<1> QED
  BY <1>3, <1>4

\* The watermark never moves back in a step
LEMMA WatermarkForward ==
  ASSUME Windowed, NEW e \in Execs, Step(e)
  PROVE  watermark' >= watermark /\ watermark' \in Nat /\ watermark \in Nat
         /\ (watermark' # watermark => watermark' = state.to /\ state.status = "FINALIZING")
<1>1. Typed /\ (state.status \in Active => watermark <= state.to)
  BY DEF Windowed, WindowOrdered
<1>2. watermark' # watermark => watermark' = state.to /\ state.status = "FINALIZING"
  BY <1>1, WatermarkMoves
<1> QED
  BY <1>1, <1>2, WindowTypes DEF Active

\* The window of a starter after a step
LEMMA StarterWindowStep ==
  ASSUME Windowed, NEW e \in Execs, Step(e)
  PROVE  StarterWindow'
<1>0. Typed /\ watermark <= now /\ state.to <= now
  BY DEF Windowed, WindowOrdered
<1> SUFFICES ASSUME NEW f \in Execs, pc'[f] = "reserve", job'[f].seen = lastCycle'
             PROVE  /\ job'[f].from <= watermark' /\ watermark' <= job'[f].to
                    /\ job'[f].to <= now'
                    /\ state'.status \in Active => state'.to <= job'[f].to
  BY DEF StarterWindow
<1>1. CASE f = e
  <2>1. StarterFires(e)
    BY <1>0, <1>1, StageFlow
  <2>2. job'[e].to = now
        /\ job'[e].from = (IF watermark > Overlap THEN watermark - Overlap ELSE 0)
    BY <1>0, <2>1, JobAfter
  <2>3. now' = now /\ watermark' = watermark /\ state' = state
    BY <2>1 DEF StarterFires, controlVars
  <2> QED
    BY <1>0, <1>1, <2>2, <2>3, WindowTypes
<1>2. CASE f # e
  <2>1. pc'[f] = pc[f] /\ job'[f] = job[f]
    BY <1>0, <1>2, Moved
  <2>2. ~Reserve(e)
    <3>1. Reserve(e) => lastCycle' = lastCycle + 1
      BY DEF Reserve
    <3>2. job[f].seen <= lastCycle /\ lastCycle \in Nat /\ job[f].seen \in Nat
      BY <1>0, WindowTypes DEF Typed, CycleBounds
    <3> QED
      BY <2>1, <3>1, <3>2
  <2>3. lastCycle' = lastCycle /\ state'.to = state.to
    BY <1>0, <2>2, StateFlow DEF SameCycle
  <2>4. /\ job[f].from <= watermark /\ watermark <= job[f].to /\ job[f].to <= now
        /\ state.status \in Active => state.to <= job[f].to
    BY <2>1, <2>3 DEF Windowed, StarterWindow
  <2>5. state'.status \in Active => state.status \in Active
    BY <1>0, <2>2, ActiveBefore
  <2>6. /\ watermark' >= watermark /\ watermark' \in Nat
        /\ watermark' # watermark => watermark' = state.to /\ state.status \in Active
    BY WatermarkForward DEF Active
  <2>7. now' >= now /\ now' \in Nat
    BY <1>0, NowMoves, WindowTypes
  <2>8. job[f].from \in Nat /\ job[f].to \in Nat /\ watermark \in Nat /\ now \in Nat
    BY <1>0, WindowTypes
  <2> QED
    BY <2>1, <2>3, <2>4, <2>5, <2>6, <2>7, <2>8
<1> QED
  BY <1>1, <1>2

\* What workers ask for after a step
LEMMA WorkerWindowStep ==
  ASSUME Windowed, NEW e \in Execs, Step(e)
  PROVE  WorkerWindow'
<1>0. Typed /\ state.to <= now
  BY DEF Windowed, WindowOrdered
<1> SUFFICES ASSUME NEW f \in Execs, pc'[f] \in AtEntity, job'[f].cycle = state'.cycle
             PROVE  job'[f].from = state'.from /\ (pc'[f] = "store" => state'.to <= job'[f].to)
  BY DEF WorkerWindow
<1>1. ~Reserve(e)
  <2>1. Reserve(e) => pc'[e] = "open"
    BY <1>0, JobAfter
  <2> QED
    BY <1>0, <2>1, OldCycles DEF AtEntity, EntityPcs
<1>2. state'.cycle = state.cycle /\ state'.from = state.from /\ state'.to = state.to
  BY <1>0, <1>1, StateFlow DEF SameCycle
<1>3. CASE f # e
  BY <1>0, <1>2, <1>3, Moved DEF Windowed, WorkerWindow
<1>4. CASE f = e
  <2>1. job'[e].from = state.from
    <3>1. CASE NextEntity(e) /\ pc'[e] = "lease"
      BY <1>0, <3>1, JobAfter
    <3> QED
      BY <1>0, <1>2, <1>4, <3>1, EntityFlow DEF Windowed, WorkerWindow
  <2>2. ASSUME pc'[e] = "store" PROVE state.to <= job'[e].to
    <3>1. job'[e].to = now + 1
      BY <1>0, <2>2, StageFlow, JobAfter
    <3> QED
      BY <1>0, <3>1, WindowTypes
  <2> QED
    BY <1>2, <1>4, <2>1, <2>2
<1> QED
  BY <1>3, <1>4

\* The evidence of the cycle after a step
LEMMA FileWindowStep ==
  ASSUME Windowed, NEW e \in Execs, Step(e)
  PROVE  FileWindow'
<1>0. Typed
  BY DEF Windowed
<1> SUFFICES ASSUME NEW f \in files', f.cycle = state'.cycle
             PROVE  f.from = state'.from /\ state'.to <= f.to
  BY DEF FileWindow
<1>1. ~Reserve(e)
  BY <1>0, OldCycles
<1>2. state'.cycle = state.cycle /\ state'.from = state.from /\ state'.to = state.to
  BY <1>0, <1>1, StateFlow DEF SameCycle
<1>3. CASE f \in files
  BY <1>2, <1>3 DEF Windowed, FileWindow
<1>4. CASE f \notin files
  <2>1. Store(e)
    BY <1>4, StepEffect
  <2>2. f.cycle = job[e].cycle /\ f.from = job[e].from /\ f.to = job[e].to /\ pc[e] = "store"
    BY <1>4, <2>1 DEF Store
  <2> QED
    BY <1>2, <2>2 DEF Windowed, WorkerWindow, AtEntity, EntityPcs
<1> QED
  BY <1>3, <1>4

\* The metadata after a step
LEMMA MetaEvidencedStep ==
  ASSUME Windowed, NEW e \in Execs, Step(e)
  PROVE  MetaEvidenced'
<1>0. Typed /\ MetaEvidenced /\ files \subseteq files'
  BY FilesGrow DEF Windowed
<1>1. ASSUME NEW c, NEW i, Evidenced(c, i) PROVE Evidenced(c, i)'
  BY <1>0, <1>1 DEF Evidenced
<1>2. ASSUME NEW p \in meta' PROVE Evidenced(p[1], p[2])'
  <2>1. CASE p \in meta
    BY <1>0, <1>1, <2>1 DEF MetaEvidenced
  <2>2. CASE p \notin meta
    <3>1. Describe(e)
      BY <2>2, StepEffect DEF Cleanup
    <3>2. p = <<job[e].cycle, job[e].index>> /\ pc[e] = "describe"
      BY <2>2, <3>1 DEF Describe
    <3> QED
      BY <1>0, <1>1, <3>2 DEF MetaEvidenced
  <2> QED
    BY <2>1, <2>2
<1>3. ASSUME NEW f \in Execs, pc'[f] = "describe" PROVE Evidenced(job[f].cycle, job[f].index)'
  <2>1. CASE f # e
    <3>1. pc[f] = "describe" /\ job'[f] = job[f]
      BY <1>0, <1>3, <2>1, Moved
    <3> QED
      BY <1>0, <1>1, <3>1 DEF MetaEvidenced, Evidenced
  <2>2. CASE f = e
    <3>1. CASE Recover(e)
      <4>1. PICK g \in Files(job[e].cycle, job[e].index) : g.whole
        <5>1. pc'[e] = "describe" => ~Fail(e, "unlease")
          BY <1>0, FailEffect DEF Typed
        <5> QED
          BY <1>3, <2>2, <3>1, <5>1 DEF Recover
      <4>2. UNCHANGED job
        BY <1>0, <1>3, <2>2, <3>1, FailEffect DEF Recover, Typed
      <4> QED
        BY <1>0, <2>2, <4>1, <4>2 DEF Evidenced, Files
    <3>2. CASE Store(e)
      <4>1. job[e].whole /\ UNCHANGED job
            /\ [cycle |-> job[e].cycle, entity |-> job[e].index, from |-> job[e].from,
                to |-> job[e].to, whole |-> job[e].whole] \in files'
        BY <1>0, <1>3, <2>2, <3>2, FailEffect DEF Store, Typed
      <4> QED
        BY <2>2, <4>1 DEF Evidenced
    <3> QED
      BY <1>0, <1>3, <2>2, <3>1, <3>2, StageFlow
  <2> QED
    BY <2>1, <2>2
<1> QED
  BY <1>2, <1>3 DEF MetaEvidenced

\* Stages about a cycle, other than retries, are not about one that was just reserved
LEMMA NotReserved ==
  ASSUME Typed, NEW e \in Execs, Step(e), NEW f \in Execs, job'[f].cycle = state'.cycle,
         pc'[f] \notin {"open", "retry", "retryRemove"}
  PROVE  /\ ~Reserve(e) /\ state'.cycle = state.cycle
         /\ state.manifest => state'.manifest
<1>1. ~Reserve(e)
  <2>1. Reserve(e) => pc'[e] = "open"
    BY JobAfter
  <2> QED
    BY <2>1, OldCycles
<1> QED
  BY <1>1, StateFlow DEF SameCycle

\* How far the current cycle is after a step: a cycle that is past RUNNING never goes back to
\* it, and a successful one stays so
LEMMA StatusMoves ==
  ASSUME Typed, NEW e \in Execs, Step(e), ~Reserve(e)
  PROVE  /\ state.status \in {"FINALIZING", "SUCCESS", "FAILED"} =>
              state'.status \in {"FINALIZING", "SUCCESS", "FAILED"}
         /\ state.status = "SUCCESS" => state'.status = "SUCCESS"
         /\ state'.status = "FINALIZING" => state.status = "FINALIZING" \/ Finalize(e)
<1>1. RecordError(e) /\ state.owner = job[e].worker => state.status # "SUCCESS"
  BY AnotherAttempt
<1>2. \/ state'.status = state.status
      \/ state.status = "INITIALIZING" /\ state'.status = "RUNNING"
      \/ Finalize(e) /\ state.status = "RUNNING" /\ state'.status = "FINALIZING"
      \/ state.status = "FINALIZING" /\ state'.status = "SUCCESS"
      \/ RecordError(e) /\ state.owner = job[e].worker /\ state'.status = "FAILED"
  BY StateFlow
<1> QED
  BY <1>1, <1>2

\* How far the cycle is for executions at its end
LEMMA ClosingStep ==
  ASSUME Windowed, NEW e \in Execs, Step(e)
  PROVE  Closing'
<1>0. Typed /\ Closing
  BY DEF Windowed
<1> SUFFICES ASSUME NEW f \in Execs, job'[f].cycle = state'.cycle,
                    pc'[f] \in {"finalManifest", "commit", "committedManifest", "cleanup"}
             PROVE  /\ state'.status \in {"FINALIZING", "SUCCESS", "FAILED"}
                    /\ pc'[f] \in {"committedManifest", "cleanup"} => state'.status = "SUCCESS"
  BY DEF Closing
<1>1. ~Reserve(e) /\ state'.cycle = state.cycle
  BY <1>0, NotReserved
<1>2. CASE f # e
  BY <1>0, <1>1, <1>2, Moved, StatusMoves DEF Closing
<1>3. CASE f = e
  <2>1. CASE pc'[e] = "finalManifest"
    <3>1. Finalize(e)
      BY <1>0, <2>1, StageFlow
    <3>2. state' = [state EXCEPT !.status = "FINALIZING"]
      BY <1>0, <2>1, <3>1, FailEffect DEF Finalize, Goto, Typed, TypeOK
    <3> QED
      BY <1>0, <1>3, <2>1, <3>2 DEF Typed, TypeOK, StateType
  <2>2. CASE pc'[e] = "commit"
    <3>1. pc[e] = "finalManifest" /\ job' = job
      BY <1>0, <2>2, StageFlow, FailEffect DEF FinalManifest, ManifestStep, Typed
    <3> QED
      BY <1>0, <1>1, <1>3, <2>2, <3>1, StatusMoves DEF Closing
  <2>3. CASE pc'[e] = "committedManifest"
    <3>1. Commit(e)
      BY <1>0, <2>3, StageFlow
    <3>2. state' = [state EXCEPT !.status = "SUCCESS", !.owner = 0, !.live = FALSE]
      BY <1>0, <2>3, <3>1, FailEffect DEF Commit, Goto, Typed, TypeOK
    <3> QED
      BY <1>0, <1>3, <3>2 DEF Typed, TypeOK, StateType
  <2>4. CASE pc'[e] = "cleanup"
    <3>1. pc[e] = "committedManifest" /\ job' = job
      BY <1>0, <2>4, StageFlow, FailEffect DEF CommittedManifest, ManifestStep, Typed
    <3> QED
      BY <1>0, <1>1, <1>3, <3>1, StatusMoves DEF Closing
  <2> QED
    BY <1>3, <2>1, <2>2, <2>3, <2>4
<1> QED
  BY <1>2, <1>3

\* The metadata of a cycle about to commit after a step
LEMMA ClosingDescribedStep ==
  ASSUME Windowed, NEW e \in Execs, Step(e)
  PROVE  ClosingDescribed'
<1>0. Typed /\ ClosingDescribed /\ Closing
  BY DEF Windowed
<1> SUFFICES ASSUME state'.status = "FINALIZING", NEW i \in Entities
             PROVE  <<state'.cycle, i>> \in meta'
  BY DEF ClosingDescribed
<1>1. ~Reserve(e)
  BY <1>0, Reserved
<1>2. state'.cycle = state.cycle
  BY <1>0, <1>1, StateFlow DEF SameCycle
<1>3. CASE Finalize(e)
  <2>1. meta' = meta
    BY <1>3 DEF Finalize
  <2>2. CASE state' = state
    BY <1>0, <2>1, <2>2 DEF ClosingDescribed
  <2>3. CASE state' # state
    BY <1>2, <1>3, <2>1, <2>3 DEF Finalize
  <2> QED
    BY <2>2, <2>3
<1>4. CASE ~Finalize(e)
  <2>1. state.status = "FINALIZING"
    BY <1>0, <1>1, <1>4, StatusMoves
  <2>2. <<state.cycle, i>> \in meta
    BY <1>0, <2>1 DEF ClosingDescribed
  <2>3. CASE Cleanup(e)
    <3>1. job[e].cycle # state.cycle
      BY <1>0, <2>1, <2>3 DEF Closing, Cleanup
    <3> QED
      BY <1>2, <2>2, <2>3, <3>1 DEF Cleanup
  <2>4. CASE ~Cleanup(e)
    BY <1>2, <2>2, <2>4, StepEffect DEF Describe
  <2> QED
    BY <2>3, <2>4
<1> QED
  BY <1>3, <1>4

\* Executions that overwrite a manifest after a step
LEMMA RecordedStep ==
  ASSUME Windowed, NEW e \in Execs, Step(e)
  PROVE  Recorded'
<1>0. Typed /\ Recorded
  BY DEF Windowed
<1> SUFFICES ASSUME NEW f \in Execs, job'[f].recorded, job'[f].cycle = state'.cycle,
                    pc'[f] \in {"manifest", "finalManifest", "committedManifest", "errorManifest"}
             PROVE  state'.manifest
  BY DEF Recorded
<1>1. state'.cycle = state.cycle /\ (state.manifest => state'.manifest)
  BY <1>0, NotReserved
<1>2. CASE f # e
  BY <1>0, <1>1, <1>2, Moved DEF Recorded
<1>3. CASE f = e
  <2>1. \/ pc'[e] = "manifest" /\ Checkpoint(e)
        \/ pc'[e] = "finalManifest" /\ Finalize(e)
        \/ pc'[e] = "committedManifest" /\ Commit(e)
        \/ pc'[e] = "errorManifest" /\ RecordError(e)
    BY <1>0, <1>3, StageFlow
  <2>2. job'[e].recorded = state.manifest
    BY <1>0, <2>1, JobAfter
  <2> QED
    BY <1>1, <1>3, <2>2
<1> QED
  BY <1>2, <1>3

\* A complete manifest of the cycle about to commit stays so whoever overwrites it
LEMMA ManifestMoves ==
  ASSUME Windowed, NEW e \in Execs, Step(e), state.status = "FINALIZING",
         manifests[state.cycle].evidence = Entities
  PROVE  manifests'[state.cycle].evidence = Entities
<1>0. Typed /\ ClosingDescribed
  BY DEF Windowed
<1>1. CASE manifests' = manifests
  BY <1>1
<1>2. CASE manifests' # manifests
  <2>1. manifests' = [manifests EXCEPT ![job[e].cycle] = Manifest(e)]
    BY <1>2, StepEffect DEF ManifestWritten
  <2>2. state.cycle \in Cycles
    BY <1>0, Read DEF Typed, TypeOK, CycleBounds, Active, Cycles, StateType
  <2>3. CASE job[e].cycle = state.cycle
    <3>1. Described(state.cycle) = Entities
      BY <1>0 DEF ClosingDescribed, Described
    <3>2. manifests'[state.cycle] = Manifest(e)
      BY <1>0, <2>1, <2>2, <2>3 DEF Typed, TypeOK
    <3> QED
      BY <2>3, <3>1, <3>2 DEF Manifest
  <2>4. CASE job[e].cycle # state.cycle
    BY <1>0, <1>2, <2>1, <2>2, <2>4 DEF Typed, TypeOK
  <2> QED
    BY <2>3, <2>4
<1> QED
  BY <1>1, <1>2

\* The manifest of the cycle about to commit after a step
LEMMA CommitReadyStep ==
  ASSUME Windowed, NEW e \in Execs, Step(e)
  PROVE  CommitReady'
<1>0. Typed /\ CommitReady /\ Closing /\ Recorded
  BY DEF Windowed
<1> SUFFICES ASSUME NEW f \in Execs, pc'[f] = "commit", job'[f].cycle = state'.cycle,
                    state'.status = "FINALIZING"
             PROVE  state'.manifest /\ manifests'[state'.cycle].evidence = Entities
  BY DEF CommitReady
<1>1. ~Reserve(e) /\ state'.cycle = state.cycle /\ (state.manifest => state'.manifest)
  BY <1>0, NotReserved
<1>2. CASE f # e
  <2>1. pc[f] = "commit" /\ job[f].cycle = state.cycle
    BY <1>0, <1>1, <1>2, Moved
  <2>2. state.status = "FINALIZING"
    <3>1. state.status \in {"FINALIZING", "SUCCESS", "FAILED"}
      BY <1>0, <2>1 DEF Closing
    <3> QED
      BY <1>0, <1>1, <3>1, StateFlow
  <2>3. state.manifest /\ manifests[state.cycle].evidence = Entities
    BY <1>0, <2>1, <2>2 DEF CommitReady
  <2> QED
    BY <1>1, <2>2, <2>3, ManifestMoves
<1>3. CASE f = e
  <2>1. pc[e] = "finalManifest" /\ ManifestWritten(e) /\ job' = job
    BY <1>0, <1>3, StageFlow, FailEffect DEF FinalManifest, ManifestStep, Typed
  <2>2. job[e].cycle = state.cycle
    BY <1>1, <1>3, <2>1
  <2>3. state'.status = state.status /\ state'.manifest
    <3>1. CASE job[e].recorded
      BY <1>0, <2>1, <2>2, <3>1 DEF ManifestWritten, Recorded
    <3>2. CASE ~job[e].recorded
      <4>1. state' = [state EXCEPT !.manifest = TRUE]
        BY <2>1, <3>2 DEF ManifestWritten
      <4> QED
        BY <1>0, <4>1 DEF Typed, TypeOK, StateType
    <3> QED
      BY <3>1, <3>2
  <2>4. manifests'[state.cycle].evidence = Entities
    <3>1. manifests' = [manifests EXCEPT ![state.cycle] = Manifest(e)]
      BY <2>1, <2>2 DEF ManifestWritten
    <3>2. state.cycle \in Cycles
      BY <1>0, <2>3 DEF Typed, TypeOK, CycleBounds, Active, Cycles, StateType
    <3>3. manifests'[state.cycle] = Manifest(e)
      BY <1>0, <3>1, <3>2 DEF Typed, TypeOK
    <3>4. Described(state.cycle) = Entities
      BY <2>3 DEF Windowed, ClosingDescribed, Described
    <3> QED
      BY <2>2, <3>3, <3>4 DEF Manifest
  <2> QED
    BY <1>1, <2>3, <2>4
<1> QED
  BY <1>2, <1>3

\* No change is missed after a step: the window that commits meets the watermark, and every
\* entity has evidence of all of it
LEMMA NoGapStep ==
  ASSUME Windowed, NEW e \in Execs, Step(e)
  PROVE  NoGap'
<1>0. Typed /\ NoGap /\ files \subseteq files'
  BY FilesGrow DEF Windowed
<1> SUFFICES ASSUME NEW i \in Entities, NEW t \in 1..watermark'
             PROVE  \E f \in files' : f.entity = i /\ f.whole /\ f.from < t /\ t <= f.to
  BY DEF NoGap
<1>1. watermark \in Nat /\ watermark' \in Nat
  BY WatermarkForward
<1>2. CASE t <= watermark
  <2>1. t \in 1..watermark
    BY <1>1, <1>2
  <2>2. \E f \in files : f.entity = i /\ f.whole /\ f.from < t /\ t <= f.to
    BY <1>0, <2>1 DEF NoGap
  <2> QED
    BY <1>0, <2>2
<1>3. CASE t > watermark
  <2>1. watermark' = state.to /\ state.status = "FINALIZING"
    BY <1>1, <1>3, WatermarkForward
  <2>2. PICK f \in files : f.cycle = state.cycle /\ f.entity = i /\ f.whole
    <3>1. <<state.cycle, i>> \in meta
      BY <2>1 DEF Windowed, ClosingDescribed
    <3> QED
      BY <3>1 DEF Windowed, MetaEvidenced, Evidenced
  <2>3. f.from = state.from /\ state.to <= f.to /\ state.from <= watermark
    BY <2>1, <2>2 DEF Windowed, FileWindow, WindowOrdered, Active
  <2>4. f.from \in Nat /\ f.to \in Nat
    BY <1>0, WindowTypes
  <2>5. f.from < t /\ t <= f.to
    BY <1>1, <1>3, <2>1, <2>3, <2>4
  <2> QED
    BY <1>0, <2>2, <2>5
<1> QED
  BY <1>1, <1>2, <1>3

-----------------------------------------------------------------------------
(* The environment, the start, and the theorems *)

\* An operator command, a lease that expires and a step that changes nothing
LEMMA EnvironmentWindowed ==
  ASSUME Windowed, Environment \/ UNCHANGED vars
  PROVE  Windowed' /\ watermark' = watermark
<1>1. /\ state' = state \/ state' = [state EXCEPT !.live = FALSE]
      /\ UNCHANGED <<watermark, meta, driveVars, pc, job, now, countVars>>
  BY DEF Environment, ExpireWorker, ExpireEntity, Pause, Resume, Remove, Install, ResumeCycle,
         vars, controlVars, driveVars, countVars
<1>2. UNCHANGED <<watermark, meta, files, manifests, pc, job, now, lastCycle>>
  BY <1>1 DEF driveVars, countVars
<1>3. /\ state'.cycle = state.cycle /\ state'.status = state.status /\ state'.from = state.from
      /\ state'.to = state.to /\ state'.manifest = state.manifest
  BY <1>1 DEF Windowed, Typed, TypeOK, StateType
<1>4. Typed'
  BY EnvironmentTyped DEF Windowed
<1>5. WindowOrdered' /\ StarterWindow' /\ WorkerWindow' /\ FileWindow'
  BY <1>2, <1>3 DEF Windowed, WindowOrdered, StarterWindow, WorkerWindow, FileWindow
<1>6. MetaEvidenced' /\ NoGap'
  BY <1>2 DEF Windowed, MetaEvidenced, Evidenced, NoGap
<1>7. ClosingDescribed' /\ Closing' /\ Recorded' /\ CommitReady'
  BY <1>2, <1>3 DEF Windowed, ClosingDescribed, Closing, Recorded, CommitReady
<1> QED
  BY <1>2, <1>4, <1>5, <1>6, <1>7 DEF Windowed

\* The second part holds at the start
LEMMA InitWindowed ==
  ASSUME Init
  PROVE  Windowed
<1>1. Typed
  BY InitTyped
<1>2. /\ watermark = 0 /\ now = 1 /\ state.to = 0 /\ state.status = "NONE" /\ files = {}
      /\ meta = {} /\ \A e \in Execs : pc[e] = "idle"
  BY DEF Init, NoState
<1>3. WindowOrdered /\ NoGap
  BY <1>2 DEF WindowOrdered, NoGap, Active
<1>4. StarterWindow /\ WorkerWindow /\ FileWindow
  BY <1>2 DEF StarterWindow, WorkerWindow, FileWindow, AtEntity, EntityPcs
<1>5. MetaEvidenced /\ ClosingDescribed /\ Closing /\ Recorded /\ CommitReady
  BY <1>2 DEF MetaEvidenced, ClosingDescribed, Closing, Recorded, CommitReady
<1> QED
  BY <1>1, <1>3, <1>4, <1>5 DEF Windowed

\* The windows of cycles and starters, the evidence and the manifest of the cycle about to
\* commit are as the comments above say in every reachable state
THEOREM WindowedInvariant == Spec => []Windowed
<1>1. Init => Windowed
  BY InitWindowed
<1>2. Windowed /\ [Next]_vars => Windowed'
  <2> SUFFICES ASSUME Windowed, [Next]_vars PROVE Windowed'
    OBVIOUS
  <2>1. ASSUME NEW e \in Execs, Step(e) PROVE Windowed'
    <3>1. Typed'
      BY <2>1, StepTyped, CycleBoundsStep, JobShapeStep, WorkersDifferStep, OwnerShapeStep,
         AttemptsLeftStep DEF Typed, Windowed
    <3> QED
      BY <2>1, <3>1, WindowOrderedStep, StarterWindowStep, WorkerWindowStep, FileWindowStep,
         MetaEvidencedStep, ClosingDescribedStep, ClosingStep, RecordedStep, CommitReadyStep,
         NoGapStep DEF Windowed
  <2>2. CASE Environment \/ UNCHANGED vars
    BY <2>2, EnvironmentWindowed
  <2> QED
    BY <2>1, <2>2 DEF Next
<1> QED
  BY <1>1, <1>2, PTL DEF Spec

\* Up to the watermark every change of every entity is in a whole evidence file in Drive,
\* although windows are built before a cycle is reserved, cycles fail and are abandoned, a
\* commit may be cut between its two properties, and leases run out under live workers
THEOREM NoGapCorrect == Spec => []NoGap
<1>1. Windowed => NoGap
  BY DEF Windowed
<1> QED
  BY <1>1, WindowedInvariant, PTL

\* The watermark only moves forward
THEOREM WatermarkCorrect == Spec => WatermarkMonotone
<1>1. Windowed /\ [Next]_vars => [watermark' > watermark]_watermark
  <2> SUFFICES ASSUME Windowed, [Next]_vars PROVE watermark' > watermark \/ watermark' = watermark
    OBVIOUS
  <2>1. ASSUME NEW e \in Execs, Step(e) PROVE watermark' > watermark \/ watermark' = watermark
    BY <2>1, WatermarkForward
  <2>2. CASE Environment \/ UNCHANGED vars
    BY <2>2, EnvironmentWindowed
  <2> QED
    BY <2>1, <2>2 DEF Next
<1> QED
  BY <1>1, WindowedInvariant, PTL DEF Spec, WatermarkMonotone

\* The watermark moves only after the manifest recorded for the cycle is in Drive with the
\* evidence of every entity
THEOREM CommitCorrect == Spec => CommitManifested
<1>1. Windowed /\ [Next]_vars =>
        [state.manifest /\ manifests[state.cycle].evidence = Entities]_watermark
  <2> SUFFICES ASSUME Windowed, [Next]_vars, watermark' # watermark
               PROVE  state.manifest /\ manifests[state.cycle].evidence = Entities
    OBVIOUS
  <2>1. PICK e \in Execs : Step(e)
    BY EnvironmentWindowed DEF Next
  <2> QED
    BY <2>1, WatermarkMoves DEF Windowed, CommitReady
<1> QED
  BY <1>1, WindowedInvariant, PTL DEF Spec, CommitManifested

-----------------------------------------------------------------------------
(* One evidence file of an entity in a cycle, as long as no worker outlasts its lease *)

\* A worker among the entities holds the lease of its entity from the acquisition on
LeaseHeld ==
  \A e \in Execs : pc[e] \in AtEntity \ {"lease"} =>
    leases[job[e].index] = [worker |-> job[e].worker, cycle |-> job[e].cycle]

\* A worker that is about to store evidence is the first one to do so
StoreFirst ==
  \A e \in Execs : pc[e] = "store" => Files(job[e].cycle, job[e].index) = {}

FilesOnce ==
  \A f, g \in files : f.cycle = g.cycle /\ f.entity = g.entity => f = g

Leased == ~outlasted => LeaseHeld /\ StoreFirst /\ FilesOnce

\* That a worker outlasted its lease is never forgotten
LEMMA OutlastedKept ==
  ASSUME Typed, NEW e \in Execs, Step(e), ~outlasted'
  PROVE  ~outlasted
<1>1. UNCHANGED faultVars \/ \E k \in HazardKinds : Charge(k)
  BY StepEffect
<1>2. outlasted \in BOOLEAN
  BY DEF Typed, TypeOK
<1> QED
  BY <1>1, <1>2 DEF faultVars, Charge

\* Where an execution was that is among the entities after a step
LEMMA HeldFlow ==
  ASSUME Typed, NEW e \in Execs, Step(e), pc'[e] \in AtEntity \ {"lease"}
  PROVE  /\ AcquireEntity(e) \/ pc[e] \in AtEntity \ {"lease"}
         /\ SameJob(e) \/ (job'[e].worker = job[e].worker /\ job'[e].cycle = job[e].cycle
                           /\ job'[e].index = job[e].index)
         /\ pc[e] \in AtEntity
<1>1. pc[e] \in AtEntity /\ job'[e].cycle = job[e].cycle /\ job'[e].index = job[e].index
  BY EntityFlow
<1>2. ~Claim(e)
  BY <1>1 DEF Claim, AtEntity, EntityPcs
<1>3. pc'[e] \in AtWork
  BY DEF AtWork, BeforeError, AtEntity, EntityPcs
<1>4. job'[e].worker = job[e].worker
  BY <1>2, <1>3, WorkerFlow
<1>5. ASSUME pc[e] = "lease", ~AcquireEntity(e) PROVE FALSE
  <2>1. LockFails(e) \/ Crash(e)
    BY <1>5 DEF Step, Progress, StarterFires, WaveFires, RetryFires, CommitCut, Reserve, Refused,
       Open, OpenManifest, Claim, NoClaim, NextEntity, Heartbeat, Recover, Request, Store,
       Describe, Checkpoint, EntityManifest, ReleaseEntity, Finalize, FinalManifest, Commit,
       CommittedManifest, ManifestStep, Cleanup, Enqueue, Register, Unqueue, RecordError,
       ErrorManifest, Release, Schedule, Retry, RetryRemove, RegisterStep
  <2> QED
    BY <2>1, <1>5, JobKept DEF AtEntity, EntityPcs
<1> QED
  BY <1>1, <1>4, <1>5

\* Two executions among the entities are different workers
LEMMA EntityWorkers ==
  ASSUME Typed, NEW e \in Execs, NEW f \in Execs, e # f, pc[e] \in AtEntity, pc[f] \in AtEntity
  PROVE  job[e].worker # job[f].worker /\ job[f].worker # 0
<1>1. pc[e] \in AtWork /\ pc[f] \in AtWork
  BY DEF AtWork, BeforeError, AtEntity
<1> QED
  BY <1>1 DEF Typed, WorkersDiffer, JobShape

\* A lease is taken only when it is free, and given back only by the worker that holds it
LEMMA LeaseHeldStep ==
  ASSUME Typed, LeaseHeld, NEW e \in Execs, Step(e)
  PROVE  LeaseHeld'
<1>0. leases \in [Entities -> [worker : 0..MaxWorkers, cycle : 0..MaxCycles]]
  BY DEF Typed, TypeOK
<1> SUFFICES ASSUME NEW f \in Execs, pc'[f] \in AtEntity \ {"lease"}
             PROVE  leases'[job'[f].index] =
                      [worker |-> job'[f].worker, cycle |-> job'[f].cycle]
  BY DEF LeaseHeld
<1>1. CASE f # e
  <2>1. pc[f] \in AtEntity \ {"lease"} /\ job'[f] = job[f]
    BY <1>1, Moved
  <2>2. leases[job[f].index] = [worker |-> job[f].worker, cycle |-> job[f].cycle]
    BY <2>1 DEF LeaseHeld
  <2>3. ASSUME pc[e] \in AtEntity
        PROVE  /\ leases[job[f].index] # [worker |-> job[e].worker, cycle |-> job[e].cycle]
               /\ leases[job[f].index] # NoLease
    <3>1. job[e].worker # job[f].worker /\ job[f].worker # 0
      BY <1>1, <2>1, <2>3, EntityWorkers
    <3> QED
      BY <2>2, <3>1 DEF NoLease
  <2>4. leases'[job[f].index] = leases[job[f].index]
    <3>1. job[f].index \in Entities
      BY <2>1 DEF Typed, JobShape
    <3>2. CASE AcquireEntity(e)
      <4>1. pc[e] \in AtEntity
        BY <3>2 DEF AcquireEntity, AtEntity, EntityPcs
      <4> QED
        BY <1>0, <2>3, <3>1, <3>2, <4>1 DEF AcquireEntity
    <3>3. CASE ReleaseEntity(e)
      <4>1. pc[e] \in AtEntity
        BY <3>3 DEF ReleaseEntity, AtEntity, EntityPcs
      <4> QED
        BY <1>0, <2>3, <3>1, <3>3, <4>1 DEF ReleaseEntity
    <3> QED
      BY <3>2, <3>3, StepEffect
  <2> QED
    BY <2>1, <2>2, <2>4
<1>2. CASE f = e
  <2>1. /\ AcquireEntity(e) \/ pc[e] \in AtEntity \ {"lease"}
        /\ job'[e].worker = job[e].worker /\ job'[e].cycle = job[e].cycle
        /\ job'[e].index = job[e].index /\ pc[e] \in AtEntity
    BY <1>2, HeldFlow DEF SameJob
  <2>2. job[e].index \in Entities
    BY <2>1 DEF Typed, JobShape
  <2>3. CASE AcquireEntity(e)
    <3>1. ~Fail(e, "recordError")
      BY <1>2, FailEffect DEF Typed, AtEntity, EntityPcs
    <3> QED
      BY <1>0, <1>2, <2>1, <2>2, <2>3, <3>1 DEF AcquireEntity
  <2>4. CASE ~AcquireEntity(e)
    <3>1. ~ReleaseEntity(e)
      BY <1>2, JobKept DEF AtEntity, EntityPcs
    <3>2. leases' = leases
      BY <2>4, <3>1, StepEffect
    <3> QED
      BY <1>2, <2>1, <2>4, <3>2 DEF LeaseHeld
  <2> QED
    BY <2>3, <2>4
<1> QED
  BY <1>1, <1>2

\* Two workers that are about to store evidence are so for different entities or cycles
LEMMA StoresApart ==
  ASSUME Typed, LeaseHeld, NEW e \in Execs, NEW f \in Execs, e # f, pc[e] = "store",
         pc[f] = "store"
  PROVE  job[e].cycle # job[f].cycle \/ job[e].index # job[f].index
<1>1. pc[e] \in AtEntity \ {"lease"} /\ pc[f] \in AtEntity \ {"lease"}
  BY DEF AtEntity, EntityPcs
<1>2. /\ leases[job[e].index] = [worker |-> job[e].worker, cycle |-> job[e].cycle]
      /\ leases[job[f].index] = [worker |-> job[f].worker, cycle |-> job[f].cycle]
  BY <1>1 DEF LeaseHeld
<1>3. job[e].worker # job[f].worker
  BY <1>1, EntityWorkers
<1> QED
  BY <1>2, <1>3

\* The file a worker stores
LEMMA Stored ==
  ASSUME NEW e \in Execs, Store(e), NEW f \in files', f \notin files
  PROVE  /\ pc[e] = "store" /\ f.cycle = job[e].cycle /\ f.entity = job[e].index
         /\ \A g \in files' : g \in files \/ g = f
<1>1. files' = files \union {[cycle |-> job[e].cycle, entity |-> job[e].index,
                              from |-> job[e].from, to |-> job[e].to, whole |-> job[e].whole]}
  BY DEF Store
<1> QED
  BY <1>1 DEF Store

\* A worker that has its answer is still the first to store it
LEMMA StoreFirstStep ==
  ASSUME Typed, LeaseHeld, StoreFirst, NEW e \in Execs, Step(e)
  PROVE  StoreFirst'
<1> SUFFICES ASSUME NEW f \in Execs, pc'[f] = "store",
                    NEW g \in files', g.cycle = job'[f].cycle, g.entity = job'[f].index
             PROVE  FALSE
  BY DEF StoreFirst, Files
<1>1. CASE f # e
  <2>1. pc[f] = "store" /\ job'[f] = job[f]
    BY <1>1, Moved
  <2>2. g \notin files
    BY <2>1 DEF StoreFirst, Files
  <2>3. Store(e)
    BY <2>2, StepEffect
  <2> QED
    BY <1>1, <2>1, <2>2, <2>3, Stored, StoresApart
<1>2. CASE f = e
  <2>1. Request(e)
    BY <1>2, StageFlow
  <2>2. Files(job[e].cycle, job[e].index) = {} /\ files' = files
    BY <2>1 DEF Request, driveVars
  <2>3. job'[e].cycle = job[e].cycle /\ job'[e].index = job[e].index
    BY <2>1, JobAfter DEF SameJob
  <2> QED
    BY <1>2, <2>2, <2>3 DEF Files
<1> QED
  BY <1>1, <1>2

\* No second file of an entity in a step of an execution
LEMMA FilesOnceStep ==
  ASSUME StoreFirst, FilesOnce, NEW e \in Execs, Step(e)
  PROVE  FilesOnce'
<1> SUFFICES ASSUME NEW f \in files', NEW g \in files', f.cycle = g.cycle,
                    f.entity = g.entity, f # g
             PROVE  FALSE
  BY DEF FilesOnce
<1>1. ASSUME NEW a \in files', NEW b \in files, a \notin files, a.cycle = b.cycle,
             a.entity = b.entity
      PROVE  FALSE
  <2>1. Store(e)
    BY <1>1, StepEffect
  <2>2. pc[e] = "store" /\ a.cycle = job[e].cycle /\ a.entity = job[e].index
    BY <1>1, <2>1, Stored
  <2> QED
    BY <1>1, <2>2 DEF StoreFirst, Files
<1>2. CASE f \in files /\ g \in files
  BY <1>2 DEF FilesOnce
<1>3. CASE f \notin files
  <2>1. Store(e)
    BY <1>3, StepEffect
  <2>2. g \in files
    BY <1>3, <2>1, Stored
  <2> QED
    BY <1>1, <1>3, <2>2
<1>4. CASE f \in files /\ g \notin files
  BY <1>1, <1>4
<1> QED
  BY <1>2, <1>3, <1>4

\* A lease that expires was that of a worker that is gone, or of one that outlasted it
LEMMA EnvironmentLeased ==
  ASSUME Typed, Leased, Environment \/ UNCHANGED vars
  PROVE  Leased'
<1>1. UNCHANGED faultVars \/ \E k \in HazardKinds : Charge(k)
  BY DEF Environment, ExpireWorker, ExpireEntity, Pause, Resume, Remove, Install, ResumeCycle,
         Expires, vars, HazardKinds
<1>2. pc' = pc /\ job' = job /\ files' = files
  BY DEF Environment, ExpireWorker, ExpireEntity, Pause, Resume, Remove, Install, ResumeCycle,
         vars, driveVars
<1> SUFFICES ASSUME ~outlasted' PROVE LeaseHeld' /\ StoreFirst' /\ FilesOnce'
  BY DEF Leased
<1>3. ~outlasted
  BY <1>1 DEF faultVars, Charge, Typed, TypeOK
<1>4. LeaseHeld /\ StoreFirst /\ FilesOnce
  BY <1>3 DEF Leased
<1>5. StoreFirst' /\ FilesOnce'
  BY <1>2, <1>4 DEF StoreFirst, FilesOnce, Files
<1>6. CASE ExpireEntity
  <2>1. PICK i \in Entities : Expires(leases[i].worker) /\ leases' = [leases EXCEPT ![i] = NoLease]
    BY <1>6 DEF ExpireEntity
  <2>2. ~Alive(leases[i].worker)
    BY <2>1 DEF Expires, Charge
  <2> SUFFICES ASSUME NEW f \in Execs, pc[f] \in AtEntity \ {"lease"}
               PROVE  leases'[job[f].index] = [worker |-> job[f].worker, cycle |-> job[f].cycle]
    BY <1>2, <1>5 DEF LeaseHeld
  <2>3. leases[job[f].index] = [worker |-> job[f].worker, cycle |-> job[f].cycle]
    BY <1>4 DEF LeaseHeld
  <2>4. job[f].index # i
    <3>1. pc[f] # "idle"
      BY DEF AtEntity, EntityPcs
    <3> QED
      BY <2>2, <2>3, <3>1 DEF Alive
  <2>5. job[f].index \in Entities
    BY DEF Typed, JobShape
  <2> QED
    BY <2>1, <2>3, <2>4, <2>5 DEF Typed, TypeOK
<1>7. CASE ~ExpireEntity
  <2>1. leases' = leases
    BY <1>7 DEF Environment, ExpireWorker, Pause, Resume, Remove, Install, ResumeCycle, vars
  <2> QED
    BY <1>2, <1>4, <1>5, <2>1 DEF LeaseHeld
<1> QED
  BY <1>6, <1>7

\* However workers die and are replaced, a cycle has at most one evidence file of an entity,
\* as long as no live worker outlasts its lease
THEOREM EvidenceCorrect == Spec => []EvidenceOnce
<1>1. Init => Leased
  BY DEF Init, Leased, LeaseHeld, StoreFirst, FilesOnce, AtEntity, EntityPcs
<1>2. Typed /\ Leased /\ [Next]_vars => Leased'
  <2> SUFFICES ASSUME Typed, Leased, [Next]_vars PROVE Leased'
    OBVIOUS
  <2>1. ASSUME NEW e \in Execs, Step(e), ~outlasted'
        PROVE  LeaseHeld' /\ StoreFirst' /\ FilesOnce'
    <3>1. LeaseHeld /\ StoreFirst /\ FilesOnce
      BY <2>1, OutlastedKept DEF Leased
    <3> QED
      BY <2>1, <3>1, LeaseHeldStep, StoreFirstStep, FilesOnceStep
  <2>2. CASE Environment \/ UNCHANGED vars
    BY <2>2, EnvironmentLeased
  <2> QED
    BY <2>1, <2>2 DEF Next, Leased
<1>3. Leased => EvidenceOnce
  BY DEF Leased, FilesOnce, EvidenceOnce
<1> QED
  BY <1>1, <1>2, <1>3, TypedInvariant, PTL DEF Spec

-----------------------------------------------------------------------------
(* The handoff queue, as long as no worker outlasts its lease *)

\* Where the ownership of the cycle is needed, and where a commit is being handed over
WorkPcs == EntityPcs \union {"finalize", "finalManifest", "commit"}
DonePcs == {"committedManifest", "cleanup"}

\* A worker keeps the lease of the cycle from its claim to the commit
Working ==
  \A e \in Execs : pc[e] \in WorkPcs =>
    /\ state.owner = job[e].worker /\ state.live /\ state.status \in Active
    /\ pc[e] \notin {"wave", "finalize"} => job[e].cycle = state.cycle
OwnerLive ==
  \A e \in Execs : pc[e] \in AtWork /\ state.owner = job[e].worker => state.live

\* A cycle that is queued for ingestion, or committed and about to be
Handed(c) ==
  \/ Queued(c)
  \/ \E e \in Execs : pc[e] \in DonePcs \union {"enqueue"} /\ job[e].cycle = c

\* Such a cycle is over, or the present one, which then is committed with its manifest recorded
HandedDone ==
  \A c \in Cycles : Handed(c) =>
    /\ c <= state.cycle
    /\ c = state.cycle => state.status = "SUCCESS" /\ state.manifest

\* Who writes the manifest of an error does so for a cycle nobody else commits
ErrorFenced ==
  \A e \in Execs : pc[e] = "errorManifest" =>
    /\ job[e].cycle = state.cycle => state.owner = job[e].worker \/ state.status = "FAILED"
    /\ \A c \in Cycles : job[e].cycle = c => ~Handed(c)

\* Nobody removes the metadata of a committed cycle before its manifest is written
DoneApart ==
  \A e, f \in Execs :
    pc[e] \in DonePcs /\ pc[f] \in DonePcs /\ job[e].cycle = job[f].cycle => e = f
DoneDescribed ==
  \A e \in Execs : pc[e] = "committedManifest" =>
    Described(job[e].cycle) = Entities /\ job[e].snap = "SUCCESS"

HandedReady ==
  /\ \A k \in 1..Len(handoffs) : Registrable(handoffs[k])
  /\ \A e \in Execs : pc[e] \in {"cleanup", "enqueue"} => Registrable(job[e].cycle)

\* A starter has no recorded manifest to overwrite
StarterFresh == \A e \in Execs : pc[e] \in StarterPcs => ~job[e].recorded

Handing ==
  ~outlasted => /\ Working /\ OwnerLive /\ HandedDone /\ ErrorFenced /\ DoneApart
                /\ DoneDescribed /\ HandedReady /\ StarterFresh

\* What a step does to the lease of the cycle
LEMMA OwnerMoves ==
  ASSUME Typed, NEW e \in Execs, Step(e)
  PROVE  \/ state'.owner = state.owner /\ state'.live = state.live
         \/ Reserve(e) /\ state.status \notin Active /\ state'.owner = 0
         \/ /\ Claim(e) /\ ~(state.owner # 0 /\ state.live)
            /\ state'.owner = job'[e].worker /\ state'.live
         \/ /\ Commit(e) /\ state.cycle = job[e].cycle /\ state.status = "FINALIZING"
            /\ state'.owner = 0
         \/ Release(e) /\ state.owner = job[e].worker /\ state'.owner = 0
<1>0. state \in StateType
  BY DEF Typed, TypeOK
<1>1. CASE Reserve(e)
  BY <1>1, Reserved
<1>2. CASE Claim(e)
  <2>1. job'[e].worker = lastWorker + 1
    BY <1>2, JobAfter
  <2> QED
    BY <1>0, <1>2, <2>1 DEF Claim, StateType
<1>3. CASE Commit(e)
  BY <1>0, <1>3 DEF Commit, StateType
<1>4. CASE Release(e)
  BY <1>0, <1>4 DEF Release, StateType
<1>5. CASE Open(e)
  BY <1>0, <1>5 DEF Open, StateType
<1>6. CASE ManifestWritten(e)
  BY <1>0, <1>6 DEF ManifestWritten, StateType
<1>7. CASE Checkpoint(e)
  BY <1>0, <1>7 DEF Checkpoint, StateType
<1>8. CASE Finalize(e)
  BY <1>0, <1>8 DEF Finalize, StateType
<1>9. CASE RecordError(e)
  BY <1>0, <1>9 DEF RecordError, StateType
<1> QED
  BY <1>1, <1>2, <1>3, <1>4, <1>5, <1>6, <1>7, <1>8, <1>9, StepEffect

\* While a worker holds the lease of the cycle nobody else takes it, ends the cycle or commits
LEMMA HolderKept ==
  ASSUME Typed, Working, NEW e \in Execs, Step(e), NEW f \in Execs, e # f, pc[f] \in AtWork,
         state.owner = job[f].worker, state.live
  PROVE  \/ Reserve(e) /\ state.status \notin Active
         \/ /\ ~Reserve(e) /\ state'.owner = state.owner /\ state'.live
            /\ state.status \in Active => state'.status \in Active
<1>1. state.owner # 0
  BY WorkerPositive
<1>2. ~(Commit(e) /\ state.cycle = job[e].cycle /\ state.status = "FINALIZING")
  <2>1. SUFFICES ASSUME Commit(e) PROVE FALSE
    OBVIOUS
  <2>2. pc[e] \in WorkPcs /\ pc[e] \in AtWork
    BY <2>1 DEF Commit, WorkPcs, AtWork, BeforeError, ClosingPcs
  <2>3. state.owner = job[e].worker
    BY <2>2 DEF Working
  <2> QED
    BY <2>2, <2>3 DEF Typed, WorkersDiffer
<1>3. pc[e] \in AtWork => state.owner # job[e].worker
  BY DEF Typed, WorkersDiffer
<1>4. ~(Release(e) /\ state.owner = job[e].worker)
  BY <1>3 DEF Release, AtWork
<1>5. ~(RecordError(e) /\ state.owner = job[e].worker)
  BY <1>3 DEF RecordError, AtWork, BeforeError
<1>6. CASE Reserve(e)
  BY <1>6 DEF Reserve
<1>7. CASE ~Reserve(e)
  <2>1. state'.owner = state.owner /\ state'.live = state.live
    BY <1>1, <1>2, <1>4, <1>7, OwnerMoves
  <2>2. state.status \in Active => state'.status \in Active
    <3>1. state'.status = "SUCCESS" => state.status = "SUCCESS"
      <4>1. ASSUME state'.status = "SUCCESS", state.status # "SUCCESS" PROVE FALSE
        <5>1. Commit(e) /\ state.status = "FINALIZING" /\ state'.owner = 0
          BY <1>7, <4>1, StateFlow
        <5> QED
          BY <1>1, <2>1, <5>1
      <4> QED
        BY <4>1
    <3> QED
      BY <1>5, <1>7, <3>1, StateFlow DEF Active
  <2> QED
    BY <1>7, <2>1, <2>2
<1> QED
  BY <1>6, <1>7

\* Where a worker that needs the lease of the cycle was before its step
LEMMA WorkFlow ==
  ASSUME Typed, NEW e \in Execs, Step(e), pc'[e] \in WorkPcs
  PROVE  /\ Claim(e) \/ (pc[e] \in WorkPcs /\ job'[e].worker = job[e].worker)
         /\ ~Reserve(e) /\ ~Commit(e) /\ ~Release(e) /\ ~RecordError(e)
<1> USE DEF WorkPcs, EntityPcs
<1>1. ~Reserve(e) /\ ~Commit(e) /\ ~RecordError(e) /\ ~StarterFires(e) /\ ~Open(e)
      /\ ~RetryFires(e)
  BY JobAfter
<1>2. ~Release(e) /\ ~CommittedManifest(e) /\ ~ErrorManifest(e) /\ ~WaveFires(e) /\ ~Cleanup(e)
      /\ ~Enqueue(e) /\ ~Register(e) /\ ~Unqueue(e)
  BY JobKept
<1>3. ~Retry(e) /\ ~NoClaim(e) /\ ~Refused(e) /\ ~OpenManifest(e) /\ ~CommitCut(e)
      /\ ~RetryRemove(e) /\ ~Schedule(e) /\ ~Crash(e)
  BY JobKept
<1>4. pc'[e] \in AtWork
  BY DEF AtWork, BeforeError, ClosingPcs
<1>5. CASE Claim(e) \/ NextEntity(e) \/ Request(e) \/ Checkpoint(e) \/ Finalize(e)
  <2>1. Claim(e) \/ pc[e] \in WorkPcs
    BY <1>5, JobAfter
  <2> QED
    BY <1>1, <1>2, <1>4, <2>1, WorkerFlow
<1>6. CASE AcquireEntity(e) \/ Heartbeat(e) \/ Recover(e) \/ Store(e) \/ Describe(e)
        \/ EntityManifest(e) \/ ReleaseEntity(e) \/ FinalManifest(e) \/ LockFails(e)
  <2>1. pc[e] \in WorkPcs /\ SameJob(e)
    BY <1>6, JobKept
  <2> QED
    BY <1>1, <1>2, <2>1 DEF SameJob
<1> QED
  BY <1>1, <1>2, <1>3, <1>5, <1>6 DEF Step, Progress

\* A worker still has the lease of the cycle after a step
LEMMA WorkingStep ==
  ASSUME Typed, Working, NEW e \in Execs, Step(e)
  PROVE  Working'
<1> SUFFICES ASSUME NEW f \in Execs, pc'[f] \in WorkPcs
             PROVE  /\ state'.owner = job'[f].worker /\ state'.live /\ state'.status \in Active
                    /\ pc'[f] \notin {"wave", "finalize"} => job'[f].cycle = state'.cycle
  BY DEF Working
<1>1. CASE f # e
  <2>1. pc'[f] = pc[f] /\ job'[f] = job[f]
    BY <1>1, Moved
  <2>2. /\ state.owner = job[f].worker /\ state.live /\ state.status \in Active
        /\ pc[f] \notin {"wave", "finalize"} => job[f].cycle = state.cycle
    BY <2>1 DEF Working
  <2>3. pc[f] \in AtWork
    BY <2>1 DEF WorkPcs, AtWork, BeforeError, ClosingPcs
  <2>4. ~Reserve(e) /\ state'.owner = state.owner /\ state'.live /\ state'.status \in Active
    BY <1>1, <2>2, <2>3, HolderKept
  <2>5. state'.cycle = state.cycle
    BY <2>4, StateFlow DEF SameCycle
  <2> QED
    BY <2>1, <2>2, <2>4, <2>5
<1>2. CASE f = e
  <2>1. /\ Claim(e) \/ (pc[e] \in WorkPcs /\ job'[e].worker = job[e].worker)
        /\ ~Reserve(e) /\ ~Commit(e) /\ ~Release(e) /\ ~RecordError(e)
    BY <1>2, WorkFlow
  <2>2. state'.cycle = state.cycle
    BY <2>1, StateFlow DEF SameCycle
  <2>3. state.status \in Active => state'.status \in Active
    BY <2>1, StateFlow DEF Active
  <2>4. CASE Claim(e)
    <3>1. pc'[e] = "wave"
      BY <2>4, JobAfter
    <3>2. state.status = "RUNNING"
      BY <2>4 DEF Claim
    <3>3. state'.owner = lastWorker + 1 /\ state'.live
      BY <2>4 DEF Claim, Typed, TypeOK, StateType
    <3>4. job'[e].worker = lastWorker + 1
      BY <2>4, JobAfter
    <3> QED
      BY <1>2, <2>3, <3>1, <3>2, <3>3, <3>4 DEF Active
  <2>5. CASE ~Claim(e)
    <3>1. /\ state.owner = job[e].worker /\ state.live /\ state.status \in Active
          /\ pc[e] \notin {"wave", "finalize"} => job[e].cycle = state.cycle
      BY <2>1, <2>5 DEF Working
    <3>2. state'.owner = state.owner /\ state'.live = state.live
      BY <2>1, <2>5, OwnerMoves
    <3>3. ASSUME pc'[e] \notin {"wave", "finalize"} PROVE job'[e].cycle = state.cycle
      <4>1. CASE pc'[e] \in AtEntity
        <5>1. NextEntity(e) => job'[e].cycle = state.cycle
          BY <4>1, JobAfter DEF AtEntity, EntityPcs
        <5> QED
          BY <3>1, <4>1, <5>1, EntityFlow DEF AtEntity, EntityPcs
      <4>2. CASE pc'[e] = "finalManifest"
        BY <4>2, StageFlow, JobAfter
      <4>3. CASE pc'[e] = "commit"
        <5>1. FinalManifest(e)
          BY <4>3, StageFlow
        <5> QED
          BY <3>1, <5>1, JobKept DEF SameJob
      <4> QED
        BY <1>2, <3>3, <4>1, <4>2, <4>3 DEF WorkPcs, AtEntity
    <3> QED
      BY <1>2, <2>1, <2>2, <2>3, <2>5, <3>1, <3>2, <3>3
  <2> QED
    BY <2>4, <2>5
<1> QED
  BY <1>1, <1>2

\* The lease of the cycle of a worker that is still there has not expired
LEMMA OwnerLiveStep ==
  ASSUME Typed, OwnerLive, NEW e \in Execs, Step(e)
  PROVE  OwnerLive'
<1> SUFFICES ASSUME NEW f \in Execs, pc'[f] \in AtWork, state'.owner = job'[f].worker
             PROVE  state'.live
  BY DEF OwnerLive
<1>1. job'[f].worker # 0
  <2>1. JobShape'
    BY JobShapeStep
  <2> QED
    BY <2>1 DEF JobShape
<1>2. (state'.owner = state.owner /\ state'.live = state.live) \/ state'.live
  BY <1>1, OwnerMoves
<1>3. CASE ~state'.live
  <2>1. state'.owner = state.owner /\ state'.live = state.live
    BY <1>2, <1>3
  <2>2. ~Claim(e)
    BY <1>3 DEF Claim, Typed, TypeOK, StateType
  <2>3. pc[f] \in AtWork /\ job'[f].worker = job[f].worker
    <3>1. CASE f # e
      BY <3>1, Moved
    <3>2. CASE f = e
      BY <2>2, <3>2, WorkerFlow
    <3> QED
      BY <3>1, <3>2
  <2> QED
    BY <1>3, <2>1, <2>3 DEF OwnerLive
<1> QED
  BY <1>3

\* Taking a handoff off the queue queues nothing
LEMMA OthersQueued ==
  ASSUME Typed, NEW c, NEW d, NEW k \in 1..Len(Others(d)), Others(d)[k] = c
  PROVE  Queued(c)
<1> DEFINE S == {handoffs[m] : m \in 1..Len(handoffs)}
<1>1. handoffs \in Seq(Cycles)
  BY DEF Typed, TypeOK
<1>2. handoffs \in Seq(S)
  BY <1>1, ElementOfSeq, SeqDef, LenProperties
<1>3. Others(d) \in Seq(S)
  <2>1. CASE Queued(d)
    <3>1. (CHOOSE m \in 1..Len(handoffs) : handoffs[m] = d) \in 1..Len(handoffs)
      BY <2>1 DEF Queued
    <3> QED
      BY <1>2, <2>1, <3>1, WithoutOne DEF Others
  <2>2. CASE ~Queued(d)
    BY <1>2, <2>2 DEF Others
  <2> QED
    BY <2>1, <2>2
<1>4. Others(d)[k] \in S
  BY <1>3, ElementOfSeq
<1> QED
  BY <1>4 DEF Queued

\* A cycle is about to be queued only after the cleanup
LEMMA EnqueueFlow ==
  ASSUME Typed, NEW e \in Execs, Step(e), pc'[e] = "enqueue"
  PROVE  Cleanup(e)
<1>1. ~StarterFires(e) /\ ~Reserve(e) /\ ~Open(e) /\ ~Claim(e) /\ ~NextEntity(e) /\ ~Request(e)
      /\ ~Checkpoint(e) /\ ~Finalize(e) /\ ~Commit(e) /\ ~RetryFires(e) /\ ~RecordError(e)
  BY JobAfter
<1>2. ~EntityManifest(e) /\ ~FinalManifest(e) /\ ~CommittedManifest(e) /\ ~ErrorManifest(e)
      /\ ~WaveFires(e) /\ ~AcquireEntity(e) /\ ~Heartbeat(e) /\ ~Recover(e) /\ ~Store(e)
      /\ ~Describe(e) /\ ~ReleaseEntity(e) /\ ~Enqueue(e) /\ ~Register(e) /\ ~Unqueue(e)
      /\ ~Release(e)
  BY JobKept
<1>3. ~Retry(e) /\ ~NoClaim(e) /\ ~Refused(e) /\ ~OpenManifest(e) /\ ~CommitCut(e)
      /\ ~RetryRemove(e) /\ ~Schedule(e) /\ ~Crash(e) /\ ~LockFails(e)
  BY JobKept
<1> QED
  BY <1>1, <1>2, <1>3 DEF Step, Progress

\* A cycle in the queue was there before, or is that of the execution which queues it
LEMMA QueueFlow ==
  ASSUME Typed, NEW e \in Execs, Step(e), NEW c, Queued(c)'
  PROVE  Queued(c) \/ (pc[e] = "enqueue" /\ c = job[e].cycle)
<1>1. CASE handoffs' = handoffs
  BY <1>1 DEF Queued
<1>2. CASE handoffs' # handoffs
  <2>2. Enqueue(e) \/ handoffs' = Others(job[e].cycle)
    BY <1>2 DEF Step, Progress, StarterFires, WaveFires, RetryFires, CommitCut, Reserve, Refused,
       Open, OpenManifest, Claim, NoClaim, NextEntity, AcquireEntity, Heartbeat, Recover, Request,
       Store, Describe, Checkpoint, EntityManifest, ReleaseEntity, Finalize, FinalManifest, Commit,
       CommittedManifest, ManifestStep, Cleanup, Register, Unqueue, RecordError,
       ErrorManifest, Release, Schedule, Retry, RetryRemove, RegisterStep, LockFails, Crash,
       handoffVars
  <2>3. CASE Enqueue(e)
    <3>1. pc[e] = "enqueue" /\ handoffs' = Append(handoffs, job[e].cycle)
      BY <1>2, <2>3 DEF Enqueue
    <3>2. PICK k \in 1..Len(handoffs') : handoffs'[k] = c
      BY DEF Queued
    <3>3. handoffs \in Seq(Cycles)
      BY DEF Typed, TypeOK
    <3>4. (k \in 1..Len(handoffs) /\ handoffs[k] = c) \/ job[e].cycle = c
      BY <3>1, <3>2, <3>3
    <3> QED
      BY <3>1, <3>4 DEF Queued
  <2>4. CASE handoffs' = Others(job[e].cycle)
    BY <2>4, OthersQueued DEF Queued
  <2> QED
    BY <2>2, <2>3, <2>4
<1> QED
  BY <1>1, <1>2

\* An execution that is handing a cycle over knows which
LEMMA DoneCycle ==
  ASSUME Typed, NEW e \in Execs, pc[e] \in DonePcs \union {"enqueue"}
  PROVE  job[e].cycle \in Cycles
<1>1. job[e].cycle # 0 /\ job[e].cycle \in 0..MaxCycles /\ MaxCycles \in Nat
  BY Read DEF Typed, JobShape, InCycle, DonePcs
<1> QED
  BY <1>1 DEF Cycles

\* A cycle is newly to be handed over only by its commit
LEMMA HandedFlow ==
  ASSUME Typed, NEW e \in Execs, Step(e), NEW c, Handed(c)', ~Handed(c)
  PROVE  Commit(e) /\ pc'[e] = "committedManifest" /\ c = state.cycle /\ c = job[e].cycle
         /\ state.status = "FINALIZING"
<1>1. CASE Queued(c)'
  BY <1>1, QueueFlow DEF Handed
<1>2. CASE ~Queued(c)'
  <2>1. PICK f \in Execs : pc'[f] \in DonePcs \union {"enqueue"} /\ job'[f].cycle = c
    BY <1>2 DEF Handed
  <2>2. f = e
    <3>1. f # e => pc'[f] = pc[f] /\ job'[f] = job[f]
      BY Moved
    <3> QED
      BY <2>1, <3>1 DEF Handed
  <2>3. CASE pc'[e] = "committedManifest"
    <3>1. Commit(e)
      BY <2>3, StageFlow
    <3>2. state.cycle = job[e].cycle /\ state.status = "FINALIZING"
      BY <2>3, <3>1, FailEffect DEF Commit, Typed
    <3>3. job'[e].cycle = job[e].cycle
      BY <2>3, <3>1, JobAfter
    <3> QED
      BY <2>1, <2>2, <2>3, <3>1, <3>2, <3>3
  <2>4. CASE pc'[e] \in {"cleanup", "enqueue"}
    <3>1. pc[e] \in DonePcs /\ SameJob(e)
      BY <2>4, StageFlow, EnqueueFlow, JobKept DEF DonePcs
    <3> QED
      BY <2>1, <2>2, <3>1 DEF Handed, SameJob
  <2> QED
    BY <2>1, <2>2, <2>3, <2>4 DEF DonePcs
<1> QED
  BY <1>1, <1>2

\* A committed cycle stays committed, or past
LEMMA HandedDoneStep ==
  ASSUME Windowed, HandedDone, NEW e \in Execs, Step(e)
  PROVE  HandedDone'
<1>0. Typed
  BY DEF Windowed
<1> SUFFICES ASSUME NEW c \in Cycles, Handed(c)'
             PROVE  /\ c <= state'.cycle
                    /\ c = state'.cycle => state'.status = "SUCCESS" /\ state'.manifest
  BY DEF HandedDone
<1>1. c \in Nat /\ state.cycle \in Nat /\ state'.cycle \in Nat /\ state.cycle = lastCycle
  <2>1. state' \in StateType
    BY <1>0, StepTyped DEF TypeOK
  <2> QED
    BY <1>0, <2>1, Read, StateFields DEF Cycles, Typed, CycleBounds
<1>2. CASE Handed(c)
  <2>1. c <= state.cycle /\ (c = state.cycle => state.status = "SUCCESS" /\ state.manifest)
    BY <1>2 DEF HandedDone
  <2>2. CASE Reserve(e)
    <3>1. state'.cycle = lastCycle + 1
      BY <1>0, <2>2, Reserved
    <3> QED
      BY <1>1, <2>1, <3>1
  <2>3. CASE ~Reserve(e)
    BY <1>0, <2>1, <2>3, StatusMoves, StateFlow DEF SameCycle
  <2> QED
    BY <2>2, <2>3
<1>3. CASE ~Handed(c)
  <2>1. /\ Commit(e) /\ pc'[e] = "committedManifest" /\ c = state.cycle /\ c = job[e].cycle
        /\ state.status = "FINALIZING"
    BY <1>0, <1>3, HandedFlow
  <2>2. state' = [state EXCEPT !.status = "SUCCESS", !.owner = 0, !.live = FALSE]
    BY <2>1 DEF Commit
  <2>3. state'.status = "SUCCESS" /\ state'.cycle = state.cycle /\ state'.manifest = state.manifest
    BY <1>0, <2>2 DEF Typed, TypeOK, StateType
  <2>4. state.manifest
    BY <2>1 DEF Windowed, CommitReady, Commit
  <2>5. state'.manifest
    BY <2>3, <2>4, Zenon
  <2>6. c = state'.cycle
    BY <2>1, <2>3
  <2> QED
    BY <1>1, <2>3, <2>5, <2>6
<1> QED
  BY <1>2, <1>3

\* The manifest of an error is not that of a committed cycle after a step either
LEMMA ErrorFencedStep ==
  ASSUME Typed, Working, OwnerLive, HandedDone, ErrorFenced, NEW e \in Execs, Step(e)
  PROVE  ErrorFenced'
<1> SUFFICES ASSUME NEW f \in Execs, pc'[f] = "errorManifest"
             PROVE  /\ job'[f].cycle = state'.cycle =>
                         state'.owner = job'[f].worker \/ state'.status = "FAILED"
                    /\ \A c \in Cycles : job'[f].cycle = c => ~Handed(c)'
  BY DEF ErrorFenced
<1>1. CASE f # e
  <2>1. pc[f] = "errorManifest" /\ job'[f] = job[f]
    BY <1>1, Moved
  <2>2. /\ job[f].cycle = state.cycle => state.owner = job[f].worker \/ state.status = "FAILED"
        /\ \A c \in Cycles : job[f].cycle = c => ~Handed(c)
    BY <2>1 DEF ErrorFenced
  <2>3. pc[f] \in AtWork
    BY <2>1 DEF AtWork
  <2>4. ASSUME job[f].cycle = state'.cycle
        PROVE  state'.owner = job[f].worker \/ state'.status = "FAILED"
    <3>1. ~Reserve(e)
      <4>1. Reserve(e) => state'.cycle = lastCycle + 1
        BY Reserved
      <4>2. job[f].cycle <= lastCycle /\ lastCycle \in Nat /\ job[f].cycle \in Nat
        BY <2>1, Read DEF Typed, CycleBounds
      <4> QED
        BY <2>4, <4>1, <4>2
    <3>2. state'.cycle = state.cycle
      BY <3>1, StateFlow DEF SameCycle
    <3>3. CASE state.owner = job[f].worker
      BY <1>1, <2>3, <3>1, <3>3, HolderKept DEF OwnerLive
    <3>4. CASE state.status = "FAILED"
      BY <3>1, <3>4, StateFlow
    <3> QED
      BY <2>2, <2>4, <3>2, <3>3, <3>4
  <2>5. ASSUME NEW c \in Cycles, job[f].cycle = c, Handed(c)' PROVE FALSE
    <3>1. ~Handed(c)
      BY <2>2, <2>5
    <3>3. Commit(e) /\ c = state.cycle /\ state.status = "FINALIZING"
      BY <2>5, <3>1, HandedFlow
    <3>4. pc[e] \in WorkPcs /\ pc[e] \in AtWork
      BY <3>3 DEF Commit, WorkPcs, AtWork, BeforeError, ClosingPcs
    <3>5. state.owner = job[e].worker
      BY <3>4 DEF Working
    <3> QED
      BY <1>1, <2>2, <2>3, <2>5, <3>3, <3>4, <3>5 DEF Typed, WorkersDiffer
  <2> QED
    BY <2>1, <2>4, <2>5
<1>2. CASE f = e
  <2>1. RecordError(e)
    BY <1>2, StageFlow
  <2>2. /\ job'[e].cycle = state.cycle /\ job'[e].worker = job[e].worker
        /\ state.owner = job[e].worker
    BY <1>2, <2>1, JobAfter
  <2>3. state.status \in {"RUNNING", "FINALIZING"}
    BY <2>1, <2>2, AnotherAttempt
  <2>4. ~Reserve(e) /\ ~Claim(e) /\ ~Commit(e) /\ ~Release(e)
    BY <2>1 DEF RecordError, Reserve, Claim, Commit, Release
  <2>5. state'.owner = state.owner
    BY <2>4, OwnerMoves
  <2>6. ASSUME NEW c \in Cycles, c = state.cycle, Handed(c)' PROVE FALSE
    <3>1. Handed(c)
      BY <2>4, <2>6, HandedFlow
    <3> QED
      BY <2>3, <2>6, <3>1 DEF HandedDone
  <2> QED
    BY <1>2, <2>2, <2>5, <2>6
<1> QED
  BY <1>1, <1>2

\* No second execution is handing over a cycle that was just committed
LEMMA DoneApartStep ==
  ASSUME Windowed, DoneApart, NEW e \in Execs, Step(e)
  PROVE  DoneApart'
<1>0. Typed /\ Closing
  BY DEF Windowed
<1>1. ASSUME pc'[e] \in DonePcs
      PROVE  \/ pc[e] \in DonePcs /\ job'[e].cycle = job[e].cycle
             \/ state.status = "FINALIZING" /\ job'[e].cycle = state.cycle
  <2>1. CASE pc'[e] = "committedManifest"
    <3>1. Commit(e)
      BY <1>0, <2>1, StageFlow
    <3>2. state.cycle = job[e].cycle /\ state.status = "FINALIZING"
      BY <1>0, <2>1, <3>1, FailEffect DEF Commit, Typed
    <3>3. job'[e].cycle = job[e].cycle
      BY <1>0, <2>1, <3>1, JobAfter
    <3> QED
      BY <3>2, <3>3
  <2>2. CASE pc'[e] = "cleanup"
    BY <1>0, <2>2, StageFlow, JobKept DEF SameJob, DonePcs
  <2> QED
    BY <1>1, <2>1, <2>2 DEF DonePcs
<1>2. ASSUME NEW f \in Execs, f # e, pc'[f] \in DonePcs, pc'[e] \in DonePcs,
             job'[f].cycle = job'[e].cycle
      PROVE  FALSE
  <2>1. pc[f] \in DonePcs /\ job'[f] = job[f]
    BY <1>0, <1>2, Moved
  <2>2. job[f].cycle = state.cycle => state.status = "SUCCESS"
    BY <1>0, <2>1 DEF Closing, DonePcs
  <2> QED
    BY <1>1, <1>2, <2>1, <2>2 DEF DoneApart
<1>3. \A f, g \in Execs : f # e /\ g # e /\ pc'[f] \in DonePcs /\ pc'[g] \in DonePcs
                          /\ job'[f].cycle = job'[g].cycle => f = g
  BY <1>0, Moved DEF DoneApart
<1> QED
  BY <1>2, <1>3 DEF DoneApart

\* The metadata a committed manifest is made from stays until it is written
LEMMA DoneDescribedStep ==
  ASSUME Windowed, DoneApart, DoneDescribed, NEW e \in Execs, Step(e)
  PROVE  DoneDescribed'
<1>0. Typed /\ ClosingDescribed
  BY DEF Windowed
<1> SUFFICES ASSUME NEW f \in Execs, pc'[f] = "committedManifest"
             PROVE  job'[f].snap = "SUCCESS" /\ \A i \in Entities : <<job'[f].cycle, i>> \in meta'
  BY DEF DoneDescribed, Described
<1>1. CASE f # e
  <2>1. pc[f] = "committedManifest" /\ job'[f] = job[f]
    BY <1>0, <1>1, Moved
  <2>2. job[f].snap = "SUCCESS" /\ \A i \in Entities : <<job[f].cycle, i>> \in meta
    BY <2>1 DEF DoneDescribed, Described
  <2>3. CASE Cleanup(e)
    <3>1. job[e].cycle # job[f].cycle
      BY <1>1, <2>1, <2>3 DEF DoneApart, DonePcs, Cleanup
    <3> QED
      BY <2>1, <2>2, <2>3, <3>1 DEF Cleanup
  <2>4. CASE ~Cleanup(e)
    BY <2>1, <2>2, <2>4, StepEffect DEF Describe
  <2> QED
    BY <2>3, <2>4
<1>2. CASE f = e
  <2>1. Commit(e)
    BY <1>0, <1>2, StageFlow
  <2>2. /\ state.cycle = job[e].cycle /\ state.status = "FINALIZING"
        /\ job' = [job EXCEPT ![e].snap = "SUCCESS", ![e].recorded = state.manifest]
    BY <1>0, <1>2, <2>1, FailEffect DEF Commit, Typed
  <2>3. job'[e].snap = "SUCCESS" /\ job'[e].cycle = state.cycle
    BY <1>0, <2>2 DEF Typed, TypeOK, JobType
  <2>4. meta' = meta
    BY <2>1 DEF Commit
  <2>5. \A i \in Entities : <<state.cycle, i>> \in meta
    BY <1>0, <2>2 DEF ClosingDescribed
  <2> QED
    BY <1>2, <2>3, <2>4, <2>5
<1> QED
  BY <1>1, <1>2

\* Which executions write manifests
LEMMA Writers ==
  ASSUME NEW e \in Execs, Step(e), manifests' # manifests
  PROVE  /\ ManifestWritten(e)
         /\ \/ pc[e] = "openManifest" \/ pc[e] = "committedManifest" \/ pc[e] = "errorManifest"
            \/ pc[e] \in {"manifest", "finalManifest"}
<1>1. ManifestWritten(e)
  BY StepEffect
<1>2. OpenManifest(e) \/ EntityManifest(e) \/ FinalManifest(e) \/ CommittedManifest(e)
      \/ ErrorManifest(e)
  BY DEF Step, Progress, StarterFires, WaveFires, RetryFires, CommitCut, Reserve, Refused,
     Open, Claim, NoClaim, NextEntity, AcquireEntity, Heartbeat, Recover, Request, Store,
     Describe, Checkpoint, ReleaseEntity, Finalize, Commit, Cleanup, Enqueue, Register, Unqueue,
     RecordError, Release, Schedule, Retry, RetryRemove, RegisterStep, LockFails, Crash, driveVars
<1> QED
  BY <1>1, <1>2 DEF OpenManifest, EntityManifest, FinalManifest, CommittedManifest, ErrorManifest,
     ManifestStep

\* The manifest of a committed cycle
Whole == [status |-> "SUCCESS", evidence |-> Entities]

\* The manifest of a committed cycle is only overwritten with the same
LEMMA RegistrableKept ==
  ASSUME Typed, Working, HandedDone, ErrorFenced, DoneDescribed, StarterFresh,
         NEW e \in Execs, Step(e), NEW c \in Cycles, Handed(c), manifests[c] = Whole
  PROVE  manifests'[c] = Whole
<1>0. manifests \in [Cycles -> ManifestType]
  BY DEF Typed, TypeOK
<1>1. CASE manifests' = manifests
  BY <1>1
<1>2. CASE manifests' # manifests
  <2>1. /\ ManifestWritten(e)
        /\ \/ pc[e] = "openManifest" \/ pc[e] = "committedManifest" \/ pc[e] = "errorManifest"
           \/ pc[e] \in {"manifest", "finalManifest"}
    BY <1>2, Writers
  <2>2. manifests' = [manifests EXCEPT ![job[e].cycle] = Manifest(e)]
    BY <2>1 DEF ManifestWritten
  <2>3. CASE job[e].cycle # c
    BY <1>0, <2>2, <2>3
  <2>4. CASE job[e].cycle = c
    <3>1. c = state.cycle => state.status = "SUCCESS" /\ state.manifest
      BY DEF HandedDone
    <3>2. job[e].recorded
      BY <2>1, <2>4, <3>1 DEF ManifestWritten
    <3>3. pc[e] # "openManifest"
      BY <3>2 DEF StarterFresh, StarterPcs
    <3>4. pc[e] # "errorManifest"
      BY <2>4 DEF ErrorFenced
    <3>5. pc[e] \notin {"manifest", "finalManifest"}
      <4>1. SUFFICES ASSUME pc[e] \in {"manifest", "finalManifest"} PROVE FALSE
        OBVIOUS
      <4>2. pc[e] \in WorkPcs /\ pc[e] \notin {"wave", "finalize"}
        BY <4>1 DEF WorkPcs, EntityPcs
      <4>3. state.status \in Active /\ job[e].cycle = state.cycle
        BY <4>2 DEF Working
      <4> QED
        BY <2>4, <3>1, <4>3 DEF Active
    <3>6. pc[e] = "committedManifest"
      BY <2>1, <3>3, <3>4, <3>5
    <3>7. Manifest(e) = Whole
      BY <3>6 DEF Manifest, DoneDescribed, Whole
    <3> QED
      BY <1>0, <2>2, <2>4, <3>7
  <2> QED
    BY <2>3, <2>4
<1> QED
  BY <1>1, <1>2

\* What is queued has its manifest after a step
LEMMA HandedReadyStep ==
  ASSUME Typed, Working, HandedDone, ErrorFenced, DoneDescribed, HandedReady, StarterFresh,
         NEW e \in Execs, Step(e)
  PROVE  HandedReady'
<1>0. handoffs \in Seq(Cycles) /\ manifests \in [Cycles -> ManifestType]
  BY DEF Typed, TypeOK
<1>1. ASSUME NEW f \in Execs, pc'[f] \in {"cleanup", "enqueue"}
      PROVE  manifests'[job'[f].cycle] = Whole
  <2>1. ASSUME pc[f] \in {"cleanup", "enqueue"}, job'[f].cycle = job[f].cycle
        PROVE  manifests'[job'[f].cycle] = Whole
    <3>1. PICK c \in Cycles : c = job[f].cycle
      BY <2>1, DoneCycle DEF DonePcs
    <3>2. Handed(c)
      BY <2>1, <3>1 DEF Handed, DonePcs
    <3>3. manifests[c] = Whole
      BY <2>1, <3>1 DEF HandedReady, Registrable, Whole
    <3> QED
      BY <2>1, <3>1, <3>2, <3>3, RegistrableKept
  <2>2. CASE f # e
    <3>1. pc'[f] = pc[f] /\ job'[f] = job[f]
      BY <2>2, Moved
    <3> QED
      BY <1>1, <2>1, <3>1
  <2>3. CASE f = e /\ pc'[e] = "enqueue"
    <3>1. pc[e] = "cleanup" /\ job'[e].cycle = job[e].cycle
      BY <2>3, EnqueueFlow, JobKept DEF SameJob
    <3> QED
      BY <2>1, <2>3, <3>1
  <2>4. CASE f = e /\ pc'[e] = "cleanup"
    <3>1. CommittedManifest(e)
      BY <2>4, StageFlow
    <3>2. pc[e] = "committedManifest" /\ ManifestWritten(e) /\ job' = job
      BY <2>4, <3>1, FailEffect DEF CommittedManifest, ManifestStep, Typed
    <3>3. manifests' = [manifests EXCEPT ![job[e].cycle] = Manifest(e)]
      BY <3>2 DEF ManifestWritten
    <3>4. Manifest(e) = Whole
      BY <3>2 DEF Manifest, DoneDescribed, Whole
    <3>5. job[e].cycle \in Cycles
      BY <3>2, DoneCycle DEF DonePcs
    <3> QED
      BY <1>0, <2>4, <3>2, <3>3, <3>4, <3>5
  <2> QED
    BY <1>1, <2>2, <2>3, <2>4
<1>2. ASSUME NEW k \in 1..Len(handoffs') PROVE manifests'[handoffs'[k]] = Whole
  <2>1. PICK c \in Cycles : c = handoffs'[k]
    <3>1. handoffs' \in Seq(Cycles)
      BY StepTyped DEF TypeOK
    <3> QED
      BY <3>1, ElementOfSeq
  <2>2. Queued(c)'
    BY <2>1 DEF Queued
  <2>3. Queued(c) \/ (pc[e] = "enqueue" /\ c = job[e].cycle)
    BY <2>2, QueueFlow
  <2>4. Handed(c) /\ manifests[c] = Whole
    BY <2>3 DEF Handed, Queued, HandedReady, Registrable, Whole
  <2> QED
    BY <2>1, <2>4, RegistrableKept
<1> QED
  BY <1>1, <1>2 DEF HandedReady, Registrable, Whole

\* The stages of a starter follow one another
LEMMA StarterFlow ==
  ASSUME Typed, NEW e \in Execs, Step(e), pc'[e] \in StarterPcs
  PROVE  StarterFires(e) \/ Reserve(e) \/ Open(e)
<1> USE DEF StarterPcs
<1>1. ~Claim(e) /\ ~NextEntity(e) /\ ~Request(e) /\ ~Checkpoint(e) /\ ~Finalize(e) /\ ~Commit(e)
      /\ ~RetryFires(e) /\ ~RecordError(e)
  BY JobAfter
<1>2. ~EntityManifest(e) /\ ~FinalManifest(e) /\ ~CommittedManifest(e) /\ ~ErrorManifest(e)
      /\ ~WaveFires(e) /\ ~AcquireEntity(e) /\ ~Heartbeat(e) /\ ~Recover(e) /\ ~Store(e)
      /\ ~Describe(e) /\ ~ReleaseEntity(e) /\ ~Enqueue(e) /\ ~Register(e) /\ ~Unqueue(e)
      /\ ~Release(e) /\ ~Cleanup(e)
  BY JobKept
<1>3. ~Retry(e) /\ ~NoClaim(e) /\ ~Refused(e) /\ ~OpenManifest(e) /\ ~CommitCut(e)
      /\ ~RetryRemove(e) /\ ~Schedule(e) /\ ~Crash(e) /\ ~LockFails(e)
  BY JobKept
<1> QED
  BY <1>1, <1>2, <1>3 DEF Step, Progress

\* A starter still has no recorded manifest
LEMMA StarterFreshStep ==
  ASSUME Typed, StarterFresh, NEW e \in Execs, Step(e)
  PROVE  StarterFresh'
<1> SUFFICES ASSUME NEW f \in Execs, pc'[f] \in StarterPcs PROVE ~job'[f].recorded
  BY DEF StarterFresh
<1>1. CASE f # e
  BY <1>1, Moved DEF StarterFresh
<1>2. CASE f = e
  <2>0. job \in [Execs -> JobType] /\ pc \in [Execs -> Pcs]
    BY DEF Typed, TypeOK
  <2>1. CASE StarterFires(e)
    BY <1>2, <2>0, <2>1 DEF StarterFires, NoJob
  <2>2. CASE Reserve(e)
    <3>1. job'[e] = [job[e] EXCEPT !.cycle = lastCycle + 1] /\ pc[e] \in StarterPcs
      BY <2>0, <2>2 DEF Reserve, StarterPcs
    <3> QED
      BY <1>2, <2>0, <3>1 DEF StarterFresh, JobType
  <2>3. CASE Open(e)
    <3>1. pc[e] \in StarterPcs
      BY <2>3 DEF Open, StarterPcs
    <3>2. job'[e] = [job[e] EXCEPT !.snap = "RUNNING"] \/ job'[e] = NoJob
      BY <2>0, <2>3 DEF Open, End
    <3> QED
      BY <1>2, <2>0, <3>1, <3>2 DEF StarterFresh, JobType, NoJob
  <2>4. CASE ~StarterFires(e) /\ ~Reserve(e) /\ ~Open(e)
    BY <1>2, <2>4, StarterFlow
  <2> QED
    BY <2>1, <2>2, <2>3, <2>4
<1> QED
  BY <1>1, <1>2

\* A lease of the cycle that expires was that of a worker that is gone, or outlasted it
LEMMA EnvironmentHanding ==
  ASSUME Windowed, Handing, Environment \/ UNCHANGED vars
  PROVE  Handing'
<1>0. Typed
  BY DEF Windowed
<1>1. UNCHANGED faultVars \/ \E k \in HazardKinds : Charge(k)
  BY DEF Environment, ExpireWorker, ExpireEntity, Pause, Resume, Remove, Install, ResumeCycle,
         Expires, vars, HazardKinds
<1>2. pc' = pc /\ job' = job /\ meta' = meta /\ manifests' = manifests /\ handoffs' = handoffs
  BY DEF Environment, ExpireWorker, ExpireEntity, Pause, Resume, Remove, Install, ResumeCycle,
         vars, driveVars, handoffVars
<1> SUFFICES ASSUME ~outlasted'
             PROVE  /\ Working' /\ OwnerLive' /\ HandedDone' /\ ErrorFenced' /\ DoneApart'
                    /\ DoneDescribed' /\ HandedReady' /\ StarterFresh'
  BY DEF Handing
<1>3. ~outlasted
  BY <1>0, <1>1 DEF faultVars, Charge, Typed, TypeOK
<1>4. /\ Working /\ OwnerLive /\ HandedDone /\ ErrorFenced /\ DoneApart
      /\ DoneDescribed /\ HandedReady /\ StarterFresh
  BY <1>3 DEF Handing
<1>5. \/ state' = state
      \/ ~Alive(state.owner) /\ state' = [state EXCEPT !.live = FALSE]
  <2>1. CASE ExpireWorker
    <3>1. Expires(state.owner) /\ state' = [state EXCEPT !.live = FALSE]
      BY <2>1 DEF ExpireWorker
    <3> QED
      BY <3>1 DEF Expires, Charge
  <2>2. CASE ~ExpireWorker
    BY <2>2 DEF Environment, ExpireEntity, Pause, Resume, Remove, Install, ResumeCycle, vars,
       controlVars
  <2> QED
    BY <2>1, <2>2
<1>6. /\ state'.cycle = state.cycle /\ state'.status = state.status /\ state'.owner = state.owner
      /\ state'.manifest = state.manifest
      /\ state'.live = state.live \/ ~Alive(state.owner)
  BY <1>0, <1>5 DEF Typed, TypeOK, StateType
<1>7. DoneApart' /\ DoneDescribed' /\ HandedReady' /\ StarterFresh'
  BY <1>2, <1>4 DEF DoneApart, DoneDescribed, Described, HandedReady, Registrable, StarterFresh
<1>8. \A c : Handed(c)' <=> Handed(c)
  BY <1>2 DEF Handed, Queued
<1>9. HandedDone' /\ ErrorFenced'
  BY <1>2, <1>4, <1>6, <1>8 DEF HandedDone, ErrorFenced
<1>10. Working' /\ OwnerLive'
  <2>1. ASSUME NEW f \in Execs, pc[f] \in AtWork \union WorkPcs, state.owner = job[f].worker
        PROVE  state'.live = state.live
    <3>1. pc[f] # "idle"
      BY <2>1 DEF AtWork, BeforeError, WorkPcs, EntityPcs, ClosingPcs
    <3> QED
      BY <1>6, <2>1, <3>1 DEF Alive
  <2> QED
    BY <1>2, <1>4, <1>6, <2>1 DEF Working, OwnerLive
<1> QED
  BY <1>7, <1>9, <1>10

\* At the start nothing is handed over
LEMMA InitHanding ==
  ASSUME Init
  PROVE  Handing
<1>1. ASSUME NEW e \in Execs PROVE pc[e] = "idle"
  BY DEF Init
<1>2. handoffs = <<>> /\ Len(handoffs) = 0
  BY EmptySeq DEF Init
<1>3. Working /\ OwnerLive /\ ErrorFenced /\ DoneApart /\ DoneDescribed /\ StarterFresh
  BY <1>1 DEF Working, OwnerLive, ErrorFenced, DoneApart, DoneDescribed, StarterFresh, WorkPcs,
     DonePcs, AtWork, BeforeError, EntityPcs, ClosingPcs, StarterPcs
<1>4. HandedDone /\ HandedReady
  BY <1>1, <1>2 DEF HandedDone, HandedReady, Handed, Queued, DonePcs
<1> QED
  BY <1>3, <1>4 DEF Handing

\* A queued handoff names a committed manifest with all its evidence, whatever fails and
\* whoever writes a manifest at the same time, as long as no live worker outlasts its lease
THEOREM HandoffCorrect == Spec => []HandoffRegistrable
<1>1. Init => Handing
  BY InitHanding
<1>2. Windowed /\ Handing /\ [Next]_vars => Handing'
  <2> SUFFICES ASSUME Windowed, Handing, [Next]_vars PROVE Handing'
    OBVIOUS
  <2>1. ASSUME NEW e \in Execs, Step(e), ~outlasted'
        PROVE  /\ Working' /\ OwnerLive' /\ HandedDone' /\ ErrorFenced' /\ DoneApart'
               /\ DoneDescribed' /\ HandedReady' /\ StarterFresh'
    <3>1. Typed
      BY DEF Windowed
    <3>2. /\ Working /\ OwnerLive /\ HandedDone /\ ErrorFenced /\ DoneApart
          /\ DoneDescribed /\ HandedReady /\ StarterFresh
      BY <2>1, <3>1, OutlastedKept DEF Handing
    <3> QED
      BY <2>1, <3>1, <3>2, WorkingStep, OwnerLiveStep, HandedDoneStep, ErrorFencedStep,
         DoneApartStep, DoneDescribedStep, HandedReadyStep, StarterFreshStep
  <2>2. CASE Environment \/ UNCHANGED vars
    BY <2>2, EnvironmentHanding
  <2> QED
    BY <2>1, <2>2 DEF Next, Handing
<1>3. Handing => HandoffRegistrable
  BY DEF Handing, HandedReady, HandoffRegistrable
<1> QED
  BY <1>1, <1>2, <1>3, WindowedInvariant, PTL DEF Spec

-----------------------------------------------------------------------------
(* The promise of Acquisition *)

\* An execution comes to hand a cycle over by its commit, or by taking one off the queue
LEMMA HandoffFlow ==
  ASSUME Typed, NEW e \in Execs, Step(e), pc'[e] \in HandoffPcs
  PROVE  \/ pc[e] \in HandoffPcs /\ job'[e].cycle = job[e].cycle
         \/ /\ Commit(e) /\ pc'[e] = "committedManifest"
            /\ job[e].cycle = state.cycle /\ state.status = "FINALIZING"
            /\ job'[e].cycle = job[e].cycle
         \/ RetryFires(e) /\ job'[e].cycle = Head(handoffs) /\ handoffs # <<>>
<1> USE DEF HandoffPcs, SameJob
<1>1. CASE StarterFires(e) \/ Reserve(e) \/ Open(e) \/ Claim(e) \/ NextEntity(e) \/ Request(e)
  BY <1>1, JobAfter
<1>2. CASE Checkpoint(e) \/ Finalize(e) \/ RecordError(e)
  BY <1>2, JobAfter
<1>3. CASE Commit(e)
  <2>1. pc'[e] = "committedManifest" /\ job'[e].cycle = job[e].cycle
    BY <1>3, JobAfter
  <2>2. CASE state.cycle = job[e].cycle /\ state.status = "FINALIZING"
    BY <1>3, <2>1, <2>2
  <2>3. CASE ~(state.cycle = job[e].cycle /\ state.status = "FINALIZING")
    <3>1. pc' = [pc EXCEPT ![e] = "recordError"]
      BY <1>3, <2>3 DEF Commit, Fail, Goto
    <3> QED
      BY <2>1, <3>1 DEF Typed, TypeOK
  <2> QED
    BY <2>2, <2>3
<1>4. CASE RetryFires(e)
  BY <1>4, JobAfter DEF RetryFires
<1>5. CASE EntityManifest(e) \/ FinalManifest(e) \/ CommittedManifest(e) \/ ErrorManifest(e)
        \/ WaveFires(e) \/ AcquireEntity(e)
  BY <1>5, JobKept
<1>6. CASE Heartbeat(e) \/ Recover(e) \/ Store(e) \/ Describe(e) \/ ReleaseEntity(e)
  BY <1>6, JobKept
<1>7. CASE Cleanup(e) \/ Enqueue(e) \/ Register(e) \/ Unqueue(e) \/ Release(e)
  BY <1>7, JobKept
<1>8. CASE Retry(e) \/ LockFails(e) \/ NoClaim(e) \/ Refused(e)
  BY <1>8, JobKept
<1>9. CASE OpenManifest(e) \/ CommitCut(e) \/ RetryRemove(e) \/ Schedule(e) \/ Crash(e)
  BY <1>9, JobKept
<1> QED
  BY <1>1, <1>2, <1>3, <1>4, <1>5, <1>6, <1>7, <1>8, <1>9 DEF Step, Progress

\* A cycle is newly promised only by its commit
LEMMA PromisedMoves ==
  ASSUME Typed, NEW e \in Execs, Step(e), NEW c \in Promised', c \notin Promised
  PROVE  Commit(e) /\ c = state.cycle /\ state.status = "FINALIZING" /\ job[e].cycle = c
<1>1. c \in Cycles
  BY DEF Promised
<1>2. ASSUME c = state'.cycle, state'.status = "SUCCESS"
      PROVE  Commit(e) /\ c = state.cycle /\ state.status = "FINALIZING" /\ job[e].cycle = c
  <2>1. ~Reserve(e)
    BY <1>2, Reserved
  <2>2. state.status # "SUCCESS" /\ c = state.cycle
    BY <1>1, <1>2, <2>1, StateFlow DEF Promised, SameCycle
  <2>3. Commit(e) /\ state.status = "FINALIZING"
    BY <1>2, <2>1, <2>2, StateFlow
  <2>4. job[e].cycle = state.cycle
    BY <1>2, <2>2, <2>3 DEF Commit, Fail
  <2> QED
    BY <2>2, <2>3, <2>4
<1>3. ASSUME Queued(c)'
      PROVE  FALSE
  <2>1. ~Queued(c)
    BY <1>1 DEF Promised
  <2>2. pc[e] = "enqueue" /\ c = job[e].cycle
    BY <1>3, <2>1, QueueFlow
  <2> QED
    BY <1>1, <2>2 DEF Promised, HandoffPcs
<1>4. ASSUME NEW f \in Execs, pc'[f] \in HandoffPcs, job'[f].cycle = c
      PROVE  Commit(e) /\ c = state.cycle /\ state.status = "FINALIZING" /\ job[e].cycle = c
  <2>1. f = e
    BY <1>1, <1>4, Moved DEF Promised
  <2>2. ~(pc[e] \in HandoffPcs /\ job[e].cycle = c)
    BY <1>1 DEF Promised
  <2>3. ~(RetryFires(e) /\ c = Head(handoffs) /\ handoffs # <<>>)
    <3>1. handoffs # <<>> => Len(handoffs) >= 1 /\ Head(handoffs) = handoffs[1]
      BY LenProperties, EmptySeq DEF Typed, TypeOK
    <3> QED
      BY <1>1, <3>1 DEF Promised, Queued
  <2> QED
    BY <1>4, <2>1, <2>2, <2>3, HandoffFlow
<1> QED
  BY <1>2, <1>3, <1>4 DEF Promised

\* Until it is handed over, what is promised stays so but for the execution that drops it
LEMMA PromisedKept ==
  ASSUME Typed, NEW e \in Execs, Step(e), UNCHANGED <<state, handoffs>>,
         pc[e] \in HandoffPcs => pc'[e] \in HandoffPcs /\ job'[e].cycle = job[e].cycle,
         NEW c \in Promised
  PROVE  c \in Promised'
<1>1. c \in Cycles
  BY DEF Promised
<1>2. ASSUME NEW f \in Execs, pc[f] \in HandoffPcs, job[f].cycle = c
      PROVE  pc'[f] \in HandoffPcs /\ job'[f].cycle = c
  BY <1>2, Moved
<1> QED
  BY <1>1, <1>2 DEF Promised, Queued

\* The parts of the state Acquisition does not see change in a step that keeps those it sees
LEMMA WindowKept ==
  ASSUME Typed, NEW e \in Execs, Step(e), ~Reserve(e)
  PROVE  /\ state'.cycle = state.cycle
         /\ [from |-> state'.from, to |-> state'.to] = [from |-> state.from, to |-> state.to]
  BY StateFlow DEF SameCycle

-----------------------------------------------------------------------------
(* Every step of an execution is one of Acquisition *)

\* The reservation of a cycle opens it, with the window its starter built
LEMMA ReserveOpens ==
  ASSUME Windowed, NEW e \in Execs, Step(e), Reserve(e)
  PROVE  Abstract!Open
<1>1. Typed /\ StarterWindow
  BY DEF Windowed
<1>2. /\ state'.cycle = state.cycle + 1 /\ state'.status = "INITIALIZING"
      /\ state'.from = job[e].from /\ state'.to = job[e].to
      /\ pc[e] = "reserve" /\ job[e].seen = lastCycle /\ state.status \notin Active
  BY <1>1, Reserved DEF Typed, CycleBounds
<1>3. /\ job[e].from \in Nat /\ job[e].to \in Nat
      /\ job[e].from <= watermark /\ watermark <= job[e].to
  BY <1>1, <1>2, Read DEF StarterWindow
<1>4. UNCHANGED <<watermark, files, registered>>
  BY DEF Reserve, driveVars, handoffVars
<1>5. Promised' \subseteq Promised
  <2>1. ~Commit(e)
    BY <1>2 DEF Commit
  <2> QED
    BY <1>1, <2>1, PromisedMoves
<1>6. state'.status \in Active
  BY <1>2 DEF Active
<1> QED
  BY <1>2, <1>3, <1>4, <1>5, <1>6 DEF Abstract!Open

\* Storing evidence gathers it
LEMMA StoreGathers ==
  ASSUME Windowed, NEW e \in Execs, Step(e), Store(e)
  PROVE  Abstract!Gather
<1>1. Typed /\ FileWindow' /\ Typed'
  BY FileWindowStep, StepTyped, CycleBoundsStep, JobShapeStep, WorkersDifferStep, OwnerShapeStep,
     AttemptsLeftStep DEF Typed, Windowed
<1>2. UNCHANGED <<state, watermark, registered>>
  BY DEF Store, controlVars, handoffVars
<1>3. Promised' \subseteq Promised
  <2>1. ~Commit(e)
    BY DEF Commit, Store
  <2> QED
    BY <1>1, <2>1, PromisedMoves
<1>4. files \subseteq files'
  BY <1>1, FilesGrow
<1>5. ASSUME NEW f \in files', f \notin files
      PROVE  /\ f.cycle \in 1..state.cycle /\ f.entity \in Entities
             /\ f.from \in Nat /\ f.to \in Nat
             /\ f.cycle = state.cycle => f.from = state.from /\ state.to <= f.to
  <2>1. f.cycle \in Cycles /\ f.entity \in Entities /\ f.from \in Nat /\ f.to \in Nat
    BY <1>1 DEF Typed, TypeOK, FileType
  <2>2. f.cycle <= lastCycle' /\ lastCycle' = state'.cycle
    BY <1>1 DEF Typed, CycleBounds
  <2>3. f.cycle = state'.cycle => f.from = state'.from /\ state'.to <= f.to
    BY <1>1 DEF FileWindow
  <2>4. f.cycle \in 1..state'.cycle
    BY <1>1, <2>1, <2>2, StateFields DEF Cycles, Typed, TypeOK
  <2> QED
    BY <1>2, <2>1, <2>3, <2>4
<1>6. \A f \in {g \in files' : g.whole} \ {g \in files : g.whole} :
        /\ f.cycle \in 1..state.cycle /\ f.entity \in Entities /\ f.from \in Nat /\ f.to \in Nat
        /\ f.cycle = state.cycle => f.from = state.from /\ state.to <= f.to
  BY <1>5
<1>7. {g \in files : g.whole} \subseteq {g \in files' : g.whole}
  BY <1>4
<1> QED
  BY <1>2, <1>3, <1>6, <1>7 DEF Abstract!Gather

\* The commit of a cycle, also one that is cut between its two properties, commits it with
\* the evidence of every entity
LEMMA CommitCommits ==
  ASSUME Windowed, NEW e \in Execs, Step(e), Commit(e) \/ CommitCut(e),
         state.cycle = job[e].cycle, state.status = "FINALIZING"
  PROVE  Abstract!Commit
<1>1. Typed /\ MetaEvidenced /\ ClosingDescribed
  BY DEF Windowed
<1>2. /\ watermark' = state.to /\ UNCHANGED <<files, registered, handoffs>>
      /\ state' = state \/ state' = [state EXCEPT !.status = "SUCCESS", !.owner = 0, !.live = FALSE]
      /\ CommitCut(e) => state' = state
      /\ Commit(e) => state' = [state EXCEPT !.status = "SUCCESS", !.owner = 0, !.live = FALSE]
  BY DEF Commit, CommitCut, driveVars, handoffVars
<1>3. /\ state'.cycle = state.cycle /\ state'.from = state.from /\ state'.to = state.to
      /\ Commit(e) => state'.status = "SUCCESS"
  BY <1>1, <1>2 DEF Typed, TypeOK, StateType
<1>4. Abstract!Gathered(state.cycle)
  <2> SUFFICES ASSUME NEW i \in Entities
               PROVE  \E f \in {g \in files : g.whole} : f.cycle = state.cycle /\ f.entity = i
    BY DEF Abstract!Gathered
  <2>1. <<state.cycle, i>> \in meta
    BY <1>1 DEF ClosingDescribed
  <2>2. Evidenced(state.cycle, i)
    BY <1>1, <2>1 DEF MetaEvidenced
  <2> QED
    BY <2>2 DEF Evidenced
<1>5. state.status \in Active
  BY DEF Active
<1>6. CASE Commit(e)
  <2>1. Promised' \subseteq Promised \union {state.cycle}
    BY <1>1, PromisedMoves
  <2>2. state.cycle \in Promised'
    <3>1. state.cycle \in Cycles
      BY <1>1, <1>5, StateFields DEF Typed, TypeOK, CycleBounds, Cycles
    <3> QED
      BY <1>3, <1>6, <3>1 DEF Promised
  <2>3. Promised \subseteq Promised'
    <3> SUFFICES ASSUME NEW c \in Promised PROVE c \in Promised'
      OBVIOUS
    <3>1. c \in Cycles
      BY DEF Promised
    <3>2. ASSUME NEW f \in Execs, pc[f] \in HandoffPcs, job[f].cycle = c
          PROVE  pc'[f] \in HandoffPcs /\ job'[f].cycle = c
      BY <1>1, <1>6, <3>2, Moved DEF Commit, HandoffPcs
    <3> QED
      BY <1>2, <3>1, <3>2 DEF Promised, Queued
  <2>4. state'.status \notin Active
    BY <1>3, <1>6 DEF Active
  <2> QED
    BY <1>2, <1>3, <1>4, <1>5, <2>1, <2>2, <2>3, <2>4 DEF Abstract!Commit
<1>7. CASE CommitCut(e)
  <2>1. ~Commit(e)
    BY <1>1, <1>7, JobAfter, JobKept
  <2>2. Promised' \subseteq Promised
    BY <1>1, <2>1, PromisedMoves
  <2> QED
    BY <1>2, <1>4, <1>5, <1>7, <2>2 DEF Abstract!Commit
<1> QED
  BY <1>6, <1>7

\* A cycle is given up when its attempts are used up
LEMMA RecordAbandons ==
  ASSUME Windowed, NEW e \in Execs, Step(e), RecordError(e)
  PROVE  Abstract!Abandon \/ Abstract!Forget
<1>1. Typed
  BY DEF Windowed
<1>2. UNCHANGED <<watermark, files, registered>>
  BY DEF RecordError, driveVars, handoffVars
<1>3. Promised' \subseteq Promised
  <2>1. ~Commit(e)
    BY DEF Commit, RecordError
  <2> QED
    BY <1>1, <2>1, PromisedMoves
<1>4. ~Reserve(e)
  BY DEF Reserve, RecordError
<1>5. CASE state.owner = job[e].worker
  <2>1. state.status \in Active
    BY <1>1, <1>5, AnotherAttempt DEF Active
  <2>2. state'.status = state.status \/ state'.status = "FAILED"
    <3>1. ~Open(e) /\ ~Finalize(e) /\ ~Commit(e)
      BY DEF Open, Finalize, Commit, RecordError
    <3> QED
      BY <1>1, <1>4, <3>1, StateFlow
  <2>3. "FAILED" \notin Active
    BY DEF Active
  <2> QED
    BY <1>1, <1>2, <1>3, <1>4, <2>1, <2>2, <2>3, WindowKept DEF Abstract!Abandon, Abstract!Forget
<1>6. CASE state.owner # job[e].worker
  <2>1. state' = state
    BY <1>6 DEF RecordError
  <2> QED
    BY <1>2, <1>3, <2>1 DEF Abstract!Forget
<1> QED
  BY <1>5, <1>6

\* A registration hands a committed cycle over
LEMMA RegisterHandsOver ==
  ASSUME Windowed, NEW e \in Execs, Step(e), registered' # registered
  PROVE  Abstract!HandOver
<1>1. Typed
  BY DEF Windowed
<1>2. /\ registered' = registered \union {job[e].cycle} /\ pc[e] \in HandoffPcs
      /\ UNCHANGED <<state, watermark, files, handoffs, job>>
      /\ pc'[e] \in HandoffPcs
  <2>1. RegisterStep(e, "register", "unqueue", "release")
        \/ RegisterStep(e, "retry", "retryRemove", "idle")
    BY StepEffect
  <2> QED
    BY <1>1, <2>1 DEF RegisterStep, Goto, HandoffPcs, controlVars, driveVars, Typed, TypeOK
<1>3. job[e].cycle \in Cycles
  <2>1. pc[e] \in InCycle
    BY <1>2 DEF HandoffPcs, InCycle
  <2>2. job[e].cycle # 0 /\ job[e].cycle \in 0..MaxCycles /\ MaxCycles \in Nat
    BY <1>1, <2>1, Read DEF Typed, JobShape
  <2> QED
    BY <2>2 DEF Cycles
<1>4. job[e].cycle \in Promised
  BY <1>2, <1>3 DEF Promised
<1>5. Promised' = Promised
  <2>1. ~Commit(e)
    BY <1>2 DEF Commit, HandoffPcs
  <2>2. Promised' \subseteq Promised
    BY <1>1, <2>1, PromisedMoves
  <2>3. ASSUME NEW c \in Promised PROVE c \in Promised'
    BY <1>1, <1>2, <2>3, PromisedKept
  <2> QED
    BY <2>2, <2>3
<1> QED
  BY <1>2, <1>4, <1>5 DEF Abstract!HandOver

\* Every other step leaves the acquisition alone, or drops a handoff
LEMMA OthersForget ==
  ASSUME Windowed, NEW e \in Execs, Step(e), ~Reserve(e), ~Store(e), ~RecordError(e),
         ~(/\ Commit(e) \/ CommitCut(e)
           /\ state.cycle = job[e].cycle /\ state.status = "FINALIZING"),
         registered' = registered
  PROVE  Abstract!Forget
<1>1. Typed
  BY DEF Windowed
<1>2. watermark' = watermark
  BY <1>1, WatermarkMoves
<1>3. files' = files
  BY StepEffect
<1>4. Promised' \subseteq Promised
  BY <1>1, PromisedMoves
<1>5. (state'.status \in Active) = (state.status \in Active)
  <2>1. \/ state'.status = state.status
        \/ state.status = "INITIALIZING" /\ state'.status = "RUNNING"
        \/ state.status = "RUNNING" /\ state'.status = "FINALIZING"
        \/ Commit(e) /\ state.status = "FINALIZING" /\ state'.status = "SUCCESS"
    BY <1>1, StateFlow
  <2>2. ~(Commit(e) /\ state.status = "FINALIZING" /\ state'.status = "SUCCESS")
    BY DEF Commit
  <2> QED
    BY <2>1, <2>2 DEF Active
<1> QED
  BY <1>1, <1>2, <1>3, <1>4, <1>5, WindowKept DEF Abstract!Forget

\* Commands, leases that expire and steps of nothing are not seen
LEMMA EnvironmentUnseen ==
  ASSUME Windowed, Environment \/ UNCHANGED vars
  PROVE  UNCHANGED Abstract!vars
<1>1. /\ UNCHANGED state \/ state' = [state EXCEPT !.live = FALSE]
      /\ UNCHANGED <<watermark, files, handoffs, registered, pc, job>>
  BY DEF Environment, ExpireWorker, ExpireEntity, Pause, Resume, Remove, Install, ResumeCycle,
         vars, controlVars, driveVars, handoffVars
<1>2. /\ state'.cycle = state.cycle /\ state'.status = state.status
      /\ state'.from = state.from /\ state'.to = state.to
  BY <1>1 DEF Windowed, Typed, TypeOK, StateType
<1>3. Promised' = Promised
  BY <1>1, <1>2 DEF Promised, Queued
<1> QED
  BY <1>1, <1>2, <1>3 DEF Abstract!vars

\* The code's acquisition starts as an acquisition does
LEMMA InitAcquired ==
  ASSUME Init
  PROVE  Abstract!Init
<1>1. state = NoState /\ watermark = 0 /\ files = {} /\ handoffs = <<>> /\ registered = {}
      /\ \A e \in Execs : pc[e] = "idle"
  BY DEF Init
<1>2. state.cycle = 0 /\ state.status = "NONE" /\ state.from = 0 /\ state.to = 0
  BY <1>1 DEF NoState
<1>3. Promised = {}
  BY <1>1, <1>2 DEF Promised, HandoffPcs, Queued
<1>4. state.status \notin Active
  BY <1>2 DEF Active
<1> QED
  BY <1>1, <1>2, <1>3, <1>4 DEF Abstract!Init

\* However many executions and commands there are, and whatever fails, is ended or outlasts
\* its lease, the acquisition of the code is one that keeps the promise of Acquisition
THEOREM AcquiredCorrect == Spec => Acquired
<1>1. Init => Abstract!Init
  BY InitAcquired
<1>2. Windowed /\ [Next]_vars => [Abstract!Next]_Abstract!vars
  <2> SUFFICES ASSUME Windowed, [Next]_vars PROVE [Abstract!Next]_Abstract!vars
    OBVIOUS
  <2>1. ASSUME NEW e \in Execs, Step(e) PROVE Abstract!Next
    BY <2>1, ReserveOpens, StoreGathers, CommitCommits, RecordAbandons, RegisterHandsOver,
       OthersForget DEF Abstract!Next
  <2>2. CASE Environment \/ UNCHANGED vars
    BY <2>2, EnvironmentUnseen
  <2> QED
    BY <2>1, <2>2 DEF Next
<1> QED
  BY <1>1, <1>2, WindowedInvariant, PTL DEF Spec, Acquired, Abstract!Spec

\* What is proved about Acquisition, of the state the code keeps
Kept == INSTANCE AcquisitionProofs WITH
  cycle <- state.cycle,
  window <- [from |-> state.from, to |-> state.to],
  open <- state.status \in Active,
  evidence <- {f \in files : f.whole},
  pending <- Promised

\* Whatever was handed over to the ingestion, by a worker or from the queue, also where a
\* worker outlasted its lease, is a cycle with the whole evidence of every entity in Drive
THEOREM HandedCorrect == Spec => []Abstract!HandedWhole
<1>1. Abstract!Init => Kept!Init
  BY DEF Abstract!Init, Kept!Init
<1>2. [Abstract!Next]_Abstract!vars => [Kept!Next]_Kept!vars
  <2>1. Abstract!Open => Kept!Open
    BY DEF Abstract!Open, Kept!Open
  <2>2. Abstract!Gather => Kept!Gather
    BY DEF Abstract!Gather, Kept!Gather
  <2>3. Abstract!Commit => Kept!Commit
    BY DEF Abstract!Commit, Kept!Commit, Abstract!Gathered, Kept!Gathered
  <2>4. Abstract!Abandon => Kept!Abandon
    BY DEF Abstract!Abandon, Kept!Abandon
  <2>5. Abstract!HandOver => Kept!HandOver
    BY DEF Abstract!HandOver, Kept!HandOver
  <2>6. Abstract!Forget => Kept!Forget
    BY DEF Abstract!Forget, Kept!Forget
  <2>7. UNCHANGED Abstract!vars => UNCHANGED Kept!vars
    BY DEF Abstract!vars, Kept!vars
  <2> QED
    BY <2>1, <2>2, <2>3, <2>4, <2>5, <2>6, <2>7 DEF Abstract!Next, Kept!Next
<1>3. Kept!HandedWhole => Abstract!HandedWhole
  BY DEF Kept!HandedWhole, Abstract!HandedWhole, Kept!Gathered, Abstract!Gathered
<1>4. Abstract!Spec => Kept!Spec
  BY <1>1, <1>2, PTL DEF Abstract!Spec, Kept!Spec
<1>5. Spec => Abstract!Spec
  BY AcquiredCorrect DEF Acquired
<1> QED
  BY <1>3, <1>4, <1>5, Kept!Promise, PTL
==============================================================================
