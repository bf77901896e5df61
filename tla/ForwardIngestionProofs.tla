----------------------- MODULE ForwardIngestionProofs -----------------------
(***************************************************************************)
(* Theorems about ForwardIngestion: its type invariant, proved action by   *)
(* action; that the module implements Delivery with the ledger counting    *)
(* exactly; that the pipeline has one worker; and that Drive holds what is *)
(* kept once.                                                              *)
(***************************************************************************)
EXTENDS ForwardIngestion, TLAPS

\* A row keeps its type under every operation of the ledger
LEMMA RowTyped ==
  ASSUME NEW row \in RowType, NEW w \in 0..MaxWorkers, NEW c \in Nat, NEW n \in Nat,
         NEW b \in BOOLEAN
  PROVE  /\ NewRow("BLOCKED") \in RowType /\ NewRow("AVAILABLE") \in RowType
         /\ NoRow \in RowType
         /\ Claimed(row, w) \in RowType /\ BlockedRow(row) \in RowType
         /\ Checkpointed(row, c, n, b) \in RowType
         /\ [row EXCEPT !.live = FALSE] \in RowType
<1>0. 0 \in 0..MaxWorkers
  BY IngestionConstants
<1>1. /\ NewRow("BLOCKED") \in RowType /\ NewRow("AVAILABLE") \in RowType
      /\ NoRow \in RowType
  BY <1>0 DEF NewRow, NoRow, RowType, RowStatuses, Unfinished, Settled
<1>2. Claimed(row, w) \in RowType
  BY DEF Claimed, RowType, RowStatuses, Unfinished
<1>3. BlockedRow(row) \in RowType
  BY <1>0 DEF BlockedRow, RowType, RowStatuses, Settled
<1>4. Checkpointed(row, c, n, b) \in RowType
  <2>1. row.shards + n \in Nat
    BY DEF RowType
  <2>2. (IF b THEN "PROCESSED" ELSE "AVAILABLE") \in RowStatuses
    BY DEF RowStatuses, Settled, Unfinished
  <2> QED
    BY <1>0, <2>1, <2>2 DEF Checkpointed, RowType
<1>5. [row EXCEPT !.live = FALSE] \in RowType
  BY DEF RowType
<1> QED
  BY <1>1, <1>2, <1>3, <1>4, <1>5

\* The fields of the local variables
LEMMA JobFields ==
  ASSUME NEW j \in JobType
  PROVE  /\ j.worker \in 0..MaxWorkers /\ j.found \in SUBSET Sources /\ j.source \in Sources
         /\ j.batch \in Nat /\ j.by \in 0..MaxWorkers /\ j.maker \in 0..MaxWorkers
         /\ j.worked \in BOOLEAN /\ j.slow \in BOOLEAN
BY DEF JobType

\* The updates the actions make to the local variables keep their type
LEMMA JobUpdates ==
  ASSUME NEW j \in JobType
  PROVE  /\ NoJob \in JobType
         /\ \A w \in 0..MaxWorkers, x \in SUBSET Sources :
              [NoJob EXCEPT !.worker = w, !.found = x] \in JobType
         /\ \A b \in BOOLEAN :
              [NoJob EXCEPT !.worker = j.worker, !.worked = b, !.slow = j.slow] \in JobType
         /\ [j EXCEPT !.found = {}] \in JobType
         /\ \A s \in Sources, n \in Nat : [j EXCEPT !.source = s, !.batch = n] \in JobType
         /\ \A w \in 0..MaxWorkers : [j EXCEPT !.by = w] \in JobType
         /\ \A w \in 0..MaxWorkers : [j EXCEPT !.maker = w] \in JobType
         /\ [j EXCEPT !.slow = TRUE] \in JobType
<1>0. 0 \in 0..MaxWorkers /\ 1 \in Sources
  BY IngestionConstants DEF Sources
<1>1. NoJob \in JobType
  BY <1>0 DEF NoJob, JobType
<1>2. \A w \in 0..MaxWorkers, x \in SUBSET Sources :
        [NoJob EXCEPT !.worker = w, !.found = x] \in JobType
  BY <1>0 DEF NoJob, JobType
<1>3. \A b \in BOOLEAN :
        [NoJob EXCEPT !.worker = j.worker, !.worked = b, !.slow = j.slow] \in JobType
  BY <1>0, JobFields DEF NoJob, JobType
<1>4. [j EXCEPT !.found = {}] \in JobType /\ [j EXCEPT !.slow = TRUE] \in JobType
  BY DEF JobType
<1>5. \A s \in Sources, n \in Nat : [j EXCEPT !.source = s, !.batch = n] \in JobType
  BY DEF JobType
<1>6. /\ \A w \in 0..MaxWorkers : [j EXCEPT !.by = w] \in JobType
      /\ \A w \in 0..MaxWorkers : [j EXCEPT !.maker = w] \in JobType
  BY DEF JobType
<1> QED
  BY <1>1, <1>2, <1>3, <1>4, <1>5, <1>6

\* The sources, rows and files an execution has in hand
LEMMA InHand ==
  ASSUME TypeOK, NEW e \in Execs
  PROVE  /\ job[e] \in JobType /\ job[e].source \in Sources /\ job[e].batch \in Nat
         /\ job[e].worker \in 0..MaxWorkers /\ job[e].found \subseteq Sources
         /\ job[e].by \in 0..MaxWorkers /\ job[e].maker \in 0..MaxWorkers
         /\ ledger[job[e].source] \in RowType
         /\ evidence[job[e].source] \in EvidenceType
         /\ evidence[job[e].source].batches \in Nat
<1>1. /\ job[e] \in JobType /\ job[e].source \in Sources /\ job[e].batch \in Nat
      /\ job[e].worker \in 0..MaxWorkers /\ job[e].found \subseteq Sources
      /\ job[e].by \in 0..MaxWorkers /\ job[e].maker \in 0..MaxWorkers
  <2>1. job[e] \in JobType
    BY DEF TypeOK
  <2> QED
    BY <2>1, JobFields
<1>2. ledger[job[e].source] \in RowType /\ evidence[job[e].source] \in EvidenceType
  BY <1>1 DEF TypeOK
<1>3. evidence[job[e].source].batches \in Nat
  BY <1>2, IngestionConstants DEF EvidenceType
<1> QED
  BY <1>1, <1>2, <1>3

\* A step of one execution leaves the others where they are
LEMMA OthersKept ==
  ASSUME TypeOK, NEW e \in Execs, Step(e), NEW f \in Execs, f # e
  PROVE  pc'[f] = pc[f] /\ job'[f] = job[f]
<1>1. CASE Progress(e)
  BY <1>1 DEF TypeOK, Progress, Register, PassDone, WorkStarts, ClaimPipeline, ClaimNext,
     NoMoreWork, Ingest, Capture, Keep, Persist, Create, Artifact, Checkpoint, Heartbeat,
     Block, Release, Goto, Fail, End
<1>2. CASE \E w \in Workers : Dispatch(e, w)
  BY <1>2 DEF TypeOK, Dispatch, Goto
<1>3. CASE LockFails(e) \/ CallFails(e) \/ Crash(e)
  BY <1>3 DEF TypeOK, LockFails, CallFails, Crash, WorkStarts, Goto, Fail, End
<1> QED
  BY <1>1, <1>2, <1>3 DEF Step

\* The names of the places an execution can be at
LEMMA PcNames ==
  /\ Pcs = {"idle", "register", "pipeline", "claim", "heartbeat", "block", "release",
            "ingest", "capture", "keep", "persist", "create", "artifact", "checkpoint"}
  /\ HoldingPcs = Pcs \ {"idle", "register", "pipeline"}
  /\ BatchPcs = HoldingPcs \ {"claim", "heartbeat", "block", "release"}
BY DEF Pcs, HoldingPcs, BatchPcs

\* Where the executions are keeps its type
LEMMA PcTyped ==
  ASSUME TypeOK, NEW e \in Execs, Step(e)
  PROVE  pc' \in [Execs -> Pcs]
<1> SUFFICES pc' = pc \/ \E where \in Pcs : pc' = [pc EXCEPT ![e] = where]
  BY DEF TypeOK
<1>1. CASE Progress(e)
  <2>1. CASE Register(e) \/ PassDone(e) \/ ClaimPipeline(e) \/ ClaimNext(e) \/ NoMoreWork(e)
    BY <2>1, PcNames DEF Register, PassDone, WorkStarts, ClaimPipeline, ClaimNext,
       NoMoreWork, Goto, End
  <2>2. CASE Ingest(e) \/ Capture(e) \/ Keep(e) \/ Persist(e) \/ Create(e) \/ Artifact(e)
    BY <2>2, PcNames DEF Ingest, Capture, Keep, Persist, Create, Artifact, Goto, Fail
  <2>3. CASE Checkpoint(e) \/ Heartbeat(e) \/ Block(e) \/ Release(e)
    BY <2>3, PcNames DEF Checkpoint, Heartbeat, Block, Release, Goto, Fail, End
  <2> QED
    BY <1>1, <2>1, <2>2, <2>3 DEF Progress
<1>2. CASE \E w \in Workers : Dispatch(e, w)
  BY <1>2, PcNames DEF Dispatch, Goto
<1>3. CASE LockFails(e) \/ CallFails(e) \/ Crash(e)
  BY <1>3, PcNames DEF LockFails, CallFails, Crash, WorkStarts, Goto, Fail, End
<1> QED
  BY <1>1, <1>2, <1>3 DEF Step

\* The local variables keep their type
LEMMA JobTyped ==
  ASSUME TypeOK, NEW e \in Execs, Step(e)
  PROVE  job' \in [Execs -> JobType]
<1> SUFFICES \E j \in JobType : job' = [job EXCEPT ![e] = j]
  BY DEF TypeOK
<1> DEFINE j == job[e]
<1>0. j \in JobType /\ job = [job EXCEPT ![e] = j] /\ NoJob \in JobType
  <2>1. j \in JobType
    BY DEF TypeOK
  <2> QED
    BY <2>1, JobUpdates DEF TypeOK
<1>1. CASE UNCHANGED job
  BY <1>0, <1>1
<1>2. CASE job' = [job EXCEPT ![e] = NoJob]
  BY <1>0, <1>2
<1>3. CASE job' = [job EXCEPT ![e].found = {}]
  <2>1. job' = [job EXCEPT ![e] = [j EXCEPT !.found = {}]]
    BY <1>3
  <2> QED
    BY <1>0, <2>1, JobUpdates
<1>4. CASE \E b \in BOOLEAN : job' = [job EXCEPT ![e] = Afterwards(e, b)]
  BY <1>0, <1>4, JobUpdates DEF Afterwards
<1>5. CASE ClaimNext(e)
  <2>1. PICK s \in Sources : job' = [job EXCEPT ![e].source = s, ![e].batch = ledger[s].cursor]
    BY <1>5 DEF ClaimNext
  <2>2. job' = [job EXCEPT ![e] = [j EXCEPT !.source = s, !.batch = ledger[s].cursor]]
    BY <2>1 DEF TypeOK
  <2>3. ledger[s].cursor \in Nat
    BY DEF TypeOK, RowType
  <2> QED
    BY <1>0, <2>2, <2>3, JobUpdates
<1>6. CASE \E w \in 0..MaxWorkers : job' = [job EXCEPT ![e].by = w]
  <2>1. PICK w \in 0..MaxWorkers : job' = [job EXCEPT ![e] = [j EXCEPT !.by = w]]
    BY <1>6
  <2> QED
    BY <1>0, <2>1, JobUpdates
<1>7. CASE \E w \in 0..MaxWorkers : job' = [job EXCEPT ![e].maker = w]
  <2>1. PICK w \in 0..MaxWorkers : job' = [job EXCEPT ![e] = [j EXCEPT !.maker = w]]
    BY <1>7
  <2> QED
    BY <1>0, <2>1, JobUpdates
<1>8. CASE \E w \in Workers : Dispatch(e, w)
  <2>1. Workers \subseteq 0..MaxWorkers
    BY IngestionConstants DEF Workers
  <2>2. PICK w \in Workers : job' = [job EXCEPT ![e] = [NoJob EXCEPT !.worker = w, !.found = offered]]
    BY <1>8 DEF Dispatch
  <2> QED
    BY <1>0, <2>1, <2>2, JobUpdates DEF TypeOK
<1>9. CASE Progress(e)
  <2>1. job[e].worker \in 0..MaxWorkers
    BY InHand
  <2>2. CASE Register(e) \/ PassDone(e) \/ ClaimPipeline(e) \/ ClaimNext(e) \/ NoMoreWork(e)
    BY <2>2, <1>1, <1>2, <1>3, <1>5 DEF Register, PassDone, WorkStarts, ClaimPipeline,
       NoMoreWork, Goto, End
  <2>3. CASE Ingest(e)
    BY <2>1, <2>3, <1>1, <1>6 DEF Ingest, Fail
  <2>4. CASE Capture(e)
    <3>1. \A c \in Captured(e) : c.by \in 0..MaxWorkers
      BY DEF Captured, CaptureType, TypeOK
    <3> QED
      BY <2>4, <3>1, <1>1, <1>6 DEF Capture, Fail
  <2>5. CASE Persist(e)
    <3>1. \A f \in Same(e) : f.maker \in 0..MaxWorkers
      BY DEF Same, FileType, TypeOK
    <3> QED
      BY <2>5, <3>1, <1>1, <1>7 DEF Persist, Fail
  <2>6. CASE Create(e)
    BY <2>1, <2>6, <1>7 DEF Create
  <2>7. CASE Keep(e) \/ Artifact(e) \/ Checkpoint(e)
    BY <2>7, <1>1 DEF Keep, Artifact, Checkpoint, Fail
  <2>8. CASE Heartbeat(e) \/ Block(e) \/ Release(e)
    BY <2>8, <1>1, <1>2, <1>4 DEF Heartbeat, Block, Release, Fail, End
  <2> QED
    BY <1>9, <2>2, <2>3, <2>4, <2>5, <2>6, <2>7, <2>8 DEF Progress
<1>10. CASE LockFails(e) \/ CallFails(e) \/ Crash(e)
  BY <1>10, <1>1, <1>2, <1>3 DEF LockFails, CallFails, Crash, WorkStarts, Fail, End
<1> QED
  BY <1>8, <1>9, <1>10 DEF Step

\* Registration of a source adds a row to the ledger
LEMMA RegisteredTyped ==
  ASSUME TypeOK, NEW s \in Sources, Registered(s)
  PROVE  rows' \in Seq(Sources) /\ ledger' \in [Sources -> RowType]
<1>1. rows' \in Seq(Sources)
  BY DEF Registered, TypeOK
<1>2. \E row \in RowType : ledger' = [ledger EXCEPT ![s] = row]
  <2>1. ledger[s] \in RowType /\ 0 \in 0..MaxWorkers
    BY IngestionConstants DEF TypeOK
  <2>2. NewRow("BLOCKED") \in RowType /\ NewRow("AVAILABLE") \in RowType
    BY <2>1, RowTyped
  <2> QED
    BY <2>2 DEF Registered
<1> QED
  BY <1>1, <1>2 DEF TypeOK

\* The ledger keeps its type
LEMMA LedgerTyped ==
  ASSUME TypeOK, NEW e \in Execs, Step(e)
  PROVE  rows' \in Seq(Sources) /\ ledger' \in [Sources -> RowType]
<1> DEFINE s == job[e].source
<1> USE DEF ledgerVars
<1>0. s \in Sources /\ ledger[s] \in RowType /\ job[e].worker \in 0..MaxWorkers
      /\ 0 \in Nat /\ 1 \in Nat /\ job[e].batch + 1 \in Nat
      /\ evidence[s].batches \in Nat
  BY InHand
<1>1. CASE UNCHANGED ledgerVars
  BY <1>1 DEF TypeOK
<1>2. CASE Register(e)
  BY <1>2, RegisteredTyped, InHand DEF Register, Missing
<1>3. CASE ClaimNext(e)
  <2>1. PICK t \in Sources : ledger' = [ledger EXCEPT ![t] = Claimed(ledger[t], job[e].worker)]
    BY <1>3 DEF ClaimNext
  <2>2. ledger[t] \in RowType
    BY DEF TypeOK
  <2>3. Claimed(ledger[t], job[e].worker) \in RowType
    BY <1>0, <2>2, RowTyped
  <2> QED
    BY <1>3, <2>1, <2>3 DEF ClaimNext, TypeOK
<1>4. CASE Checkpoint(e)
  <2>1. \A c, n \in Nat, b \in BOOLEAN : Checkpointed(ledger[s], c, n, b) \in RowType
    BY <1>0, RowTyped
  <2>2. CASE UNCHANGED ledger
    BY <1>4, <2>2 DEF Checkpoint, TypeOK
  <2>3. CASE ledger' # ledger
    <3>1. PICK c \in Nat, n \in Nat, b \in BOOLEAN :
            ledger' = [ledger EXCEPT ![s] = Checkpointed(ledger[s], c, n, b)]
      BY <1>0, <1>4, <2>3 DEF Checkpoint
    <3> QED
      BY <1>4, <2>1, <3>1 DEF Checkpoint, TypeOK
  <2> QED
    BY <2>2, <2>3
<1>5. CASE Block(e)
  <2>1. BlockedRow(ledger[s]) \in RowType
    BY <1>0, RowTyped
  <2> QED
    BY <1>5, <2>1 DEF Block, TypeOK
<1> QED
  BY <1>1, <1>2, <1>3, <1>4, <1>5 DEF Step, Progress, PassDone, ClaimPipeline, NoMoreWork,
     Ingest, Capture, Keep, Persist, Create, Artifact, Heartbeat, Release, Dispatch,
     LockFails, CallFails, Crash

\* The files in Drive keep their type
LEMMA DriveTyped ==
  ASSUME TypeOK, NEW e \in Execs, Step(e)
  PROVE  captures' \subseteq CaptureType /\ files' \subseteq FileType
         /\ artifacts' \subseteq FileType
<1> USE DEF driveVars
<1>0. /\ [source |-> job[e].source, batch |-> job[e].batch, by |-> job[e].worker] \in CaptureType
      /\ Shard(e, job[e].worker) \in FileType /\ Shard(e, job[e].maker) \in FileType
  BY InHand DEF CaptureType, FileType, Shard
<1>1. CASE UNCHANGED driveVars
  BY <1>1 DEF TypeOK
<1>2. CASE Keep(e) \/ Create(e) \/ Artifact(e)
  BY <1>0, <1>2 DEF Keep, Create, Artifact, TypeOK
<1>3. CASE CallFails(e)
  BY <1>0, <1>3 DEF CallFails, TypeOK
<1> QED
  BY <1>1, <1>2, <1>3 DEF Step, Progress, Register, PassDone, ClaimPipeline, ClaimNext,
     NoMoreWork, Ingest, Capture, Persist, Checkpoint, Heartbeat, Block, Release, Dispatch,
     LockFails, Crash

\* An event is counted within the bound
LEMMA ChargeTyped ==
  ASSUME TypeOK, NEW event, Charge(event)
  PROVE  faults' \in 0..MaxFaults /\ outlasted' \in BOOLEAN
<1>1. faults' \in 0..MaxFaults
  BY IngestionConstants DEF Charge, TypeOK
<1>2. outlasted' \in BOOLEAN
  <2>1. outlasted' = (outlasted \/ event = "slow")
    BY DEF Charge
  <2> QED
    BY <2>1, Zenon
<1> QED
  BY <1>1, <1>2

\* The lease, the counters and the sources keep their type
LEMMA RestTyped ==
  ASSUME TypeOK, NEW e \in Execs, Step(e)
  PROVE  /\ kind' \in Kinds /\ evidence' \in [Sources -> EvidenceType]
         /\ offered' \subseteq Sources /\ lease' \in [worker : 0..MaxWorkers, live : BOOLEAN]
         /\ dispatcher' \in BOOLEAN /\ faults' \in 0..MaxFaults /\ outlasted' \in BOOLEAN
<1>1. UNCHANGED <<sourceVars, dispatcher>>
  BY DEF Step, Progress, Register, PassDone, ClaimPipeline, ClaimNext, NoMoreWork, Ingest,
     Capture, Keep, Persist, Create, Artifact, Checkpoint, Heartbeat, Block, Release, Dispatch,
     LockFails, CallFails, Crash
<1>2. UNCHANGED faultVars \/ \E event \in HazardKinds : Charge(event)
  <2>1. CASE Progress(e) \/ \E w \in Workers : Dispatch(e, w)
    BY <2>1 DEF Progress, Register, PassDone, ClaimPipeline, ClaimNext, NoMoreWork, Ingest,
       Capture, Keep, Persist, Create, Artifact, Checkpoint, Heartbeat, Block, Release, Dispatch
  <2>2. CASE LockFails(e) \/ CallFails(e) \/ Crash(e)
    BY <2>2 DEF LockFails, CallFails, Crash, HazardKinds
  <2> QED
    BY <2>1, <2>2 DEF Step
<1>3. faults' \in 0..MaxFaults /\ outlasted' \in BOOLEAN
  BY <1>2, ChargeTyped DEF faultVars, TypeOK
<1>4. lease' \in [worker : 0..MaxWorkers, live : BOOLEAN]
  <2>1. job[e].worker \in 0..MaxWorkers /\ 0 \in 0..MaxWorkers
    BY InHand, IngestionConstants
  <2>2. CASE UNCHANGED lease
    BY <2>2 DEF TypeOK
  <2>3. CASE ClaimPipeline(e) \/ Heartbeat(e) \/ Release(e)
    <3>1. lease' \in {lease, NoLease, [worker |-> job[e].worker, live |-> TRUE],
                      [lease EXCEPT !.live = TRUE]}
      BY <2>3 DEF ClaimPipeline, Heartbeat, Release
    <3>2. lease \in [worker : 0..MaxWorkers, live : BOOLEAN]
      BY DEF TypeOK
    <3>3. CASE lease' = NoLease \/ lease' = [worker |-> job[e].worker, live |-> TRUE]
      <4>1. \A w \in 0..MaxWorkers, b \in BOOLEAN :
              [worker |-> w, live |-> b] \in [worker : 0..MaxWorkers, live : BOOLEAN]
        OBVIOUS
      <4> QED
        BY <2>1, <3>3, <4>1 DEF NoLease
    <3>4. CASE lease' = lease \/ lease' = [lease EXCEPT !.live = TRUE]
      BY <3>2, <3>4
    <3> QED
      BY <3>1, <3>3, <3>4
  <2> QED
    BY <2>2, <2>3 DEF Step, Progress, Register, PassDone, ClaimNext, NoMoreWork, Ingest,
       Capture, Keep, Persist, Create, Artifact, Checkpoint, Block, Dispatch,
       LockFails, CallFails, Crash
<1> QED
  BY <1>1, <1>3, <1>4 DEF sourceVars, TypeOK

\* An expiry only marks the worker that outlasted it
LEMMA ExpiryTyped ==
  ASSUME TypeOK, NEW w, Expires(w)
  PROVE  /\ job' \in [Execs -> JobType] /\ faults' \in 0..MaxFaults /\ outlasted' \in BOOLEAN
<1>1. CASE UNCHANGED <<job, faultVars>>
  BY <1>1 DEF faultVars, TypeOK
<1>2. CASE \E e \in Execs : Charge("slow") /\ job' = [job EXCEPT ![e].slow = TRUE]
  <2>1. PICK e \in Execs : Charge("slow") /\ job' = [job EXCEPT ![e] = [job[e] EXCEPT !.slow = TRUE]]
    BY <1>2
  <2>2. [job[e] EXCEPT !.slow = TRUE] \in JobType
    BY InHand, JobUpdates
  <2> QED
    BY <2>1, <2>2, ChargeTyped DEF TypeOK
<1> QED
  BY <1>1, <1>2 DEF Expires

\* The environment keeps the types
LEMMA EnvironmentTyped ==
  ASSUME TypeOK, Environment
  PROVE  TypeOK'
<1> USE DEF sourceVars, ledgerVars, driveVars, faultVars
<1>1. CASE \E s \in Sources : Offer(s)
  BY <1>1 DEF Offer, TypeOK
<1>2. CASE \E s \in Sources : Announce(s)
  <2>1. PICK s \in Sources : Announce(s)
    BY <1>2
  <2>2. rows' \in Seq(Sources) /\ ledger' \in [Sources -> RowType]
    BY <2>1, RegisteredTyped DEF Announce
  <2> QED
    BY <2>1, <2>2 DEF Announce, TypeOK
<1>3. CASE \E s \in Sources : ExpireClaim(s)
  <2>1. PICK s \in Sources : ExpireClaim(s)
    BY <1>3
  <2>2. job' \in [Execs -> JobType] /\ faults' \in 0..MaxFaults /\ outlasted' \in BOOLEAN
    BY <2>1, ExpiryTyped DEF ExpireClaim
  <2>3. [ledger[s] EXCEPT !.live = FALSE] \in RowType
    BY DEF RowType, TypeOK
  <2>4. ledger' = [ledger EXCEPT ![s] = [ledger[s] EXCEPT !.live = FALSE]]
    BY <2>1 DEF ExpireClaim
  <2>5. ledger' \in [Sources -> RowType]
    BY <2>3, <2>4 DEF TypeOK
  <2> QED
    BY <2>1, <2>2, <2>5 DEF ExpireClaim, TypeOK
<1>4. CASE ExpireLease
  <2>1. job' \in [Execs -> JobType] /\ faults' \in 0..MaxFaults /\ outlasted' \in BOOLEAN
    BY <1>4, ExpiryTyped DEF ExpireLease
  <2>2. lease' \in [worker : 0..MaxWorkers, live : BOOLEAN]
    BY <1>4 DEF ExpireLease, TypeOK
  <2> QED
    BY <1>4, <2>1, <2>2 DEF ExpireLease, TypeOK
<1>5. CASE Pause \/ Resume
  <2>1. faults' \in 0..MaxFaults /\ outlasted' \in BOOLEAN
    BY <1>5, ChargeTyped DEF Pause, Resume, TypeOK
  <2> QED
    BY <1>5, <2>1 DEF Pause, Resume, TypeOK
<1> QED
  BY <1>1, <1>2, <1>3, <1>4, <1>5 DEF Environment

\* Every step keeps the types
LEMMA TypeStep == TypeOK /\ [Next]_vars => TypeOK'
<1> SUFFICES ASSUME TypeOK, [Next]_vars PROVE TypeOK'
  OBVIOUS
<1>1. CASE \E e \in Execs : Step(e)
  <2>1. PICK e \in Execs : Step(e)
    BY <1>1
  <2>2. pc' \in [Execs -> Pcs]
    BY <2>1, PcTyped
  <2>3. job' \in [Execs -> JobType]
    BY <2>1, JobTyped
  <2>4. rows' \in Seq(Sources) /\ ledger' \in [Sources -> RowType]
    BY <2>1, LedgerTyped
  <2>5. captures' \subseteq CaptureType /\ files' \subseteq FileType /\ artifacts' \subseteq FileType
    BY <2>1, DriveTyped
  <2> QED
    BY <2>1, <2>2, <2>3, <2>4, <2>5, RestTyped DEF TypeOK
<1>2. CASE Environment
  BY <1>2, EnvironmentTyped
<1>3. CASE UNCHANGED vars
  BY <1>3 DEF vars, sourceVars, ledgerVars, driveVars, faultVars, TypeOK
<1> QED
  BY <1>1, <1>2, <1>3 DEF Next

\* The initial states have the types
LEMMA TypeInit == Init => TypeOK
<1> SUFFICES ASSUME Init PROVE TypeOK
  OBVIOUS
<1>1. 0 \in 0..MaxWorkers /\ 1 \in Sources /\ 0 \in 0..MaxFaults
  BY IngestionConstants DEF Sources
<1>2. NoRow \in RowType
  BY <1>1 DEF NewRow, NoRow, RowType, RowStatuses
<1>3. NoJob \in JobType /\ "idle" \in Pcs
  BY <1>1 DEF NoJob, JobType, Pcs
<1>4. lease \in [worker : 0..MaxWorkers, live : BOOLEAN]
  BY <1>1 DEF Init, NoLease
<1>5. rows \in Seq(Sources)
  BY DEF Init
<1> QED
  BY <1>1, <1>2, <1>3, <1>4, <1>5 DEF Init, TypeOK

(* In every behaviour the rows, files, leases and local variables are of    *)
(* the kinds the code gives them, for any number of sources and executions. *)
THEOREM TypeCorrect == Spec => []TypeOK
BY TypeInit, TypeStep, PTL DEF Spec

-----------------------------------------------------------------------------

(* While an execution works on a batch, the cursor of its source is not     *)
(* behind that batch, and is at it while the execution owns the row.        *)
Tied(e) ==
  pc[e] \in BatchPcs =>
    LET row == ledger[job[e].source] IN
    /\ job[e].batch <= row.cursor
    /\ row.owner = job[e].worker => row.cursor = job[e].batch

Distinct ==
  /\ \A e \in Execs : pc[e] # "idle" => job[e].worker \in Workers
  /\ \A e, f \in Execs :
       pc[e] # "idle" /\ pc[f] # "idle" /\ job[e].worker = job[f].worker => e = f

Counted(s) ==
  /\ ledger[s].shards = ledger[s].cursor
  /\ ledger[s].cursor <= evidence[s].batches
  /\ ledger[s].status = "NONE" => ledger[s].cursor = 0
  /\ ledger[s].status = "PROCESSED" => ledger[s].cursor = evidence[s].batches

Stored(e) ==
  pc[e] = "checkpoint" /\ job[e].batch < evidence[job[e].source].batches =>
    \E f \in artifacts : f.source = job[e].source /\ f.batch = job[e].batch

LedgerInv ==
  /\ TypeOK /\ Distinct
  /\ \A e \in Execs : Tied(e) /\ Stored(e)
  /\ \A s \in Sources : Counted(s)

(* A worker marked as slow has made the history say so; while it does not,  *)
(* whoever works holds the live lease.                                      *)
Held ==
  /\ \A e \in Execs : job[e].slow => outlasted
  /\ ~outlasted => \A e \in Execs :
       pc[e] \in HoldingPcs => lease.live /\ lease.worker = job[e].worker

LeaseInv == TypeOK /\ Distinct /\ Held

(* Nobody has kept or created meanwhile what an execution is about to.      *)
Fresh(e) ==
  /\ pc[e] = "keep" => Captured(e) = {}
  /\ pc[e] = "create" => Same(e) = {}

DriveInv == LeaseInv /\ DriveOnce /\ (~outlasted => \A e \in Execs : Fresh(e))

-----------------------------------------------------------------------------
(* What a step leaves alone *)

\* An execution keeps its worker id until it ends or is dispatched anew
LEMMA WorkerKept ==
  ASSUME TypeOK, NEW e \in Execs, Step(e)
  PROVE  \/ pc'[e] = "idle"
         \/ pc[e] # "idle" /\ job'[e].worker = job[e].worker
         \/ \E w \in Workers : Dispatch(e, w) /\ job'[e].worker = w
<1> DEFINE j == job[e]
<1>0. pc \in [Execs -> Pcs] /\ job \in [Execs -> JobType] /\ j \in JobType
  BY DEF TypeOK
<1>1. CASE \E w \in Workers : Dispatch(e, w)
  <2>1. PICK w \in Workers : Dispatch(e, w)
    BY <1>1
  <2>2. job'[e] = [NoJob EXCEPT !.worker = w, !.found = offered]
    BY <1>0, <2>1 DEF Dispatch
  <2>3. job'[e].worker = w
    BY <2>2 DEF NoJob
  <2> QED
    BY <2>1, <2>3
<1>2. CASE UNCHANGED job /\ pc[e] # "idle"
  BY <1>2
<1>3. CASE End(e)
  BY <1>0, <1>3 DEF End, Goto
<1>4. CASE pc[e] # "idle" /\ job'[e] = [j EXCEPT !.found = {}]
  BY <1>0, <1>4 DEF JobType
<1>5. CASE pc[e] # "idle" /\ \E b \in BOOLEAN : job'[e] = Afterwards(e, b)
  BY <1>5 DEF Afterwards, NoJob
<1>6. CASE \E s \in Sources : pc[e] # "idle" /\ job'[e] = [j EXCEPT !.source = s, !.batch = ledger[s].cursor]
  BY <1>0, <1>6 DEF JobType
<1>7. CASE \E w : pc[e] # "idle" /\ (job'[e] = [j EXCEPT !.by = w] \/ job'[e] = [j EXCEPT !.maker = w])
  BY <1>0, <1>7 DEF JobType
<1>8. CASE Register(e) \/ PassDone(e) \/ ClaimPipeline(e) \/ NoMoreWork(e)
  BY <1>0, <1>8, <1>2, <1>3, <1>4 DEF Register, PassDone, WorkStarts, ClaimPipeline, NoMoreWork
<1>9. CASE ClaimNext(e)
  BY <1>0, <1>9, <1>6 DEF ClaimNext
<1>10. CASE Ingest(e) \/ Capture(e) \/ Persist(e) \/ Create(e)
  BY <1>0, <1>10, <1>2, <1>7 DEF Ingest, Capture, Persist, Create, Fail
<1>11. CASE Keep(e) \/ Artifact(e) \/ Checkpoint(e)
  BY <1>11, <1>2 DEF Keep, Artifact, Checkpoint, Fail
<1>12. CASE Heartbeat(e) \/ Block(e) \/ Release(e)
  BY <1>0, <1>12, <1>2, <1>3, <1>5 DEF Heartbeat, Block, Release, Fail
<1>13. CASE LockFails(e) \/ CallFails(e) \/ Crash(e)
  BY <1>0, <1>13, <1>2, <1>3, <1>4 DEF LockFails, CallFails, Crash, WorkStarts, Fail
<1> QED
  BY <1>1, <1>8, <1>9, <1>10, <1>11, <1>12, <1>13 DEF Step, Progress

\* Whoever works on a batch has just claimed it or goes on with it
LEMMA BatchKept ==
  ASSUME TypeOK, NEW e \in Execs, Step(e), pc'[e] \in BatchPcs
  PROVE  \/ ClaimNext(e)
         \/ /\ pc[e] \in BatchPcs
            /\ job'[e].worker = job[e].worker /\ job'[e].source = job[e].source
            /\ job'[e].batch = job[e].batch
<1> DEFINE j == job[e]
<1>0. pc \in [Execs -> Pcs] /\ job \in [Execs -> JobType] /\ j \in JobType
  BY DEF TypeOK
<1>1. CASE UNCHANGED job /\ pc[e] \in BatchPcs
  BY <1>1
<1>2. CASE \E w : pc[e] \in BatchPcs /\ (job'[e] = [j EXCEPT !.by = w] \/ job'[e] = [j EXCEPT !.maker = w])
  BY <1>0, <1>2 DEF JobType
<1>3. CASE Progress(e)
  <2>1. CASE Register(e) \/ PassDone(e) \/ ClaimPipeline(e) \/ NoMoreWork(e)
    BY <1>0, <2>1 DEF Register, PassDone, WorkStarts, ClaimPipeline, NoMoreWork, BatchPcs, Goto, End
  <2>2. CASE Ingest(e) \/ Capture(e) \/ Persist(e) \/ Create(e)
    <3>1. pc[e] \in BatchPcs
      BY <2>2 DEF Ingest, Capture, Persist, Create, BatchPcs
    <3>2. job' = job \/ \E w : job'[e] = [j EXCEPT !.by = w] \/ job'[e] = [j EXCEPT !.maker = w]
      BY <1>0, <2>2 DEF Ingest, Capture, Persist, Create, Fail
    <3> QED
      BY <3>1, <3>2, <1>1, <1>2
  <2>3. CASE Keep(e) \/ Artifact(e) \/ Checkpoint(e)
    BY <2>3, <1>1 DEF Keep, Artifact, Checkpoint, Fail, BatchPcs
  <2>4. CASE Heartbeat(e) \/ Block(e) \/ Release(e)
    BY <1>0, <2>4 DEF Heartbeat, Block, Release, Fail, Goto, End, BatchPcs
  <2> QED
    BY <1>3, <2>1, <2>2, <2>3, <2>4 DEF Progress
<1>4. CASE \E w \in Workers : Dispatch(e, w)
  BY <1>0, <1>4 DEF Dispatch, Goto, BatchPcs
<1>5. CASE LockFails(e) \/ CallFails(e) \/ Crash(e)
  BY <1>0, <1>5 DEF LockFails, CallFails, Crash, WorkStarts, Goto, Fail, End, BatchPcs
<1> QED
  BY <1>3, <1>4, <1>5 DEF Step

\* The environment moves no execution; it may mark one as slow
LEMMA EnvironmentKeeps ==
  ASSUME TypeOK, Environment
  PROVE  /\ UNCHANGED <<pc, evidence, captures, files, artifacts>>
         /\ \A e \in Execs :
              /\ job'[e].worker = job[e].worker /\ job'[e].source = job[e].source
              /\ job'[e].batch = job[e].batch /\ job'[e].by = job[e].by
<1> USE DEF driveVars, sourceVars
<1>1. UNCHANGED <<pc, evidence, captures, files, artifacts>>
  BY DEF Environment, Offer, Announce, ExpireClaim, ExpireLease, Pause, Resume
<1>2. job' = job \/ \E f \in Execs : job' = [job EXCEPT ![f].slow = TRUE]
  BY DEF Environment, Offer, Announce, ExpireClaim, ExpireLease, Pause, Resume, Expires
<1>3. job \in [Execs -> JobType]
  BY DEF TypeOK
<1> QED
  BY <1>1, <1>2, <1>3 DEF JobType

-----------------------------------------------------------------------------
(* The worker ids *)

\* The executions alive have worker ids, and different ones
LEMMA DistinctStep ==
  ASSUME TypeOK, Distinct, [Next]_vars
  PROVE  Distinct'
<1>0. TypeOK'
  BY TypeStep
<1>1. CASE \E e \in Execs : Step(e)
  <2>1. PICK e \in Execs : Step(e)
    BY <1>1
  <2>2. \A f \in Execs \ {e} : pc'[f] = pc[f] /\ job'[f] = job[f]
    BY <2>1, OthersKept
  <2>3. CASE pc'[e] = "idle" \/ (pc[e] # "idle" /\ job'[e].worker = job[e].worker)
    BY <2>2, <2>3 DEF Distinct
  <2>4. CASE \E w \in Workers : Dispatch(e, w) /\ job'[e].worker = w
    <3>1. PICK w \in Workers : Dispatch(e, w) /\ job'[e].worker = w
      BY <2>4
    <3>2. \A f \in Execs : pc[f] # "idle" => job[f].worker # w
      BY <3>1 DEF Dispatch, Named, Alive
    <3> QED
      BY <2>2, <3>1, <3>2 DEF Distinct
  <2> QED
    BY <2>1, <2>3, <2>4, WorkerKept
<1>2. CASE Environment
  BY <1>2, EnvironmentKeeps DEF Distinct
<1>3. CASE UNCHANGED vars
  BY <1>3 DEF vars, Distinct
<1> QED
  BY <1>1, <1>2, <1>3 DEF Next

-----------------------------------------------------------------------------
(* The ledger *)

\* What a step of an execution does to the row of a source
LEMMA RowMoves ==
  ASSUME LedgerInv, NEW e \in Execs, Step(e), NEW s \in Sources
  PROVE  /\ Counted(s)' /\ ledger'[s].cursor >= ledger[s].cursor
         /\ \/ ledger'[s].owner = 0
            \/ /\ ledger'[s].cursor = ledger[s].cursor
               /\ \/ ledger'[s].owner = ledger[s].owner
                  \/ ClaimNext(e) /\ ledger'[s].owner = job[e].worker
<1> DEFINE row == ledger[s]
<1> USE DEF ledgerVars, sourceVars
<1>0. /\ ledger \in [Sources -> RowType] /\ row \in RowType
      /\ row.shards \in Nat /\ row.cursor \in Nat
      /\ evidence[s].batches \in Nat /\ job[e].source \in Sources /\ Counted(s)
  <2>1. TypeOK /\ Counted(s)
    BY DEF LedgerInv
  <2>2. ledger \in [Sources -> RowType] /\ row \in RowType /\ evidence[s] \in EvidenceType
    BY <2>1 DEF TypeOK
  <2> QED
    BY <2>1, <2>2, InHand, IngestionConstants DEF RowType, EvidenceType
<1>1. CASE UNCHANGED ledger /\ UNCHANGED evidence
  BY <1>0, <1>1 DEF Counted
<1>2. CASE Register(e)
  <2>1. PICK t \in Sources : /\ ledger[t].status = "NONE" /\ UNCHANGED evidence
                             /\ \E x \in {"BLOCKED", "AVAILABLE"} :
                                  ledger' = [ledger EXCEPT ![t] = NewRow(x)]
    <3>1. job[e].found \subseteq Sources
      BY InHand DEF LedgerInv
    <3> QED
      BY <1>2, <3>1 DEF Register, Missing, Registered
  <2>2. CASE t = s
    <3>1. /\ ledger'[s].cursor = 0 /\ ledger'[s].shards = 0 /\ ledger'[s].owner = 0
          /\ ledger'[s].status \in {"BLOCKED", "AVAILABLE"} /\ ledger[s].status = "NONE"
      BY <1>0, <2>1, <2>2 DEF NewRow
    <3> QED
      BY <1>0, <2>1, <3>1 DEF Counted
  <2>3. CASE t # s
    BY <1>0, <2>1, <2>3 DEF Counted
  <2> QED
    BY <2>2, <2>3
<1>3. CASE ClaimNext(e)
  <2>1. PICK t \in Sources : /\ ledger' = [ledger EXCEPT ![t] = Claimed(ledger[t], job[e].worker)]
                             /\ UNCHANGED evidence
    BY <1>3 DEF ClaimNext
  <2>2. CASE t = s
    <3>1. ledger'[s] = [row EXCEPT !.status = "PROCESSING", !.owner = job[e].worker, !.live = TRUE]
      BY <1>0, <2>1, <2>2 DEF Claimed
    <3>2. /\ ledger'[s].status = "PROCESSING" /\ ledger'[s].cursor = row.cursor
          /\ ledger'[s].shards = row.shards /\ ledger'[s].owner = job[e].worker
      BY <1>0, <3>1 DEF RowType
    <3> QED
      BY <1>0, <1>3, <2>1, <3>2 DEF Counted
  <2>3. CASE t # s
    BY <1>0, <2>1, <2>3 DEF Counted
  <2> QED
    BY <2>2, <2>3
<1>4. CASE Checkpoint(e)
  <2>1. CASE UNCHANGED ledger
    BY <1>1, <1>4, <2>1 DEF Checkpoint
  <2>2. CASE s # job[e].source
    BY <1>0, <1>4, <2>2 DEF Checkpoint, Counted
  <2>3. CASE ledger' # ledger /\ s = job[e].source
    <3> DEFINE left == job[e].batch < evidence[s].batches
               next == IF left THEN job[e].batch + 1 ELSE evidence[s].batches
               n == IF left THEN 1 ELSE 0
    <3>1. /\ row.owner = job[e].worker /\ pc[e] = "checkpoint" /\ UNCHANGED evidence
          /\ ledger'[s] = Checkpointed(row, next, n, next = evidence[s].batches)
      BY <1>0, <1>4, <2>3 DEF Checkpoint, MayCheckpoint
    <3>2. row.cursor = job[e].batch /\ job[e].batch \in Nat
      <4>1. Tied(e) /\ TypeOK
        BY DEF LedgerInv
      <4> QED
        BY <2>3, <3>1, <4>1, InHand DEF Tied, BatchPcs
    <3>3. /\ ledger'[s].cursor = next /\ ledger'[s].shards = row.shards + n
          /\ ledger'[s].owner = 0 /\ ledger'[s].status # "NONE"
          /\ ledger'[s].status = "PROCESSED" => next = evidence[s].batches
      BY <1>0, <3>1 DEF Checkpointed, RowType
    <3>4. row.shards = row.cursor /\ row.cursor <= evidence[s].batches
      BY <1>0 DEF Counted
    <3>5. next = row.cursor + n /\ next <= evidence[s].batches /\ next >= row.cursor
      BY <1>0, <3>2, <3>4
    <3> QED
      BY <1>0, <3>1, <3>3, <3>4, <3>5 DEF Counted
  <2> QED
    BY <2>1, <2>2, <2>3
<1>5. CASE Block(e)
  <2>1. UNCHANGED evidence /\ (ledger'[s] = row \/ ledger'[s] = BlockedRow(row))
    BY <1>0, <1>5 DEF Block
  <2>2. CASE ledger'[s] = row
    BY <1>0, <2>1, <2>2 DEF Counted
  <2>3. CASE ledger'[s] = BlockedRow(row)
    <3>1. /\ ledger'[s].cursor = row.cursor /\ ledger'[s].shards = row.shards
          /\ ledger'[s].owner = 0 /\ ledger'[s].status = "BLOCKED"
      BY <1>0, <2>3 DEF BlockedRow, RowType
    <3> QED
      BY <1>0, <2>1, <3>1 DEF Counted
  <2> QED
    BY <2>1, <2>2, <2>3
<1>6. CASE PassDone(e) \/ ClaimPipeline(e) \/ NoMoreWork(e) \/ Ingest(e) \/ Capture(e) \/ Keep(e)
           \/ Persist(e) \/ Create(e) \/ Artifact(e) \/ Heartbeat(e) \/ Release(e)
  BY <1>1, <1>6 DEF PassDone, ClaimPipeline, NoMoreWork, Ingest, Capture, Keep,
     Persist, Create, Artifact, Heartbeat, Release
<1>7. CASE (\E w \in Workers : Dispatch(e, w)) \/ LockFails(e) \/ CallFails(e) \/ Crash(e)
  BY <1>1, <1>7 DEF Dispatch, LockFails, CallFails, Crash
<1> QED
  BY <1>2, <1>3, <1>4, <1>5, <1>6, <1>7 DEF Step, Progress

\* What the environment does to the row of a source
LEMMA RowLasts ==
  ASSUME LedgerInv, Environment, NEW s \in Sources
  PROVE  /\ Counted(s)' /\ ledger'[s].cursor = ledger[s].cursor
         /\ ledger'[s].owner \in {0, ledger[s].owner}
<1> USE DEF ledgerVars, sourceVars
<1>0. /\ ledger \in [Sources -> RowType] /\ ledger[s] \in RowType /\ Counted(s)
  BY DEF LedgerInv, TypeOK
<1>1. UNCHANGED evidence
  BY EnvironmentKeeps DEF LedgerInv
<1>2. CASE UNCHANGED ledger
  BY <1>0, <1>1, <1>2 DEF Counted
<1>3. CASE \E t \in Sources : Announce(t)
  <2>1. PICK t \in Sources : ledger[t].status = "NONE" /\ \E x \in {"BLOCKED", "AVAILABLE"} :
                               ledger' = [ledger EXCEPT ![t] = NewRow(x)]
    BY <1>3 DEF Announce, Registered
  <2>2. CASE t = s
    <3>1. /\ ledger'[s].cursor = 0 /\ ledger'[s].shards = 0 /\ ledger'[s].owner = 0
          /\ ledger'[s].status \in {"BLOCKED", "AVAILABLE"} /\ ledger[s].status = "NONE"
      BY <1>0, <2>1, <2>2 DEF NewRow
    <3> QED
      BY <1>0, <1>1, <3>1 DEF Counted
  <2>3. CASE t # s
    BY <1>0, <1>1, <2>1, <2>3 DEF Counted
  <2> QED
    BY <2>2, <2>3
<1>4. CASE \E t \in Sources : ExpireClaim(t)
  <2>1. PICK t \in Sources : ledger' = [ledger EXCEPT ![t].live = FALSE]
    BY <1>4 DEF ExpireClaim
  <2>2. /\ ledger'[s].cursor = ledger[s].cursor /\ ledger'[s].shards = ledger[s].shards
        /\ ledger'[s].owner = ledger[s].owner /\ ledger'[s].status = ledger[s].status
    BY <1>0, <2>1 DEF RowType
  <2> QED
    BY <1>0, <1>1, <2>2 DEF Counted
<1> QED
  BY <1>2, <1>3, <1>4 DEF Environment, Offer, ExpireLease, Pause, Resume

\* A batch in hand stays tied to the cursor of its source
LEMMA TiedStep ==
  ASSUME LedgerInv, [Next]_vars, NEW f \in Execs
  PROVE  Tied(f)'
<1>0. TypeOK /\ Distinct /\ Tied(f) /\ TypeOK' /\ \A s \in Sources : ledger[s].cursor \in Nat
  BY TypeStep DEF LedgerInv, TypeOK, RowType
<1> SUFFICES ASSUME pc'[f] \in BatchPcs PROVE Tied(f)'
  BY DEF Tied
<1> DEFINE s == job'[f].source
<1>1. /\ s \in Sources /\ job'[f].batch \in Nat /\ ledger'[s].cursor \in Nat
      /\ ledger[s].cursor \in Nat
  BY <1>0 DEF TypeOK, JobType, RowType
<1>2. ASSUME pc[f] \in BatchPcs, job'[f].worker = job[f].worker, job'[f].source = job[f].source,
             job'[f].batch = job[f].batch, ledger'[s].cursor >= ledger[s].cursor,
             \/ ledger'[s].owner = 0
             \/ ledger'[s].cursor = ledger[s].cursor /\ ledger'[s].owner = ledger[s].owner
             \/ ledger'[s].cursor = ledger[s].cursor /\ ledger'[s].owner # job[f].worker
      PROVE  Tied(f)'
  <2>1. job[f].worker # 0
    BY <1>0, <1>2, PcNames, IngestionConstants DEF Distinct, Workers
  <2>2. job[f].batch <= ledger[s].cursor
        /\ (ledger[s].owner = job[f].worker => ledger[s].cursor = job[f].batch)
    BY <1>0, <1>2 DEF Tied
  <2> QED
    BY <1>0, <1>1, <1>2, <2>1, <2>2 DEF Tied
<1>3. CASE \E e \in Execs : Step(e)
  <2>1. PICK e \in Execs : Step(e)
    BY <1>3
  <2>2. /\ ledger'[s].cursor >= ledger[s].cursor
        /\ \/ ledger'[s].owner = 0
           \/ /\ ledger'[s].cursor = ledger[s].cursor
              /\ \/ ledger'[s].owner = ledger[s].owner
                 \/ ClaimNext(e) /\ ledger'[s].owner = job[e].worker
    BY <1>1, <2>1, RowMoves
  <2>3. CASE f # e
    <3>1. pc'[f] = pc[f] /\ job'[f] = job[f]
      BY <1>0, <2>1, <2>3, OthersKept
    <3>2. ClaimNext(e) => job[e].worker # job[f].worker
      BY <1>0, <2>3, <3>1, PcNames DEF Distinct, ClaimNext
    <3> QED
      BY <1>2, <2>2, <3>1, <3>2
  <2>4. CASE f = e /\ ClaimNext(e)
    <3>1. PICK t \in Sources : /\ ledger' = [ledger EXCEPT ![t] = Claimed(ledger[t], job[e].worker)]
                               /\ job' = [job EXCEPT ![e].source = t, ![e].batch = ledger[t].cursor]
      BY <2>4 DEF ClaimNext
    <3>2. s = t /\ job'[f].batch = ledger[t].cursor
      BY <1>0, <2>4, <3>1 DEF TypeOK, JobType
    <3>3. ledger'[t].cursor = ledger[t].cursor
      BY <1>0, <3>1 DEF Claimed, TypeOK, RowType
    <3> QED
      BY <1>1, <3>2, <3>3 DEF Tied
  <2>5. CASE f = e /\ ~ClaimNext(e)
    BY <1>0, <1>2, <2>1, <2>2, <2>5, BatchKept
  <2> QED
    BY <2>3, <2>4, <2>5
<1>4. CASE Environment
  <2>1. ledger'[s].cursor = ledger[s].cursor /\ ledger'[s].owner \in {0, ledger[s].owner}
    BY <1>1, <1>4, RowLasts
  <2>2. /\ pc'[f] = pc[f] /\ job'[f].worker = job[f].worker /\ job'[f].source = job[f].source
        /\ job'[f].batch = job[f].batch
    BY <1>0, <1>4, EnvironmentKeeps
  <2> QED
    BY <1>1, <1>2, <2>1, <2>2
<1>5. CASE UNCHANGED vars
  BY <1>0, <1>5 DEF vars, ledgerVars, Tied
<1> QED
  BY <1>3, <1>4, <1>5 DEF Next

\* Whoever is about to checkpoint a batch has registered its shard
LEMMA StoredStep ==
  ASSUME LedgerInv, [Next]_vars, NEW f \in Execs
  PROVE  Stored(f)'
<1> USE DEF sourceVars, driveVars
<1>0. TypeOK /\ Stored(f)
  BY DEF LedgerInv
<1>1. CASE \E e \in Execs : Step(e)
  <2>1. PICK e \in Execs : Step(e)
    BY <1>1
  <2>2. UNCHANGED evidence /\ artifacts \subseteq artifacts'
    <3>1. CASE Progress(e)
      BY <3>1 DEF Progress, Register, PassDone, ClaimPipeline, ClaimNext, NoMoreWork,
         Ingest, Capture, Keep, Persist, Create, Artifact, Checkpoint, Heartbeat, Block, Release
    <3>2. CASE (\E w \in Workers : Dispatch(e, w)) \/ LockFails(e) \/ CallFails(e) \/ Crash(e)
      BY <3>2 DEF Dispatch, LockFails, CallFails, Crash
    <3> QED
      BY <2>1, <3>1, <3>2 DEF Step
  <2>3. CASE f # e
    <3>1. pc'[f] = pc[f] /\ job'[f] = job[f]
      BY <1>0, <2>1, <2>3, OthersKept
    <3> QED
      BY <1>0, <2>2, <3>1 DEF Stored
  <2>4. CASE f = e /\ Artifact(e)
    <3>1. job'[e] = job[e] /\ Shard(e, job[e].maker) \in artifacts'
      BY <2>4 DEF Artifact
    <3>2. Shard(e, job[e].maker).source = job[e].source /\ Shard(e, job[e].maker).batch = job[e].batch
      BY DEF Shard
    <3> QED
      BY <2>2, <2>4, <3>1, <3>2 DEF Stored
  <2>5. CASE f = e /\ Ingest(e)
    <3>1. pc'[e] = "checkpoint" => job' = job /\ job[e].batch >= evidence[job[e].source].batches
      BY <1>0, <2>5 DEF Ingest, Goto, Fail, TypeOK
    <3>2. job[e].batch \in Nat /\ evidence[job[e].source].batches \in Nat
      BY <1>0, InHand
    <3> QED
      BY <2>2, <2>5, <3>1, <3>2 DEF Stored
  <2>6. CASE f = e /\ pc'[e] # "checkpoint"
    BY <2>6 DEF Stored
  <2>7. Artifact(e) \/ Ingest(e) \/ pc'[e] # "checkpoint"
    <3>0. pc \in [Execs -> Pcs]
      BY <1>0 DEF TypeOK
    <3>1. CASE Progress(e)
      <4>1. CASE Register(e) \/ PassDone(e) \/ ClaimPipeline(e) \/ ClaimNext(e) \/ NoMoreWork(e)
        BY <3>0, <4>1 DEF Register, PassDone, WorkStarts, ClaimPipeline, ClaimNext, NoMoreWork, Goto, End
      <4>2. CASE Capture(e) \/ Keep(e) \/ Persist(e) \/ Create(e)
        BY <3>0, <4>2 DEF Capture, Keep, Persist, Create, Goto, Fail
      <4>3. CASE Checkpoint(e) \/ Heartbeat(e) \/ Block(e) \/ Release(e)
        BY <3>0, <4>3 DEF Checkpoint, Heartbeat, Block, Release, Goto, Fail, End
      <4> QED
        BY <3>1, <4>1, <4>2, <4>3 DEF Progress
    <3>2. CASE (\E w \in Workers : Dispatch(e, w)) \/ LockFails(e) \/ CallFails(e) \/ Crash(e)
      BY <3>0, <3>2 DEF Dispatch, LockFails, CallFails, Crash, WorkStarts, Goto, Fail, End
    <3> QED
      BY <2>1, <3>1, <3>2 DEF Step
  <2> QED
    BY <2>3, <2>4, <2>5, <2>6, <2>7
<1>2. CASE Environment
  <2>1. UNCHANGED <<pc, evidence, artifacts>> /\ job'[f].source = job[f].source
        /\ job'[f].batch = job[f].batch
    BY <1>0, <1>2, EnvironmentKeeps
  <2> QED
    BY <1>0, <2>1 DEF Stored
<1>3. CASE UNCHANGED vars
  BY <1>0, <1>3 DEF vars, Stored
<1> QED
  BY <1>1, <1>2, <1>3 DEF Next

\* The invariant of the ledger holds at the start and is kept by every step
LEMMA LedgerInvariant == Spec => []LedgerInv
<1>1. Init => LedgerInv
  <2> SUFFICES ASSUME Init PROVE LedgerInv
    OBVIOUS
  <2>1. TypeOK
    BY TypeInit
  <2>2. Distinct /\ \A e \in Execs : Tied(e) /\ Stored(e)
    BY PcNames DEF Init, Distinct, Tied, Stored
  <2>3. \A s \in Sources : evidence[s].batches \in Nat
    BY <2>1, IngestionConstants DEF TypeOK, EvidenceType
  <2>4. \A s \in Sources : Counted(s)
    BY <2>3 DEF Init, NoRow, NewRow, Counted
  <2> QED
    BY <2>1, <2>2, <2>4 DEF LedgerInv
<1>2. LedgerInv /\ [Next]_vars => LedgerInv'
  <2> SUFFICES ASSUME LedgerInv, [Next]_vars PROVE LedgerInv'
    OBVIOUS
  <2>1. TypeOK' /\ Distinct'
    BY TypeStep, DistinctStep DEF LedgerInv
  <2>2. \A e \in Execs : Tied(e)' /\ Stored(e)'
    BY TiedStep, StoredStep
  <2>3. ASSUME NEW s \in Sources PROVE Counted(s)'
    <3>1. CASE \E e \in Execs : Step(e)
      BY <3>1, RowMoves
    <3>2. CASE Environment
      BY <3>2, RowLasts
    <3>3. CASE UNCHANGED vars
      BY <3>3 DEF vars, ledgerVars, sourceVars, LedgerInv, Counted
    <3> QED
      BY <3>1, <3>2, <3>3 DEF Next
  <2> QED
    BY <2>1, <2>2, <2>3 DEF LedgerInv
<1> QED
  BY <1>1, <1>2, PTL DEF Spec

(* The ledger of the code counts exactly: a claim that expired under a      *)
(* worker, a retry or a failed step can neither count a batch twice nor     *)
(* call a source processed that has batches left.                           *)
THEOREM CountsCorrect == Spec => []CountsExact
<1>1. LedgerInv => CountsExact
  BY DEF LedgerInv, Counted, CountsExact
<1> QED
  BY <1>1, LedgerInvariant, PTL

-----------------------------------------------------------------------------
(* The refinement of Delivery *)

CursorOf == [s \in Sources |-> ledger[s].cursor]
KeptBatches == {<<f.source, f.batch>> : f \in artifacts}

\* A worker passes a batch of its source only when the payloads are kept
LEMMA CheckpointPasses ==
  ASSUME LedgerInv, NEW e \in Execs, Checkpoint(e)
  PROVE  UNCHANGED KeptBatches /\ (UNCHANGED CursorOf \/ \E s \in Sources : Abstract!Pass(s))
<1> DEFINE s == job[e].source
           row == ledger[s]
           left == job[e].batch < evidence[s].batches
           next == IF left THEN job[e].batch + 1 ELSE evidence[s].batches
<1>0. /\ TypeOK /\ s \in Sources /\ row \in RowType /\ row.cursor \in Nat
      /\ ledger \in [Sources -> RowType]
      /\ job[e].batch \in Nat /\ evidence[s].batches \in Nat
  BY InHand DEF LedgerInv, TypeOK, RowType
<1>1. UNCHANGED artifacts
  BY DEF Checkpoint, driveVars
<1>2. UNCHANGED KeptBatches
  BY <1>1 DEF KeptBatches
<1>3. CASE UNCHANGED ledger
  BY <1>2, <1>3 DEF CursorOf
<1>4. CASE ledger' # ledger
  <2>1. /\ row.owner = job[e].worker /\ pc[e] = "checkpoint"
        /\ ledger' = [ledger EXCEPT ![s] =
             Checkpointed(row, next, IF left THEN 1 ELSE 0, next = evidence[s].batches)]
    BY <1>4 DEF Checkpoint, MayCheckpoint
  <2>2. row.cursor = job[e].batch /\ row.cursor <= evidence[s].batches
    BY <1>0, <2>1 DEF LedgerInv, Tied, Counted, BatchPcs
  <2>3. Checkpointed(row, next, IF left THEN 1 ELSE 0, next = evidence[s].batches).cursor = next
    BY <1>0 DEF Checkpointed, RowType
  <2>4. CursorOf' = [CursorOf EXCEPT ![s] = next]
    <3>1. \A t \in Sources : ledger'[t].cursor = IF t = s THEN next ELSE ledger[t].cursor
      BY <1>0, <2>1, <2>3
    <3> QED
      BY <1>0, <3>1 DEF CursorOf
  <2>5. CASE left
    <3>1. next = CursorOf[s] + 1
      BY <1>0, <2>2, <2>5 DEF CursorOf
    <3>2. PICK f \in artifacts : f.source = s /\ f.batch = job[e].batch
      BY <2>1, <2>5 DEF LedgerInv, Stored
    <3>3. <<s, CursorOf[s]>> \in KeptBatches
      BY <1>0, <2>2, <3>2 DEF CursorOf, KeptBatches
    <3> QED
      BY <1>0, <1>2, <2>4, <3>1, <3>3 DEF Abstract!Pass, CursorOf, KeptBatches
  <2>6. CASE ~left
    <3>1. next = CursorOf[s]
      BY <1>0, <2>2, <2>6 DEF CursorOf
    <3> QED
      BY <1>0, <1>2, <2>4, <3>1 DEF CursorOf
  <2> QED
    BY <2>5, <2>6
<1> QED
  BY <1>2, <1>3, <1>4

\* A shard is registered for a batch passed or for the next one
LEMMA ArtifactKeeps ==
  ASSUME LedgerInv, NEW e \in Execs, pc[e] = "artifact", UNCHANGED CursorOf,
         artifacts' = artifacts \union {Shard(e, job[e].maker)}
  PROVE  \E s \in Sources : \E b \in 0..CursorOf[s] : Abstract!Keep(s, b)
<1> DEFINE s == job[e].source
           b == job[e].batch
<1>1. s \in Sources /\ b \in Nat /\ ledger[s].cursor \in Nat
  BY InHand DEF LedgerInv, RowType
<1>2. b \in 0..CursorOf[s]
  BY <1>1 DEF LedgerInv, Tied, BatchPcs, CursorOf
<1>3. KeptBatches' = KeptBatches \union {<<s, b>>}
  <2>1. Shard(e, job[e].maker).source = s /\ Shard(e, job[e].maker).batch = b
    BY DEF Shard
  <2> QED
    BY <2>1 DEF KeptBatches
<1> HIDE DEF s, b
<1> QED
  BY <1>1, <1>2, <1>3 DEF Abstract!Keep, CursorOf, KeptBatches

\* Every step of the workers is a step of the promise, or none
LEMMA DeliveryStep ==
  ASSUME LedgerInv, [Next]_vars
  PROVE  Abstract!Next \/ UNCHANGED <<CursorOf, KeptBatches>>
<1> USE DEF driveVars, ledgerVars
<1>0. ledger \in [Sources -> RowType]
  BY DEF LedgerInv, TypeOK
<1>1. ASSUME \A s \in Sources : ledger'[s].cursor = ledger[s].cursor
      PROVE  UNCHANGED CursorOf
  BY <1>1 DEF CursorOf
<1>2. CASE \E e \in Execs : Step(e)
  <2>1. PICK e \in Execs : Step(e)
    BY <1>2
  <2>2. CASE Checkpoint(e)
    BY <2>2, CheckpointPasses DEF Abstract!Next
  <2>3. CASE ~Checkpoint(e)
    <3>1. UNCHANGED CursorOf
      <4>1. CASE UNCHANGED ledger
        BY <4>1 DEF CursorOf
      <4>2. CASE ClaimNext(e) \/ Block(e)
        <5>1. PICK t \in Sources : \E row \in {Claimed(ledger[t], job[e].worker), BlockedRow(ledger[t]), ledger[t]} :
                 ledger' = [ledger EXCEPT ![t] = row]
          BY <1>0, <4>2, InHand DEF ClaimNext, Block, LedgerInv
        <5>2. /\ Claimed(ledger[t], job[e].worker).cursor = ledger[t].cursor
              /\ BlockedRow(ledger[t]).cursor = ledger[t].cursor
          BY <1>0 DEF Claimed, BlockedRow, RowType
        <5> QED
          BY <1>0, <1>1, <5>1, <5>2
      <4>3. CASE Register(e)
        <5>1. PICK t \in Sources : ledger[t].status = "NONE" /\ \E x : ledger' = [ledger EXCEPT ![t] = NewRow(x)]
          BY <4>3, InHand DEF Register, Missing, Registered, LedgerInv
        <5>2. ledger[t].cursor = 0 /\ \A x : NewRow(x).cursor = 0
          BY <5>1 DEF LedgerInv, Counted, NewRow
        <5> QED
          BY <1>0, <1>1, <5>1, <5>2
      <4> QED
        BY <2>1, <2>3, <4>1, <4>2, <4>3 DEF Step, Progress, PassDone, ClaimPipeline, NoMoreWork,
           Ingest, Capture, Keep, Persist, Create, Artifact, Heartbeat, Release, Dispatch,
           LockFails, CallFails, Crash
    <3>2. \/ UNCHANGED artifacts
          \/ pc[e] = "artifact" /\ artifacts' = artifacts \union {Shard(e, job[e].maker)}
      BY <2>1, <2>3 DEF Step, Progress, Register, PassDone, ClaimPipeline, ClaimNext, NoMoreWork,
         Ingest, Capture, Keep, Persist, Create, Artifact, Heartbeat, Block, Release, Dispatch,
         LockFails, CallFails, Crash
    <3>3. CASE UNCHANGED artifacts
      BY <3>1, <3>3 DEF KeptBatches
    <3>4. CASE pc[e] = "artifact" /\ artifacts' = artifacts \union {Shard(e, job[e].maker)}
      BY <3>1, <3>4, ArtifactKeeps DEF Abstract!Next, CursorOf
    <3> QED
      BY <3>2, <3>3, <3>4
  <2> QED
    BY <2>2, <2>3
<1>3. CASE Environment
  <2>1. \A s \in Sources : ledger'[s].cursor = ledger[s].cursor
    BY <1>3, RowLasts
  <2>2. UNCHANGED artifacts
    BY <1>3, EnvironmentKeeps DEF LedgerInv
  <2> QED
    BY <1>1, <2>1, <2>2 DEF KeptBatches
<1>4. CASE UNCHANGED vars
  BY <1>4 DEF vars, CursorOf, KeptBatches
<1> QED
  BY <1>2, <1>3, <1>4 DEF Next

(* The workers of any number of executions, through crashes, expired claims *)
(* and failed calls, pass the batches of a source in order, each once and   *)
(* only with its payloads kept: the module implements Delivery.             *)
THEOREM DeliveredCorrect == Spec => Delivered
<1>1. Init => Abstract!Init
  BY DEF Init, NoRow, NewRow, Abstract!Init
<1>2. LedgerInv /\ [Next]_vars => [Abstract!Next]_<<CursorOf, KeptBatches>>
  BY DeliveryStep
<1> QED
  BY <1>1, <1>2, LedgerInvariant, PTL DEF Spec, Delivered, Abstract!Spec, CursorOf, KeptBatches

-----------------------------------------------------------------------------
(* The pipeline lease *)

\* What has outlasted its lease stays in the history
LEMMA HistoryLasts ==
  ASSUME [Next]_vars
  PROVE  outlasted => outlasted'
<1> USE DEF faultVars
<1>1. CASE \E e \in Execs : Step(e)
  <2>1. PICK e \in Execs : Step(e)
    BY <1>1
  <2>2. CASE Progress(e) \/ \E w \in Workers : Dispatch(e, w)
    BY <2>2 DEF Progress, Register, PassDone, ClaimPipeline, ClaimNext, NoMoreWork, Ingest,
       Capture, Keep, Persist, Create, Artifact, Checkpoint, Heartbeat, Block, Release, Dispatch
  <2>3. CASE LockFails(e) \/ CallFails(e) \/ Crash(e)
    BY <2>3 DEF LockFails, CallFails, Crash, Charge
  <2> QED
    BY <2>1, <2>2, <2>3 DEF Step
<1>2. CASE Environment
  BY <1>2 DEF Environment, Offer, Announce, ExpireClaim, ExpireLease, Pause, Resume, Expires, Charge
<1>3. CASE UNCHANGED vars
  BY <1>3 DEF vars
<1> QED
  BY <1>1, <1>2, <1>3 DEF Next

\* No step of an execution marks it as slow
LEMMA SlowKept ==
  ASSUME TypeOK, NEW e \in Execs, Step(e), job'[e].slow
  PROVE  job[e].slow
<1> DEFINE j == job[e]
<1>0. job \in [Execs -> JobType] /\ j \in JobType
  BY DEF TypeOK
<1>1. CASE UNCHANGED job
  BY <1>1
<1>2. CASE job'[e] = NoJob \/ \E w : job'[e] = [NoJob EXCEPT !.worker = w, !.found = offered]
  <2>1. NoJob.slow = FALSE /\ \A w : [NoJob EXCEPT !.worker = w, !.found = offered].slow = FALSE
    BY DEF NoJob
  <2> QED
    BY <1>2, <2>1
<1>3. CASE job'[e] = [j EXCEPT !.found = {}] \/ \E b \in BOOLEAN : job'[e] = Afterwards(e, b)
  BY <1>0, <1>3 DEF Afterwards, NoJob, JobType
<1>4. CASE \E s, w : job'[e] \in {[j EXCEPT !.source = s, !.batch = w], [j EXCEPT !.by = w],
                                  [j EXCEPT !.maker = w]}
  BY <1>0, <1>4 DEF JobType
<1>5. CASE Register(e) \/ PassDone(e) \/ ClaimPipeline(e) \/ NoMoreWork(e)
  BY <1>0, <1>5, <1>1, <1>2, <1>3 DEF Register, PassDone, WorkStarts, ClaimPipeline, NoMoreWork, End
<1>6. CASE ClaimNext(e)
  BY <1>0, <1>6, <1>4 DEF ClaimNext
<1>7. CASE Ingest(e) \/ Capture(e) \/ Persist(e) \/ Create(e)
  BY <1>0, <1>7, <1>1, <1>4 DEF Ingest, Capture, Persist, Create, Fail
<1>8. CASE Keep(e) \/ Artifact(e) \/ Checkpoint(e)
  BY <1>8, <1>1 DEF Keep, Artifact, Checkpoint, Fail
<1>9. CASE Heartbeat(e) \/ Block(e) \/ Release(e)
  BY <1>0, <1>9, <1>1, <1>2, <1>3 DEF Heartbeat, Block, Release, Fail, End
<1>10. CASE LockFails(e) \/ CallFails(e) \/ Crash(e)
  BY <1>0, <1>10, <1>1, <1>2, <1>3 DEF LockFails, CallFails, Crash, WorkStarts, Fail, End
<1>11. CASE \E w \in Workers : Dispatch(e, w)
  BY <1>0, <1>11, <1>2 DEF Dispatch
<1> QED
  BY <1>5, <1>6, <1>7, <1>8, <1>9, <1>10, <1>11 DEF Step, Progress

\* The lease is taken before the work, and kept until it ends
LEMMA HoldingKept ==
  ASSUME TypeOK, NEW e \in Execs, Step(e), pc'[e] \in HoldingPcs
  PROVE  ClaimPipeline(e) \/ (pc[e] \in HoldingPcs /\ job'[e].worker = job[e].worker)
<1>0. pc \in [Execs -> Pcs]
  BY DEF TypeOK
<1>1. CASE Register(e) \/ PassDone(e)
  BY <1>0, <1>1, PcNames DEF Register, PassDone, WorkStarts, Goto
<1>2. CASE \E w \in Workers : Dispatch(e, w)
  BY <1>0, <1>2, PcNames DEF Dispatch, Goto
<1>3. CASE pc[e] \in HoldingPcs
  <2>1. ~\E w \in Workers : Dispatch(e, w)
    BY <1>3, PcNames DEF Dispatch
  <2>2. pc'[e] # "idle"
    BY PcNames
  <2> QED
    BY <1>3, <2>1, <2>2, WorkerKept
<1>4. CASE LockFails(e) \/ CallFails(e) \/ Crash(e)
  <2>1. pc[e] \in HoldingPcs
    BY <1>0, <1>4, PcNames DEF LockFails, CallFails, Crash, WorkStarts, Goto, Fail, End
  <2> QED
    BY <2>1, <1>3
<1>5. CASE ClaimNext(e) \/ NoMoreWork(e) \/ Ingest(e) \/ Capture(e) \/ Keep(e) \/ Persist(e)
           \/ Create(e) \/ Artifact(e) \/ Checkpoint(e) \/ Heartbeat(e) \/ Block(e) \/ Release(e)
  <2>1. pc[e] \in HoldingPcs
    BY <1>5, PcNames DEF ClaimNext, NoMoreWork, Ingest, Capture, Keep, Persist, Create,
       Artifact, Checkpoint, Heartbeat, Block, Release
  <2> QED
    BY <2>1, <1>3
<1> QED
  BY <1>1, <1>2, <1>4, <1>5 DEF Step, Progress

\* While no worker outlasts its lease, two executions never hold it
LEMMA Alone ==
  ASSUME LeaseInv, ~outlasted, NEW e \in Execs, pc[e] \in HoldingPcs,
         NEW f \in Execs, pc[f] \in HoldingPcs
  PROVE  e = f
BY PcNames DEF LeaseInv, Held, Distinct

\* A step leaves the lease with whoever holds it
LEMMA LeaseStep ==
  ASSUME LeaseInv, NEW e \in Execs, Step(e), ~outlasted,
         NEW f \in Execs, pc'[f] \in HoldingPcs
  PROVE  lease'.live /\ lease'.worker = job'[f].worker
<1>0. TypeOK /\ Distinct /\ lease \in [worker : 0..MaxWorkers, live : BOOLEAN]
  BY DEF LeaseInv, TypeOK
<1>1. \A g \in Execs : pc[g] \in HoldingPcs =>
        lease.live /\ lease.worker = job[g].worker /\ lease.worker # 0
  BY PcNames, IngestionConstants DEF LeaseInv, Held, Distinct, Workers
<1>2. f # e => pc'[f] = pc[f] /\ job'[f] = job[f]
  BY <1>0, OthersKept
<1>3. CASE ClaimPipeline(e)
  <2>1. pc[e] = "pipeline" /\ pc \in [Execs -> Pcs]
    BY <1>0, <1>3 DEF ClaimPipeline, TypeOK
  <2>2. CASE lease.worker # 0 /\ lease.live
    <3>1. pc'[e] = "idle" /\ UNCHANGED lease
      BY <1>3, <2>1, <2>2 DEF ClaimPipeline, End, Goto
    <3> QED
      BY <1>1, <1>2, <3>1, PcNames
  <2>3. CASE ~(lease.worker # 0 /\ lease.live)
    <3>1. lease' = [worker |-> job[e].worker, live |-> TRUE] /\ UNCHANGED job
      BY <1>3, <2>3 DEF ClaimPipeline
    <3>2. f = e
      BY <1>1, <1>2, <2>3
    <3> QED
      BY <3>1, <3>2
  <2> QED
    BY <2>2, <2>3
<1>4. CASE Heartbeat(e)
  <2>1. pc[e] \in HoldingPcs
    BY <1>4, PcNames DEF Heartbeat
  <2>2. lease' = [lease EXCEPT !.live = TRUE]
    BY <1>1, <1>4, <2>1 DEF Heartbeat
  <2>3. lease'.live /\ lease'.worker = lease.worker
    BY <1>0, <2>2
  <2>4. f = e
    BY <1>2, <2>1, Alone
  <2>5. job'[e].worker = job[e].worker
    BY <1>0, <1>4, <2>4, HoldingKept DEF Heartbeat, ClaimPipeline
  <2> QED
    BY <1>1, <2>1, <2>3, <2>4, <2>5
<1>5. CASE Release(e)
  <2>1. pc[e] \in HoldingPcs /\ pc'[e] = "idle"
    BY <1>0, <1>5, PcNames DEF Release, End, Goto, TypeOK
  <2> QED
    BY <1>2, <2>1, Alone, PcNames
<1>6. CASE UNCHANGED lease /\ ~ClaimPipeline(e)
  <2>1. pc[f] \in HoldingPcs /\ job'[f].worker = job[f].worker
    BY <1>0, <1>2, <1>6, HoldingKept
  <2> QED
    BY <1>1, <1>6, <2>1
<1> QED
  BY <1>3, <1>4, <1>5, <1>6 DEF Step, Progress, Register, PassDone, ClaimNext, NoMoreWork, Ingest,
     Capture, Keep, Persist, Create, Artifact, Checkpoint, Block, Dispatch, LockFails, CallFails, Crash

\* The environment takes the lease from nobody who works, unless it says so
LEMMA LeaseLasts ==
  ASSUME LeaseInv, Environment, ~outlasted', ~outlasted,
         NEW f \in Execs, pc'[f] \in HoldingPcs
  PROVE  lease'.live /\ lease'.worker = job'[f].worker
<1>0. TypeOK
  BY DEF LeaseInv
<1>1. /\ pc[f] \in HoldingPcs /\ job'[f].worker = job[f].worker
  BY <1>0, EnvironmentKeeps
<1>2. lease.live /\ lease.worker = job[f].worker
  BY <1>1 DEF LeaseInv, Held
<1>3. CASE UNCHANGED lease
  BY <1>1, <1>2, <1>3
<1>4. CASE ExpireLease
  <2>1. Alive(lease.worker)
    BY <1>1, <1>2, PcNames DEF Alive
  <2>2. PICK g \in Execs : job[g].slow \/ Charge("slow")
    BY <1>4, <2>1 DEF ExpireLease, Expires
  <2> QED
    BY <2>2 DEF LeaseInv, Held, Charge
<1> QED
  BY <1>3, <1>4 DEF Environment, Offer, Announce, ExpireClaim, Pause, Resume

\* The invariant of the lease holds at the start and is kept by every step
LEMMA LeaseInvariant == Spec => []LeaseInv
<1>1. Init => LeaseInv
  <2> SUFFICES ASSUME Init PROVE LeaseInv
    OBVIOUS
  <2>1. TypeOK
    BY TypeInit
  <2>2. Distinct
    BY DEF Init, Distinct
  <2>3. Held
    BY PcNames DEF Init, Held, NoJob
  <2> QED
    BY <2>1, <2>2, <2>3 DEF LeaseInv
<1>2. LeaseInv /\ [Next]_vars => LeaseInv'
  <2> SUFFICES ASSUME LeaseInv, [Next]_vars PROVE LeaseInv'
    OBVIOUS
  <2>0. TypeOK /\ TypeOK' /\ Distinct'
    BY TypeStep, DistinctStep DEF LeaseInv
  <2>1. ASSUME NEW f \in Execs, job'[f].slow PROVE outlasted'
    <3>1. job[f].slow => outlasted'
      BY HistoryLasts DEF LeaseInv, Held
    <3>2. CASE \E e \in Execs : Step(e)
      <4>1. PICK e \in Execs : Step(e)
        BY <3>2
      <4>2. CASE f = e
        BY <2>0, <2>1, <3>1, <4>1, <4>2, SlowKept
      <4>3. CASE f # e
        BY <2>0, <2>1, <3>1, <4>1, <4>3, OthersKept
      <4> QED
        BY <4>2, <4>3
    <3>3. CASE Environment
      <4>1. CASE UNCHANGED job
        BY <2>1, <3>1, <4>1
      <4>2. CASE Charge("slow")
        BY <4>2 DEF Charge
      <4>3. UNCHANGED job \/ Charge("slow")
        BY <3>3 DEF Environment, Offer, Announce, ExpireClaim, ExpireLease, Pause, Resume,
           Expires
      <4> QED
        BY <4>1, <4>2, <4>3
    <3>4. CASE UNCHANGED vars
      BY <2>1, <3>1, <3>4 DEF vars
    <3> QED
      BY <3>2, <3>3, <3>4 DEF Next
  <2>2. ASSUME ~outlasted', NEW f \in Execs, pc'[f] \in HoldingPcs
        PROVE  lease'.live /\ lease'.worker = job'[f].worker
    <3>1. ~outlasted
      BY <2>2, HistoryLasts
    <3>2. CASE \E e \in Execs : Step(e)
      BY <2>2, <3>1, <3>2, LeaseStep
    <3>3. CASE Environment
      BY <2>2, <3>1, <3>3, LeaseLasts
    <3>4. CASE UNCHANGED vars
      BY <2>2, <3>1, <3>4 DEF vars, LeaseInv, Held
    <3> QED
      BY <3>2, <3>3, <3>4 DEF Next
  <2>3. Held'
    BY <2>1, <2>2 DEF Held
  <2> QED
    BY <2>0, <2>3 DEF LeaseInv
<1> QED
  BY <1>1, <1>2, PTL DEF Spec

(* For any number of executions, a pipeline has one worker as long as no    *)
(* worker outlasts its lease: the chain of dispatchers is a single one.     *)
THEOREM OneWorkerCorrect == Spec => []OneWorker
<1>1. LeaseInv => OneWorker
  BY Alone DEF OneWorker
<1> QED
  BY <1>1, LeaseInvariant, PTL

-----------------------------------------------------------------------------
(* The files in Drive *)

\* Only the worker that holds the lease adds files to Drive
LEMMA WhoAdds ==
  ASSUME TypeOK, NEW e \in Execs, Step(e)
  PROVE  \/ UNCHANGED <<captures, files>>
         \/ Keep(e) /\ UNCHANGED files
         \/ /\ pc[e] = "create" /\ UNCHANGED captures
            /\ pc'[e] \notin {"keep", "create"}
            /\ files' = files \union {Shard(e, job[e].worker)}
<1> USE DEF driveVars
<1>1. CASE Create(e)
  BY <1>1 DEF Create, Goto, TypeOK
<1>2. CASE CallFails(e)
  BY <1>2 DEF CallFails, Goto, Fail, TypeOK
<1>3. CASE Keep(e)
  BY <1>3 DEF Keep
<1> QED
  BY <1>1, <1>2, <1>3 DEF Step, Progress, Register, PassDone, ClaimPipeline, ClaimNext, NoMoreWork,
     Ingest, Capture, Persist, Artifact, Checkpoint, Heartbeat, Block, Release,
     Dispatch, LockFails, Crash

\* Who is about to keep or to create has just found nothing to use again
LEMMA FreshStart ==
  ASSUME TypeOK, NEW e \in Execs, Step(e), pc'[e] \in {"keep", "create"}
  PROVE  /\ UNCHANGED <<captures, files, job>>
         /\ pc'[e] = "keep" => Captured(e) = {}
         /\ pc'[e] = "create" => Same(e) = {}
<1> USE DEF driveVars
<1>0. pc \in [Execs -> Pcs]
  BY DEF TypeOK
<1>1. CASE Capture(e)
  BY <1>0, <1>1 DEF Capture, Goto, Fail
<1>2. CASE Persist(e)
  BY <1>0, <1>2 DEF Persist, Goto, Fail
<1>3. CASE Register(e) \/ PassDone(e) \/ ClaimPipeline(e) \/ ClaimNext(e) \/ NoMoreWork(e)
  BY <1>0, <1>3 DEF Register, PassDone, WorkStarts, ClaimPipeline, ClaimNext, NoMoreWork, Goto, End
<1>4. CASE Ingest(e) \/ Keep(e) \/ Create(e) \/ Artifact(e)
  BY <1>0, <1>4 DEF Ingest, Keep, Create, Artifact, Goto, Fail
<1>5. CASE Checkpoint(e) \/ Heartbeat(e) \/ Block(e) \/ Release(e)
  BY <1>0, <1>5 DEF Checkpoint, Heartbeat, Block, Release, Goto, Fail, End
<1>6. CASE (\E w \in Workers : Dispatch(e, w)) \/ LockFails(e) \/ CallFails(e) \/ Crash(e)
  BY <1>0, <1>6 DEF Dispatch, LockFails, CallFails, Crash, WorkStarts, Goto, Fail, End
<1> QED
  BY <1>1, <1>2, <1>3, <1>4, <1>5, <1>6 DEF Step, Progress

\* The same hands hold the same files
LEMMA SameHands ==
  ASSUME UNCHANGED <<captures, files>>, NEW f \in Execs,
         job'[f].source = job[f].source, job'[f].batch = job[f].batch, job'[f].by = job[f].by
  PROVE  Captured(f)' = Captured(f) /\ Same(f)' = Same(f)
BY DEF Captured, Same

\* What is kept is kept once, and what is about to be is not there yet
LEMMA DriveStep ==
  ASSUME DriveInv, NEW e \in Execs, Step(e), ~outlasted, ~outlasted'
  PROVE  DriveOnce' /\ \A f \in Execs : Fresh(f)'
<1>0. /\ TypeOK /\ LeaseInv /\ DriveOnce /\ \A f \in Execs : Fresh(f)
  BY DEF DriveInv, LeaseInv
<1>1. CASE UNCHANGED <<captures, files>>
  <2>1. DriveOnce'
    BY <1>0, <1>1 DEF DriveOnce
  <2>2. ASSUME NEW f \in Execs, f # e PROVE Fresh(f)'
    <3>1. pc'[f] = pc[f] /\ job'[f] = job[f]
      BY <1>0, <2>2, OthersKept
    <3> QED
      BY <1>0, <1>1, <3>1, SameHands DEF Fresh
  <2>3. Fresh(e)'
    <3>1. CASE pc'[e] \in {"keep", "create"}
      <4>1. /\ UNCHANGED <<captures, files, job>>
            /\ pc'[e] = "keep" => Captured(e) = {}
            /\ pc'[e] = "create" => Same(e) = {}
        BY <1>0, <3>1, FreshStart
      <4> QED
        BY <4>1, SameHands DEF Fresh
    <3>2. CASE pc'[e] \notin {"keep", "create"}
      BY <3>2 DEF Fresh
    <3> QED
      BY <3>1, <3>2
  <2> QED
    BY <2>1, <2>2, <2>3
<1>2. ASSUME pc[e] \in {"keep", "create"}, pc'[e] \notin {"keep", "create"}
      PROVE  \A f \in Execs : Fresh(f)'
  <2>1. ASSUME NEW f \in Execs, f # e PROVE Fresh(f)'
    <3>1. pc'[f] = pc[f]
      BY <1>0, <2>1, OthersKept
    <3>2. pc[f] \notin HoldingPcs
      BY <1>0, <1>2, <2>1, Alone, PcNames
    <3> QED
      BY <3>1, <3>2, PcNames DEF Fresh
  <2> QED
    BY <1>2, <2>1 DEF Fresh
<1>3. CASE Keep(e)
  <2>1. /\ pc[e] = "keep" /\ pc'[e] = "persist" /\ UNCHANGED files
        /\ captures' = captures \union
             {[source |-> job[e].source, batch |-> job[e].batch, by |-> job[e].worker]}
    BY <1>0, <1>3 DEF Keep, Goto, TypeOK
  <2>2. Captured(e) = {}
    BY <1>0, <2>1 DEF Fresh
  <2>3. \A c \in captures : ~(c.source = job[e].source /\ c.batch = job[e].batch)
    BY <2>2 DEF Captured
  <2>4. DriveOnce'
    <3> DEFINE new == [source |-> job[e].source, batch |-> job[e].batch, by |-> job[e].worker]
    <3>1. new.source = job[e].source /\ new.batch = job[e].batch
      OBVIOUS
    <3> HIDE DEF new
    <3> QED
      BY <1>0, <2>1, <2>3, <3>1 DEF DriveOnce, new
  <2> QED
    BY <1>2, <2>1, <2>4
<1>4. CASE /\ pc[e] = "create" /\ UNCHANGED captures /\ pc'[e] \notin {"keep", "create"}
           /\ files' = files \union {Shard(e, job[e].worker)}
  <2>1. Same(e) = {}
    BY <1>0, <1>4 DEF Fresh
  <2>2. \A f \in files : ~(f.source = job[e].source /\ f.batch = job[e].batch /\ f.by = job[e].by)
    BY <2>1 DEF Same
  <2>3. LET new == Shard(e, job[e].worker) IN
        new.source = job[e].source /\ new.batch = job[e].batch /\ new.by = job[e].by
    BY DEF Shard
  <2>4. DriveOnce'
    BY <1>0, <1>4, <2>2, <2>3 DEF DriveOnce
  <2> QED
    BY <1>2, <1>4, <2>4
<1> QED
  BY <1>0, <1>1, <1>3, <1>4, WhoAdds

\* The invariant of Drive holds at the start and is kept by every step
LEMMA DriveInvariant == Spec => []DriveInv
<1>1. Init /\ LeaseInv => DriveInv
  BY DEF Init, DriveInv, DriveOnce, Fresh
<1>2. DriveInv /\ LeaseInv' /\ [Next]_vars => DriveInv'
  <2> SUFFICES ASSUME DriveInv, LeaseInv', [Next]_vars PROVE DriveInv'
    OBVIOUS
  <2>0. TypeOK
    BY DEF DriveInv, LeaseInv
  <2>1. CASE outlasted'
    BY <2>1 DEF DriveInv, DriveOnce
  <2>2. CASE ~outlasted'
    <3>0. ~outlasted
      BY <2>2, HistoryLasts
    <3>1. DriveOnce /\ \A f \in Execs : Fresh(f)
      BY <3>0 DEF DriveInv
    <3>2. DriveOnce' /\ \A f \in Execs : Fresh(f)'
      <4>1. CASE \E e \in Execs : Step(e)
        BY <2>2, <3>0, <4>1, DriveStep
      <4>2. CASE Environment
        <5>1. /\ UNCHANGED <<pc, captures, files>>
              /\ \A f \in Execs : Captured(f)' = Captured(f) /\ Same(f)' = Same(f)
          BY <2>0, <4>2, EnvironmentKeeps, SameHands
        <5> QED
          BY <3>0, <3>1, <5>1 DEF DriveOnce, Fresh
      <4>3. CASE UNCHANGED vars
        <5>1. UNCHANGED <<pc, captures, files, job>>
          BY <4>3 DEF vars, driveVars
        <5> QED
          BY <3>0, <3>1, <5>1 DEF DriveOnce, Fresh, Captured, Same
      <4> QED
        BY <4>1, <4>2, <4>3 DEF Next
    <3> QED
      BY <3>2 DEF DriveInv
  <2> QED
    BY <2>1, <2>2
<1> QED
  BY <1>1, <1>2, LeaseInvariant, PTL DEF Spec

(* For any number of executions, no capture is made twice and no two shard  *)
(* files share a name as long as no worker outlasts its lease.              *)
THEOREM DriveOnceCorrect == Spec => []DriveOnce
<1>1. DriveInv => DriveOnce
  BY DEF DriveInv
<1> QED
  BY <1>1, DriveInvariant, PTL
=============================================================================
