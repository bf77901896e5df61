-------------------------- MODULE ForwardIngestion --------------------------
(***************************************************************************)
(* Forward ingestion of source evidence into Change Payload shards.  The   *)
(* three pipelines, NATIVE_CDC (104), FULL_EXPORT (106) and WEBHOOK (107), *)
(* are copies of one design over one ledger (IngestionLedger): a recurring *)
(* dispatcher registers the sources it discovers, takes the pipeline's     *)
(* lease and then claims sources, one batch of records at a time: build    *)
(* the payloads, keep them as a shard file in Drive, register the file in  *)
(* 06_Payload_Artifacts, checkpoint the ledger.  An error blocks the       *)
(* source and ends the worker.  A behaviour follows one pipeline, chosen   *)
(* at the start: the ledger rows of different pipelines never meet.        *)
(*                                                                         *)
(* A section under the script lock is one action.  Drive and QBO are       *)
(* called between such sections, without any lock.                         *)
(***************************************************************************)
EXTENDS IngestionLedger, Sequences

CONSTANTS
  Kinds,       \* the pipelines of this instance
  Execs,       \* Apps Script executions that may be alive at the same time
  S,           \* number of sources, discovered in the order 1..S
  MaxBatches,  \* bound: batches of a source
  MaxWorkers,  \* bound: worker ids in use at the same time
  MaxFaults,   \* bound: occurrences of the events of Hazards
  Hazards      \* the events below that may happen in this instance

(* "crash" ends an execution anywhere; "lock" is a script lock not to be   *)
(* had in time; "call" a Drive, Sheets or QBO call that fails; "slow" a    *)
(* live worker that outlasts its claim or lease; "pause" the removal of    *)
(* the dispatcher by the operator, who may install it again.               *)
HazardKinds == {"crash", "lock", "call", "slow", "pause"}

ASSUME IngestionConstants ==
  /\ Kinds \subseteq {"NATIVE_CDC", "FULL_EXPORT", "WEBHOOK"}
  /\ S \in Nat \ {0} /\ MaxBatches \in Nat
  /\ MaxWorkers \in Nat /\ MaxFaults \in Nat
  /\ Hazards \subseteq HazardKinds

Sources == 1..S
Workers == 1..MaxWorkers

VARIABLES
  kind,       \* the pipeline
  evidence,   \* what the evidence of each source holds
  offered,    \* sources whose evidence can be discovered
  rows,       \* the sources in the ledger, in the order of its rows
  ledger,     \* the ledger row of every source
  lease,      \* the pipeline lease property
  captures,   \* WEBHOOK: captured entity files in Drive
  files,      \* payload shard files in Drive
  artifacts,  \* the shard files registered in 06_Payload_Artifacts
  dispatcher, \* whether the recurring trigger is installed
  pc, job,    \* per execution: where it is, and its local variables
  faults,     \* events of Hazards so far
  outlasted   \* history: whether a live worker outlasted its claim or lease

sourceVars == <<kind, evidence, offered>>
ledgerVars == <<rows, ledger>>
driveVars == <<captures, files, artifacts>>
faultVars == <<faults, outlasted>>
vars == <<sourceVars, ledgerVars, lease, driveVars, dispatcher, pc, job, faultVars>>

-----------------------------------------------------------------------------
(* Values *)

(* flaw: "content" fails when the source is ingested, "receipt" already     *)
(* when a webhook receipt is registered.  deletes: the webhook events are   *)
(* deletions, for which no entity is fetched.                               *)
EvidenceType ==
  [batches : 0..MaxBatches, flaw : {"none", "content", "receipt"}, deletes : BOOLEAN]

NoLease == [worker |-> 0, live |-> FALSE]

(* found are the sources the registration pass goes over; by is what the   *)
(* payloads of a batch depend on besides the evidence, and so, hashed, the *)
(* file name of the shard; maker is the worker that made the file in hand. *)
NoJob == [worker |-> 0, found |-> {}, source |-> 1, batch |-> 0, by |-> 0, maker |-> 0,
          worked |-> FALSE, slow |-> FALSE]

BatchPcs == {"ingest", "capture", "keep", "persist", "create", "artifact", "checkpoint"}
HoldingPcs == {"claim", "heartbeat", "block", "release"} \union BatchPcs
Pcs == {"idle", "register", "pipeline"} \union HoldingPcs

-----------------------------------------------------------------------------
(* Helpers *)

Goto(e, where) == pc' = [pc EXCEPT ![e] = where]
Fail(e) == Goto(e, "block") /\ UNCHANGED job
End(e) == Goto(e, "idle") /\ job' = [job EXCEPT ![e] = NoJob]
Charge(event) ==
  /\ event \in Hazards /\ faults < MaxFaults
  /\ faults' = faults + 1 /\ outlasted' = (outlasted \/ event = "slow")

(* The local variables of a batch end with it. *)
Afterwards(e, worked) ==
  [NoJob EXCEPT !.worker = job[e].worker, !.worked = worked, !.slow = job[e].slow]

Alive(w) == \E e \in Execs : pc[e] # "idle" /\ job[e].worker = w

(* Worker ids are UUIDs; here an id is drawn again once nothing names it. *)
Named(w) ==
  \/ Alive(w) \/ lease.worker = w
  \/ \E s \in Sources : ledger[s].owner = w
  \/ \E f \in files : w \in {f.by, f.maker}
  \/ \E c \in captures : c.by = w

FirstClaimable(s) ==
  \E k \in 1..Len(rows) :
    /\ rows[k] = s /\ Claimable(ledger[s])
    /\ \A j \in 1..(k - 1) : ~Claimable(ledger[rows[j]])

(* The files with the name of the shard in hand. *)
Same(e) ==
  {f \in files : f.source = job[e].source /\ f.batch = job[e].batch /\ f.by = job[e].by}

Captured(e) == {c \in captures : c.source = job[e].source /\ c.batch = job[e].batch}

Shard(e, maker) ==
  [source |-> job[e].source, batch |-> job[e].batch, by |-> job[e].by, maker |-> maker]

-----------------------------------------------------------------------------
(* Registration *)

(* qboForwardIngestionRegisterSource_ of a source not yet in the ledger: a  *)
(* receipt that fails its validation is registered as BLOCKED.              *)
Registered(s) ==
  /\ rows' = Append(rows, s)
  /\ ledger' = [ledger EXCEPT ![s] =
       NewRow(IF evidence[s].flaw = "receipt" THEN "BLOCKED" ELSE "AVAILABLE")]

(* A CDC cycle commits, an exporter adds its row to 01_Sources, or the     *)
(* webhook receiver stores a receipt.                                      *)
Offer(s) ==
  /\ s \notin offered /\ \A t \in 1..(s - 1) : t \in offered
  /\ offered' = offered \union {s}
  /\ UNCHANGED <<kind, evidence, ledgerVars, lease, driveVars, dispatcher, pc, job, faultVars>>

(* The acquisition or the exporter registers what it has just offered; its  *)
(* failures are caught and left to the dispatcher.                          *)
Announce(s) ==
  /\ kind # "WEBHOOK" /\ s \in offered /\ ledger[s].status = "NONE"
  /\ Registered(s)
  /\ UNCHANGED <<sourceVars, lease, driveVars, dispatcher, pc, job, faultVars>>

Dispatch(e, w) ==
  /\ pc[e] = "idle" /\ dispatcher
  /\ ~Named(w) /\ \A v \in 1..(w - 1) : Named(v)
  /\ job' = [job EXCEPT ![e] = [NoJob EXCEPT !.worker = w, !.found = offered]]
  /\ Goto(e, "register")
  /\ UNCHANGED <<sourceVars, ledgerVars, lease, driveVars, dispatcher, faultVars>>

Missing(e) == {s \in job[e].found : ledger[s].status = "NONE"}

WorkStarts(e) == Goto(e, "pipeline") /\ job' = [job EXCEPT ![e].found = {}]

(* The pass over the discovered sources, one lock section each; a source    *)
(* already in the ledger is left as it is.                                  *)
Register(e) ==
  /\ pc[e] = "register"
  /\ \E s \in Missing(e) : (\A t \in Missing(e) : s <= t) /\ Registered(s)
  /\ UNCHANGED <<sourceVars, lease, driveVars, dispatcher, pc, job, faultVars>>

PassDone(e) ==
  /\ pc[e] = "register" /\ Missing(e) = {}
  /\ WorkStarts(e)
  /\ UNCHANGED <<sourceVars, ledgerVars, lease, driveVars, dispatcher, faultVars>>

-----------------------------------------------------------------------------
(* The worker: the pipeline lease and the claim of a source *)

(* Mutant: the lease of another worker is taken over, expired or not. *)
MutClaimPipeline(e) ==
  /\ pc[e] = "pipeline"
  /\ lease' = [worker |-> job[e].worker, live |-> TRUE] /\ Goto(e, "claim") /\ UNCHANGED job
  /\ UNCHANGED <<sourceVars, ledgerVars, driveVars, dispatcher, faultVars>>

ClaimPipeline(e) ==
  /\ pc[e] = "pipeline"
  /\ IF lease.worker # 0 /\ lease.live
     THEN End(e) /\ UNCHANGED lease
     ELSE /\ lease' = [worker |-> job[e].worker, live |-> TRUE]
          /\ Goto(e, "claim") /\ UNCHANGED job
  /\ UNCHANGED <<sourceVars, ledgerVars, driveVars, dispatcher, faultVars>>

ClaimNext(e) ==
  /\ pc[e] = "claim"
  /\ \E s \in Sources :
       /\ FirstClaimable(s)
       /\ ledger' = [ledger EXCEPT ![s] = Claimed(ledger[s], job[e].worker)]
       /\ job' = [job EXCEPT ![e].source = s, ![e].batch = ledger[s].cursor]
  /\ Goto(e, "ingest")
  /\ UNCHANGED <<sourceVars, rows, lease, driveVars, dispatcher, faultVars>>

(* Nothing is claimable, or the runtime budget does not allow another unit. *)
NoMoreWork(e) ==
  /\ pc[e] = "claim"
  /\ job[e].worked \/ ~\E s \in Sources : FirstClaimable(s)
  /\ Goto(e, "release")
  /\ UNCHANGED <<sourceVars, ledgerVars, lease, driveVars, dispatcher, job, faultVars>>

Heartbeat(e) ==
  /\ pc[e] = "heartbeat"
  /\ IF lease.worker = job[e].worker
     THEN /\ lease' = [lease EXCEPT !.live = TRUE]
          /\ Goto(e, "claim")
          /\ job' = [job EXCEPT ![e] = Afterwards(e, TRUE)]
     ELSE Fail(e) /\ UNCHANGED lease
  /\ UNCHANGED <<sourceVars, ledgerVars, driveVars, dispatcher, faultVars>>

Release(e) ==
  /\ pc[e] = "release"
  /\ lease' = IF lease.worker = job[e].worker THEN NoLease ELSE lease
  /\ End(e)
  /\ UNCHANGED <<sourceVars, ledgerVars, driveVars, dispatcher, faultVars>>

-----------------------------------------------------------------------------
(* The worker: one batch of the claimed source *)

(* The evidence is read and checked; from here on the copy of the row the   *)
(* claim returned is used, not the ledger.                                  *)
Ingest(e) ==
  LET ev == evidence[job[e].source] IN
  /\ pc[e] = "ingest"
  /\ \/ /\ ev.flaw # "none"
        /\ Fail(e)
     \/ /\ ev.flaw = "none" /\ job[e].batch >= ev.batches
        /\ Goto(e, "checkpoint") /\ UNCHANGED job
     \/ /\ ev.flaw = "none" /\ job[e].batch < ev.batches
        /\ Goto(e, IF kind = "WEBHOOK" /\ ~ev.deletes THEN "capture" ELSE "persist")
        /\ job' = [job EXCEPT ![e].by = job[e].worker]
  /\ UNCHANGED <<sourceVars, ledgerVars, lease, driveVars, dispatcher, faultVars>>

(* Mutant: an entity captured earlier is fetched and captured again. *)
MutCapture(e) ==
  /\ pc[e] = "capture"
  /\ Goto(e, "keep") /\ UNCHANGED job
  /\ UNCHANGED <<sourceVars, ledgerVars, lease, driveVars, dispatcher, faultVars>>

(* qboWebhookForwardGetOrCreateCapturedEntity_: an entity captured by an    *)
(* earlier attempt is used again, so the payloads stay the same.            *)
Capture(e) ==
  /\ pc[e] = "capture"
  /\ \/ /\ Captured(e) = {}
        /\ Goto(e, "keep") /\ UNCHANGED job
     \/ \E c \in Captured(e) :
          /\ Captured(e) = {c}
          /\ Goto(e, "persist") /\ job' = [job EXCEPT ![e].by = c.by]
     \/ /\ \E c, d \in Captured(e) : c # d
        /\ Fail(e)
  /\ UNCHANGED <<sourceVars, ledgerVars, lease, driveVars, dispatcher, faultVars>>

Keep(e) ==
  /\ pc[e] = "keep"
  /\ captures' = captures \union
       {[source |-> job[e].source, batch |-> job[e].batch, by |-> job[e].worker]}
  /\ Goto(e, "persist")
  /\ UNCHANGED <<sourceVars, ledgerVars, lease, files, artifacts, dispatcher, job, faultVars>>

(* qboPersistChangePayloadShard_: an existing file of the same name is      *)
(* reconciled, two of them are an error.                                    *)
Persist(e) ==
  /\ pc[e] = "persist"
  /\ \/ /\ Same(e) = {}
        /\ Goto(e, "create") /\ UNCHANGED job
     \/ \E f \in Same(e) :
          /\ Same(e) = {f}
          /\ Goto(e, "artifact") /\ job' = [job EXCEPT ![e].maker = f.maker]
     \/ /\ \E f, g \in Same(e) : f # g
        /\ Fail(e)
  /\ UNCHANGED <<sourceVars, ledgerVars, lease, driveVars, dispatcher, faultVars>>

Create(e) ==
  /\ pc[e] = "create"
  /\ files' = files \union {Shard(e, job[e].worker)}
  /\ Goto(e, "artifact") /\ job' = [job EXCEPT ![e].maker = job[e].worker]
  /\ UNCHANGED <<sourceVars, ledgerVars, lease, captures, artifacts, dispatcher, faultVars>>

(* qboPayloadArtifactRegister_, idempotent by file. *)
Artifact(e) ==
  /\ pc[e] = "artifact"
  /\ artifacts' = artifacts \union {Shard(e, job[e].maker)}
  /\ Goto(e, "checkpoint")
  /\ UNCHANGED <<sourceVars, ledgerVars, lease, captures, files, dispatcher, job, faultVars>>

(* A batch moves the cursor behind it; a claim past the last batch only     *)
(* finishes the source.                                                     *)
Checkpoint(e) ==
  LET s == job[e].source
      left == job[e].batch < evidence[s].batches
      next == IF left THEN job[e].batch + 1 ELSE evidence[s].batches
  IN
  /\ pc[e] = "checkpoint"
  /\ IF MayCheckpoint(ledger[s], job[e].worker)
     THEN /\ ledger' = [ledger EXCEPT ![s] =
               Checkpointed(ledger[s], next, IF left THEN 1 ELSE 0, next = evidence[s].batches)]
          /\ Goto(e, "heartbeat") /\ UNCHANGED job
     ELSE Fail(e) /\ UNCHANGED ledger
  /\ UNCHANGED <<sourceVars, rows, lease, driveVars, dispatcher, faultVars>>

-----------------------------------------------------------------------------
(* The worker: errors *)

(* Mutant: a failed worker leaves the source as it is and gives up. *)
MutBlock(e) ==
  /\ pc[e] = "block"
  /\ Goto(e, "claim")
  /\ UNCHANGED <<sourceVars, ledgerVars, lease, driveVars, dispatcher, job, faultVars>>

Block(e) ==
  LET s == job[e].source IN
  /\ pc[e] = "block"
  /\ ledger' = IF MayBlock(ledger[s], job[e].worker)
               THEN [ledger EXCEPT ![s] = BlockedRow(ledger[s])] ELSE ledger
  /\ Goto(e, "release") /\ job' = [job EXCEPT ![e] = Afterwards(e, FALSE)]
  /\ UNCHANGED <<sourceVars, rows, lease, driveVars, dispatcher, faultVars>>

(* The script lock is not to be had: the pass gives up, the worker does not *)
(* start, claims nothing more, fails, or leaves the row or the lease as is. *)
LockFails(e) ==
  /\ Charge("lock")
  /\ \/ pc[e] = "register" /\ WorkStarts(e)
     \/ pc[e] \in {"claim", "block"} /\ Goto(e, "release") /\ UNCHANGED job
     \/ pc[e] \in {"checkpoint", "heartbeat"} /\ Fail(e)
     \/ pc[e] \in {"pipeline", "release"} /\ End(e)
  /\ UNCHANGED <<sourceVars, ledgerVars, lease, driveVars, dispatcher>>

(* A Drive, Sheets or QBO call throws, after it took effect or before. *)
CallFails(e) ==
  /\ Charge("call")
  /\ \/ pc[e] \in {"ingest", "capture", "keep", "persist"} /\ UNCHANGED driveVars
     \/ pc[e] = "create" /\ files' \in {files, files \union {Shard(e, job[e].worker)}}
        /\ UNCHANGED <<captures, artifacts>>
     \/ pc[e] = "artifact" /\ artifacts' \in {artifacts, artifacts \union {Shard(e, job[e].maker)}}
        /\ UNCHANGED <<captures, files>>
  /\ Fail(e)
  /\ UNCHANGED <<sourceVars, ledgerVars, lease, dispatcher>>

Crash(e) ==
  /\ pc[e] # "idle" /\ Charge("crash")
  /\ End(e)
  /\ UNCHANGED <<sourceVars, ledgerVars, lease, driveVars, dispatcher>>

-----------------------------------------------------------------------------
(* Time, and the operator *)

(* Leases and claims last as long as an execution may run: one whose worker *)
(* is still there expires only after the event "slow" of that worker.       *)
Expires(w) ==
  \/ ~Alive(w) /\ UNCHANGED <<job, faultVars>>
  \/ \E e \in Execs :
       /\ pc[e] # "idle" /\ job[e].worker = w
       /\ \/ job[e].slow /\ UNCHANGED <<job, faultVars>>
          \/ ~job[e].slow /\ Charge("slow") /\ job' = [job EXCEPT ![e].slow = TRUE]

ExpireLease ==
  /\ lease.live /\ Expires(lease.worker)
  /\ lease' = [lease EXCEPT !.live = FALSE]
  /\ UNCHANGED <<sourceVars, ledgerVars, driveVars, dispatcher, pc>>

ExpireClaim(s) ==
  /\ ledger[s].live /\ Expires(ledger[s].owner)
  /\ ledger' = [ledger EXCEPT ![s].live = FALSE]
  /\ UNCHANGED <<sourceVars, rows, lease, driveVars, dispatcher, pc>>

Pause ==
  /\ dispatcher /\ Charge("pause")
  /\ dispatcher' = FALSE
  /\ UNCHANGED <<sourceVars, ledgerVars, lease, driveVars, pc, job>>

Resume ==
  /\ ~dispatcher
  /\ dispatcher' = TRUE
  /\ UNCHANGED <<sourceVars, ledgerVars, lease, driveVars, pc, job, faultVars>>

-----------------------------------------------------------------------------

(* A receipt is what a webhook stores; only it is checked on registration,  *)
(* and only it can be all deletions.                                        *)
Init ==
  /\ kind \in Kinds
  /\ evidence \in [Sources -> EvidenceType]
  /\ \A s \in Sources :
       kind # "WEBHOOK" => evidence[s].flaw # "receipt" /\ ~evidence[s].deletes
  /\ offered = {} /\ rows = <<>> /\ ledger = [s \in Sources |-> NoRow]
  /\ lease = NoLease
  /\ captures = {} /\ files = {} /\ artifacts = {}
  /\ dispatcher = TRUE
  /\ pc = [e \in Execs |-> "idle"] /\ job = [e \in Execs |-> NoJob]
  /\ faults = 0 /\ outlasted = FALSE

Progress(e) ==
  \/ Register(e) \/ PassDone(e) \/ ClaimPipeline(e) \/ ClaimNext(e) \/ NoMoreWork(e)
  \/ Ingest(e) \/ Capture(e) \/ Keep(e) \/ Persist(e) \/ Create(e) \/ Artifact(e)
  \/ Checkpoint(e) \/ Heartbeat(e) \/ Block(e) \/ Release(e)

Step(e) ==
  Progress(e) \/ (\E w \in Workers : Dispatch(e, w)) \/ LockFails(e) \/ CallFails(e) \/ Crash(e)

Environment ==
  \/ \E s \in Sources : Offer(s) \/ Announce(s) \/ ExpireClaim(s)
  \/ ExpireLease \/ Pause \/ Resume

Next == (\E e \in Execs : Step(e)) \/ Environment

Spec == Init /\ [][Next]_vars

(* A live execution goes on, the recurring dispatcher fires although the    *)
(* executions of others come between, what a dead worker held expires.      *)
FairSpec ==
  /\ Spec
  /\ \A e \in Execs : WF_vars(Progress(e))
  /\ SF_vars(\E e \in Execs, w \in Workers : Dispatch(e, w))
  /\ WF_vars(ExpireLease /\ UNCHANGED job)
  /\ \A s \in Sources : WF_vars(ExpireClaim(s) /\ UNCHANGED job)

-----------------------------------------------------------------------------
(* Properties *)

RowType ==
  [status : RowStatuses, cursor : Nat, shards : Nat, owner : 0..MaxWorkers, live : BOOLEAN]
FileType == [source : Sources, batch : Nat, by : 0..MaxWorkers,
             maker : 0..MaxWorkers]
CaptureType == [source : Sources, batch : Nat, by : 0..MaxWorkers]
JobType ==
  [worker : 0..MaxWorkers, found : SUBSET Sources, source : Sources, batch : Nat,
   by : 0..MaxWorkers, maker : 0..MaxWorkers, worked : BOOLEAN,
   slow : BOOLEAN]

(* Every variable keeps its type. *)
TypeOK ==
  /\ kind \in Kinds /\ evidence \in [Sources -> EvidenceType] /\ offered \subseteq Sources
  /\ rows \in Seq(Sources) /\ ledger \in [Sources -> RowType]
  /\ lease \in [worker : 0..MaxWorkers, live : BOOLEAN]
  /\ captures \subseteq CaptureType /\ files \subseteq FileType /\ artifacts \subseteq FileType
  /\ dispatcher \in BOOLEAN
  /\ pc \in [Execs -> Pcs] /\ job \in [Execs -> JobType]
  /\ faults \in 0..MaxFaults /\ outlasted \in BOOLEAN

Abstract == INSTANCE Delivery WITH
  done <- [s \in Sources |-> ledger[s].cursor],
  kept <- {<<f.source, f.batch>> : f \in artifacts}

(* The ledger and the registered shards deliver every source batch by       *)
(* batch, in order and none twice, although claims expire under workers     *)
(* that go on and each step between two lock sections may be the last.      *)
Delivered == Abstract!Spec

(* The ledger counts one shard per batch passed, and a source it calls      *)
(* processed has no batch left, whoever claimed it in the meantime.         *)
CountsExact ==
  \A s \in Sources :
    /\ ledger[s].shards = ledger[s].cursor
    /\ ledger[s].status = "PROCESSED" => ledger[s].cursor = evidence[s].batches

(* While no worker outlasts its lease, at most one execution works for the  *)
(* pipeline ("singleActiveWorkerChain"), through crashes and failed locks.  *)
OneWorker ==
  ~outlasted => \A e, f \in Execs : pc[e] \in HoldingPcs /\ pc[f] \in HoldingPcs => e = f

(* While no worker outlasts its lease, no batch has two captured entities   *)
(* and no two shard files have one name: the next attempt would fail, and   *)
(* every one after it.                                                      *)
DriveOnce ==
  ~outlasted =>
    /\ \A c, d \in captures : c.source = d.source /\ c.batch = d.batch => c = d
    /\ \A f, g \in files : f.source = g.source /\ f.batch = g.batch /\ f.by = g.by => f = g

(* Every source offered is processed or blocked at last: crashed workers,   *)
(* lost claims and failed locks leave none behind, unless the operator      *)
(* leaves the pipeline paused.                                              *)
Settles ==
  \A s \in Sources :
    <>[]dispatcher => ((s \in offered) ~> (ledger[s].status \in Settled))
=============================================================================
