----------------------------- MODULE ExportQueue -----------------------------
(***************************************************************************)
(* What the daily FULL_EXPORT queue promises, whatever executions, stale   *)
(* triggers and recoveries drive it: one run at a time owns the queue, one *)
(* claim at a time owns its position, and a position is left behind only   *)
(* with the Master Backup of the claim that held it or by counting a       *)
(* failure.  A recovery restarts the run where the evidence ends.          *)
(* DailyScheduler implements this specification.                           *)
(***************************************************************************)
EXTENDS Integers

CONSTANT N   \* number of exporters, at least one

VARIABLES
  queue,     \* the run that owns the queue, its position and failures
  holder,    \* the claim that owns the position, 0 when there is none
  evidence,  \* Master Backups made
  opened,    \* runs opened so far
  issued     \* claims issued so far

vars == <<queue, holder, evidence, opened, issued>>

Unowned == [run |-> 0, index |-> 0, failed |-> 0]

Evidenced(r, i) == \E b \in evidence : b.run = r /\ b.index = i

-----------------------------------------------------------------------------
Init ==
  /\ queue = Unowned /\ holder = 0 /\ evidence = {}
  /\ opened = 0 /\ issued = 0

\* A new run takes an unowned queue
Open ==
  /\ queue.run = 0
  /\ opened' = opened + 1
  /\ queue' = [run |-> opened', index |-> 0, failed |-> 0]
  /\ UNCHANGED <<holder, evidence, issued>>

\* A fresh claim takes the current position
Acquire ==
  /\ queue.run # 0 /\ queue.index < N /\ holder = 0
  /\ issued' = issued + 1 /\ holder' = issued'
  /\ UNCHANGED <<queue, evidence, opened>>

\* A claim, even one that has been lost since, makes its Master Backup
Produce ==
  /\ \E b \in [run : 1..opened, index : 0..(N - 1), token : 1..issued] :
       evidence' = evidence \union {b}
  /\ UNCHANGED <<queue, holder, opened, issued>>

\* The holder leaves its position with its own Master Backup
Pass ==
  /\ holder # 0 /\ queue.index < N
  /\ [run |-> queue.run, index |-> queue.index, token |-> holder] \in evidence
  /\ queue' = [queue EXCEPT !.index = queue.index + 1]
  /\ holder' = 0
  /\ UNCHANGED <<evidence, opened, issued>>

\* The holder leaves its position as failed
Fail ==
  /\ holder # 0 /\ queue.index < N
  /\ queue' = [queue EXCEPT !.index = queue.index + 1, !.failed = queue.failed + 1]
  /\ holder' = 0
  /\ UNCHANGED <<evidence, opened, issued>>

\* The holder gives the position back to be claimed again
Retry ==
  /\ holder # 0
  /\ holder' = 0
  /\ UNCHANGED <<queue, evidence, opened, issued>>

\* A recovery puts a run back at the end of its evidence, never over another run
\* and never over a claim
Reopen ==
  /\ holder = 0
  /\ \E r \in 1..opened, i \in 0..(N - 1) :
       /\ queue.run \in {0, r}
       /\ \A j \in 0..(i - 1) : Evidenced(r, j)
       /\ queue' = [run |-> r, index |-> i, failed |-> 0]
  /\ UNCHANGED <<holder, evidence, opened, issued>>

\* The run leaves the queue: finished, withdrawn or removed
Close ==
  /\ queue' = Unowned /\ holder' = 0
  /\ UNCHANGED <<evidence, opened, issued>>

Next == Open \/ Acquire \/ Produce \/ Pass \/ Fail \/ Retry \/ Reopen \/ Close

Spec == Init /\ [][Next]_vars

=============================================================================
