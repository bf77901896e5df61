-------------------------- MODULE MCDailyScheduler --------------------------
EXTENDS DailyScheduler, TLC

AutoHazards == {"crash", "history", "error", "busy"}
AllHazards == HazardKinds
NoHazard == {}
CrashHazard == {"crash"}

Interchangeable == Permutations(Execs)
=============================================================================
