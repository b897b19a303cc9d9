---------------------------- MODULE MCJobRuntime ----------------------------
(* Instances of JobRuntime for TLC: one keyed job and, in some runs, one job *)
(* without a lock key.                                                       *)
EXTENDS JobRuntime, TLC

CONSTANTS rebalance, heartbeat, portfolio

\* The rebalance job is keyed by its portfolio, the heartbeat is not keyed.
MCLockKey == [j \in Jobs |-> IF j = rebalance THEN portfolio ELSE NoKey]

\* Calls are interchangeable, and so are processes.
MCSymmetry == Permutations(Execs) \cup Permutations(Procs)
=============================================================================
