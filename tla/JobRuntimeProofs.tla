-------------------------- MODULE JobRuntimeProofs --------------------------
(***************************************************************************)
(* Proofs about JobRuntime for every number of processes, calls, jobs and  *)
(* keys, every TTL and every bound.                                        *)
(***************************************************************************)
EXTENDS JobRuntime, TLAPS

\* The initial state is type correct.
LEMMA InitTypeOK == Init => TypeOK
BY ConstantsAssumption DEF Init, TypeOK, Phases, EngineRuntimeState, EngineStatus, Points,
   KeyedPoints, JobStatus, Leases, NoLease

\* What a publication makes of an engine state is an engine state.
LEMMA PublishType ==
  ASSUME NEW g \in EngineRuntimeState
  PROVE  /\ Delivered(g) \in EngineRuntimeState
         /\ Undelivered(g) \in EngineRuntimeState
         /\ Publish(g) \subseteq EngineRuntimeState
BY DEF EngineRuntimeState, EngineStatus, Delivered, Undelivered, Publish, Busy

\* _complete and _state_with_active return engine states.
LEMMA EngineUpdateType ==
  ASSUME NEW g \in EngineRuntimeState, NEW e \in Execs
  PROVE  /\ Complete(g, e) \in EngineRuntimeState
         /\ WithActive(g, e) \in EngineRuntimeState
BY DEF EngineRuntimeState, EngineStatus, Complete, WithActive, Busy

\* Every reachable state is type correct: the engine states, scopes, leases and
\* records of run_job keep their shape, and only a keyed job reaches the lease.
THEOREM TypeCorrect == Spec => []TypeOK
<1>1. TypeOK /\ [Next]_vars => TypeOK'
  <2> SUFFICES ASSUME TypeOK, [Next]_vars PROVE TypeOK'
    OBVIOUS
  <2>1. CASE Tick
    BY <2>1 DEF Tick, TypeOK, execVars, Keyed, Key
  <2>2. ASSUME NEW p \in Procs, Boot(p) PROVE TypeOK'
    BY <2>2 DEF Boot, TypeOK, execVars, Keyed, Key, EngineRuntimeState, EngineStatus, Phases
  <2>3. ASSUME NEW p \in Procs, ReportStarted(p) PROVE TypeOK'
    BY <2>3, PublishType DEF ReportStarted, TypeOK, execVars, Keyed, Key, Phases
  <2>4. ASSUME NEW p \in Procs, ShutdownScheduler(p) PROVE TypeOK'
    BY <2>4 DEF ShutdownScheduler, TypeOK, execVars, Keyed, Key, Phases
  <2>5. ASSUME NEW p \in Procs, Stop(p) PROVE TypeOK'
    BY <2>5 DEF Stop, TypeOK, execVars, Keyed, Key, Phases, WithStatus, EngineRuntimeState,
       EngineStatus
  <2>6. ASSUME NEW p \in Procs, ReportStopping(p) PROVE TypeOK'
    BY <2>6, PublishType DEF ReportStopping, TypeOK, execVars, Keyed, Key, Phases
  <2>7. ASSUME NEW p \in Procs, Crash(p) PROVE TypeOK'
    BY <2>7 DEF Crash, TypeOK, Keyed, Key, Phases, EngineRuntimeState, EngineStatus, Points,
       KeyedPoints, InFlight, CallsOf, Gone
  <2>8. ASSUME NEW e \in Execs, NEW p \in Procs, NEW j \in Jobs, RunJob(e, p, j) PROVE TypeOK'
    BY <2>8, ConstantsAssumption DEF RunJob, TypeOK, Keyed, Key, Points, KeyedPoints, Goto,
       Calls, JobStatus
  <2>9. ASSUME NEW e \in Execs, Report(e) PROVE TypeOK'
    BY <2>9, PublishType DEF Report, PublishThen, TypeOK, Keyed, Key, Points, KeyedPoints,
       Goto, Proceed, Raise, AfterReport, AfterException, Proc, Calls
  <2>10. ASSUME NEW e \in Execs, Admit(e) PROVE TypeOK'
    <3>1. call[e] \in Calls /\ Proc(e) \in Procs
      BY <2>10 DEF Admit, TypeOK, Proc, Calls
    <3>2. Scope(e) \in Scopes
      BY <3>1, ConstantsAssumption DEF Scope, Scopes, Keyed, Key, Calls
    <3>3. CASE /\ scopes' = [scopes EXCEPT ![Proc(e)] = @ \cup {Scope(e)}]
               /\ Proceed(e, IF Keyed(e) THEN "leasing" ELSE "starting")
               /\ UNCHANGED <<engine, status>>
      BY <2>10, <3>1, <3>2, <3>3 DEF Admit, TypeOK, Keyed, Key, Points, KeyedPoints, Goto,
         Proceed
    <3>4. CASE /\ status' = [status EXCEPT ![e] = IF Keyed(e) THEN "SKIPPED_LOCKED" ELSE "SKIPPED"]
               /\ PublishThen(e, "returned")
               /\ UNCHANGED scopes
      BY <2>10, <3>1, <3>4, PublishType DEF Admit, PublishThen, TypeOK, Keyed, Key, Points,
         KeyedPoints, Goto, Proceed, Raise, AfterException, JobStatus
    <3>5. CASE Raise(e) /\ UNCHANGED <<engine, scopes, status>>
      BY <2>10, <3>1, <3>5 DEF Admit, TypeOK, Keyed, Key, Points, KeyedPoints, Goto, Raise,
         AfterException
    <3> QED
      BY <2>10, <3>3, <3>4, <3>5 DEF Admit
  <2>11. ASSUME NEW e \in Execs, Acquire(e) PROVE TypeOK'
    BY <2>11, ConstantsAssumption DEF Acquire, TypeOK, Keyed, Key, Points, KeyedPoints,
       Goto, Proceed, Raise, AfterException, Proc, Calls, Leases
  <2>12. ASSUME NEW e \in Execs, SkipLocked(e) PROVE TypeOK'
    BY <2>12 DEF SkipLocked, SaveSkipped, Discard, TypeOK, Keyed, Key, Points, KeyedPoints,
       Goto, Proceed, Raise, AfterException, Proc, Calls, JobStatus
  <2>13. ASSUME NEW e \in Execs, Check(e) PROVE TypeOK'
    BY <2>13 DEF Check, TypeOK, Keyed, Key, Points, KeyedPoints, Goto, Proceed, Raise,
       AfterException
  <2>14. ASSUME NEW e \in Execs, ReleaseDuplicate(e) PROVE TypeOK'
    BY <2>14 DEF ReleaseDuplicate, Release, TypeOK, Keyed, Key, Points, KeyedPoints, Goto,
       Proceed, Raise, AfterException, Leases, NoLease
  <2>15. ASSUME NEW e \in Execs, SkipDuplicate(e) PROVE TypeOK'
    BY <2>15 DEF SkipDuplicate, SaveSkipped, Discard, TypeOK, Keyed, Key, Points,
       KeyedPoints, Goto, Proceed, Raise, AfterException, Proc, Calls, JobStatus
  <2>16. ASSUME NEW e \in Execs, Start(e) PROVE TypeOK'
    <3>1. Proc(e) \in Procs
      BY <2>16 DEF Start, TypeOK, Proc, Calls
    <3>2. engine' \in [Procs -> EngineRuntimeState]
      BY <2>16, <3>1, EngineUpdateType DEF Start, TypeOK
    <3> QED
      BY <2>16, <3>2 DEF Start, SaveRunning, TypeOK, Keyed, Key, Points, KeyedPoints, Goto,
         Proceed, Raise, AfterException, JobStatus
  <2>17. ASSUME NEW e \in Execs, HandlerEnds(e) PROVE TypeOK'
    BY <2>17 DEF HandlerEnds, TypeOK, Keyed, Key, Points, KeyedPoints, Goto, Proceed
  <2>18. ASSUME NEW e \in Execs, HandlerTimesOut(e) PROVE TypeOK'
    BY <2>18 DEF HandlerTimesOut, TypeOK, Keyed, Key, Points, KeyedPoints, Goto, Proceed
  <2>19. ASSUME NEW e \in Execs, ZombieEnds(e) PROVE TypeOK'
    BY <2>19 DEF ZombieEnds, TypeOK, Keyed, Key
  <2>20. ASSUME NEW e \in Execs, Heartbeat(e) PROVE TypeOK'
    <3>1. engine' \in [Procs -> EngineRuntimeState]
      <4>1. CASE Proc(e) \in Procs
        BY <2>20, <4>1, PublishType DEF Heartbeat, TypeOK
      <4>2. CASE Proc(e) \notin Procs
        BY <2>20, <4>2 DEF Heartbeat, TypeOK
      <4> QED
        BY <4>1, <4>2
    <3> QED
      BY <2>20, <3>1 DEF Heartbeat, TypeOK, execVars, Keyed, Key
  <2>21. ASSUME NEW e \in Execs, Finish(e) PROVE TypeOK'
    <3>1. Proc(e) \in Procs
      BY <2>21 DEF Finish, TypeOK, Proc, Calls
    <3>2. engine' \in [Procs -> EngineRuntimeState]
      BY <2>21, <3>1, EngineUpdateType DEF Finish, TypeOK
    <3> QED
      BY <2>21, <3>2 DEF Finish, TypeOK, Keyed, Key, Points, KeyedPoints, Goto, Proceed,
         Raise, AfterException, JobStatus
  <2>22. ASSUME NEW e \in Execs, ReleaseLease(e) PROVE TypeOK'
    BY <2>22 DEF ReleaseLease, Release, TypeOK, Keyed, Key, Points, KeyedPoints, Goto,
       Proceed, Raise, AfterException, Leases, NoLease
  <2>23. ASSUME NEW e \in Execs, Return(e) PROVE TypeOK'
    BY <2>23 DEF Return, Discard, TypeOK, Keyed, Key, Points, KeyedPoints, Goto, Proceed,
       Proc, Calls
  <2>24. CASE UNCHANGED vars
    BY <2>24 DEF vars, TypeOK, Keyed, Key
  <2> QED
    BY <2>1, <2>2, <2>3, <2>4, <2>5, <2>6, <2>7, <2>8, <2>9, <2>10, <2>11, <2>12, <2>13, <2>14,
       <2>15, <2>16, <2>17, <2>18, <2>19, <2>20, <2>21, <2>22, <2>23, <2>24 DEF Next, ThreadStep
<1> QED
  BY <1>1, InitTypeOK, PTL DEF Spec
----
(* Mutual exclusion and once per window *)

\* The persisted status follows the thread until the execution has an outcome.
StatusFollowsThread ==
  \A e \in Execs :
    /\ pc[e] \in {"scheduled", "admission", "leasing", "lockedOut", "checking", "duplicate",
                  "dupDiscard", "starting"} => status[e] = "SCHEDULED"
    /\ pc[e] \in {"started", "handling", "succeeded"} => status[e] = "RUNNING"

\* As long as the lease of a call has not run out, the row is the call's own.
LeaseIsOwn ==
  \A e \in Execs :
    pc[e] \in Leased /\ Keyed(e) =>
      lease[Key(e)] = [owner |-> e, expires |-> expires[e]] \/ expires[e] <= clock

\* Every step keeps a record's status in line with where its thread stands.
LEMMA StatusStep ==
  ASSUME TypeOK, StatusFollowsThread, [Next]_vars
  PROVE  StatusFollowsThread'
<1>1. CASE Tick
  BY <1>1 DEF TypeOK, StatusFollowsThread, Tick, execVars
<1>2. ASSUME NEW p \in Procs, Boot(p) PROVE StatusFollowsThread'
  BY <1>2 DEF TypeOK, StatusFollowsThread, Boot, execVars
<1>3. ASSUME NEW p \in Procs, ReportStarted(p) PROVE StatusFollowsThread'
  BY <1>3 DEF TypeOK, StatusFollowsThread, ReportStarted, execVars
<1>4. ASSUME NEW p \in Procs, ShutdownScheduler(p) PROVE StatusFollowsThread'
  BY <1>4 DEF TypeOK, StatusFollowsThread, ShutdownScheduler, execVars
<1>5. ASSUME NEW p \in Procs, Stop(p) PROVE StatusFollowsThread'
  BY <1>5 DEF TypeOK, StatusFollowsThread, Stop, execVars
<1>6. ASSUME NEW p \in Procs, ReportStopping(p) PROVE StatusFollowsThread'
  BY <1>6 DEF TypeOK, StatusFollowsThread, ReportStopping, execVars
<1>7. ASSUME NEW p \in Procs, Crash(p) PROVE StatusFollowsThread'
  BY <1>7 DEF TypeOK, StatusFollowsThread, Crash, InFlight, CallsOf, Points, Gone, Scoped,
     Leased, Goto, Proceed, Raise, AfterException
<1>8. ASSUME NEW e \in Execs, NEW p \in Procs, NEW j \in Jobs, RunJob(e, p, j) PROVE StatusFollowsThread'
  BY <1>8 DEF TypeOK, StatusFollowsThread, RunJob, Points, Gone, Scoped, Leased, Goto,
     Proceed, Raise, AfterException
<1>9. ASSUME NEW e \in Execs, Report(e) PROVE StatusFollowsThread'
  BY <1>9 DEF TypeOK, StatusFollowsThread, Report, PublishThen, AfterReport, Points, Gone,
     Scoped, Leased, Goto, Proceed, Raise, AfterException
<1>10. ASSUME NEW e \in Execs, Admit(e) PROVE StatusFollowsThread'
  BY <1>10 DEF TypeOK, StatusFollowsThread, Admit, PublishThen, Points, Gone, Scoped,
     Leased, Goto, Proceed, Raise, AfterException
<1>11. ASSUME NEW e \in Execs, Acquire(e) PROVE StatusFollowsThread'
  BY <1>11 DEF TypeOK, StatusFollowsThread, Acquire, LeaseFree, Points, Gone, Scoped,
     Leased, Goto, Proceed, Raise, AfterException
<1>12. ASSUME NEW e \in Execs, SkipLocked(e) PROVE StatusFollowsThread'
  BY <1>12 DEF TypeOK, StatusFollowsThread, SkipLocked, SaveSkipped, Discard, Points, Gone,
     Scoped, Leased, Goto, Proceed, Raise, AfterException
<1>13. ASSUME NEW e \in Execs, Check(e) PROVE StatusFollowsThread'
  BY <1>13 DEF TypeOK, StatusFollowsThread, Check, FindExecutionByIdentity, Points, Gone,
     Scoped, Leased, Goto, Proceed, Raise, AfterException
<1>14. ASSUME NEW e \in Execs, ReleaseDuplicate(e) PROVE StatusFollowsThread'
  BY <1>14 DEF TypeOK, StatusFollowsThread, ReleaseDuplicate, Release, Points, Gone, Scoped,
     Leased, Goto, Proceed, Raise, AfterException
<1>15. ASSUME NEW e \in Execs, SkipDuplicate(e) PROVE StatusFollowsThread'
  BY <1>15 DEF TypeOK, StatusFollowsThread, SkipDuplicate, SaveSkipped, Discard, Points,
     Gone, Scoped, Leased, Goto, Proceed, Raise, AfterException
<1>16. ASSUME NEW e \in Execs, Start(e) PROVE StatusFollowsThread'
  BY <1>16 DEF TypeOK, StatusFollowsThread, Start, SaveRunning, Points, Gone, Scoped,
     Leased, Goto, Proceed, Raise, AfterException
<1>17. ASSUME NEW e \in Execs, HandlerEnds(e) PROVE StatusFollowsThread'
  BY <1>17 DEF TypeOK, StatusFollowsThread, HandlerEnds, Points, Gone, Scoped, Leased, Goto,
     Proceed, Raise, AfterException
<1>18. ASSUME NEW e \in Execs, HandlerTimesOut(e) PROVE StatusFollowsThread'
  BY <1>18 DEF TypeOK, StatusFollowsThread, HandlerTimesOut, Points, Gone, Scoped, Leased,
     Goto, Proceed, Raise, AfterException
<1>19. ASSUME NEW e \in Execs, ZombieEnds(e) PROVE StatusFollowsThread'
  BY <1>19 DEF TypeOK, StatusFollowsThread, ZombieEnds, Points, Gone, Scoped, Leased, Goto,
     Proceed, Raise, AfterException
<1>20. ASSUME NEW e \in Execs, Heartbeat(e) PROVE StatusFollowsThread'
  BY <1>20 DEF TypeOK, StatusFollowsThread, Heartbeat, execVars, Points, Gone, Scoped,
     Leased, Goto, Proceed, Raise, AfterException
<1>21. ASSUME NEW e \in Execs, Finish(e) PROVE StatusFollowsThread'
  BY <1>21 DEF TypeOK, StatusFollowsThread, Finish, Points, Gone, Scoped, Leased, Goto,
     Proceed, Raise, AfterException
<1>22. ASSUME NEW e \in Execs, ReleaseLease(e) PROVE StatusFollowsThread'
  BY <1>22 DEF TypeOK, StatusFollowsThread, ReleaseLease, Release, Points, Gone, Scoped,
     Leased, Goto, Proceed, Raise, AfterException
<1>23. ASSUME NEW e \in Execs, Return(e) PROVE StatusFollowsThread'
  BY <1>23 DEF TypeOK, StatusFollowsThread, Return, Discard, Points, Gone, Scoped, Leased,
     Goto, Proceed, Raise, AfterException
<1>24. CASE UNCHANGED vars
  BY <1>24 DEF vars, TypeOK, StatusFollowsThread
<1> QED
  BY <1>1, <1>2, <1>3, <1>4, <1>5, <1>6, <1>7, <1>8, <1>9, <1>10, <1>11, <1>12, <1>13, <1>14,
     <1>15, <1>16, <1>17, <1>18, <1>19, <1>20, <1>21, <1>22, <1>23, <1>24 DEF Next, ThreadStep

\* Every step keeps the lease row of an unexpired holder its own.
LEMMA LeaseStep ==
  ASSUME TypeOK, LeaseIsOwn, [Next]_vars
  PROVE  LeaseIsOwn'
<1>1. CASE Tick
  BY <1>1, ConstantsAssumption DEF TypeOK, LeaseIsOwn, Keyed, Key, KeyedPoints, Leases,
     NoLease, Calls, Tick, execVars
<1>2. ASSUME NEW p \in Procs, Boot(p) PROVE LeaseIsOwn'
  BY <1>2, ConstantsAssumption DEF TypeOK, LeaseIsOwn, Keyed, Key, KeyedPoints, Leases,
     NoLease, Calls, Boot, execVars
<1>3. ASSUME NEW p \in Procs, ReportStarted(p) PROVE LeaseIsOwn'
  BY <1>3, ConstantsAssumption DEF TypeOK, LeaseIsOwn, Keyed, Key, KeyedPoints, Leases,
     NoLease, Calls, ReportStarted, execVars
<1>4. ASSUME NEW p \in Procs, ShutdownScheduler(p) PROVE LeaseIsOwn'
  BY <1>4, ConstantsAssumption DEF TypeOK, LeaseIsOwn, Keyed, Key, KeyedPoints, Leases,
     NoLease, Calls, ShutdownScheduler, execVars
<1>5. ASSUME NEW p \in Procs, Stop(p) PROVE LeaseIsOwn'
  BY <1>5, ConstantsAssumption DEF TypeOK, LeaseIsOwn, Keyed, Key, KeyedPoints, Leases,
     NoLease, Calls, Stop, execVars
<1>6. ASSUME NEW p \in Procs, ReportStopping(p) PROVE LeaseIsOwn'
  BY <1>6, ConstantsAssumption DEF TypeOK, LeaseIsOwn, Keyed, Key, KeyedPoints, Leases,
     NoLease, Calls, ReportStopping, execVars
<1>7. ASSUME NEW p \in Procs, Crash(p) PROVE LeaseIsOwn'
  BY <1>7, ConstantsAssumption DEF TypeOK, LeaseIsOwn, Keyed, Key, KeyedPoints, Leases,
     NoLease, Calls, Crash, InFlight, CallsOf, Points, Gone, Scoped, Leased, Goto, Proceed,
     Raise, AfterException
<1>8. ASSUME NEW e \in Execs, NEW p \in Procs, NEW j \in Jobs, RunJob(e, p, j) PROVE LeaseIsOwn'
  BY <1>8, ConstantsAssumption DEF TypeOK, LeaseIsOwn, Keyed, Key, KeyedPoints, Leases,
     NoLease, Calls, RunJob, Points, Gone, Scoped, Leased, Goto, Proceed, Raise,
     AfterException
<1>9. ASSUME NEW e \in Execs, Report(e) PROVE LeaseIsOwn'
  BY <1>9, ConstantsAssumption DEF TypeOK, LeaseIsOwn, Keyed, Key, KeyedPoints, Leases,
     NoLease, Calls, Report, PublishThen, AfterReport, Points, Gone, Scoped, Leased, Goto,
     Proceed, Raise, AfterException
<1>10. ASSUME NEW e \in Execs, Admit(e) PROVE LeaseIsOwn'
  BY <1>10, ConstantsAssumption DEF TypeOK, LeaseIsOwn, Keyed, Key, KeyedPoints, Leases,
     NoLease, Calls, Admit, PublishThen, Points, Gone, Scoped, Leased, Goto, Proceed, Raise,
     AfterException
<1>11. ASSUME NEW e \in Execs, Acquire(e) PROVE LeaseIsOwn'
  BY <1>11, ConstantsAssumption DEF TypeOK, LeaseIsOwn, Keyed, Key, KeyedPoints, Leases,
     NoLease, Calls, Acquire, LeaseFree, Points, Gone, Scoped, Leased, Goto, Proceed, Raise,
     AfterException
<1>12. ASSUME NEW e \in Execs, SkipLocked(e) PROVE LeaseIsOwn'
  BY <1>12, ConstantsAssumption DEF TypeOK, LeaseIsOwn, Keyed, Key, KeyedPoints, Leases,
     NoLease, Calls, SkipLocked, SaveSkipped, Discard, Points, Gone, Scoped, Leased, Goto,
     Proceed, Raise, AfterException
<1>13. ASSUME NEW e \in Execs, Check(e) PROVE LeaseIsOwn'
  BY <1>13, ConstantsAssumption DEF TypeOK, LeaseIsOwn, Keyed, Key, KeyedPoints, Leases,
     NoLease, Calls, Check, FindExecutionByIdentity, Points, Gone, Scoped, Leased, Goto,
     Proceed, Raise, AfterException
<1>14. ASSUME NEW e \in Execs, ReleaseDuplicate(e) PROVE LeaseIsOwn'
  BY <1>14, ConstantsAssumption DEF TypeOK, LeaseIsOwn, Keyed, Key, KeyedPoints, Leases,
     NoLease, Calls, ReleaseDuplicate, Release, Points, Gone, Scoped, Leased, Goto, Proceed,
     Raise, AfterException
<1>15. ASSUME NEW e \in Execs, SkipDuplicate(e) PROVE LeaseIsOwn'
  BY <1>15, ConstantsAssumption DEF TypeOK, LeaseIsOwn, Keyed, Key, KeyedPoints, Leases,
     NoLease, Calls, SkipDuplicate, SaveSkipped, Discard, Points, Gone, Scoped, Leased,
     Goto, Proceed, Raise, AfterException
<1>16. ASSUME NEW e \in Execs, Start(e) PROVE LeaseIsOwn'
  BY <1>16, ConstantsAssumption DEF TypeOK, LeaseIsOwn, Keyed, Key, KeyedPoints, Leases,
     NoLease, Calls, Start, SaveRunning, Points, Gone, Scoped, Leased, Goto, Proceed, Raise,
     AfterException
<1>17. ASSUME NEW e \in Execs, HandlerEnds(e) PROVE LeaseIsOwn'
  BY <1>17, ConstantsAssumption DEF TypeOK, LeaseIsOwn, Keyed, Key, KeyedPoints, Leases,
     NoLease, Calls, HandlerEnds, Points, Gone, Scoped, Leased, Goto, Proceed, Raise,
     AfterException
<1>18. ASSUME NEW e \in Execs, HandlerTimesOut(e) PROVE LeaseIsOwn'
  BY <1>18, ConstantsAssumption DEF TypeOK, LeaseIsOwn, Keyed, Key, KeyedPoints, Leases,
     NoLease, Calls, HandlerTimesOut, Points, Gone, Scoped, Leased, Goto, Proceed, Raise,
     AfterException
<1>19. ASSUME NEW e \in Execs, ZombieEnds(e) PROVE LeaseIsOwn'
  BY <1>19, ConstantsAssumption DEF TypeOK, LeaseIsOwn, Keyed, Key, KeyedPoints, Leases,
     NoLease, Calls, ZombieEnds, Points, Gone, Scoped, Leased, Goto, Proceed, Raise,
     AfterException
<1>20. ASSUME NEW e \in Execs, Heartbeat(e) PROVE LeaseIsOwn'
  BY <1>20, ConstantsAssumption DEF TypeOK, LeaseIsOwn, Keyed, Key, KeyedPoints, Leases,
     NoLease, Calls, Heartbeat, execVars, Points, Gone, Scoped, Leased, Goto, Proceed,
     Raise, AfterException
<1>21. ASSUME NEW e \in Execs, Finish(e) PROVE LeaseIsOwn'
  BY <1>21, ConstantsAssumption DEF TypeOK, LeaseIsOwn, Keyed, Key, KeyedPoints, Leases,
     NoLease, Calls, Finish, Points, Gone, Scoped, Leased, Goto, Proceed, Raise,
     AfterException
<1>22. ASSUME NEW e \in Execs, ReleaseLease(e) PROVE LeaseIsOwn'
  BY <1>22, ConstantsAssumption DEF TypeOK, LeaseIsOwn, Keyed, Key, KeyedPoints, Leases,
     NoLease, Calls, ReleaseLease, Release, Points, Gone, Scoped, Leased, Goto, Proceed,
     Raise, AfterException
<1>23. ASSUME NEW e \in Execs, Return(e) PROVE LeaseIsOwn'
  BY <1>23, ConstantsAssumption DEF TypeOK, LeaseIsOwn, Keyed, Key, KeyedPoints, Leases,
     NoLease, Calls, Return, Discard, Points, Gone, Scoped, Leased, Goto, Proceed, Raise,
     AfterException
<1>24. CASE UNCHANGED vars
  BY <1>24 DEF vars, TypeOK, LeaseIsOwn, Keyed, Key, KeyedPoints, Leases, NoLease, Calls
<1> QED
  BY <1>1, <1>2, <1>3, <1>4, <1>5, <1>6, <1>7, <1>8, <1>9, <1>10, <1>11, <1>12, <1>13, <1>14,
     <1>15, <1>16, <1>17, <1>18, <1>19, <1>20, <1>21, <1>22, <1>23, <1>24 DEF Next, ThreadStep

\* A call that has passed the identity check and has not started yet: whatever
\* started meanwhile for its window did so late, or the call's own lease ran out.
StartingIsAlone ==
  \A e, f \in Execs :
    /\ e # f
    /\ pc[e] = "starting" /\ pc[f] # "unborn"
    /\ SameIdentity(e, f)
    /\ status[f] \in {"RUNNING", "COMPLETED"}
    => startedAt[f] >= expires[f] \/ expires[e] <= clock

\* Every step keeps a starting execution the only one of its window, and so keeps
\* OncePerWindow.
LEMMA OnceStep ==
  ASSUME TypeOK, StatusFollowsThread, LeaseIsOwn, StartingIsAlone, OncePerWindow, [Next]_vars
  PROVE  StartingIsAlone' /\ OncePerWindow'
<1>1. CASE Tick
  BY <1>1, ConstantsAssumption DEF TypeOK, StatusFollowsThread, LeaseIsOwn, StartingIsAlone,
     OncePerWindow, SameIdentity, Keyed, Key, KeyedPoints, Calls, Tick, execVars
<1>2. ASSUME NEW p \in Procs, Boot(p) PROVE StartingIsAlone' /\ OncePerWindow'
  BY <1>2, ConstantsAssumption DEF TypeOK, StatusFollowsThread, LeaseIsOwn, StartingIsAlone,
     OncePerWindow, SameIdentity, Keyed, Key, KeyedPoints, Calls, Boot, execVars
<1>3. ASSUME NEW p \in Procs, ReportStarted(p) PROVE StartingIsAlone' /\ OncePerWindow'
  BY <1>3, ConstantsAssumption DEF TypeOK, StatusFollowsThread, LeaseIsOwn, StartingIsAlone,
     OncePerWindow, SameIdentity, Keyed, Key, KeyedPoints, Calls, ReportStarted, execVars
<1>4. ASSUME NEW p \in Procs, ShutdownScheduler(p) PROVE StartingIsAlone' /\ OncePerWindow'
  BY <1>4, ConstantsAssumption DEF TypeOK, StatusFollowsThread, LeaseIsOwn, StartingIsAlone,
     OncePerWindow, SameIdentity, Keyed, Key, KeyedPoints, Calls, ShutdownScheduler,
     execVars
<1>5. ASSUME NEW p \in Procs, Stop(p) PROVE StartingIsAlone' /\ OncePerWindow'
  BY <1>5, ConstantsAssumption DEF TypeOK, StatusFollowsThread, LeaseIsOwn, StartingIsAlone,
     OncePerWindow, SameIdentity, Keyed, Key, KeyedPoints, Calls, Stop, execVars
<1>6. ASSUME NEW p \in Procs, ReportStopping(p) PROVE StartingIsAlone' /\ OncePerWindow'
  BY <1>6, ConstantsAssumption DEF TypeOK, StatusFollowsThread, LeaseIsOwn, StartingIsAlone,
     OncePerWindow, SameIdentity, Keyed, Key, KeyedPoints, Calls, ReportStopping, execVars
<1>7. ASSUME NEW p \in Procs, Crash(p) PROVE StartingIsAlone' /\ OncePerWindow'
  BY <1>7, ConstantsAssumption DEF TypeOK, StatusFollowsThread, LeaseIsOwn, StartingIsAlone,
     OncePerWindow, SameIdentity, Keyed, Key, KeyedPoints, Calls, Crash, InFlight, CallsOf,
     Points, Gone, Scoped, Leased, Goto, Proceed, Raise, AfterException
<1>8. ASSUME NEW e \in Execs, NEW p \in Procs, NEW j \in Jobs, RunJob(e, p, j) PROVE StartingIsAlone' /\ OncePerWindow'
  BY <1>8, ConstantsAssumption DEF TypeOK, StatusFollowsThread, LeaseIsOwn, StartingIsAlone,
     OncePerWindow, SameIdentity, Keyed, Key, KeyedPoints, Calls, RunJob, Points, Gone,
     Scoped, Leased, Goto, Proceed, Raise, AfterException
<1>9. ASSUME NEW e \in Execs, Report(e) PROVE StartingIsAlone' /\ OncePerWindow'
  BY <1>9, ConstantsAssumption DEF TypeOK, StatusFollowsThread, LeaseIsOwn, StartingIsAlone,
     OncePerWindow, SameIdentity, Keyed, Key, KeyedPoints, Calls, Report, PublishThen,
     AfterReport, Points, Gone, Scoped, Leased, Goto, Proceed, Raise, AfterException
<1>10. ASSUME NEW e \in Execs, Admit(e) PROVE StartingIsAlone' /\ OncePerWindow'
  <2>1. CASE Proceed(e, IF Keyed(e) THEN "leasing" ELSE "starting") /\ UNCHANGED status
    BY <1>10, <2>1 DEF Admit, TypeOK, StartingIsAlone, OncePerWindow, SameIdentity, Keyed,
       Key, Goto, Proceed, Points
  <2>2. CASE /\ PublishThen(e, "returned")
             /\ status' = [status EXCEPT ![e] = IF Keyed(e) THEN "SKIPPED_LOCKED" ELSE "SKIPPED"]
    BY <1>10, <2>2 DEF Admit, PublishThen, TypeOK, StartingIsAlone, OncePerWindow,
       SameIdentity, Keyed, Key, Goto, Proceed, Raise, AfterException, Points
  <2>3. CASE Raise(e) /\ UNCHANGED status
    BY <1>10, <2>3 DEF Admit, TypeOK, StartingIsAlone, OncePerWindow, SameIdentity, Keyed,
       Key, Goto, Raise, AfterException, Points
  <2> QED
    BY <1>10, <2>1, <2>2, <2>3 DEF Admit
<1>11. ASSUME NEW e \in Execs, Acquire(e) PROVE StartingIsAlone' /\ OncePerWindow'
  BY <1>11, ConstantsAssumption DEF TypeOK, StatusFollowsThread, LeaseIsOwn,
     StartingIsAlone, OncePerWindow, SameIdentity, Keyed, Key, KeyedPoints, Calls, Acquire,
     LeaseFree, Points, Gone, Scoped, Leased, Goto, Proceed, Raise, AfterException
<1>12. ASSUME NEW e \in Execs, SkipLocked(e) PROVE StartingIsAlone' /\ OncePerWindow'
  BY <1>12, ConstantsAssumption DEF TypeOK, StatusFollowsThread, LeaseIsOwn,
     StartingIsAlone, OncePerWindow, SameIdentity, Keyed, Key, KeyedPoints, Calls,
     SkipLocked, SaveSkipped, Discard, Points, Gone, Scoped, Leased, Goto, Proceed, Raise,
     AfterException
<1>13. ASSUME NEW e \in Execs, Check(e) PROVE StartingIsAlone' /\ OncePerWindow'
  BY <1>13, ConstantsAssumption DEF TypeOK, StatusFollowsThread, LeaseIsOwn,
     StartingIsAlone, OncePerWindow, SameIdentity, Keyed, Key, KeyedPoints, Calls, Check,
     FindExecutionByIdentity, Points, Gone, Scoped, Leased, Goto, Proceed, Raise,
     AfterException
<1>14. ASSUME NEW e \in Execs, ReleaseDuplicate(e) PROVE StartingIsAlone' /\ OncePerWindow'
  BY <1>14, ConstantsAssumption DEF TypeOK, StatusFollowsThread, LeaseIsOwn,
     StartingIsAlone, OncePerWindow, SameIdentity, Keyed, Key, KeyedPoints, Calls,
     ReleaseDuplicate, Release, Points, Gone, Scoped, Leased, Goto, Proceed, Raise,
     AfterException
<1>15. ASSUME NEW e \in Execs, SkipDuplicate(e) PROVE StartingIsAlone' /\ OncePerWindow'
  <2>1. CASE status' = [status EXCEPT ![e] = "SKIPPED_DUPLICATE"] /\ Proceed(e, "skipped")
    BY <1>15, <2>1 DEF SkipDuplicate, TypeOK, StartingIsAlone, OncePerWindow, SameIdentity,
       Keyed, Key, Goto, Proceed, Points
  <2>2. CASE Raise(e) /\ UNCHANGED status
    BY <1>15, <2>2 DEF SkipDuplicate, TypeOK, StartingIsAlone, OncePerWindow, SameIdentity,
       Keyed, Key, Goto, Raise, AfterException, Points
  <2> QED
    BY <1>15, <2>1, <2>2 DEF SkipDuplicate, SaveSkipped
<1>16. ASSUME NEW e \in Execs, Start(e) PROVE StartingIsAlone' /\ OncePerWindow'
  <2>1. /\ pc'[e] \in {"started", "escaped"}
        /\ \A f \in Execs \ {e} : /\ pc'[f] = pc[f]
                                  /\ status'[f] = status[f]
                                  /\ startedAt'[f] = startedAt[f]
        /\ UNCHANGED <<clock, call, expires, lease>>
    BY <1>16 DEF Start, SaveRunning, TypeOK, Goto, Proceed, Raise, AfterException, Points
  <2>2. status'[e] \in {"RUNNING", "COMPLETED"} => startedAt'[e] = clock
    BY <1>16 DEF Start, SaveRunning, TypeOK, StatusFollowsThread
  <2>3. ASSUME NEW f \in Execs \ {e}, pc[f] = "starting", SameIdentity(e, f)
        PROVE  expires[e] <= clock \/ expires[f] <= clock
    <3>1. pc[e] \in Leased /\ pc[f] \in Leased
      BY <1>16, <2>3 DEF Start, Leased, Scoped, Gone, Points
    <3>2. Keyed(e) /\ Keyed(f) /\ Key(f) = Key(e)
      BY <2>3 DEF SameIdentity, Keyed, Key
    <3>3. \/ expires[e] <= clock
          \/ expires[f] <= clock
          \/ [owner |-> e, expires |-> expires[e]] = [owner |-> f, expires |-> expires[f]]
      BY <3>1, <3>2 DEF LeaseIsOwn
    <3> QED
      BY <3>3
  <2>4. \A f, g \in Execs : SameIdentity(f, g)' <=> SameIdentity(f, g)
    BY <2>1 DEF SameIdentity, Keyed, Key
  <2>5. \A f, g \in Execs : SameIdentity(f, g) => SameIdentity(g, f)
    BY DEF SameIdentity, Keyed, Key
  <2>6. StartingIsAlone'
    BY <1>16, <2>1, <2>2, <2>3, <2>4, <2>5 DEF Start, TypeOK, StartingIsAlone
  <2>7. OncePerWindow'
    BY <1>16, <2>1, <2>2, <2>4, <2>5 DEF Start, TypeOK, StartingIsAlone, OncePerWindow
  <2> QED
    BY <2>6, <2>7
<1>17. ASSUME NEW e \in Execs, HandlerEnds(e) PROVE StartingIsAlone' /\ OncePerWindow'
  BY <1>17, ConstantsAssumption DEF TypeOK, StatusFollowsThread, LeaseIsOwn,
     StartingIsAlone, OncePerWindow, SameIdentity, Keyed, Key, KeyedPoints, Calls,
     HandlerEnds, Points, Gone, Scoped, Leased, Goto, Proceed, Raise, AfterException
<1>18. ASSUME NEW e \in Execs, HandlerTimesOut(e) PROVE StartingIsAlone' /\ OncePerWindow'
  BY <1>18, ConstantsAssumption DEF TypeOK, StatusFollowsThread, LeaseIsOwn,
     StartingIsAlone, OncePerWindow, SameIdentity, Keyed, Key, KeyedPoints, Calls,
     HandlerTimesOut, Points, Gone, Scoped, Leased, Goto, Proceed, Raise, AfterException
<1>19. ASSUME NEW e \in Execs, ZombieEnds(e) PROVE StartingIsAlone' /\ OncePerWindow'
  BY <1>19, ConstantsAssumption DEF TypeOK, StatusFollowsThread, LeaseIsOwn,
     StartingIsAlone, OncePerWindow, SameIdentity, Keyed, Key, KeyedPoints, Calls,
     ZombieEnds, Points, Gone, Scoped, Leased, Goto, Proceed, Raise, AfterException
<1>20. ASSUME NEW e \in Execs, Heartbeat(e) PROVE StartingIsAlone' /\ OncePerWindow'
  BY <1>20, ConstantsAssumption DEF TypeOK, StatusFollowsThread, LeaseIsOwn,
     StartingIsAlone, OncePerWindow, SameIdentity, Keyed, Key, KeyedPoints, Calls,
     Heartbeat, execVars, Points, Gone, Scoped, Leased, Goto, Proceed, Raise, AfterException
<1>21. ASSUME NEW e \in Execs, Finish(e) PROVE StartingIsAlone' /\ OncePerWindow'
  BY <1>21, ConstantsAssumption DEF TypeOK, StatusFollowsThread, LeaseIsOwn,
     StartingIsAlone, OncePerWindow, SameIdentity, Keyed, Key, KeyedPoints, Calls, Finish,
     Points, Gone, Scoped, Leased, Goto, Proceed, Raise, AfterException
<1>22. ASSUME NEW e \in Execs, ReleaseLease(e) PROVE StartingIsAlone' /\ OncePerWindow'
  BY <1>22, ConstantsAssumption DEF TypeOK, StatusFollowsThread, LeaseIsOwn,
     StartingIsAlone, OncePerWindow, SameIdentity, Keyed, Key, KeyedPoints, Calls,
     ReleaseLease, Release, Points, Gone, Scoped, Leased, Goto, Proceed, Raise,
     AfterException
<1>23. ASSUME NEW e \in Execs, Return(e) PROVE StartingIsAlone' /\ OncePerWindow'
  BY <1>23, ConstantsAssumption DEF TypeOK, StatusFollowsThread, LeaseIsOwn,
     StartingIsAlone, OncePerWindow, SameIdentity, Keyed, Key, KeyedPoints, Calls, Return,
     Discard, Points, Gone, Scoped, Leased, Goto, Proceed, Raise, AfterException
<1>24. CASE UNCHANGED vars
  BY <1>24 DEF vars, TypeOK, StatusFollowsThread, LeaseIsOwn, StartingIsAlone,
     OncePerWindow, SameIdentity, Keyed, Key, KeyedPoints, Calls
<1> QED
  BY <1>1, <1>2, <1>3, <1>4, <1>5, <1>6, <1>7, <1>8, <1>9, <1>10, <1>11, <1>12, <1>13, <1>14,
     <1>15, <1>16, <1>17, <1>18, <1>19, <1>20, <1>21, <1>22, <1>23, <1>24 DEF Next, ThreadStep

\* A call between admission and discard finds its scope in _active_jobs.
ScopeIsHeld ==
  \A e \in Execs : pc[e] \in Scoped => Scope(e) \in scopes[Proc(e)]

\* A process that is down has no threads.
DownIsQuiet ==
  \A e \in Execs : pc[e] \notin Gone => phase[Proc(e)] # "down"

\* A thread that leaves _active_jobs alone, and does not enter it.
LEMMA ScopesKept ==
  ASSUME ScopeIsHeld, ScopeExclusion, NEW e \in Execs, UNCHANGED <<call, scopes>>,
         \A f \in Execs \ {e} : pc'[f] = pc[f],
         pc'[e] \in Scoped => pc[e] \in Scoped
  PROVE  ScopeIsHeld' /\ ScopeExclusion'
BY DEF ScopeIsHeld, ScopeExclusion, Scope, Proc, Keyed, Key

\* A thread that takes its scope out of _active_jobs.
LEMMA ScopeDropped ==
  ASSUME TypeOK, ScopeIsHeld, ScopeExclusion, NEW e \in Execs, UNCHANGED call,
         scopes' = [scopes EXCEPT ![Proc(e)] = @ \ {Scope(e)}],
         \A f \in Execs \ {e} : pc'[f] = pc[f],
         pc[e] \in Scoped, pc'[e] \notin Scoped
  PROVE  ScopeIsHeld' /\ ScopeExclusion'
<1>1. \A f \in Execs : Scope(f)' = Scope(f) /\ Proc(f)' = Proc(f)
  BY DEF Scope, Proc, Keyed, Key
<1>2. \A f \in Execs : pc[f] \in Scoped => Proc(f) \in Procs
  BY DEF TypeOK, Calls, Proc, Scoped, Gone, Points
<1> QED
  BY <1>1, <1>2 DEF ScopeIsHeld, ScopeExclusion, TypeOK

\* Every step keeps the scope of an admitted call in _active_jobs, and no other
\* admitted call has it.
LEMMA ScopeStep ==
  ASSUME TypeOK, DownIsQuiet, ScopeIsHeld, ScopeExclusion, [Next]_vars
  PROVE  ScopeIsHeld' /\ ScopeExclusion'
<1>1. CASE Tick
  BY <1>1 DEF Tick, execVars, ScopeIsHeld, ScopeExclusion, Scope, Proc, Keyed, Key
<1>2. ASSUME NEW p \in Procs, Boot(p) PROVE ScopeIsHeld' /\ ScopeExclusion'
  <2>1. \A e \in Execs : pc[e] \in Scoped => Proc(e) # p
    BY <1>2 DEF Boot, DownIsQuiet, Scoped, Gone, Points
  <2> QED
    BY <1>2, <2>1 DEF Boot, execVars, TypeOK, ScopeIsHeld, ScopeExclusion, Scope, Proc,
       Keyed, Key
<1>3. ASSUME NEW p \in Procs, ReportStarted(p) PROVE ScopeIsHeld' /\ ScopeExclusion'
  BY <1>3 DEF ReportStarted, execVars, ScopeIsHeld, ScopeExclusion, Scope, Proc, Keyed, Key
<1>4. ASSUME NEW p \in Procs, ShutdownScheduler(p) PROVE ScopeIsHeld' /\ ScopeExclusion'
  BY <1>4 DEF ShutdownScheduler, execVars, ScopeIsHeld, ScopeExclusion, Scope, Proc, Keyed,
     Key
<1>5. ASSUME NEW p \in Procs, Stop(p) PROVE ScopeIsHeld' /\ ScopeExclusion'
  BY <1>5 DEF Stop, execVars, ScopeIsHeld, ScopeExclusion, Scope, Proc, Keyed, Key
<1>6. ASSUME NEW p \in Procs, ReportStopping(p) PROVE ScopeIsHeld' /\ ScopeExclusion'
  BY <1>6 DEF ReportStopping, execVars, ScopeIsHeld, ScopeExclusion, Scope, Proc, Keyed, Key
<1>7. ASSUME NEW p \in Procs, Crash(p) PROVE ScopeIsHeld' /\ ScopeExclusion'
  <2>1. \A e \in Execs : pc'[e] \in Scoped => pc[e] \in Scoped /\ Proc(e) # p
    BY <1>7 DEF Crash, InFlight, CallsOf, Proc, Scoped, Gone, Points
  <2> QED
    BY <1>7, <2>1 DEF Crash, TypeOK, ScopeIsHeld, ScopeExclusion, Scope, Proc, Keyed, Key
<1>8. ASSUME NEW e \in Execs, NEW p \in Procs, NEW j \in Jobs, RunJob(e, p, j)
      PROVE  ScopeIsHeld' /\ ScopeExclusion'
  BY <1>8 DEF RunJob, TypeOK, Goto, ScopeIsHeld, ScopeExclusion, Scope, Proc, Keyed, Key,
     Scoped, Gone
<1>9. ASSUME NEW e \in Execs, Report(e) PROVE ScopeIsHeld' /\ ScopeExclusion'
  <2>1. /\ \A f \in Execs \ {e} : pc'[f] = pc[f]
        /\ pc'[e] \in Scoped => pc[e] \in Scoped
        /\ UNCHANGED <<call, scopes>>
    BY <1>9 DEF Report, PublishThen, AfterReport, TypeOK, Goto, Proceed, Raise,
       AfterException, Scoped, Gone, Points
  <2> QED
    BY <2>1, ScopesKept
<1>10. ASSUME NEW e \in Execs, Admit(e) PROVE ScopeIsHeld' /\ ScopeExclusion'
  <2>1. /\ \A f \in Execs \ {e} : pc'[f] = pc[f]
        /\ UNCHANGED call
    BY <1>10 DEF Admit, PublishThen, TypeOK, Goto, Proceed, Raise
  <2>2. \A f \in Execs : Scope(f)' = Scope(f) /\ Proc(f)' = Proc(f)
    BY <2>1 DEF Scope, Proc, Keyed, Key
  <2>3. \A f \in Execs : pc[f] \in Scoped => Proc(f) \in Procs
    BY DEF TypeOK, Calls, Proc, Scoped, Gone, Points
  <2>4. Proc(e) \in Procs /\ pc[e] \notin Scoped
    BY <1>10 DEF Admit, PublishThen, TypeOK, Calls, Proc, Scoped, Gone
  <2>5. CASE /\ Admissible(e)
             /\ scopes' = [scopes EXCEPT ![Proc(e)] = @ \cup {Scope(e)}]
    BY <2>1, <2>2, <2>3, <2>4, <2>5 DEF Admissible, ScopeIsHeld, ScopeExclusion, TypeOK
  <2>6. CASE pc'[e] \notin Scoped /\ UNCHANGED scopes
    BY <2>1, <2>2, <2>3, <2>4, <2>6 DEF ScopeIsHeld, ScopeExclusion
  <2> QED
    BY <1>10, <2>5, <2>6 DEF Admit, PublishThen, TypeOK, Goto, Proceed, Raise,
       AfterException, Scoped, Gone, Points
<1>11. ASSUME NEW e \in Execs, Acquire(e) PROVE ScopeIsHeld' /\ ScopeExclusion'
  <2>1. /\ \A f \in Execs \ {e} : pc'[f] = pc[f]
        /\ pc'[e] \in Scoped => pc[e] \in Scoped
        /\ UNCHANGED <<call, scopes>>
    BY <1>11 DEF Acquire, TypeOK, Goto, Proceed, Raise, AfterException, Scoped, Gone, Points
  <2> QED
    BY <2>1, ScopesKept
<1>12. ASSUME NEW e \in Execs, SkipLocked(e) PROVE ScopeIsHeld' /\ ScopeExclusion'
  <2>1. /\ \A f \in Execs \ {e} : pc'[f] = pc[f]
        /\ pc[e] \in Scoped /\ pc'[e] \notin Scoped
        /\ UNCHANGED call
    BY <1>12 DEF SkipLocked, SaveSkipped, TypeOK, Goto, Proceed, Raise, AfterException,
       Scoped, Gone, Points
  <2> QED
    BY <1>12, <2>1, ScopeDropped DEF SkipLocked, Discard
<1>13. ASSUME NEW e \in Execs, Check(e) PROVE ScopeIsHeld' /\ ScopeExclusion'
  <2>1. /\ \A f \in Execs \ {e} : pc'[f] = pc[f]
        /\ pc'[e] \in Scoped => pc[e] \in Scoped
        /\ UNCHANGED <<call, scopes>>
    BY <1>13 DEF Check, TypeOK, Goto, Proceed, Raise, AfterException, Scoped, Gone, Points
  <2> QED
    BY <2>1, ScopesKept
<1>14. ASSUME NEW e \in Execs, ReleaseDuplicate(e) PROVE ScopeIsHeld' /\ ScopeExclusion'
  <2>1. /\ \A f \in Execs \ {e} : pc'[f] = pc[f]
        /\ pc'[e] \in Scoped => pc[e] \in Scoped
        /\ UNCHANGED <<call, scopes>>
    BY <1>14 DEF ReleaseDuplicate, TypeOK, Goto, Proceed, Raise, AfterException, Scoped,
       Gone, Points
  <2> QED
    BY <2>1, ScopesKept
<1>15. ASSUME NEW e \in Execs, SkipDuplicate(e) PROVE ScopeIsHeld' /\ ScopeExclusion'
  <2>1. /\ \A f \in Execs \ {e} : pc'[f] = pc[f]
        /\ pc[e] \in Scoped /\ pc'[e] \notin Scoped
        /\ UNCHANGED call
    BY <1>15 DEF SkipDuplicate, SaveSkipped, TypeOK, Goto, Proceed, Raise, AfterException,
       Scoped, Gone, Points
  <2> QED
    BY <1>15, <2>1, ScopeDropped DEF SkipDuplicate, Discard
<1>16. ASSUME NEW e \in Execs, Start(e) PROVE ScopeIsHeld' /\ ScopeExclusion'
  <2>1. /\ \A f \in Execs \ {e} : pc'[f] = pc[f]
        /\ pc'[e] \in Scoped => pc[e] \in Scoped
        /\ UNCHANGED <<call, scopes>>
    BY <1>16 DEF Start, SaveRunning, TypeOK, Goto, Proceed, Raise, AfterException, Scoped,
       Gone, Points
  <2> QED
    BY <2>1, ScopesKept
<1>17. ASSUME NEW e \in Execs, HandlerEnds(e) PROVE ScopeIsHeld' /\ ScopeExclusion'
  <2>1. /\ \A f \in Execs \ {e} : pc'[f] = pc[f]
        /\ pc'[e] \in Scoped => pc[e] \in Scoped
        /\ UNCHANGED <<call, scopes>>
    BY <1>17 DEF HandlerEnds, TypeOK, Goto, Proceed, Raise, AfterException, Scoped, Gone,
       Points
  <2> QED
    BY <2>1, ScopesKept
<1>18. ASSUME NEW e \in Execs, HandlerTimesOut(e) PROVE ScopeIsHeld' /\ ScopeExclusion'
  <2>1. /\ \A f \in Execs \ {e} : pc'[f] = pc[f]
        /\ pc'[e] \in Scoped => pc[e] \in Scoped
        /\ UNCHANGED <<call, scopes>>
    BY <1>18 DEF HandlerTimesOut, TypeOK, Goto, Proceed, Raise, AfterException, Scoped,
       Gone, Points
  <2> QED
    BY <2>1, ScopesKept
<1>19. ASSUME NEW e \in Execs, ZombieEnds(e) PROVE ScopeIsHeld' /\ ScopeExclusion'
  BY <1>19 DEF ZombieEnds, ScopeIsHeld, ScopeExclusion, Scope, Proc, Keyed, Key
<1>20. ASSUME NEW e \in Execs, Heartbeat(e) PROVE ScopeIsHeld' /\ ScopeExclusion'
  BY <1>20 DEF Heartbeat, execVars, ScopeIsHeld, ScopeExclusion, Scope, Proc, Keyed, Key
<1>21. ASSUME NEW e \in Execs, Finish(e) PROVE ScopeIsHeld' /\ ScopeExclusion'
  <2>1. /\ \A f \in Execs \ {e} : pc'[f] = pc[f]
        /\ pc'[e] \in Scoped => pc[e] \in Scoped
        /\ UNCHANGED <<call, scopes>>
    BY <1>21 DEF Finish, TypeOK, Goto, Proceed, Raise, AfterException, Scoped, Gone, Points
  <2> QED
    BY <2>1, ScopesKept
<1>22. ASSUME NEW e \in Execs, ReleaseLease(e) PROVE ScopeIsHeld' /\ ScopeExclusion'
  <2>1. /\ \A f \in Execs \ {e} : pc'[f] = pc[f]
        /\ pc'[e] \in Scoped => pc[e] \in Scoped
        /\ UNCHANGED <<call, scopes>>
    BY <1>22 DEF ReleaseLease, TypeOK, Goto, Proceed, Raise, AfterException, Scoped, Gone,
       Points
  <2> QED
    BY <2>1, ScopesKept
<1>23. ASSUME NEW e \in Execs, Return(e) PROVE ScopeIsHeld' /\ ScopeExclusion'
  <2>1. /\ \A f \in Execs \ {e} : pc'[f] = pc[f]
        /\ pc[e] \in Scoped /\ pc'[e] \notin Scoped
        /\ UNCHANGED call
    BY <1>23 DEF Return, TypeOK, Goto, Proceed, Raise, AfterException, Scoped, Gone, Points
  <2> QED
    BY <1>23, <2>1, ScopeDropped DEF Return, Discard
<1>24. CASE UNCHANGED vars
  BY <1>24 DEF vars, ScopeIsHeld, ScopeExclusion, Scope, Proc, Keyed, Key
<1> QED
  BY <1>1, <1>2, <1>3, <1>4, <1>5, <1>6, <1>7, <1>8, <1>9, <1>10, <1>11, <1>12, <1>13, <1>14,
     <1>15, <1>16, <1>17, <1>18, <1>19, <1>20, <1>21, <1>22, <1>23, <1>24 DEF Next, ThreadStep

\* Every step keeps a process that is down without threads.
LEMMA DownStep ==
  ASSUME TypeOK, DownIsQuiet, [Next]_vars
  PROVE  DownIsQuiet'
<1>1. CASE Tick
  BY <1>1 DEF TypeOK, DownIsQuiet, Proc, Calls, Tick, execVars
<1>2. ASSUME NEW p \in Procs, Boot(p) PROVE DownIsQuiet'
  BY <1>2 DEF TypeOK, DownIsQuiet, Proc, Calls, Boot, execVars
<1>3. ASSUME NEW p \in Procs, ReportStarted(p) PROVE DownIsQuiet'
  BY <1>3 DEF TypeOK, DownIsQuiet, Proc, Calls, ReportStarted, execVars
<1>4. ASSUME NEW p \in Procs, ShutdownScheduler(p) PROVE DownIsQuiet'
  BY <1>4 DEF TypeOK, DownIsQuiet, Proc, Calls, ShutdownScheduler, execVars
<1>5. ASSUME NEW p \in Procs, Stop(p) PROVE DownIsQuiet'
  BY <1>5 DEF TypeOK, DownIsQuiet, Proc, Calls, Stop, execVars
<1>6. ASSUME NEW p \in Procs, ReportStopping(p) PROVE DownIsQuiet'
  BY <1>6 DEF TypeOK, DownIsQuiet, Proc, Calls, ReportStopping, execVars
<1>7. ASSUME NEW p \in Procs, Crash(p) PROVE DownIsQuiet'
  BY <1>7 DEF TypeOK, DownIsQuiet, Proc, Calls, Crash, InFlight, CallsOf, Points, Gone,
     Goto, Proceed, Raise, AfterException
<1>8. ASSUME NEW e \in Execs, NEW p \in Procs, NEW j \in Jobs, RunJob(e, p, j) PROVE DownIsQuiet'
  BY <1>8 DEF TypeOK, DownIsQuiet, Proc, Calls, RunJob, Points, Gone, Goto, Proceed, Raise,
     AfterException
<1>9. ASSUME NEW e \in Execs, Report(e) PROVE DownIsQuiet'
  BY <1>9 DEF TypeOK, DownIsQuiet, Proc, Calls, Report, PublishThen, AfterReport, Points,
     Gone, Goto, Proceed, Raise, AfterException
<1>10. ASSUME NEW e \in Execs, Admit(e) PROVE DownIsQuiet'
  BY <1>10 DEF TypeOK, DownIsQuiet, Proc, Calls, Admit, PublishThen, Points, Gone, Goto,
     Proceed, Raise, AfterException
<1>11. ASSUME NEW e \in Execs, Acquire(e) PROVE DownIsQuiet'
  BY <1>11 DEF TypeOK, DownIsQuiet, Proc, Calls, Acquire, LeaseFree, Points, Gone, Goto,
     Proceed, Raise, AfterException
<1>12. ASSUME NEW e \in Execs, SkipLocked(e) PROVE DownIsQuiet'
  BY <1>12 DEF TypeOK, DownIsQuiet, Proc, Calls, SkipLocked, SaveSkipped, Discard, Points,
     Gone, Goto, Proceed, Raise, AfterException
<1>13. ASSUME NEW e \in Execs, Check(e) PROVE DownIsQuiet'
  BY <1>13 DEF TypeOK, DownIsQuiet, Proc, Calls, Check, FindExecutionByIdentity, Points,
     Gone, Goto, Proceed, Raise, AfterException
<1>14. ASSUME NEW e \in Execs, ReleaseDuplicate(e) PROVE DownIsQuiet'
  BY <1>14 DEF TypeOK, DownIsQuiet, Proc, Calls, ReleaseDuplicate, Release, Points, Gone,
     Goto, Proceed, Raise, AfterException
<1>15. ASSUME NEW e \in Execs, SkipDuplicate(e) PROVE DownIsQuiet'
  BY <1>15 DEF TypeOK, DownIsQuiet, Proc, Calls, SkipDuplicate, SaveSkipped, Discard,
     Points, Gone, Goto, Proceed, Raise, AfterException
<1>16. ASSUME NEW e \in Execs, Start(e) PROVE DownIsQuiet'
  BY <1>16 DEF TypeOK, DownIsQuiet, Proc, Calls, Start, SaveRunning, Points, Gone, Goto,
     Proceed, Raise, AfterException
<1>17. ASSUME NEW e \in Execs, HandlerEnds(e) PROVE DownIsQuiet'
  BY <1>17 DEF TypeOK, DownIsQuiet, Proc, Calls, HandlerEnds, Points, Gone, Goto, Proceed,
     Raise, AfterException
<1>18. ASSUME NEW e \in Execs, HandlerTimesOut(e) PROVE DownIsQuiet'
  BY <1>18 DEF TypeOK, DownIsQuiet, Proc, Calls, HandlerTimesOut, Points, Gone, Goto,
     Proceed, Raise, AfterException
<1>19. ASSUME NEW e \in Execs, ZombieEnds(e) PROVE DownIsQuiet'
  BY <1>19 DEF TypeOK, DownIsQuiet, Proc, Calls, ZombieEnds, Points, Gone, Goto, Proceed,
     Raise, AfterException
<1>20. ASSUME NEW e \in Execs, Heartbeat(e) PROVE DownIsQuiet'
  BY <1>20 DEF TypeOK, DownIsQuiet, Proc, Calls, Heartbeat, execVars, Points, Gone, Goto,
     Proceed, Raise, AfterException
<1>21. ASSUME NEW e \in Execs, Finish(e) PROVE DownIsQuiet'
  BY <1>21 DEF TypeOK, DownIsQuiet, Proc, Calls, Finish, Points, Gone, Goto, Proceed, Raise,
     AfterException
<1>22. ASSUME NEW e \in Execs, ReleaseLease(e) PROVE DownIsQuiet'
  BY <1>22 DEF TypeOK, DownIsQuiet, Proc, Calls, ReleaseLease, Release, Points, Gone, Goto,
     Proceed, Raise, AfterException
<1>23. ASSUME NEW e \in Execs, Return(e) PROVE DownIsQuiet'
  BY <1>23 DEF TypeOK, DownIsQuiet, Proc, Calls, Return, Discard, Points, Gone, Goto,
     Proceed, Raise, AfterException
<1>24. CASE UNCHANGED vars
  BY <1>24 DEF vars, TypeOK, DownIsQuiet, Proc, Calls
<1> QED
  BY <1>1, <1>2, <1>3, <1>4, <1>5, <1>6, <1>7, <1>8, <1>9, <1>10, <1>11, <1>12, <1>13, <1>14,
     <1>15, <1>16, <1>17, <1>18, <1>19, <1>20, <1>21, <1>22, <1>23, <1>24 DEF Next, ThreadStep

\* In every process, at most one call at a time is inside a scope: _active_jobs
\* serialises the calls of a job, or of a lock key, on every path of run_job.
THEOREM ScopeExclusionHolds == Spec => []ScopeExclusion
<1>1. Init => DownIsQuiet /\ ScopeIsHeld /\ ScopeExclusion
  BY DEF Init, DownIsQuiet, ScopeIsHeld, ScopeExclusion, Scoped, Gone, Points
<1>2. TypeOK /\ DownIsQuiet /\ ScopeIsHeld /\ ScopeExclusion /\ [Next]_vars
      => DownIsQuiet' /\ ScopeIsHeld' /\ ScopeExclusion'
  BY ScopeStep, DownStep
<1> QED
  BY <1>1, <1>2, TypeCorrect, PTL DEF Spec

\* Calls of different processes are inside the lease of one key together only if
\* the lease of one of them has run out.
THEOREM LeaseExclusionHolds == Spec => []LeaseExclusion
<1>1. Init => LeaseIsOwn
  BY DEF Init, LeaseIsOwn, Leased, Scoped, Gone, Points
<1>2. TypeOK /\ LeaseIsOwn /\ [Next]_vars => LeaseIsOwn'
  BY LeaseStep
<1>3. LeaseIsOwn => LeaseExclusion
  <2> SUFFICES ASSUME LeaseIsOwn, NEW e \in Execs, NEW f \in Execs, e # f,
                      pc[e] \in Leased, pc[f] \in Leased, Keyed(e), Key(e) = Key(f)
               PROVE  expires[e] <= clock \/ expires[f] <= clock
    BY DEF LeaseExclusion
  <2>1. Keyed(f)
    BY DEF Keyed
  <2>2. \/ expires[e] <= clock
        \/ expires[f] <= clock
        \/ [owner |-> e, expires |-> expires[e]] = [owner |-> f, expires |-> expires[f]]
    BY <2>1 DEF LeaseIsOwn
  <2> QED
    BY <2>2
<1> QED
  BY <1>1, <1>2, <1>3, TypeCorrect, PTL DEF Spec

\* At most one execution of a window is recorded as RUNNING or COMPLETED, unless
\* one of them started after its own lease had run out.
THEOREM OncePerWindowHolds == Spec => []OncePerWindow
<1>1. Init => StatusFollowsThread /\ LeaseIsOwn /\ StartingIsAlone /\ OncePerWindow
  BY DEF Init, StatusFollowsThread, LeaseIsOwn, StartingIsAlone, OncePerWindow, Leased, Scoped,
     Gone,
     Points
<1>2. /\ TypeOK /\ StatusFollowsThread /\ LeaseIsOwn /\ StartingIsAlone /\ OncePerWindow
      /\ [Next]_vars
      => StatusFollowsThread' /\ LeaseIsOwn' /\ StartingIsAlone' /\ OncePerWindow'
  BY StatusStep, LeaseStep, OnceStep
<1> QED
  BY <1>1, <1>2, TypeCorrect, PTL DEF Spec
----
(* The engine state and the outcomes *)

\* The status of an engine state fits what is active in it.
StatusFits(g) ==
  /\ g.status \in {"STARTING", "IDLE", "DEGRADED"} => g.active = {}
  /\ g.status = "RUNNING" => g.active # {}
  /\ g.status = "DEGRADED" => g.degraded

EnginesFit == \A p \in Procs : StatusFits(engine[p])

\* What is active in a process is a call of that process which has started and has
\* not been completed, or which left run_job between the two.
ActiveIsStarted ==
  \A p \in Procs : \A e \in engine[p].active :
    /\ pc[e] \in {"started", "handling", "succeeded", "raised", "escaped"}
    /\ Proc(e) = p

\* A call that runs its handler, or is about to, is active in its process.
RunningIsActive ==
  \A e \in Execs : pc[e] \in {"started", "handling"} => e \in engine[Proc(e)].active

\* A publication, delivered or not, changes nothing of what is active and leaves a
\* status that fits it.
LEMMA PublishFits ==
  ASSUME NEW g \in EngineRuntimeState, StatusFits(g)
  PROVE  /\ Delivered(g).active = g.active /\ StatusFits(Delivered(g))
         /\ Undelivered(g).active = g.active /\ StatusFits(Undelivered(g))
         /\ Undelivered(Delivered(g)).active = g.active
         /\ StatusFits(Undelivered(Delivered(g)))
         /\ \A h \in Publish(g) : h.active = g.active /\ StatusFits(h)
<1>1. /\ Delivered(g).active = g.active /\ StatusFits(Delivered(g))
      /\ Delivered(g) \in EngineRuntimeState
  BY PublishType DEF EngineRuntimeState, EngineStatus, Delivered, Busy, StatusFits
<1>2. \A h \in EngineRuntimeState : StatusFits(h) =>
        Undelivered(h).active = h.active /\ StatusFits(Undelivered(h))
  BY DEF EngineRuntimeState, EngineStatus, Undelivered, StatusFits
<1> QED BY <1>1, <1>2 DEF Publish

\* _state_with_active and _complete leave a status that fits.
LEMMA UpdateFits ==
  ASSUME NEW g \in EngineRuntimeState, NEW e \in Execs
  PROVE  /\ StatusFits(WithActive(g, e)) /\ WithActive(g, e).active = g.active \cup {e}
         /\ StatusFits(Complete(g, e)) /\ Complete(g, e).active = g.active \ {e}
         /\ StatusFits(WithStatus(g, "STOPPED")) /\ WithStatus(g, "STOPPED").active = g.active
BY DEF EngineRuntimeState, EngineStatus, WithActive, Complete, WithStatus, Busy, StatusFits

\* What a thread's publication makes of the engine state of its process.
LEMMA PublishThenFits ==
  ASSUME TypeOK, EnginesFit, NEW e \in Execs, NEW point, PublishThen(e, point), pc[e] # "unborn"
  PROVE  /\ EnginesFit'
         /\ \A p \in Procs : engine'[p].active = engine[p].active
         /\ pc' = [pc EXCEPT ![e] = point] \/ pc' = [pc EXCEPT ![e] = AfterException(pc[e])]
<1>1. Proc(e) \in Procs
  BY DEF TypeOK, Proc, Calls
<1>2. PICK h : /\ h.active = engine[Proc(e)].active /\ StatusFits(h)
               /\ engine' = [engine EXCEPT ![Proc(e)] = h]
  BY <1>1, PublishFits DEF TypeOK, EnginesFit, PublishThen
<1>3. pc' = [pc EXCEPT ![e] = point] \/ pc' = [pc EXCEPT ![e] = AfterException(pc[e])]
  BY DEF PublishThen, Proceed, Raise, Goto
<1> QED BY <1>1, <1>2, <1>3 DEF TypeOK, EnginesFit

\* A thread moves on and what is active stays: an active call does not become one
\* that has ended, and no other call begins to run.
LEMMA ActiveKept ==
  ASSUME TypeOK, ActiveIsStarted, RunningIsActive, NEW e \in Execs, NEW point,
         UNCHANGED call, \A p \in Procs : engine'[p].active = engine[p].active,
         pc' = [pc EXCEPT ![e] = point], pc[e] # "unborn",
         pc[e] \in {"started", "handling", "succeeded", "raised", "escaped"} =>
           point \in {"started", "handling", "succeeded", "raised", "escaped"},
         point \in {"started", "handling"} => pc[e] \in {"started", "handling"}
  PROVE  ActiveIsStarted' /\ RunningIsActive'
<1>1. \A f \in Execs : pc[f] # "unborn" => Proc(f) \in Procs
  BY DEF TypeOK, Proc, Calls
<1>2. \A p \in Procs : engine[p].active \subseteq Execs
  BY DEF TypeOK, EngineRuntimeState
<1>3. ActiveIsStarted'
  BY <1>2 DEF ActiveIsStarted, TypeOK, Proc
<1>4. RunningIsActive'
  BY <1>1 DEF RunningIsActive, TypeOK, Proc
<1> QED BY <1>3, <1>4

\* Neither threads nor engine states change.
LEMMA ActiveSame ==
  ASSUME EnginesFit, ActiveIsStarted, RunningIsActive, UNCHANGED <<call, pc, engine>>
  PROVE  EnginesFit' /\ ActiveIsStarted' /\ RunningIsActive'
BY DEF EnginesFit, ActiveIsStarted, RunningIsActive, Proc

\* A publication outside of run_job's own thread.
LEMMA ActivePublished ==
  ASSUME TypeOK, EnginesFit, ActiveIsStarted, RunningIsActive, UNCHANGED <<call, pc>>,
         NEW p, NEW h \in Publish(engine[p]), engine' = [engine EXCEPT ![p] = h]
  PROVE  EnginesFit' /\ ActiveIsStarted' /\ RunningIsActive'
<1>1. CASE p \in Procs
  <2>1. h.active = engine[p].active /\ StatusFits(h)
    BY <1>1, PublishFits DEF TypeOK, EnginesFit
  <2>2. EnginesFit' /\ \A q \in Procs : engine'[q].active = engine[q].active
    BY <1>1, <2>1 DEF TypeOK, EnginesFit
  <2>3. \A f \in Execs : pc[f] # "unborn" => Proc(f) \in Procs
    BY DEF TypeOK, Proc, Calls
  <2> QED BY <2>2, <2>3 DEF ActiveIsStarted, RunningIsActive, Proc
<1>2. CASE p \notin Procs
  <2>1. engine' = engine
    BY <1>2 DEF TypeOK
  <2> QED BY <2>1, ActiveSame
<1> QED BY <1>1, <1>2

\* Every step keeps the engine states in line with the threads.
LEMMA EngineStep ==
  ASSUME TypeOK, DownIsQuiet, EnginesFit, ActiveIsStarted, RunningIsActive, [Next]_vars
  PROVE  EnginesFit' /\ ActiveIsStarted' /\ RunningIsActive'
<1> DEFINE Kept == EnginesFit' /\ ActiveIsStarted' /\ RunningIsActive'
           Busied == {"started", "handling", "succeeded", "raised", "escaped"}
<1>1. CASE Tick
  BY <1>1, ActiveSame DEF Tick, execVars
<1>2. ASSUME NEW p \in Procs, Boot(p) PROVE Kept
  <2>1. \A f \in Execs : pc[f] \in {"started", "handling"} => Proc(f) # p /\ Proc(f) \in Procs
    BY <1>2 DEF Boot, DownIsQuiet, Gone, TypeOK, Proc, Calls
  <2>2. UNCHANGED <<call, pc>> /\ engine'[p].active = {} /\ engine'[p].status = "IDLE"
        /\ \A q \in Procs \ {p} : engine'[q] = engine[q]
    BY <1>2 DEF Boot, execVars, TypeOK
  <2> QED BY <2>1, <2>2 DEF EnginesFit, StatusFits, ActiveIsStarted, RunningIsActive, Proc
<1>3. ASSUME NEW p \in Procs, ReportStarted(p) PROVE Kept
  BY <1>3, ActivePublished DEF ReportStarted, execVars
<1>4. ASSUME NEW p \in Procs, ShutdownScheduler(p) PROVE Kept
  BY <1>4, ActiveSame DEF ShutdownScheduler, execVars
<1>5. ASSUME NEW p \in Procs, Stop(p) PROVE Kept
  <2>1. engine' = [engine EXCEPT ![p] = WithStatus(engine[p], "STOPPED")]
        /\ UNCHANGED <<call, pc>>
    BY <1>5 DEF Stop, execVars
  <2>2. \A q \in Procs : engine'[q].active = engine[q].active /\ StatusFits(engine'[q])
    BY <2>1 DEF TypeOK, EnginesFit, EngineRuntimeState, WithStatus, StatusFits
  <2>3. \A f \in Execs : pc[f] # "unborn" => Proc(f) \in Procs
    BY DEF TypeOK, Proc, Calls
  <2> QED BY <2>1, <2>2, <2>3 DEF EnginesFit, ActiveIsStarted, RunningIsActive, Proc
<1>6. ASSUME NEW p \in Procs, ReportStopping(p) PROVE Kept
  BY <1>6, ActivePublished DEF ReportStopping, execVars
<1>7. ASSUME NEW p \in Procs, Crash(p) PROVE Kept
  <2>1. /\ engine'[p].active = {} /\ engine'[p].status = "STARTING"
        /\ \A q \in Procs \ {p} : engine'[q] = engine[q]
        /\ call' = call
        /\ \A f \in Execs : pc'[f] = IF f \in InFlight(p) THEN "crashed" ELSE pc[f]
    BY <1>7 DEF Crash, TypeOK
  <2>2. EnginesFit'
    BY <2>1 DEF EnginesFit, StatusFits
  <2>3. ActiveIsStarted'
    <3>1. \A q \in Procs : engine[q].active \subseteq Execs
      BY DEF TypeOK, EngineRuntimeState
    <3>2. \A q \in Procs \ {p} : \A f \in engine[q].active : f \notin InFlight(p)
      BY DEF ActiveIsStarted, InFlight, CallsOf, Proc
    <3> QED BY <2>1, <3>1, <3>2 DEF ActiveIsStarted, Proc
  <2>4. RunningIsActive'
    <3>1. ASSUME NEW f \in Execs, pc'[f] \in {"started", "handling"}
          PROVE  /\ pc[f] = pc'[f] /\ Proc(f) \in Procs \ {p}
      <4>1. pc[f] = pc'[f] /\ f \notin InFlight(p)
        BY <2>1, <3>1
      <4>2. Proc(f) \in Procs
        BY <3>1, <4>1 DEF TypeOK, Proc, Calls
      <4> QED BY <3>1, <4>1, <4>2 DEF InFlight, CallsOf, Gone, Proc
    <3> QED BY <2>1, <3>1 DEF RunningIsActive, Proc
  <2> QED BY <2>2, <2>3, <2>4
<1>8. ASSUME NEW e \in Execs, NEW p \in Procs, NEW j \in Jobs, RunJob(e, p, j) PROVE Kept
  <2>1. \A q \in Procs : engine[q].active \subseteq Execs \ {e}
    BY <1>8 DEF RunJob, TypeOK, EngineRuntimeState, ActiveIsStarted
  <2>2. /\ engine' = engine /\ pc'[e] = "scheduled"
        /\ \A f \in Execs \ {e} : pc'[f] = pc[f] /\ call'[f] = call[f]
    BY <1>8 DEF RunJob, Goto, TypeOK
  <2> QED BY <2>1, <2>2 DEF EnginesFit, ActiveIsStarted, RunningIsActive, Proc
<1>9. ASSUME NEW e \in Execs, Report(e) PROVE Kept
  <2>1. PublishThen(e, AfterReport(pc[e])) /\ UNCHANGED call
        /\ pc[e] \in {"scheduled", "started", "completed", "failed", "skipped"}
    BY <1>9 DEF Report
  <2>2. /\ EnginesFit' /\ \A p \in Procs : engine'[p].active = engine[p].active
        /\ \/ pc' = [pc EXCEPT ![e] = AfterReport(pc[e])]
           \/ pc' = [pc EXCEPT ![e] = AfterException(pc[e])]
    BY <2>1, PublishThenFits
  <2>3. /\ pc[e] = "started" => AfterReport(pc[e]) = "handling" /\ AfterException(pc[e]) = "escaped"
        /\ pc[e] # "started" => AfterReport(pc[e]) \notin {"started", "handling"}
        /\ AfterException(pc[e]) \notin {"started", "handling"}
    BY <2>1 DEF AfterReport, AfterException
  <2> QED BY <2>1, <2>2, <2>3, ActiveKept
<1>10. ASSUME NEW e \in Execs, Admit(e) PROVE Kept
  <2>1. UNCHANGED call /\ pc[e] = "admission"
    BY <1>10 DEF Admit
  <2>2. AfterException(pc[e]) = "escaped"
    BY <2>1 DEF AfterException
  <2>3. /\ EnginesFit' /\ \A p \in Procs : engine'[p].active = engine[p].active
        /\ \E point \in {"leasing", "starting", "returned", "escaped"} :
             pc' = [pc EXCEPT ![e] = point]
    <3>1. CASE UNCHANGED engine
      BY <1>10, <2>1, <2>2, <3>1 DEF Admit, Proceed, Raise, Goto, EnginesFit, PublishThen
    <3>2. CASE PublishThen(e, "returned")
      BY <2>1, <2>2, <3>2, PublishThenFits
    <3> QED BY <1>10, <3>1, <3>2 DEF Admit
  <2> QED BY <2>1, <2>3, ActiveKept
<1>11. ASSUME NEW e \in Execs, UNCHANGED <<call, engine>>,
              pc[e] \notin Busied \cup {"unborn"},
              NEW point \in Points \ {"started", "handling"}, pc' = [pc EXCEPT ![e] = point]
       PROVE  Kept
  BY <1>11, ActiveKept DEF EnginesFit
<1>12. ASSUME NEW e \in Execs,
              Acquire(e) \/ SkipLocked(e) \/ Check(e) \/ ReleaseDuplicate(e)
              \/ SkipDuplicate(e) \/ ReleaseLease(e) \/ Return(e)
       PROVE  Kept
  <2>1. /\ UNCHANGED <<call, engine>>
        /\ pc[e] \in {"leasing", "lockedOut", "checking", "duplicate", "dupDiscard",
                      "releasing", "discarding"}
    BY <1>12 DEF Acquire, SkipLocked, Check, ReleaseDuplicate, SkipDuplicate, ReleaseLease,
       Return
  <2>2. AfterException(pc[e]) = "escaped"
    BY <2>1 DEF AfterException
  <2>3. \E point \in {"checking", "lockedOut", "skipped", "starting", "duplicate", "dupDiscard",
                      "discarding", "returned", "escaped"} : pc' = [pc EXCEPT ![e] = point]
    BY <1>12, <2>2 DEF Acquire, SkipLocked, Check, ReleaseDuplicate, SkipDuplicate, ReleaseLease,
       Return, SaveSkipped, Proceed, Raise, Goto
  <2> QED BY <1>11, <2>1, <2>3 DEF Points
<1>13. ASSUME NEW e \in Execs, Start(e) PROVE Kept
  <2>1. /\ pc[e] = "starting" /\ UNCHANGED call
        /\ engine' = [engine EXCEPT ![Proc(e)] = WithActive(engine[Proc(e)], e)]
        /\ AfterException(pc[e]) = "escaped"
    BY <1>13 DEF Start, AfterException
  <2>2. Proc(e) \in Procs /\ \A p \in Procs : engine[p].active \subseteq Execs
    BY <2>1 DEF TypeOK, Proc, Calls, EngineRuntimeState
  <2>3. \E point \in {"started", "escaped"} : pc' = [pc EXCEPT ![e] = point]
    BY <1>13, <2>1 DEF Start, Proceed, Raise, Goto
  <2>4. /\ pc'[e] \in {"started", "escaped"} /\ \A f \in Execs \ {e} : pc'[f] = pc[f]
    BY <2>3 DEF TypeOK
  <2>5. /\ engine'[Proc(e)].active = engine[Proc(e)].active \cup {e}
        /\ StatusFits(engine'[Proc(e)])
        /\ \A p \in Procs \ {Proc(e)} : engine'[p] = engine[p]
    BY <2>1, <2>2, UpdateFits DEF TypeOK
  <2>6. EnginesFit'
    BY <2>5 DEF EnginesFit
  <2>7. ActiveIsStarted'
    BY <2>1, <2>2, <2>4, <2>5 DEF ActiveIsStarted, Proc
  <2>8. RunningIsActive'
    <3>1. \A f \in Execs : pc[f] # "unborn" => Proc(f) \in Procs
      BY DEF TypeOK, Proc, Calls
    <3> QED BY <2>1, <2>2, <2>4, <2>5, <3>1 DEF RunningIsActive, Proc
  <2> QED BY <2>6, <2>7, <2>8
<1>14. ASSUME NEW e \in Execs, HandlerEnds(e) \/ HandlerTimesOut(e) PROVE Kept
  <2>1. pc[e] = "handling" /\ UNCHANGED <<call, engine>>
        /\ \E point \in {"succeeded", "raised"} : pc' = [pc EXCEPT ![e] = point]
    BY <1>14 DEF HandlerEnds, HandlerTimesOut, Proceed, Goto
  <2>2. ActiveIsStarted' /\ RunningIsActive'
    BY <2>1, ActiveKept
  <2> QED BY <2>1, <2>2 DEF EnginesFit
<1>15. ASSUME NEW e \in Execs, ZombieEnds(e) PROVE Kept
  BY <1>15, ActiveSame DEF ZombieEnds
<1>16. ASSUME NEW e \in Execs, Heartbeat(e) PROVE Kept
  BY <1>16, ActivePublished DEF Heartbeat, execVars
<1>17. ASSUME NEW e \in Execs, Finish(e) PROVE Kept
  <2>1. /\ pc[e] \in {"succeeded", "raised"} /\ UNCHANGED call
        /\ engine' = [engine EXCEPT ![Proc(e)] = Complete(engine[Proc(e)], e)]
        /\ AfterException(pc[e]) \in {"raised", "releasing"}
    BY <1>17 DEF Finish, AfterException
  <2>2. Proc(e) \in Procs /\ \A p \in Procs : engine[p].active \subseteq Execs
    BY <2>1 DEF TypeOK, Proc, Calls, EngineRuntimeState
  <2>3. \E point \in {"completed", "failed", "raised", "releasing"} :
          pc' = [pc EXCEPT ![e] = point]
    BY <1>17, <2>1 DEF Finish, Proceed, Raise, Goto
  <2>4. /\ pc'[e] \notin {"started", "handling"} /\ \A f \in Execs \ {e} : pc'[f] = pc[f]
    BY <2>3 DEF TypeOK
  <2>5. /\ engine'[Proc(e)].active = engine[Proc(e)].active \ {e}
        /\ StatusFits(engine'[Proc(e)])
        /\ \A p \in Procs \ {Proc(e)} : engine'[p] = engine[p]
    BY <2>1, <2>2, UpdateFits DEF TypeOK
  <2>6. EnginesFit'
    BY <2>5 DEF EnginesFit
  <2>7. \A p \in Procs : engine'[p].active \subseteq engine[p].active \ {e}
    BY <2>2, <2>5 DEF ActiveIsStarted
  <2>8. ActiveIsStarted'
    BY <2>1, <2>2, <2>4, <2>7 DEF ActiveIsStarted, Proc
  <2>9. RunningIsActive'
    <3>1. \A f \in Execs : pc[f] # "unborn" => Proc(f) \in Procs
      BY DEF TypeOK, Proc, Calls
    <3> QED BY <2>1, <2>2, <2>4, <2>5, <3>1 DEF RunningIsActive, Proc
  <2> QED BY <2>6, <2>8, <2>9
<1>18. CASE UNCHANGED vars
  BY <1>18, ActiveSame DEF vars
<1> QED
  BY <1>1, <1>2, <1>3, <1>4, <1>5, <1>6, <1>7, <1>8, <1>9, <1>10, <1>12, <1>13, <1>14,
     <1>15, <1>16, <1>17, <1>18 DEF Next, ThreadStep

\* The engine state of a process tells what it runs, whatever raises, times out,
\* fails to be reported or crashes: RUNNING goes with an active execution, IDLE and
\* DEGRADED with none, and an execution is active from its start to its completion.
THEOREM EngineTellsWhatRunsHolds == Spec => []EngineTellsWhatRuns
<1>1. Init => DownIsQuiet /\ EnginesFit /\ ActiveIsStarted /\ RunningIsActive
  BY DEF Init, DownIsQuiet, EnginesFit, StatusFits, ActiveIsStarted, RunningIsActive, Gone
<1>2. /\ TypeOK /\ DownIsQuiet /\ EnginesFit /\ ActiveIsStarted /\ RunningIsActive /\ [Next]_vars
      => DownIsQuiet' /\ EnginesFit' /\ ActiveIsStarted' /\ RunningIsActive'
  BY DownStep, EngineStep
<1>3. EnginesFit /\ ActiveIsStarted /\ RunningIsActive => EngineTellsWhatRuns
  BY DEF EnginesFit, StatusFits, ActiveIsStarted, RunningIsActive, EngineTellsWhatRuns,
     CallsOf, Proc
<1> QED
  BY <1>1, <1>2, <1>3, TypeCorrect, PTL DEF Spec

\* As long as no storage operation has raised, the except clause of run_job is
\* entered from a running handler only.
RaisedWhileRunning ==
  \A e \in Execs :
    /\ pc[e] = "unborn" => status[e] = "SCHEDULED"
    /\ faults = 0 /\ pc[e] = "raised" => status[e] = "RUNNING"

\* Every step keeps that, and rewrites no outcome while nothing has raised.
LEMMA OutcomeStep ==
  ASSUME TypeOK, StatusFollowsThread, RaisedWhileRunning, [Next]_vars
  PROVE  /\ RaisedWhileRunning'
         /\ faults' = 0 => \A e \in Execs :
              status[e] \notin {"SCHEDULED", "RUNNING"} => status'[e] = status[e]
<1> DEFINE Final == faults' = 0 => \A e \in Execs :
              status[e] \notin {"SCHEDULED", "RUNNING"} => status'[e] = status[e]
<1>1. ASSUME UNCHANGED status, faults' = 0 => faults = 0,
             \A e \in Execs : /\ pc'[e] = "unborn" => pc[e] = "unborn"
                              /\ faults' = 0 /\ pc'[e] = "raised" =>
                                   pc[e] \in {"raised", "handling"}
      PROVE  RaisedWhileRunning' /\ Final
  BY <1>1 DEF RaisedWhileRunning, StatusFollowsThread
<1>2. CASE \/ Tick \/ \E p \in Procs : \/ Boot(p) \/ ReportStarted(p) \/ ShutdownScheduler(p)
                                      \/ Stop(p) \/ ReportStopping(p)
           \/ \E e \in Execs : ZombieEnds(e) \/ Heartbeat(e)
           \/ UNCHANGED vars
  <2>1. UNCHANGED <<status, faults, pc>>
    BY <1>2 DEF Tick, Boot, ReportStarted, ShutdownScheduler, Stop, ReportStopping, ZombieEnds,
       Heartbeat, execVars, vars
  <2> QED BY <1>1, <2>1
<1>3. ASSUME NEW p \in Procs, Crash(p) PROVE RaisedWhileRunning' /\ Final
  <2>1. UNCHANGED <<status, faults>> /\ \A e \in Execs : pc'[e] = "crashed" \/ pc'[e] = pc[e]
    BY <1>3 DEF Crash, TypeOK
  <2> QED BY <1>1, <2>1
<1>4. ASSUME NEW e \in Execs, NEW p \in Procs, NEW j \in Jobs, RunJob(e, p, j)
      PROVE  RaisedWhileRunning' /\ Final
  <2>1. /\ pc[e] = "unborn" /\ pc' = [pc EXCEPT ![e] = "scheduled"] /\ UNCHANGED faults
        /\ status' = [status EXCEPT ![e] = "SCHEDULED"]
    BY <1>4 DEF RunJob, Goto
  <2>2. status' = status
    BY <2>1 DEF RaisedWhileRunning, TypeOK
  <2> QED BY <1>1, <2>1, <2>2 DEF TypeOK
<1>5. ASSUME NEW e \in Execs, Raise(e), pc[e] # "unborn", UNCHANGED status \/
             \E s \in JobStatus : status' = [status EXCEPT ![e] = s]
      PROVE  RaisedWhileRunning' /\ Final
  <2>1. faults' # 0 /\ pc'[e] # "unborn" /\ \A f \in Execs \ {e} : pc'[f] = pc[f]
    BY <1>5 DEF Raise, Goto, AfterException, TypeOK
  <2>2. \A f \in Execs \ {e} : status'[f] = status[f]
    BY <1>5 DEF TypeOK
  <2> QED BY <2>1, <2>2 DEF RaisedWhileRunning
<1>6. ASSUME NEW e \in Execs, UNCHANGED faults \/ faults' = faults + 1,
             NEW s \in JobStatus, status' = [status EXCEPT ![e] = s],
             status[e] \in {"SCHEDULED", "RUNNING"} \/ faults # 0,
             NEW point \in Points \ {"unborn", "raised"}, pc' = [pc EXCEPT ![e] = point]
      PROVE  RaisedWhileRunning' /\ Final
  <2>1. /\ faults' = 0 => faults = 0
        /\ \A f \in Execs \ {e} : pc'[f] = pc[f] /\ status'[f] = status[f]
        /\ pc'[e] \notin {"unborn", "raised"}
    BY <1>6 DEF TypeOK
  <2> QED BY <1>6, <2>1 DEF RaisedWhileRunning
<1>7. ASSUME NEW e \in Execs, UNCHANGED status, UNCHANGED faults \/ faults' = faults + 1,
             NEW point \in Points \ {"unborn", "raised"}, pc' = [pc EXCEPT ![e] = point]
      PROVE  RaisedWhileRunning' /\ Final
  BY <1>1, <1>7 DEF TypeOK
<1>8. ASSUME NEW e \in Execs, NEW point \in Points \ {"unborn", "raised"}, PublishThen(e, point),
             pc[e] # "unborn",
             \/ UNCHANGED status
             \/ /\ status[e] = "SCHEDULED"
                /\ \E s \in JobStatus : status' = [status EXCEPT ![e] = s]
      PROVE  RaisedWhileRunning' /\ Final
  <2>1. CASE Raise(e)
    BY <1>5, <1>8, <2>1
  <2>2. CASE pc' = [pc EXCEPT ![e] = point] /\ (UNCHANGED faults \/ faults' = faults + 1)
    BY <1>6, <1>7, <1>8, <2>2
  <2> QED BY <1>8, <2>1, <2>2 DEF PublishThen, Proceed, Goto
<1>9. ASSUME NEW e \in Execs, Report(e) PROVE RaisedWhileRunning' /\ Final
  <2>1. /\ pc[e] \in {"scheduled", "started", "completed", "failed", "skipped"}
        /\ PublishThen(e, AfterReport(pc[e])) /\ UNCHANGED status
    BY <1>9 DEF Report
  <2>2. AfterReport(pc[e]) \in Points \ {"unborn", "raised"}
    BY <2>1 DEF AfterReport, Points
  <2> QED BY <1>8, <2>1, <2>2
<1>10. ASSUME NEW e \in Execs, Admit(e) PROVE RaisedWhileRunning' /\ Final
  <2>1. pc[e] = "admission" /\ status[e] = "SCHEDULED"
    BY <1>10 DEF Admit, StatusFollowsThread
  <2>2. CASE Proceed(e, IF Keyed(e) THEN "leasing" ELSE "starting") /\ UNCHANGED status
    <3>1. \E point \in {"leasing", "starting"} : pc' = [pc EXCEPT ![e] = point]
      BY <2>2 DEF Proceed, Goto
    <3>2. UNCHANGED faults
      BY <2>2 DEF Proceed
    <3> QED BY <1>7, <2>2, <3>1, <3>2 DEF Points
  <2>3. CASE /\ status' = [status EXCEPT ![e] = IF Keyed(e) THEN "SKIPPED_LOCKED" ELSE "SKIPPED"]
             /\ PublishThen(e, "returned")
    <3>1. \E s \in JobStatus : status' = [status EXCEPT ![e] = s]
      BY <2>3 DEF JobStatus
    <3> QED BY <1>8, <2>1, <2>3, <3>1 DEF Points
  <2>4. CASE Raise(e) /\ UNCHANGED status
    BY <1>5, <2>1, <2>4
  <2> QED BY <1>10, <2>2, <2>3, <2>4 DEF Admit
<1>11. ASSUME NEW e \in Execs, Acquire(e) \/ Check(e) \/ ReleaseDuplicate(e) \/ ReleaseLease(e)
                               \/ Return(e)
       PROVE  RaisedWhileRunning' /\ Final
  <2>1. UNCHANGED status /\ pc[e] # "unborn"
    BY <1>11 DEF Acquire, Check, ReleaseDuplicate, ReleaseLease, Return
  <2>2. \/ Raise(e)
        \/ /\ UNCHANGED faults
           /\ \E point \in {"checking", "lockedOut", "starting", "duplicate", "dupDiscard",
                            "discarding", "returned"} : pc' = [pc EXCEPT ![e] = point]
    BY <1>11 DEF Acquire, Check, ReleaseDuplicate, ReleaseLease, Return, Proceed, Goto
  <2> QED BY <1>5, <1>7, <2>1, <2>2 DEF Points
<1>12. ASSUME NEW e \in Execs, SkipLocked(e) \/ SkipDuplicate(e)
       PROVE  RaisedWhileRunning' /\ Final
  <2>1. pc[e] # "unborn" /\ status[e] = "SCHEDULED"
    BY <1>12 DEF SkipLocked, SkipDuplicate, StatusFollowsThread
  <2>2. \/ Raise(e) /\ UNCHANGED status
        \/ /\ UNCHANGED faults /\ pc' = [pc EXCEPT ![e] = "skipped"]
           /\ \E s \in JobStatus : status' = [status EXCEPT ![e] = s]
    BY <1>12 DEF SkipLocked, SkipDuplicate, SaveSkipped, Proceed, Goto, JobStatus
  <2> QED BY <1>5, <1>6, <2>1, <2>2 DEF Points
<1>13. ASSUME NEW e \in Execs, Start(e) PROVE RaisedWhileRunning' /\ Final
  <2>1. pc[e] # "unborn" /\ status[e] = "SCHEDULED"
    BY <1>13 DEF Start, StatusFollowsThread
  <2>2. \/ Raise(e) /\ (UNCHANGED status \/ status' = [status EXCEPT ![e] = "RUNNING"])
        \/ /\ UNCHANGED faults /\ pc' = [pc EXCEPT ![e] = "started"]
           /\ status' = [status EXCEPT ![e] = "RUNNING"]
    BY <1>13 DEF Start, SaveRunning, Proceed, Goto
  <2> QED BY <1>5, <1>6, <2>1, <2>2 DEF Points, JobStatus
<1>14. ASSUME NEW e \in Execs, HandlerEnds(e) \/ HandlerTimesOut(e)
       PROVE  RaisedWhileRunning' /\ Final
  <2>1. /\ pc[e] = "handling" /\ UNCHANGED <<status, faults>>
        /\ \E point \in {"succeeded", "raised"} : pc' = [pc EXCEPT ![e] = point]
    BY <1>14 DEF HandlerEnds, HandlerTimesOut, Proceed, Goto
  <2> QED BY <1>1, <2>1 DEF TypeOK
<1>15. ASSUME NEW e \in Execs, Finish(e) PROVE RaisedWhileRunning' /\ Final
  <2>1. pc[e] # "unborn" /\ (status[e] = "RUNNING" \/ faults # 0)
    BY <1>15 DEF Finish, StatusFollowsThread, RaisedWhileRunning
  <2>2. \/ Raise(e) /\ (UNCHANGED status \/ \E s \in JobStatus : status' = [status EXCEPT ![e] = s])
        \/ /\ UNCHANGED faults
           /\ \E point \in {"completed", "failed"} : pc' = [pc EXCEPT ![e] = point]
           /\ \E s \in JobStatus : status' = [status EXCEPT ![e] = s]
    BY <1>15 DEF Finish, Proceed, Goto, JobStatus
  <2> QED BY <1>5, <1>6, <2>1, <2>2 DEF Points
<1> QED
  BY <1>2, <1>3, <1>4, <1>9, <1>10, <1>11, <1>12, <1>13, <1>14, <1>15 DEF Next, ThreadStep

\* No step of run_job and no failed report rewrites a completed, failed or skipped
\* execution as long as no storage operation has raised.
THEOREM OutcomeIsFinalHolds == Spec => OutcomeIsFinal
<1>1. Init => StatusFollowsThread /\ RaisedWhileRunning
  BY DEF Init, StatusFollowsThread, RaisedWhileRunning
<1>2. TypeOK /\ StatusFollowsThread /\ RaisedWhileRunning /\ [Next]_vars
      => /\ StatusFollowsThread' /\ RaisedWhileRunning'
         /\ [faults' = 0 => \A e \in Execs :
               status[e] \notin {"SCHEDULED", "RUNNING"} => status'[e] = status[e]]_vars
  BY StatusStep, OutcomeStep
<1> QED
  BY <1>1, <1>2, TypeCorrect, PTL DEF Spec, OutcomeIsFinal
=============================================================================
