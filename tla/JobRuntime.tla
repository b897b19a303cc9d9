----------------------------- MODULE JobRuntime -----------------------------
(***************************************************************************)
(* The autonomous runtime: RuntimeStateService.run_job, the SQLite job     *)
(* lease, the persisted execution records and the engine state, for        *)
(* several processes that share one state directory.                       *)
(*                                                                         *)
(* An element of Execs is one call of run_job and the thread that makes it;*)
(* pc[e] is where that thread stands.  What the code does while it holds   *)
(* the service's RLock is one step.  One tick of the clock is one minute,  *)
(* the width of an execution identity's window.                            *)
(***************************************************************************)
EXTENDS Integers, FiniteSets

CONSTANTS
  Procs,          \* processes that share the state directory
  Execs,          \* calls of run_job (execution ids)
  Jobs,           \* names of scheduled jobs
  Keys,           \* lock keys
  NoKey,          \* the lock_key of a job that needs no lease
  LockKey,        \* job -> its lock_key or NoKey
  Timed,          \* jobs whose handler runs in a pool with a timeout
  TTL,            \* lease lifetime, in minutes
  HttpReporting,  \* TRUE: events are posted over HTTP, and a post may fail
  HostDrains,     \* TRUE: the host ends every call before state.stop()
  MaxClock,       \* bound on the clock
  MaxFaults,      \* bound on storage operations that raise
  MaxCrashes      \* bound on process crashes

ASSUME ConstantsAssumption ==
  /\ NoKey \notin Keys
  /\ Jobs \cap Keys = {}
  /\ LockKey \in [Jobs -> Keys \cup {NoKey}]
  /\ Timed \subseteq {j \in Jobs : LockKey[j] = NoKey}
  /\ TTL \in Nat \ {0}
  /\ HttpReporting \in BOOLEAN
  /\ HostDrains \in BOOLEAN
  /\ MaxClock \in Nat
  /\ MaxFaults \in Nat
  /\ MaxCrashes \in Nat

VARIABLES
  clock,      \* minutes
  phase,      \* process -> life cycle of AutonomousRuntime
  accepting,  \* process -> RuntimeStateService._accepting
  engine,     \* process -> RuntimeStateService._state
  scopes,     \* process -> RuntimeStateService._active_jobs
  call,       \* execution -> the process, job and window of the call
  pc,         \* execution -> where its thread stands
  status,     \* execution -> status in its persisted record
  startedAt,  \* execution -> started_at in its persisted record
  expires,    \* execution -> expires_at of the lease it was granted
  zombies,    \* executions whose handler outlived its timeout
  lease,      \* lock key -> row of job_lease
  faults,     \* storage operations that have raised
  crashes     \* processes that have crashed

vars == <<clock, phase, accepting, engine, scopes, call, pc, status, startedAt,
          expires, zombies, lease, faults, crashes>>
----------------------------------------------------------------------------
(* Types *)

Scopes == Jobs \cup Keys

Calls == [proc : Procs, job : Jobs, window : Nat]

NoCall == [proc |-> "none"]

Leases == [owner : Execs \cup {"none"}, expires : Nat]

\* No row in job_lease: like a row that expired long ago, for acquire.
NoLease == [owner |-> "none", expires |-> 0]

EngineStatus == {"STARTING", "IDLE", "RUNNING", "DEGRADED", "STOPPED"}

EngineRuntimeState ==
  [status : EngineStatus, active : SUBSET Execs, degraded : BOOLEAN]

JobStatus == {"SCHEDULED", "RUNNING", "COMPLETED", "FAILED", "SKIPPED",
              "SKIPPED_LOCKED", "SKIPPED_DUPLICATE"}

Phases == {"down", "booted", "running", "draining", "stopping", "stopped"}

\* Where the thread of a call can stand, in the order of the code.
Points == {"unborn", "scheduled", "admission", "leasing", "lockedOut", "checking",
           "duplicate", "dupDiscard", "skipped", "starting", "started", "handling",
           "succeeded", "completed", "raised", "failed", "releasing",
           "discarding", "returned", "escaped", "crashed"}

\* The thread no longer exists, or does not yet.
Gone == {"unborn", "returned", "escaped", "crashed"}

\* The call has put its scope in _active_jobs and not yet taken it out.
Scoped == Points \ (Gone \cup {"scheduled", "admission", "skipped"})

\* The call of a keyed job has been granted a lease and not yet released it.
Leased == Scoped \ {"leasing", "lockedOut", "dupDiscard", "discarding"}

\* Points that only the call of a keyed job reaches.
KeyedPoints == {"leasing", "lockedOut", "checking", "duplicate", "dupDiscard"}

Key(e) == LockKey[call[e].job]

Keyed(e) == Key(e) # NoKey

\* scope = lock_key or job_name
Scope(e) == IF Keyed(e) THEN Key(e) ELSE call[e].job

SameIdentity(e, f) ==
  /\ Keyed(e)
  /\ call[e].job = call[f].job
  /\ call[e].window = call[f].window
----------------------------------------------------------------------------
(* Reporting: _publish *)

Busy(g) == IF g.active = {} THEN "IDLE" ELSE "RUNNING"

\* The event was delivered.
Delivered(g) ==
  IF g.degraded THEN [g EXCEPT !.status = Busy(g), !.degraded = FALSE] ELSE g

\* Delivery failed after the finite retries.
Undelivered(g) ==
  [g EXCEPT !.status = IF @ \in {"RUNNING", "STOPPED"} THEN @ ELSE "DEGRADED",
            !.degraded = TRUE]

\* What _publish may make of the engine state when nothing it saves raises.
Publish(g) == {Delivered(g)} \cup (IF HttpReporting THEN {Undelivered(g)} ELSE {})

\* Mutant of _complete: the finished execution stays in active_execution_ids.
CompleteKeepsActive(g, e) == [g EXCEPT !.status = Busy(g)]

\* _complete: the execution leaves active_execution_ids, the status follows.
Complete(g, e) ==
  LET rest == [g EXCEPT !.active = @ \ {e}] IN [rest EXCEPT !.status = Busy(rest)]

\* _state_with_active
WithActive(g, e) == [g EXCEPT !.status = "RUNNING", !.active = @ \cup {e}]

\* _with_status
WithStatus(g, s) == [g EXCEPT !.status = s]
----------------------------------------------------------------------------
(* The lease table and the execution records *)

\* acquire refuses a row with expires_at > now.
LeaseFree(k) == lease[k].expires <= clock

\* Mutant of release: DELETE by key alone, whoever owns the row.
ReleaseAnyOwner(e) == [lease EXCEPT ![Key(e)] = NoLease]

\* release: DELETE ... WHERE lock_key = ? AND owner_id = ?
Release(e) ==
  IF lease[Key(e)].owner = e THEN [lease EXCEPT ![Key(e)] = NoLease] ELSE lease

\* Mutant of find_execution_by_identity: a RUNNING record is overlooked.
FindCompletedOnly(e) ==
  {f \in Execs : /\ pc[f] # "unborn"
                 /\ SameIdentity(e, f)
                 /\ status[f] = "COMPLETED"}

\* find_execution_by_identity
FindExecutionByIdentity(e) ==
  {f \in Execs : /\ pc[f] # "unborn"
                 /\ SameIdentity(e, f)
                 /\ status[f] \in {"RUNNING", "COMPLETED"}}
----------------------------------------------------------------------------
(* Life cycle of a process: AutonomousRuntime and the service it starts *)

Init ==
  /\ clock = 0
  /\ phase = [p \in Procs |-> "down"]
  /\ accepting = [p \in Procs |-> TRUE]
  /\ engine = [p \in Procs |->
       [status |-> "STARTING", active |-> {}, degraded |-> FALSE]]
  /\ scopes = [p \in Procs |-> {}]
  /\ call = [e \in Execs |-> NoCall]
  /\ pc = [e \in Execs |-> "unborn"]
  /\ status = [e \in Execs |-> "SCHEDULED"]
  /\ startedAt = [e \in Execs |-> 0]
  /\ expires = [e \in Execs |-> 0]
  /\ zombies = {}
  /\ lease = [k \in Keys |-> NoLease]
  /\ faults = 0
  /\ crashes = 0

execVars == <<call, pc, status, startedAt, expires, zombies>>

CallsOf(p) == {e \in Execs : pc[e] # "unborn" /\ call[e].proc = p}

InFlight(p) == {e \in CallsOf(p) : pc[e] \notin Gone}

Tick ==
  /\ clock < MaxClock
  /\ clock' = clock + 1
  /\ UNCHANGED <<phase, accepting, engine, scopes, execVars, lease, faults, crashes>>

\* A new process builds a RuntimeStateService and calls start().
Boot(p) ==
  /\ phase[p] = "down"
  /\ phase' = [phase EXCEPT ![p] = "booted"]
  /\ accepting' = [accepting EXCEPT ![p] = TRUE]
  /\ engine' = [engine EXCEPT ![p] = [status |-> "IDLE", active |-> {}, degraded |-> FALSE]]
  /\ scopes' = [scopes EXCEPT ![p] = {}]
  /\ UNCHANGED <<clock, execVars, lease, faults, crashes>>

\* start() publishes ENGINE_STARTED; then the scheduler starts.
ReportStarted(p) ==
  /\ phase[p] = "booted"
  /\ phase' = [phase EXCEPT ![p] = "running"]
  /\ \E g \in Publish(engine[p]) : engine' = [engine EXCEPT ![p] = g]
  /\ UNCHANGED <<clock, accepting, scopes, execVars, lease, faults, crashes>>

\* AutonomousRuntime.stop: scheduler.shutdown(wait=True) begins.
ShutdownScheduler(p) ==
  /\ phase[p] = "running"
  /\ phase' = [phase EXCEPT ![p] = "draining"]
  /\ UNCHANGED <<clock, accepting, engine, scopes, execVars, lease, faults, crashes>>

\* RuntimeStateService.stop, under the lock.
Stop(p) ==
  /\ phase[p] = "draining"
  /\ HostDrains => InFlight(p) = {}
  /\ phase' = [phase EXCEPT ![p] = "stopping"]
  /\ accepting' = [accepting EXCEPT ![p] = FALSE]
  /\ engine' = [engine EXCEPT ![p] = WithStatus(@, "STOPPED")]
  /\ UNCHANGED <<clock, scopes, execVars, lease, faults, crashes>>

\* stop() publishes ENGINE_STOPPING.
ReportStopping(p) ==
  /\ phase[p] = "stopping"
  /\ phase' = [phase EXCEPT ![p] = "stopped"]
  /\ \E g \in Publish(engine[p]) : engine' = [engine EXCEPT ![p] = g]
  /\ UNCHANGED <<clock, accepting, scopes, execVars, lease, faults, crashes>>

\* The process dies: its memory and its threads are gone, the lease table and
\* the execution records stay.
Crash(p) ==
  /\ phase[p] # "down"
  /\ crashes < MaxCrashes
  /\ crashes' = crashes + 1
  /\ phase' = [phase EXCEPT ![p] = "down"]
  /\ engine' = [engine EXCEPT ![p] =
       [status |-> "STARTING", active |-> {}, degraded |-> FALSE]]
  /\ scopes' = [scopes EXCEPT ![p] = {}]
  /\ pc' = [e \in Execs |-> IF e \in InFlight(p) THEN "crashed" ELSE pc[e]]
  /\ zombies' = zombies \ CallsOf(p)
  /\ UNCHANGED <<clock, accepting, call, status, startedAt, expires, lease, faults>>
----------------------------------------------------------------------------
(* run_job, step by step *)

Proc(e) == call[e].proc

Goto(e, point) == pc' = [pc EXCEPT ![e] = point]

\* Where an exception raised at a point takes the thread: the except clauses for
\* the try block, finally for those clauses, and out of run_job elsewhere.
AfterException(point) ==
  CASE point \in {"handling", "succeeded", "completed"} -> "raised"
    [] point \in {"raised", "failed"} -> "releasing"
    [] OTHER -> "escaped"

\* A storage operation of the step raises.
Raise(e) ==
  /\ faults < MaxFaults
  /\ faults' = faults + 1
  /\ Goto(e, AfterException(pc[e]))

\* The step ends normally and the thread goes on.
Proceed(e, point) == Goto(e, point) /\ UNCHANGED faults

\* The scheduler or the API calls run_job; the SCHEDULED record is saved.
RunJob(e, p, j) ==
  /\ pc[e] = "unborn"
  /\ \/ phase[p] = "running"
     \/ phase[p] \in {"draining", "stopping", "stopped"} /\ ~HostDrains
  /\ call' = [call EXCEPT ![e] = [proc |-> p, job |-> j, window |-> clock]]
  /\ status' = [status EXCEPT ![e] = "SCHEDULED"]
  /\ Goto(e, "scheduled")
  /\ UNCHANGED <<clock, phase, accepting, engine, scopes, startedAt, expires,
                 zombies, lease, faults, crashes>>

\* Where the thread goes once the event it is publishing has been reported.
AfterReport(point) ==
  CASE point = "scheduled" -> "admission"
    [] point = "started" -> "handling"
    [] point \in {"completed", "failed"} -> "releasing"
    [] point = "skipped" -> "returned"

\* _publish, after which the thread goes on at point.  A save that raises after
\* the delivery is taken for a failed delivery; a save that raises after a failed
\* delivery leaves _publish.
PublishThen(e, point) ==
  LET g == engine[Proc(e)] IN
  \/ /\ \E h \in Publish(g) : engine' = [engine EXCEPT ![Proc(e)] = h]
     /\ Proceed(e, point)
  \/ /\ g.degraded
     /\ faults < MaxFaults
     /\ faults' = faults + 1
     /\ engine' = [engine EXCEPT ![Proc(e)] = Undelivered(Delivered(g))]
     /\ Goto(e, point)
  \/ /\ HttpReporting
     /\ engine' = [engine EXCEPT ![Proc(e)] = Undelivered(g)]
     /\ Raise(e)

\* JOB_SCHEDULED, JOB_STARTED, JOB_COMPLETED, JOB_FAILED or JOB_SKIPPED is published.
Report(e) ==
  /\ pc[e] \in {"scheduled", "started", "completed", "failed", "skipped"}
  /\ PublishThen(e, AfterReport(pc[e]))
  /\ UNCHANGED <<clock, phase, accepting, scopes, call, status, startedAt, expires,
                 zombies, lease, crashes>>

\* Mutant of the admission test: _active_jobs is not consulted.
AdmissibleWhileAccepting(e) == accepting[Proc(e)]

\* The negation of: not self._accepting or scope in self._active_jobs
Admissible(e) == accepting[Proc(e)] /\ Scope(e) \notin scopes[Proc(e)]

\* Admission under the lock: the call enters _active_jobs, or it is skipped and
\* the skip is published before the lock is let go.
Admit(e) ==
  /\ pc[e] = "admission"
  /\ \/ /\ Admissible(e)
        /\ scopes' = [scopes EXCEPT ![Proc(e)] = @ \cup {Scope(e)}]
        /\ Proceed(e, IF Keyed(e) THEN "leasing" ELSE "starting")
        /\ UNCHANGED <<engine, status>>
     \/ /\ ~Admissible(e)
        /\ status' = [status EXCEPT ![e] = IF Keyed(e) THEN "SKIPPED_LOCKED" ELSE "SKIPPED"]
        /\ PublishThen(e, "returned")
        /\ UNCHANGED scopes
     \/ /\ ~Admissible(e)
        /\ Raise(e)
        /\ UNCHANGED <<engine, scopes, status>>
  /\ UNCHANGED <<clock, phase, accepting, call, startedAt, expires, zombies, lease,
                 crashes>>

\* SqliteJobLock.acquire with the execution id as owner.
Acquire(e) ==
  /\ pc[e] = "leasing"
  /\ \/ /\ LeaseFree(Key(e))
        /\ lease' = [lease EXCEPT ![Key(e)] = [owner |-> e, expires |-> clock + TTL]]
        /\ expires' = [expires EXCEPT ![e] = clock + TTL]
        /\ Proceed(e, "checking")
     \/ /\ ~LeaseFree(Key(e))
        /\ Proceed(e, "lockedOut")
        /\ UNCHANGED <<lease, expires>>
     \/ /\ Raise(e)
        /\ UNCHANGED <<lease, expires>>
  /\ UNCHANGED <<clock, phase, accepting, engine, scopes, call, status, startedAt,
                 zombies, crashes>>

\* The call leaves _active_jobs.
Discard(e) == scopes' = [scopes EXCEPT ![Proc(e)] = @ \ {Scope(e)}]

\* The skipped execution is saved, or the save raises.
SaveSkipped(e, s) ==
  \/ /\ status' = [status EXCEPT ![e] = s]
     /\ Proceed(e, "skipped")
  \/ /\ Raise(e)
     /\ UNCHANGED status

\* Mutant of the contended path: the scope stays in _active_jobs.
SkipLockedKeepsScope(e) ==
  /\ pc[e] = "lockedOut"
  /\ SaveSkipped(e, "SKIPPED_LOCKED")
  /\ UNCHANGED <<clock, phase, accepting, engine, scopes, call, startedAt, expires,
                 zombies, lease, crashes>>

\* Another execution holds the lease: SKIPPED_LOCKED.
SkipLocked(e) ==
  /\ pc[e] = "lockedOut"
  /\ Discard(e)
  /\ SaveSkipped(e, "SKIPPED_LOCKED")
  /\ UNCHANGED <<clock, phase, accepting, engine, call, startedAt, expires, zombies,
                 lease, crashes>>

\* The identity check, after the lease was acquired.
Check(e) ==
  /\ pc[e] = "checking"
  /\ \/ /\ FindExecutionByIdentity(e) = {}
        /\ Proceed(e, "starting")
     \/ /\ FindExecutionByIdentity(e) # {}
        /\ Proceed(e, "duplicate")
     \/ Raise(e)
  /\ UNCHANGED <<clock, phase, accepting, engine, scopes, call, status, startedAt,
                 expires, zombies, lease, crashes>>

\* A duplicate gives its lease back.
ReleaseDuplicate(e) ==
  /\ pc[e] = "duplicate"
  /\ \/ lease' = Release(e) /\ Proceed(e, "dupDiscard")
     \/ Raise(e) /\ UNCHANGED lease
  /\ UNCHANGED <<clock, phase, accepting, engine, scopes, call, status, startedAt,
                 expires, zombies, crashes>>

\* A duplicate leaves _active_jobs: SKIPPED_DUPLICATE.
SkipDuplicate(e) ==
  /\ pc[e] = "dupDiscard"
  /\ Discard(e)
  /\ SaveSkipped(e, "SKIPPED_DUPLICATE")
  /\ UNCHANGED <<clock, phase, accepting, engine, call, startedAt, expires, zombies,
                 lease, crashes>>

\* The execution's RUNNING record is saved.
SaveRunning(e) ==
  /\ status' = [status EXCEPT ![e] = "RUNNING"]
  /\ startedAt' = [startedAt EXCEPT ![e] = clock]

\* execution.start() under the lock.  The engine state changes before the record
\* and the state are saved, and either save may raise.
Start(e) ==
  /\ pc[e] = "starting"
  /\ engine' = [engine EXCEPT ![Proc(e)] = WithActive(@, e)]
  /\ \/ SaveRunning(e) /\ (Proceed(e, "started") \/ Raise(e))
     \/ Raise(e) /\ UNCHANGED <<status, startedAt>>
  /\ UNCHANGED <<clock, phase, accepting, scopes, call, expires, zombies, lease, crashes>>

\* The handler returns or raises.  A keyed job has no timeout.
HandlerEnds(e) ==
  /\ pc[e] = "handling"
  /\ Proceed(e, "succeeded") \/ Proceed(e, "raised")
  /\ UNCHANGED <<clock, phase, accepting, engine, scopes, call, status, startedAt,
                 expires, zombies, lease, crashes>>

\* future.result(timeout) gives up; the pool thread goes on with the handler.
HandlerTimesOut(e) ==
  /\ pc[e] = "handling"
  /\ call[e].job \in Timed
  /\ zombies' = zombies \cup {e}
  /\ Proceed(e, "raised")
  /\ UNCHANGED <<clock, phase, accepting, engine, scopes, call, status, startedAt,
                 expires, lease, crashes>>

\* The handler of a timed-out job finally ends.
ZombieEnds(e) ==
  /\ e \in zombies
  /\ zombies' = zombies \ {e}
  /\ UNCHANGED <<clock, phase, accepting, engine, scopes, call, pc, status, startedAt,
                 expires, lease, faults, crashes>>

\* runtime_heartbeat's handler publishes HEARTBEAT, even after its timeout.
Heartbeat(e) ==
  /\ pc[e] = "handling" \/ e \in zombies
  /\ ~Keyed(e)
  /\ \E g \in Publish(engine[Proc(e)]) : engine' = [engine EXCEPT ![Proc(e)] = g]
  /\ UNCHANGED <<clock, phase, accepting, scopes, execVars, lease, faults, crashes>>

\* Mutant of the timing of _publish: a delivery failure reaches the except clause.
FinishUnlessUndelivered(e) ==
  /\ pc[e] \in {"succeeded", "raised"}
  /\ engine' = [engine EXCEPT ![Proc(e)] = Complete(@, e)]
  /\ status' = [status EXCEPT ![e] = IF pc[e] = "succeeded" THEN "COMPLETED" ELSE "FAILED"]
  /\ \/ Proceed(e, IF pc[e] = "succeeded" THEN "completed" ELSE "failed")
     \/ pc[e] = "succeeded" /\ HttpReporting /\ Proceed(e, "raised")
  /\ UNCHANGED <<clock, phase, accepting, scopes, call, startedAt, expires, zombies,
                 lease, crashes>>

\* _complete with COMPLETED or FAILED, under the lock.  The engine state changes
\* before the record and the state are saved, and either save may raise.
Finish(e) ==
  /\ pc[e] \in {"succeeded", "raised"}
  /\ engine' = [engine EXCEPT ![Proc(e)] = Complete(@, e)]
  /\ \/ /\ status' = [status EXCEPT ![e] =
               IF pc[e] = "succeeded" THEN "COMPLETED" ELSE "FAILED"]
        /\ Proceed(e, IF pc[e] = "succeeded" THEN "completed" ELSE "failed") \/ Raise(e)
     \/ Raise(e) /\ UNCHANGED status
  /\ UNCHANGED <<clock, phase, accepting, scopes, call, startedAt, expires, zombies,
                 lease, crashes>>

\* finally: the lease is released if one was acquired.
ReleaseLease(e) ==
  /\ pc[e] = "releasing"
  /\ \/ /\ lease' = IF Keyed(e) THEN Release(e) ELSE lease
        /\ Proceed(e, "discarding")
     \/ /\ Keyed(e)
        /\ Raise(e)
        /\ UNCHANGED lease
  /\ UNCHANGED <<clock, phase, accepting, engine, scopes, call, status, startedAt,
                 expires, zombies, crashes>>

\* finally: the scope leaves _active_jobs and run_job ends.
Return(e) ==
  /\ pc[e] = "discarding"
  /\ Discard(e)
  /\ Proceed(e, "returned")
  /\ UNCHANGED <<clock, phase, accepting, engine, call, status, startedAt, expires,
                 zombies, lease, crashes>>

\* The steps that the thread of a call takes by itself.
ThreadStep(e) ==
  \/ Report(e) \/ Admit(e) \/ Acquire(e) \/ SkipLocked(e) \/ Check(e)
  \/ ReleaseDuplicate(e) \/ SkipDuplicate(e) \/ Start(e) \/ HandlerEnds(e) \/ Finish(e)
  \/ ReleaseLease(e) \/ Return(e)

Next ==
  \/ Tick
  \/ \E p \in Procs :
       \/ Boot(p) \/ ReportStarted(p) \/ ShutdownScheduler(p) \/ Stop(p)
       \/ ReportStopping(p) \/ Crash(p)
  \/ \E e \in Execs :
       \/ \E p \in Procs, j \in Jobs : RunJob(e, p, j)
       \/ ThreadStep(e) \/ HandlerTimesOut(e) \/ ZombieEnds(e) \/ Heartbeat(e)

Spec == Init /\ [][Next]_vars

\* Threads are scheduled, handlers end (providers have finite timeouts).
FairSpec == Spec /\ \A e \in Execs : WF_vars(ThreadStep(e))
----------------------------------------------------------------------------
(* Properties *)

\* The variables hold what the code stores in them: a call has its arguments once
\* run_job begins, and only a keyed job reaches the identity check.
TypeOK ==
  /\ clock \in Nat
  /\ phase \in [Procs -> Phases]
  /\ accepting \in [Procs -> BOOLEAN]
  /\ engine \in [Procs -> EngineRuntimeState]
  /\ scopes \in [Procs -> SUBSET Scopes]
  /\ call \in [Execs -> Calls \cup {NoCall}]
  /\ pc \in [Execs -> Points]
  /\ \A e \in Execs : pc[e] # "unborn" => call[e] \in Calls
  /\ \A e \in Execs : pc[e] \in KeyedPoints => Keyed(e)
  /\ status \in [Execs -> JobStatus]
  /\ startedAt \in [Execs -> Nat]
  /\ expires \in [Execs -> Nat]
  /\ zombies \in SUBSET Execs
  /\ lease \in [Keys -> Leases]
  /\ faults \in Nat
  /\ crashes \in Nat

\* In one process no two calls are between admission and discard with the same
\* scope, whatever is skipped, fails, raises or crashes in between.
ScopeExclusion ==
  \A e, f \in Execs :
    /\ e # f
    /\ pc[e] \in Scoped /\ pc[f] \in Scoped
    /\ Proc(e) = Proc(f)
    => Scope(e) # Scope(f)

\* Across processes, two calls inside the lease of one key overlap only if the
\* lease of one of them has run out: acquire refuses a live lease, and release
\* never deletes the row of the execution that reclaimed an expired one.
LeaseExclusion ==
  \A e, f \in Execs :
    /\ e # f
    /\ pc[e] \in Leased /\ pc[f] \in Leased
    /\ Keyed(e)
    /\ Key(e) = Key(f)
    => expires[e] <= clock \/ expires[f] <= clock

\* The records never show two executions of one job for one window as RUNNING or
\* COMPLETED unless one of them started after its own lease had run out: the
\* identity is checked under the lease, and before the RUNNING record is saved.
OncePerWindow ==
  \A e, f \in Execs :
    /\ e # f
    /\ pc[e] # "unborn" /\ pc[f] # "unborn"
    /\ SameIdentity(e, f)
    /\ status[e] \in {"RUNNING", "COMPLETED"} /\ status[f] \in {"RUNNING", "COMPLETED"}
    => startedAt[e] >= expires[e] \/ startedAt[f] >= expires[f]

\* The engine state of a live process tells what it runs: an execution is active
\* from its start to its completion, IDLE and DEGRADED mean that none is, RUNNING
\* that one is, and DEGRADED only ever goes with a failed report.
EngineTellsWhatRuns ==
  \A p \in Procs :
    LET g == engine[p] IN
    /\ \A e \in CallsOf(p) : pc[e] \in {"started", "handling"} => e \in g.active
    /\ \A e \in g.active : pc[e] \in {"started", "handling", "succeeded", "raised", "escaped"}
    /\ g.status \in {"IDLE", "DEGRADED"} => g.active = {}
    /\ g.status = "RUNNING" => g.active # {}
    /\ g.status = "DEGRADED" => g.degraded

\* A persisted outcome is final: no later step of run_job, and no failed report,
\* rewrites a completed, failed or skipped execution, unless a save has raised (then
\* the except clause may turn COMPLETED into FAILED).
OutcomeIsFinal ==
  [][faults' = 0 =>
       \A e \in Execs :
         status[e] \notin {"SCHEDULED", "RUNNING"} => status'[e] = status[e]]_vars

\* A scope that entered _active_jobs leaves it again, on every path through
\* run_job (no storage fault assumed: an exception between the lease and the try
\* block of run_job leaves the scope for good).
ScopeIsFreed ==
  \A p \in Procs : \A s \in Scopes : s \in scopes[p] ~> s \notin scopes[p]
=============================================================================
