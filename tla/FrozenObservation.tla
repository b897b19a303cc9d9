-------------------------- MODULE FrozenObservation --------------------------
(***************************************************************************)
(* One frozen forward observation: FrozenObservationService over the       *)
(* observation repository, called by the engine (its start-up, its lane,   *)
(* its evaluation job) and by the command line at the same time.           *)
(*                                                                         *)
(* A method reads the experiment's row in one transaction and writes it in *)
(* another, so each is at least two steps; seen[c] is the row that call c  *)
(* has read.  A tick is 15 minutes, one candle.                            *)
(***************************************************************************)
EXTENDS Integers, FiniteSets

CONSTANTS
  Starts,        \* calls of start: the engine's at boot, others by command line or route
  Lanes,         \* scheduled runs of the experiment's lane
  Evaluations,   \* calls of evaluate_pending: the engine's job and the command line
  Interrupts,    \* calls of interrupt
  EngineStart,   \* the start that the engine makes while it boots
  EngineJob,     \* the engine's evaluation job
  Identities,    \* portfolio, strategy version and configuration hash
  IdentityOf,    \* start -> the identity it is called with
  Pairs,         \* candidate pairs, numbered in the order of their rank
  Quiet,         \* pairs and quarters in which nobody trades
  Duration,      \* length of an experiment, 168 hours in the code
  Horizons,      \* HORIZON_MINUTES
  Grace,         \* OUTCOME_DATA_GRACE
  StaleAfter,    \* age at which the last candle is too old for its target
  MaxClock,      \* bound on time
  MaxCommands,   \* bound on calls from outside the engine
  MaxCrashes     \* bound on engine crashes

ASSUME ObservationAssumption ==
  /\ EngineStart \in Starts
  /\ EngineJob \in Evaluations
  /\ IdentityOf \in [Starts -> Identities]
  /\ "none" \notin Identities
  /\ Pairs \subseteq Nat
  /\ Quiet \subseteq Pairs \X Nat
  /\ Duration \in Nat \ {0}
  /\ Horizons \subseteq Nat \ {0}
  /\ Grace \in Nat
  /\ StaleAfter \in Nat
  /\ MaxClock \in Nat
  /\ MaxCommands \in Nat
  /\ MaxCrashes \in Nat
  /\ Starts \cap (Lanes \cup Evaluations \cup Interrupts) = {}
  /\ Lanes \cap (Evaluations \cup Interrupts) = {}
  /\ Evaluations \cap Interrupts = {}

VARIABLES
  clock,       \* the present
  experiment,  \* the row of observation_experiment
  snapshots,   \* rows of decision_snapshot
  outcomes,    \* rows of decision_outcome_minute
  fills,       \* orders of the lane that the paper ledger has booked
  candles,     \* candles in the Parquet files, with the time they were collected
  pc,          \* call -> the point where it stands
  seen,        \* call -> the row it read
  at,          \* call -> the decision time of a lane
  now,         \* call -> the time it works with
  todo,        \* evaluation -> outcome keys left to evaluate
  crashes      \* crashes so far

vars == <<clock, experiment, snapshots, outcomes, fills, candles,
          pc, seen, at, now, todo, crashes>>

rows == <<snapshots, outcomes, fills>>
----------------------------------------------------------------------------
(* Rows *)

Calls == Starts \cup Lanes \cup Evaluations \cup Interrupts

Terminal == {"COMPLETED", "INTERRUPTED", "INVALIDATED"}

ObservationStatus == {"RUNNING"} \cup Terminal

ObservationExperiment ==
  [status : ObservationStatus \cup {"none"}, identity : Identities \cup {"none"},
   startedAt : Nat, plannedEndAt : Nat, completedAt : Nat \cup {-1}]

\* repository.experiment raises KeyError.
NoExperiment ==
  [status |-> "none", identity |-> "none", startedAt |-> 0, plannedEndAt |-> 0,
   completedAt |-> -1]

DecisionSnapshot ==
  [decisionTime : Nat, pair : Pairs, identity : Identities, priced : BOOLEAN]

\* Snapshot (by decision time and pair) and horizon: the key of an outcome.
OutcomeKey == [decisionTime : Nat, pair : Pairs, horizon : Horizons]

\* close is the time of the candle whose close was used, -1 for none.
DecisionOutcome ==
  [key : OutcomeKey, evaluatedAt : Nat,
   status : {"COMPLETED", "MISSING_DATA"}, close : Nat \cup {-1}]

\* An order: its decision, the time of the deadline check before its batch, and
\* whether it was booked at the planned end or later.
Fill == [decisionTime : Nat, checkedAt : Nat, late : BOOLEAN]

Points == {"idle", "starting", "permit", "permitting", "running", "trading", "captureRead",
           "capturing", "bundling", "evaluating", "loading", "evaluateNext",
           "interrupting", "done", "raised"}

Target(k) == k.decisionTime + k.horizon
----------------------------------------------------------------------------
(* The repository *)

\* replace(row, status=..., completed_at=...)
Ended(row, status, t) ==
  [status |-> status, identity |-> row.identity, startedAt |-> row.startedAt,
   plannedEndAt |-> row.plannedEndAt, completedAt |-> t]

\* Mutant of the upsert: a conflict rewrites the whole row.
SaveExperimentWhole(row) == row

\* Mutant of the upsert: a conflict leaves the end of the row alone.
SaveExperimentStatusOnly(row) ==
  IF experiment = NoExperiment THEN row ELSE [experiment EXCEPT !.status = row.status]

\* INSERT ... ON CONFLICT DO UPDATE of the status and the end only.
SaveExperiment(row) ==
  IF experiment = NoExperiment THEN row
  ELSE Ended(experiment, row.status, row.completedAt)

\* INSERT OR IGNORE of a cohort, in one transaction.
SaveDecisionBundle(cohort) ==
  snapshots \cup {s \in cohort : \A old \in snapshots :
                    ~(old.decisionTime = s.decisionTime /\ old.pair = s.pair)}

\* Mutant of the insertion: OR REPLACE.
ReplaceOutcome(o) == {old \in outcomes : old.key # o.key} \cup {o}

\* INSERT OR IGNORE.
SaveOutcome(o) ==
  IF \E old \in outcomes : old.key = o.key THEN outcomes ELSE outcomes \cup {o}
----------------------------------------------------------------------------
Init ==
  /\ clock = 0
  /\ experiment = NoExperiment
  /\ snapshots = {}
  /\ outcomes = {}
  /\ fills = {}
  /\ candles = {}
  /\ pc = [c \in Calls |-> "idle"]
  /\ seen = [c \in Calls |-> NoExperiment]
  /\ at = [c \in Calls |-> 0]
  /\ now = [c \in Calls |-> 0]
  /\ todo = [c \in Calls |-> {}]
  /\ crashes = 0

Go(c, p) == pc' = [pc EXCEPT ![c] = p]

\* The row a call has read is not used any more.
Forget(c) == seen' = [seen EXCEPT ![c] = NoExperiment]

\* The scheduler calls a lane and the engine's evaluation again; the other calls
\* are made once.
Leave(c) ==
  /\ Go(c, IF c \in Lanes \cup {EngineJob} THEN "idle" ELSE "done")
  /\ Forget(c)
  /\ at' = [at EXCEPT ![c] = 0]
  /\ now' = [now EXCEPT ![c] = 0]

\* The jobs are scheduled once the start-up has not raised.
EngineIsUp == pc[EngineStart] = "done"

EngineCalls == Lanes \cup {EngineStart, EngineJob}

\* A call of the engine, or one of a bounded number of commands and requests.
Begins(c) ==
  /\ pc[c] = "idle"
  /\ \/ c \in EngineCalls
     \/ Cardinality({d \in Calls \ EngineCalls : pc[d] # "idle"}) < MaxCommands

ReadExperiment(c) == seen' = [seen EXCEPT ![c] = experiment]
----------------------------------------------------------------------------
(* start *)

StartRead(c) ==
  /\ Begins(c)
  /\ ReadExperiment(c)
  /\ now' = [now EXCEPT ![c] = clock]
  /\ Go(c, "starting")
  /\ UNCHANGED <<clock, experiment, rows, candles, at, todo, crashes>>

NewExperiment(c) ==
  [status |-> "RUNNING", identity |-> IdentityOf[c], startedAt |-> now[c],
   plannedEndAt |-> now[c] + Duration, completedAt |-> -1]

\* The row was absent.  Another start may have written it in the meantime.
StartCreate(c) ==
  /\ pc[c] = "starting"
  /\ seen[c] = NoExperiment
  /\ experiment' = SaveExperiment(NewExperiment(c))
  /\ Leave(c)
  /\ UNCHANGED <<clock, rows, candles, todo, crashes>>

StartExisting(c) ==
  /\ pc[c] = "starting"
  /\ seen[c] # NoExperiment
  /\ seen[c].identity = IdentityOf[c]
  /\ Leave(c)
  /\ UNCHANGED <<clock, experiment, rows, candles, todo, crashes>>

\* The identity differs: ValueError, and the engine does not come up.
StartMismatch(c) ==
  /\ pc[c] = "starting"
  /\ seen[c] # NoExperiment
  /\ seen[c].identity # IdentityOf[c]
  /\ Go(c, "raised")
  /\ UNCHANGED <<clock, experiment, rows, candles, seen, at, now, todo, crashes>>
----------------------------------------------------------------------------
(* run_dynamic_lane: permits_execution, the run, capture *)

LaneIdentity == IdentityOf[EngineStart]

\* The lane's job is leased: one run at a time.
BeginLane(c) ==
  /\ EngineIsUp
  /\ \A l \in Lanes : pc[l] = "idle"
  /\ at' = [at EXCEPT ![c] = clock]
  /\ Go(c, "permit")
  /\ UNCHANGED <<clock, experiment, rows, candles, seen, now, todo, crashes>>

PermitRead(c) ==
  /\ pc[c] = "permit"
  /\ ReadExperiment(c)
  /\ now' = [now EXCEPT ![c] = clock]
  /\ Go(c, "permitting")
  /\ UNCHANGED <<clock, experiment, rows, candles, at, todo, crashes>>

Outside(row, t) == t \notin row.startedAt .. row.plannedEndAt

\* Mutant of the check: the identity is not compared.
MismatchesNever(row) == FALSE

\* The lane's portfolio, version or configuration is not the frozen one.
Mismatches(row) == row.identity # LaneIdentity

\* permits_execution or capture find another identity: INVALIDATED, and the lane raises.
Invalidate(c) ==
  /\ \/ pc[c] = "permitting"
     \/ pc[c] = "capturing" /\ ~Outside(seen[c], at[c])
  /\ seen[c].status = "RUNNING"
  /\ Mismatches(seen[c])
  /\ experiment' = SaveExperiment(Ended(seen[c], "INVALIDATED",
                                        IF pc[c] = "permitting" THEN now[c] ELSE at[c]))
  /\ Leave(c)
  /\ UNCHANGED <<clock, rows, candles, todo, crashes>>

\* permits_execution after the planned end: COMPLETED, and no run.
PermitCompletes(c) ==
  /\ pc[c] = "permitting"
  /\ seen[c].status = "RUNNING"
  /\ ~Mismatches(seen[c])
  /\ now[c] >= seen[c].plannedEndAt
  /\ experiment' = SaveExperiment(Ended(seen[c], "COMPLETED", seen[c].plannedEndAt))
  /\ Leave(c)
  /\ UNCHANGED <<clock, rows, candles, todo, crashes>>

\* permits_execution returns False: the experiment is closed or not begun.
PermitRefuses(c) ==
  /\ pc[c] = "permitting"
  /\ \/ seen[c].status # "RUNNING"
     \/ ~Mismatches(seen[c]) /\ now[c] < seen[c].startedAt
  /\ Leave(c)
  /\ UNCHANGED <<clock, experiment, rows, candles, todo, crashes>>

PermitGrants(c) ==
  /\ pc[c] = "permitting"
  /\ seen[c].status = "RUNNING"
  /\ ~Mismatches(seen[c])
  /\ now[c] \in seen[c].startedAt .. seen[c].plannedEndAt - 1
  /\ Go(c, "running")
  /\ Forget(c)
  /\ now' = [now EXCEPT ![c] = 0]
  /\ UNCHANGED <<clock, experiment, rows, candles, at, todo, crashes>>

\* Mutant of the check: permits_execution is taken to be enough.
RunUnchecked(c) ==
  /\ pc[c] = "running"
  /\ now' = [now EXCEPT ![c] = clock]
  /\ Go(c, "trading")
  /\ UNCHANGED <<clock, experiment, rows, candles, seen, at, todo, crashes>>

\* The run has planned its orders and checks the deadline, once for the whole batch.
RunChecks(c) ==
  /\ pc[c] = "running"
  /\ clock < experiment.plannedEndAt
  /\ now' = [now EXCEPT ![c] = clock]
  /\ Go(c, "trading")
  /\ UNCHANGED <<clock, experiment, rows, candles, seen, at, todo, crashes>>

\* One order of the batch is approved, submitted and booked, whatever the time is now.
SubmitOrder(c) ==
  /\ pc[c] = "trading"
  /\ fills' = fills \cup {[decisionTime |-> at[c], checkedAt |-> now[c],
                            late |-> clock >= experiment.plannedEndAt]}
  /\ UNCHANGED <<clock, experiment, snapshots, outcomes, candles, pc, seen, at, now, todo, crashes>>

\* The batch is through, or there was none: a dry run, which has no deadline.
RunEnds(c) ==
  /\ pc[c] \in {"running", "trading"}
  /\ now' = [now EXCEPT ![c] = 0]
  /\ Go(c, "captureRead")
  /\ UNCHANGED <<clock, experiment, rows, candles, seen, at, todo, crashes>>

\* The run raises: the deadline has elapsed, prices are missing, or in the middle of
\* the batch the risk engine refuses an order or the ledger fails.
RunRaises(c) ==
  /\ pc[c] \in {"running", "trading"}
  /\ Leave(c)
  /\ UNCHANGED <<clock, experiment, rows, candles, todo, crashes>>

CaptureRead(c) ==
  /\ pc[c] = "captureRead"
  /\ ReadExperiment(c)
  /\ Go(c, "capturing")
  /\ UNCHANGED <<clock, experiment, rows, candles, at, now, todo, crashes>>

CaptureIgnores(c) ==
  /\ pc[c] = "capturing"
  /\ seen[c].status # "RUNNING" \/ Outside(seen[c], at[c])
  /\ Leave(c)
  /\ UNCHANGED <<clock, experiment, rows, candles, todo, crashes>>

\* The decision is captured; the one at the planned end closes the experiment first.
Capture(c) ==
  /\ pc[c] = "capturing"
  /\ seen[c].status = "RUNNING"
  /\ ~Outside(seen[c], at[c])
  /\ ~Mismatches(seen[c])
  /\ experiment' = IF at[c] >= seen[c].plannedEndAt
                   THEN SaveExperiment(Ended(seen[c], "COMPLETED", at[c]))
                   ELSE experiment
  /\ Go(c, "bundling")
  /\ UNCHANGED <<clock, rows, candles, seen, at, now, todo, crashes>>

\* save_decision_bundle: one snapshot per assessed pair, some without a price.
CaptureBundle(c) ==
  /\ pc[c] = "bundling"
  /\ \E priced \in SUBSET Pairs :
       snapshots' = SaveDecisionBundle(
         {[decisionTime |-> at[c], pair |-> p, identity |-> seen[c].identity,
           priced |-> p \in priced] : p \in Pairs})
  /\ Leave(c)
  /\ UNCHANGED <<clock, experiment, outcomes, fills, candles, todo, crashes>>
----------------------------------------------------------------------------
(* evaluate_pending *)

\* Without a row evaluate_pending raises KeyError and changes nothing.
EvaluateRead(c) ==
  /\ Begins(c)
  /\ c = EngineJob => EngineIsUp
  /\ experiment # NoExperiment
  /\ ReadExperiment(c)
  /\ now' = [now EXCEPT ![c] = clock]
  /\ Go(c, "evaluating")
  /\ UNCHANGED <<clock, experiment, rows, candles, at, todo, crashes>>

\* Mutant of the completion: left to the lane.
DueNever(row, t) == FALSE

Due(row, t) == row.status = "RUNNING" /\ t >= row.plannedEndAt

EvaluateStatus(c) ==
  /\ pc[c] = "evaluating"
  /\ experiment' = IF Due(seen[c], now[c])
                   THEN SaveExperiment(Ended(seen[c], "COMPLETED", seen[c].plannedEndAt))
                   ELSE experiment
  /\ Go(c, "loading")
  /\ Forget(c)
  /\ UNCHANGED <<clock, rows, candles, at, now, todo, crashes>>

\* The horizons of priced snapshots.
Keys == {[decisionTime |-> s.decisionTime, pair |-> s.pair, horizon |-> h] :
           s \in {r \in snapshots : r.priced}, h \in Horizons}

\* Mutant of the selection: outcomes are filled while the experiment runs.
PendingWhileRunning(t) ==
  {k \in Keys : /\ experiment.status = "RUNNING"
                /\ t >= Target(k)
                /\ \A o \in outcomes : o.key # k}

\* The keys whose horizon has passed and that have no outcome.
Pending(t) == {k \in Keys : t >= Target(k) /\ \A o \in outcomes : o.key # k}

EvaluateLoad(c) ==
  /\ pc[c] = "loading"
  /\ todo' = [todo EXCEPT ![c] = Pending(now[c])]
  /\ Go(c, "evaluateNext")
  /\ UNCHANGED <<clock, experiment, rows, candles, seen, at, now, crashes>>

\* Candles of the pair that became available after the decision, up to the target.
Usable(k) == {m.time : m \in {n \in candles : /\ n.pair = k.pair
                                              /\ n.time > k.decisionTime
                                              /\ n.time <= Target(k)}}

\* Those not too old for the target: the latest usable candle is one of them, or
\* the data is missing.
Recent(k) == {u \in Usable(k) : Target(k) - u <= StaleAfter}

\* _outcome: of the latest recent candle, or of missing data.
Outcome(k, t) ==
  IF Recent(k) = {}
  THEN {[key |-> k, evaluatedAt |-> t, status |-> "MISSING_DATA", close |-> -1]}
  ELSE {[key |-> k, evaluatedAt |-> t, status |-> "COMPLETED", close |-> u] :
          u \in {r \in Recent(k) : \A v \in Recent(k) : v <= r}}

\* Mutant of the grace period: missing data is final at the horizon.
WaitsNever(o) == FALSE

\* Missing data is not final within the grace period.
Waits(o) == o.status = "MISSING_DATA" /\ o.evaluatedAt < Target(o.key) + Grace

\* Snapshots by decision time and rank, then horizons.
Before(k, l) ==
  \/ k.decisionTime < l.decisionTime
  \/ k.decisionTime = l.decisionTime /\ k.pair < l.pair
  \/ k.decisionTime = l.decisionTime /\ k.pair = l.pair /\ k.horizon < l.horizon

EvaluateNext(c) ==
  /\ pc[c] = "evaluateNext"
  /\ \E k \in todo[c] :
       /\ \A l \in todo[c] : ~Before(l, k)
       /\ \E o \in Outcome(k, now[c]) :
            outcomes' = IF Waits(o) THEN outcomes ELSE SaveOutcome(o)
       /\ todo' = [todo EXCEPT ![c] = @ \ {k}]
  /\ UNCHANGED <<clock, experiment, snapshots, fills, candles, pc, seen, at, now, crashes>>

EvaluateDone(c) ==
  /\ pc[c] = "evaluateNext"
  /\ todo[c] = {}
  /\ Leave(c)
  /\ UNCHANGED <<clock, experiment, rows, candles, todo, crashes>>
----------------------------------------------------------------------------
(* interrupt *)

InterruptRead(c) ==
  /\ Begins(c)
  /\ experiment # NoExperiment
  /\ ReadExperiment(c)
  /\ Go(c, "interrupting")
  /\ UNCHANGED <<clock, experiment, rows, candles, at, now, todo, crashes>>

Interrupt(c) ==
  /\ pc[c] = "interrupting"
  /\ experiment' = IF seen[c].status = "RUNNING"
                   THEN SaveExperiment(Ended(seen[c], "INTERRUPTED", clock))
                   ELSE experiment
  /\ Leave(c)
  /\ UNCHANGED <<clock, rows, candles, todo, crashes>>
----------------------------------------------------------------------------
(* The environment *)

Tick ==
  /\ clock < MaxClock
  /\ clock' = clock + 1
  /\ UNCHANGED <<experiment, rows, candles, pc, seen, at, now, todo, crashes>>

\* Candles the exchange has of a pair: none closes in a quarter nobody traded.
Published(p) == {t \in 1 .. clock : <<p, t>> \notin Quiet}

\* sync_pairs for one pair: everything published is merged into its file.  A pair
\* that fails or is deferred is simply not collected now.
Sync(p) ==
  LET new == Published(p) \ {m.time : m \in {n \in candles : n.pair = p}}
  IN  /\ new # {}
      /\ candles' = candles \cup
           {[pair |-> p, time |-> t, collected |-> clock] : t \in new}
      /\ UNCHANGED <<clock, experiment, rows, pc, seen, at, now, todo, crashes>>

\* The engine dies with its calls and boots again.
Crash ==
  /\ crashes < MaxCrashes
  /\ EngineIsUp
  /\ crashes' = crashes + 1
  /\ pc' = [c \in Calls |-> IF c \in EngineCalls THEN "idle" ELSE pc[c]]
  /\ seen' = [c \in Calls |-> IF c \in EngineCalls THEN NoExperiment ELSE seen[c]]
  /\ at' = [c \in Calls |-> IF c \in EngineCalls THEN 0 ELSE at[c]]
  /\ now' = [c \in Calls |-> IF c \in EngineCalls THEN 0 ELSE now[c]]
  /\ todo' = [c \in Calls |-> IF c \in EngineCalls THEN {} ELSE todo[c]]
  /\ UNCHANGED <<clock, experiment, rows, candles>>
----------------------------------------------------------------------------
Start(c) == StartRead(c) \/ StartCreate(c) \/ StartExisting(c) \/ StartMismatch(c)

Lane(c) ==
  \/ BeginLane(c)
  \/ PermitRead(c)
  \/ Invalidate(c)
  \/ PermitCompletes(c)
  \/ PermitRefuses(c)
  \/ PermitGrants(c)
  \/ RunChecks(c)
  \/ SubmitOrder(c)
  \/ RunEnds(c)
  \/ RunRaises(c)
  \/ CaptureRead(c)
  \/ CaptureIgnores(c)
  \/ Capture(c)
  \/ CaptureBundle(c)

EvaluatePending(c) ==
  \/ EvaluateRead(c)
  \/ EvaluateStatus(c)
  \/ EvaluateLoad(c)
  \/ EvaluateNext(c)
  \/ EvaluateDone(c)

Next ==
  \/ \E c \in Starts : Start(c)
  \/ \E c \in Lanes : Lane(c)
  \/ \E c \in Evaluations : EvaluatePending(c)
  \/ \E c \in Interrupts : InterruptRead(c) \/ Interrupt(c)
  \/ \E p \in Pairs : Sync(p)
  \/ Tick
  \/ Crash

Spec == Init /\ [][Next]_vars

\* The engine boots, and its scheduler keeps calling the evaluation job.
FairSpec ==
  /\ Spec
  /\ WF_vars(Start(EngineStart))
  /\ WF_vars(EvaluatePending(EngineJob))
----------------------------------------------------------------------------
(* Properties *)

TypeOK ==
  /\ clock \in 0 .. MaxClock
  /\ experiment \in ObservationExperiment
  /\ snapshots \subseteq DecisionSnapshot
  /\ outcomes \subseteq DecisionOutcome
  /\ fills \subseteq Fill
  /\ candles \subseteq [pair : Pairs, time : Nat, collected : Nat]
  /\ pc \in [Calls -> Points]
  /\ seen \in [Calls -> ObservationExperiment]
  /\ \A c \in Lanes : pc[c] = "bundling" => seen[c].identity \in Identities
  /\ at \in [Calls -> Nat]
  /\ now \in [Calls -> Nat]
  /\ todo \in [Calls -> SUBSET OutcomeKey]
  /\ crashes \in 0 .. MaxCrashes

\* Every captured decision belongs to the identity and to the window of the one
\* experiment, whichever starts raced and however the row was closed meanwhile.
EvidenceIsFrozen ==
  \A s \in snapshots :
    /\ s.identity = experiment.identity
    /\ s.decisionTime \in experiment.startedAt .. experiment.plannedEndAt

\* The lane trades under the frozen identity only, even when another start won the
\* creation of the row, and only batches whose deadline check fell into the window.
\* The check is made once, so orders may go out after the planned end; but those are
\* all of the one batch that was under way, through crashes and restarts.
TradesAreFrozen ==
  /\ \A f \in fills :
       /\ experiment.identity = LaneIdentity
       /\ experiment.startedAt <= f.decisionTime
       /\ f.checkedAt \in f.decisionTime .. experiment.plannedEndAt - 1
  /\ \A f, g \in fills : f.late /\ g.late =>
       f.decisionTime = g.decisionTime /\ f.checkedAt = g.checkedAt

\* The end of the row tells the same story as its status, whichever calls overwrote
\* each other: completion is at the planned end and not before it, a running
\* experiment has no end.  Reports and health cut their window at this end.
EndMatchesStatus ==
  /\ experiment.status = "RUNNING" => experiment.completedAt = -1
  /\ experiment.status = "COMPLETED" =>
       experiment.completedAt = experiment.plannedEndAt /\ experiment.plannedEndAt <= clock
  /\ experiment.status \in {"INTERRUPTED", "INVALIDATED"} =>
       experiment.completedAt \in experiment.startedAt .. clock

\* A collection delay shorter than the grace period never becomes missing data: an
\* outcome is MISSING_DATA only if no candle near its target had been collected
\* when the grace period ended.
DelayIsNotMissing ==
  \A o \in outcomes : o.status = "MISSING_DATA" =>
    \A m \in candles :
      (m.pair = o.key.pair /\ m.time > o.key.decisionTime /\ m.time <= Target(o.key)
        /\ Target(o.key) - m.time <= StaleAfter)
      => m.collected >= Target(o.key) + Grace

\* A stored outcome is never rewritten or removed and a key has one outcome, though
\* the job and the command line evaluate the same keys at the same time.
OutcomesAreFinal ==
  [][/\ outcomes \subseteq outcomes'
     /\ \A o, p \in outcomes' : o.key = p.key => o = p]_vars

\* Keys without an outcome although their grace period is over.
Overdue == {k \in Keys : clock >= Target(k) + Grace /\ \A o \in outcomes : o.key # k}

\* No key stays overdue, though the experiment has long been closed, the engine was
\* restarted in the middle of an evaluation or the market has no data; unless the
\* engine refuses to boot.
OutcomesAreFilled == Overdue # {} ~> (Overdue = {} \/ pc[EngineStart] = "raised")

\* At the planned end the experiment is closed, though no lane runs any more.
ExperimentCloses ==
  (experiment.status = "RUNNING" /\ clock >= experiment.plannedEndAt)
    ~> (experiment.status # "RUNNING" \/ pc[EngineStart] = "raised")
=============================================================================
