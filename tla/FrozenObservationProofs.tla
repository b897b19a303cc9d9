----------------------- MODULE FrozenObservationProofs -----------------------
(***************************************************************************)
(* Proofs about FrozenObservation for every number of calls, pairs and     *)
(* horizons, every identity of the calls and every bound.                  *)
(***************************************************************************)
EXTENDS FrozenObservation, TLAPS

\* The rows a call writes are rows, and so is what the upsert makes of them.
LEMMA RowType ==
  ASSUME NEW row \in ObservationExperiment
  PROVE  /\ experiment \in ObservationExperiment => SaveExperiment(row) \in ObservationExperiment
         /\ \A s \in ObservationStatus, t \in Nat : Ended(row, s, t) \in ObservationExperiment
<1>1. row.status \in ObservationStatus \cup {"none"} /\ row.completedAt \in Nat \cup {-1}
  BY DEF ObservationExperiment
<1> QED BY <1>1 DEF ObservationExperiment, SaveExperiment, Ended

LEMMA NoExperimentType == NoExperiment \in ObservationExperiment
BY DEF NoExperiment, ObservationExperiment

\* A call's fields stay typed when it leaves or goes on.
LEMMA LeaveType ==
  ASSUME TypeOK, NEW c \in Calls, Leave(c)
  PROVE  /\ pc' \in [Calls -> Points]
         /\ seen' \in [Calls -> ObservationExperiment]
         /\ \A l \in Lanes : pc'[l] = "bundling" => seen'[l].identity \in Identities
         /\ at' \in [Calls -> Nat]
         /\ now' \in [Calls -> Nat]
BY NoExperimentType DEF Leave, Forget, Go, TypeOK, Points

LEMMA NewExperimentType ==
  ASSUME TypeOK, NEW c \in Starts
  PROVE  NewExperiment(c) \in ObservationExperiment
<1>1. c \in Calls /\ IdentityOf[c] \in Identities /\ Duration \in Nat
  BY ObservationAssumption DEF Calls
<1>2. now[c] \in Nat
  BY <1>1 DEF TypeOK
<1> QED BY <1>1, <1>2 DEF NewExperiment, ObservationExperiment, ObservationStatus

\* Outcomes are rows.
LEMMA OutcomeType ==
  ASSUME TypeOK, NEW k \in OutcomeKey, NEW t \in Nat, NEW o \in Outcome(k, t)
  PROVE  /\ o \in DecisionOutcome
         /\ o.key = k
         /\ o.evaluatedAt = t
         /\ o.status = "MISSING_DATA" => Recent(k) = {}
<1>1. \A u \in Recent(k) : u \in Nat
  BY DEF Recent, Usable, TypeOK
<1>2. CASE Recent(k) = {}
  BY <1>2 DEF Outcome, DecisionOutcome
<1>3. CASE Recent(k) # {}
  <2>1. PICK u \in Recent(k) :
          o = [key |-> k, evaluatedAt |-> t, status |-> "COMPLETED", close |-> u]
    BY <1>3 DEF Outcome
  <2> QED BY <1>1, <2>1 DEF DecisionOutcome
<1> QED BY <1>2, <1>3

\* Every reachable state is type correct.
LEMMA StepTypeOK == TypeOK /\ [Next]_vars => TypeOK'
<1> SUFFICES ASSUME TypeOK, [Next]_vars PROVE TypeOK'
  OBVIOUS
<1> USE DEF rows
<1>0. Lanes \subseteq Calls
  BY DEF Calls
<1>1. CASE UNCHANGED vars
  BY <1>0, <1>1 DEF vars, TypeOK
<1>2. ASSUME NEW c \in Starts, Start(c) PROVE TypeOK'
  <2>0. c \in Calls
    BY DEF Calls
  <2>1. CASE StartRead(c)
    BY <2>0, <2>1 DEF StartRead, ReadExperiment, Go, TypeOK, Points
  <2>2. CASE StartCreate(c)
    <3>1. experiment' \in ObservationExperiment
      BY <2>2, RowType, NewExperimentType DEF StartCreate, TypeOK
    <3> QED BY <2>0, <2>2, <3>1, LeaveType DEF StartCreate, TypeOK
  <2>3. CASE StartExisting(c)
    BY <2>0, <2>3, LeaveType DEF StartExisting, TypeOK
  <2>4. CASE StartMismatch(c)
    BY <2>0, <2>4 DEF StartMismatch, Go, TypeOK, Points
  <2> QED BY <1>2, <2>1, <2>2, <2>3, <2>4 DEF Start
<1>3. ASSUME NEW c \in Lanes, Lane(c) PROVE TypeOK'
  <2>0. c \in Calls
    BY DEF Calls
  <2>1. CASE BeginLane(c)
    BY <2>0, <2>1 DEF BeginLane, Go, TypeOK, Points
  <2>2. CASE PermitRead(c)
    BY <2>0, <2>2 DEF PermitRead, ReadExperiment, Go, TypeOK, Points
  <2>3. CASE Invalidate(c)
    <3>1. Ended(seen[c], "INVALIDATED", IF pc[c] = "permitting" THEN now[c] ELSE at[c])
            \in ObservationExperiment
      BY <2>0, RowType DEF TypeOK, ObservationStatus, Terminal
    <3>2. experiment' \in ObservationExperiment
      BY <2>3, <3>1, RowType DEF Invalidate, TypeOK
    <3> QED BY <2>0, <2>3, <3>2, LeaveType DEF Invalidate, TypeOK
  <2>4. CASE PermitCompletes(c)
    <3>1. Ended(seen[c], "COMPLETED", seen[c].plannedEndAt) \in ObservationExperiment
      BY <2>0, RowType DEF TypeOK, ObservationStatus, Terminal, ObservationExperiment
    <3>2. experiment' \in ObservationExperiment
      BY <2>4, <3>1, RowType DEF PermitCompletes, TypeOK
    <3> QED BY <2>0, <2>4, <3>2, LeaveType DEF PermitCompletes, TypeOK
  <2>5. CASE PermitRefuses(c) \/ RunRaises(c) \/ CaptureIgnores(c)
    BY <2>0, <2>5, LeaveType DEF PermitRefuses, RunRaises, CaptureIgnores, TypeOK
  <2>6. CASE PermitGrants(c)
    BY <2>0, <2>6, NoExperimentType DEF PermitGrants, Forget, Go, TypeOK, Points
  <2>7. CASE RunChecks(c) \/ RunEnds(c)
    BY <1>0, <2>0, <2>7 DEF RunChecks, RunEnds, Go, TypeOK, Points
  <2>11. CASE SubmitOrder(c)
    <3>1. [decisionTime |-> at[c], checkedAt |-> now[c],
           late |-> clock >= experiment.plannedEndAt] \in Fill
      BY <2>0 DEF TypeOK, Fill
    <3>2. fills' \subseteq Fill
      BY <2>11, <3>1 DEF SubmitOrder, TypeOK
    <3> QED BY <1>0, <2>11, <3>2 DEF SubmitOrder, TypeOK
  <2>8. CASE CaptureRead(c)
    BY <2>0, <2>8 DEF CaptureRead, ReadExperiment, Go, TypeOK, Points
  <2>9. CASE Capture(c)
    <3>1. Ended(seen[c], "COMPLETED", at[c]) \in ObservationExperiment
      BY <2>0, RowType DEF TypeOK, ObservationStatus, Terminal
    <3>2. experiment' \in ObservationExperiment
      BY <2>9, <3>1, RowType DEF Capture, TypeOK
    <3>3. seen[c].identity \in Identities
      BY <2>9, ObservationAssumption DEF Capture, Mismatches, LaneIdentity
    <3> QED BY <1>0, <2>0, <2>9, <3>2, <3>3 DEF Capture, Go, TypeOK, Points
  <2>10. CASE CaptureBundle(c)
    <3>1. at[c] \in Nat /\ seen[c].identity \in Identities
      BY <2>0, <2>10 DEF CaptureBundle, TypeOK
    <3>2. \A p \in Pairs, priced \in SUBSET Pairs :
            [decisionTime |-> at[c], pair |-> p, identity |-> seen[c].identity,
             priced |-> p \in priced] \in DecisionSnapshot
      BY <3>1 DEF DecisionSnapshot
    <3>3. snapshots' \subseteq DecisionSnapshot
      BY <2>10, <3>2 DEF CaptureBundle, SaveDecisionBundle, TypeOK
    <3> QED BY <2>0, <2>10, <3>3, LeaveType DEF CaptureBundle, TypeOK
  <2> QED BY <1>3, <2>1, <2>2, <2>3, <2>4, <2>5, <2>6, <2>7, <2>8, <2>9, <2>10, <2>11 DEF Lane
<1>4. ASSUME NEW c \in Evaluations, EvaluatePending(c) PROVE TypeOK'
  <2>0. c \in Calls
    BY DEF Calls
  <2>1. CASE EvaluateRead(c)
    BY <2>0, <2>1 DEF EvaluateRead, ReadExperiment, Go, TypeOK, Points
  <2>2. CASE EvaluateStatus(c)
    <3>1. Ended(seen[c], "COMPLETED", seen[c].plannedEndAt) \in ObservationExperiment
      BY <2>0, RowType DEF TypeOK, ObservationStatus, Terminal, ObservationExperiment
    <3>2. experiment' \in ObservationExperiment
      BY <2>2, <3>1, RowType DEF EvaluateStatus, TypeOK
    <3> QED BY <2>0, <2>2, <3>2, NoExperimentType DEF EvaluateStatus, Forget, Go, TypeOK, Points
  <2>3. CASE EvaluateLoad(c)
    <3>1. Pending(now[c]) \subseteq OutcomeKey
      BY DEF Pending, Keys, OutcomeKey, TypeOK, DecisionSnapshot
    <3> QED BY <2>0, <2>3, <3>1 DEF EvaluateLoad, Go, TypeOK, Points
  <2>4. CASE EvaluateNext(c)
    <3>1. PICK k \in todo[c] : \E o \in Outcome(k, now[c]) :
            /\ outcomes' = IF Waits(o) THEN outcomes ELSE SaveOutcome(o)
            /\ todo' = [todo EXCEPT ![c] = @ \ {k}]
      BY <2>4 DEF EvaluateNext
    <3>2. k \in OutcomeKey /\ now[c] \in Nat
      BY <2>0 DEF TypeOK
    <3>3. outcomes' \subseteq DecisionOutcome
      BY <3>1, <3>2, OutcomeType DEF SaveOutcome, TypeOK
    <3> QED BY <2>0, <2>4, <3>1, <3>3 DEF EvaluateNext, TypeOK
  <2>5. CASE EvaluateDone(c)
    BY <2>0, <2>5, LeaveType DEF EvaluateDone, TypeOK
  <2> QED BY <1>4, <2>1, <2>2, <2>3, <2>4, <2>5 DEF EvaluatePending
<1>5. ASSUME NEW c \in Interrupts, InterruptRead(c) \/ Interrupt(c) PROVE TypeOK'
  <2>0. c \in Calls
    BY DEF Calls
  <2>1. CASE InterruptRead(c)
    BY <2>0, <2>1 DEF InterruptRead, ReadExperiment, Go, TypeOK, Points
  <2>2. CASE Interrupt(c)
    <3>0. clock \in Nat
      BY ObservationAssumption DEF TypeOK
    <3>1. Ended(seen[c], "INTERRUPTED", clock) \in ObservationExperiment
      BY <2>0, <3>0, RowType DEF TypeOK, ObservationStatus, Terminal
    <3>2. experiment' \in ObservationExperiment
      BY <2>2, <3>1, RowType DEF Interrupt, TypeOK
    <3> QED BY <2>0, <2>2, <3>2, LeaveType DEF Interrupt, TypeOK
  <2> QED BY <1>5, <2>1, <2>2
<1>6. ASSUME NEW p \in Pairs, Sync(p) PROVE TypeOK'
  <2>1. \A t \in Published(p) : t \in Nat
    BY DEF Published
  <2> QED BY <1>6, <2>1 DEF Sync, TypeOK
<1>7. CASE Tick
  BY <1>7, ObservationAssumption DEF Tick, TypeOK
<1>8. CASE Crash
  BY <1>0, <1>8, ObservationAssumption, NoExperimentType DEF Crash, TypeOK, Points, EngineCalls
<1> QED BY <1>1, <1>2, <1>3, <1>4, <1>5, <1>6, <1>7, <1>8 DEF Next

\* The rows of the observation, the points of the calls and what they have read keep
\* their types through every interleaving.
THEOREM ObservationTypeCorrect == Spec => []TypeOK
<1>1. Init => TypeOK
  <2>1. Lanes \subseteq Calls
    BY DEF Calls
  <2> QED BY <2>1, ObservationAssumption, NoExperimentType DEF Init, TypeOK, Points
<1> QED BY <1>1, StepTypeOK, PTL DEF Spec
----------------------------------------------------------------------------
(* The experiment is frozen *)

\* What an upsert never touches.
Same(r, e) ==
  /\ r.identity = e.identity
  /\ r.startedAt = e.startedAt
  /\ r.plannedEndAt = e.plannedEndAt

\* A row that exists has an identity.
RowsAreWhole ==
  /\ experiment # NoExperiment => experiment.identity \in Identities
  /\ \A c \in Calls : seen[c] # NoExperiment => seen[c].identity \in Identities

\* A row that a call has read is stale in its status and end only.
SeenIsFrozen ==
  \A c \in Calls : seen[c] # NoExperiment => experiment # NoExperiment /\ Same(seen[c], experiment)

TimesArePast ==
  /\ experiment.startedAt <= clock
  /\ \A c \in Calls : at[c] <= clock /\ now[c] <= clock

EngineHasRow == EngineIsUp => experiment # NoExperiment

\* A lane began after the experiment; past its permission it has the frozen identity.
LanesAreInside ==
  \A c \in Lanes :
    /\ pc[c] # "idle" => experiment # NoExperiment /\ experiment.startedAt <= at[c]
    /\ pc[c] = "permitting" => experiment.startedAt <= now[c]
    /\ pc[c] \in {"running", "trading", "captureRead", "capturing", "bundling"} =>
         experiment.identity = LaneIdentity
    /\ pc[c] = "trading" => now[c] \in at[c] .. experiment.plannedEndAt - 1
    /\ pc[c] = "bundling" =>
         seen[c] # NoExperiment /\ at[c] \in seen[c].startedAt .. seen[c].plannedEndAt

FrozenInv ==
  /\ TypeOK
  /\ RowsAreWhole
  /\ SeenIsFrozen
  /\ TimesArePast
  /\ EngineHasRow
  /\ LanesAreInside
  /\ EvidenceIsFrozen
  /\ EndMatchesStatus

\* What a step does to the fields of the calls: a call works with its own.
LEMMA StepOfCalls ==
  ASSUME TypeOK, [Next]_vars
  PROVE  /\ clock' \in {clock, clock + 1}
         /\ \A d \in Calls : /\ seen'[d] \in {seen[d], NoExperiment, experiment}
                             /\ at'[d] \in {at[d], 0, clock}
                             /\ now'[d] \in {now[d], 0, clock}
         /\ \A l \in Lanes : \/ pc'[l] = "idle"
                             \/ Lane(l)
                             \/ /\ pc'[l] = pc[l] /\ seen'[l] = seen[l]
                                /\ at'[l] = at[l] /\ now'[l] = now[l]
<1> USE DEF rows
<1> DEFINE Goal == /\ clock' \in {clock, clock + 1}
                   /\ \A d \in Calls : /\ seen'[d] \in {seen[d], NoExperiment, experiment}
                                       /\ at'[d] \in {at[d], 0, clock}
                                       /\ now'[d] \in {now[d], 0, clock}
                   /\ \A l \in Lanes : \/ pc'[l] = "idle"
                                       \/ Lane(l)
                                       \/ /\ pc'[l] = pc[l] /\ seen'[l] = seen[l]
                                          /\ at'[l] = at[l] /\ now'[l] = now[l]
<1>0. /\ Lanes \subseteq Calls
      /\ pc \in [Calls -> Points]
      /\ seen \in [Calls -> ObservationExperiment]
      /\ at \in [Calls -> Nat]
      /\ now \in [Calls -> Nat]
  BY DEF Calls, TypeOK
<1>1. CASE UNCHANGED vars
  BY <1>0, <1>1 DEF vars
<1>2. ASSUME NEW c \in Starts, Start(c) PROVE Goal
  <2>0. c \in Calls /\ c \notin Lanes
    BY ObservationAssumption DEF Calls
  <2> QED BY <1>0, <1>2, <2>0 DEF Start, StartRead, StartCreate, StartExisting, StartMismatch,
             ReadExperiment, Leave, Forget, Go
<1>3. ASSUME NEW c \in Lanes, Lane(c) PROVE Goal
  <2>1. /\ UNCHANGED clock
        /\ \A d \in Calls \ {c} : /\ pc'[d] = pc[d] /\ seen'[d] = seen[d]
                                  /\ at'[d] = at[d] /\ now'[d] = now[d]
        /\ seen'[c] \in {seen[c], NoExperiment, experiment}
        /\ at'[c] \in {at[c], 0, clock}
        /\ now'[c] \in {now[c], 0, clock}
    <3>1. CASE BeginLane(c) \/ PermitRead(c) \/ PermitGrants(c) \/ CaptureRead(c) \/ Capture(c)
               \/ RunChecks(c) \/ SubmitOrder(c) \/ RunEnds(c)
      BY <1>0, <3>1 DEF BeginLane, PermitRead, PermitGrants, CaptureRead, Capture, RunChecks,
         SubmitOrder, RunEnds, ReadExperiment, Forget, Go
    <3>2. CASE Invalidate(c) \/ PermitCompletes(c) \/ PermitRefuses(c) \/ RunRaises(c)
               \/ CaptureIgnores(c) \/ CaptureBundle(c)
      BY <1>0, <3>2 DEF Invalidate, PermitCompletes, PermitRefuses, RunRaises, CaptureIgnores,
         CaptureBundle, Leave, Forget, Go
    <3> QED BY <1>3, <3>1, <3>2 DEF Lane
  <2> QED BY <1>0, <1>3, <2>1
<1>4. ASSUME NEW c \in Evaluations, EvaluatePending(c) PROVE Goal
  <2>0. c \in Calls /\ c \notin Lanes
    BY ObservationAssumption DEF Calls
  <2> QED BY <1>0, <1>4, <2>0 DEF EvaluatePending, EvaluateRead, EvaluateStatus, EvaluateLoad,
             EvaluateNext, EvaluateDone, ReadExperiment, Leave, Forget, Go
<1>5. ASSUME NEW c \in Interrupts, InterruptRead(c) \/ Interrupt(c) PROVE Goal
  <2>0. c \in Calls /\ c \notin Lanes
    BY ObservationAssumption DEF Calls
  <2> QED BY <1>0, <1>5, <2>0 DEF InterruptRead, Interrupt, ReadExperiment, Leave, Forget, Go
<1>6. ASSUME NEW p \in Pairs, Sync(p) PROVE Goal
  BY <1>0, <1>6 DEF Sync
<1>7. CASE Tick
  BY <1>0, <1>7 DEF Tick
<1>8. CASE Crash
  BY <1>0, <1>8 DEF Crash, EngineCalls
<1> QED BY <1>1, <1>2, <1>3, <1>4, <1>5, <1>6, <1>7, <1>8 DEF Next

\* The end of a row fits its status.
EndOf(row, t) ==
  /\ row.status = "RUNNING" => row.completedAt = -1
  /\ row.status = "COMPLETED" => row.completedAt = row.plannedEndAt /\ row.plannedEndAt <= t
  /\ row.status \in {"INTERRUPTED", "INVALIDATED"} => row.completedAt \in row.startedAt .. t

\* Saving the end of a row that was read running keeps what is frozen.
LEMMA SavedEnd ==
  ASSUME FrozenInv, NEW c \in Calls, seen[c].status = "RUNNING",
         NEW s \in Terminal, NEW t \in Nat,
         s = "COMPLETED" => t = seen[c].plannedEndAt /\ t <= clock,
         s # "COMPLETED" => seen[c].startedAt <= t /\ t <= clock,
         experiment' = SaveExperiment(Ended(seen[c], s, t))
  PROVE  /\ experiment # NoExperiment
         /\ Same(experiment', experiment)
         /\ EndOf(experiment', clock)
<1>1. seen[c] # NoExperiment
  BY DEF NoExperiment
<1>2. experiment # NoExperiment /\ Same(seen[c], experiment)
  BY <1>1 DEF FrozenInv, SeenIsFrozen
<1>3. experiment' = Ended(experiment, s, t)
  BY <1>2 DEF SaveExperiment, Ended
<1>4. seen[c] \in ObservationExperiment /\ clock \in Nat
  BY ObservationAssumption DEF FrozenInv, TypeOK
<1> QED BY <1>2, <1>3, <1>4 DEF Same, EndOf, Ended, Terminal, ObservationExperiment

\* What a step does to the row: nothing, the creation, or a new status and end; the
\* last includes a second creation that lost the race.
LEMMA StepOfRow ==
  ASSUME FrozenInv, [Next]_vars
  PROVE  \/ experiment' = experiment
         \/ /\ experiment = NoExperiment
            /\ \E c \in Starts : experiment' = NewExperiment(c)
         \/ /\ experiment # NoExperiment
            /\ Same(experiment', experiment)
            /\ EndOf(experiment', clock)
<1> DEFINE Goal == \/ experiment' = experiment
                   \/ /\ experiment = NoExperiment
                      /\ \E c \in Starts : experiment' = NewExperiment(c)
                   \/ /\ experiment # NoExperiment
                      /\ Same(experiment', experiment)
                      /\ EndOf(experiment', clock)
<1> USE DEF rows
<1>0. /\ Lanes \subseteq Calls /\ Evaluations \subseteq Calls /\ Interrupts \subseteq Calls
      /\ seen \in [Calls -> ObservationExperiment]
      /\ at \in [Calls -> Nat] /\ now \in [Calls -> Nat] /\ clock \in Nat
      /\ \A c \in Calls : at[c] <= clock /\ now[c] <= clock
  BY ObservationAssumption DEF Calls, FrozenInv, TypeOK, TimesArePast
<1>1. CASE UNCHANGED vars
  BY <1>1 DEF vars
<1>2. ASSUME NEW c \in Starts, Start(c) PROVE Goal
  <2>1. CASE StartCreate(c) /\ experiment = NoExperiment
    BY <2>1 DEF StartCreate, SaveExperiment
  <2>2. CASE StartCreate(c) /\ experiment # NoExperiment
    BY <2>2 DEF StartCreate, SaveExperiment, NewExperiment, Ended, Same, EndOf
  <2>3. CASE StartRead(c) \/ StartExisting(c) \/ StartMismatch(c)
    BY <2>3 DEF StartRead, StartExisting, StartMismatch
  <2> QED BY <1>2, <2>1, <2>2, <2>3 DEF Start
<1>3. ASSUME NEW c \in Lanes, Lane(c) PROVE Goal
  <2>0. /\ c \in Calls
        /\ seen[c] \in ObservationExperiment
        /\ seen[c].status = "RUNNING" => seen[c] # NoExperiment
        /\ seen[c] # NoExperiment => Same(seen[c], experiment)
    BY <1>0 DEF FrozenInv, SeenIsFrozen, NoExperiment
  <2>1. CASE Invalidate(c)
    <3> DEFINE t == IF pc[c] = "permitting" THEN now[c] ELSE at[c]
    <3>1. t \in Nat /\ t <= clock
      BY <1>0, <2>0
    <3>2. seen[c].startedAt <= t
      <4>1. CASE pc[c] = "permitting"
        BY <2>0, <2>1, <4>1 DEF Invalidate, FrozenInv, LanesAreInside, Same
      <4>2. CASE pc[c] = "capturing"
        BY <2>0, <2>1, <4>2 DEF Invalidate, FrozenInv, LanesAreInside, Same
      <4> QED BY <2>1, <4>1, <4>2 DEF Invalidate
    <3>3. "INVALIDATED" \in Terminal /\ seen[c].status = "RUNNING"
          /\ experiment' = SaveExperiment(Ended(seen[c], "INVALIDATED", t))
      BY <2>1 DEF Invalidate, Terminal
    <3> HIDE DEF t
    <3> QED BY <2>0, <3>1, <3>2, <3>3, SavedEnd
  <2>2. CASE PermitCompletes(c)
    <3>1. /\ seen[c].plannedEndAt \in Nat /\ seen[c].plannedEndAt <= clock
      BY <1>0, <2>0, <2>2 DEF PermitCompletes, ObservationExperiment
    <3>2. "COMPLETED" \in Terminal /\ seen[c].status = "RUNNING"
          /\ experiment' = SaveExperiment(Ended(seen[c], "COMPLETED", seen[c].plannedEndAt))
      BY <2>2 DEF PermitCompletes, Terminal
    <3> QED BY <2>0, <3>1, <3>2, SavedEnd
  <2>3. CASE Capture(c) /\ at[c] >= seen[c].plannedEndAt
    <3>0. at[c] \in Nat /\ at[c] <= clock /\ seen[c].plannedEndAt \in Nat
      BY <1>0, <2>0 DEF ObservationExperiment
    <3>4. at[c] \in seen[c].startedAt .. seen[c].plannedEndAt
      BY <2>3 DEF Capture, Outside
    <3>1. at[c] \in Nat /\ at[c] = seen[c].plannedEndAt /\ at[c] <= clock
      BY <2>3, <3>0, <3>4
    <3>2. "COMPLETED" \in Terminal /\ seen[c].status = "RUNNING"
          /\ experiment' = SaveExperiment(Ended(seen[c], "COMPLETED", at[c]))
      BY <2>3 DEF Capture, Terminal
    <3> QED BY <2>0, <3>1, <3>2, SavedEnd
  <2>4. CASE Capture(c) /\ ~(at[c] >= seen[c].plannedEndAt)
    BY <2>4 DEF Capture
  <2>5. CASE BeginLane(c) \/ PermitRead(c) \/ PermitRefuses(c) \/ PermitGrants(c) \/ RunChecks(c)
             \/ SubmitOrder(c) \/ RunEnds(c) \/ RunRaises(c) \/ CaptureRead(c) \/ CaptureIgnores(c)
             \/ CaptureBundle(c)
    BY <2>5 DEF BeginLane, PermitRead, PermitRefuses, PermitGrants, RunChecks, SubmitOrder,
       RunEnds, RunRaises, CaptureRead, CaptureIgnores, CaptureBundle
  <2> QED BY <1>3, <2>1, <2>2, <2>3, <2>4, <2>5 DEF Lane
<1>4. ASSUME NEW c \in Evaluations, EvaluatePending(c) PROVE Goal
  <2>1. CASE EvaluateStatus(c) /\ Due(seen[c], now[c])
    <3>1. c \in Calls /\ seen[c].plannedEndAt \in Nat /\ seen[c].plannedEndAt <= clock
      BY <1>0, <2>1 DEF Due, ObservationExperiment
    <3>2. "COMPLETED" \in Terminal /\ seen[c].status = "RUNNING"
          /\ experiment' = SaveExperiment(Ended(seen[c], "COMPLETED", seen[c].plannedEndAt))
      BY <2>1 DEF EvaluateStatus, Terminal, Due
    <3> QED BY <3>1, <3>2, SavedEnd
  <2>2. CASE EvaluateStatus(c) /\ ~Due(seen[c], now[c])
    BY <2>2 DEF EvaluateStatus
  <2>3. CASE EvaluateRead(c) \/ EvaluateLoad(c) \/ EvaluateNext(c) \/ EvaluateDone(c)
    BY <2>3 DEF EvaluateRead, EvaluateLoad, EvaluateNext, EvaluateDone
  <2> QED BY <1>4, <2>1, <2>2, <2>3 DEF EvaluatePending
<1>5. ASSUME NEW c \in Interrupts, InterruptRead(c) \/ Interrupt(c) PROVE Goal
  <2>1. CASE Interrupt(c) /\ seen[c].status = "RUNNING"
    <3>1. c \in Calls /\ seen[c] # NoExperiment
      BY <1>0, <2>1 DEF NoExperiment
    <3>2. seen[c].startedAt <= clock
      BY <3>1 DEF FrozenInv, SeenIsFrozen, Same, TimesArePast
    <3>3. "INTERRUPTED" \in Terminal
          /\ experiment' = SaveExperiment(Ended(seen[c], "INTERRUPTED", clock))
      BY <2>1 DEF Interrupt, Terminal
    <3> QED BY <1>0, <2>1, <3>1, <3>2, <3>3, SavedEnd
  <2>2. CASE Interrupt(c) /\ seen[c].status # "RUNNING"
    BY <2>2 DEF Interrupt
  <2>3. CASE InterruptRead(c)
    BY <2>3 DEF InterruptRead
  <2> QED BY <1>5, <2>1, <2>2, <2>3
<1>6. ASSUME NEW p \in Pairs, Sync(p) PROVE Goal
  BY <1>6 DEF Sync
<1>7. CASE Tick \/ Crash
  BY <1>7 DEF Tick, Crash
<1> QED BY <1>1, <1>2, <1>3, <1>4, <1>5, <1>6, <1>7 DEF Next

\* A row that exists keeps its identity and window for ever.
LEMMA RowIsKept ==
  ASSUME FrozenInv, [Next]_vars, experiment # NoExperiment
  PROVE  experiment' # NoExperiment /\ Same(experiment', experiment)
<1>1. experiment.identity \in Identities /\ "none" \notin Identities
  BY ObservationAssumption DEF FrozenInv, RowsAreWhole
<1>2. Same(experiment', experiment)
  BY StepOfRow DEF Same
<1> QED BY <1>1, <1>2 DEF Same, NoExperiment

LEMMA RowsStayWhole ==
  ASSUME FrozenInv, [Next]_vars
  PROVE  RowsAreWhole' /\ SeenIsFrozen' /\ TimesArePast' /\ EndMatchesStatus'
<1>0. /\ TypeOK /\ TypeOK' /\ clock \in Nat /\ clock' \in {clock, clock + 1}
      /\ \A d \in Calls : at[d] <= clock /\ now[d] <= clock /\ at[d] \in Nat /\ now[d] \in Nat
      /\ experiment \in ObservationExperiment
      /\ experiment' \in ObservationExperiment
  BY StepTypeOK, StepOfCalls, ObservationAssumption DEF FrozenInv, TypeOK, TimesArePast
<1>1. RowsAreWhole'
  <2>1. experiment' # NoExperiment => experiment'.identity \in Identities
    BY StepOfRow, ObservationAssumption DEF FrozenInv, RowsAreWhole, Same, NewExperiment
  <2>2. \A d \in Calls : seen'[d] # NoExperiment => seen'[d].identity \in Identities
    BY <1>0, StepOfCalls DEF FrozenInv, RowsAreWhole
  <2> QED BY <2>1, <2>2 DEF RowsAreWhole
<1>2. SeenIsFrozen'
  <2> SUFFICES ASSUME NEW d \in Calls, seen'[d] # NoExperiment
               PROVE  experiment' # NoExperiment /\ Same(seen'[d], experiment')
    BY DEF SeenIsFrozen
  <2>1. experiment # NoExperiment /\ Same(seen'[d], experiment)
    BY <1>0, StepOfCalls DEF FrozenInv, SeenIsFrozen, Same
  <2> QED BY <2>1, RowIsKept DEF Same
<1>3. TimesArePast'
  <2>1. experiment'.startedAt <= clock
    <3>1. CASE \E c \in Starts : experiment' = NewExperiment(c)
      BY <1>0, <3>1 DEF NewExperiment, Calls
    <3>2. CASE Same(experiment', experiment) \/ experiment' = experiment
      BY <3>2 DEF FrozenInv, TimesArePast, Same
    <3> QED BY <3>1, <3>2, StepOfRow
  <2>2. experiment'.startedAt <= clock'
    BY <1>0, <2>1 DEF ObservationExperiment
  <2>3. \A d \in Calls : at'[d] <= clock' /\ now'[d] <= clock'
    BY <1>0, StepOfCalls
  <2> QED BY <2>2, <2>3 DEF TimesArePast
<1>4. EndMatchesStatus'
  <2>1. EndOf(experiment', clock)
    <3>1. CASE \E c \in Starts : experiment' = NewExperiment(c)
      BY <3>1 DEF NewExperiment, EndOf
    <3>2. CASE experiment' = experiment
      BY <3>2 DEF FrozenInv, EndMatchesStatus, EndOf
    <3> QED BY <3>1, <3>2, StepOfRow
  <2>2. /\ experiment'.startedAt \in Nat /\ experiment'.plannedEndAt \in Nat
        /\ clock \in Nat /\ clock' \in {clock, clock + 1}
    BY <1>0 DEF ObservationExperiment
  <2> QED BY <2>1, <2>2 DEF EndMatchesStatus, EndOf
<1> QED BY <1>1, <1>2, <1>3, <1>4

\* The engine comes up only over a row.
LEMMA EngineStaysBacked ==
  ASSUME FrozenInv, [Next]_vars
  PROVE  EngineHasRow'
<1> SUFFICES ASSUME pc'[EngineStart] = "done", experiment = NoExperiment
             PROVE  experiment' # NoExperiment
  BY RowIsKept DEF EngineHasRow, EngineIsUp
<1> USE DEF rows
<1>0. /\ pc[EngineStart] # "done" /\ EngineStart \in Calls /\ pc \in [Calls -> Points]
      /\ EngineStart \notin Lanes \cup Evaluations \cup Interrupts
      /\ "none" \notin Identities
      /\ Lanes \subseteq Calls /\ Evaluations \subseteq Calls /\ Interrupts \subseteq Calls
      /\ Starts \subseteq Calls
  BY ObservationAssumption DEF FrozenInv, EngineHasRow, EngineIsUp, TypeOK, Calls
<1>1. CASE UNCHANGED vars
  BY <1>0, <1>1 DEF vars
<1>2. ASSUME NEW c \in Starts, Start(c) PROVE experiment' # NoExperiment
  <2>1. CASE StartCreate(c)
    <3>1. experiment' = NewExperiment(c) /\ IdentityOf[c] \in Identities
      BY <2>1, ObservationAssumption DEF StartCreate, SaveExperiment
    <3> QED BY <1>0, <3>1 DEF NewExperiment, NoExperiment
  <2>2. CASE StartExisting(c)
    BY <1>0, <2>2 DEF StartExisting, FrozenInv, SeenIsFrozen
  <2>3. CASE StartRead(c) \/ StartMismatch(c)
    BY <1>0, <2>3 DEF StartRead, StartMismatch, Go
  <2> QED BY <1>2, <2>1, <2>2, <2>3 DEF Start
<1>3. ASSUME NEW c \in Lanes \cup Evaluations \cup Interrupts, NEW q, pc' = [pc EXCEPT ![c] = q]
      PROVE  experiment' # NoExperiment
  BY <1>0, <1>3
<1>4. ASSUME NEW c \in Lanes, Lane(c) PROVE experiment' # NoExperiment
  BY <1>0, <1>3, <1>4 DEF Lane, BeginLane, PermitRead, Invalidate, PermitCompletes, PermitRefuses,
     PermitGrants, RunChecks, SubmitOrder, RunEnds, RunRaises, CaptureRead, CaptureIgnores, Capture,
     CaptureBundle, Leave, Go
<1>5. ASSUME NEW c \in Evaluations, EvaluatePending(c) PROVE experiment' # NoExperiment
  BY <1>0, <1>3, <1>5 DEF EvaluatePending, EvaluateRead, EvaluateStatus, EvaluateLoad,
     EvaluateNext, EvaluateDone, Leave, Go
<1>6. ASSUME NEW c \in Interrupts, InterruptRead(c) \/ Interrupt(c) PROVE experiment' # NoExperiment
  BY <1>3, <1>6 DEF InterruptRead, Interrupt, Leave, Go
<1>7. ASSUME NEW p \in Pairs, Sync(p) PROVE experiment' # NoExperiment
  BY <1>0, <1>7 DEF Sync
<1>8. CASE Tick
  BY <1>0, <1>8 DEF Tick
<1>9. CASE Crash
  BY <1>0, <1>9 DEF Crash, EngineCalls
<1> QED BY <1>1, <1>2, <1>4, <1>5, <1>6, <1>7, <1>8, <1>9 DEF Next

\* LanesAreInside for one lane.
LaneIsInside(c) ==
  /\ pc[c] # "idle" => experiment # NoExperiment /\ experiment.startedAt <= at[c]
  /\ pc[c] = "permitting" => experiment.startedAt <= now[c]
  /\ pc[c] \in {"running", "trading", "captureRead", "capturing", "bundling"} =>
       experiment.identity = LaneIdentity
  /\ pc[c] = "trading" => now[c] \in at[c] .. experiment.plannedEndAt - 1
  /\ pc[c] = "bundling" =>
       seen[c] # NoExperiment /\ at[c] \in seen[c].startedAt .. seen[c].plannedEndAt

LEMMA LanesStayInside ==
  ASSUME FrozenInv, [Next]_vars
  PROVE  LanesAreInside'
<1> SUFFICES ASSUME NEW c \in Lanes PROVE LaneIsInside(c)'
  BY DEF LanesAreInside, LaneIsInside
<1> USE DEF rows
<1>0. /\ c \in Calls
      /\ pc \in [Calls -> Points] /\ seen \in [Calls -> ObservationExperiment]
      /\ at \in [Calls -> Nat] /\ now \in [Calls -> Nat]
      /\ LaneIsInside(c)
      /\ experiment.startedAt <= clock
      /\ seen[c] # NoExperiment => Same(seen[c], experiment)
  BY DEF Calls, FrozenInv, TypeOK, LanesAreInside, LaneIsInside, TimesArePast, SeenIsFrozen
<1>1. pc[c] # "idle" => experiment' # NoExperiment /\ Same(experiment', experiment)
  BY <1>0, RowIsKept DEF LaneIsInside
<1>2. CASE pc'[c] = "idle"
  BY <1>2 DEF LaneIsInside
<1>3. CASE pc'[c] = pc[c] /\ seen'[c] = seen[c] /\ at'[c] = at[c] /\ now'[c] = now[c]
  <2>1. CASE pc[c] = "idle"
    BY <1>3, <2>1 DEF LaneIsInside
  <2>2. CASE pc[c] # "idle"
    BY <1>0, <1>1, <1>3, <2>2 DEF LaneIsInside, Same
  <2> QED BY <2>1, <2>2
<1>4. CASE Lane(c)
  <2>1. CASE BeginLane(c)
    <3>1. experiment # NoExperiment
      BY <2>1 DEF BeginLane, FrozenInv, EngineHasRow
    <3>2. pc'[c] = "permit" /\ at'[c] = clock
      BY <1>0, <2>1 DEF BeginLane, Go
    <3>3. experiment' # NoExperiment /\ Same(experiment', experiment)
      BY <3>1, RowIsKept
    <3> QED BY <1>0, <3>2, <3>3 DEF LaneIsInside, Same
  <2>2. CASE PermitRead(c)
    <3>1. pc'[c] = "permitting" /\ at'[c] = at[c] /\ now'[c] = clock /\ pc[c] = "permit"
      BY <1>0, <2>2 DEF PermitRead, Go
    <3> QED BY <1>0, <1>1, <3>1 DEF LaneIsInside, Same
  <2>3. CASE PermitGrants(c)
    <3>1. pc'[c] = "running" /\ at'[c] = at[c] /\ pc[c] = "permitting"
          /\ seen[c].status = "RUNNING" /\ seen[c].identity = LaneIdentity
      BY <1>0, <2>3 DEF PermitGrants, Go, Mismatches
    <3>2. seen[c] # NoExperiment
      BY <3>1 DEF NoExperiment
    <3> QED BY <1>0, <1>1, <3>1, <3>2 DEF LaneIsInside, Same
  <2>4. CASE RunEnds(c)
    <3>1. pc'[c] = "captureRead" /\ at'[c] = at[c] /\ pc[c] \in {"running", "trading"}
      BY <1>0, <2>4 DEF RunEnds, Go
    <3> QED BY <1>0, <1>1, <3>1 DEF LaneIsInside, Same
  <2>8. CASE RunChecks(c)
    <3>1. /\ pc'[c] = "trading" /\ at'[c] = at[c] /\ now'[c] = clock /\ pc[c] = "running"
          /\ clock < experiment.plannedEndAt
      BY <1>0, <2>8 DEF RunChecks, Go
    <3>2. /\ at[c] \in Nat /\ at[c] <= clock /\ clock \in Nat
          /\ experiment.plannedEndAt \in Nat
      BY <1>0, ObservationAssumption DEF FrozenInv, TypeOK, TimesArePast, ObservationExperiment
    <3> QED BY <1>0, <1>1, <3>1, <3>2 DEF LaneIsInside, Same
  <2>9. CASE SubmitOrder(c)
    <3>1. pc'[c] = pc[c] /\ at'[c] = at[c] /\ now'[c] = now[c] /\ pc[c] = "trading"
      BY <2>9 DEF SubmitOrder
    <3> QED BY <1>0, <1>1, <3>1 DEF LaneIsInside, Same
  <2>5. CASE CaptureRead(c)
    <3>1. pc'[c] = "capturing" /\ at'[c] = at[c] /\ pc[c] = "captureRead"
      BY <1>0, <2>5 DEF CaptureRead, Go
    <3> QED BY <1>0, <1>1, <3>1 DEF LaneIsInside, Same
  <2>6. CASE Capture(c)
    <3>1. /\ pc'[c] = "bundling" /\ at'[c] = at[c] /\ pc[c] = "capturing" /\ seen'[c] = seen[c]
          /\ at[c] \in seen[c].startedAt .. seen[c].plannedEndAt
          /\ seen[c].status = "RUNNING"
      BY <1>0, <2>6 DEF Capture, Go, Outside
    <3>2. seen[c] # NoExperiment
      BY <3>1 DEF NoExperiment
    <3> QED BY <1>0, <1>1, <3>1, <3>2 DEF LaneIsInside, Same
  <2>7. CASE Invalidate(c) \/ PermitCompletes(c) \/ PermitRefuses(c) \/ RunRaises(c)
             \/ CaptureIgnores(c) \/ CaptureBundle(c)
    <3>1. pc'[c] = "idle"
      BY <1>0, <2>7 DEF Invalidate, PermitCompletes, PermitRefuses, RunRaises, CaptureIgnores,
         CaptureBundle, Leave, Go
    <3> QED BY <1>2, <3>1
  <2> QED BY <1>4, <2>1, <2>2, <2>3, <2>4, <2>5, <2>6, <2>7, <2>8, <2>9 DEF Lane
<1> QED BY <1>2, <1>3, <1>4, StepOfCalls DEF FrozenInv

\* Only a lane that bundles adds snapshots.
LEMMA StepOfSnapshots ==
  ASSUME [Next]_vars
  PROVE  \/ snapshots' = snapshots
         \/ \E c \in Lanes : CaptureBundle(c)
BY DEF Next, vars, rows, Start, StartRead, StartCreate, StartExisting, StartMismatch, Lane,
   BeginLane, PermitRead, Invalidate, PermitCompletes, PermitRefuses, PermitGrants, RunChecks,
   SubmitOrder, RunEnds, RunRaises, CaptureRead, CaptureIgnores, Capture, EvaluatePending,
   EvaluateRead, EvaluateStatus, EvaluateLoad, EvaluateNext, EvaluateDone, InterruptRead,
   Interrupt, Sync, Tick, Crash

LEMMA EvidenceStaysFrozen ==
  ASSUME FrozenInv, [Next]_vars
  PROVE  EvidenceIsFrozen'
<1> SUFFICES ASSUME NEW s \in snapshots'
             PROVE  /\ s.identity = experiment'.identity
                    /\ s.decisionTime \in experiment'.startedAt .. experiment'.plannedEndAt
  BY DEF EvidenceIsFrozen
<1>1. CASE s \in snapshots
  <2>1. s.identity = experiment.identity /\ s.identity \in Identities
        /\ s.decisionTime \in experiment.startedAt .. experiment.plannedEndAt
    BY <1>1 DEF FrozenInv, EvidenceIsFrozen, TypeOK, DecisionSnapshot
  <2>2. experiment # NoExperiment
    BY <2>1, ObservationAssumption DEF NoExperiment
  <2> QED BY <2>1, <2>2, RowIsKept DEF Same
<1>2. CASE s \notin snapshots
  <2>1. PICK c \in Lanes : CaptureBundle(c)
    BY <1>2, StepOfSnapshots
  <2>2. /\ s.identity = seen[c].identity /\ s.decisionTime = at[c]
        /\ pc[c] = "bundling" /\ c \in Calls
    BY <1>2, <2>1 DEF CaptureBundle, SaveDecisionBundle, Calls
  <2>3. /\ at[c] \in seen[c].startedAt .. seen[c].plannedEndAt
        /\ experiment # NoExperiment /\ Same(seen[c], experiment)
    BY <2>2 DEF FrozenInv, LanesAreInside, SeenIsFrozen
  <2> QED BY <2>2, <2>3, RowIsKept DEF Same
<1> QED BY <1>1, <1>2

LEMMA FrozenInvHolds == Spec => []FrozenInv
<1>1. Init => FrozenInv
  <2> SUFFICES ASSUME Init PROVE FrozenInv
    OBVIOUS
  <2>1. TypeOK
    <3>1. Lanes \subseteq Calls
      BY DEF Calls
    <3> QED BY <3>1, ObservationAssumption, NoExperimentType DEF Init, TypeOK, Points
  <2>2. RowsAreWhole /\ SeenIsFrozen /\ EvidenceIsFrozen
    BY DEF Init, RowsAreWhole, SeenIsFrozen, EvidenceIsFrozen
  <2>3. TimesArePast /\ EndMatchesStatus
    BY DEF Init, TimesArePast, EndMatchesStatus, NoExperiment
  <2>4. EngineHasRow /\ LanesAreInside
    BY ObservationAssumption DEF Init, EngineHasRow, EngineIsUp, LanesAreInside, Calls
  <2> QED BY <2>1, <2>2, <2>3, <2>4 DEF FrozenInv
<1>2. FrozenInv /\ [Next]_vars => FrozenInv'
  BY StepTypeOK, RowsStayWhole, EngineStaysBacked, LanesStayInside, EvidenceStaysFrozen
     DEF FrozenInv
<1> QED BY <1>1, <1>2, PTL DEF Spec

\* Every captured decision has the identity of the experiment's row and lies in its
\* window, for any number of starts, lanes, evaluations and interruptions that
\* overwrite each other's status.
THEOREM EvidenceIsFrozenHolds == Spec => []EvidenceIsFrozen
<1>1. FrozenInv => EvidenceIsFrozen
  BY DEF FrozenInv
<1> QED BY <1>1, FrozenInvHolds, PTL

\* The end of the row fits its status after every sequence of stale writes.
THEOREM EndMatchesStatusHolds == Spec => []EndMatchesStatus
<1>1. FrozenInv => EndMatchesStatus
  BY DEF FrozenInv
<1> QED BY <1>1, FrozenInvHolds, PTL

(* Trades *)

\* The runs of the lane follow each other.
OneLaneAtATime == \A l, m \in Lanes : pc[l] # "idle" /\ pc[m] # "idle" => l = m

\* Once an order is late no deadline check passes, and who still trades is its batch.
LateIsOneBatch ==
  \A f \in fills : f.late =>
    /\ experiment.plannedEndAt <= clock
    /\ \A l \in Lanes : pc[l] = "trading" =>
         f.decisionTime = at[l] /\ f.checkedAt = now[l]

TradesInv ==
  /\ FrozenInv
  /\ OneLaneAtATime
  /\ LateIsOneBatch
  /\ TradesAreFrozen

\* Only a lane that trades books orders.
LEMMA StepOfFills ==
  ASSUME [Next]_vars
  PROVE  \/ fills' = fills
         \/ \E c \in Lanes : SubmitOrder(c)
BY DEF Next, vars, rows, Start, StartRead, StartCreate, StartExisting, StartMismatch, Lane,
   BeginLane, PermitRead, Invalidate, PermitCompletes, PermitRefuses, PermitGrants, RunChecks,
   RunEnds, RunRaises, CaptureRead, CaptureIgnores, Capture, CaptureBundle, EvaluatePending,
   EvaluateRead, EvaluateStatus, EvaluateLoad, EvaluateNext, EvaluateDone, InterruptRead,
   Interrupt, Sync, Tick, Crash

\* A lane leaves "idle" only by beginning, and comes to "trading" only by its check.
LEMMA StepOfLane ==
  ASSUME TypeOK, [Next]_vars, NEW l \in Lanes
  PROVE  /\ pc[l] = "idle" /\ pc'[l] # "idle" => BeginLane(l)
         /\ pc'[l] = "trading" => \/ RunChecks(l)
                                  \/ pc[l] = "trading" /\ at'[l] = at[l] /\ now'[l] = now[l]
<1>0. l \in Calls /\ pc \in [Calls -> Points]
  BY DEF Calls, TypeOK
<1>1. CASE pc'[l] = "idle"
  BY <1>1
<1>2. CASE pc'[l] = pc[l] /\ seen'[l] = seen[l] /\ at'[l] = at[l] /\ now'[l] = now[l]
  BY <1>2
<1>3. CASE Lane(l)
  <2>1. CASE BeginLane(l)
    BY <1>0, <2>1 DEF BeginLane, Go
  <2>2. CASE RunChecks(l)
    BY <2>2 DEF RunChecks
  <2>3. CASE SubmitOrder(l)
    BY <2>3 DEF SubmitOrder
  <2>4. CASE PermitRead(l) \/ PermitGrants(l) \/ RunEnds(l) \/ CaptureRead(l) \/ Capture(l)
    BY <1>0, <2>4 DEF PermitRead, PermitGrants, RunEnds, CaptureRead, Capture, Go
  <2>5. CASE Invalidate(l) \/ PermitCompletes(l) \/ PermitRefuses(l) \/ RunRaises(l)
             \/ CaptureIgnores(l) \/ CaptureBundle(l)
    BY <1>0, <2>5 DEF Invalidate, PermitCompletes, PermitRefuses, RunRaises, CaptureIgnores,
       CaptureBundle, Leave, Go
  <2> QED BY <1>3, <2>1, <2>2, <2>3, <2>4, <2>5 DEF Lane
<1> QED BY <1>1, <1>2, <1>3, StepOfCalls

LEMMA StepTradesInv ==
  ASSUME TradesInv, [Next]_vars
  PROVE  OneLaneAtATime' /\ LateIsOneBatch' /\ TradesAreFrozen'
<1>0. /\ TypeOK /\ FrozenInv
      /\ clock \in Nat /\ clock' \in {clock, clock + 1}
      /\ experiment \in ObservationExperiment /\ fills \subseteq Fill
  BY StepOfCalls, ObservationAssumption DEF TradesInv, FrozenInv, TypeOK
<1>1. fills # {} \/ (\E l \in Lanes : pc[l] # "idle") =>
        experiment # NoExperiment /\ Same(experiment', experiment)
  <2>1. CASE fills # {}
    <3>1. experiment.identity \in Identities
      BY <2>1, ObservationAssumption DEF TradesInv, TradesAreFrozen, LaneIdentity
    <3>2. experiment # NoExperiment
      BY <3>1, ObservationAssumption DEF NoExperiment
    <3> QED BY <1>0, <3>2, RowIsKept
  <2>2. CASE \E l \in Lanes : pc[l] # "idle"
    BY <1>0, <2>2, RowIsKept DEF FrozenInv, LanesAreInside
  <2> QED BY <2>1, <2>2
<1>2. OneLaneAtATime'
  <2> SUFFICES ASSUME NEW l \in Lanes, NEW m \in Lanes, pc'[l] # "idle", pc'[m] # "idle"
               PROVE  l = m
    BY DEF OneLaneAtATime
  <2>1. CASE pc[l] # "idle" /\ pc[m] # "idle"
    BY <2>1 DEF TradesInv, OneLaneAtATime
  <2>2. ASSUME NEW a \in Lanes, NEW b \in Lanes, BeginLane(a), pc'[b] # "idle"
        PROVE  a = b
    <3>1. pc[b] = "idle" /\ a \in Calls /\ b \in Calls /\ pc \in [Calls -> Points]
      BY <1>0, <2>2 DEF BeginLane, Calls, TypeOK
    <3> QED BY <2>2, <3>1 DEF BeginLane, Go
  <2>3. CASE pc[l] = "idle"
    BY <1>0, <2>2, <2>3, StepOfLane
  <2>4. CASE pc[m] = "idle"
    BY <1>0, <2>2, <2>4, StepOfLane
  <2> QED BY <2>1, <2>3, <2>4
<1>3. \A f \in fills : f.late => \A l \in Lanes : ~RunChecks(l)
  BY <1>0 DEF TradesInv, LateIsOneBatch, RunChecks, ObservationExperiment
<1>4. CASE fills' = fills
  <2>1. LateIsOneBatch'
    <3> SUFFICES ASSUME NEW f \in fills, f.late
                 PROVE  /\ experiment'.plannedEndAt <= clock'
                        /\ \A l \in Lanes : pc'[l] = "trading" =>
                             f.decisionTime = at'[l] /\ f.checkedAt = now'[l]
      BY <1>4 DEF LateIsOneBatch
    <3>1. experiment.plannedEndAt <= clock' /\ Same(experiment', experiment)
      BY <1>0, <1>1 DEF TradesInv, LateIsOneBatch, ObservationExperiment
    <3>2. \A l \in Lanes : pc'[l] = "trading" =>
             pc[l] = "trading" /\ at'[l] = at[l] /\ now'[l] = now[l]
      BY <1>0, <1>3, StepOfLane
    <3>3. experiment'.plannedEndAt = experiment.plannedEndAt
      BY <3>1 DEF Same
    <3>4. \A l \in Lanes : pc[l] = "trading" => f.decisionTime = at[l] /\ f.checkedAt = now[l]
      BY DEF TradesInv, LateIsOneBatch
    <3> QED BY <3>1, <3>2, <3>3, <3>4
  <2>2. TradesAreFrozen'
    BY <1>1, <1>4 DEF TradesInv, TradesAreFrozen, Same, LaneIdentity
  <2> QED BY <1>2, <2>1, <2>2
<1>5. ASSUME NEW c \in Lanes, SubmitOrder(c)
      PROVE  LateIsOneBatch' /\ TradesAreFrozen'
  <2> DEFINE g == [decisionTime |-> at[c], checkedAt |-> now[c],
                   late |-> clock >= experiment.plannedEndAt]
  <2>1. /\ pc[c] = "trading" /\ fills' = fills \cup {g}
        /\ UNCHANGED <<clock, experiment, pc, at, now>>
    BY <1>5 DEF SubmitOrder
  <2>2. /\ experiment.identity = LaneIdentity
        /\ experiment.startedAt <= at[c]
        /\ now[c] \in at[c] .. experiment.plannedEndAt - 1
    BY <1>0, <2>1 DEF FrozenInv, LanesAreInside
  <2>3. /\ g.decisionTime = at[c] /\ g.checkedAt = now[c]
        /\ g.late => experiment.plannedEndAt <= clock
    BY <1>0 DEF ObservationExperiment
  <2> HIDE DEF g
  <2>4. \A l \in Lanes : pc[l] = "trading" => l = c
    BY <2>1 DEF TradesInv, OneLaneAtATime
  <2>5. LateIsOneBatch'
    <3> SUFFICES ASSUME NEW f \in fills', f.late
                 PROVE  /\ experiment.plannedEndAt <= clock
                        /\ \A l \in Lanes : pc[l] = "trading" =>
                             f.decisionTime = at[l] /\ f.checkedAt = now[l]
      BY <2>1 DEF LateIsOneBatch
    <3> QED BY <2>1, <2>3, <2>4 DEF TradesInv, LateIsOneBatch
  <2>6. \A f \in fills : f.late => f.decisionTime = at[c] /\ f.checkedAt = now[c]
    BY <2>1 DEF TradesInv, LateIsOneBatch
  <2>7. TradesAreFrozen'
    BY <2>1, <2>2, <2>3, <2>6 DEF TradesInv, TradesAreFrozen, LaneIdentity
  <2> QED BY <2>5, <2>7
<1> QED BY <1>2, <1>4, <1>5, StepOfFills

\* What the lane trades has the frozen identity and passed the deadline check within
\* the window, and what goes out after the planned end is the rest of one batch, for
\* any number of starts, lanes, evaluations and crashes.
THEOREM TradesAreFrozenHolds == Spec => []TradesAreFrozen
<1>1. Init => OneLaneAtATime /\ LateIsOneBatch /\ TradesAreFrozen
  BY DEF Init, OneLaneAtATime, LateIsOneBatch, TradesAreFrozen, Calls
<1>2. /\ FrozenInv /\ OneLaneAtATime /\ LateIsOneBatch /\ TradesAreFrozen
      /\ [Next]_vars
      => OneLaneAtATime' /\ LateIsOneBatch' /\ TradesAreFrozen'
  BY StepTradesInv DEF TradesInv
<1> QED BY <1>1, <1>2, FrozenInvHolds, PTL DEF Spec
----------------------------------------------------------------------------
(* Outcomes *)

\* Missing data is recorded once the grace period is over, and what is collected
\* afterwards carries a later time.
MissingIsLate ==
  \A o \in outcomes : o.status = "MISSING_DATA" =>
    Target(o.key) + Grace <= o.evaluatedAt /\ o.evaluatedAt <= clock

KeysAreUnique == \A o, p \in outcomes : o.key = p.key => o = p

OutcomeInv ==
  /\ FrozenInv
  /\ MissingIsLate
  /\ KeysAreUnique
  /\ DelayIsNotMissing

\* Only an evaluation adds an outcome, and only to a key that has none.
LEMMA StepOfOutcomes ==
  ASSUME TypeOK, [Next]_vars
  PROVE  \/ outcomes' = outcomes
         \/ /\ candles' = candles
            /\ clock' = clock
            /\ \E c \in Evaluations, k \in OutcomeKey : \E o \in Outcome(k, now[c]) :
                 /\ ~Waits(o)
                 /\ \A old \in outcomes : old.key # k
                 /\ outcomes' = outcomes \cup {o}
<1> DEFINE Goal ==
      \/ outcomes' = outcomes
      \/ /\ candles' = candles
         /\ clock' = clock
         /\ \E c \in Evaluations, k \in OutcomeKey : \E o \in Outcome(k, now[c]) :
              /\ ~Waits(o)
              /\ \A old \in outcomes : old.key # k
              /\ outcomes' = outcomes \cup {o}
<1>1. ASSUME NEW c \in Evaluations, EvaluateNext(c) PROVE Goal
  <2>1. PICK k \in todo[c] : \E o \in Outcome(k, now[c]) :
          outcomes' = IF Waits(o) THEN outcomes ELSE SaveOutcome(o)
    BY <1>1 DEF EvaluateNext
  <2>2. PICK o \in Outcome(k, now[c]) :
          outcomes' = IF Waits(o) THEN outcomes ELSE SaveOutcome(o)
    BY <2>1
  <2>3. k \in OutcomeKey /\ now[c] \in Nat
    BY DEF TypeOK, Calls
  <2>4. o.key = k
    BY <2>2, <2>3, OutcomeType
  <2>5. candles' = candles /\ clock' = clock
    BY <1>1 DEF EvaluateNext
  <2> QED BY <2>2, <2>3, <2>4, <2>5 DEF SaveOutcome
<1>2. \/ outcomes' = outcomes
      \/ \E c \in Evaluations : EvaluateNext(c)
  BY DEF Next, vars, rows, Start, StartRead, StartCreate, StartExisting, StartMismatch, Lane,
     BeginLane, PermitRead, Invalidate, PermitCompletes, PermitRefuses, PermitGrants, RunChecks,
     SubmitOrder, RunEnds, RunRaises, CaptureRead, CaptureIgnores, Capture, CaptureBundle,
     EvaluatePending, EvaluateRead, EvaluateStatus, EvaluateLoad, EvaluateDone, InterruptRead,
     Interrupt, Sync, Tick, Crash
<1> QED BY <1>1, <1>2

\* What a step adds to the candles is collected now.
LEMMA StepOfCandles ==
  ASSUME [Next]_vars
  PROVE  \A m \in candles' : m \in candles \/ m.collected = clock
<1>1. ASSUME NEW p \in Pairs, Sync(p)
      PROVE  \A m \in candles' : m \in candles \/ m.collected = clock
  BY <1>1 DEF Sync
<1>2. candles' = candles \/ \E p \in Pairs : Sync(p)
  BY DEF Next, vars, Start, StartRead, StartCreate, StartExisting, StartMismatch, Lane,
     BeginLane, PermitRead, Invalidate, PermitCompletes, PermitRefuses, PermitGrants, RunChecks,
     SubmitOrder, RunEnds, RunRaises, CaptureRead, CaptureIgnores, Capture, CaptureBundle,
     EvaluatePending, EvaluateRead, EvaluateStatus, EvaluateLoad, EvaluateNext, EvaluateDone,
     InterruptRead, Interrupt, Tick, Crash
<1> QED BY <1>1, <1>2

LEMMA StepOutcomeInv ==
  ASSUME OutcomeInv, [Next]_vars
  PROVE  MissingIsLate' /\ KeysAreUnique' /\ DelayIsNotMissing'
<1>0. /\ TypeOK /\ clock \in Nat /\ clock' \in {clock, clock + 1} /\ Grace \in Nat
      /\ \A d \in Calls : now[d] <= clock /\ now[d] \in Nat
      /\ Horizons \subseteq Nat
  BY StepOfCalls, ObservationAssumption DEF OutcomeInv, FrozenInv, TypeOK, TimesArePast
<1>1. CASE outcomes' = outcomes
  <2>1. ASSUME NEW o \in outcomes PROVE Target(o.key) + Grace \in Nat /\ o.evaluatedAt \in Nat
    <3>1. o.key \in OutcomeKey /\ o.evaluatedAt \in Nat
      BY <1>0 DEF TypeOK, DecisionOutcome
    <3>2. o.key.decisionTime \in Nat /\ o.key.horizon \in Nat
      BY <1>0, <3>1 DEF OutcomeKey
    <3> QED BY <1>0, <3>1, <3>2 DEF Target
  <2>2. MissingIsLate'
    BY <1>0, <1>1, <2>1 DEF OutcomeInv, MissingIsLate, Target
  <2>3. KeysAreUnique'
    BY <1>1 DEF OutcomeInv, KeysAreUnique
  <2>4. DelayIsNotMissing'
    <3> SUFFICES ASSUME NEW o \in outcomes, o.status = "MISSING_DATA", NEW m \in candles',
                        m.pair = o.key.pair, m.time > o.key.decisionTime,
                        m.time <= Target(o.key), Target(o.key) - m.time <= StaleAfter
                 PROVE  m.collected >= Target(o.key) + Grace
      BY <1>1 DEF DelayIsNotMissing, Target
    <3>1. CASE m \in candles
      BY <3>1 DEF OutcomeInv, DelayIsNotMissing
    <3>2. CASE m.collected = clock
      BY <1>0, <2>1, <3>2 DEF OutcomeInv, MissingIsLate
    <3> QED BY <3>1, <3>2, StepOfCandles
  <2> QED BY <2>2, <2>3, <2>4
<1>2. CASE outcomes' # outcomes
  <2>1. /\ candles' = candles /\ clock' = clock
        /\ \E c \in Evaluations, k \in OutcomeKey : \E o \in Outcome(k, now[c]) :
             /\ ~Waits(o)
             /\ \A old \in outcomes : old.key # k
             /\ outcomes' = outcomes \cup {o}
    BY <1>0, <1>2, StepOfOutcomes
  <2>2. PICK c \in Evaluations, k \in OutcomeKey : \E o \in Outcome(k, now[c]) :
             /\ ~Waits(o)
             /\ \A old \in outcomes : old.key # k
             /\ outcomes' = outcomes \cup {o}
    BY <2>1
  <2>3. PICK o \in Outcome(k, now[c]) :
             /\ ~Waits(o)
             /\ \A old \in outcomes : old.key # k
             /\ outcomes' = outcomes \cup {o}
    BY <2>2
  <2>4. now[c] \in Nat /\ now[c] <= clock
    BY <1>0 DEF Calls
  <2>5. /\ o.key = k /\ o.evaluatedAt = now[c]
        /\ o.status = "MISSING_DATA" => Recent(k) = {}
    BY <1>0, <2>4, OutcomeType
  <2>6. Target(k) \in Nat
    <3>1. k.decisionTime \in Nat /\ k.horizon \in Nat
      BY <1>0 DEF OutcomeKey
    <3> QED BY <3>1 DEF Target
  <2>7. MissingIsLate'
    <3>1. o.status = "MISSING_DATA" =>
            Target(o.key) + Grace <= o.evaluatedAt /\ o.evaluatedAt <= clock
      BY <1>0, <2>3, <2>4, <2>5, <2>6 DEF Waits
    <3> QED BY <2>1, <2>3, <3>1 DEF OutcomeInv, MissingIsLate, Target
  <2>8. KeysAreUnique'
    BY <2>3, <2>5 DEF OutcomeInv, KeysAreUnique
  <2>9. DelayIsNotMissing'
    <3> SUFFICES ASSUME NEW q \in outcomes', q.status = "MISSING_DATA", NEW m \in candles,
                        m.pair = q.key.pair, m.time > q.key.decisionTime,
                        m.time <= Target(q.key), Target(q.key) - m.time <= StaleAfter
                 PROVE  m.collected >= Target(q.key) + Grace
      BY <2>1 DEF DelayIsNotMissing, Target
    <3>1. CASE q \in outcomes
      BY <3>1 DEF OutcomeInv, DelayIsNotMissing
    <3>2. CASE q = o
      <4>1. m.time \in Usable(k)
        BY <2>5, <3>2 DEF Usable
      <4>2. m.time \in Recent(k)
        BY <2>5, <3>2, <4>1 DEF Recent
      <4> QED BY <2>5, <3>2, <4>2
    <3> QED BY <2>3, <3>1, <3>2
  <2> QED BY <2>7, <2>8, <2>9
<1> QED BY <1>1, <1>2

LEMMA OutcomeInvHolds == Spec => []OutcomeInv
<1>1. Init => MissingIsLate /\ KeysAreUnique /\ DelayIsNotMissing
  BY DEF Init, MissingIsLate, KeysAreUnique, DelayIsNotMissing
<1>2. FrozenInv /\ MissingIsLate /\ KeysAreUnique /\ DelayIsNotMissing /\ [Next]_vars
        => MissingIsLate' /\ KeysAreUnique' /\ DelayIsNotMissing'
  BY StepOutcomeInv DEF OutcomeInv
<1>3. FrozenInv /\ MissingIsLate /\ KeysAreUnique /\ DelayIsNotMissing => OutcomeInv
  BY DEF OutcomeInv
<1> QED BY <1>1, <1>2, <1>3, FrozenInvHolds, PTL DEF Spec

\* A delay of the collection that is shorter than the grace period never becomes
\* missing data, however long an evaluation works with the time it began at.
THEOREM DelayIsNotMissingHolds == Spec => []DelayIsNotMissing
<1>1. OutcomeInv => DelayIsNotMissing
  BY DEF OutcomeInv
<1> QED BY <1>1, OutcomeInvHolds, PTL

\* A stored outcome stays and is the only one of its key, for any number of
\* evaluations that work on the same keys.
THEOREM OutcomesAreFinalHolds == Spec => OutcomesAreFinal
<1>1. OutcomeInv /\ [Next]_vars =>
        [/\ outcomes \subseteq outcomes'
         /\ \A o, p \in outcomes' : o.key = p.key => o = p]_vars
  <2> SUFFICES ASSUME OutcomeInv, [Next]_vars
               PROVE  /\ outcomes \subseteq outcomes'
                      /\ \A o, p \in outcomes' : o.key = p.key => o = p
    OBVIOUS
  <2>1. KeysAreUnique'
    BY StepOutcomeInv
  <2>2. outcomes \subseteq outcomes'
    BY StepOfOutcomes DEF OutcomeInv, FrozenInv
  <2> QED BY <2>1, <2>2 DEF KeysAreUnique
<1> QED BY <1>1, OutcomeInvHolds, PTL DEF Spec, OutcomesAreFinal
=============================================================================
