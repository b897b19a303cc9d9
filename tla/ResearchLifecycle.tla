------------------------- MODULE ResearchLifecycle -------------------------
(***************************************************************************)
(* The research lifecycle: strategy versions and experiments, each a JSON   *)
(* file, and the calls of the REST interface that move them.  A call reads  *)
(* its records once and writes them back file by file; a crash may end it   *)
(* between two files, and calls may overlap.                                *)
(*                                                                          *)
(* An experiment identifier is the hash of the request and of the version   *)
(* it was derived from, so it is modelled by that pair.  The parameters of  *)
(* a version are the request that proposed them.  A call that raises before *)
(* its first write changes nothing and is not a step.                       *)
(***************************************************************************)
EXTENDS Integers, FiniteSets

CONSTANTS
    Callers,        \* the requests that are served at once
    Requests,       \* what an experiment may be asked to try
    MethodOf,       \* the validation method of a request
    GapOf,          \* the days from its training end to its validation start
    Metrics,        \* what a backtest may measure
    MaxVersions,    \* how many versions of the strategy are explored
    None            \* no such file, metric or call

Numbers == 1..MaxVersions
Ids == Requests \X Numbers
Runs == <<"champion", "challenger", "validation">>

\* What the two kinds of file hold.  A version has no source when it is the
\* initial one.
Versions ==
    [params : Requests \cup {None}, source : Ids \cup {None},
     status : {"CHALLENGER", "CANDIDATE", "ACTIVE", "REJECTED", "RETIRED"}]
Experiments ==
    [base : Numbers, candidate : Numbers, approved : BOOLEAN,
     status : {"DRAFT", "READY", "RUNNING", "FAILED", "REJECTED", "CANDIDATE", "PROMOTED"}]

\* A call: what it has read and the write it is at.
Calls ==
    [op : {"create"}, id : Ids, n : Numbers,
     at : {"version", "write version", "experiment", "write experiment"}]
      \cup [op : {"ready"}, id : Ids, at : {"write"}, record : Experiments]
      \cup [op : {"run"}, id : Ids, record : Experiments, run : 1..4,
            challenger : Versions \cup {None},
            at : {"write", "load", "test", "save", "evaluate", "failed",
                  "CANDIDATE", "REJECTED"}]
      \cup [op : {"promote"}, id : Ids, record : Experiments,
            champion : Versions, challenger : Versions, at : {"retire", "activate", "mark"}]
      \cup [op : {"reject"}, id : Ids, record : Experiments, challenger : Versions,
            at : {"version", "experiment"}]

ASSUME LifecycleAssumption ==
    /\ MaxVersions \in Nat \ {0}
    /\ MethodOf \in [Requests -> {"HOLDOUT", "WALK_FORWARD"}]
    /\ GapOf \in [Requests -> Int]
    /\ None \notin Versions

VARIABLES
    versions,       \* strategies/<version_id>.json
    experiments,    \* experiments/<experiment_id>.json
    runs,           \* the run records saved for each experiment
    passed,         \* history: the numbers and parameters whose evaluation passed
    shared,         \* history: the numbers two overlapping creations both wrote
    call            \* the call each caller is in

vars == <<versions, experiments, runs, passed, shared, call>>

(***************************************************************************)
(* The rules a call applies                                                 *)
(***************************************************************************)
Allowed(status) ==
    CASE status = "DRAFT" -> {"READY", "REJECTED"}
      [] status = "READY" -> {"RUNNING", "REJECTED"}
      [] status = "RUNNING" -> {"COMPLETED", "FAILED"}
      [] status = "COMPLETED" -> {"CANDIDATE", "REJECTED"}
      [] status = "CANDIDATE" -> {"PROMOTED", "REJECTED"}
      [] OTHER -> {}

\* The payload never names purge_days, so a walk-forward gap is the default.
PurgeDays == 1

\* _validation_checks: the empty set is a successful validation.
ValidationChecks(request) ==
    IF MethodOf[request] = "WALK_FORWARD"
    THEN IF GapOf[request] >= PurgeDays THEN {} ELSE {"PURGE_GAP_VIOLATION"}
    ELSE IF GapOf[request] >= 0 THEN {} ELSE {"TRAIN_OVERLAPS_VALIDATION"}

\* The reasons a challenger is not better; none of them means passed.
Reasons(champion, challenger, successful) ==
    {reason \in {"VALIDATION_FAILED", "SHARPE_BELOW_CHAMPION",
                 "DRAWDOWN_WORSE_THAN_CHAMPION", "FEE_ADJUSTED_RETURN_NOT_POSITIVE"} :
        CASE reason = "VALIDATION_FAILED" -> ~successful
          [] reason = "SHARPE_BELOW_CHAMPION" ->
                /\ champion.sharpe # None
                /\ \/ challenger.sharpe = None
                   \/ challenger.sharpe < champion.sharpe
          [] reason = "DRAWDOWN_WORSE_THAN_CHAMPION" ->
                challenger.drawdown < champion.drawdown
          [] OTHER -> challenger.feeAdjusted <= 0}

Stored(collection, key) == collection[key] # None

Active == {n \in Numbers : Stored(versions, n) /\ versions[n].status = "ACTIVE"}

NextNumber ==
    1 + CHOOSE n \in 0..MaxVersions :
            /\ n = 0 \/ Stored(versions, n)
            /\ \A m \in Numbers : Stored(versions, m) => m <= n

WithStatus(record, status) == [record EXCEPT !.status = status]

SaveVersion(n, record) == versions' = [versions EXCEPT ![n] = record]
SaveExperiment(id, record) == experiments' = [experiments EXCEPT ![id] = record]

Goes(c, at) == call' = [call EXCEPT ![c].at = at]
Ends(c) == call' = [call EXCEPT ![c] = None]

TypeOK ==
    /\ versions \in [Numbers -> Versions \cup {None}]
    /\ experiments \in [Ids -> Experiments \cup {None}]
    /\ runs \in [Ids -> SUBSET {Runs[k] : k \in 1..3}]
    /\ passed \subseteq Numbers \X (Requests \cup {None})
    /\ shared \subseteq Numbers
    /\ call \in [Callers -> Calls \cup {None}]

Init ==
    /\ versions = [n \in Numbers |-> None]
    /\ experiments = [id \in Ids |-> None]
    /\ runs = [id \in Ids |-> {}]
    /\ passed = {} /\ shared = {}
    /\ call = [c \in Callers |-> None]

(***************************************************************************)
(* initialize_strategy: a second call finds the version, or the file        *)
(***************************************************************************)
Initialize(c) ==
    /\ call[c] = None
    /\ \A n \in Numbers : ~Stored(versions, n)
    /\ SaveVersion(1, [params |-> None, status |-> "ACTIVE", source |-> None])
    /\ UNCHANGED <<experiments, runs, passed, shared, call>>

(***************************************************************************)
(* create_experiment: the champion and the next number are read first, then *)
(* the challenger is created and after it the experiment.                   *)
(***************************************************************************)
\* Mutant of Create: the experiment is created first.
CreateExperimentFirst(c, request) ==
    /\ call[c] = None
    /\ Cardinality(Active) = 1
    /\ NextNumber \in Numbers
    /\ \E champion \in Active :
         call' = [call EXCEPT ![c] =
            [op |-> "create", id |-> <<request, champion>>, n |-> NextNumber, at |-> "experiment"]]
    /\ UNCHANGED <<versions, experiments, runs, passed, shared>>

Create(c, request) ==
    /\ call[c] = None
    /\ Cardinality(Active) = 1
    /\ NextNumber \in Numbers                       \* bound: MaxVersions
    /\ \E champion \in Active :
         call' = [call EXCEPT ![c] =
            [op |-> "create", id |-> <<request, champion>>, n |-> NextNumber, at |-> "version"]]
    /\ UNCHANGED <<versions, experiments, runs, passed, shared>>

\* _write(create=True) tests for the file and writes it in two steps.
TestVersion(c) ==
    /\ call[c] # None /\ call[c].op = "create" /\ call[c].at = "version"
    /\ IF Stored(versions, call[c].n) THEN Ends(c) ELSE Goes(c, "write version")
    /\ UNCHANGED <<versions, experiments, runs, passed, shared>>

\* Nothing keeps another creation from having stored the number since the test: the
\* parameters of that version are replaced.
WriteVersion(c) ==
    /\ call[c] # None /\ call[c].op = "create" /\ call[c].at = "write version"
    /\ SaveVersion(call[c].n, [params |-> call[c].id[1], status |-> "CHALLENGER",
                               source |-> call[c].id])
    /\ shared' = IF Stored(versions, call[c].n) THEN shared \cup {call[c].n} ELSE shared
    /\ Goes(c, "experiment")
    /\ UNCHANGED <<experiments, runs, passed>>

\* A repeated request is refused here, after its challenger was created.
TestExperiment(c) ==
    /\ call[c] # None /\ call[c].op = "create" /\ call[c].at = "experiment"
    /\ IF Stored(experiments, call[c].id) THEN Ends(c) ELSE Goes(c, "write experiment")
    /\ UNCHANGED <<versions, experiments, runs, passed, shared>>

WriteExperiment(c) ==
    /\ call[c] # None /\ call[c].op = "create" /\ call[c].at = "write experiment"
    /\ SaveExperiment(call[c].id,
            [base |-> call[c].id[2], candidate |-> call[c].n,
             status |-> "DRAFT", approved |-> FALSE])
    /\ Ends(c)
    /\ UNCHANGED <<versions, runs, passed, shared>>

(***************************************************************************)
(* mark_ready                                                               *)
(***************************************************************************)
MarkReady(c, id) ==
    /\ call[c] = None
    /\ Stored(experiments, id) /\ "READY" \in Allowed(experiments[id].status)
    /\ call' = [call EXCEPT ![c] =
            [op |-> "ready", id |-> id, at |-> "write", record |-> experiments[id]]]
    /\ UNCHANGED <<versions, experiments, runs, passed, shared>>

WriteReady(c) ==
    /\ call[c] # None /\ call[c].op = "ready"
    /\ SaveExperiment(call[c].id, WithStatus(call[c].record, "READY"))
    /\ Ends(c)
    /\ UNCHANGED <<versions, runs, passed, shared>>

(***************************************************************************)
(* run: RUNNING is saved, the data is fetched, the backtests of champion    *)
(* and challenger and the validation are saved as new records, and at last  *)
(* the challenger and the experiment.  Whatever raises makes it FAILED.     *)
(***************************************************************************)
Run(c, id) ==
    /\ call[c] = None
    /\ Stored(experiments, id) /\ "RUNNING" \in Allowed(experiments[id].status)
    /\ call' = [call EXCEPT ![c] =
            [op |-> "run", id |-> id, at |-> "write",
             record |-> WithStatus(experiments[id], "RUNNING"), challenger |-> None, run |-> 1]]
    /\ UNCHANGED <<versions, experiments, runs, passed, shared>>

WriteRunning(c) ==
    /\ call[c] # None /\ call[c].op = "run" /\ call[c].at = "write"
    /\ SaveExperiment(call[c].id, call[c].record)
    /\ Goes(c, "load")
    /\ UNCHANGED <<versions, runs, passed, shared>>

\* The versions are read and the market data fetched; a fetch may raise.
Load(c) ==
    /\ call[c] # None /\ call[c].op = "run" /\ call[c].at = "load"
    /\ \E at \in {"test", "failed"} :
         call' = [call EXCEPT ![c].at = at,
                              ![c].challenger = versions[call[c].record.candidate]]
    /\ UNCHANGED <<versions, experiments, runs, passed, shared>>

\* _backtest, twice, and the validation run: tested for and then written.
RunAt(c) == Runs[call[c].run]

TestRun(c) ==
    /\ call[c] # None /\ call[c].op = "run" /\ call[c].at = "test"
    /\ \E at \in {"save", "failed"} :      \* the backtest may raise
         /\ RunAt(c) \in runs[call[c].id] => at = "failed"
         /\ Goes(c, at)
    /\ UNCHANGED <<versions, experiments, runs, passed, shared>>

WriteRun(c) ==
    /\ call[c] # None /\ call[c].op = "run" /\ call[c].at = "save"
    /\ runs' = [runs EXCEPT ![call[c].id] = @ \cup {RunAt(c)}]
    /\ call' = [call EXCEPT ![c].run = @ + 1,
                            ![c].at = IF RunAt(c) = "validation" THEN "evaluate" ELSE "test"]
    /\ UNCHANGED <<versions, experiments, passed, shared>>

\* The policy compares the metrics; the challenger is saved with the outcome.
Evaluate(c) ==
    /\ call[c] # None /\ call[c].op = "run" /\ call[c].at = "evaluate"
    /\ \E champion \in Metrics, challenger \in Metrics :
         LET better == Reasons(champion, challenger,
                               ValidationChecks(call[c].id[1]) = {}) = {}
             outcome == IF better THEN "CANDIDATE" ELSE "REJECTED"
         IN /\ SaveVersion(call[c].record.candidate, WithStatus(call[c].challenger, outcome))
            /\ passed' = IF better THEN passed \cup {<<call[c].record.candidate,
                                                       call[c].challenger.params>>}
                         ELSE passed
            /\ Goes(c, outcome)
    /\ UNCHANGED <<experiments, runs, shared>>

FinishRun(c) ==
    /\ call[c] # None /\ call[c].op = "run" /\ call[c].at \in {"CANDIDATE", "REJECTED"}
    /\ SaveExperiment(call[c].id, WithStatus(call[c].record, call[c].at))
    /\ Ends(c)
    /\ UNCHANGED <<versions, runs, passed, shared>>

FailRun(c) ==
    /\ call[c] # None /\ call[c].op = "run" /\ call[c].at = "failed"
    /\ SaveExperiment(call[c].id, WithStatus(call[c].record, "FAILED"))
    /\ Ends(c)
    /\ UNCHANGED <<versions, runs, passed, shared>>

(***************************************************************************)
(* promote: retires the version the experiment was derived from, activates  *)
(* its challenger, and marks the experiment, in three writes.               *)
(***************************************************************************)
\* Mutant of Promote: any experiment that is not at its end is accepted.
PromoteUnlessEnded(c, id) ==
    /\ call[c] = None
    /\ Stored(experiments, id) /\ experiments[id].status \notin {"REJECTED", "FAILED", "PROMOTED"}
    /\ call' = [call EXCEPT ![c] =
            [op |-> "promote", id |-> id, at |-> "retire", record |-> experiments[id],
             champion |-> versions[experiments[id].base],
             challenger |-> versions[experiments[id].candidate]]]
    /\ UNCHANGED <<versions, experiments, runs, passed, shared>>

Promote(c, id) ==
    /\ call[c] = None
    /\ Stored(experiments, id) /\ experiments[id].status = "CANDIDATE"
    /\ call' = [call EXCEPT ![c] =
            [op |-> "promote", id |-> id, at |-> "retire", record |-> experiments[id],
             champion |-> versions[experiments[id].base],
             challenger |-> versions[experiments[id].candidate]]]
    /\ UNCHANGED <<versions, experiments, runs, passed, shared>>

Retire(c) ==
    /\ call[c] # None /\ call[c].op = "promote" /\ call[c].at = "retire"
    /\ SaveVersion(call[c].record.base, WithStatus(call[c].champion, "RETIRED"))
    /\ Goes(c, "activate")
    /\ UNCHANGED <<experiments, runs, passed, shared>>

Activate(c) ==
    /\ call[c] # None /\ call[c].op = "promote" /\ call[c].at = "activate"
    /\ SaveVersion(call[c].record.candidate, WithStatus(call[c].challenger, "ACTIVE"))
    /\ Goes(c, "mark")
    /\ UNCHANGED <<experiments, runs, passed, shared>>

MarkPromoted(c) ==
    /\ call[c] # None /\ call[c].op = "promote" /\ call[c].at = "mark"
    /\ SaveExperiment(call[c].id,
            [call[c].record EXCEPT !.status = "PROMOTED", !.approved = TRUE])
    /\ Ends(c)
    /\ UNCHANGED <<versions, runs, passed, shared>>

(***************************************************************************)
(* reject: the challenger first, then the experiment                        *)
(***************************************************************************)
Reject(c, id) ==
    /\ call[c] = None
    /\ Stored(experiments, id) /\ "REJECTED" \in Allowed(experiments[id].status)
    /\ call' = [call EXCEPT ![c] =
            [op |-> "reject", id |-> id, at |-> "version", record |-> experiments[id],
             challenger |-> versions[experiments[id].candidate]]]
    /\ UNCHANGED <<versions, experiments, runs, passed, shared>>

RejectVersion(c) ==
    /\ call[c] # None /\ call[c].op = "reject" /\ call[c].at = "version"
    /\ SaveVersion(call[c].record.candidate, WithStatus(call[c].challenger, "REJECTED"))
    /\ Goes(c, "experiment")
    /\ UNCHANGED <<experiments, runs, passed, shared>>

RejectExperiment(c) ==
    /\ call[c] # None /\ call[c].op = "reject" /\ call[c].at = "experiment"
    /\ SaveExperiment(call[c].id, WithStatus(call[c].record, "REJECTED"))
    /\ Ends(c)
    /\ UNCHANGED <<versions, runs, passed, shared>>

\* The process dies: every call ends where it is, the files stay.
Crash ==
    /\ \E c \in Callers : call[c] # None
    /\ call' = [c \in Callers |-> None]
    /\ UNCHANGED <<versions, experiments, runs, passed, shared>>

Next ==
    \/ Crash
    \/ \E c \in Callers :
        \/ Initialize(c) \/ TestVersion(c) \/ WriteVersion(c)
        \/ TestExperiment(c) \/ WriteExperiment(c) \/ WriteReady(c) \/ WriteRunning(c)
        \/ Load(c) \/ TestRun(c) \/ WriteRun(c) \/ Evaluate(c) \/ FinishRun(c) \/ FailRun(c)
        \/ Retire(c) \/ Activate(c) \/ MarkPromoted(c)
        \/ RejectVersion(c) \/ RejectExperiment(c)
        \/ \E request \in Requests : Create(c, request)
        \/ \E id \in Ids : MarkReady(c, id) \/ Run(c, id) \/ Promote(c, id) \/ Reject(c, id)

Spec == Init /\ [][Next]_vars

(***************************************************************************)
(* What the lifecycle promises                                              *)
(***************************************************************************)
\* Versions that were evaluated with the parameters they have, and passed.  A number
\* two creations wrote passed for one of them.
Earned ==
    {n \in Numbers : /\ Stored(versions, n)
                     /\ \E params \in Requests \cup {None} :
                          /\ <<n, params>> \in passed
                          /\ n \in shared \/ versions[n].params = params}

\* ActiveIsEarned: the version that trades is the first one, or the challenger of an
\* experiment that was evaluated with the very parameters it trades with and passed
\* (promote, run), wherever calls overlapped and a crash cut them; except that two
\* creations which wrote one number in the same moment share its evaluation.
ActiveIsEarned ==
    Active \subseteq {1} \cup Earned

\* ReferencesResolve: an experiment on disk names versions that are on disk
\* (create_experiment writes the challenger first), so no later call fails on
\* a missing file.
ReferencesResolve ==
    \A id \in Ids : Stored(experiments, id) =>
        /\ Stored(versions, experiments[id].base)
        /\ Stored(versions, experiments[id].candidate)

\* OneChampion: promotion replaces the champion, so there is never a second
\* active version beside it (promote, active_strategy).
OneChampion == Cardinality(Active) <= 1
=============================================================================
