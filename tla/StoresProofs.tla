---------------------------- MODULE StoresProofs ----------------------------
(***************************************************************************)
(* Proofs about the stores of Stores: the research lifecycle, the model      *)
(* registry, the migration and the candle files, for any number of           *)
(* overlapping calls and any crash between two writes; and that a behaviour  *)
(* of all of them together is one of each, fills on PostgreSQL               *)
(* (PostgresLedgerProofs) included.                                          *)
(***************************************************************************)
EXTENDS Stores, SharedFile, FiniteSetTheorems, WellFoundedInduction, TLAPS

(***************************************************************************)
(* The research lifecycle: the inductive invariant                          *)
(***************************************************************************)
\* The versions an experiment record names are on disk, and a record that says
\* CANDIDATE is of a challenger that is earned.  Records that were read long ago
\* are written back as they were, so this holds of every copy a call keeps.
Resolves(vs, ok, record) ==
    /\ vs[record.base] # None /\ vs[record.candidate] # None
    /\ record.status = "CANDIDATE" => record.candidate \in ok

StoredResolve ==
    \A id \in Ids : Stored(experiments, id) => Resolves(versions, Earned, experiments[id])

\* A copy of a version has the parameters of the stored one, if its number is not shared.
Agrees(vs, sh, n, v) == n \notin sh => v.params = vs[n].params

\* What the copy of a call is good for, by the kind of the call.
Holds(vs, ok, sh, k) ==
    /\ k.op = "create" =>
          /\ vs[k.id[2]] # None
          /\ k.at \in {"experiment", "write experiment"} => vs[k.n] # None
    /\ k.op # "create" => Resolves(vs, ok, k.record)
    /\ k.op = "run" =>
          /\ k.record.status = "RUNNING"
          /\ k.at \notin {"write", "load"} => k.challenger # None
          /\ k.at = "CANDIDATE" => k.record.candidate \in ok
          /\ k.at \in {"write", "load", "test", "save"} => k.run \in 1..3
          /\ k.challenger # None => Agrees(vs, sh, k.record.candidate, k.challenger)
    /\ k.op = "promote" =>
          /\ k.record.candidate \in ok
          /\ Agrees(vs, sh, k.record.base, k.champion)
    /\ k.op \in {"promote", "reject"} => Agrees(vs, sh, k.record.candidate, k.challenger)

CallsHold == \A c \in Callers : call[c] # None => Holds(versions, Earned, shared, call[c])

IInv == TypeOK /\ ActiveIsEarned /\ StoredResolve /\ CallsHold

(***************************************************************************)
(* Lemmas about the operators                                               *)
(***************************************************************************)
\* Saving a record with another status gives a record of the same kind.
LEMMA WithStatusType ==
  /\ \A v \in Versions, status \in {"CHALLENGER", "CANDIDATE", "ACTIVE", "REJECTED", "RETIRED"} :
        /\ WithStatus(v, status) \in Versions /\ WithStatus(v, status).status = status
        /\ WithStatus(v, status).params = v.params
  /\ \A x \in Experiments,
        status \in {"DRAFT", "READY", "RUNNING", "FAILED", "REJECTED", "CANDIDATE", "PROMOTED"} :
          /\ WithStatus(x, status) \in Experiments /\ WithStatus(x, status).status = status
          /\ WithStatus(x, status).base = x.base
          /\ WithStatus(x, status).candidate = x.candidate
BY DEF WithStatus, Versions, Experiments

\* The fields a call of each kind has.
LEMMA CallType ==
  ASSUME TypeOK, NEW c \in Callers, call[c] # None
  PROVE  /\ call[c] \in Calls /\ call[c].id \in Ids
         /\ call[c].op \in {"create", "ready", "run", "promote", "reject"}
         /\ call[c].op = "create" => call[c] \in
              [op : {"create"}, id : Ids, n : Numbers,
               at : {"version", "write version", "experiment", "write experiment"}]
         /\ call[c].op = "ready" => call[c] \in
              [op : {"ready"}, id : Ids, at : {"write"}, record : Experiments]
         /\ call[c].op = "run" => call[c] \in
              [op : {"run"}, id : Ids, record : Experiments, run : 1..4,
               challenger : Versions \cup {None},
               at : {"write", "load", "test", "save", "evaluate", "failed",
                     "CANDIDATE", "REJECTED"}]
         /\ call[c].op = "promote" => call[c] \in
              [op : {"promote"}, id : Ids, record : Experiments,
               champion : Versions, challenger : Versions, at : {"retire", "activate", "mark"}]
         /\ call[c].op = "reject" => call[c] \in
              [op : {"reject"}, id : Ids, record : Experiments, challenger : Versions,
               at : {"version", "experiment"}]
<1>1. call[c] \in Calls
  BY DEF TypeOK
<1> QED
  BY <1>1 DEF Calls

\* A base and a champion are numbers.
LEMMA IdType == \A id \in Ids : id[1] \in Requests /\ id[2] \in Numbers
BY DEF Ids

\* Once the versions and the earned ones only grow, and a version keeps its
\* parameters unless its number is shared, what a call may rely on stays reliable.
Grows(vs, vs1, ok, ok1, sh, sh1) ==
    /\ \A n \in Numbers : vs[n] # None =>
          vs1[n] # None /\ (n \notin sh1 => vs1[n].params = vs[n].params)
    /\ ok \subseteq ok1
    /\ sh \subseteq sh1

LEMMA ResolvesStays ==
  ASSUME NEW vs, NEW vs1, NEW ok, NEW ok1, NEW sh, NEW sh1, Grows(vs, vs1, ok, ok1, sh, sh1),
         NEW x \in Experiments, Resolves(vs, ok, x)
  PROVE  Resolves(vs1, ok1, x)
BY DEF Grows, Resolves, Experiments

LEMMA HoldsStays ==
  ASSUME NEW vs, NEW vs1, NEW ok, NEW ok1, NEW sh, NEW sh1, Grows(vs, vs1, ok, ok1, sh, sh1),
         NEW k \in Calls, Holds(vs, ok, sh, k)
  PROVE  Holds(vs1, ok1, sh1, k)
<1>1. k.op # "create" => k.record \in Experiments
  BY DEF Calls
<1>2. k.op # "create" => Resolves(vs, ok, k.record) /\ Resolves(vs1, ok1, k.record)
  BY <1>1, ResolvesStays DEF Holds
<1>3. k.op = "create" => k.n \in Numbers /\ k.id[2] \in Numbers
  BY IdType DEF Calls
<1>4. ASSUME NEW n \in Numbers, NEW v, vs[n] # None, Agrees(vs, sh, n, v)
      PROVE  Agrees(vs1, sh1, n, v)
  BY <1>4 DEF Agrees, Grows
<1>5. k.op # "create" =>
        /\ k.record.base \in Numbers /\ k.record.candidate \in Numbers
        /\ vs[k.record.base] # None /\ vs[k.record.candidate] # None
  BY <1>1, <1>2 DEF Resolves, Experiments
<1> QED
  BY <1>2, <1>3, <1>4, <1>5 DEF Holds, Grows

\* Earned versions stay earned: they keep the parameters they passed with.
LEMMA EarnedStays ==
  ASSUME passed \subseteq passed', shared \subseteq shared',
         \A n \in Numbers : versions[n] # None =>
            versions'[n] # None /\ (n \notin shared' => versions'[n].params = versions[n].params)
  PROVE  Grows(versions, versions', Earned, Earned', shared, shared')
BY DEF Grows, Earned, Stored

\* Nothing is stored at first.
LEMMA InitIInv == Init => IInv
BY DEF Init, IInv, TypeOK, ActiveIsEarned, Active, StoredResolve, CallsHold, Stored, Earned

(***************************************************************************)
(* One lemma per operation: what the call that takes a step holds after it  *)
(***************************************************************************)
\* The part of the invariant that a step of c can disturb: its own call, and the
\* file it writes.
StepOK(c) ==
    /\ TypeOK'
    /\ Grows(versions, versions', Earned, Earned', shared, shared')
    /\ ActiveIsEarned'
    /\ \A id \in Ids : experiments'[id] # experiments[id] =>
          Resolves(versions', Earned', experiments'[id])
    /\ \A d \in Callers : d # c => call'[d] = call[d]
    /\ call'[c] # None => Holds(versions', Earned', shared', call'[c])

\* A step that only moves its call.
LEMMA MovesOnly ==
  ASSUME IInv, NEW c \in Callers, NEW k \in Calls \cup {None},
         k # None => Holds(versions, Earned, shared, k),
         call' = [call EXCEPT ![c] = k], UNCHANGED <<versions, experiments, runs, passed, shared>>
  PROVE  StepOK(c)
BY DEF IInv, StepOK, Grows, TypeOK, ActiveIsEarned, Active, Stored, Earned

\* A step that writes a version file: an ACTIVE one only where that is earned.
LEMMA WritesVersion ==
  ASSUME IInv, NEW c \in Callers, NEW k \in Calls \cup {None},
         NEW n \in Numbers, NEW v \in Versions,
         v.status = "ACTIVE" => n \in {1} \cup Earned',
         passed \subseteq passed', passed' \subseteq Numbers \X (Requests \cup {None}),
         shared \subseteq shared', shared' \subseteq Numbers,
         versions[n] # None /\ n \notin shared' => v.params = versions[n].params,
         versions' = [versions EXCEPT ![n] = v], UNCHANGED <<experiments, runs>>,
         call' = [call EXCEPT ![c] = k], k # None => Holds(versions', Earned', shared', k)
  PROVE  StepOK(c)
<1>1. TypeOK'
  BY DEF IInv, TypeOK
<1>3. Grows(versions, versions', Earned, Earned', shared, shared')
  BY LifecycleAssumption, EarnedStays DEF IInv, TypeOK
<1>2. ActiveIsEarned'
  BY <1>3 DEF IInv, TypeOK, ActiveIsEarned, Active, Stored, Grows
<1> QED
  BY <1>1, <1>2, <1>3 DEF StepOK, IInv, TypeOK

\* The versions and the passed ones grow when a version is written, so that what
\* was good for a call is good for it afterwards.
LEMMA WriteGrows ==
  ASSUME TypeOK, NEW n \in Numbers, NEW v \in Versions,
         versions' = [versions EXCEPT ![n] = v], passed \subseteq passed',
         shared \subseteq shared',
         versions[n] # None /\ n \notin shared' => v.params = versions[n].params
  PROVE  /\ Grows(versions, versions', Earned, Earned', shared, shared')
         /\ versions'[n] = v /\ v # None
BY LifecycleAssumption, EarnedStays DEF TypeOK

\* A step that writes an experiment file.
LEMMA WritesExperiment ==
  ASSUME IInv, NEW c \in Callers, NEW k \in Calls \cup {None},
         NEW id \in Ids, NEW x \in Experiments, Resolves(versions, Earned, x),
         experiments' = [experiments EXCEPT ![id] = x], UNCHANGED <<versions, runs, passed, shared>>,
         call' = [call EXCEPT ![c] = k], k # None => Holds(versions, Earned, shared, k)
  PROVE  StepOK(c)
BY DEF IInv, StepOK, Grows, TypeOK, ActiveIsEarned, Active, Stored, Earned

LEMMA InitializeOK ==
  ASSUME IInv, NEW c \in Callers, Initialize(c)
  PROVE  StepOK(c)
<1>1. [params |-> None, status |-> "ACTIVE", source |-> None] \in Versions
  BY DEF Versions
<1>2. 1 \in Numbers
  BY LifecycleAssumption DEF Numbers
<1>3. Grows(versions, versions', Earned, Earned', shared, shared')
  BY EarnedStays DEF Initialize, Stored
<1> QED
  BY <1>1, <1>2, <1>3, LifecycleAssumption DEF Initialize, SaveVersion, StepOK, IInv, TypeOK,
     ActiveIsEarned, Active, Stored

LEMMA CreateOK ==
  ASSUME IInv, NEW c \in Callers,
         \/ \E request \in Requests : Create(c, request)
         \/ TestVersion(c) \/ WriteVersion(c) \/ TestExperiment(c) \/ WriteExperiment(c)
  PROVE  StepOK(c)
<1> DEFINE CreateCalls == [op : {"create"}, id : Ids, n : Numbers,
             at : {"version", "write version", "experiment", "write experiment"}]
<1>1. ASSUME NEW request \in Requests, Create(c, request) PROVE StepOK(c)
  <2>1. PICK champion \in Active :
         call' = [call EXCEPT ![c] =
            [op |-> "create", id |-> <<request, champion>>, n |-> NextNumber, at |-> "version"]]
    BY <1>1 DEF Create
  <2> DEFINE k == [op |-> "create", id |-> <<request, champion>>, n |-> NextNumber, at |-> "version"]
  <2>2. champion \in Numbers /\ versions[champion] # None /\ NextNumber \in Numbers
    BY <1>1 DEF Create, Active, Stored
  <2>3. <<request, champion>> \in Ids /\ <<request, champion>>[2] = champion
    BY <2>2 DEF Ids
  <2>4. k \in Calls
    BY <2>2, <2>3 DEF Calls
  <2>5. Holds(versions, Earned, shared, k)
    BY <2>2, <2>3 DEF Holds
  <2> QED
    BY <1>1, <2>1, <2>4, <2>5, MovesOnly DEF Create
<1>2. ASSUME call[c] # None, call[c].op = "create"
      PROVE  call[c] \in CreateCalls /\ Holds(versions, Earned, shared, call[c])
  BY <1>2, CallType DEF IInv, CallsHold
<1>3. ASSUME NEW at \in {"version", "write version", "experiment", "write experiment"},
             call[c] # None, call[c].op = "create"
      PROVE  /\ [call[c] EXCEPT !.at = at] \in Calls
             /\ [call EXCEPT ![c].at = at] = [call EXCEPT ![c] = [call[c] EXCEPT !.at = at]]
  BY <1>2, <1>3 DEF Calls, IInv, TypeOK
<1>4. CASE TestVersion(c)
  <2>1. CASE Ends(c)
    BY <1>4, <2>1, MovesOnly DEF TestVersion, Ends
  <2>2. CASE Goes(c, "write version")
    <3> DEFINE k == [call[c] EXCEPT !.at = "write version"]
    <3>1. k \in Calls /\ call' = [call EXCEPT ![c] = k]
      BY <1>3, <1>4, <2>2 DEF TestVersion, Goes
    <3>2. Holds(versions, Earned, shared, k)
      BY <1>2, <1>4 DEF TestVersion, Holds
    <3> QED
      BY <1>4, <3>1, <3>2, MovesOnly DEF TestVersion
  <2> QED
    BY <1>4, <2>1, <2>2 DEF TestVersion
<1>5. CASE WriteVersion(c)
  <2> DEFINE k == [call[c] EXCEPT !.at = "experiment"]
             v == [params |-> call[c].id[1], status |-> "CHALLENGER", source |-> call[c].id]
  <2>1. k \in Calls /\ call' = [call EXCEPT ![c] = k]
    BY <1>3, <1>5 DEF WriteVersion, Goes
  <2>2. /\ v \in Versions /\ v.status # "ACTIVE" /\ call[c].n \in Numbers
        /\ versions' = [versions EXCEPT ![call[c].n] = v] /\ passed' = passed
        /\ passed \subseteq Numbers \X (Requests \cup {None}) /\ call[c].id[2] \in Numbers
        /\ shared \subseteq shared' /\ shared' \subseteq Numbers
        /\ versions[call[c].n] # None => call[c].n \in shared'
    BY <1>2, <1>5, IdType DEF WriteVersion, SaveVersion, Versions, IInv, TypeOK, Stored
  <2>3. Grows(versions, versions', Earned, Earned', shared, shared') /\ versions'[call[c].n] # None
    BY <2>2, WriteGrows DEF IInv
  <2>4. Holds(versions', Earned', shared', k)
    BY <1>2, <1>5, <2>2, <2>3 DEF WriteVersion, Holds, Grows
  <2> HIDE DEF k, v
  <2> QED
    BY <1>5, <2>1, <2>2, <2>4, WritesVersion DEF WriteVersion
<1>6. CASE TestExperiment(c)
  <2>1. CASE Ends(c)
    BY <1>6, <2>1, MovesOnly DEF TestExperiment, Ends
  <2>2. CASE Goes(c, "write experiment")
    <3> DEFINE k == [call[c] EXCEPT !.at = "write experiment"]
    <3>1. k \in Calls /\ call' = [call EXCEPT ![c] = k]
      BY <1>3, <1>6, <2>2 DEF TestExperiment, Goes
    <3>2. Holds(versions, Earned, shared, k)
      BY <1>2, <1>6 DEF TestExperiment, Holds
    <3> QED
      BY <1>6, <3>1, <3>2, MovesOnly DEF TestExperiment
  <2> QED
    BY <1>6, <2>1, <2>2 DEF TestExperiment
<1>7. CASE WriteExperiment(c)
  <2> DEFINE x == [base |-> call[c].id[2], candidate |-> call[c].n,
                   status |-> "DRAFT", approved |-> FALSE]
  <2>1. /\ x \in Experiments /\ call[c].id \in Ids
        /\ experiments' = [experiments EXCEPT ![call[c].id] = x]
    BY <1>2, <1>7, IdType DEF WriteExperiment, SaveExperiment, Experiments
  <2>2. Resolves(versions, Earned, x)
    BY <1>2, <1>7 DEF WriteExperiment, Holds, Resolves
  <2> HIDE DEF x
  <2> QED
    BY <1>7, <2>1, <2>2, WritesExperiment DEF WriteExperiment, Ends
<1> QED
  BY <1>1, <1>4, <1>5, <1>6, <1>7

\* What a call reads of an experiment resolves.
LEMMA ReadResolves ==
  ASSUME IInv, NEW id \in Ids, Stored(experiments, id)
  PROVE  /\ experiments[id] \in Experiments /\ Resolves(versions, Earned, experiments[id])
         /\ versions[experiments[id].base] \in Versions
         /\ versions[experiments[id].candidate] \in Versions
<1>1. experiments[id] \in Experiments /\ Resolves(versions, Earned, experiments[id])
  BY DEF IInv, TypeOK, StoredResolve, Stored
<1> QED
  BY <1>1 DEF IInv, TypeOK, Resolves, Experiments

LEMMA ReadyOK ==
  ASSUME IInv, NEW c \in Callers, (\E id \in Ids : MarkReady(c, id)) \/ WriteReady(c)
  PROVE  StepOK(c)
<1>1. ASSUME NEW id \in Ids, MarkReady(c, id) PROVE StepOK(c)
  <2> DEFINE k == [op |-> "ready", id |-> id, at |-> "write", record |-> experiments[id]]
  <2>1. k \in Calls /\ Holds(versions, Earned, shared, k)
    BY <1>1, ReadResolves DEF MarkReady, Calls, Holds
  <2> HIDE DEF k
  <2> QED
    BY <1>1, <2>1, MovesOnly DEF MarkReady, k
<1>2. CASE WriteReady(c)
  <2> DEFINE x == WithStatus(call[c].record, "READY")
  <2>1. call[c].record \in Experiments /\ call[c].id \in Ids
    BY <1>2, CallType DEF WriteReady, IInv
  <2>2. Resolves(versions, Earned, call[c].record)
    BY <1>2 DEF WriteReady, IInv, CallsHold, Holds
  <2>3. x \in Experiments /\ Resolves(versions, Earned, x)
    BY <2>1, <2>2, WithStatusType DEF Resolves
  <2> HIDE DEF x
  <2> QED
    BY <1>2, <2>1, <2>3, WritesExperiment DEF WriteReady, SaveExperiment, Ends, x
<1> QED
  BY <1>1, <1>2

LEMMA RunOK ==
  ASSUME IInv, NEW c \in Callers,
         \/ \E id \in Ids : Run(c, id)
         \/ WriteRunning(c) \/ Load(c) \/ TestRun(c) \/ WriteRun(c)
         \/ Evaluate(c) \/ FinishRun(c) \/ FailRun(c)
  PROVE  StepOK(c)
<1> DEFINE Places == {"write", "load", "test", "save", "evaluate", "failed",
                      "CANDIDATE", "REJECTED"}
           RunCalls == [op : {"run"}, id : Ids, record : Experiments, run : 1..4,
                        challenger : Versions \cup {None}, at : Places]
<1>1. ASSUME NEW id \in Ids, Run(c, id) PROVE StepOK(c)
  <2> DEFINE x == WithStatus(experiments[id], "RUNNING")
             k == [op |-> "run", id |-> id, at |-> "write", record |-> x,
                   challenger |-> None, run |-> 1]
  <2>1. x \in Experiments /\ x.status = "RUNNING" /\ Resolves(versions, Earned, x)
    BY <1>1, ReadResolves, WithStatusType DEF Run, Resolves
  <2> HIDE DEF x
  <2>2. k \in RunCalls
    BY <2>1
  <2>3. k \in Calls
    BY <2>2 DEF Calls
  <2>4. Holds(versions, Earned, shared, k)
    BY <2>1 DEF Holds
  <2> HIDE DEF k
  <2> QED
    BY <1>1, <2>3, <2>4, MovesOnly DEF Run, k, x
<1>2. ASSUME call[c] # None, call[c].op = "run"
      PROVE  /\ call[c] \in RunCalls /\ Holds(versions, Earned, shared, call[c])
             /\ Resolves(versions, Earned, call[c].record)
             /\ call[c].record.candidate \in Numbers
             /\ versions[call[c].record.candidate] \in Versions
  <2>1. call[c] \in RunCalls /\ Holds(versions, Earned, shared, call[c])
    BY <1>2, CallType DEF IInv, CallsHold
  <2>2. Resolves(versions, Earned, call[c].record)
    BY <1>2, <2>1 DEF Holds
  <2> QED
    BY <2>1, <2>2 DEF Resolves, Experiments, IInv, TypeOK
<1>3. ASSUME NEW at \in Places, call[c] # None, call[c].op = "run"
      PROVE  /\ [call[c] EXCEPT !.at = at] \in Calls
             /\ [call EXCEPT ![c].at = at] = [call EXCEPT ![c] = [call[c] EXCEPT !.at = at]]
  <2>1. [call[c] EXCEPT !.at = at] \in RunCalls
    BY <1>2, <1>3
  <2> QED
    BY <2>1 DEF Calls, IInv, TypeOK
<1>4. CASE WriteRunning(c)
  <2> DEFINE k == [call[c] EXCEPT !.at = "load"]
  <2>1. k \in Calls /\ call' = [call EXCEPT ![c] = k]
    BY <1>3, <1>4 DEF WriteRunning, Goes
  <2>2. Holds(versions, Earned, shared, k)
    BY <1>2, <1>4 DEF WriteRunning, Holds
  <2> HIDE DEF k
  <2> QED
    BY <1>2, <1>4, <2>1, <2>2, WritesExperiment DEF WriteRunning, SaveExperiment
<1>5. CASE Load(c)
  <2>1. PICK at \in {"test", "failed"} :
         call' = [call EXCEPT ![c].at = at,
                              ![c].challenger = versions[call[c].record.candidate]]
    BY <1>5 DEF Load
  <2> DEFINE v == versions[call[c].record.candidate]
             k == [call[c] EXCEPT !.at = at, !.challenger = v]
  <2>2. /\ v \in Versions /\ v # None
        /\ Agrees(versions, shared, call[c].record.candidate, v)
    BY <1>2, <1>5, LifecycleAssumption DEF Load, Agrees
  <2> HIDE DEF v
  <2>3. call[c] \in RunCalls /\ Holds(versions, Earned, shared, call[c])
    BY <1>2, <1>5 DEF Load
  <2>4. /\ k \in RunCalls /\ k.record = call[c].record /\ k.at = at /\ k.challenger = v
        /\ k.run = call[c].run
    BY <2>2, <2>3
  <2>5. Holds(versions, Earned, shared, k)
    BY <1>5, <2>2, <2>3, <2>4 DEF Load, Holds
  <2>6. call' = [call EXCEPT ![c] = k]
    BY <2>1 DEF v, IInv, TypeOK
  <2> HIDE DEF k
  <2>7. k \in Calls
    BY <2>4 DEF Calls
  <2> QED
    BY <1>5, <2>5, <2>6, <2>7, MovesOnly DEF Load
<1>6. CASE TestRun(c)
  <2>1. PICK at \in {"save", "failed"} : Goes(c, at)
    BY <1>6 DEF TestRun
  <2> DEFINE k == [call[c] EXCEPT !.at = at]
  <2>2. k \in Calls /\ call' = [call EXCEPT ![c] = k]
    BY <1>3, <1>6, <2>1 DEF TestRun, Goes
  <2>3. Holds(versions, Earned, shared, k)
    BY <1>2, <1>6 DEF TestRun, Holds
  <2> HIDE DEF k
  <2> QED
    BY <1>6, <2>2, <2>3, MovesOnly DEF TestRun
<1>7. CASE WriteRun(c)
  <2>1. /\ call[c] \in RunCalls /\ call[c].run \in 1..3 /\ Holds(versions, Earned, shared, call[c])
        /\ call[c].challenger # None
    BY <1>2, <1>7 DEF WriteRun, Holds
  <2> DEFINE at == IF RunAt(c) = "validation" THEN "evaluate" ELSE "test"
             k == [call[c] EXCEPT !.run = @ + 1, !.at = at]
  <2>2. /\ RunAt(c) \in {Runs[i] : i \in 1..3}
        /\ RunAt(c) # "validation" => call[c].run \in 1..2
    BY <2>1 DEF RunAt, Runs
  <2>3. /\ at \in {"evaluate", "test"} /\ call[c].run + 1 \in 1..4
        /\ at = "test" => call[c].run + 1 \in 1..3
    BY <2>1, <2>2
  <2> HIDE DEF at
  <2>4. /\ k \in RunCalls /\ k.at = at /\ k.run = call[c].run + 1
        /\ k.record = call[c].record /\ k.challenger = call[c].challenger
    BY <2>1, <2>3
  <2>5. Holds(versions, Earned, shared, k)
    BY <2>1, <2>3, <2>4 DEF Holds
  <2>6. call' = [call EXCEPT ![c] = k]
    BY <1>7 DEF WriteRun, at, IInv, TypeOK
  <2>7. k \in Calls
    BY <2>4 DEF Calls
  <2> HIDE DEF k
  <2>8. TypeOK'
    <3>1. runs' \in [Ids -> SUBSET {Runs[i] : i \in 1..3}]
      BY <1>7, <2>1, <2>2 DEF WriteRun, IInv, TypeOK
    <3> QED
      BY <1>7, <2>6, <2>7, <3>1 DEF WriteRun, IInv, TypeOK
  <2>9. UNCHANGED <<versions, experiments, passed, shared>>
    BY <1>7 DEF WriteRun
  <2>10. ActiveIsEarned' /\ (shared \subseteq shared')
    BY <2>9 DEF IInv, ActiveIsEarned, Active, Stored, Earned
  <2>11. Grows(versions, versions', Earned, Earned', shared, shared')
    BY <2>9 DEF Grows, Earned, IInv, TypeOK
  <2>12. /\ \A d \in Callers : d # c => call'[d] = call[d]
         /\ call'[c] = k
    BY <2>6 DEF IInv, TypeOK
  <2>13. Holds(versions', Earned', shared', k)
    BY <2>5, <2>9 DEF Earned
  <2> QED
    BY <2>8, <2>9, <2>10, <2>11, <2>12, <2>13 DEF StepOK
<1>8. CASE Evaluate(c)
  <2> DEFINE n == call[c].record.candidate
             w == call[c].challenger
  <2>1. PICK outcome \in {"CANDIDATE", "REJECTED"} :
         /\ SaveVersion(n, WithStatus(w, outcome))
         /\ passed' = IF outcome = "CANDIDATE" THEN passed \cup {<<n, w.params>>} ELSE passed
         /\ Goes(c, outcome)
    BY <1>8 DEF Evaluate
  <2> DEFINE k == [call[c] EXCEPT !.at = outcome]
             v == WithStatus(w, outcome)
  <2>2. /\ call[c] \in RunCalls /\ n \in Numbers /\ w \in Versions
        /\ Agrees(versions, shared, n, w)
    BY <1>2, <1>8 DEF Evaluate, Holds
  <2>3. k \in Calls /\ call' = [call EXCEPT ![c] = k]
    BY <1>3, <1>8, <2>1 DEF Evaluate, Goes
  <2>4. /\ v \in Versions /\ v.status # "ACTIVE" /\ versions' = [versions EXCEPT ![n] = v]
        /\ v.params = w.params /\ w.params \in Requests \cup {None}
        /\ passed \subseteq passed' /\ shared' = shared /\ shared \subseteq Numbers
    <3>1. /\ v \in Versions /\ v.status # "ACTIVE" /\ v.params = w.params
      BY <2>1, <2>2, WithStatusType
    <3>2. w.params \in Requests \cup {None}
      BY <2>2 DEF Versions
    <3>3. versions' = [versions EXCEPT ![n] = v] /\ passed \subseteq passed'
      BY <2>1 DEF SaveVersion
    <3>4. shared' = shared /\ shared \subseteq Numbers
      BY <1>8 DEF Evaluate, IInv, TypeOK
    <3> QED
      BY <3>1, <3>2, <3>3, <3>4
  <2>9. passed' \subseteq Numbers \X (Requests \cup {None})
    BY <2>1, <2>2, <2>4 DEF IInv, TypeOK
  <2>10. n \notin shared' => v.params = versions[n].params
    BY <2>2, <2>4 DEF Agrees
  <2> HIDE DEF v
  <2>5. /\ Grows(versions, versions', Earned, Earned', shared, shared')
        /\ versions'[n] = v /\ v # None
    BY <2>2, <2>4, <2>10, WriteGrows DEF IInv
  <2>6. Holds(versions', Earned', shared', call[c])
    BY <1>2, <1>8, <2>2, <2>5, HoldsStays, CallType DEF Evaluate, IInv
  <2>11. outcome = "CANDIDATE" => n \in Earned'
    BY <2>1, <2>2, <2>4, <2>5 DEF Earned, Stored
  <2>7. Holds(versions', Earned', shared', k)
    BY <1>8, <2>2, <2>6, <2>11 DEF Evaluate, Holds
  <2> HIDE DEF k, n, w
  <2> QED
    BY <1>8, <2>2, <2>3, <2>4, <2>7, <2>9, <2>10, WritesVersion DEF Evaluate
<1>9. CASE FinishRun(c)
  <2> DEFINE x == WithStatus(call[c].record, call[c].at)
  <2>1. call[c].id \in Ids /\ call[c].record \in Experiments
    BY <1>2, <1>9 DEF FinishRun
  <2>2. x \in Experiments /\ Resolves(versions, Earned, x)
    BY <1>2, <1>9, <2>1, WithStatusType DEF FinishRun, Resolves, Holds
  <2> HIDE DEF x
  <2> QED
    BY <1>9, <2>1, <2>2, WritesExperiment DEF FinishRun, SaveExperiment, Ends, x
<1>10. CASE FailRun(c)
  <2> DEFINE x == WithStatus(call[c].record, "FAILED")
  <2>1. call[c].id \in Ids /\ call[c].record \in Experiments
    BY <1>2, <1>10 DEF FailRun
  <2>2. x \in Experiments /\ Resolves(versions, Earned, x)
    BY <1>2, <1>10, <2>1, WithStatusType DEF FailRun, Resolves
  <2> HIDE DEF x
  <2> QED
    BY <1>10, <2>1, <2>2, WritesExperiment DEF FailRun, SaveExperiment, Ends, x
<1> QED
  BY <1>1, <1>4, <1>5, <1>6, <1>7, <1>8, <1>9, <1>10

LEMMA PromoteOK ==
  ASSUME IInv, NEW c \in Callers,
         (\E id \in Ids : Promote(c, id)) \/ Retire(c) \/ Activate(c) \/ MarkPromoted(c)
  PROVE  StepOK(c)
<1> DEFINE PromoteCalls == [op : {"promote"}, id : Ids, record : Experiments, champion : Versions,
                            challenger : Versions, at : {"retire", "activate", "mark"}]
<1>1. ASSUME NEW id \in Ids, Promote(c, id) PROVE StepOK(c)
  <2> DEFINE k == [op |-> "promote", id |-> id, at |-> "retire", record |-> experiments[id],
                   champion |-> versions[experiments[id].base],
                   challenger |-> versions[experiments[id].candidate]]
  <2>1. k \in PromoteCalls
    BY <1>1, ReadResolves DEF Promote
  <2>2. k \in Calls
    BY <2>1 DEF Calls
  <2>3. Holds(versions, Earned, shared, k)
    BY <1>1, ReadResolves DEF Promote, Holds, Resolves, Agrees
  <2> HIDE DEF k
  <2> QED
    BY <1>1, <2>2, <2>3, MovesOnly DEF Promote, k
<1>2. ASSUME call[c] # None, call[c].op = "promote"
      PROVE  /\ call[c] \in PromoteCalls /\ call[c] \in Calls
             /\ Holds(versions, Earned, shared, call[c])
             /\ Resolves(versions, Earned, call[c].record)
             /\ call[c].record.candidate \in Earned
             /\ Agrees(versions, shared, call[c].record.base, call[c].champion)
             /\ Agrees(versions, shared, call[c].record.candidate, call[c].challenger)
             /\ call[c].record.base \in Numbers /\ call[c].record.candidate \in Numbers
  <2>1. /\ call[c] \in PromoteCalls /\ call[c] \in Calls
        /\ Holds(versions, Earned, shared, call[c])
    BY <1>2, CallType DEF IInv, CallsHold
  <2> QED
    BY <1>2, <2>1 DEF Holds, Experiments
<1>3. ASSUME NEW at \in {"retire", "activate", "mark"}, call[c] # None, call[c].op = "promote"
      PROVE  /\ [call[c] EXCEPT !.at = at] \in Calls
             /\ [call EXCEPT ![c].at = at] = [call EXCEPT ![c] = [call[c] EXCEPT !.at = at]]
  <2>1. [call[c] EXCEPT !.at = at] \in PromoteCalls
    BY <1>2, <1>3
  <2> QED
    BY <2>1 DEF Calls, IInv, TypeOK
<1>4. CASE Retire(c)
  <2> DEFINE k == [call[c] EXCEPT !.at = "activate"]
             v == WithStatus(call[c].champion, "RETIRED")
             n == call[c].record.base
  <2>1. k \in Calls /\ call' = [call EXCEPT ![c] = k]
    BY <1>3, <1>4 DEF Retire, Goes
  <2>2. /\ v \in Versions /\ v.status # "ACTIVE" /\ n \in Numbers
        /\ versions' = [versions EXCEPT ![n] = v] /\ passed' = passed /\ shared' = shared
        /\ passed \subseteq Numbers \X (Requests \cup {None}) /\ shared \subseteq Numbers
        /\ n \notin shared => v.params = versions[n].params
    BY <1>2, <1>4, WithStatusType DEF Retire, SaveVersion, IInv, TypeOK, Agrees
  <2> HIDE DEF v
  <2>3. Grows(versions, versions', Earned, Earned', shared, shared')
    BY <2>2, WriteGrows DEF IInv
  <2>4. Holds(versions', Earned', shared', call[c])
    BY <1>2, <1>4, <2>3, HoldsStays DEF Retire
  <2>5. Holds(versions', Earned', shared', k)
    BY <1>2, <1>4, <2>4 DEF Retire, Holds
  <2> HIDE DEF k, n
  <2> QED
    BY <1>4, <2>1, <2>2, <2>5, WritesVersion DEF Retire
<1>5. CASE Activate(c)
  <2> DEFINE k == [call[c] EXCEPT !.at = "mark"]
             v == WithStatus(call[c].challenger, "ACTIVE")
             n == call[c].record.candidate
  <2>1. k \in Calls /\ call' = [call EXCEPT ![c] = k]
    BY <1>3, <1>5 DEF Activate, Goes
  <2>2. /\ v \in Versions /\ n \in Earned /\ n \in Numbers
        /\ versions' = [versions EXCEPT ![n] = v] /\ passed' = passed /\ shared' = shared
        /\ passed \subseteq Numbers \X (Requests \cup {None}) /\ shared \subseteq Numbers
        /\ n \notin shared => v.params = versions[n].params
    BY <1>2, <1>5, WithStatusType DEF Activate, SaveVersion, IInv, TypeOK, Agrees
  <2> HIDE DEF v
  <2>3. Grows(versions, versions', Earned, Earned', shared, shared')
    BY <2>2, WriteGrows DEF IInv
  <2>4. Holds(versions', Earned', shared', call[c])
    BY <1>2, <1>5, <2>3, HoldsStays DEF Activate
  <2>5. Holds(versions', Earned', shared', k)
    BY <1>2, <1>5, <2>4 DEF Activate, Holds
  <2>6. n \in Earned'
    BY <2>2, <2>3 DEF Grows
  <2> HIDE DEF k, n
  <2> QED
    BY <1>5, <2>1, <2>2, <2>5, <2>6, WritesVersion DEF Activate
<1>6. CASE MarkPromoted(c)
  <2> DEFINE x == [call[c].record EXCEPT !.status = "PROMOTED", !.approved = TRUE]
  <2>1. call[c].id \in Ids /\ call[c].record \in Experiments
    BY <1>2, <1>6 DEF MarkPromoted
  <2>2. /\ x \in Experiments /\ x.base = call[c].record.base
        /\ x.candidate = call[c].record.candidate /\ x.status = "PROMOTED"
    BY <2>1 DEF Experiments
  <2> HIDE DEF x
  <2>3. Resolves(versions, Earned, x)
    BY <1>2, <1>6, <2>2 DEF MarkPromoted, Resolves
  <2> QED
    BY <1>6, <2>1, <2>2, <2>3, WritesExperiment DEF MarkPromoted, SaveExperiment, Ends, x
<1> QED
  BY <1>1, <1>4, <1>5, <1>6

LEMMA RejectOK ==
  ASSUME IInv, NEW c \in Callers,
         (\E id \in Ids : Reject(c, id)) \/ RejectVersion(c) \/ RejectExperiment(c)
  PROVE  StepOK(c)
<1> DEFINE RejectCalls == [op : {"reject"}, id : Ids, record : Experiments, challenger : Versions,
                           at : {"version", "experiment"}]
<1>1. ASSUME NEW id \in Ids, Reject(c, id) PROVE StepOK(c)
  <2> DEFINE k == [op |-> "reject", id |-> id, at |-> "version", record |-> experiments[id],
                   challenger |-> versions[experiments[id].candidate]]
  <2>1. k \in RejectCalls
    BY <1>1, ReadResolves DEF Reject
  <2>2. k \in Calls
    BY <2>1 DEF Calls
  <2>3. Holds(versions, Earned, shared, k)
    BY <1>1, ReadResolves DEF Reject, Holds, Agrees
  <2> HIDE DEF k
  <2> QED
    BY <1>1, <2>2, <2>3, MovesOnly DEF Reject, k
<1>2. ASSUME call[c] # None, call[c].op = "reject"
      PROVE  /\ call[c] \in RejectCalls /\ call[c] \in Calls
             /\ Holds(versions, Earned, shared, call[c])
             /\ Resolves(versions, Earned, call[c].record)
             /\ Agrees(versions, shared, call[c].record.candidate, call[c].challenger)
             /\ call[c].record.candidate \in Numbers
  <2>1. /\ call[c] \in RejectCalls /\ call[c] \in Calls
        /\ Holds(versions, Earned, shared, call[c])
    BY <1>2, CallType DEF IInv, CallsHold
  <2> QED
    BY <1>2, <2>1 DEF Holds, Experiments
<1>3. CASE RejectVersion(c)
  <2> DEFINE k == [call[c] EXCEPT !.at = "experiment"]
             v == WithStatus(call[c].challenger, "REJECTED")
             n == call[c].record.candidate
  <2>0. k \in RejectCalls
    BY <1>2, <1>3 DEF RejectVersion
  <2>1. k \in Calls /\ call' = [call EXCEPT ![c] = k]
    BY <1>3, <2>0 DEF RejectVersion, Goes, Calls, IInv, TypeOK
  <2>2. /\ v \in Versions /\ v.status # "ACTIVE" /\ n \in Numbers
        /\ versions' = [versions EXCEPT ![n] = v] /\ passed' = passed /\ shared' = shared
        /\ passed \subseteq Numbers \X (Requests \cup {None}) /\ shared \subseteq Numbers
        /\ n \notin shared => v.params = versions[n].params
    BY <1>2, <1>3, WithStatusType DEF RejectVersion, SaveVersion, IInv, TypeOK, Agrees
  <2> HIDE DEF v
  <2>3. Grows(versions, versions', Earned, Earned', shared, shared')
    BY <2>2, WriteGrows DEF IInv
  <2>4. Holds(versions', Earned', shared', call[c])
    BY <1>2, <1>3, <2>3, HoldsStays DEF RejectVersion
  <2>5. Holds(versions', Earned', shared', k)
    BY <1>2, <1>3, <2>4 DEF RejectVersion, Holds
  <2> HIDE DEF k, n
  <2> QED
    BY <1>3, <2>1, <2>2, <2>5, WritesVersion DEF RejectVersion
<1>4. CASE RejectExperiment(c)
  <2> DEFINE x == WithStatus(call[c].record, "REJECTED")
  <2>1. call[c].id \in Ids /\ call[c].record \in Experiments
    BY <1>2, <1>4 DEF RejectExperiment
  <2>2. x \in Experiments /\ Resolves(versions, Earned, x)
    BY <1>2, <1>4, <2>1, WithStatusType DEF RejectExperiment, Resolves
  <2> HIDE DEF x
  <2> QED
    BY <1>4, <2>1, <2>2, WritesExperiment DEF RejectExperiment, SaveExperiment, Ends, x
<1> QED
  BY <1>1, <1>3, <1>4

(***************************************************************************)
(* The theorems                                                             *)
(***************************************************************************)
\* A step of one caller keeps the invariant for everybody.
LEMMA StepKeeps ==
  ASSUME IInv, NEW c \in Callers, StepOK(c)
  PROVE  IInv'
<1>1. TypeOK' /\ ActiveIsEarned' /\ Grows(versions, versions', Earned, Earned', shared, shared')
  BY DEF StepOK
<1>2. StoredResolve'
  <2> SUFFICES ASSUME NEW id \in Ids, experiments'[id] # None
               PROVE  Resolves(versions', Earned', experiments'[id])
    BY DEF StoredResolve, Stored
  <2>1. CASE experiments'[id] = experiments[id]
    BY <1>1, <2>1, ReadResolves, ResolvesStays DEF Stored
  <2>2. CASE experiments'[id] # experiments[id]
    BY <2>2 DEF StepOK
  <2> QED
    BY <2>1, <2>2
<1>3. CallsHold'
  <2> SUFFICES ASSUME NEW d \in Callers, call'[d] # None
               PROVE  Holds(versions', Earned', shared', call'[d])
    BY DEF CallsHold
  <2>1. CASE d = c
    BY <2>1 DEF StepOK
  <2>2. CASE d # c
    <3>1. call'[d] = call[d]
      BY <2>2 DEF StepOK
    <3>2. call[d] \in Calls /\ Holds(versions, Earned, shared, call[d])
      BY <3>1 DEF IInv, TypeOK, CallsHold
    <3> QED
      BY <1>1, <3>1, <3>2, HoldsStays
  <2> QED
    BY <2>1, <2>2
<1> QED
  BY <1>1, <1>2, <1>3 DEF IInv

LEMMA InvStep == IInv /\ [Next]_vars => IInv'
<1> SUFFICES ASSUME IInv, [Next]_vars PROVE IInv'
  OBVIOUS
<1>1. CASE Crash
  BY <1>1 DEF Crash, IInv, TypeOK, ActiveIsEarned, Active, StoredResolve, Stored, CallsHold,
     Earned
<1>2. CASE UNCHANGED vars
  BY <1>2 DEF vars, IInv, TypeOK, ActiveIsEarned, Active, StoredResolve, Stored, CallsHold,
     Earned
<1>3. CASE \E c \in Callers : StepOK(c)
  BY <1>3, StepKeeps
<1> QED
  BY <1>1, <1>2, <1>3, InitializeOK, CreateOK, ReadyOK, RunOK, PromoteOK, RejectOK DEF Next

LEMMA InvAlways == Spec => []IInv
BY InitIInv, InvStep, PTL DEF Spec

\* A version that trades is the first one or one that passed with the parameters it
\* has: no overlap of run, promote and reject and no crash between their writes
\* activates other parameters, unless two creations wrote one number.
THEOREM ActiveVersionsAreEarned == Spec => []ActiveIsEarned
<1>1. IInv => ActiveIsEarned
  BY DEF IInv
<1> QED
  BY <1>1, InvAlways, PTL

\* create_experiment writes the challenger before the experiment that names it,
\* and no call removes a version: the names in an experiment file resolve.
THEOREM ReferencesAlwaysResolve == Spec => []ReferencesResolve
<1>1. IInv => ReferencesResolve
  BY DEF IInv, StoredResolve, Resolves, ReferencesResolve, Stored
<1> QED
  BY <1>1, InvAlways, PTL

-----------------------------------------------------------------------------
(***************************************************************************)
(* A shared file (SharedFile): what overlapping writers can do to it        *)
(***************************************************************************)
Places == {"no", "temporary", "published", "unlinked", "closed"}

IsContent(x) == x \in {Absent, Partial, Torn} \/ (IsIntact(x) /\ x = Intact(Within(x)))

\* A file whose writers are at most those of W.  What was published is whole, if not by
\* writers that overlapped.  A writer that is alone finds its own temporary file, as
\* far as it has come, or none.
Sound(f, W) ==
    /\ f = [published |-> f.published, temporary |-> f.temporary, open |-> f.open,
            shared |-> f.shared]
    /\ f.open \in [W -> Places] /\ f.shared \in BOOLEAN
    /\ IsContent(f.published) /\ IsContent(f.temporary)
    /\ f.shared \/ f.published = Absent \/ IsIntact(f.published)
    /\ \A w \in W : f.open[w] = "temporary" => f.temporary # Absent
    /\ \A w \in W : f.open[w] # "no" /\ ~Others(f, w) =>
          \/ f.temporary = Absent
          \/ f.open[w] = "temporary" /\ f.temporary = Partial
          \/ f.open[w] = "closed" /\ IsIntact(f.temporary)
    /\ \A w \in W : f.open[w] \in {"published", "unlinked"} => f.shared
    /\ ~f.shared => \A w \in W : f.open[w] # "no" => ~Others(f, w)

\* The file, or the one that will replace it, holds v.
Keeps(f, v) == f.published = Intact(v) \/ f.temporary = Intact(v)

LEMMA ContentsDiffer ==
  /\ Partial # Absent /\ Torn # Absent /\ Partial # Torn
  /\ ~IsIntact(Absent) /\ ~IsIntact(Partial) /\ ~IsIntact(Torn)
  /\ \A v : /\ IsIntact(Intact(v)) /\ Within(Intact(v)) = v /\ IsContent(Intact(v))
            /\ Intact(v) \notin {Absent, Partial, Torn}
BY DEF Absent, Partial, Torn, Intact, IsIntact, Within, IsContent

LEMMA NewFileSound ==
  ASSUME NEW W
  PROVE  /\ Sound(NewFile(W), W) /\ NewFile(W).published = Absent
         /\ NewFile(W).open = [w \in W |-> "no"] /\ \A v : ~Keeps(NewFile(W), v)
BY ContentsDiffer DEF NewFile, Sound, IsContent, Places, Keeps

LEMMA EmptiedSound ==
  ASSUME NEW W, NEW f, NEW w \in W, Sound(f, W)
  PROVE  /\ Sound(Emptied(f, w), W) /\ Emptied(f, w).published = f.published
         /\ Emptied(f, w).open = [f.open EXCEPT ![w] = "temporary"]
         /\ \A v : Keeps(Emptied(f, w), v) => Keeps(f, v)
<1> DEFINE g == Emptied(f, w)
<1>1. /\ g = [published |-> f.published, temporary |-> Partial,
              open |-> [f.open EXCEPT ![w] = "temporary"], shared |-> f.shared \/ Others(f, w)]
  BY DEF Sound, Emptied
<1> HIDE DEF g
<1>2. \A o \in W : o # w => g.open[o] = f.open[o]
  BY <1>1 DEF Sound
<1>3. g.open[w] = "temporary" /\ g.open \in [W -> Places]
  BY <1>1 DEF Sound, Places
<1>4. Others(g, w) <=> Others(f, w)
  BY <1>2, <1>3 DEF Others, Sound
<1>5. \A o \in W : o # w => Others(g, o)
  BY <1>3 DEF Others
<1>6. ASSUME NEW o \in W, g.open[o] # "no", ~g.shared PROVE ~Others(g, o)
  <2>1. ~f.shared /\ ~Others(f, w)
    BY <1>1, <1>6 DEF Sound
  <2> QED BY <1>2, <1>4, <1>6, <2>1 DEF Others, Sound
<1>7. Sound(g, W)
  BY <1>1, <1>2, <1>3, <1>4, <1>5, <1>6, ContentsDiffer DEF Sound, IsContent
<1>8. \A v : Keeps(g, v) => Keeps(f, v)
  BY <1>1, ContentsDiffer DEF Keeps
<1> QED BY <1>1, <1>7, <1>8 DEF g

LEMMA FilledSound ==
  ASSUME NEW W, NEW f, NEW w \in W, Sound(f, W), IsOpen(f, w), NEW v, NEW x \in Written(f, w, v)
  PROVE  /\ Sound(Filled(f, w, x), W) /\ x \in {Intact(v), Torn}
         /\ Filled(f, w, x).published \in {f.published, x}
         /\ Filled(f, w, x).temporary \in {f.temporary, x}
         /\ Filled(f, w, x).open = [f.open EXCEPT ![w] = "closed"]
         /\ f.open[w] = "temporary" => Filled(f, w, x).temporary = x
<1> DEFINE g == Filled(f, w, x)
<1>1. /\ g = [published |-> IF f.open[w] = "published" THEN x ELSE f.published,
              temporary |-> IF f.open[w] = "temporary" THEN x ELSE f.temporary,
              open |-> [f.open EXCEPT ![w] = "closed"], shared |-> f.shared]
  BY DEF Sound, Filled
<1> HIDE DEF g
<1>2. \A o \in W : o # w => g.open[o] = f.open[o]
  BY <1>1 DEF Sound
<1>3. g.open[w] = "closed" /\ g.open \in [W -> Places]
  BY <1>1 DEF Sound, Places
<1>4. \A o \in W : Others(g, o) <=> Others(f, o)
  BY <1>2, <1>3 DEF Others, Sound, IsOpen
<1>5. x \in {Intact(v), Torn} /\ IsContent(x)
  BY ContentsDiffer DEF Written, IsContent
<1>6. ASSUME ~Others(f, w)
      PROVE  \/ g.temporary = Absent
             \/ IsIntact(g.temporary)
  <2>1. /\ f.open[w] \in {"temporary", "published", "unlinked"}
        /\ f.temporary = Absent \/ (f.open[w] = "temporary" /\ f.temporary = Partial)
    BY <1>6 DEF Sound, IsOpen
  <2>2. CASE f.open[w] = "temporary" /\ f.temporary = Partial
    <3>1. \A o \in W : o # w => f.open[o] # f.open[w]
      BY <1>6, <2>2 DEF Others, Sound
    <3>2. x = Intact(v)
      BY <2>2, <3>1 DEF Written, Sound
    <3> QED BY <1>1, <2>2, <3>2, ContentsDiffer
  <2>3. CASE f.open[w] # "temporary"
    BY <1>1, <2>1, <2>3
  <2>4. f.open[w] = "temporary" => f.temporary # Absent
    BY DEF Sound
  <2> QED BY <2>1, <2>2, <2>3, <2>4
<1>7. IsContent(g.published) /\ IsContent(g.temporary)
  BY <1>1, <1>5 DEF Sound
<1>8. g.shared \/ g.published = Absent \/ IsIntact(g.published)
  BY <1>1 DEF Sound
<1>9. \A o \in W : g.open[o] = "temporary" => g.temporary # Absent
  BY <1>1, <1>2, <1>3, <1>5, ContentsDiffer DEF Sound
<1>10. ASSUME NEW o \in W, g.open[o] # "no", ~Others(g, o)
       PROVE  \/ g.temporary = Absent
              \/ g.open[o] = "temporary" /\ g.temporary = Partial
              \/ g.open[o] = "closed" /\ IsIntact(g.temporary)
  <2>1. o = w
    BY <1>3, <1>10 DEF Others
  <2> QED BY <1>3, <1>4, <1>6, <1>10, <2>1
<1>11. \A o \in W : g.open[o] \in {"published", "unlinked"} => g.shared
  BY <1>1, <1>2, <1>3 DEF Sound
<1>12. ~g.shared => \A o \in W : g.open[o] # "no" => ~Others(g, o)
  BY <1>1, <1>2, <1>3, <1>4 DEF Sound, IsOpen
<1>13. Sound(g, W)
  <2>1. g = [published |-> g.published, temporary |-> g.temporary, open |-> g.open,
             shared |-> g.shared] /\ g.shared \in BOOLEAN
    BY <1>1 DEF Sound
  <2> QED BY <1>3, <1>7, <1>8, <1>9, <1>10, <1>11, <1>12, <2>1 DEF Sound
<1> QED BY <1>1, <1>5, <1>13 DEF g

LEMMA FilledKeeps ==
  ASSUME NEW f, NEW w, NEW v, NEW x \in {Intact(v), Torn}
  PROVE  \A u : Keeps(Filled(f, w, x), u) => Keeps(f, u) \/ u = v
BY DEF Filled, Keeps, Intact, Torn

LEMMA ReplacedSound ==
  ASSUME NEW W, NEW f, NEW w \in W, Sound(f, W), f.open[w] = "closed", f.temporary # Absent
  PROVE  /\ Sound(Replaced(f, w), W) /\ Replaced(f, w).published = f.temporary
         /\ Replaced(f, w).temporary = Absent
         /\ Replaced(f, w).open[w] = "no"
         /\ \A o \in W : f.open[o] = "no" => Replaced(f, w).open[o] = "no"
         /\ \A v : Keeps(Replaced(f, w), v) => Keeps(f, v)
<1> DEFINE g == Replaced(f, w)
<1>1. /\ g.published = f.temporary /\ g.temporary = Absent /\ g.shared = Others(f, w)
      /\ g = [published |-> g.published, temporary |-> g.temporary, open |-> g.open,
              shared |-> g.shared]
  BY DEF Replaced
<1>2. /\ g.open \in [W -> Places] /\ g.open[w] = "no"
      /\ \A o \in W : o # w => /\ g.open[o] # "temporary"
                               /\ g.open[o] = "no" <=> f.open[o] = "no"
  BY DEF Replaced, Sound, Places
<1> HIDE DEF g
<1>3. Others(f, w) \in BOOLEAN
  BY DEF Others
<1>4. ~Others(f, w) => IsIntact(f.temporary)
  BY DEF Sound
<1>5. ASSUME NEW o \in W, g.open[o] # "no" PROVE Others(f, w)
  BY <1>2, <1>5 DEF Others, Sound
<1>6. Sound(g, W)
  BY <1>1, <1>2, <1>3, <1>4, <1>5 DEF Sound, IsContent
<1>7. \A v : Keeps(g, v) => Keeps(f, v)
  BY <1>1, ContentsDiffer DEF Keeps
<1> QED BY <1>1, <1>2, <1>6, <1>7 DEF g

LEMMA AbandonedSound ==
  ASSUME NEW W, NEW f, NEW w \in W, Sound(f, W), f.temporary = Absent
  PROVE  /\ Sound(Abandoned(f, w), W) /\ Abandoned(f, w).published = f.published
         /\ Abandoned(f, w).temporary = Absent
         /\ Abandoned(f, w).open = [f.open EXCEPT ![w] = "no"]
         /\ \A v : Keeps(Abandoned(f, w), v) => Keeps(f, v)
<1> DEFINE g == Abandoned(f, w)
<1>1. g = [published |-> f.published, temporary |-> Absent,
           open |-> [f.open EXCEPT ![w] = "no"], shared |-> f.shared]
  BY DEF Sound, Abandoned
<1> HIDE DEF g
<1>2. /\ \A o \in W : o # w => g.open[o] = f.open[o]
      /\ g.open[w] = "no" /\ g.open \in [W -> Places]
  BY <1>1 DEF Sound, Places
<1>3. \A o \in W : Others(g, o) => Others(f, o)
  BY <1>2 DEF Others, Sound
<1>4. Sound(g, W)
  BY <1>1, <1>2, <1>3 DEF Sound
<1> QED BY <1>1, <1>4 DEF g, Keeps

LEMMA KilledSound ==
  ASSUME NEW W, NEW f, Sound(f, W)
  PROVE  /\ Sound(Killed(f), W) /\ Killed(f).published = f.published
         /\ Killed(f).temporary = f.temporary
         /\ Killed(f).open = [w \in W |-> "no"]
         /\ \A v : Keeps(Killed(f), v) => Keeps(f, v)
<1> DEFINE g == Killed(f)
<1>1. g = [published |-> f.published, temporary |-> f.temporary,
           open |-> [w \in W |-> "no"], shared |-> f.shared]
  BY DEF Sound, Killed
<1> HIDE DEF g
<1>2. Sound(g, W)
  BY <1>1 DEF Sound, Places
<1> QED BY <1>1, <1>2 DEF g, Keeps

-----------------------------------------------------------------------------
(***************************************************************************)
(* The model registry: the inductive invariant                              *)
(***************************************************************************)
Trainings ==
    [op : {"train"}, model : Models, comparison : Comparisons,
     at : {"pickle", "metadata", "truncate", "latest"}]

Activations ==
    [op : {"activate"}, model : Models, comparison : Comparisons, previous : Models \cup {None},
     at : {"reload", "audit", "pointer"}]

RegistryTypeOK ==
    /\ pickles = [m \in Models |-> pickles[m]] /\ metadata = [m \in Models |-> metadata[m]]
    /\ \A m \in Models : Sound(pickles[m], Callers) /\ Sound(metadata[m], Callers)
    /\ Sound(active, Callers)
    /\ \A m \in Models : \A comparison : Keeps(metadata[m], comparison) => comparison \in Comparisons
    /\ audits \subseteq [model : Models, previous : Models \cup {None}, comparison : Comparisons]
    /\ mlCall \in [Callers -> Trainings \cup Activations \cup {None}]

\* An activation record with positive scores names the model.
Approved(records, m) ==
    \E a \in records : a.model = m /\ a.comparison.validation > 0 /\ a.comparison.test > 0

\* Both files of the model have been published.
Stands(files, scores, m) == files[m].published # Absent /\ scores[m].published # Absent

\* An activation goes on with the scores it has read and approved, although a
\* training may have replaced them on disk; its audit is there before the pointer.
ActivationHolds(files, scores, records, k) ==
    /\ Stands(files, scores, k.model) /\ Registry!PolicyHolds(k.comparison)
    /\ k.at = "pointer" => Approved(records, k.model)

ActivationsHold ==
    \A c \in Callers : mlCall[c] # None /\ mlCall[c].op = "activate" =>
        ActivationHolds(pickles, metadata, audits, mlCall[c])

\* What ACTIVE names, or the temporary file that may replace it.
PointersHold ==
    \A m : Keeps(active, m) =>
        m \in Models /\ Stands(pickles, metadata, m) /\ Approved(audits, m)

RegistryInv == RegistryTypeOK /\ ActivationsHold /\ PointersHold

(***************************************************************************)
(* Lemmas                                                                   *)
(***************************************************************************)
\* The operators of a shared file are those of SharedFile.
LEMMA RegistryFiles ==
  /\ Registry!Absent = Absent /\ Registry!Partial = Partial /\ Registry!Torn = Torn
  /\ \A v : /\ Registry!Intact(v) = Intact(v)
            /\ Registry!IsIntact(v) <=> IsIntact(v)
            /\ Registry!Within(v) = Within(v)
            /\ Registry!NewFile(v) = NewFile(v) /\ Registry!Killed(v) = Killed(v)
  /\ \A f, w : /\ Registry!IsOpen(f, w) <=> IsOpen(f, w)
               /\ Registry!Emptied(f, w) = Emptied(f, w)
               /\ Registry!Replaced(f, w) = Replaced(f, w)
               /\ Registry!Abandoned(f, w) = Abandoned(f, w)
  /\ \A f, w, v : /\ Registry!Written(f, w, v) = Written(f, w, v)
                  /\ Registry!Filled(f, w, v) = Filled(f, w, v)
<1>1. /\ Registry!Absent = Absent /\ Registry!Partial = Partial /\ Registry!Torn = Torn
      /\ \A v : /\ Registry!Intact(v) = Intact(v)
                /\ Registry!IsIntact(v) <=> IsIntact(v)
                /\ Registry!Within(v) = Within(v)
  BY DEF Registry!Absent, Absent, Registry!Partial, Partial, Registry!Torn, Torn,
     Registry!Intact, Intact, Registry!IsIntact, IsIntact, Registry!Within, Within
<1>2. \A f, w : (Registry!Others(f, w) = Others(f, w)) /\ (Registry!IsOpen(f, w) <=> IsOpen(f, w))
  BY DEF Registry!Others, Others, Registry!IsOpen, IsOpen
<1>3. \A v : Registry!NewFile(v) = NewFile(v) /\ Registry!Killed(v) = Killed(v)
  BY <1>1 DEF Registry!NewFile, NewFile, Registry!Killed, Killed
<1>4. \A f, w : Registry!Emptied(f, w) = Emptied(f, w)
  BY <1>1, <1>2 DEF Registry!Emptied, Emptied
<1>5. \A f, w : Registry!Replaced(f, w) = Replaced(f, w)
  BY <1>1, <1>2 DEF Registry!Replaced, Replaced
<1>6. \A f, w : Registry!Abandoned(f, w) = Abandoned(f, w)
  BY DEF Registry!Abandoned, Abandoned
<1>7. \A f, w, v : Registry!Written(f, w, v) = Written(f, w, v)
  BY <1>1 DEF Registry!Written, Written
<1>8. \A f, w, v : Registry!Filled(f, w, v) = Filled(f, w, v)
  BY DEF Registry!Filled, Filled
<1> QED BY <1>1, <1>2, <1>3, <1>4, <1>5, <1>6, <1>7, <1>8

LEMMA RegistryInitInv == Registry!Init => RegistryInv
<1> SUFFICES ASSUME Registry!Init PROVE RegistryInv
  OBVIOUS
<1> DEFINE new == NewFile(Callers)
<1>1. /\ pickles = [m \in Models |-> new] /\ metadata = [m \in Models |-> new] /\ active = new
      /\ audits = {} /\ mlCall = [c \in Callers |-> None]
  BY RegistryFiles DEF Registry!Init
<1>2. Sound(new, Callers) /\ \A v : ~Keeps(new, v)
  BY NewFileSound
<1> HIDE DEF new
<1> QED
  BY <1>1, <1>2 DEF RegistryInv, RegistryTypeOK, ActivationsHold, PointersHold

\* The place of a call tells its kind.
LEMMA RegistryCallType ==
  ASSUME RegistryTypeOK, NEW c \in Callers, mlCall[c] # None
  PROVE  /\ mlCall[c].at \in {"pickle", "metadata", "truncate", "latest"} => mlCall[c] \in Trainings
         /\ mlCall[c].at \in {"reload", "audit", "pointer"} => mlCall[c] \in Activations
<1>1. mlCall[c] \in Trainings \cup Activations
  BY DEF RegistryTypeOK
<1> QED
  BY <1>1 DEF Trainings, Activations

\* What the invariant says, in the words of the property.
LEMMA RegistryInvImplies == RegistryInv => Registry!ModelInUseIsApproved
<1> SUFFICES ASSUME RegistryInv PROVE Registry!ModelInUseIsApproved
  OBVIOUS
<1>1. ASSUME NEW f, Sound(f, Callers) PROVE Registry!Trusted(f)
  BY <1>1, RegistryFiles DEF Registry!Trusted, Sound
<1>2. Registry!Trusted(active)
  BY <1>1 DEF RegistryInv, RegistryTypeOK
<1>3. ASSUME IsIntact(active.published)
      PROVE  LET m == Within(active.published) IN
             /\ Approved(audits, m)
             /\ \A f \in {pickles[m], metadata[m]} : Registry!Trusted(f) /\ f.published # Absent
  <2> DEFINE m == Within(active.published)
  <2>1. Keeps(active, m)
    BY <1>3, ContentsDiffer DEF RegistryInv, RegistryTypeOK, Sound, IsContent, Keeps
  <2>2. m \in Models /\ Stands(pickles, metadata, m) /\ Approved(audits, m)
    BY <2>1 DEF RegistryInv, PointersHold
  <2> QED
    BY <1>1, <2>2 DEF RegistryInv, RegistryTypeOK, Stands
<1> QED
  BY <1>2, <1>3, RegistryFiles DEF Registry!ModelInUseIsApproved, Approved

\* Files and records are only added: what was published stays, whole or not, and an
\* approval stays on record.
OnlyAdds ==
    /\ \A m \in Models : Stands(pickles, metadata, m) => Stands(pickles', metadata', m)
    /\ audits \subseteq audits'

\* A step of c that adds files or records and moves its own call keeps what the
\* other activations rely on, and the models that ACTIVE may name approved.
LEMMA AddsKeep ==
  ASSUME RegistryInv, NEW c \in Callers, RegistryTypeOK', OnlyAdds,
         \A d \in Callers : d # c => mlCall'[d] = mlCall[d],
         mlCall'[c] # None /\ mlCall'[c].op = "activate" =>
            ActivationHolds(pickles', metadata', audits', mlCall'[c]),
         \A m : Keeps(active', m) => \/ Keeps(active, m)
                                     \/ /\ m \in Models /\ Stands(pickles, metadata, m)
                                        /\ Approved(audits, m)
  PROVE  RegistryInv'
<1>1. ActivationsHold'
  <2> SUFFICES ASSUME NEW d \in Callers, mlCall'[d] # None, mlCall'[d].op = "activate"
               PROVE  ActivationHolds(pickles', metadata', audits', mlCall'[d])
    BY DEF ActivationsHold
  <2>1. CASE d = c
    BY <2>1
  <2>2. CASE d # c
    <3>1. /\ mlCall'[d] = mlCall[d] /\ mlCall[d] \in Activations
          /\ ActivationHolds(pickles, metadata, audits, mlCall[d])
      BY <2>2 DEF RegistryInv, ActivationsHold, RegistryTypeOK, Trainings
    <3>2. mlCall[d].model \in Models
      BY <3>1 DEF Activations
    <3> QED
      BY <3>1, <3>2 DEF ActivationHolds, Approved, OnlyAdds
  <2> QED
    BY <2>1, <2>2
<1>2. PointersHold'
  <2> SUFFICES ASSUME NEW m, Keeps(active', m)
               PROVE  /\ m \in Models /\ Stands(pickles', metadata', m) /\ Approved(audits', m)
    BY DEF PointersHold
  <2>1. m \in Models /\ Stands(pickles, metadata, m) /\ Approved(audits, m)
    BY DEF RegistryInv, PointersHold
  <2> QED
    BY <2>1 DEF OnlyAdds, Approved
<1> QED
  BY <1>1, <1>2 DEF RegistryInv

\* One of the files of a model is replaced by one that is sound, holds no more than
\* this one or the scores of the call, and stays published; the call goes on.
LEMMA FileKeeps ==
  ASSUME RegistryInv, NEW c \in Callers, NEW m \in Models, NEW f, NEW g,
         Sound(g, Callers), f.published # Absent => g.published # Absent,
         NEW k \in Trainings \cup {None}, mlCall' = [mlCall EXCEPT ![c] = k],
         UNCHANGED <<latest, active, audits>>,
         \/ f = pickles[m] /\ pickles' = [pickles EXCEPT ![m] = g] /\ metadata' = metadata
         \/ /\ f = metadata[m] /\ metadata' = [metadata EXCEPT ![m] = g] /\ pickles' = pickles
            /\ \A v : Keeps(g, v) => Keeps(f, v) \/ v \in Comparisons
  PROVE  RegistryInv'
<1>0. RegistryTypeOK
  BY DEF RegistryInv
<1>1. pickles' = [n \in Models |-> pickles'[n]] /\ metadata' = [n \in Models |-> metadata'[n]]
  BY <1>0 DEF RegistryTypeOK
<1>2. ASSUME NEW n \in Models
      PROVE  /\ Sound(pickles'[n], Callers) /\ Sound(metadata'[n], Callers)
             /\ pickles[n].published # Absent => pickles'[n].published # Absent
             /\ metadata[n].published # Absent => metadata'[n].published # Absent
             /\ \A v : Keeps(metadata'[n], v) => v \in Comparisons
  <2>1. /\ Sound(pickles[n], Callers) /\ Sound(metadata[n], Callers)
        /\ \A v : Keeps(metadata[n], v) => v \in Comparisons
    BY <1>0 DEF RegistryTypeOK
  <2>2. \/ pickles'[n] = pickles[n] /\ metadata'[n] = metadata[n]
        \/ pickles'[n] = g /\ pickles[n] = f /\ metadata'[n] = metadata[n]
        \/ /\ metadata'[n] = g /\ metadata[n] = f /\ pickles'[n] = pickles[n]
           /\ \A v : Keeps(g, v) => Keeps(f, v) \/ v \in Comparisons
    BY <1>0 DEF RegistryTypeOK
  <2> QED
    BY <2>1, <2>2
<1>3. mlCall' \in [Callers -> Trainings \cup Activations \cup {None}]
  BY <1>0 DEF RegistryTypeOK
<1>4. RegistryTypeOK'
  BY <1>0, <1>1, <1>2, <1>3 DEF RegistryTypeOK
<1>5. OnlyAdds
  BY <1>2 DEF OnlyAdds, Stands
<1>6. /\ \A d \in Callers : d # c => mlCall'[d] = mlCall[d]
      /\ mlCall'[c] # None => mlCall'[c].op = "train"
  BY <1>0 DEF RegistryTypeOK, Trainings
<1> QED
  BY <1>4, <1>5, <1>6, AddsKeep

\* The same for each of the two files of a model.
LEMMA PickleKeeps ==
  ASSUME RegistryInv, NEW c \in Callers, NEW m \in Models, NEW g,
         Sound(g, Callers), pickles[m].published # Absent => g.published # Absent,
         pickles' = [pickles EXCEPT ![m] = g], UNCHANGED <<metadata, latest, active, audits>>,
         \E k \in Trainings \cup {None} : mlCall' = [mlCall EXCEPT ![c] = k]
  PROVE  RegistryInv'
BY FileKeeps

LEMMA MetadataKeeps ==
  ASSUME RegistryInv, NEW c \in Callers, NEW m \in Models, NEW g,
         Sound(g, Callers), metadata[m].published # Absent => g.published # Absent,
         \A v : Keeps(g, v) => Keeps(metadata[m], v) \/ v \in Comparisons,
         metadata' = [metadata EXCEPT ![m] = g], UNCHANGED <<pickles, latest, active, audits>>,
         \E k \in Trainings \cup {None} : mlCall' = [mlCall EXCEPT ![c] = k]
  PROVE  RegistryInv'
BY FileKeeps

\* The call of c stays where it is.
LEMMA SameCall ==
  ASSUME RegistryTypeOK, NEW c \in Callers, mlCall[c] \in Trainings, mlCall' = mlCall
  PROVE  \E k \in Trainings \cup {None} : mlCall' = [mlCall EXCEPT ![c] = k]
BY DEF RegistryTypeOK

\* FilledSound, for the files here.
LEMMA FilledIs ==
  \A f : \A w \in Callers : \A v : \A x \in Written(f, w, v) :
    Sound(f, Callers) /\ IsOpen(f, w) =>
      /\ Sound(Filled(f, w, x), Callers) /\ x \in {Intact(v), Torn}
      /\ Filled(f, w, x).published \in {f.published, x}
      /\ \A u : Keeps(Filled(f, w, x), u) => Keeps(f, u) \/ u = v
<1> SUFFICES ASSUME NEW f, NEW w \in Callers, NEW v, NEW x \in Written(f, w, v),
                    Sound(f, Callers), IsOpen(f, w)
             PROVE  /\ Sound(Filled(f, w, x), Callers) /\ x \in {Intact(v), Torn}
                    /\ Filled(f, w, x).published \in {f.published, x}
                    /\ \A u : Keeps(Filled(f, w, x), u) => Keeps(f, u) \/ u = v
  BY Zenon
<1>1. Sound(Filled(f, w, x), Callers)
  BY FilledSound, Zenon
<1>2. x \in {Intact(v), Torn}
  BY FilledSound, Zenon
<1>3. Filled(f, w, x).published \in {f.published, x}
  BY FilledSound, Zenon
<1>4. \A u : Keeps(Filled(f, w, x), u) => Keeps(f, u) \/ u = v
  BY <1>2, FilledKeeps
<1> QED BY Zenon, <1>1, <1>2, <1>3, <1>4

\* The call of c goes on, or ends.
LEMMA TrainingGoesOn ==
  ASSUME RegistryTypeOK, NEW c \in Callers, mlCall[c] \in Trainings,
         NEW at \in {"pickle", "metadata", "truncate", "latest"}, Registry!Goes(c, at)
  PROVE  \E k \in Trainings : mlCall' = [mlCall EXCEPT ![c] = k]
<1> DEFINE k == [mlCall[c] EXCEPT !.at = at]
<1>1. k \in Trainings
  BY DEF Trainings
<1>2. mlCall' = [mlCall EXCEPT ![c] = k]
  BY DEF RegistryTypeOK, Registry!Goes
<1> QED BY <1>1, <1>2

\* The three steps by which a training writes a file, and the one that fails.
LEMMA TrainingKeeps ==
  ASSUME RegistryInv, NEW c \in Callers,
         \/ Registry!OpenPickle(c) \/ Registry!DumpPickle(c) \/ Registry!ReplacePickle(c)
         \/ Registry!OpenMetadata(c) \/ Registry!DumpMetadata(c) \/ Registry!ReplaceMetadata(c)
         \/ Registry!ReplaceFails(c) /\ ~Registry!Writes(c, "pointer")
  PROVE  RegistryInv'
<1> DEFINE m == mlCall[c].model
<1>0. RegistryTypeOK
  BY DEF RegistryInv
<1>1. mlCall[c] # None /\ mlCall[c].at \in {"pickle", "metadata"}
  BY DEF Registry!OpenPickle, Registry!DumpPickle, Registry!ReplacePickle, Registry!OpenMetadata,
     Registry!DumpMetadata, Registry!ReplaceMetadata, Registry!ReplaceFails, Registry!Writes
<1>2. mlCall[c] \in Trainings
  BY <1>0, <1>1, RegistryCallType
<1>3. /\ m \in Models /\ mlCall[c].comparison \in Comparisons
      /\ Sound(pickles[m], Callers) /\ Sound(metadata[m], Callers)
  BY <1>0, <1>2 DEF Trainings, RegistryTypeOK
<1>4. CASE Registry!OpenPickle(c)
  <2> DEFINE g == Emptied(pickles[m], c)
  <2>1. Sound(g, Callers) /\ g.published = pickles[m].published
    BY <1>3, EmptiedSound
  <2>2. pickles' = [pickles EXCEPT ![m] = g] /\ UNCHANGED <<metadata, latest, active, audits, mlCall>>
    BY <1>4, RegistryFiles DEF Registry!OpenPickle, Registry!PutPickle
  <2> HIDE DEF g, m
  <2> QED BY <1>0, <1>2, <1>3, <2>1, <2>2, SameCall, PickleKeeps
<1>5. CASE Registry!DumpPickle(c)
  <2>1. PICK x \in Written(pickles[m], c, m) :
          /\ pickles' = [pickles EXCEPT ![m] = Filled(pickles[m], c, x)]
          /\ UNCHANGED <<metadata, latest, active, audits, mlCall>>
          /\ IsOpen(pickles[m], c)
    BY <1>5, RegistryFiles DEF Registry!DumpPickle, Registry!PutPickle
  <2> DEFINE g == Filled(pickles[m], c, x)
  <2>2. Sound(g, Callers) /\ x \in {Intact(m), Torn} /\ g.published \in {pickles[m].published, x}
    BY <1>3, <2>1, FilledIs
  <2> HIDE DEF g
  <2>3. pickles[m].published # Absent => g.published # Absent
    BY <2>2, ContentsDiffer
  <2>4. pickles' = [pickles EXCEPT ![m] = g]
    BY <2>1 DEF g
  <2> HIDE DEF m
  <2> QED BY <1>0, <1>2, <1>3, <2>1, <2>2, <2>3, <2>4, SameCall, PickleKeeps
<1>6. CASE Registry!ReplacePickle(c)
  <2> DEFINE g == Replaced(pickles[m], c)
  <2>1. /\ pickles' = [pickles EXCEPT ![m] = g] /\ UNCHANGED <<metadata, latest, active, audits>>
        /\ pickles[m].open[c] = "closed" /\ pickles[m].temporary # Absent
        /\ Registry!Goes(c, "metadata")
    BY <1>6, RegistryFiles DEF Registry!ReplacePickle, Registry!PutPickle
  <2>2. Sound(g, Callers) /\ g.published # Absent
    BY <1>3, <2>1, ReplacedSound
  <2>3. PICK k \in Trainings : mlCall' = [mlCall EXCEPT ![c] = k]
    BY <1>0, <1>2, <2>1, TrainingGoesOn
  <2> HIDE DEF g, m
  <2> QED BY <1>3, <2>1, <2>2, <2>3, PickleKeeps
<1>7. CASE Registry!OpenMetadata(c)
  <2> DEFINE g == Emptied(metadata[m], c)
  <2>1. /\ Sound(g, Callers) /\ g.published = metadata[m].published
        /\ \A v : Keeps(g, v) => Keeps(metadata[m], v)
    BY <1>3, EmptiedSound
  <2>2. metadata' = [metadata EXCEPT ![m] = g] /\ UNCHANGED <<pickles, latest, active, audits, mlCall>>
    BY <1>7, RegistryFiles DEF Registry!OpenMetadata, Registry!PutMetadata
  <2> HIDE DEF g, m
  <2> QED BY <1>0, <1>2, <1>3, <2>1, <2>2, SameCall, MetadataKeeps
<1>8. CASE Registry!DumpMetadata(c)
  <2> DEFINE v == mlCall[c].comparison
  <2>1. PICK x \in Written(metadata[m], c, v) :
          /\ metadata' = [metadata EXCEPT ![m] = Filled(metadata[m], c, x)]
          /\ UNCHANGED <<pickles, latest, active, audits, mlCall>>
          /\ IsOpen(metadata[m], c)
    BY <1>8, RegistryFiles DEF Registry!DumpMetadata, Registry!PutMetadata
  <2> DEFINE g == Filled(metadata[m], c, x)
  <2>2. /\ Sound(g, Callers) /\ x \in {Intact(v), Torn} /\ g.published \in {metadata[m].published, x}
        /\ \A u : Keeps(g, u) => Keeps(metadata[m], u) \/ u = v
    BY <1>3, <2>1, FilledIs
  <2> HIDE DEF g
  <2>3. metadata[m].published # Absent => g.published # Absent
    BY <2>2, ContentsDiffer
  <2>4. /\ metadata' = [metadata EXCEPT ![m] = g]
        /\ \A u : Keeps(g, u) => Keeps(metadata[m], u) \/ u \in Comparisons
    BY <1>3, <2>1, <2>2 DEF g
  <2> HIDE DEF m
  <2> QED BY <1>0, <1>2, <1>3, <2>1, <2>2, <2>3, <2>4, SameCall, MetadataKeeps
<1>9. CASE Registry!ReplaceMetadata(c)
  <2> DEFINE g == Replaced(metadata[m], c)
  <2>1. /\ metadata' = [metadata EXCEPT ![m] = g] /\ UNCHANGED <<pickles, latest, active, audits>>
        /\ metadata[m].open[c] = "closed" /\ metadata[m].temporary # Absent
        /\ Registry!Goes(c, "truncate")
    BY <1>9, RegistryFiles DEF Registry!ReplaceMetadata, Registry!PutMetadata
  <2>2. /\ Sound(g, Callers) /\ g.published # Absent
        /\ \A v : Keeps(g, v) => Keeps(metadata[m], v)
    BY <1>3, <2>1, ReplacedSound
  <2>3. PICK k \in Trainings : mlCall' = [mlCall EXCEPT ![c] = k]
    BY <1>0, <1>2, <2>1, TrainingGoesOn
  <2> HIDE DEF g, m
  <2> QED BY <1>3, <2>1, <2>2, <2>3, MetadataKeeps
<1>10. CASE Registry!ReplaceFails(c) /\ ~Registry!Writes(c, "pointer")
  <2>1. /\ mlCall' = [mlCall EXCEPT ![c] = None] /\ UNCHANGED <<latest, active, audits>>
        /\ \/ /\ pickles[m].temporary = Absent /\ metadata' = metadata
              /\ pickles' = [pickles EXCEPT ![m] = Abandoned(pickles[m], c)]
           \/ /\ metadata[m].temporary = Absent /\ pickles' = pickles
              /\ metadata' = [metadata EXCEPT ![m] = Abandoned(metadata[m], c)]
    BY <1>10, RegistryFiles DEF Registry!ReplaceFails, Registry!PutPickle, Registry!PutMetadata
  <2>2. CASE pickles[m].temporary = Absent /\ metadata' = metadata
              /\ pickles' = [pickles EXCEPT ![m] = Abandoned(pickles[m], c)]
    <3> DEFINE g == Abandoned(pickles[m], c)
    <3>1. Sound(g, Callers) /\ g.published = pickles[m].published
      BY <1>3, <2>2, AbandonedSound
    <3>2. pickles' = [pickles EXCEPT ![m] = g]
      BY <2>2
    <3> HIDE DEF g, m
    <3> QED BY <1>3, <2>1, <2>2, <3>1, <3>2, PickleKeeps
  <2>3. CASE metadata[m].temporary = Absent /\ pickles' = pickles
              /\ metadata' = [metadata EXCEPT ![m] = Abandoned(metadata[m], c)]
    <3> DEFINE g == Abandoned(metadata[m], c)
    <3>1. /\ Sound(g, Callers) /\ g.published = metadata[m].published
          /\ \A v : Keeps(g, v) => Keeps(metadata[m], v)
      BY <1>3, <2>3, AbandonedSound
    <3>2. metadata' = [metadata EXCEPT ![m] = g]
      BY <2>3
    <3> HIDE DEF g, m
    <3> QED BY <1>3, <2>1, <2>3, <3>1, <3>2, MetadataKeeps
  <2> QED BY <2>1, <2>2, <2>3
<1> QED
  BY <1>4, <1>5, <1>6, <1>7, <1>8, <1>9, <1>10

\* ACTIVE is replaced by a file that is sound, and holds no more than this one or the
\* model of the activation.
LEMMA PointerKeeps ==
  ASSUME RegistryInv, NEW c \in Callers, NEW g, Sound(g, Callers), active' = g,
         mlCall[c] # None, mlCall[c].at = "pointer",
         \A v : Keeps(g, v) => Keeps(active, v) \/ v = mlCall[c].model,
         mlCall' \in {mlCall, [mlCall EXCEPT ![c] = None]},
         UNCHANGED <<pickles, metadata, audits>>
  PROVE  RegistryInv'
<1>0. RegistryTypeOK
  BY DEF RegistryInv
<1>1. mlCall[c] \in Activations
  BY <1>0, RegistryCallType
<1>2. ActivationHolds(pickles, metadata, audits, mlCall[c]) /\ mlCall[c].model \in Models
  BY <1>1 DEF RegistryInv, ActivationsHold, Activations
<1>3. RegistryTypeOK' /\ OnlyAdds
  BY <1>0 DEF RegistryTypeOK, OnlyAdds, Stands
<1>4. /\ \A d \in Callers : d # c => mlCall'[d] = mlCall[d]
      /\ mlCall'[c] \in {mlCall[c], None}
  BY <1>0 DEF RegistryTypeOK
<1>5. mlCall'[c] # None => ActivationHolds(pickles', metadata', audits', mlCall'[c])
  BY <1>2, <1>4
<1>6. \A v : Keeps(active', v) => \/ Keeps(active, v)
                                  \/ /\ v \in Models /\ Stands(pickles, metadata, v)
                                     /\ Approved(audits, v)
  BY <1>2 DEF ActivationHolds
<1> QED
  BY <1>3, <1>4, <1>5, <1>6, AddsKeep

LEMMA PointersKeep ==
  ASSUME RegistryInv, NEW c \in Callers,
         \/ Registry!OpenPointer(c) \/ Registry!WritePointer(c) \/ Registry!ReplacePointer(c)
         \/ Registry!ReplaceFails(c) /\ Registry!Writes(c, "pointer")
  PROVE  RegistryInv'
<1>1. Sound(active, Callers)
  BY DEF RegistryInv, RegistryTypeOK
<1>2. CASE Registry!OpenPointer(c)
  <2>1. /\ active' = Emptied(active, c) /\ UNCHANGED <<pickles, metadata, audits, mlCall>>
        /\ mlCall[c] # None /\ mlCall[c].at = "pointer"
    BY <1>2, RegistryFiles DEF Registry!OpenPointer, Registry!Writes
  <2>2. Sound(active', Callers) /\ \A v : Keeps(active', v) => Keeps(active, v)
    BY <1>1, <2>1, EmptiedSound
  <2> QED BY <2>1, <2>2, PointerKeeps
<1>3. CASE Registry!WritePointer(c)
  <2> DEFINE v == mlCall[c].model
  <2>1. /\ active' = Filled(active, c, Intact(v)) /\ UNCHANGED <<pickles, metadata, audits, mlCall>>
        /\ mlCall[c] # None /\ mlCall[c].at = "pointer" /\ IsOpen(active, c)
    BY <1>3, RegistryFiles DEF Registry!WritePointer, Registry!Writes
  <2>2. Intact(v) \in Written(active, c, v)
    BY DEF Written
  <2>3. Sound(active', Callers) /\ \A u : Keeps(active', u) => Keeps(active, u) \/ u = v
    BY <1>1, <2>1, <2>2, FilledIs
  <2> QED BY <2>1, <2>3, PointerKeeps
<1>4. CASE Registry!ReplacePointer(c)
  <2>1. /\ active' = Replaced(active, c) /\ UNCHANGED <<pickles, metadata, audits>>
        /\ mlCall' = [mlCall EXCEPT ![c] = None] /\ active.temporary # Absent
        /\ mlCall[c] # None /\ mlCall[c].at = "pointer" /\ active.open[c] = "closed"
    BY <1>4, RegistryFiles DEF Registry!ReplacePointer, Registry!Writes
  <2>2. Sound(active', Callers) /\ \A v : Keeps(active', v) => Keeps(active, v)
    BY <1>1, <2>1, ReplacedSound
  <2> QED BY <2>1, <2>2, PointerKeeps
<1>5. CASE Registry!ReplaceFails(c) /\ Registry!Writes(c, "pointer")
  <2>1. /\ active' = Abandoned(active, c) /\ UNCHANGED <<pickles, metadata, audits>>
        /\ mlCall' = [mlCall EXCEPT ![c] = None] /\ active.temporary = Absent
        /\ mlCall[c] # None /\ mlCall[c].at = "pointer"
    BY <1>5, RegistryFiles DEF Registry!ReplaceFails, Registry!Writes
  <2>2. Sound(active', Callers) /\ \A v : Keeps(active', v) => Keeps(active, v)
    BY <1>1, <2>1, AbandonedSound
  <2> QED BY <2>1, <2>2, PointerKeeps
<1> QED
  BY <1>2, <1>3, <1>4, <1>5

\* The process dies: files stay, and nobody writes them any more.
LEMMA RegistryCrashKeeps ==
  ASSUME RegistryInv, Registry!Crash
  PROVE  RegistryInv'
<1>0. RegistryTypeOK
  BY DEF RegistryInv
<1>1. /\ mlCall' = [c \in Callers |-> None] /\ audits' = audits
      /\ pickles' = [m \in Models |-> Killed(pickles[m])]
      /\ metadata' = [m \in Models |-> Killed(metadata[m])]
      /\ active' = Killed(active)
  BY RegistryFiles DEF Registry!Crash
<1>2. \A m \in Models : /\ Sound(pickles'[m], Callers) /\ Sound(metadata'[m], Callers)
                        /\ pickles'[m].published = pickles[m].published
                        /\ metadata'[m].published = metadata[m].published
                        /\ \A v : Keeps(metadata'[m], v) => Keeps(metadata[m], v)
  BY <1>0, <1>1, KilledSound DEF RegistryTypeOK
<1>3. Sound(active', Callers) /\ \A v : Keeps(active', v) => Keeps(active, v)
  BY <1>0, <1>1, KilledSound DEF RegistryTypeOK
<1>4. RegistryTypeOK'
  BY <1>0, <1>1, <1>2, <1>3 DEF RegistryTypeOK
<1>5. ActivationsHold'
  BY <1>1 DEF ActivationsHold
<1>6. PointersHold'
  BY <1>1, <1>2, <1>3 DEF RegistryInv, PointersHold, Stands
<1> QED BY <1>4, <1>5, <1>6 DEF RegistryInv

LEMMA RegistryKeeps ==
  ASSUME RegistryInv, [Registry!Next]_(Registry!vars)
  PROVE  RegistryInv'
<1>0. RegistryTypeOK
  BY DEF RegistryInv
<1>1. CASE Registry!Crash
  BY <1>1, RegistryCrashKeeps
<1>2. CASE UNCHANGED Registry!vars
  BY <1>2 DEF Registry!vars, RegistryInv, RegistryTypeOK, ActivationsHold, PointersHold
<1>3. ASSUME NEW c \in Callers, NEW m \in Models, NEW comparison \in Comparisons,
             Registry!Train(c, m, comparison)
      PROVE  RegistryInv'
  <2>1. mlCall'[c].op = "train" /\ RegistryTypeOK'
    BY <1>0, <1>3 DEF Registry!Train, RegistryTypeOK, Trainings
  <2>2. /\ \A d \in Callers : d # c => mlCall'[d] = mlCall[d]
        /\ UNCHANGED <<pickles, metadata, active, audits>>
    BY <1>0, <1>3 DEF Registry!Train, RegistryTypeOK
  <2>3. OnlyAdds
    BY <2>2 DEF OnlyAdds, Stands
  <2> QED
    BY <2>1, <2>2, <2>3, AddsKeep
<1>4. ASSUME NEW c \in Callers, Registry!TruncateLatest(c) \/ Registry!WriteLatest(c)
      PROVE  RegistryInv'
  <2>1. mlCall[c] # None /\ mlCall[c] \in Trainings
    BY <1>0, <1>4, RegistryCallType DEF Registry!TruncateLatest, Registry!WriteLatest
  <2>2. \A at \in {"pickle", "metadata", "truncate", "latest"} :
          /\ [mlCall[c] EXCEPT !.at = at] \in Trainings
          /\ [mlCall EXCEPT ![c].at = at] = [mlCall EXCEPT ![c] = [mlCall[c] EXCEPT !.at = at]]
    BY <1>0, <2>1 DEF Trainings, RegistryTypeOK
  <2>3. PICK k \in Trainings \cup {None} : mlCall' = [mlCall EXCEPT ![c] = k]
    BY <1>4, <2>1, <2>2 DEF Registry!TruncateLatest, Registry!WriteLatest, Registry!Goes
  <2>4. UNCHANGED <<pickles, metadata, active, audits>>
    BY <1>4 DEF Registry!TruncateLatest, Registry!WriteLatest
  <2>5. RegistryTypeOK' /\ OnlyAdds
    BY <1>0, <2>3, <2>4 DEF RegistryTypeOK, OnlyAdds, Stands
  <2>6. /\ \A d \in Callers : d # c => mlCall'[d] = mlCall[d]
        /\ mlCall'[c] # None => mlCall'[c].op = "train"
    BY <1>0, <2>3 DEF RegistryTypeOK, Trainings
  <2> QED
    BY <2>4, <2>5, <2>6, AddsKeep
<1>5. ASSUME NEW c \in Callers, NEW m \in Models, Registry!Approve(c, m) PROVE RegistryInv'
  <2> DEFINE v == Within(metadata[m].published)
             k == [op |-> "activate", model |-> m, comparison |-> v,
                   previous |-> None, at |-> "reload"]
  <2>1. /\ mlCall' = [mlCall EXCEPT ![c] = k]
        /\ UNCHANGED <<pickles, metadata, latest, active, audits>>
        /\ IsIntact(pickles[m].published) /\ IsIntact(metadata[m].published)
        /\ Registry!PolicyHolds(v)
    BY <1>5, RegistryFiles DEF Registry!Approve, Registry!Loads, Registry!Scores
  <2>2. Keeps(metadata[m], v)
    BY <1>0, <2>1, ContentsDiffer DEF RegistryTypeOK, Sound, IsContent, Keeps
  <2>3. v \in Comparisons
    BY <1>0, <2>2 DEF RegistryTypeOK
  <2> HIDE DEF v
  <2>4. k \in Activations /\ ActivationHolds(pickles, metadata, audits, k)
    BY <2>1, <2>3, ContentsDiffer DEF Activations, ActivationHolds, Stands
  <2> HIDE DEF k
  <2>5. RegistryTypeOK' /\ OnlyAdds
    BY <1>0, <2>1, <2>4 DEF RegistryTypeOK, OnlyAdds, Stands
  <2>6. mlCall'[c] = k /\ \A d \in Callers : d # c => mlCall'[d] = mlCall[d]
    BY <1>0, <2>1 DEF RegistryTypeOK
  <2> QED
    BY <2>1, <2>4, <2>5, <2>6, AddsKeep
<1>6. ASSUME NEW c \in Callers, Registry!Reload(c) \/ Registry!Audit(c)
      PROVE  /\ mlCall[c] \in Activations
             /\ ActivationHolds(pickles, metadata, audits, mlCall[c])
  <2>1. mlCall[c] # None /\ mlCall[c] \in Activations
    BY <1>0, <1>6, RegistryCallType DEF Registry!Reload, Registry!Audit
  <2> QED
    BY <2>1 DEF RegistryInv, ActivationsHold, Activations
<1>7. ASSUME NEW c \in Callers, Registry!Reload(c) PROVE RegistryInv'
  <2> DEFINE before == IF IsIntact(active.published) THEN Within(active.published) ELSE None
             k == [mlCall[c] EXCEPT !.at = "audit", !.previous = before]
  <2>1. mlCall' = [mlCall EXCEPT ![c] = k] /\ UNCHANGED <<pickles, metadata, latest, active, audits>>
    BY <1>0, <1>7, RegistryFiles DEF Registry!Reload, RegistryTypeOK
  <2>2. before \in Models \cup {None}
    <3>1. IsIntact(active.published) => Keeps(active, Within(active.published))
      BY <1>0, ContentsDiffer DEF RegistryTypeOK, Sound, IsContent, Keeps
    <3> QED BY <3>1 DEF RegistryInv, PointersHold
  <2> HIDE DEF before
  <2>3. /\ k \in Activations /\ k.model = mlCall[c].model /\ k.comparison = mlCall[c].comparison
        /\ k.at = "audit"
    BY <1>6, <1>7, <2>2 DEF Activations
  <2> HIDE DEF k
  <2>4. ActivationHolds(pickles, metadata, audits, k)
    BY <1>6, <1>7, <2>3 DEF ActivationHolds
  <2>5. RegistryTypeOK' /\ OnlyAdds
    BY <1>0, <2>1, <2>3 DEF RegistryTypeOK, OnlyAdds, Stands
  <2>6. mlCall'[c] = k /\ \A d \in Callers : d # c => mlCall'[d] = mlCall[d]
    BY <1>0, <2>1 DEF RegistryTypeOK
  <2> QED
    BY <2>1, <2>4, <2>5, <2>6, AddsKeep
<1>8. ASSUME NEW c \in Callers, Registry!Audit(c) PROVE RegistryInv'
  <2> DEFINE k == [mlCall[c] EXCEPT !.at = "pointer"]
             a == [model |-> mlCall[c].model, previous |-> mlCall[c].previous,
                   comparison |-> mlCall[c].comparison]
  <2>1. /\ k \in Activations /\ k.model = mlCall[c].model /\ k.comparison = mlCall[c].comparison
        /\ a \in [model : Models, previous : Models \cup {None}, comparison : Comparisons]
    BY <1>6, <1>8 DEF Activations
  <2>2. /\ mlCall' = [mlCall EXCEPT ![c] = k] /\ audits' = audits \cup {a}
        /\ UNCHANGED <<pickles, metadata, latest, active>>
    BY <1>0, <1>8 DEF Registry!Audit, Registry!Goes, RegistryTypeOK
  <2>3. Approved(audits', k.model)
    <3>1. Registry!PolicyHolds(mlCall[c].comparison)
      BY <1>6, <1>8 DEF ActivationHolds
    <3>2. /\ a.model = k.model /\ a.comparison = mlCall[c].comparison
          /\ a \in audits'
      BY <2>1, <2>2
    <3> HIDE DEF k, a
    <3> QED
      BY <3>1, <3>2 DEF Registry!PolicyHolds, Approved
  <2> HIDE DEF k, a
  <2>4. ActivationHolds(pickles, metadata, audits', k)
    BY <1>6, <1>8, <2>1, <2>3 DEF ActivationHolds
  <2>5. RegistryTypeOK' /\ OnlyAdds
    BY <1>0, <2>1, <2>2 DEF RegistryTypeOK, OnlyAdds, Stands
  <2>6. mlCall'[c] = k /\ \A d \in Callers : d # c => mlCall'[d] = mlCall[d]
    BY <1>0, <2>2 DEF RegistryTypeOK
  <2> QED
    BY <2>2, <2>4, <2>5, <2>6, AddsKeep
<1> QED
  BY <1>1, <1>2, <1>3, <1>4, <1>5, <1>7, <1>8, TrainingKeeps, PointersKeep DEF Registry!Next

\* Whatever trainings and activations of any models overlap or die half way: a model
\* that load_active finds was approved for positive scores, and ACTIVE and the files of
\* the model can be read, unless calls that wrote the file at once left it broken.
THEOREM ModelsInUseAreApproved ==
  Registry!Spec => []Registry!ModelInUseIsApproved
<1>1. RegistryInv /\ [Registry!Next]_(Registry!vars) => RegistryInv'
  BY RegistryKeeps
<1> QED
  BY <1>1, RegistryInvImplies, RegistryInitInv, PTL DEF Registry!Spec

-----------------------------------------------------------------------------
\* A nonempty set of natural numbers has a least element.
LEMMA LeastNat ==
  ASSUME NEW T, T \subseteq Nat, T # {}
  PROVE  \E x \in T : \A y \in T : x <= y
<1>1. PICK x \in T : \A y \in T : ~ (<<y, x>> \in OpToRel(<, Nat))
  BY WFMin, NatLessThanWellFounded
<1>2. \A y \in T : ~(y < x)
  BY <1>1 DEF OpToRel
<1> QED
  BY <1>2

(***************************************************************************)
(* The migration: the tables of all databases, one after the other          *)
(***************************************************************************)
\* The elements of two sequences, one after the other.
LEMMA ElementsOfConcat ==
  ASSUME NEW S, NEW a \in Seq(S), NEW b \in Seq(S)
  PROVE  a \o b \in Seq(S) /\ ToSet(a \o b) = ToSet(a) \cup ToSet(b)
<1> DEFINE c == a \o b
<1>1. /\ c \in Seq(S) /\ Len(c) = Len(a) + Len(b) /\ Len(a) \in Nat /\ Len(b) \in Nat
      /\ \A i \in 1 .. Len(c) : c[i] = IF i <= Len(a) THEN a[i] ELSE b[i - Len(a)]
  OBVIOUS
<1> HIDE DEF c
<1>2. DOMAIN a = 1 .. Len(a) /\ DOMAIN b = 1 .. Len(b) /\ DOMAIN c = 1 .. Len(c)
  BY <1>1
<1>3. ASSUME NEW x \in ToSet(c) PROVE x \in ToSet(a) \cup ToSet(b)
  <2>1. PICK i \in 1 .. Len(c) : x = c[i]
    BY <1>2 DEF ToSet
  <2>2. CASE i <= Len(a)
    <3>1. i \in 1 .. Len(a) /\ x = a[i]
      BY <1>1, <2>1, <2>2
    <3> QED BY <1>2, <3>1 DEF ToSet
  <2>3. CASE i > Len(a)
    <3>1. i - Len(a) \in 1 .. Len(b) /\ x = b[i - Len(a)]
      BY <1>1, <2>1, <2>3
    <3> QED BY <1>2, <3>1 DEF ToSet
  <2> QED BY <1>1, <2>2, <2>3
<1>4. ASSUME NEW x \in ToSet(a) PROVE x \in ToSet(c)
  <2>1. PICK i \in 1 .. Len(a) : x = a[i]
    BY <1>2 DEF ToSet
  <2>2. i \in 1 .. Len(c) /\ c[i] = x
    BY <1>1, <2>1
  <2> QED BY <1>2, <2>2 DEF ToSet
<1>5. ASSUME NEW x \in ToSet(b) PROVE x \in ToSet(c)
  <2>1. PICK i \in 1 .. Len(b) : x = b[i]
    BY <1>2 DEF ToSet
  <2>2. /\ i + Len(a) \in 1 .. Len(c) /\ ~(i + Len(a) <= Len(a))
        /\ i + Len(a) - Len(a) = i
    BY <1>1, <2>1
  <2>3. c[i + Len(a)] = x
    BY <1>1, <2>1, <2>2
  <2> QED BY <1>2, <2>2, <2>3 DEF ToSet
<1> QED BY <1>1, <1>3, <1>4, <1>5 DEF c

\* g holds the first 1 .. n of the sequences, joined.
Joins(ss, n, g) == g = [i \in 1 .. n |-> IF i = 1 THEN ss[i] ELSE g[i - 1] \o ss[i]]

\* They exist, by the least number without them.
LEMMA JoinsExist ==
  ASSUME NEW ss, NEW n \in Nat
  PROVE  \E g : Joins(ss, n, g)
<1> DEFINE T == {k \in Nat : ~ \E g : Joins(ss, k, g)}
<1> SUFFICES ASSUME T # {} PROVE FALSE
  OBVIOUS
<1>1. PICK x \in T : \A y \in T : x <= y
  BY LeastNat
<1>2. CASE x = 0
  <2>1. Joins(ss, 0, [i \in 1 .. 0 |-> 0])
    BY DEF Joins
  <2> QED BY <1>2, <2>1
<1>3. CASE x # 0
  <2>1. PICK g : Joins(ss, x - 1, g)
    BY <1>1, <1>3
  <2> DEFINE h == [i \in 1 .. x |-> IF i = x THEN (IF i = 1 THEN ss[i] ELSE g[i - 1] \o ss[i])
                                    ELSE g[i]]
  <2>2. ASSUME NEW i \in 1 .. x
        PROVE  h[i] = IF i = 1 THEN ss[i] ELSE h[i - 1] \o ss[i]
    <3>1. i # 1 => i - 1 \in 1 .. x /\ i - 1 # x /\ h[i - 1] = g[i - 1]
      OBVIOUS
    <3>2. CASE i = x
      BY <3>1, <3>2
    <3>3. CASE i # x
      <4>1. i \in 1 .. (x - 1)
        BY <3>3
      <4>2. g[i] = IF i = 1 THEN ss[i] ELSE g[i - 1] \o ss[i]
        BY <2>1, <4>1 DEF Joins
      <4>3. h[i] = g[i]
        BY <3>3
      <4> QED BY <3>1, <4>2, <4>3
    <3> QED BY <3>2, <3>3
  <2>3. Joins(ss, x, h)
    BY <2>2 DEF Joins
  <2> QED BY <2>3
<1> QED BY <1>2, <1>3

\* The joined sequences hold the elements of all of them.
LEMMA Flattened ==
  ASSUME NEW S, NEW N \in Nat, N > 0, NEW ss \in [1 .. N -> Seq(S)]
  PROVE  /\ FlattenSeq(ss) \in Seq(S)
         /\ ToSet(FlattenSeq(ss)) = UNION {ToSet(ss[k]) : k \in 1 .. N}
<1>0. Len(ss) = N
  OBVIOUS
<1>1. PICK g : Joins(ss, N, g) /\ FlattenSeq(ss) = g[N]
  <2> DEFINE G(g) == g = [i \in 1 .. Len(ss) |-> IF i = 1 THEN ss[i] ELSE g[i - 1] \o ss[i]]
  <2>1. PICK g : G(g)
    BY <1>0, JoinsExist DEF Joins
  <2>2. G(CHOOSE f : G(f))
    BY <2>1, Zenon
  <2>3. Len(ss) # 0
    BY <1>0
  <2>4. FlattenSeq(ss) = (CHOOSE f : G(f))[Len(ss)]
    BY <2>3, Zenon DEF FlattenSeq
  <2> DEFINE f == CHOOSE f : G(f)
  <2> HIDE DEF f
  <2>5. Joins(ss, N, f) /\ FlattenSeq(ss) = f[N]
    BY <1>0, <2>2, <2>4 DEF Joins, f
  <2> QED BY <2>5
<1> DEFINE U(i) == UNION {ToSet(ss[k]) : k \in 1 .. i}
           T == {i \in Nat : i \in 1 .. N /\ ~(g[i] \in Seq(S) /\ ToSet(g[i]) = U(i))}
<1>2. \A i \in 1 .. N : g[i] = IF i = 1 THEN ss[i] ELSE g[i - 1] \o ss[i]
  BY <1>1 DEF Joins
<1>3. T = {}
  <2> SUFFICES ASSUME T # {} PROVE FALSE
    OBVIOUS
  <2>1. PICK x \in T : \A y \in T : x <= y
    BY LeastNat
  <2>2. CASE x = 1
    <3>0. 1 \in 1 .. N
      OBVIOUS
    <3>1. g[1] = ss[1] /\ ss[1] \in Seq(S)
      BY <1>2, <3>0
    <3>2. U(1) = ToSet(ss[1])
      OBVIOUS
    <3> QED BY <2>1, <2>2, <3>1, <3>2
  <2>3. CASE x # 1
    <3>0. x \in Nat /\ x \in 1 .. N
      BY <2>1
    <3>1. x - 1 \in 1 .. N /\ x - 1 \in Nat /\ ~(x <= x - 1)
      BY <2>3, <3>0
    <3>2. g[x - 1] \in Seq(S) /\ ToSet(g[x - 1]) = U(x - 1) /\ ss[x] \in Seq(S)
      <4>1. x - 1 \notin T
        BY <2>1, <3>1
      <4> QED BY <3>0, <3>1, <4>1
    <3>3. g[x] = g[x - 1] \o ss[x]
      BY <1>2, <2>3, <3>0
    <3>4. g[x] \in Seq(S) /\ ToSet(g[x]) = U(x - 1) \cup ToSet(ss[x])
      BY <3>2, <3>3, ElementsOfConcat
    <3>5. U(x) = U(x - 1) \cup ToSet(ss[x])
      <4>1. 1 .. x = (1 .. x - 1) \cup {x}
        BY <3>0
      <4> QED BY <4>1
    <3> QED BY <2>1, <3>4, <3>5
  <2> QED BY <2>2, <2>3
<1>4. N \in 1 .. N
  OBVIOUS
<1>5. g[N] \in Seq(S) /\ ToSet(g[N]) = U(N)
  BY <1>3, <1>4
<1> QED BY <1>1, <1>5


\* What the copy of all tables relies on: they are some, each of one database.
LEMMA TablesAre ==
  /\ Len(AllTables) \in Nat /\ Len(AllTables) > 0 /\ DOMAIN AllTables = 1 .. Len(AllTables)
  /\ \A n \in 1 .. Len(AllTables) : AllTables[n] \in Tables
  /\ \A t \in Tables : \E n \in 1 .. Len(AllTables) : AllTables[n] = t
  /\ \A d \in Names : \A t \in ToSet(TablesOf[d]) : t \in Tables /\ Home(t) = d
  /\ \A t \in Tables : Home(t) \in Names /\ t \in ToSet(TablesOf[Home(t)])
  /\ WrittenTables \subseteq Tables
<1> DEFINE S == UNION {ToSet(TablesOf[d]) : d \in DOMAIN TablesOf}
           N == Len(Databases)
           ss == [n \in DOMAIN Databases |-> TablesOf[Databases[n]]]
<1>1. /\ N \in Nat /\ N > 0 /\ DOMAIN Databases = 1 .. N
      /\ \A n \in 1 .. N : Databases[n] \in DOMAIN TablesOf
  BY MigrationAssumption
<1>2. \A d \in DOMAIN TablesOf : TablesOf[d] \in Seq(S) /\ TablesOf[d] # <<>>
  <2> SUFFICES ASSUME NEW d \in DOMAIN TablesOf
               PROVE  TablesOf[d] \in Seq(S) /\ TablesOf[d] # <<>>
    OBVIOUS
  <2>1. TablesOf[d] \in Seq(ToSet(TablesOf[d])) /\ TablesOf[d] # <<>>
    BY MigrationAssumption
  <2>2. ToSet(TablesOf[d]) \subseteq S
    OBVIOUS
  <2> QED BY <2>1, <2>2
<1>3. ss \in [1 .. N -> Seq(S)]
  BY <1>1, <1>2
<1>4. AllTables \in Seq(S) /\ Tables = UNION {ToSet(ss[k]) : k \in 1 .. N}
  <2>1. AllTables = FlattenSeq(ss)
    BY DEF AllTables
  <2> HIDE DEF ss, S, N
  <2> QED BY <1>1, <1>3, <2>1, Flattened DEF Tables
<1>5. Len(AllTables) \in Nat /\ DOMAIN AllTables = 1 .. Len(AllTables)
  BY <1>4
<1>6. Tables = UNION {ToSet(TablesOf[Databases[k]]) : k \in 1 .. N}
  <2>1. \A k \in 1 .. N : ss[k] = TablesOf[Databases[k]]
    BY <1>1
  <2> HIDE DEF ss, S, N
  <2> QED BY <1>4, <2>1
<1>7. /\ \A n \in 1 .. Len(AllTables) : AllTables[n] \in Tables
      /\ \A t \in Tables : \E n \in 1 .. Len(AllTables) : AllTables[n] = t
  BY <1>5 DEF Tables, ToSet
<1>8. Names = {Databases[k] : k \in 1 .. N} /\ Names \subseteq DOMAIN TablesOf
  BY <1>1 DEF Names, ToSet
<1>9. ASSUME NEW d \in Names, NEW t \in ToSet(TablesOf[d])
      PROVE  t \in Tables /\ Home(t) = d
  <2>1. t \in Tables
    BY <1>6, <1>8
  <2>2. \A e \in Names : t \in ToSet(TablesOf[e]) => e = d
    <3>1. ASSUME NEW e \in Names, t \in ToSet(TablesOf[e]) PROVE e = d
      <4>1. ToSet(TablesOf[d]) \cap ToSet(TablesOf[e]) # {}
        BY <3>1
      <4> QED BY <1>8, <4>1, MigrationAssumption
    <3> QED BY <3>1
  <2> QED BY <2>1, <2>2 DEF Home
<1>10. ASSUME NEW t \in Tables
       PROVE  Home(t) \in Names /\ t \in ToSet(TablesOf[Home(t)])
  <2>1. PICK d \in Names : t \in ToSet(TablesOf[d])
    BY <1>6, <1>8
  <2> QED BY <1>9, <2>1
<1>11. Len(AllTables) > 0
  <2>1. 1 \in 1 .. N /\ Databases[1] \in DOMAIN TablesOf /\ Databases[1] \in Names
    BY <1>1, <1>8
  <2> DEFINE q == TablesOf[Databases[1]]
  <2>2. q \in Seq(S) /\ q # <<>>
    BY <1>2, <2>1
  <2>3. 1 \in DOMAIN q
    BY <2>2
  <2>4. q[1] \in ToSet(TablesOf[Databases[1]])
    BY <2>3 DEF ToSet
  <2>5. q[1] \in Tables
    BY <1>9, <2>1, <2>4
  <2>6. PICK n \in 1 .. Len(AllTables) : AllTables[n] = q[1]
    BY <1>7, <2>5
  <2> QED BY <1>5, <2>6
<1>12. WrittenTables \subseteq Tables
  BY <1>1, <1>6, MigrationAssumption
<1> QED BY <1>5, <1>7, <1>9, <1>10, <1>11, <1>12

\* The place of a database in the sequence.
Place(d) == CHOOSE n \in DOMAIN Databases : Databases[n] = d

\* There are databases.
LEMMA DatabaseCount ==
  Len(Databases) \in Nat /\ Len(Databases) > 0 /\ DOMAIN Databases = 1 .. Len(Databases)
  BY MigrationAssumption

\* They are distinct.
LEMMA DatabasesAre ==
  /\ \A n \in 1 .. Len(Databases) : Databases[n] \in Names
  /\ \A d \in Names : Place(d) \in 1 .. Len(Databases) /\ Databases[Place(d)] = d
  /\ \A n \in 1 .. Len(Databases) : Databases[n] = Last(Databases) => n = Len(Databases)
<1>1. Len(Databases) \in Nat /\ Len(Databases) > 0 /\ DOMAIN Databases = 1 .. Len(Databases)
  BY DatabaseCount
<1>2. \A n \in 1 .. Len(Databases) : Databases[n] \in Names
  BY <1>1 DEF Names, ToSet
<1>3. ASSUME NEW d \in Names
      PROVE  Place(d) \in 1 .. Len(Databases) /\ Databases[Place(d)] = d
  <2>1. \E n \in DOMAIN Databases : Databases[n] = d
    BY DEF Names, ToSet
  <2> QED BY <1>1, <2>1 DEF Place
<1>4. ASSUME NEW n \in 1 .. Len(Databases), Databases[n] = Last(Databases)
      PROVE  n = Len(Databases)
  <2>1. Len(Databases) \in DOMAIN Databases /\ n \in DOMAIN Databases
    BY <1>1
  <2> QED BY <1>4, <2>1, MigrationAssumption DEF Last
<1> QED BY <1>1, <1>2, <1>3, <1>4

(***************************************************************************)
(* The inductive invariant                                                  *)
(***************************************************************************)
Migrations ==
    [at : {"snapshot", "prepare", "truncate", "copy", "count", "commit"}, replace : BOOLEAN,
     direct : BOOLEAN, snapshot : Seq(Nat), rows : Seq(SUBSET Nat), still : BOOLEAN]

MigrationTypeOK ==
    /\ source \in [Names -> Nat \ {0}] /\ stopped \in BOOLEAN
    /\ target \in [Tables -> SUBSET Nat] /\ fresh \in [Tables -> SUBSET Nat]
    /\ run \in [Migrators -> Migrations \cup {Idle}]
    /\ cut \in {"empty", "live", "snapshot", "final"}

\* The databases a migration has read so far: rows up to a transaction of each, and
\* the last one where the writers were stopped before.
ReadsHold(r, files, quiet) ==
    /\ r.still => quiet
    /\ r.at = "snapshot" => ~r.direct
    /\ ~r.direct =>
         /\ IF r.at = "snapshot" THEN Len(r.snapshot) < Len(Databases)
            ELSE Len(r.snapshot) = Len(Databases)
         /\ \A n \in 1 .. Len(r.snapshot) :
              /\ r.snapshot[n] \in 1 .. files[Databases[n]]
              /\ r.still => r.snapshot[n] = files[Databases[n]]

\* SourceRows, of the migration and the files it is given.
RowsOf(r, files, t) ==
    IF r.direct THEN 1 .. files[Home(t)]
    ELSE 1 .. r.snapshot[CHOOSE n \in DOMAIN Databases : Databases[n] = Home(t)]

\* What a migration has copied: tables in their order, never an empty one, and each
\* as it was read unless the files were read directly while they were written.
CopiesHold(r, files) ==
    /\ r.at = "truncate" => r.replace
    /\ r.at \in {"snapshot", "prepare", "truncate"} => Len(r.rows) = 0
    /\ r.at = "copy" => Len(r.rows) < Len(AllTables)
    /\ r.at \in {"count", "commit"} => Len(r.rows) = Len(AllTables)
    /\ \A n \in 1 .. Len(r.rows) :
         /\ 1 \in r.rows[n] /\ Runtime \notin r.rows[n]
         /\ ~r.direct \/ r.still => r.rows[n] = RowsOf(r, files, AllTables[n])

RunsHold ==
    \A m \in Migrators : run[m] # Idle =>
        ReadsHold(run[m], source, stopped) /\ CopiesHold(run[m], source)

Copies(r) == r # Idle /\ Len(r.rows) > 0

\* A second migration waits at the first table for the key that the first inserts.
OneCopies == \A m, n \in Migrators : Copies(run[m]) /\ Copies(run[n]) => m = n

\* No row of a migration is in the target.
Unmigrated(rows) == \A t \in Tables : rows[t] \ {Runtime} = {}

\* A migration that does not replace found none of its rows, and none has come since.
AddsToNone == \A m \in Migrators : Copies(run[m]) /\ ~run[m].replace => Unmigrated(target)

\* All tables were loaded, or none.
AllOrNone == Unmigrated(target) \/ \A t \in Tables : 1 \in target[t]

\* TargetIsACut, of the state it is given.
CutOf(tables, files, quiet, how, own) ==
    /\ how = "empty" => Unmigrated(tables)
    /\ how = "snapshot" => \A d \in Names : \E k \in 1 .. files[d] :
         \A t \in ToSet(TablesOf[d]) : tables[t] \ {Runtime} = 1 .. k
    /\ how = "final" => quiet /\ \A d \in Names :
         \A t \in ToSet(TablesOf[d]) : tables[t] \ {Runtime} = 1 .. files[d]
    /\ \A t \in Tables : own[t] \subseteq tables[t]

MigrationInv ==
    /\ MigrationTypeOK /\ RunsHold /\ OneCopies /\ AddsToNone /\ AllOrNone
    /\ CutOf(target, source, stopped, cut, fresh)

\* Nothing is migrated at first.
LEMMA MigrationInitInv == MigrationInit => MigrationInv
<1> SUFFICES ASSUME MigrationInit PROVE MigrationInv
  OBVIOUS
<1>1. \A m \in Migrators : run[m] = Idle
  BY DEF MigrationInit
<1>2. MigrationTypeOK
  <2>1. source \in [Names -> Nat \ {0}] /\ run \in [Migrators -> Migrations \cup {Idle}]
    BY DEF MigrationInit
  <2>2. target \in [Tables -> SUBSET Nat] /\ fresh \in [Tables -> SUBSET Nat]
    BY DEF MigrationInit
  <2> QED BY <2>1, <2>2 DEF MigrationInit, MigrationTypeOK
<1>3. Unmigrated(target)
  BY DEF MigrationInit, Unmigrated
<1>4. CutOf(target, source, stopped, cut, fresh)
  BY <1>3 DEF MigrationInit, CutOf
<1> QED BY <1>1, <1>2, <1>3, <1>4 DEF MigrationInv, RunsHold, OneCopies, AddsToNone, AllOrNone,
        Copies

(***************************************************************************)
(* Steps of the runtime                                                     *)
(***************************************************************************)
\* A migration that has begun.
LEMMA MigrationAt ==
  ASSUME MigrationInv, NEW m \in Migrators, run[m] # Idle
  PROVE  /\ run[m] \in Migrations
         /\ run[m].replace \in BOOLEAN /\ run[m].direct \in BOOLEAN /\ run[m].still \in BOOLEAN
         /\ run[m].snapshot \in Seq(Nat) /\ Len(run[m].snapshot) \in Nat
         /\ run[m].rows \in Seq(SUBSET Nat) /\ Len(run[m].rows) \in Nat
         /\ ReadsHold(run[m], source, stopped) /\ CopiesHold(run[m], source)
<1>1. run[m] \in Migrations
  BY DEF MigrationInv, MigrationTypeOK
<1>2. run[m].snapshot \in Seq(Nat) /\ run[m].rows \in Seq(SUBSET Nat)
  BY <1>1 DEF Migrations
<1>3. Len(run[m].snapshot) \in Nat /\ Len(run[m].rows) \in Nat
  BY <1>2
<1> QED BY <1>1, <1>2, <1>3 DEF Migrations, MigrationInv, RunsHold

\* A transaction is added to one of the SQLite files: a migration that relies on the
\* files being the same began after the writers were stopped.
LEMMA WriteSourceKeeps ==
  ASSUME MigrationInv, NEW d \in Names, WriteSource(d)
  PROVE  MigrationInv'
<1>1. /\ ~stopped /\ source' = [source EXCEPT ![d] = source[d] + 1]
      /\ source \in [Names -> Nat \ {0}] /\ UNCHANGED <<stopped, target, run, fresh, cut>>
  BY DEF WriteSource, MigrationInv, MigrationTypeOK
<1>2. /\ source' \in [Names -> Nat \ {0}]
      /\ \A e \in Names : source[e] \in Nat /\ source'[e] \in Nat /\ source[e] <= source'[e]
  BY <1>1
<1>3. \A e \in Names : \A k \in 1 .. source[e] : k \in 1 .. source'[e]
  BY <1>2
<1>4. MigrationTypeOK'
  BY <1>1, <1>2 DEF MigrationInv, MigrationTypeOK
<1>5. ASSUME NEW m \in Migrators, run[m] # Idle
      PROVE  ReadsHold(run[m], source', stopped) /\ CopiesHold(run[m], source')
  <2>1. /\ ReadsHold(run[m], source, stopped) /\ CopiesHold(run[m], source)
        /\ Len(run[m].snapshot) \in Nat
    BY <1>5, MigrationAt
  <2>2. ~run[m].still
    BY <1>1, <2>1 DEF ReadsHold
  <2>3. ReadsHold(run[m], source', stopped)
    <3>1. ~run[m].direct => \A n \in 1 .. Len(run[m].snapshot) : Databases[n] \in Names
      <4>1. ~run[m].direct => Len(run[m].snapshot) <= Len(Databases)
        BY <2>1, DatabaseCount DEF ReadsHold
      <4>2. ASSUME NEW n \in 1 .. Len(run[m].snapshot), ~run[m].direct
            PROVE  Databases[n] \in Names
        <5>1. n \in 1 .. Len(Databases)
          BY <2>1, <4>1, <4>2, DatabaseCount
        <5> QED BY <5>1, DatabasesAre
      <4> QED BY <4>2
    <3> QED BY <1>3, <2>1, <2>2, <3>1 DEF ReadsHold
  <2>4. ASSUME ~run[m].direct, NEW t PROVE RowsOf(run[m], source', t) = RowsOf(run[m], source, t)
    BY <2>4 DEF RowsOf
  <2>5. CopiesHold(run[m], source')
    BY <2>1, <2>2, <2>4 DEF CopiesHold
  <2> QED BY <2>3, <2>5
<1>6. RunsHold'
  BY <1>1, <1>5 DEF RunsHold
<1>7. CutOf(target, source', stopped, cut, fresh)
  <2>1. CutOf(target, source, stopped, cut, fresh)
    BY DEF MigrationInv
  <2> QED BY <1>1, <1>3, <2>1 DEF CutOf
<1>8. (OneCopies /\ AddsToNone /\ AllOrNone)'
  BY <1>1 DEF MigrationInv, OneCopies, AddsToNone, AllOrNone, Unmigrated, Copies
<1> QED BY <1>1, <1>4, <1>6, <1>7, <1>8 DEF MigrationInv

\* The writers of the files are stopped.
LEMMA StopWritersKeeps ==
  ASSUME MigrationInv, StopWriters
  PROVE  MigrationInv'
<1>1. stopped' = TRUE /\ UNCHANGED <<source, target, run, fresh, cut>>
  BY DEF StopWriters
<1>2. MigrationTypeOK'
  BY <1>1 DEF MigrationInv, MigrationTypeOK
<1>3. RunsHold'
  <2>1. \A m \in Migrators : run[m] # Idle =>
          ReadsHold(run[m], source, stopped') /\ CopiesHold(run[m], source)
    BY <1>1 DEF MigrationInv, RunsHold, ReadsHold
  <2> QED BY <1>1, <2>1 DEF RunsHold
<1>4. CutOf(target, source, stopped', cut, fresh)
  BY <1>1 DEF MigrationInv, CutOf
<1>5. (OneCopies /\ AddsToNone /\ AllOrNone)'
  BY <1>1 DEF MigrationInv, OneCopies, AddsToNone, AllOrNone, Unmigrated, Copies
<1> QED BY <1>1, <1>2, <1>3, <1>4, <1>5 DEF MigrationInv

\* The runtime writes a row of its own to a table of the target.
LEMMA WriteTargetKeeps ==
  ASSUME MigrationInv, NEW t \in WrittenTables, WriteTarget(t)
  PROVE  MigrationInv'
<1>1. /\ target' = [target EXCEPT ![t] = target[t] \cup {Runtime}]
      /\ fresh' = [fresh EXCEPT ![t] = fresh[t] \cup {Runtime}]
      /\ target \in [Tables -> SUBSET Nat] /\ fresh \in [Tables -> SUBSET Nat]
      /\ UNCHANGED <<source, stopped, run, cut>> /\ t \in Tables
  BY TablesAre DEF WriteTarget, MigrationInv, MigrationTypeOK
<1>2. \A u \in Tables : /\ target'[u] \ {Runtime} = target[u] \ {Runtime}
                        /\ target[u] \subseteq target'[u]
  BY <1>1
<1>3. MigrationTypeOK'
  <2>1. target' \in [Tables -> SUBSET Nat] /\ fresh' \in [Tables -> SUBSET Nat]
    BY <1>1 DEF Runtime
  <2> QED BY <1>1, <2>1 DEF MigrationInv, MigrationTypeOK
<1>4. RunsHold' /\ OneCopies'
  <2>1. RunsHold'
    BY <1>1 DEF MigrationInv, RunsHold
  <2> QED BY <1>1, <2>1 DEF MigrationInv, OneCopies, Copies
<1>5. Unmigrated(target) => Unmigrated(target')
  BY <1>2 DEF Unmigrated
<1>6. AddsToNone' /\ AllOrNone'
  <2>1. \A m \in Migrators : Copies(run[m]) /\ ~run[m].replace => Unmigrated(target')
    BY <1>5 DEF MigrationInv, AddsToNone
  <2>2. Unmigrated(target') \/ \A u \in Tables : 1 \in target'[u]
    BY <1>2, <1>5 DEF MigrationInv, AllOrNone
  <2>3. AddsToNone'
    BY <1>1, <2>1 DEF AddsToNone, Unmigrated, Copies
  <2>4. AllOrNone'
    BY <2>2 DEF AllOrNone, Unmigrated
  <2> QED BY <2>3, <2>4
<1>7. CutOf(target', source, stopped, cut, fresh')
  <2>1. CutOf(target, source, stopped, cut, fresh)
    BY DEF MigrationInv
  <2>2. \A u \in Tables : fresh'[u] \subseteq target'[u]
    BY <1>1, <2>1 DEF CutOf
  <2>3. \A d \in Names : \A u \in ToSet(TablesOf[d]) :
          target'[u] \ {Runtime} = target[u] \ {Runtime}
    BY <1>2, TablesAre
  <2> QED BY <1>5, <2>1, <2>2, <2>3 DEF CutOf
<1> QED BY <1>1, <1>3, <1>4, <1>6, <1>7 DEF MigrationInv

(***************************************************************************)
(* Steps of a migration                                                     *)
(***************************************************************************)
\* A migration moves to a state of which the invariant holds; one that begins to copy
\* is alone, and where it does not replace it finds no row of another.
LEMMA OnlyRuns ==
  ASSUME MigrationInv, NEW m \in Migrators, NEW r \in Migrations \cup {Idle},
         Becomes(m, r), Elsewhere,
         r # Idle => ReadsHold(r, source, stopped) /\ CopiesHold(r, source),
         Copies(r) =>
            \/ Copies(run[m]) /\ run[m].replace = r.replace
            \/ /\ \A n \in Migrators : n # m => ~Copies(run[n])
               /\ ~r.replace => Unmigrated(target)
  PROVE  MigrationInv'
<1>1. /\ run' = [run EXCEPT ![m] = r] /\ run \in [Migrators -> Migrations \cup {Idle}]
      /\ UNCHANGED <<source, stopped, target, fresh, cut>>
  BY DEF Becomes, Elsewhere, MigrationInv, MigrationTypeOK
<1>2. run'[m] = r /\ \A n \in Migrators : n # m => run'[n] = run[n]
  BY <1>1
<1>3. MigrationTypeOK'
  BY <1>1 DEF MigrationInv, MigrationTypeOK
<1>4. RunsHold'
  <2>1. \A n \in Migrators : run'[n] # Idle =>
          ReadsHold(run'[n], source, stopped) /\ CopiesHold(run'[n], source)
    BY <1>2 DEF MigrationInv, RunsHold
  <2> QED BY <1>1, <2>1 DEF RunsHold
<1>5. OneCopies'
  <2> SUFFICES ASSUME NEW j \in Migrators, NEW n \in Migrators,
                      Copies(run'[j]), Copies(run'[n])
               PROVE  j = n
    BY DEF OneCopies, Copies
  <2> QED BY <1>2 DEF MigrationInv, OneCopies
<1>6. AddsToNone'
  <2>1. ASSUME NEW n \in Migrators, Copies(run'[n]), ~run'[n].replace
        PROVE  Unmigrated(target)
    <3>1. CASE n = m
      BY <1>2, <2>1, <3>1 DEF MigrationInv, AddsToNone
    <3>2. CASE n # m
      BY <1>2, <2>1, <3>2 DEF MigrationInv, AddsToNone
    <3> QED BY <3>1, <3>2
  <2> QED BY <1>1, <2>1 DEF AddsToNone, Unmigrated, Copies
<1>7. AllOrNone'
  BY <1>1 DEF MigrationInv, AllOrNone, Unmigrated
<1> QED BY <1>1, <1>3, <1>4, <1>5, <1>6, <1>7 DEF MigrationInv

\* A migration that fails, at whatever point, leaves everything as it was.
LEMMA FailsKeeps ==
  ASSUME MigrationInv, NEW m \in Migrators, Fails(m), Elsewhere
  PROVE  MigrationInv'
  BY OnlyRuns DEF Fails, Copies

\* A migration begins with nothing read and nothing copied.
LEMMA BeginKeeps ==
  ASSUME MigrationInv, NEW m \in Migrators, NEW replace \in BOOLEAN, NEW direct \in BOOLEAN,
         Begin(m, replace, direct)
  PROVE  MigrationInv'
<1> DEFINE r == [at |-> IF direct THEN "prepare" ELSE "snapshot", replace |-> replace,
                 direct |-> direct, snapshot |-> <<>>, rows |-> <<>>, still |-> stopped]
<1>1. Becomes(m, r) /\ Elsewhere
  BY DEF Begin
<1>2. stopped \in BOOLEAN
  BY DEF MigrationInv, MigrationTypeOK
<1>3. r \in Migrations
  BY <1>2 DEF Migrations
<1>4. /\ r.at = (IF direct THEN "prepare" ELSE "snapshot") /\ r.direct = direct
      /\ Len(r.snapshot) = 0 /\ Len(r.rows) = 0 /\ r.still = stopped
  OBVIOUS
<1> HIDE DEF r
<1>5. ReadsHold(r, source, stopped)
  BY <1>4, DatabaseCount DEF ReadsHold
<1>6. CopiesHold(r, source) /\ ~Copies(r)
  BY <1>4, TablesAre DEF CopiesHold, Copies
<1> QED BY <1>1, <1>3, <1>5, <1>6, OnlyRuns

\* _snapshot_sources reads the next database as it is.
LEMMA SnapshotKeeps ==
  ASSUME MigrationInv, NEW m \in Migrators, Snapshot(m)
  PROVE  MigrationInv'
<1> DEFINE s == run[m]
           k == Len(s.snapshot) + 1
           d == Databases[k]
           r == [s EXCEPT !.snapshot = Append(s.snapshot, source[d]),
                          !.at = IF d = Last(Databases) THEN "prepare" ELSE s.at]
<1>1. s.at = "snapshot" /\ Becomes(m, r) /\ Elsewhere
  BY DEF Snapshot
<1>2. s # Idle
  BY <1>1 DEF Idle
<1>3. /\ s \in Migrations /\ s.snapshot \in Seq(Nat) /\ Len(s.snapshot) \in Nat
      /\ ReadsHold(s, source, stopped) /\ CopiesHold(s, source) /\ Len(s.rows) \in Nat
  BY <1>2, MigrationAt
<1>4. /\ ~s.direct /\ Len(s.snapshot) < Len(Databases) /\ Len(s.rows) = 0
  BY <1>1, <1>3 DEF ReadsHold, CopiesHold
<1>5. k \in 1 .. Len(Databases) /\ d \in Names
  <2>1. k \in 1 .. Len(Databases)
    BY <1>3, <1>4, DatabaseCount
  <2> QED BY <2>1, DatabasesAre
<1>6. source[d] \in Nat /\ source[d] \in 1 .. source[d]
  BY <1>5 DEF MigrationInv, MigrationTypeOK
<1> DEFINE q == Append(s.snapshot, source[d])
<1>7. /\ q \in Seq(Nat) /\ Len(q) = k /\ q[k] = source[d]
      /\ \A n \in 1 .. Len(s.snapshot) : q[n] = s.snapshot[n]
  BY <1>3, <1>6
<1> DEFINE at == IF d = Last(Databases) THEN "prepare" ELSE s.at
<1>8. at \in {"prepare", "snapshot"} /\ (at = "snapshot" => k < Len(Databases))
      /\ (at = "prepare" => k = Len(Databases))
  <2>1. d = Last(Databases) => k = Len(Databases)
    BY <1>5, DatabasesAre
  <2>2. d # Last(Databases) => k # Len(Databases)
    BY DEF Last
  <2>3. k # Len(Databases) => k < Len(Databases)
    <3> DEFINE j == Len(s.snapshot)
               N == Len(Databases)
    <3>1. j \in Nat /\ N \in Nat /\ j < N
      BY <1>3, <1>4, DatabaseCount
    <3> HIDE DEF j, N
    <3>2. j + 1 # N => j + 1 < N
      BY <3>1
    <3> QED BY <3>2 DEF j, N
  <2> QED BY <1>1, <2>1, <2>2, <2>3
<1> HIDE DEF at, q
<1>9. /\ r \in Migrations /\ r.at = at /\ r.snapshot = q /\ r.direct = s.direct
      /\ r.rows = s.rows /\ r.still = s.still
  <2>1. r = [s EXCEPT !.snapshot = q, !.at = at]
    BY DEF at, q
  <2> HIDE DEF r
  <2> QED BY <1>3, <1>7, <1>8, <2>1 DEF Migrations
<1> HIDE DEF r
<1>10. ReadsHold(r, source, stopped)
  <2>1. ASSUME NEW n \in 1 .. Len(q)
        PROVE  q[n] \in 1 .. source[Databases[n]] /\ (s.still => q[n] = source[Databases[n]])
    <3>1. CASE n = k
      BY <1>6, <1>7, <3>1
    <3>2. CASE n # k
      <4>1. n \in 1 .. Len(s.snapshot)
        BY <1>3, <1>7, <3>2
      <4> QED BY <1>3, <1>4, <1>7, <4>1 DEF ReadsHold
    <3> QED BY <3>1, <3>2
  <2>2. s.still => stopped
    BY <1>3 DEF ReadsHold
  <2> QED BY <1>4, <1>7, <1>8, <1>9, <2>1, <2>2 DEF ReadsHold
<1>11. CopiesHold(r, source) /\ ~Copies(r)
  BY <1>4, <1>8, <1>9 DEF CopiesHold, Copies
<1> QED BY <1>1, <1>9, <1>10, <1>11, OnlyRuns

\* A migration goes from one point to the next and leaves its reads and copies alone.
LEMMA PointKeeps ==
  ASSUME MigrationInv, NEW m \in Migrators, run[m] # Idle, run[m].at # "snapshot",
         NEW at \in {"truncate", "copy", "commit"}, Elsewhere,
         Becomes(m, [run[m] EXCEPT !.at = at]),
         at = "truncate" => run[m].replace,
         at = "commit" => run[m].at = "count",
         at # "commit" => run[m].at \in {"prepare", "truncate"}
  PROVE  MigrationInv'
<1> DEFINE s == run[m]
           r == [s EXCEPT !.at = at]
<1>1. /\ s \in Migrations /\ Len(s.rows) \in Nat
      /\ ReadsHold(s, source, stopped) /\ CopiesHold(s, source)
  BY MigrationAt
<1>2. /\ r \in Migrations /\ r.at = at /\ r.snapshot = s.snapshot /\ r.direct = s.direct
      /\ r.rows = s.rows /\ r.still = s.still /\ r.replace = s.replace
  BY <1>1 DEF Migrations
<1> HIDE DEF r
<1>3. ReadsHold(r, source, stopped)
  BY <1>1, <1>2 DEF ReadsHold
<1>4. \A t : RowsOf(r, source, t) = RowsOf(s, source, t)
  BY <1>2 DEF RowsOf
<1>5. CopiesHold(r, source)
  BY <1>1, <1>2, <1>4, TablesAre DEF CopiesHold
<1>6. Copies(r) => Copies(s) /\ s.replace = r.replace
  BY <1>2 DEF Copies
<1> QED BY <1>2, <1>3, <1>5, <1>6, OnlyRuns DEF r

\* _prepare_target: a populated target fails the migration unless it is replaced.
LEMMA PrepareKeeps ==
  ASSUME MigrationInv, NEW m \in Migrators, PrepareTarget(m)
  PROVE  MigrationInv'
<1> DEFINE at == IF run[m].replace THEN "truncate" ELSE "copy"
<1>1. run[m].at = "prepare" /\ Elsewhere
  BY DEF PrepareTarget
<1>2. Fails(m) \/ Becomes(m, [run[m] EXCEPT !.at = at])
  BY DEF PrepareTarget
<1>3. run[m] # Idle
  BY <1>1 DEF Idle
<1> QED BY <1>1, <1>2, <1>3, FailsKeeps, PointKeeps

\* TRUNCATE.
LEMMA TruncateKeeps ==
  ASSUME MigrationInv, NEW m \in Migrators, Truncate(m)
  PROVE  MigrationInv'
<1>1. run[m].at = "truncate" /\ Elsewhere /\ Becomes(m, [run[m] EXCEPT !.at = "copy"])
  BY DEF Truncate
<1>2. run[m] # Idle
  BY <1>1 DEF Idle
<1> QED BY <1>1, <1>2, PointKeeps

\* The counts of all tables.
LEMMA CountRowsKeeps ==
  ASSUME MigrationInv, NEW m \in Migrators, CountRows(m)
  PROVE  MigrationInv'
<1>1. run[m].at = "count" /\ Elsewhere
  BY DEF CountRows
<1>2. Fails(m) \/ Becomes(m, [run[m] EXCEPT !.at = "commit"])
  BY DEF CountRows
<1>3. run[m] # Idle
  BY <1>1 DEF Idle
<1> QED BY <1>1, <1>2, <1>3, FailsKeeps, PointKeeps

\* The rows that a migration reads of a table: never none, and all of its database up
\* to one transaction, the last one where the writers were stopped before.
LEMMA RowsRead ==
  ASSUME MigrationInv, NEW m \in Migrators, run[m] # Idle, run[m].at # "snapshot",
         NEW d \in Names
  PROVE  \E k \in 1 .. source[d] :
           /\ \A t \in ToSet(TablesOf[d]) : RowsOf(run[m], source, t) = 1 .. k
           /\ run[m].direct \/ run[m].still => k = source[d]
<1> DEFINE s == run[m]
<1>1. source[d] \in Nat /\ source[d] \in 1 .. source[d]
  BY DEF MigrationInv, MigrationTypeOK
<1>2. \A t \in ToSet(TablesOf[d]) : Home(t) = d
  BY TablesAre
<1>3. CASE s.direct
  <2>1. \A t \in ToSet(TablesOf[d]) : RowsOf(s, source, t) = 1 .. source[d]
    BY <1>2, <1>3 DEF RowsOf
  <2> QED BY <1>1, <2>1
<1>4. CASE ~s.direct
  <2> DEFINE k == s.snapshot[Place(d)]
  <2>1. ReadsHold(s, source, stopped)
    BY MigrationAt
  <2>2. Place(d) \in 1 .. Len(Databases) /\ Databases[Place(d)] = d
    BY DatabasesAre
  <2>3. Place(d) \in 1 .. Len(s.snapshot)
    BY <1>4, <2>1, <2>2 DEF ReadsHold
  <2>4. k \in 1 .. source[d] /\ (s.still => k = source[d])
    BY <1>4, <2>1, <2>2, <2>3 DEF ReadsHold
  <2>5. \A t \in ToSet(TablesOf[d]) : RowsOf(s, source, t) = 1 .. k
    BY <1>2, <1>4, Zenon DEF RowsOf, Place
  <2> QED BY <1>4, <2>4, <2>5
<1> QED BY <1>3, <1>4

\* A migration has copied only when its transaction is open.
LEMMA CopiesAreOpen ==
  ASSUME MigrationInv, NEW m \in Migrators, Copies(run[m])
  PROVE  /\ Opened(m) /\ Len(run[m].rows) \in Nat /\ DOMAIN run[m].rows = 1 .. Len(run[m].rows)
         /\ 1 \in Copied(m, AllTables[1])
<1>1. /\ run[m] # Idle /\ Len(run[m].rows) > 0 /\ Len(run[m].rows) \in Nat
      /\ run[m] \in Migrations /\ run[m].rows \in Seq(SUBSET Nat) /\ CopiesHold(run[m], source)
  BY MigrationAt DEF Copies
<1>2. Opened(m)
  BY <1>1 DEF CopiesHold, Opened, Migrations
<1>3. DOMAIN run[m].rows = 1 .. Len(run[m].rows) /\ 1 \in 1 .. Len(run[m].rows)
  BY <1>1
<1>4. 1 \in run[m].rows[1]
  BY <1>1, <1>3 DEF CopiesHold
<1> QED BY <1>1, <1>2, <1>3, <1>4 DEF Copied

\* _copy_table.
LEMMA CopyTableKeeps ==
  ASSUME MigrationInv, NEW m \in Migrators, CopyTable(m)
  PROVE  MigrationInv'
<1> DEFINE s == run[m]
           k == Len(s.rows) + 1
           t == AllTables[k]
           rows == RowsOf(s, source, t)
           there == IF s.replace THEN {} ELSE target[t]
           at == IF k = Len(AllTables) THEN "count" ELSE s.at
           q == Append(s.rows, rows)
           r == [s EXCEPT !.rows = q, !.at = at]
<1>0. SourceRows(m, t) = rows
  BY Zenon DEF SourceRows, RowsOf
<1>1. /\ s.at = "copy" /\ Elsewhere
      /\ \A n \in Migrators \ {m} : Opened(n) => Copied(n, t) \cap rows = {}
      /\ IF rows \cap there # {} THEN Fails(m) ELSE Becomes(m, r)
  BY <1>0 DEF CopyTable
<1>2. s # Idle
  BY <1>1 DEF Idle
<1>3. /\ s \in Migrations /\ s.rows \in Seq(SUBSET Nat) /\ Len(s.rows) \in Nat
      /\ ReadsHold(s, source, stopped) /\ CopiesHold(s, source)
  BY <1>2, MigrationAt
<1>4. CASE rows \cap there # {}
  BY <1>1, <1>4, FailsKeeps
<1>5. CASE rows \cap there = {}
  <2>1. Len(s.rows) < Len(AllTables) /\ Len(AllTables) \in Nat
    BY <1>1, <1>3, TablesAre DEF CopiesHold
  <2>2. k \in 1 .. Len(AllTables)
    BY <1>3, <2>1
  <2>3. t \in Tables
    BY <2>2, TablesAre
  <2>4. rows \in SUBSET Nat /\ 1 \in rows /\ Runtime \notin rows
    <3>1. Home(t) \in Names /\ t \in ToSet(TablesOf[Home(t)])
      BY <2>3, TablesAre
    <3>2. PICK j \in 1 .. source[Home(t)] : rows = 1 .. j
      BY <1>1, <1>2, <3>1, RowsRead
    <3>3. source[Home(t)] \in Nat
      BY <3>1 DEF MigrationInv, MigrationTypeOK
    <3> QED BY <3>2, <3>3 DEF Runtime
  <2>5. /\ q \in Seq(SUBSET Nat) /\ Len(q) = k /\ q[k] = rows
        /\ \A n \in 1 .. Len(s.rows) : q[n] = s.rows[n]
    BY <1>3, <2>4
  <2>6. /\ at \in {"copy", "count"} /\ (at = "copy" => k < Len(AllTables))
        /\ (at = "count" => k = Len(AllTables))
    BY <1>1, <1>3, <2>1
  <2> HIDE DEF q, at, rows
  <2>7. /\ r \in Migrations /\ r.at = at /\ r.snapshot = s.snapshot /\ r.direct = s.direct
        /\ r.rows = q /\ r.still = s.still /\ r.replace = s.replace
    BY <1>3, <2>5, <2>6 DEF Migrations
  <2>8. Becomes(m, r)
    BY <1>1, <1>5
  <2> HIDE DEF r
  <2>9. ReadsHold(r, source, stopped)
    BY <1>1, <1>3, <2>6, <2>7 DEF ReadsHold
  <2>10. \A u : RowsOf(r, source, u) = RowsOf(s, source, u)
    BY <2>7 DEF RowsOf
  <2>11. CopiesHold(r, source)
    <3>1. ASSUME NEW n \in 1 .. Len(q)
          PROVE  /\ 1 \in q[n] /\ Runtime \notin q[n]
                 /\ ~s.direct \/ s.still => q[n] = RowsOf(s, source, AllTables[n])
      <4>1. CASE n = k
        BY <2>4, <2>5, <4>1 DEF rows
      <4>2. CASE n # k
        <5>1. n \in 1 .. Len(s.rows)
          BY <1>3, <2>5, <4>2
        <5> QED BY <1>3, <2>5, <5>1 DEF CopiesHold
      <4> QED BY <4>1, <4>2
    <3> QED BY <2>5, <2>6, <2>7, <2>10, <3>1 DEF CopiesHold
  <2>12. ASSUME ~Copies(s)
         PROVE  /\ \A n \in Migrators : n # m => ~Copies(run[n])
                /\ ~s.replace => Unmigrated(target)
    <3>1. k = 1
      BY <1>2, <1>3, <2>12 DEF Copies
    <3>2. ASSUME NEW n \in Migrators, n # m, Copies(run[n]) PROVE FALSE
      <4>1. Opened(n) /\ 1 \in Copied(n, t)
        BY <3>1, <3>2, CopiesAreOpen
      <4> QED BY <1>1, <2>4, <3>2, <4>1
    <3>3. ASSUME ~s.replace PROVE Unmigrated(target)
      <4>1. 1 \notin target[t]
        BY <1>5, <2>4, <3>3
      <4> QED BY <2>3, <4>1 DEF MigrationInv, AllOrNone
    <3> QED BY <3>2, <3>3
  <2> QED BY <1>1, <2>7, <2>8, <2>9, <2>11, <2>12, OnlyRuns
<1> QED BY <1>4, <1>5

\* The commit: what the transaction has copied becomes the target.
LEMMA CommitMigrationKeeps ==
  ASSUME MigrationInv, NEW m \in Migrators, CommitMigration(m)
  PROVE  MigrationInv'
<1> DEFINE s == run[m]
           base(t) == IF s.replace THEN {} ELSE target[t]
<1>1. /\ s.at = "commit" /\ run' = [run EXCEPT ![m] = Idle]
      /\ UNCHANGED <<source, stopped>>
      /\ target' = [t \in Tables |-> base(t) \cup Copied(m, t)]
      /\ fresh' = IF s.replace THEN [t \in Tables |-> {}] ELSE fresh
      /\ cut' = IF s.still THEN "final" ELSE IF s.direct THEN "live" ELSE "snapshot"
  BY DEF CommitMigration, Fails, Becomes
<1>2. s # Idle
  BY <1>1 DEF Idle
<1>3. /\ s \in Migrations /\ s.rows \in Seq(SUBSET Nat) /\ Len(s.rows) \in Nat
      /\ ReadsHold(s, source, stopped) /\ CopiesHold(s, source)
  BY <1>2, MigrationAt
<1>4. /\ Len(s.rows) = Len(AllTables) /\ Len(AllTables) > 0 /\ Len(AllTables) \in Nat
      /\ DOMAIN s.rows = 1 .. Len(AllTables)
  BY <1>1, <1>3, TablesAre DEF CopiesHold
<1>5. Copies(s)
  BY <1>2, <1>4 DEF Copies
<1>6. ASSUME NEW t \in Tables
      PROVE  /\ Copied(m, t) \subseteq Nat /\ 1 \in Copied(m, t) /\ Runtime \notin Copied(m, t)
             /\ ~s.direct \/ s.still => Copied(m, t) = RowsOf(s, source, t)
  <2> DEFINE K == {n \in DOMAIN s.rows : AllTables[n] = t}
  <2>1. Copied(m, t) = UNION {s.rows[n] : n \in K}
    BY DEF Copied
  <2>2. \A n \in K : /\ s.rows[n] \subseteq Nat /\ 1 \in s.rows[n] /\ Runtime \notin s.rows[n]
                     /\ ~s.direct \/ s.still => s.rows[n] = RowsOf(s, source, t)
    <3> SUFFICES ASSUME NEW n \in K
                 PROVE  /\ s.rows[n] \subseteq Nat /\ 1 \in s.rows[n] /\ Runtime \notin s.rows[n]
                        /\ ~s.direct \/ s.still => s.rows[n] = RowsOf(s, source, t)
      OBVIOUS
    <3>1. n \in 1 .. Len(s.rows) /\ AllTables[n] = t
      BY <1>4
    <3>2. s.rows[n] \in SUBSET Nat
      BY <1>3, <3>1
    <3> QED BY <1>3, <3>1, <3>2 DEF CopiesHold
  <2>3. PICK n \in 1 .. Len(AllTables) : AllTables[n] = t
    BY TablesAre
  <2>4. n \in K
    BY <1>4, <2>3
  <2> HIDE DEF K
  <2> QED BY <2>1, <2>2, <2>4
<1>7. \A t \in Tables : base(t) \ {Runtime} = {} /\ base(t) \subseteq Nat
  <2>1. target \in [Tables -> SUBSET Nat]
    BY DEF MigrationInv, MigrationTypeOK
  <2>2. ~s.replace => Unmigrated(target)
    BY <1>5 DEF MigrationInv, AddsToNone
  <2> QED BY <2>1, <2>2 DEF Unmigrated
<1>8. \A t \in Tables : target'[t] \ {Runtime} = Copied(m, t) /\ 1 \in target'[t]
                        /\ target'[t] \subseteq Nat /\ base(t) \subseteq target'[t]
  <2> SUFFICES ASSUME NEW t \in Tables
               PROVE  /\ target'[t] \ {Runtime} = Copied(m, t) /\ 1 \in target'[t]
                      /\ target'[t] \subseteq Nat /\ base(t) \subseteq target'[t]
    OBVIOUS
  <2>1. target'[t] = base(t) \cup Copied(m, t)
    BY <1>1
  <2> HIDE DEF base
  <2> QED BY <1>6, <1>7, <2>1
<1>9. MigrationTypeOK'
  <2>1. target' \in [Tables -> SUBSET Nat]
    <3>1. target' = [t \in Tables |-> target'[t]]
      BY <1>1
    <3> QED BY <1>8, <3>1
  <2>2. fresh' \in [Tables -> SUBSET Nat]
    BY <1>1 DEF MigrationInv, MigrationTypeOK
  <2>3. run' \in [Migrators -> Migrations \cup {Idle}]
    BY <1>1 DEF MigrationInv, MigrationTypeOK
  <2>4. cut' \in {"empty", "live", "snapshot", "final"}
    BY <1>1
  <2> QED BY <1>1, <2>1, <2>2, <2>3, <2>4 DEF MigrationInv, MigrationTypeOK
<1>10. run'[m] = Idle /\ \A n \in Migrators : n # m => run'[n] = run[n]
  BY <1>1 DEF MigrationInv, MigrationTypeOK
<1>11. RunsHold'
  <2>1. \A n \in Migrators : run'[n] # Idle =>
          ReadsHold(run'[n], source, stopped) /\ CopiesHold(run'[n], source)
    BY <1>10 DEF MigrationInv, RunsHold
  <2> QED BY <1>1, <2>1 DEF RunsHold
<1>12. \A n \in Migrators : ~Copies(run'[n])
  <2>1. ~Copies(Idle)
    BY DEF Copies
  <2> QED BY <1>5, <1>10, <2>1 DEF MigrationInv, OneCopies
<1>13. OneCopies' /\ AddsToNone'
  BY <1>12 DEF OneCopies, AddsToNone, Copies
<1>14. AllOrNone'
  BY <1>8 DEF AllOrNone
<1>15. CutOf(target', source, stopped, cut', fresh')
  <2>1. cut' # "empty"
    BY <1>1
  <2>2. ASSUME cut' = "snapshot", NEW d \in Names
        PROVE  \E k \in 1 .. source[d] :
                 \A t \in ToSet(TablesOf[d]) : target'[t] \ {Runtime} = 1 .. k
    <3>1. ~s.direct
      BY <1>1, <2>2
    <3>2. PICK k \in 1 .. source[d] : \A t \in ToSet(TablesOf[d]) : RowsOf(s, source, t) = 1 .. k
      BY <1>1, <1>2, RowsRead
    <3>3. \A t \in ToSet(TablesOf[d]) : t \in Tables
      BY TablesAre
    <3> QED BY <1>6, <1>8, <3>1, <3>2, <3>3
  <2>3. ASSUME cut' = "final"
        PROVE  stopped /\ \A d \in Names :
                 \A t \in ToSet(TablesOf[d]) : target'[t] \ {Runtime} = 1 .. source[d]
    <3>1. s.still
      BY <1>1, <2>3
    <3>2. stopped
      BY <1>3, <3>1 DEF ReadsHold
    <3>3. ASSUME NEW d \in Names, NEW t \in ToSet(TablesOf[d])
          PROVE  target'[t] \ {Runtime} = 1 .. source[d]
      <4>1. RowsOf(s, source, t) = 1 .. source[d]
        BY <1>1, <1>2, <3>1, RowsRead
      <4>2. t \in Tables
        BY TablesAre
      <4> QED BY <1>6, <1>8, <3>1, <4>1, <4>2
    <3> QED BY <3>2, <3>3
  <2>4. ASSUME NEW t \in Tables PROVE fresh'[t] \subseteq target'[t]
    <3>1. CASE s.replace
      BY <1>1, <3>1
    <3>2. CASE ~s.replace
      <4>1. fresh[t] \subseteq target[t]
        BY DEF MigrationInv, CutOf
      <4> QED BY <1>1, <1>8, <3>2, <4>1
    <3> QED BY <3>1, <3>2
  <2> QED BY <2>1, <2>2, <2>3, <2>4 DEF CutOf
<1> QED BY <1>1, <1>9, <1>11, <1>13, <1>14, <1>15 DEF MigrationInv

(***************************************************************************)
(* The theorem                                                              *)
(***************************************************************************)
\* Every step keeps the invariant.
LEMMA MigrationKeeps ==
  ASSUME MigrationInv, [MigrationNext]_migrationVars
  PROVE  MigrationInv'
<1>1. CASE UNCHANGED migrationVars
  <2>1. UNCHANGED <<source, stopped, target, run, fresh, cut>>
    BY <1>1 DEF migrationVars
  <2>2. MigrationTypeOK' /\ RunsHold'
    BY <2>1 DEF MigrationInv, MigrationTypeOK, RunsHold
  <2>3. (OneCopies /\ AddsToNone /\ AllOrNone)'
    BY <2>1 DEF MigrationInv, OneCopies, AddsToNone, AllOrNone, Unmigrated, Copies
  <2> QED BY <2>1, <2>2, <2>3 DEF MigrationInv
<1>2. ASSUME NEW m \in Migrators, FailMigration(m) PROVE MigrationInv'
  BY <1>2, FailsKeeps DEF FailMigration
<1> QED BY <1>1, <1>2, WriteSourceKeeps, StopWritersKeeps, WriteTargetKeeps, BeginKeeps,
        SnapshotKeeps, PrepareKeeps, TruncateKeeps, CopyTableKeeps, CountRowsKeeps,
        CommitMigrationKeeps DEF MigrationNext

\* What the invariant says of the target.
LEMMA CutIsSound == MigrationInv => TargetIsACut
  BY DEF MigrationInv, CutOf, TargetIsACut, Unmigrated

\* However migrations of migrate_sqlite_to_postgres fail, are repeated or overlap and
\* whatever the runtime writes meanwhile: the target holds of every database all rows
\* up to one transaction, of all databases or of none, and the rows written since.
THEOREM TargetIsAlwaysACut == MigrationSpec => []TargetIsACut
<1>1. MigrationInit => MigrationInv
  BY MigrationInitInv
<1>2. MigrationInv /\ [MigrationNext]_migrationVars => MigrationInv'
  BY MigrationKeeps
<1>3. MigrationInv => TargetIsACut
  BY CutIsSound
<1> QED BY <1>1, <1>2, <1>3, PTL DEF MigrationSpec

-----------------------------------------------------------------------------
(***************************************************************************)
(* The candle files: the inductive invariant                                *)
(***************************************************************************)
\* The fields of a sync.
Fields == {"at", "queue", "start", "end", "began", "since", "cursor", "records", "attempt",
           "combined", "alone"}

IsSync(r) ==
    r = [f \in Fields |-> r[f]] /\ r.start \in Int /\ r.end \in Int /\ r.began \in Nat

SyncTypeOK ==
    /\ now \in Nat
    /\ file = [p \in Pairs |-> file[p]]
    /\ repaired = [p \in Pairs |-> repaired[p]]
    /\ sync = [s \in Candles!Syncers |-> sync[s]]
    /\ \A s \in Candles!Syncers : IsSync(sync[s]) /\ sync[s].began <= now

\* These candles are there with their whole bar.
Whole(rows, candles) == \A b \in candles : b \in DOMAIN rows /\ rows[b] = Candles!Closes(b)

\* Only what has closed was repaired.
RepairedAreClosed ==
    \A p \in Pairs : \A b \in repaired[p] : b \in Traded[p] /\ Candles!Closes(b) <= now

\* A sync that is alone is: the other is idle.
AloneIsAlone ==
    \A s, o \in Candles!Syncers : sync[s].alone /\ s # o => sync[o].at = "idle"

\* The candles of p that have closed when the fetch began.
ClosedAt(r, p) == {b \in Traded[p] : Candles!Closes(b) <= r.began}

\* Those of them that the fetch was asked for: Repairs, of a sync that is alone.
Asked(r, p) ==
    {b \in ClosedAt(r, p) : r.start <= Candles!Opens(b) /\ Candles!Opens(b) < r.end}

\* What is on disk of a pair, published or about to be, has the repaired candles.
FilesHold ==
    \A p \in Pairs :
      /\ Sound(file[p], Candles!Syncers)
      /\ file[p].published = Absent => repaired[p] = {}
      /\ \A rows : Keeps(file[p], rows) => Whole(rows, repaired[p])

\* Only a sync that writes the file of a pair has opened it.
OpensHold ==
    \A p \in Pairs, s \in Candles!Syncers :
      file[p].open[s] # "no" => sync[s].at = "write" /\ Head(sync[s].queue) = p

\* What a sync s holds of its pair p, some candles of which are repaired, and of the
\* file.  A candle that has closed is fetched whole.  Pages go back from the
\* end without a gap.  The temporary file may be of the other sync, but not
\* where this one is alone.
FetchHolds(s, r, p, whole, f) ==
    /\ r.at \in {"page", "merge"} =>
         \A b \in DOMAIN r.records :
            b \in whole \cup ClosedAt(r, p) => r.records[b] = Candles!Closes(b)
    /\ r.at = "page" =>
         /\ r.cursor \in Int
         /\ {b \in ClosedAt(r, p) : r.cursor <= Candles!Opens(b) /\ Candles!Opens(b) < r.end}
              \subseteq DOMAIN r.records
    /\ r.at = "merge" => Asked(r, p) \subseteq DOMAIN r.records
    /\ r.at = "write" =>
         /\ Whole(r.combined, whole \cup Asked(r, p))
         /\ r.alone /\ f.open[s] = "closed" =>
              \A rows : f.temporary = Intact(rows) => Whole(rows, Asked(r, p))

InFile(r) == r.at \notin {"idle", "next"} /\ Head(r.queue) \in Pairs

SyncHolds(s, r, whole, f) ==
    LET p == Head(r.queue) IN InFile(r) => FetchHolds(s, r, p, whole[p], f[p])

FetchesHold == \A s \in Candles!Syncers : SyncHolds(s, sync[s], repaired, file)

SyncInv ==
    /\ SyncTypeOK /\ RepairedAreClosed /\ AloneIsAlone /\ FilesHold /\ OpensHold
    /\ FetchesHold

(***************************************************************************)
(* What a page holds                                                        *)
(***************************************************************************)
\* The least of a nonempty set of candles.
LEMMA LeastOf ==
  ASSUME NEW S, S \subseteq Nat, S # {}
  PROVE  Candles!Min(S) \in S /\ \A b \in S : Candles!Min(S) <= b
<1>1. PICK x \in S : \A y \in S : x <= y
  BY LeastNat
<1> QED BY <1>1 DEF Candles!Min

\* The candles that the exchange knows before the cursor.
Known(p, cursor) == {b \in Traded[p] : Candles!Opens(b) < cursor /\ Candles!Opens(b) <= now}

\* Those of them after b.
Later(p, cursor, b) == {c \in Known(p, cursor) : c > b}

LEMMA SameCount == \A S : Candles!Cardinality(S) = Cardinality(S)
BY Zenon DEF Candles!Cardinality, Cardinality

LEMMA ServedIs ==
  ASSUME NEW p, NEW cursor
  PROVE  /\ DOMAIN Candles!Served(p, cursor)
              = {b \in Known(p, cursor) : Cardinality(Later(p, cursor, b)) < Page}
         /\ \A b \in DOMAIN Candles!Served(p, cursor) :
              Candles!Served(p, cursor)[b] = Candles!Min({now, Candles!Closes(b)})
BY SameCount DEF Candles!Served, Known, Later

LEMMA KnownAre ==
  ASSUME NEW p \in Pairs, NEW cursor
  PROVE  /\ Known(p, cursor) \subseteq Nat /\ IsFiniteSet(Known(p, cursor))
         /\ \A b \in Known(p, cursor) :
              /\ IsFiniteSet(Later(p, cursor, b)) /\ Cardinality(Later(p, cursor, b)) \in Nat
<1>1. Traded[p] \subseteq Nat /\ IsFiniteSet(Traded[p])
  BY StoresAssumption
<1>2. Known(p, cursor) \in SUBSET Traded[p]
  BY DEF Known
<1>3. IsFiniteSet(Known(p, cursor))
  BY <1>1, <1>2, FS_Subset
<1>4. \A b : Later(p, cursor, b) \in SUBSET Known(p, cursor)
  BY DEF Later
<1>5. \A b : IsFiniteSet(Later(p, cursor, b))
  BY <1>3, <1>4, FS_Subset
<1> QED BY <1>1, <1>2, <1>3, <1>5, FS_CardinalityType

\* A page leaves out nothing between two of its candles, and nothing after its first.
LEMMA PageHasNoGap ==
  ASSUME NEW p \in Pairs, NEW cursor, NEW a \in DOMAIN Candles!Served(p, cursor),
         NEW b \in Known(p, cursor), a <= b
  PROVE  b \in DOMAIN Candles!Served(p, cursor)
<1>1. a \in Known(p, cursor) /\ Cardinality(Later(p, cursor, a)) < Page
  BY ServedIs
<1>2. a \in Nat /\ b \in Nat /\ IsFiniteSet(Later(p, cursor, a))
  BY <1>1, KnownAre
<1>3. Later(p, cursor, b) \in SUBSET Later(p, cursor, a)
  BY <1>2, KnownAre DEF Later
<1>4. Cardinality(Later(p, cursor, b)) <= Cardinality(Later(p, cursor, a))
  BY <1>2, <1>3, FS_Subset
<1>5. Cardinality(Later(p, cursor, a)) \in Nat /\ Cardinality(Later(p, cursor, b)) \in Nat
  BY <1>1, KnownAre
<1>6. Page \in Nat
  BY StoresAssumption
<1>7. Cardinality(Later(p, cursor, b)) < Page
  BY <1>1, <1>4, <1>5, <1>6
<1> QED BY <1>7, ServedIs

\* A short page holds all there is: after the last candle it left out there would be
\* a page of them.
LEMMA ShortPageIsAll ==
  ASSUME NEW p \in Pairs, NEW cursor,
         Cardinality(DOMAIN Candles!Served(p, cursor)) < Page
  PROVE  DOMAIN Candles!Served(p, cursor) = Known(p, cursor)
<1> DEFINE D == DOMAIN Candles!Served(p, cursor)
           K == Known(p, cursor)
           n(b) == Cardinality(Later(p, cursor, b))
           T == {n(b) : b \in K \ D}
<1>1. D \in SUBSET K
  BY ServedIs
<1>2. Page \in Nat
  BY StoresAssumption
<1>3. \A b \in K : n(b) \in Nat
  BY KnownAre
<1>4. IsFiniteSet(D) /\ Cardinality(D) \in Nat
  BY <1>1, KnownAre, FS_Subset, FS_CardinalityType
<1>5. ASSUME NEW x \in K \ D  PROVE FALSE
  <2>1. T \subseteq Nat /\ T # {}
    BY <1>3, <1>5
  <2>2. PICK m \in T : \A y \in T : m <= y
    BY <2>1, LeastNat
  <2>3. PICK b \in K \ D : m = n(b)
    BY <2>2
  <2>4. \A c \in K \ D : n(b) <= n(c)
    BY <2>2, <2>3
  <2>5. b \in Nat /\ IsFiniteSet(Later(p, cursor, b)) /\ K \subseteq Nat
    BY <2>3, KnownAre
  <2>6. Later(p, cursor, b) \in SUBSET D
    <3> SUFFICES ASSUME NEW c \in Later(p, cursor, b), c \notin D
                 PROVE  FALSE
      OBVIOUS
    <3>1. c \in K \ D /\ c > b /\ c \in Nat
      BY <2>5 DEF Later
    <3>2. Later(p, cursor, c) \in SUBSET Later(p, cursor, b)
      BY <2>5, <3>1 DEF Later
    <3>3. c \notin Later(p, cursor, c)
      BY <3>1 DEF Later
    <3>4. Later(p, cursor, c) # Later(p, cursor, b)
      BY <3>3
    <3>5. n(c) # n(b) /\ n(c) <= n(b)
      BY <2>5, <3>2, <3>4, FS_Subset
    <3> HIDE DEF n
    <3> QED BY <1>3, <2>3, <2>4, <3>1, <3>5
  <2>7. n(b) <= Cardinality(D)
    BY <1>4, <2>6, FS_Subset
  <2>8. ~(n(b) < Page)
    BY <2>3, ServedIs
  <2>9. n(b) \in Nat
    BY <1>3, <2>3
  <2>10. Cardinality(D) < Page
    OBVIOUS
  <2> HIDE DEF n, D
  <2> QED BY <1>2, <1>4, <2>7, <2>8, <2>9, <2>10
<1> QED BY <1>1, <1>5

\* A candle that has closed is served whole.
LEMMA ServedWhole ==
  ASSUME now \in Nat, NEW p \in Pairs, NEW cursor, NEW b \in DOMAIN Candles!Served(p, cursor),
         Candles!Closes(b) <= now
  PROVE  Candles!Served(p, cursor)[b] = Candles!Closes(b)
<1>1. b \in Nat
  BY ServedIs, KnownAre
<1>2. Bar \in Nat
  BY StoresAssumption
<1>3. Candles!Closes(b) \in Nat
  BY <1>1, <1>2 DEF Candles!Closes, Candles!Opens
<1>4. Candles!Min({now, Candles!Closes(b)}) = Candles!Closes(b)
  BY <1>3, LeastOf
<1> QED BY <1>4, ServedIs

(***************************************************************************)
(* Steps that write no file                                                 *)
(***************************************************************************)
LEMMA IdleIs ==
  /\ IsSync(Candles!Idle) /\ Candles!Idle.began = 0 /\ Candles!Idle.at = "idle"
  /\ Candles!Idle.alone = FALSE /\ Candles!Idle.records = <<>>
BY DEF Candles!Idle, IsSync, Fields

\* The operators of a candle file are those of SharedFile.
LEMMA CandleFiles ==
  /\ Candles!Absent = Absent /\ Candles!Partial = Partial /\ Candles!Torn = Torn
  /\ \A v : /\ Candles!Intact(v) = Intact(v)
            /\ Candles!IsIntact(v) <=> IsIntact(v)
            /\ Candles!Within(v) = Within(v)
            /\ Candles!NewFile(v) = NewFile(v) /\ Candles!Killed(v) = Killed(v)
  /\ \A f, w : /\ Candles!IsOpen(f, w) <=> IsOpen(f, w)
               /\ Candles!Emptied(f, w) = Emptied(f, w)
               /\ Candles!Replaced(f, w) = Replaced(f, w)
               /\ Candles!Abandoned(f, w) = Abandoned(f, w)
  /\ \A f, w, v : /\ Candles!Written(f, w, v) = Written(f, w, v)
                  /\ Candles!Filled(f, w, v) = Filled(f, w, v)
<1>1. /\ Candles!Absent = Absent /\ Candles!Partial = Partial /\ Candles!Torn = Torn
      /\ \A v : /\ Candles!Intact(v) = Intact(v)
                /\ Candles!IsIntact(v) <=> IsIntact(v)
                /\ Candles!Within(v) = Within(v)
  BY DEF Candles!Absent, Absent, Candles!Partial, Partial, Candles!Torn, Torn,
     Candles!Intact, Intact, Candles!IsIntact, IsIntact, Candles!Within, Within
<1>2. \A f, w : (Candles!Others(f, w) = Others(f, w)) /\ (Candles!IsOpen(f, w) <=> IsOpen(f, w))
  BY DEF Candles!Others, Others, Candles!IsOpen, IsOpen
<1>3. \A v : Candles!NewFile(v) = NewFile(v) /\ Candles!Killed(v) = Killed(v)
  BY <1>1 DEF Candles!NewFile, NewFile, Candles!Killed, Killed
<1>4. \A f, w : Candles!Emptied(f, w) = Emptied(f, w)
  BY <1>1, <1>2 DEF Candles!Emptied, Emptied
<1>5. \A f, w : Candles!Replaced(f, w) = Replaced(f, w)
  BY <1>1, <1>2 DEF Candles!Replaced, Replaced
<1>6. \A f, w : Candles!Abandoned(f, w) = Abandoned(f, w)
  BY DEF Candles!Abandoned, Abandoned
<1>7. \A f, w, v : Candles!Written(f, w, v) = Written(f, w, v)
  BY <1>1 DEF Candles!Written, Written
<1>8. \A f, w, v : Candles!Filled(f, w, v) = Filled(f, w, v)
  BY DEF Candles!Filled, Filled
<1> QED BY <1>1, <1>2, <1>3, <1>4, <1>5, <1>6, <1>7, <1>8

\* No sync is at work at first.
LEMMA SyncInitInv == Candles!Init => SyncInv
<1> SUFFICES ASSUME Candles!Init PROVE SyncInv
  OBVIOUS
<1> DEFINE new == NewFile(Candles!Syncers)
<1>1. /\ file = [p \in Pairs |-> new] /\ repaired = [p \in Pairs |-> {}]
      /\ sync = [s \in Candles!Syncers |-> Candles!Idle] /\ now = 0
  BY CandleFiles DEF Candles!Init
<1>2. SyncTypeOK
  BY <1>1, IdleIs DEF SyncTypeOK
<1>3. /\ Sound(new, Candles!Syncers) /\ new.open = [s \in Candles!Syncers |-> "no"]
      /\ \A v : ~Keeps(new, v)
  BY NewFileSound
<1> HIDE DEF new
<1>4. RepairedAreClosed /\ FilesHold /\ OpensHold
  BY <1>1, <1>3 DEF RepairedAreClosed, FilesHold, OpensHold
<1>5. AloneIsAlone /\ FetchesHold
  BY <1>1, IdleIs DEF AloneIsAlone, FetchesHold, SyncHolds, InFile
<1> QED BY <1>2, <1>4, <1>5 DEF SyncInv

\* What the invariant says, in the words of the property.
LEMMA SyncInvImplies == SyncInv => Candles!RepairedForGood
<1> SUFFICES ASSUME SyncInv, NEW p \in Pairs
             PROVE  /\ Candles!Readable(p) \/ file[p].shared
                    /\ file[p].published = Absent => repaired[p] = {}
                    /\ IsIntact(file[p].published) =>
                         \A b \in repaired[p] : /\ b \in DOMAIN Candles!Rows(p)
                                                /\ Candles!Rows(p)[b] = Candles!Closes(b)
  BY CandleFiles DEF Candles!RepairedForGood
<1>1. /\ Sound(file[p], Candles!Syncers) /\ (file[p].published = Absent => repaired[p] = {})
      /\ \A rows : Keeps(file[p], rows) => Whole(rows, repaired[p])
  BY DEF SyncInv, FilesHold
<1>2. Candles!Readable(p) \/ file[p].shared
  BY <1>1, CandleFiles DEF Candles!Readable, Sound
<1>3. ASSUME IsIntact(file[p].published)
      PROVE  Whole(Candles!Rows(p), repaired[p])
  <2>1. file[p].published = Intact(Within(file[p].published))
    BY <1>1, <1>3, ContentsDiffer DEF Sound, IsContent
  <2>2. Candles!Rows(p) = Within(file[p].published)
    BY <1>3, CandleFiles DEF Candles!Rows
  <2> QED BY <1>1, <2>1, <2>2 DEF Keeps
<1> QED BY <1>1, <1>2, <1>3 DEF Whole

\* Where the files, what is repaired and the time stay.
LEMMA FilesStay ==
  ASSUME SyncInv, UNCHANGED <<now, file, repaired>>
  PROVE  RepairedAreClosed' /\ FilesHold'
BY DEF SyncInv, RepairedAreClosed, FilesHold, Whole, Candles!Closes, Candles!Opens

\* A sync at work moves to a state that holds what it must.
LEMMA OnlySyncs ==
  ASSUME SyncInv, NEW s \in Candles!Syncers, NEW r, Candles!Becomes(s, r),
         UNCHANGED <<now, file, repaired>>, sync[s].at \notin {"idle", "write"},
         IsSync(r), r.began <= now, r.alone => sync[s].alone, SyncHolds(s, r, repaired, file)
  PROVE  SyncInv'
<1>1. sync' = [o \in Candles!Syncers |-> IF o = s THEN r ELSE sync[o]]
  BY DEF SyncInv, SyncTypeOK, Candles!Becomes
<1>2. SyncTypeOK'
  BY <1>1 DEF SyncInv, SyncTypeOK, IsSync
<1>3. OpensHold'
  BY <1>1 DEF SyncInv, OpensHold
<1>4. AloneIsAlone'
  BY <1>1 DEF SyncInv, AloneIsAlone
<1>5. FetchesHold'
  BY <1>1 DEF SyncInv, FetchesHold, SyncHolds, InFile, FetchHolds, ClosedAt, Asked, Whole,
      Candles!Closes, Candles!Opens
<1> QED BY <1>2, <1>3, <1>4, <1>5, FilesStay DEF SyncInv

\* Time goes on.
LEMMA TickKeeps == ASSUME SyncInv, Candles!Tick PROVE SyncInv'
<1>1. now \in Nat /\ now' = now + 1 /\ UNCHANGED <<file, sync, repaired>>
  BY DEF SyncInv, SyncTypeOK, Candles!Tick
<1>2. SyncTypeOK'
  BY <1>1 DEF SyncInv, SyncTypeOK, IsSync
<1>3. ASSUME NEW p \in Pairs, NEW b \in repaired[p]
      PROVE  b \in Traded[p] /\ Candles!Closes(b) <= now'
  <2>1. b \in Traded[p] /\ Candles!Closes(b) <= now
    BY <1>3 DEF SyncInv, RepairedAreClosed
  <2>2. b \in Nat /\ Bar \in Nat
    BY <1>3, <2>1, StoresAssumption
  <2>3. Candles!Closes(b) \in Nat
    BY <2>2 DEF Candles!Closes, Candles!Opens
  <2> QED BY <1>1, <2>1, <2>3
<1>4. RepairedAreClosed' /\ FilesHold' /\ OpensHold'
  <2>1. RepairedAreClosed'
    BY <1>1, <1>3 DEF RepairedAreClosed, Candles!Closes, Candles!Opens
  <2>2. FilesHold' /\ OpensHold'
    BY <1>1 DEF SyncInv, FilesHold, OpensHold, Whole, Candles!Closes, Candles!Opens
  <2> QED BY <2>1, <2>2
<1>5. AloneIsAlone' /\ FetchesHold'
  BY <1>1 DEF SyncInv, AloneIsAlone, FetchesHold, SyncHolds, InFile, FetchHolds, ClosedAt,
      Asked, Whole, Candles!Closes, Candles!Opens
<1> QED BY <1>2, <1>4, <1>5 DEF SyncInv

\* A snapshot of the universe.
LEMMA CaptureKeeps == ASSUME SyncInv, UNCHANGED <<now, file, sync, repaired>>
                      PROVE  SyncInv'
<1>1. SyncTypeOK' /\ AloneIsAlone' /\ OpensHold'
  BY DEF SyncInv, SyncTypeOK, IsSync, AloneIsAlone, OpensHold
<1>2. FetchesHold'
  BY DEF SyncInv, FetchesHold, SyncHolds, InFile, FetchHolds, ClosedAt, Asked, Whole,
    Candles!Closes, Candles!Opens
<1> QED BY <1>1, <1>2, FilesStay DEF SyncInv

\* A sync begins: where another is at work, neither is alone.
LEMMA BeginsKeeps ==
  ASSUME SyncInv, NEW s \in Candles!Syncers, NEW r, Candles!Begins(s, r),
         IsSync(r), r.began <= now, SyncHolds(s, r, repaired, file), r.at # "write"
  PROVE  SyncInv'
<1> DEFINE old(o) == IF o = s THEN r ELSE sync[o]
           lone(o) == IF o = s THEN ~Candles!Overlapping ELSE FALSE
<1>1. /\ sync[s].at = "idle" /\ UNCHANGED <<now, file, repaired>>
      /\ sync' = [o \in Candles!Syncers |-> [old(o) EXCEPT !.alone = lone(o)]]
  BY DEF Candles!Begins
<1>2. \A o \in Candles!Syncers : IsSync(old(o)) /\ old(o).began <= now
        /\ SyncHolds(o, old(o), repaired, file)
  BY DEF SyncInv, SyncTypeOK, FetchesHold
<1>3. ASSUME NEW o \in Candles!Syncers
      PROVE  /\ sync'[o].at = old(o).at /\ sync'[o].queue = old(o).queue
             /\ sync'[o].start = old(o).start /\ sync'[o].end = old(o).end
             /\ sync'[o].began = old(o).began /\ sync'[o].cursor = old(o).cursor
             /\ sync'[o].records = old(o).records /\ sync'[o].combined = old(o).combined
             /\ sync'[o].alone = lone(o) /\ IsSync(sync'[o])
  <2>1. sync'[o] = [old(o) EXCEPT !.alone = lone(o)] /\ IsSync(old(o))
    BY <1>1, <1>2
  <2> HIDE DEF old, lone
  <2> QED BY <2>1 DEF IsSync, Fields
<1>4. SyncTypeOK'
  <2>1. \A o \in Candles!Syncers : IsSync(sync'[o]) /\ sync'[o].began <= now
    BY <1>2, <1>3
  <2>2. sync' = [o \in Candles!Syncers |-> sync'[o]] /\ UNCHANGED <<now, file, repaired>>
    BY <1>1
  <2> QED BY <2>1, <2>2 DEF SyncInv, SyncTypeOK, IsSync
<1>5. OpensHold'
  <2>1. \A o \in Candles!Syncers : sync[o].at = "write" => o # s
    BY <1>1
  <2>2. \A o \in Candles!Syncers : o # s => old(o) = sync[o]
    OBVIOUS
  <2> HIDE DEF old, lone
  <2> QED BY <1>1, <1>3, <2>1, <2>2 DEF SyncInv, OpensHold
<1>6. AloneIsAlone'
  BY <1>3 DEF AloneIsAlone, Candles!Overlapping
<1>7. ASSUME NEW o \in Candles!Syncers
      PROVE  SyncHolds(o, sync'[o], repaired, file)
  <2>1. SyncHolds(o, old(o), repaired, file)
    BY <1>2
  <2>2. sync'[o].at = "write" => ~sync'[o].alone
    BY <1>3
  <2> HIDE DEF old, lone
  <2> QED BY <1>3, <2>1, <2>2 DEF SyncHolds, InFile, FetchHolds, ClosedAt, Asked
<1>8. FetchesHold'
  <2>1. UNCHANGED <<file, repaired>>
    BY <1>1
  <2> QED BY <1>7, <2>1 DEF FetchesHold, SyncHolds, InFile, FetchHolds, ClosedAt, Asked, Whole,
        Candles!Closes, Candles!Opens
<1> QED BY <1>1, <1>4, <1>5, <1>6, <1>8, FilesStay DEF SyncInv

\* What a job or a request begins with.
LEMMA BeginKeepsSync ==
  ASSUME SyncInv, Candles!BeginJob \/ Candles!BeginRoute
  PROVE  SyncInv'
<1>1. now \in Nat /\ Bar \in Nat /\ Lookback \in Int /\ Starts \subseteq Int
  BY StoresAssumption DEF SyncInv, SyncTypeOK
<1>2. CASE Candles!BeginJob
  <2> DEFINE queue == SubSeq(Candles!RankedPairs, 1,
                             Candles!Min({MaximumAssets, Len(Candles!RankedPairs)}))
             r == [Candles!Idle EXCEPT !.at = "next", !.since = now, !.start = now - Lookback,
                                       !.end = now, !.queue = queue]
  <2>1. Candles!Begins("job", r) /\ "job" \in Candles!Syncers
    BY <1>2 DEF Candles!BeginJob, Candles!Syncers
  <2> HIDE DEF queue
  <2>2. IsSync(r) /\ r.began = 0 /\ r.at = "next"
    <3>1. /\ r = [f \in Fields |-> r[f]] /\ r.start = now - Lookback /\ r.end = now
          /\ r.began = Candles!Idle.began /\ r.at = "next"
      BY IdleIs DEF IsSync, Fields
    <3> HIDE DEF r
    <3> QED BY <1>1, <3>1, IdleIs DEF IsSync
  <2> HIDE DEF r
  <2>3. SyncHolds("job", r, repaired, file)
    BY <2>2 DEF SyncHolds, InFile
  <2> QED BY <1>1, <2>1, <2>2, <2>3, BeginsKeeps
<1>3. CASE Candles!BeginRoute
  <2>1. PICK p \in Pairs, start \in Starts, end \in {now, now + Bar} :
          Candles!Begins("route", [Candles!Idle EXCEPT !.at = "page", !.queue = <<p>>,
              !.start = start, !.end = end, !.cursor = end, !.began = now])
    BY <1>3 DEF Candles!BeginRoute
  <2> DEFINE r == [Candles!Idle EXCEPT !.at = "page", !.queue = <<p>>, !.start = start,
                                       !.end = end, !.cursor = end, !.began = now]
  <2>2. /\ IsSync(r) /\ r.began = now /\ r.at = "page" /\ r.cursor = r.end /\ r.end \in Int
        /\ r.records = <<>> /\ r.queue = <<p>>
    <3>1. /\ r = [f \in Fields |-> r[f]] /\ r.start = start /\ r.end = end /\ r.cursor = end
          /\ r.began = now /\ r.at = "page" /\ r.queue = <<p>>
          /\ r.records = Candles!Idle.records
      BY IdleIs DEF IsSync, Fields
    <3>2. start \in Int /\ end \in Int
      BY <1>1
    <3> HIDE DEF r
    <3> QED BY <1>1, <3>1, <3>2, IdleIs DEF IsSync
  <2>3. Candles!Begins("route", r) /\ "route" \in Candles!Syncers
    BY <2>1 DEF Candles!Syncers
  <2> HIDE DEF r
  <2>4. DOMAIN r.records = {} /\ Head(r.queue) = p
    BY <2>2
  <2>5. {b \in ClosedAt(r, p) : r.cursor <= Candles!Opens(b) /\ Candles!Opens(b) < r.end} = {}
    <3> SUFFICES ASSUME NEW b \in ClosedAt(r, p), r.cursor <= Candles!Opens(b),
                        Candles!Opens(b) < r.end
                 PROVE  FALSE
      OBVIOUS
    <3>1. b \in Nat
      BY StoresAssumption DEF ClosedAt
    <3>2. Candles!Opens(b) \in Nat
      BY <1>1, <3>1 DEF Candles!Opens
    <3> QED BY <2>2, <3>2
  <2>6. SyncHolds("route", r, repaired, file)
    BY <2>2, <2>4, <2>5 DEF SyncHolds, FetchHolds
  <2>7. r.began <= now /\ r.at # "write"
    BY <1>1, <2>2
  <2> QED BY <2>2, <2>3, <2>6, <2>7, BeginsKeeps
<1> QED BY <1>2, <1>3

\* What a sync that is at work holds.
LEMMA SyncAt ==
  ASSUME SyncInv, NEW s \in Candles!Syncers
  PROVE  /\ now \in Nat /\ Bar \in Nat \ {0} /\ IsSync(sync[s]) /\ sync[s].began <= now
         /\ SyncHolds(s, sync[s], repaired, file)
BY StoresAssumption DEF SyncInv, SyncTypeOK, FetchesHold

\* After a pair, or at the end, a sync holds nothing.
LEMMA AfterIs ==
  ASSUME NEW s \in Candles!Syncers, IsSync(sync[s]), sync[s].began <= now, now \in Nat,
         NEW r \in {Candles!Idle, Candles!After(s)}
  PROVE  /\ IsSync(r) /\ r.began <= now /\ r.at \in {"idle", "next"}
         /\ r.alone => sync[s].alone
         /\ SyncHolds(s, r, repaired, file) /\ SyncHolds(s, r, repaired', file')
<1>1. IsSync(r) /\ r.began <= now /\ r.at \in {"idle", "next"} /\ (r.alone => sync[s].alone)
  <2>1. CASE r = Candles!Idle
    BY <2>1, IdleIs
  <2>2. CASE r = [sync[s] EXCEPT !.at = "next", !.queue = Tail(@)]
    BY <2>2 DEF IsSync, Fields
  <2> QED BY <2>1, <2>2 DEF Candles!After
<1> QED BY <1>1 DEF SyncHolds, InFile

\* The job goes on to a pair, or ends.
LEMMA NextPairKeeps ==
  ASSUME SyncInv, Candles!NextPair
  PROVE  SyncInv'
<1> DEFINE j == sync["job"]
           p == Head(j.queue)
           start == IF Candles!Cardinality(DOMAIN Candles!Rows(p)) >= MinimumHistoryBars
                    THEN j.end - Lookback
                    ELSE Candles!Min({j.end - Lookback, j.end - Bootstrap})
           r == [j EXCEPT !.at = "page", !.start = start, !.cursor = j.end, !.began = now,
                          !.records = <<>>, !.attempt = 0]
<1>1. "job" \in Candles!Syncers
  BY DEF Candles!Syncers
<1>2. /\ j.at = "next" /\ UNCHANGED <<now, file, repaired>>
      /\ Candles!Becomes("job", Candles!Idle) \/ Candles!Becomes("job", r)
  BY DEF Candles!NextPair, Candles!Becomes
<1>3. now \in Nat /\ Bar \in Nat /\ IsSync(j) /\ j.began <= now /\ j.end \in Int
  BY <1>1, SyncAt DEF IsSync
<1>4. CASE Candles!Becomes("job", Candles!Idle)
  BY <1>1, <1>2, <1>3, <1>4, AfterIs, OnlySyncs
<1>5. CASE Candles!Becomes("job", r)
  <2>1. start \in Int
    <3>1. j.end - Lookback \in Int /\ j.end - Bootstrap \in Int
      BY <1>3, StoresAssumption
    <3>2. ASSUME NEW x \in Int, NEW y \in Int PROVE Candles!Min({x, y}) \in Int
      <4>1. \E z \in {x, y} : \A w \in {x, y} : z <= w
        OBVIOUS
      <4> QED BY <4>1 DEF Candles!Min
    <3> QED BY <3>1, <3>2
  <2> HIDE DEF start
  <2>2. /\ IsSync(r) /\ r.began = now /\ r.at = "page" /\ r.cursor = r.end /\ r.end \in Int
        /\ r.records = <<>> /\ r.queue = j.queue /\ r.alone = j.alone
    BY <1>3, <2>1 DEF IsSync, Fields
  <2> HIDE DEF r
  <2>3. DOMAIN r.records = {}
    BY <2>2
  <2>4. ASSUME NEW q \in Pairs
        PROVE  {b \in ClosedAt(r, q) : r.cursor <= Candles!Opens(b) /\ Candles!Opens(b) < r.end} = {}
    <3> SUFFICES ASSUME NEW b \in ClosedAt(r, q), r.cursor <= Candles!Opens(b),
                        Candles!Opens(b) < r.end
                 PROVE  FALSE
      OBVIOUS
    <3>1. b \in Nat
      BY StoresAssumption DEF ClosedAt
    <3>2. Candles!Opens(b) \in Nat
      BY <1>3, <3>1 DEF Candles!Opens
    <3> QED BY <2>2, <3>2
  <2>5. SyncHolds("job", r, repaired, file)
    BY <2>2, <2>3, <2>4 DEF SyncHolds, FetchHolds, InFile
  <2> QED BY <1>1, <1>2, <1>3, <1>5, <2>2, <2>5, OnlySyncs
<1> QED BY <1>2, <1>4, <1>5

\* The rows of the new, and those of the old it has none for.
LEMMA OverIs ==
  ASSUME NEW f, NEW g
  PROVE  /\ DOMAIN Candles!Over(f, g) = DOMAIN f \cup DOMAIN g
         /\ \A b \in DOMAIN f : Candles!Over(f, g)[b] = f[b]
         /\ \A b \in DOMAIN g \ DOMAIN f : Candles!Over(f, g)[b] = g[b]
BY DEF Candles!Over

\* A page, retry or failure of one, or an end of a sync without its file.
LEMMA FetchPageKeeps ==
  ASSUME SyncInv, NEW s \in Candles!Syncers, Candles!FetchPage(s)
  PROVE  SyncInv'
<1> DEFINE j == sync[s]
           p == Head(j.queue)
           page == Candles!Served(p, j.cursor)
           earliest == Candles!Opens(Candles!Min(DOMAIN page))
           complete == Candles!Cardinality(DOMAIN page) < Page \/ earliest <= j.start
           r == [j EXCEPT !.records = Candles!Over(page, j.records), !.attempt = 0,
                          !.at = IF complete THEN "merge" ELSE "page",
                          !.cursor = IF complete THEN j.cursor ELSE earliest]
<1>1. j.at = "page" /\ UNCHANGED <<now, file, repaired>> /\ Candles!Becomes(s, r)
  BY DEF Candles!FetchPage
<1>2. /\ now \in Nat /\ Bar \in Nat \ {0} /\ IsSync(j) /\ j.began <= now
      /\ SyncHolds(s, j, repaired, file)
  BY SyncAt
<1> HIDE DEF page, complete, earliest
<1>3. /\ r.at = IF complete THEN "merge" ELSE "page"
      /\ r.cursor = IF complete THEN j.cursor ELSE earliest
      /\ r.records = Candles!Over(page, j.records) /\ r.queue = j.queue /\ r.start = j.start
      /\ r.end = j.end /\ r.began = j.began /\ r.alone = j.alone /\ IsSync(r)
  BY <1>2 DEF IsSync, Fields
<1> HIDE DEF r
<1> DEFINE rows == j.records
<1> HIDE DEF rows
<1>6. /\ DOMAIN Candles!Over(page, rows) = DOMAIN page \cup DOMAIN rows
      /\ \A b \in DOMAIN page : Candles!Over(page, rows)[b] = page[b]
      /\ \A b \in DOMAIN rows \ DOMAIN page : Candles!Over(page, rows)[b] = rows[b]
  BY OverIs
<1>7. /\ DOMAIN r.records = DOMAIN page \cup DOMAIN j.records
      /\ \A b \in DOMAIN page : r.records[b] = page[b]
      /\ \A b \in DOMAIN j.records \ DOMAIN page : r.records[b] = j.records[b]
  BY <1>3, <1>6 DEF rows
<1>4. ASSUME p \in Pairs
      PROVE  FetchHolds(s, r, p, repaired[p], file[p])
  <2>1. /\ \A b \in DOMAIN j.records :
             b \in repaired[p] \cup ClosedAt(j, p) => j.records[b] = Candles!Closes(b)
        /\ j.cursor \in Int
        /\ {b \in ClosedAt(j, p) : j.cursor <= Candles!Opens(b) /\ Candles!Opens(b) < j.end}
             \subseteq DOMAIN j.records
    BY <1>1, <1>2, <1>4 DEF SyncHolds, InFile, FetchHolds
  <2>2. ClosedAt(r, p) = ClosedAt(j, p) /\ Asked(r, p) = Asked(j, p)
    BY <1>3 DEF ClosedAt, Asked
  <2>3. ASSUME NEW b \in Traded[p]
        PROVE  /\ b \in Nat /\ Candles!Opens(b) \in Nat /\ Candles!Closes(b) \in Nat
               /\ Candles!Opens(b) <= Candles!Closes(b)
    <3>1. b \in Nat
      BY <1>4, StoresAssumption
    <3> QED BY <1>2, <3>1 DEF Candles!Opens, Candles!Closes
  <2>4. \A b \in repaired[p] \cup ClosedAt(j, p) : b \in Traded[p] /\ Candles!Closes(b) <= now
    <3>1. \A b \in repaired[p] : b \in Traded[p] /\ Candles!Closes(b) <= now
      BY <1>4 DEF SyncInv, RepairedAreClosed
    <3>2. \A b \in ClosedAt(j, p) : b \in Traded[p] /\ Candles!Closes(b) <= j.began
      BY DEF ClosedAt
    <3>3. j.began \in Nat
      BY <1>2 DEF IsSync
    <3> QED BY <1>2, <2>3, <3>1, <3>2, <3>3
  <2>5. ASSUME NEW b \in DOMAIN r.records, b \in repaired[p] \cup ClosedAt(j, p)
        PROVE  r.records[b] = Candles!Closes(b)
    <3>1. CASE b \in DOMAIN page
      <4>1. page[b] = Candles!Closes(b)
        BY <1>2, <1>4, <2>4, <2>5, <3>1, ServedWhole DEF page
      <4> QED BY <1>7, <3>1, <4>1
    <3>2. CASE b \notin DOMAIN page
      <4>1. b \in DOMAIN j.records /\ r.records[b] = j.records[b]
        BY <1>7, <2>5, <3>2
      <4> QED BY <2>1, <2>5, <4>1
    <3> QED BY <3>1, <3>2
  <2>6. DOMAIN r.records = DOMAIN page \cup DOMAIN j.records
    BY <1>7
  <2>10. DOMAIN page \subseteq Nat
    <3> HIDE DEF p
    <3> DEFINE c == j.cursor
    <3> HIDE DEF c
    <3>3. DOMAIN Candles!Served(p, c)
            = {b \in Known(p, c) : Cardinality(Later(p, c, b)) < Page}
      BY ServedIs
    <3>1. DOMAIN page \subseteq Known(p, j.cursor)
      BY <3>3 DEF page, c
    <3>2. Known(p, j.cursor) \subseteq Nat
      BY <1>4, KnownAre
    <3> QED BY <3>1, <3>2
  \* A candle that was not fetched before, and is not in this page, is earlier.
  <2>7. ASSUME NEW b \in ClosedAt(j, p), Candles!Opens(b) < j.end, b \notin DOMAIN r.records
        PROVE  /\ ~(Candles!Cardinality(DOMAIN page) < Page)
               /\ earliest \in Nat /\ Candles!Opens(b) < earliest
    <3>1. b \in Traded[p] /\ Candles!Closes(b) <= now
      BY <2>4
    <3>2. Candles!Opens(b) < j.cursor
      BY <2>1, <2>3, <2>6, <2>7, <3>1
    <3>3. b \in Known(p, j.cursor)
      BY <1>2, <2>3, <3>1, <3>2 DEF Known
    <3>4. b \notin DOMAIN page
      BY <2>6, <2>7
    <3>5. ~(Cardinality(DOMAIN page) < Page)
      BY <1>4, <3>3, <3>4, ShortPageIsAll DEF page
    <3>6. DOMAIN page \subseteq Nat /\ DOMAIN page # {}
      <4>2. Cardinality({}) = 0 /\ Page \in Nat \ {0}
        BY FS_EmptySet, StoresAssumption
      <4> QED BY <2>10, <3>5, <4>2
    <3> DEFINE m == Candles!Min(DOMAIN page)
    <3>7. m \in DOMAIN page /\ m \in Nat
      BY <3>6, LeastOf
    <3>8. ~(m <= b)
      BY <1>4, <3>3, <3>4, <3>7, PageHasNoGap DEF page
    <3> HIDE DEF m
    <3>9. Candles!Opens(m) \in Nat /\ Candles!Opens(b) < Candles!Opens(m)
      <4>1. b \in Nat /\ m \in Nat /\ b < m /\ Bar \in Nat \ {0}
        BY <1>2, <2>3, <3>1, <3>7, <3>8
      <4>2. b * Bar < m * Bar /\ m * Bar \in Nat
        BY <4>1
      <4> QED BY <4>2 DEF Candles!Opens
    <3> QED BY <3>5, <3>9, SameCount DEF earliest, m
  <2>8. CASE complete
    <3>1. Asked(r, p) \subseteq DOMAIN r.records
      <4> SUFFICES ASSUME NEW b \in Asked(j, p), b \notin DOMAIN r.records
                   PROVE  FALSE
        BY <2>2
      <4>1. /\ b \in ClosedAt(j, p) /\ j.start <= Candles!Opens(b) /\ Candles!Opens(b) < j.end
            /\ b \in Traded[p]
        BY DEF Asked, ClosedAt
      <4>2. /\ ~(Candles!Cardinality(DOMAIN page) < Page)
            /\ earliest \in Nat /\ Candles!Opens(b) < earliest
        BY <2>7, <4>1
      <4>3. earliest <= j.start
        BY <2>8, <4>2 DEF complete
      <4>4. Candles!Opens(b) \in Nat /\ j.start \in Int
        BY <1>2, <2>3, <4>1 DEF IsSync
      <4> QED BY <4>1, <4>2, <4>3, <4>4
    <3>2. r.at = "merge"
      BY <1>3, <2>8
    <3> QED BY <2>2, <2>5, <3>1, <3>2 DEF FetchHolds
  <2>9. CASE ~complete
    <3>1. r.at = "page" /\ r.cursor = earliest
      BY <1>3, <2>9
    <3>2. earliest \in Nat
      <4>1. ~(Cardinality(DOMAIN page) < Page)
        BY <2>9, SameCount DEF complete
      <4>3. Cardinality({}) = 0 /\ Page \in Nat \ {0}
        BY FS_EmptySet, StoresAssumption
      <4>4. Candles!Min(DOMAIN page) \in Nat
        BY <2>10, <4>1, <4>3, LeastOf
      <4> QED BY <1>2, <4>4 DEF earliest, Candles!Opens
    <3>3. {b \in ClosedAt(r, p) : r.cursor <= Candles!Opens(b) /\ Candles!Opens(b) < r.end}
            \subseteq DOMAIN r.records
      <4> SUFFICES ASSUME NEW b \in ClosedAt(j, p), earliest <= Candles!Opens(b),
                          Candles!Opens(b) < j.end, b \notin DOMAIN r.records
                   PROVE  FALSE
        BY <1>3, <2>2, <3>1
      <4>1. Candles!Opens(b) \in Nat
        BY <2>3, <2>4
      <4> QED BY <2>7, <3>2, <4>1
    <3> QED BY <2>2, <2>5, <3>1, <3>2, <3>3 DEF FetchHolds
  <2> QED BY <2>8, <2>9
<1>5. SyncHolds(s, r, repaired, file)
  BY <1>3, <1>4 DEF SyncHolds, InFile
<1> QED BY <1>1, <1>2, <1>3, <1>5, OnlySyncs

\* A retry or a failure.
LEMMA PageEndKeeps ==
  ASSUME SyncInv, NEW s \in Candles!Syncers, Candles!RetryPage(s) \/ Candles!FailPage(s)
  PROVE  SyncInv'
<1> DEFINE j == sync[s]
<1>1. /\ now \in Nat /\ IsSync(j) /\ j.began <= now /\ SyncHolds(s, j, repaired, file)
  BY SyncAt
<1>2. CASE Candles!RetryPage(s)
  <2> DEFINE r == [j EXCEPT !.attempt = j.attempt + 1]
  <2>1. j.at = "page" /\ UNCHANGED <<now, file, repaired>> /\ Candles!Becomes(s, r)
    BY <1>2 DEF Candles!RetryPage
  <2>2. /\ r.at = j.at /\ r.cursor = j.cursor /\ r.records = j.records /\ r.queue = j.queue
        /\ r.start = j.start /\ r.end = j.end /\ r.began = j.began /\ r.alone = j.alone
        /\ r.combined = j.combined /\ IsSync(r)
    BY <1>1 DEF IsSync, Fields
  <2> HIDE DEF r
  <2>3. SyncHolds(s, r, repaired, file)
    BY <1>1, <2>2 DEF SyncHolds, InFile, FetchHolds, ClosedAt, Asked
  <2> QED BY <1>1, <2>1, <2>2, <2>3, OnlySyncs
<1>3. CASE Candles!FailPage(s)
  <2>1. /\ j.at = "page" /\ UNCHANGED <<now, file, repaired>>
        /\ Candles!Becomes(s, Candles!After(s))
    BY <1>3 DEF Candles!FailPage
  <2> QED BY <1>1, <2>1, AfterIs, OnlySyncs
<1> QED BY <1>2, <1>3

\* The merge: of a repaired candle the fetched row is whole, and so is the stored one.
LEMMA MergeKeeps ==
  ASSUME SyncInv, NEW s \in Candles!Syncers, Candles!Merge(s)
  PROVE  SyncInv'
<1> DEFINE j == sync[s]
           p == Head(j.queue)
           inside == {b \in DOMAIN j.records :
                        j.start <= Candles!Opens(b) /\ Candles!Opens(b) < j.end}
           fetched == Candles!Restrict(j.records, inside)
           combined == Candles!Combine(Candles!Rows(p), fetched)
           r == [j EXCEPT !.at = "write", !.combined = combined]
<1>1. /\ j.at = "merge" /\ UNCHANGED <<now, file, repaired>>
      /\ Candles!Becomes(s, IF Candles!Readable(p) THEN r ELSE Candles!Idle)
  BY DEF Candles!Merge
<1>2. /\ now \in Nat /\ IsSync(j) /\ j.began <= now /\ SyncHolds(s, j, repaired, file)
  BY SyncAt
<1>3. DOMAIN fetched = inside /\ \A b \in inside : fetched[b] = j.records[b]
  BY DEF Candles!Restrict
<1> HIDE DEF fetched, inside
<1> DEFINE old == Candles!Rows(p)
<1> HIDE DEF old
<1>4. /\ DOMAIN Candles!Over(fetched, old) = DOMAIN fetched \cup DOMAIN old
      /\ \A b \in DOMAIN fetched : Candles!Over(fetched, old)[b] = fetched[b]
      /\ \A b \in DOMAIN old \ DOMAIN fetched : Candles!Over(fetched, old)[b] = old[b]
  BY OverIs
<1>5. /\ DOMAIN combined = inside \cup DOMAIN old
      /\ \A b \in inside : combined[b] = j.records[b]
      /\ \A b \in DOMAIN old \ inside : combined[b] = old[b]
  BY <1>3, <1>4 DEF Candles!Combine, old
<1> HIDE DEF combined
<1>6. /\ r.at = "write" /\ r.combined = combined /\ r.queue = j.queue
      /\ r.start = j.start /\ r.end = j.end /\ r.began = j.began /\ r.alone = j.alone
      /\ IsSync(r)
  BY <1>2 DEF IsSync, Fields
<1> HIDE DEF r
<1>7. ASSUME p \in Pairs, Candles!Readable(p)
      PROVE  FetchHolds(s, r, p, repaired[p], file[p])
  <2>1. /\ \A b \in DOMAIN j.records :
             b \in repaired[p] \cup ClosedAt(j, p) => j.records[b] = Candles!Closes(b)
        /\ Asked(j, p) \subseteq DOMAIN j.records
    BY <1>1, <1>2, <1>7 DEF SyncHolds, InFile, FetchHolds
  <2>2. Asked(r, p) = Asked(j, p)
    BY <1>6 DEF Asked, ClosedAt
  <2>3. Asked(j, p) \subseteq inside /\ Asked(j, p) \subseteq ClosedAt(j, p)
    BY <2>1 DEF Asked, inside
  <2>4. inside \subseteq DOMAIN j.records
    BY DEF inside
  <2>5. \A b \in repaired[p] : b \in DOMAIN old /\ old[b] = Candles!Closes(b)
    BY <1>7, SyncInvImplies, CandleFiles DEF Candles!RepairedForGood, Candles!Readable, old
  <2>6. \A b \in repaired[p] : b \in DOMAIN combined /\ combined[b] = Candles!Closes(b)
    BY <1>5, <2>1, <2>4, <2>5
  <2>7. \A b \in Asked(j, p) : b \in DOMAIN combined /\ combined[b] = Candles!Closes(b)
    BY <1>5, <2>1, <2>3, <2>4
  <2>8. Whole(r.combined, repaired[p] \cup Asked(r, p))
    BY <1>6, <2>2, <2>6, <2>7 DEF Whole
  <2>9. file[p].open[s] = "no"
    BY <1>1, <1>7 DEF SyncInv, OpensHold
  <2> QED BY <1>6, <2>8, <2>9 DEF FetchHolds
<1>8. Candles!Readable(p) => SyncHolds(s, r, repaired, file)
  BY <1>6, <1>7 DEF SyncHolds, InFile
<1>9. CASE Candles!Readable(p)
  BY <1>1, <1>2, <1>6, <1>8, <1>9, OnlySyncs
<1>10. CASE ~Candles!Readable(p)
  BY <1>1, <1>2, <1>10, AfterIs, OnlySyncs
<1> QED BY <1>9, <1>10

(***************************************************************************)
(* Steps that write a file                                                  *)
(***************************************************************************)
\* The sync s opens the temporary file or fills a file: the one of its pair p becomes g.
LEMMA WritesKeep ==
  ASSUME SyncInv, NEW s \in Candles!Syncers, NEW g, NEW place, sync[s].at = "write",
         UNCHANGED <<now, sync, repaired>>,
         file' = [file EXCEPT ![Head(sync[s].queue)] = g],
         Head(sync[s].queue) \in Pairs =>
           LET p == Head(sync[s].queue) IN
           /\ Sound(g, Candles!Syncers) /\ g.open = [file[p].open EXCEPT ![s] = place]
           /\ g.published = Absent => file[p].published = Absent
           /\ \A rows : Keeps(g, rows) => Whole(rows, repaired[p])
           /\ sync[s].alone /\ place = "closed" =>
                \A rows : g.temporary = Intact(rows) => Whole(rows, Asked(sync[s], p))
  PROVE  SyncInv'
<1> DEFINE p == Head(sync[s].queue)
<1>1. file' = [q \in Pairs |-> IF q = p THEN g ELSE file[q]]
  BY DEF SyncInv, SyncTypeOK
<1>2. p \in Pairs =>
        /\ Sound(g, Candles!Syncers) /\ g.open = [file[p].open EXCEPT ![s] = place]
        /\ g.published = Absent => file[p].published = Absent
        /\ \A rows : Keeps(g, rows) => Whole(rows, repaired[p])
        /\ sync[s].alone /\ place = "closed" =>
             \A rows : g.temporary = Intact(rows) => Whole(rows, Asked(sync[s], p))
  OBVIOUS
<1>3. SyncTypeOK' /\ RepairedAreClosed' /\ AloneIsAlone'
  <2>1. file' = [q \in Pairs |-> file'[q]]
    BY <1>1
  <2> QED BY <2>1 DEF SyncInv, SyncTypeOK, IsSync, RepairedAreClosed, AloneIsAlone, Candles!Closes,
      Candles!Opens
<1>4. FilesHold'
  <2> SUFFICES ASSUME NEW q \in Pairs
               PROVE  /\ Sound(file'[q], Candles!Syncers)
                      /\ file'[q].published = Absent => repaired[q] = {}
                      /\ \A rows : Keeps(file'[q], rows) => Whole(rows, repaired[q])
    BY DEF FilesHold, Whole, Candles!Closes, Candles!Opens
  <2>1. CASE q = p
    BY <1>1, <1>2, <2>1 DEF SyncInv, FilesHold
  <2>2. CASE q # p
    BY <1>1, <2>2 DEF SyncInv, FilesHold
  <2> QED BY <2>1, <2>2
<1>5. ASSUME p \in Pairs, NEW o \in Candles!Syncers, o # s
      PROVE  g.open[o] = file[p].open[o]
  BY <1>2, <1>5 DEF SyncInv, FilesHold, Sound
<1>6. OpensHold'
  <2> SUFFICES ASSUME NEW q \in Pairs, NEW o \in Candles!Syncers, file'[q].open[o] # "no"
               PROVE  sync[o].at = "write" /\ Head(sync[o].queue) = q
    BY DEF OpensHold
  <2>1. CASE q = p /\ o = s
    BY <2>1
  <2>2. CASE q = p /\ o # s
    BY <1>1, <1>5, <2>2 DEF SyncInv, OpensHold
  <2>3. CASE q # p
    BY <1>1, <2>3 DEF SyncInv, OpensHold
  <2> QED BY <2>1, <2>2, <2>3
<1>7. ASSUME NEW o \in Candles!Syncers
      PROVE  SyncHolds(o, sync[o], repaired, file')
  <2>1. SyncHolds(o, sync[o], repaired, file)
    BY SyncAt
  <2>2. CASE o = s
    <3>1. p \in Pairs => /\ g.open[s] = place /\ file'[p] = g
                         /\ Whole(sync[s].combined, repaired[p] \cup Asked(sync[s], p))
      BY <1>1, <1>2, <2>1, <2>2 DEF SyncInv, FilesHold, Sound, SyncHolds, InFile, FetchHolds
    <3> QED BY <1>2, <2>2, <3>1 DEF SyncHolds, InFile, FetchHolds
  <2>3. CASE o # s
    <3>1. ~sync[o].alone
      BY <2>3 DEF SyncInv, AloneIsAlone
    <3> QED BY <2>1, <3>1 DEF SyncHolds, InFile, FetchHolds
  <2> QED BY <2>2, <2>3
<1>8. FetchesHold'
  BY <1>7 DEF FetchesHold, SyncHolds, InFile, FetchHolds, ClosedAt, Asked, Whole,
      Candles!Closes, Candles!Opens
<1> QED BY <1>3, <1>4, <1>6, <1>8 DEF SyncInv

\* What a sync knows of the file it writes.
LEMMA FileAt ==
  ASSUME SyncInv, NEW p \in Pairs
  PROVE  /\ Sound(file[p], Candles!Syncers)
         /\ file[p].published = Absent => repaired[p] = {}
         /\ \A rows : Keeps(file[p], rows) => Whole(rows, repaired[p])
BY DEF SyncInv, FilesHold

\* The two steps that write the temporary file, or one that was renamed meanwhile.
LEMMA WriteTemporaryKeeps ==
  ASSUME SyncInv, NEW s \in Candles!Syncers,
         Candles!OpenTemporary(s) \/ Candles!WriteTemporary(s)
  PROVE  SyncInv'
<1> DEFINE j == sync[s]
           p == Head(j.queue)
           f == file[p]
<1>1. j.at = "write" /\ UNCHANGED <<now, sync, repaired>>
  BY DEF Candles!OpenTemporary, Candles!WriteTemporary
<1>2. CASE Candles!OpenTemporary(s)
  <2> DEFINE g == Emptied(f, s)
  <2>1. file' = [file EXCEPT ![p] = g]
    BY <1>2, CandleFiles DEF Candles!OpenTemporary, Candles!Put
  <2>2. ASSUME p \in Pairs
        PROVE  /\ Sound(g, Candles!Syncers) /\ g.open = [f.open EXCEPT ![s] = "temporary"]
               /\ g.published = f.published
               /\ \A rows : Keeps(g, rows) => Whole(rows, repaired[p])
    BY <2>2, FileAt, EmptiedSound
  <2> HIDE DEF g
  <2> QED BY <1>1, <2>1, <2>2, WritesKeep
<1>3. CASE Candles!WriteTemporary(s)
  <2> DEFINE v == j.combined
  <2>1. PICK x \in Written(f, s, v) : file' = [file EXCEPT ![p] = Filled(f, s, x)] /\ IsOpen(f, s)
    BY <1>3, CandleFiles DEF Candles!WriteTemporary, Candles!Put
  <2> DEFINE g == Filled(f, s, x)
  <2>2. ASSUME p \in Pairs
        PROVE  /\ Sound(g, Candles!Syncers) /\ g.open = [f.open EXCEPT ![s] = "closed"]
               /\ x \in {Intact(v), Torn} /\ g.published \in {f.published, x}
               /\ f.open[s] = "temporary" => g.temporary = x
    <3>1. Sound(f, Candles!Syncers) /\ IsOpen(f, s) /\ x \in Written(f, s, v)
      BY <2>1, <2>2, FileAt
    <3> HIDE DEF f, v
    <3>2. Sound(g, Candles!Syncers)
      BY <3>1, FilledSound, Zenon
    <3>3. x \in {Intact(v), Torn}
      BY <3>1, FilledSound, Zenon
    <3>4. g.published \in {f.published, x}
      BY <3>1, FilledSound, Zenon
    <3> QED BY <3>2, <3>3, <3>4 DEF Filled
  <2>3. ASSUME p \in Pairs PROVE Whole(v, repaired[p] \cup Asked(j, p))
    BY <1>1, <2>3, SyncAt DEF SyncHolds, InFile, FetchHolds
  <2>4. ASSUME p \in Pairs, NEW rows, Keeps(g, rows) PROVE Whole(rows, repaired[p])
    <3>1. Keeps(f, rows) \/ rows = v
      BY <2>2, <2>4, FilledKeeps
    <3> QED BY <2>3, <2>4, <3>1, FileAt DEF Whole
  <2>5. ASSUME p \in Pairs, j.alone, NEW rows, g.temporary = Intact(rows)
        PROVE  Whole(rows, Asked(j, p))
    <3>1. \A o \in Candles!Syncers : o # s => f.open[o] = "no"
      <4>1. \A o \in Candles!Syncers : o # s => sync[o].at = "idle"
        BY <2>5 DEF SyncInv, AloneIsAlone
      <4> QED BY <2>5, <4>1 DEF SyncInv, OpensHold
    <3>1a. DOMAIN f.open = Candles!Syncers
      BY <2>5, FileAt DEF Sound
    <3>1b. ~Others(f, s)
      BY <3>1, <3>1a DEF Others
    <3>2. f.open[s] = "temporary" \/ f.temporary = Absent
      BY <2>1, <2>5, <3>1b, FileAt DEF Sound, IsOpen
    <3>3. f.open[s] # "temporary" => g.temporary = f.temporary
      BY DEF Filled
    <3>4. rows = v
      BY <2>2, <2>5, <3>2, <3>3, ContentsDiffer
    <3> QED BY <2>3, <2>5, <3>4 DEF Whole
  <2>6. p \in Pairs => (g.published = Absent => f.published = Absent)
    BY <2>2, ContentsDiffer
  <2>7. file' = [file EXCEPT ![p] = g]
    BY <2>1
  <2> HIDE DEF g
  <2> QED BY <1>1, <2>2, <2>4, <2>5, <2>6, <2>7, WritesKeep
<1> QED BY <1>2, <1>3

\* The sync s ends with the file of its pair p, which becomes g.
LEMMA EndsKeep ==
  ASSUME SyncInv, NEW s \in Candles!Syncers, NEW g, NEW new, sync[s].at = "write",
         NEW r \in {Candles!Idle, Candles!After(s)}, now' = now,
         sync' = [sync EXCEPT ![s] = r],
         file' = [file EXCEPT ![Head(sync[s].queue)] = g],
         repaired' = [repaired EXCEPT ![Head(sync[s].queue)] = @ \cup new],
         ~sync[s].alone => new = {},
         Head(sync[s].queue) \in Pairs =>
           LET p == Head(sync[s].queue) IN
           /\ Sound(g, Candles!Syncers) /\ g.temporary = Absent /\ g.open[s] = "no"
           /\ \A o \in Candles!Syncers : file[p].open[o] = "no" => g.open[o] = "no"
           /\ g.published = Absent => repaired[p] \cup new = {}
           /\ \A rows : Keeps(g, rows) => Whole(rows, repaired[p] \cup new)
           /\ \A b \in new : b \in Traded[p] /\ Candles!Closes(b) <= now
  PROVE  SyncInv'
<1> DEFINE j == sync[s]
           p == Head(j.queue)
<1>1. /\ file' = [q \in Pairs |-> IF q = p THEN g ELSE file[q]]
      /\ repaired' = [q \in Pairs |-> IF q = p THEN repaired[p] \cup new ELSE repaired[q]]
      /\ sync' = [o \in Candles!Syncers |-> IF o = s THEN r ELSE sync[o]]
  BY DEF SyncInv, SyncTypeOK
<1>2. p \in Pairs =>
        /\ Sound(g, Candles!Syncers) /\ g.temporary = Absent /\ g.open[s] = "no"
        /\ \A o \in Candles!Syncers : file[p].open[o] = "no" => g.open[o] = "no"
        /\ g.published = Absent => repaired[p] \cup new = {}
        /\ \A rows : Keeps(g, rows) => Whole(rows, repaired[p] \cup new)
        /\ \A b \in new : b \in Traded[p] /\ Candles!Closes(b) <= now
  OBVIOUS
<1>3. /\ now \in Nat /\ IsSync(j) /\ j.began <= now /\ SyncHolds(s, j, repaired, file)
  BY SyncAt
<1>4. /\ IsSync(r) /\ r.began <= now /\ r.at \in {"idle", "next"} /\ (r.alone => j.alone)
  BY <1>3, AfterIs
<1> HIDE DEF j, p
<1>5. SyncTypeOK'
  <2>1. /\ now' = now /\ file' = [q \in Pairs |-> file'[q]]
        /\ repaired' = [q \in Pairs |-> repaired'[q]]
        /\ sync' = [o \in Candles!Syncers |-> sync'[o]]
    BY <1>1
  <2>2. \A o \in Candles!Syncers : IsSync(sync'[o]) /\ sync'[o].began <= now
    BY <1>1, <1>4, SyncAt
  <2> QED BY <2>1, <2>2 DEF SyncInv, SyncTypeOK, IsSync
<1>6. RepairedAreClosed'
  <2> SUFFICES ASSUME NEW q \in Pairs, NEW b \in repaired'[q]
               PROVE  b \in Traded[q] /\ Candles!Closes(b) <= now
    BY DEF RepairedAreClosed, Candles!Closes, Candles!Opens
  <2>1. CASE b \in repaired[q]
    BY <2>1 DEF SyncInv, RepairedAreClosed
  <2>2. CASE b \notin repaired[q]
    <3>1. q = p /\ b \in new
      BY <1>1, <2>2
    <3> QED BY <1>2, <3>1
  <2> QED BY <2>1, <2>2
<1>7. AloneIsAlone'
  BY <1>1, <1>4 DEF SyncInv, AloneIsAlone, j
<1>8. FilesHold'
  <2> SUFFICES ASSUME NEW q \in Pairs
               PROVE  /\ Sound(file'[q], Candles!Syncers)
                      /\ file'[q].published = Absent => repaired'[q] = {}
                      /\ \A rows : Keeps(file'[q], rows) => Whole(rows, repaired'[q])
    BY DEF FilesHold, Whole, Candles!Closes, Candles!Opens
  <2>1. CASE q = p
    BY <1>1, <1>2, <2>1
  <2>2. CASE q # p
    <3>1. file'[q] = file[q] /\ repaired'[q] = repaired[q]
      BY <1>1, <2>2
    <3> QED BY <3>1, FileAt
  <2> QED BY <2>1, <2>2
<1>9. OpensHold'
  <2> SUFFICES ASSUME NEW q \in Pairs, NEW o \in Candles!Syncers, file'[q].open[o] # "no"
               PROVE  sync'[o].at = "write" /\ Head(sync'[o].queue) = q
    BY DEF OpensHold
  <2>1. file[q].open[o] # "no" /\ (q = p => o # s)
    BY <1>1, <1>2
  <2>2. sync[o].at = "write" /\ Head(sync[o].queue) = q
    BY <2>1 DEF SyncInv, OpensHold
  <2>3. o # s
    BY <2>1, <2>2 DEF p, j
  <2> QED BY <1>1, <2>2, <2>3
<1>10. ASSUME NEW o \in Candles!Syncers
       PROVE  SyncHolds(o, sync'[o], repaired', file')
  <2>1. CASE o = s
    <3>1. sync'[o] = r
      BY <1>1, <2>1
    <3> QED BY <1>4, <3>1 DEF SyncHolds, InFile
  <2>2. CASE o # s
    <3>1. sync'[o] = sync[o] /\ SyncHolds(o, sync[o], repaired, file) /\ ~sync[o].alone
      BY <1>1, <2>2, SyncAt DEF SyncInv, AloneIsAlone
    <3>2. CASE sync[o].at = "idle"
      BY <3>1, <3>2 DEF SyncHolds, InFile
    <3>3. CASE sync[o].at # "idle"
      <4>1. new = {}
        BY <2>2, <3>3 DEF SyncInv, AloneIsAlone
      <4>2. repaired' = repaired
        BY <1>1, <4>1 DEF SyncInv, SyncTypeOK
      <4> QED BY <3>1, <4>2 DEF SyncHolds, InFile, FetchHolds
    <3> QED BY <3>2, <3>3
  <2> QED BY <2>1, <2>2
<1>11. FetchesHold'
  BY <1>10 DEF FetchesHold, SyncHolds, InFile, FetchHolds, ClosedAt, Asked, Whole,
      Candles!Closes, Candles!Opens
<1> QED BY <1>5, <1>6, <1>7, <1>8, <1>9, <1>11 DEF SyncInv

\* The file is replaced.  A sync that is alone repairs what it was asked for, and
\* the other sync, being idle, holds nothing that was read before.
LEMMA ReplaceKeeps ==
  ASSUME SyncInv, NEW s \in Candles!Syncers, Candles!Replace(s)
  PROVE  SyncInv'
<1> DEFINE j == sync[s]
           p == Head(j.queue)
           f == file[p]
           g == Replaced(f, s)
           new == Candles!Repairs(p, j)
<1>1. /\ j.at = "write" /\ f.open[s] = "closed" /\ f.temporary # Absent /\ now' = now
      /\ file' = [file EXCEPT ![p] = g]
      /\ repaired' = [repaired EXCEPT ![p] = @ \cup new]
      /\ sync' = [sync EXCEPT ![s] = Candles!After(s)]
  BY CandleFiles DEF Candles!Replace, Candles!Becomes, Candles!Put
<1>2. /\ now \in Nat /\ IsSync(j) /\ j.began <= now /\ SyncHolds(s, j, repaired, file)
      /\ Bar \in Nat
  BY SyncAt
<1>3. new = IF j.alone THEN Asked(j, p) ELSE {}
  BY DEF Candles!Repairs, Asked, ClosedAt
<1>4. p \in Pairs =>
        /\ Sound(g, Candles!Syncers) /\ g.published = f.temporary /\ g.temporary = Absent
        /\ g.open[s] = "no"
        /\ \A o \in Candles!Syncers : f.open[o] = "no" => g.open[o] = "no"
  BY <1>1, FileAt, ReplacedSound
<1>5. ASSUME p \in Pairs, NEW rows, Keeps(g, rows)
      PROVE  Whole(rows, repaired[p] \cup new)
  <2>1. f.temporary = Intact(rows)
    BY <1>4, <1>5, ContentsDiffer DEF Keeps
  <2>2. Whole(rows, repaired[p])
    BY <1>5, <2>1, FileAt DEF Keeps
  <2>3. j.alone => Whole(rows, Asked(j, p))
    BY <1>1, <1>2, <1>5, <2>1 DEF SyncHolds, InFile, FetchHolds
  <2> QED BY <1>3, <2>2, <2>3 DEF Whole
<1>6. ASSUME p \in Pairs, NEW b \in new
      PROVE  b \in Traded[p] /\ Candles!Closes(b) <= now
  <2>1. b \in Traded[p] /\ Candles!Closes(b) <= j.began
    BY <1>3, <1>6 DEF Asked, ClosedAt
  <2>2. b \in Nat
    BY <1>6, <2>1, StoresAssumption
  <2>3. Candles!Closes(b) \in Nat /\ j.began \in Nat
    BY <1>2, <2>2 DEF Candles!Closes, Candles!Opens, IsSync
  <2> QED BY <1>2, <2>1, <2>3
<1>7. p \in Pairs => g.published # Absent
  BY <1>1, <1>4
<1>8. ~j.alone => new = {}
  BY <1>3
<1> HIDE DEF g, new
<1> QED BY <1>1, <1>4, <1>5, <1>6, <1>7, <1>8, EndsKeep

\* The other sync has taken the temporary file away.
LEMMA ReplaceFailsKeeps ==
  ASSUME SyncInv, NEW s \in Candles!Syncers, Candles!ReplaceFails(s)
  PROVE  SyncInv'
<1> DEFINE p == Head(sync[s].queue)
           f == file[p]
           g == Abandoned(f, s)
<1>1. /\ sync[s].at = "write" /\ f.temporary = Absent /\ now' = now
      /\ file' = [file EXCEPT ![p] = g] /\ repaired' = repaired
      /\ sync' = [sync EXCEPT ![s] = Candles!Idle]
  BY CandleFiles DEF Candles!ReplaceFails, Candles!Becomes, Candles!Put
<1>2. p \in Pairs =>
        /\ Sound(g, Candles!Syncers) /\ g.published = f.published /\ g.temporary = Absent
        /\ g.open = [f.open EXCEPT ![s] = "no"]
        /\ \A rows : Keeps(g, rows) => Whole(rows, repaired[p])
  BY <1>1, FileAt, AbandonedSound
<1>3. p \in Pairs => /\ g.open[s] = "no"
                     /\ \A o \in Candles!Syncers : f.open[o] = "no" => g.open[o] = "no"
  BY <1>2, FileAt DEF Sound
<1>4. p \in Pairs => (g.published = Absent => repaired[p] = {})
  BY <1>2, FileAt
<1>5. repaired' = [repaired EXCEPT ![p] = @ \cup {}]
  BY <1>1 DEF SyncInv, SyncTypeOK
<1> DEFINE new == {}
<1>6. /\ p \in Pairs => /\ g.published = Absent => repaired[p] \cup new = {}
                        /\ \A rows : Keeps(g, rows) => Whole(rows, repaired[p] \cup new)
                        /\ \A b \in new : b \in Traded[p] /\ Candles!Closes(b) <= now
      /\ repaired' = [repaired EXCEPT ![p] = @ \cup new]
      /\ new = {}
  BY <1>2, <1>4, <1>5 DEF Whole
<1> HIDE DEF g, new
<1> QED BY <1>1, <1>2, <1>3, <1>6, EndsKeep

\* A crash ends both syncs and leaves the files.
LEMMA CrashKeepsCandles ==
  ASSUME SyncInv, Candles!Crash
  PROVE  SyncInv'
<1>1. /\ UNCHANGED <<now, repaired>> /\ sync' = [s \in Candles!Syncers |-> Candles!Idle]
      /\ file' = [p \in Pairs |-> Killed(file[p])]
  BY CandleFiles DEF Candles!Crash
<1>2. SyncTypeOK'
  <2>1. /\ now' \in Nat /\ file' = [p \in Pairs |-> file'[p]]
        /\ repaired' = [p \in Pairs |-> repaired'[p]]
    BY <1>1 DEF SyncInv, SyncTypeOK
  <2>2. sync' = [s \in Candles!Syncers |-> sync'[s]]
    BY <1>1
  <2>3. \A s \in Candles!Syncers : IsSync(sync'[s]) /\ sync'[s].began <= now'
    BY <1>1, <2>1, IdleIs
  <2> QED BY <2>1, <2>2, <2>3 DEF SyncTypeOK, IsSync
<1>3. ASSUME NEW p \in Pairs
      PROVE  /\ Sound(file'[p], Candles!Syncers) /\ file'[p].published = file[p].published
             /\ \A s \in Candles!Syncers : file'[p].open[s] = "no"
             /\ \A rows : Keeps(file'[p], rows) => Keeps(file[p], rows)
  <2> DEFINE f == file[p]
             g == Killed(f)
  <2>1. Sound(f, Candles!Syncers) /\ file'[p] = g
    BY <1>1, FileAt
  <2> HIDE DEF f
  <2>2. Sound(g, Candles!Syncers)
    BY <2>1, KilledSound, Zenon
  <2>3. g.published = f.published
    BY <2>1, KilledSound, Zenon
  <2>4. g.open = [s \in Candles!Syncers |-> "no"]
    BY <2>1, KilledSound, Zenon
  <2>5. \A rows : Keeps(g, rows) => Keeps(f, rows)
    BY <2>1, KilledSound, Zenon
  <2> HIDE DEF g
  <2> QED BY <2>1, <2>2, <2>3, <2>4, <2>5 DEF f
<1>4. FilesHold' /\ OpensHold'
  BY <1>1, <1>3 DEF SyncInv, FilesHold, OpensHold, Whole, Candles!Closes, Candles!Opens
<1>5. RepairedAreClosed'
  BY <1>1 DEF SyncInv, RepairedAreClosed, Candles!Closes, Candles!Opens
<1>6. AloneIsAlone' /\ FetchesHold'
  BY <1>1, IdleIs DEF AloneIsAlone, FetchesHold, SyncHolds, InFile
<1> QED BY <1>2, <1>4, <1>5, <1>6 DEF SyncInv

(***************************************************************************)
(* The theorem                                                              *)
(***************************************************************************)
LEMMA SyncKeeps ==
  SyncInv /\ [Candles!Next]_(Candles!vars) => SyncInv'
<1> SUFFICES ASSUME SyncInv, [Candles!Next]_(Candles!vars) PROVE SyncInv'
  OBVIOUS
<1>1. CASE UNCHANGED Candles!vars
  BY <1>1, CaptureKeeps DEF Candles!vars
<1>2. CASE Candles!Next
  <2>1. CASE Candles!CaptureUniverse
    BY <2>1, CaptureKeeps DEF Candles!CaptureUniverse
  <2>2. CASE \E s \in Candles!Syncers : Candles!Step(s)
    BY <2>2, FetchPageKeeps, PageEndKeeps, MergeKeeps, WriteTemporaryKeeps, ReplaceKeeps,
       ReplaceFailsKeeps
    DEF Candles!Step
  <2> QED BY <1>2, <2>1, <2>2, TickKeeps, BeginKeepsSync, NextPairKeeps, CrashKeepsCandles
          DEF Candles!Next
<1> QED BY <1>1, <1>2

\* However syncs of the job and of the route overlap, retry, fail or crash: a candle that
\* one of them, being alone, has fetched after its close is in the file with its whole bar
\* whenever the file can be read, and only syncs that wrote it at once leave it broken,
\* for any pairs, candles, pages and requests.
THEOREM RepairedCandlesStay == Candles!Spec => []Candles!RepairedForGood
<1> QED BY SyncInvImplies, SyncInitInv, SyncKeeps, PTL DEF Candles!Spec

-----------------------------------------------------------------------------
(***************************************************************************)
(* The stores together                                                      *)
(***************************************************************************)
FillsP == INSTANCE PostgresLedgerProofs

\* The assumptions of the ledger hold of its instance.
LEMMA FillsAssumed == FillsP!LedgerAssumption /\ FillsP!OrdersAreFills
<1>1. FillsP!LedgerAssumption
  <2>1. FillsP!IsFiniteSet(Assets)
    BY StoresAssumption, Zenon DEF FillsP!IsFiniteSet, IsFiniteSet
  <2> QED BY <2>1, StoresAssumption, Zenon
<1>2. FillsP!OrdersAreFills
  BY StoresAssumption DEF FillsP!OrdersAreFills, FillsP!OrderIntent, Fills!OrderIntent,
     FillsP!ExecutionReport, Fills!ExecutionReport, FillsP!Notional, Fills!Notional,
     FillsP!Sides, Fills!Sides
<1> QED BY <1>1, <1>2

\* The ledger that is run is the ledger that the proofs are about.
LEMMA FillsInit == Fills!PostgresInit <=> FillsP!PostgresInit
  BY DEF FillsP!PostgresInit, Fills!PostgresInit, FillsP!NoPosition, Fills!NoPosition

LEMMA FillsNext == Fills!PostgresNext <=> FillsP!PostgresNext
  BY Zenon DEF
     Fills!NoPosition, FillsP!NoPosition, Fills!Notional, FillsP!Notional, Fills!RoundDiv,
     FillsP!RoundDiv, Fills!Duplicate, FillsP!Duplicate, Fills!Filled, FillsP!Filled,
     Fills!CashAfter, FillsP!CashAfter, Fills!RealizedPnl, FillsP!RealizedPnl,
     Fills!ExecutionRow, FillsP!ExecutionRow, Fills!OnLedger, FillsP!OnLedger,
     Fills!ledgerVars, FillsP!ledgerVars, Fills!Goes, FillsP!Goes, Fills!At, FillsP!At,
     Fills!Holders, FillsP!Holders, Fills!SelectDuplicate, FillsP!SelectDuplicate,
     Fills!SelectPortfolio, FillsP!SelectPortfolio, Fills!SelectPosition,
     FillsP!SelectPosition, Fills!Written, FillsP!Written, Fills!UpsertPosition,
     FillsP!UpsertPosition, Fills!UpdateCash, FillsP!UpdateCash, Fills!InsertExecution,
     FillsP!InsertExecution, Fills!Commit, FillsP!Commit, Fills!Rollback, FillsP!Rollback,
     Fills!PostgresNext, FillsP!PostgresNext

LEMMA FillsProperty == Fills!FillsHoldOnPostgres <=> FillsP!FillsHoldOnPostgres
<1>1. FillsP!LedgerReconciles <=> Fills!LedgerReconciles
  BY DEF FillsP!LedgerReconciles, Fills!LedgerReconciles, FillsP!Total, Fills!Total,
     FillsP!SumOf, Fills!SumOf, FillsP!Running, Fills!Running, Fills!CashFlow,
     FillsP!CashFlow, Fills!QuantityFlow, FillsP!QuantityFlow, Fills!Notional, FillsP!Notional
<1>2. FillsP!CostBasisReconciles <=> Fills!CostBasisReconciles
  BY DEF FillsP!CostBasisReconciles, Fills!CostBasisReconciles, FillsP!Total, Fills!Total,
     FillsP!SumOf, Fills!SumOf, FillsP!Running, Fills!Running, FillsP!MapThenSumSet,
     Fills!MapThenSumSet, FillsP!MapThenFoldSet, Fills!MapThenFoldSet
<1> QED BY <1>1, <1>2 DEF FillsP!FillsHoldOnPostgres, Fills!FillsHoldOnPostgres

LEMMA FillsSpec == Fills!PostgresSpec => FillsP!PostgresSpec
<1>1. Fills!PostgresInit => FillsP!PostgresInit
  BY FillsInit
<1>2. [Fills!PostgresNext]_(Fills!vars) => [FillsP!PostgresNext]_(FillsP!vars)
  BY FillsNext DEF Fills!vars, FillsP!vars, Fills!ledgerVars, FillsP!ledgerVars
<1> QED BY <1>1, <1>2, PTL DEF Fills!PostgresSpec, FillsP!PostgresSpec

\* A step of the stores is a step of one of them and leaves the others alone.
LEMMA StepsOfParts ==
  [StoresNext]_storesVars =>
    /\ [Next]_vars /\ [Registry!Next]_(Registry!vars)
    /\ [Fills!PostgresNext]_(Fills!vars) /\ [MigrationNext]_migrationVars
    /\ [Candles!Next]_(Candles!vars)
<1>1. UNCHANGED fillVars => UNCHANGED Fills!vars
  BY DEF fillVars, Fills!vars, Fills!ledgerVars
<1>2. UNCHANGED registryVars => UNCHANGED Registry!vars
  BY DEF registryVars, Registry!vars
<1>5. UNCHANGED candleVars => UNCHANGED Candles!vars
  BY DEF candleVars, Candles!vars
<1>3. CASE UNCHANGED storesVars
  BY <1>1, <1>2, <1>3, <1>5 DEF storesVars
<1>4. CASE StoresNext
  BY <1>1, <1>2, <1>4, <1>5 DEF StoresNext
<1> QED BY <1>3, <1>4

\* The stores together implement each of them: no step of one disturbs another, so
\* that what is proved of one of them holds among the others.
THEOREM StoresAreEachOfThem ==
  StoresSpec => Spec /\ Registry!Spec /\ Fills!PostgresSpec /\ MigrationSpec /\ Candles!Spec
<1>1. StoresInit =>
        Init /\ Registry!Init /\ Fills!PostgresInit /\ MigrationInit /\ Candles!Init
  BY DEF StoresInit
<1> QED BY <1>1, StepsOfParts, PTL DEF StoresSpec, Spec, Registry!Spec, Fills!PostgresSpec,
        MigrationSpec, Candles!Spec

\* The model in use is complete and was approved, in the registry among the stores.
THEOREM StoresUseApprovedModels == StoresSpec => []ModelInUseIsApproved
<1>1. Registry!ModelInUseIsApproved => ModelInUseIsApproved
  BY DEF ModelInUseIsApproved
<1> QED BY <1>1, StoresAreEachOfThem, ModelsInUseAreApproved, PTL

\* A candle that a sync alone has fetched whole stays whole, in the candle files among
\* the stores.
THEOREM StoresKeepCandles == StoresSpec => []RepairedForGood
<1>1. Candles!RepairedForGood => RepairedForGood
  BY DEF RepairedForGood
<1> QED BY <1>1, StoresAreEachOfThem, RepairedCandlesStay, PTL

\* On PostgreSQL an intent is filled once, no balance or position is negative and
\* balances replay from the executions as long as no fill read old ones; and what a
\* migration leaves there is a cut of the databases, with every row written since.
THEOREM PostgresAlwaysKeepsTheBooks == StoresSpec => []PostgresKeepsTheBooks
<1>1. FillsP!PostgresSpec => []FillsP!FillsHoldOnPostgres
  BY FillsAssumed, FillsP!FillsAlwaysHoldOnPostgres
<1>2. FillsP!FillsHoldOnPostgres /\ TargetIsACut => PostgresKeepsTheBooks
  BY FillsProperty DEF PostgresKeepsTheBooks
<1> QED BY <1>1, <1>2, StoresAreEachOfThem, FillsSpec, TargetIsAlwaysACut, PTL
=============================================================================
