---------------------- MODULE DerivativesStreamsProofs ----------------------
(***************************************************************************)
(* Proofs about DerivativesStreams for any number of processes, any limits  *)
(* and any number of faults.  Fairness plays no part in them.  And about    *)
(* DerivativesSignals: an overlay stays what the tables say for its cutoff. *)
(***************************************************************************)
EXTENDS DerivativesStreams, DerivativesSignals, TLAPS, FiniteSetTheorems, WellFoundedInduction

(***************************************************************************)
(* The inductive invariant                                                  *)
(***************************************************************************)
\* A watchdog fires on the connection that is open, and its connection leaving
\* makes it late.
FiredIsOpen == \A p \in Procs : dog[p] = "fired" => worker[p] = "open"

\* Only a supervisor that holds the lock, or drains before it releases it, has a
\* worker.
CollectorsHold ==
    \A p \in Procs : worker[p] # "off" => pc[p] \in Holding \cup {"drain"}

\* From its mkdir to its rmdir the directory is the process' own.
Keeping == Holding \cup {"drain", "release", "unlink"}
Has(p) == pc[p] \in {"write", "rmdir"} \cup Keeping

\* As long as no stat found a stale heartbeat, nobody renames the directory, so
\* no owner file comes up at the path of another process, and nobody cleans up
\* after a failed creation.
FreshLock ==
    ~sawStale =>
        /\ \A p \in Procs : pc[p] \notin {"rename"} \cup Cleaning
        /\ \A p, q \in Procs : Has(p) /\ Has(q) => p = q
        /\ \A p \in Procs : Has(p) => lock.dir
        /\ \A p \in Procs : pc[p] \in {"write", "rmdir"} => lock.owner = NoOwner
        /\ \A p \in Procs : pc[p] \in Keeping => lock.owner = p

\* Who answers for a connected_since: a worker whose connection is over and who
\* is about to write the row, one whose watchdog is, or one that has been
\* connected at least as long as the row says.
Answers(p) ==
    \/ worker[p] \in {"failed", "stale", "ending"}
    \/ dog[p] # "idle" /\ worker[p] # "off"
    \/ worker[p] = "open" /\ age[p] >= row.since

SinceIsReal == row.since # NoTime => unmarked \/ \E p \in Procs : Answers(p)

IInv == TypeOK /\ FiredIsOpen /\ CollectorsHold /\ FreshLock /\ SinceIsReal

(***************************************************************************)
(* Type correctness                                                         *)
(***************************************************************************)
\* An age that grows up to its bound stays below it.
LEMMA OlderType ==
  ASSUME NEW bound \in Nat, NEW n \in 0 .. bound
  PROVE  Older(n, bound) \in 0 .. bound /\ Older(n, bound) >= n
BY DEF Older

LockStates == [dir : BOOLEAN, owner : Procs \cup {NoOwner, Ghost}, age : 0 .. StaleAfter]
RowStates == [state : {"CONNECTED", "DISCONNECTED", "STALE"}, since : NoTime .. Window]

\* The directory a mkdir makes, and none, are states of the lock; the rows the
\* four writes leave are rows.
LEMMA MadeType ==
  /\ Gone \in LockStates
  /\ \A token \in Procs \cup {NoOwner} : Made(token) \in LockStates
BY StreamsAssumption DEF Gone, Made, LockStates

LEMMA MarkType ==
  ASSUME TypeOK
  PROVE  /\ mark_stream_disconnected \in RowStates /\ mark_stream_disconnected.since = NoTime
         /\ mark_stream_stale \in RowStates /\ mark_stream_stale.since = NoTime
         /\ \A p \in Procs : /\ mark_stream_connected(p) \in RowStates
                              /\ mark_stream_connected(p).state = "CONNECTED"
                              /\ mark_stream_connected(p).since = age[p]
         /\ mark_stream_message \in RowStates /\ mark_stream_message.state = "CONNECTED"
         /\ mark_stream_message.since = row.since
BY StreamsAssumption DEF TypeOK, RowStates, NoTime, mark_stream_disconnected, mark_stream_stale,
   mark_stream_connected, mark_stream_message

LEMMA InitIInv == Init => IInv
<1> SUFFICES ASSUME Init PROVE IInv
  OBVIOUS
<1>1. TypeOK
  <2>1. row \in RowStates /\ row.since = NoTime
    BY StreamsAssumption DEF Init, mark_stream_disconnected, RowStates, NoTime
  <2>2. lock \in LockStates
    BY MadeType DEF Init
  <2>3. /\ 0 \in 0 .. Window /\ 0 \in 0 .. Silence /\ 0 \in 0 .. MaxFaults
        /\ "down" \in SupervisorPlaces /\ "off" \in WorkerPlaces
    BY StreamsAssumption DEF SupervisorPlaces, WorkerPlaces
  <2> QED
    BY <2>1, <2>2, <2>3 DEF Init, TypeOK, LockStates, RowStates
<1> QED
  BY <1>1 DEF Init, IInv, FiredIsOpen, CollectorsHold, FreshLock, SinceIsReal, Has, Keeping,
     Holding, Cleaning, mark_stream_disconnected

LEMMA TypeStep == TypeOK /\ [Next]_vars => TypeOK'
<1> SUFFICES ASSUME TypeOK, [Next]_vars PROVE TypeOK'
  OBVIOUS
<1> USE StreamsAssumption DEF TypeOK, lockVars, supVars, workVars, rowVars
<1>1. ASSUME NEW p \in Procs, Start(p) PROVE TypeOK'
  BY <1>1 DEF Start, Goto, Fault, SupervisorPlaces, WorkerPlaces, Acquiring, Holding, Leaving,
     Cleaning, Connected
<1>2. ASSUME NEW p \in Procs, Create(p) PROVE TypeOK'
  <2>1. lock' \in LockStates
    BY <1>2, MadeType DEF Create, LockStates
  <2> QED
    BY <1>2, <2>1 DEF Create, Goto, LockStates, SupervisorPlaces, WorkerPlaces,
       Acquiring, Holding, Leaving, Cleaning, Connected
<1>3. ASSUME NEW p \in Procs, WriteOwner(p) PROVE TypeOK'
  <2>1. lock' \in LockStates
    BY <1>3, MadeType DEF WriteOwner, LockStates
  <2> QED
    BY <1>3, <2>1 DEF WriteOwner, Goto, LockStates, SupervisorPlaces, WorkerPlaces,
       Acquiring, Holding, Leaving, Cleaning, Connected
<1>4. ASSUME NEW p \in Procs, CleanOwner(p) PROVE TypeOK'
  BY <1>4 DEF CleanOwner, Goto, SupervisorPlaces, WorkerPlaces, Acquiring, Holding, Leaving,
     Cleaning, Connected
<1>5. ASSUME NEW p \in Procs, CleanDirectory(p) PROVE TypeOK'
  BY <1>5 DEF CleanDirectory, GiveUp, Goto, RemoveEmpty, Gone, SupervisorPlaces, WorkerPlaces, Acquiring, Holding, Leaving,
     Cleaning, Connected
<1>6. ASSUME NEW p \in Procs, Stat(p) PROVE TypeOK'
  BY <1>6 DEF Stat, Goto, SupervisorPlaces, WorkerPlaces, Acquiring, Holding, Leaving,
     Cleaning, Connected
<1>7. ASSUME NEW p \in Procs, Rename(p) PROVE TypeOK'
  BY <1>7 DEF Rename, Goto, Gone, SupervisorPlaces, WorkerPlaces, Acquiring, Holding, Leaving,
     Cleaning, Connected
<1>8. ASSUME NEW p \in Procs, Retry(p) PROVE TypeOK'
  BY <1>8 DEF Retry, Goto, SupervisorPlaces, WorkerPlaces, Acquiring, Holding, Leaving,
     Cleaning, Connected
<1>9. ASSUME NEW p \in Procs, Refresh(p) PROVE TypeOK'
  BY <1>9 DEF Refresh, GiveUp, Goto, SupervisorPlaces, WorkerPlaces, Acquiring, Holding, Leaving,
     Cleaning, Connected
<1>10. ASSUME NEW p \in Procs, Touch(p) PROVE TypeOK'
  <2>1. lock' \in LockStates
    BY <1>10 DEF Touch, LockStates
  <2>2. worker' \in [Procs -> WorkerPlaces]
    BY <1>10 DEF Touch, WorkerPlaces
  <2>3. pc' \in [Procs -> SupervisorPlaces] /\ stop' \in [Procs -> BOOLEAN]
    BY <1>10 DEF Touch, GiveUp, Goto, SupervisorPlaces, Holding, Leaving
  <2> QED
    BY <1>10, <2>1, <2>2, <2>3 DEF Touch, LockStates
<1>11. ASSUME NEW p \in Procs, Drain(p) PROVE TypeOK'
  BY <1>11 DEF Drain, Goto, SupervisorPlaces, WorkerPlaces, Acquiring, Holding, Leaving,
     Cleaning, Connected
<1>12. ASSUME NEW p \in Procs, Release(p) PROVE TypeOK'
  BY <1>12 DEF Release, Goto, SupervisorPlaces, WorkerPlaces, Acquiring, Holding, Leaving,
     Cleaning, Connected
<1>13. ASSUME NEW p \in Procs, Unlink(p) PROVE TypeOK'
  BY <1>13 DEF Unlink, Goto, SupervisorPlaces, WorkerPlaces, Acquiring, Holding, Leaving,
     Cleaning, Connected
<1>14. ASSUME NEW p \in Procs, Rmdir(p) PROVE TypeOK'
  BY <1>14 DEF Rmdir, Goto, RemoveEmpty, Gone, SupervisorPlaces, WorkerPlaces, Acquiring, Holding, Leaving,
     Cleaning, Connected
<1>15. ASSUME NEW p \in Procs, StopsWorker(p) PROVE TypeOK'
  BY <1>15 DEF StopsWorker, WorkerAt, LeaveConnection, SupervisorPlaces, WorkerPlaces, Acquiring, Holding, Leaving,
     Cleaning, Connected
<1>16. ASSUME NEW p \in Procs, MarkConnected(p) PROVE TypeOK'
  <2>1. row' \in RowStates /\ row'.state = "CONNECTED"
    BY <1>16, MarkType DEF MarkConnected, Tell
  <2> QED
    BY <1>16, <2>1 DEF MarkConnected, WorkerAt, Tell, RowStates, WorkerPlaces, Connected
<1>17. ASSUME NEW p \in Procs, Recover(p) PROVE TypeOK'
  <2>1. row' \in RowStates /\ (row'.since # NoTime => row'.state = "CONNECTED")
    BY <1>17, MarkType DEF Recover, Tell, RowStates
  <2>2. unmarked' \in BOOLEAN
    BY <1>17 DEF Recover, Tell
  <2> QED
    BY <1>17, <2>1, <2>2 DEF Recover, WorkerAt, RowStates, WorkerPlaces
<1>18. ASSUME NEW p \in Procs, EndWorker(p) PROVE TypeOK'
  <2>1. row' \in RowStates /\ row'.since = NoTime
    BY <1>18, MarkType DEF EndWorker, Tell
  <2> QED
    BY <1>18, <2>1 DEF EndWorker, WorkerAt, Tell, RowStates, WorkerPlaces
<1>19. ASSUME NEW p \in Procs, Connect(p) PROVE TypeOK'
  BY <1>19 DEF Connect, WorkerAt, SupervisorPlaces, WorkerPlaces, Acquiring, Holding, Leaving,
     Cleaning, Connected
<1>20. ASSUME NEW p \in Procs, Message(p) PROVE TypeOK'
  BY <1>20 DEF Message, mark_stream_message, NoTime, SupervisorPlaces, WorkerPlaces, Acquiring, Holding, Leaving,
     Cleaning, Connected
<1>21. ASSUME NEW p \in Procs, FindStale(p) PROVE TypeOK'
  BY <1>21 DEF FindStale, WorkerAt, LeaveConnection, SupervisorPlaces, WorkerPlaces, Acquiring, Holding, Leaving,
     Cleaning, Connected
<1>22. ASSUME NEW p \in Procs, Break(p) PROVE TypeOK'
  BY <1>22 DEF Break, WorkerAt, LeaveConnection, SupervisorPlaces, WorkerPlaces, Acquiring, Holding, Leaving,
     Cleaning, Connected
<1>23. ASSUME NEW p \in Procs, WatchdogFires(p) PROVE TypeOK'
  BY <1>23 DEF WatchdogFires, SupervisorPlaces, WorkerPlaces, Acquiring, Holding, Leaving,
     Cleaning, Connected
<1>24. ASSUME NEW p \in Procs, WatchdogMarks(p) PROVE TypeOK'
  <2>1. row' \in RowStates /\ row'.since = NoTime
    BY <1>24, MarkType DEF WatchdogMarks, Tell
  <2>2. /\ worker' \in [Procs -> WorkerPlaces]
        /\ age' \in [Procs -> 0 .. Window] /\ quiet' \in [Procs -> 0 .. Silence]
    BY <1>24 DEF WatchdogMarks, CloseFor, WorkerAt, WorkerPlaces
  <2> QED
    BY <1>24, <2>1, <2>2 DEF WatchdogMarks, Tell, RowStates
<1>25. ASSUME NEW p \in Procs, Stop(p) PROVE TypeOK'
  BY <1>25 DEF Stop, Fault, SupervisorPlaces, WorkerPlaces, Acquiring, Holding, Leaving,
     Cleaning, Connected
<1>26. ASSUME NEW p \in Procs, Exit(p) PROVE TypeOK'
  BY <1>26 DEF Exit, Vanish, Goto, WorkerAt, SupervisorPlaces, WorkerPlaces, Acquiring, Holding, Leaving,
     Cleaning, Connected
<1>27. ASSUME NEW p \in Procs, Crash(p) PROVE TypeOK'
  BY <1>27 DEF Crash, Vanish, Goto, WorkerAt, Fault, SupervisorPlaces, WorkerPlaces, Acquiring, Holding, Leaving,
     Cleaning, Connected
<1>28. ASSUME NEW p \in Procs, Boot(p) PROVE TypeOK'
  BY <1>28 DEF Boot, Goto, SupervisorPlaces, WorkerPlaces, Acquiring, Holding, Leaving,
     Cleaning, Connected
<1>29. ASSUME NEW p \in Procs, WriteFails(p) PROVE TypeOK'
  BY <1>29 DEF WriteFails, Fault, WorkerAt, CloseFor, SupervisorPlaces, WorkerPlaces, Acquiring, Holding, Leaving,
     Cleaning, Connected
<1>30. CASE Tick
  <2>1. lock' \in [dir : BOOLEAN, owner : Procs \cup {NoOwner, Ghost}, age : 0 .. StaleAfter]
    BY <1>30, OlderType DEF Tick
  <2>2. age' \in [Procs -> 0 .. Window] /\ quiet' \in [Procs -> 0 .. Silence]
    BY <1>30, OlderType DEF Tick
  <2>3. /\ row' \in [state : {"CONNECTED", "DISCONNECTED", "STALE"}, since : NoTime .. Window]
        /\ row'.since # NoTime => row'.state = "CONNECTED"
    BY <1>30, OlderType DEF Tick, NoTime
  <2> QED
    BY <1>30, <2>1, <2>2, <2>3 DEF Tick, Fault
<1>31. CASE UNCHANGED vars
  BY <1>31 DEF vars
<1> QED
  BY <1>1, <1>2, <1>3, <1>4, <1>5, <1>6, <1>7, <1>8, <1>9, <1>10, <1>11, <1>12, <1>13, <1>14, <1>15, <1>16, <1>17, <1>18, <1>19, <1>20, <1>21, <1>22, <1>23, <1>24, <1>25, <1>26, <1>27, <1>28, <1>29, <1>30, <1>31 DEF Next, SupervisorStep, WorkerStep

(***************************************************************************)
(* One collector while the lock is fresh                                    *)
(***************************************************************************)
LEMMA FiredStep ==
  ASSUME TypeOK, FiredIsOpen, [Next]_vars
  PROVE  FiredIsOpen'
<1>1. ASSUME NEW p \in Procs, SupervisorStep(p) PROVE FiredIsOpen'
  BY <1>1 DEF SupervisorStep, Create, WriteOwner, CleanOwner, CleanDirectory, Stat, Rename, Retry,
     Refresh, Touch, Drain, Release, Unlink, Rmdir, FiredIsOpen, TypeOK, workVars
<1>2. ASSUME NEW p \in Procs, WorkerStep(p) PROVE FiredIsOpen'
  BY <1>2 DEF WorkerStep, StopsWorker, MarkConnected, Recover, EndWorker, WorkerAt,
     LeaveConnection, FiredIsOpen, TypeOK
<1>3. ASSUME NEW p \in Procs, Connect(p) \/ Message(p) \/ FindStale(p) \/ Break(p) PROVE FiredIsOpen'
  BY <1>3 DEF Connect, Message, FindStale, Break, WorkerAt, LeaveConnection, FiredIsOpen, TypeOK
<1>4. ASSUME NEW p \in Procs, WatchdogFires(p) \/ WatchdogMarks(p) \/ WriteFails(p) PROVE FiredIsOpen'
  BY <1>4 DEF WatchdogFires, WatchdogMarks, WriteFails, CloseFor, WorkerAt, FiredIsOpen, TypeOK
<1>5. ASSUME NEW p \in Procs, Exit(p) \/ Crash(p) PROVE FiredIsOpen'
  BY <1>5 DEF Exit, Crash, Vanish, WorkerAt, FiredIsOpen, TypeOK
<1>6. ASSUME NEW p \in Procs, Start(p) \/ Stop(p) \/ Boot(p) PROVE FiredIsOpen'
  BY <1>6 DEF Start, Stop, Boot, FiredIsOpen, workVars
<1>7. CASE Tick \/ UNCHANGED vars
  BY <1>7 DEF Tick, vars, FiredIsOpen
<1> QED
  BY <1>1, <1>2, <1>3, <1>4, <1>5, <1>6, <1>7 DEF Next

\* A worker is started by a supervisor that has just refreshed the lock, and the
\* supervisor waits for its end before it releases.
LEMMA CollectorsStep ==
  ASSUME TypeOK, FiredIsOpen, CollectorsHold, [Next]_vars
  PROVE  CollectorsHold'
<1>1. ASSUME NEW p \in Procs, SupervisorStep(p) PROVE CollectorsHold'
  BY <1>1 DEF SupervisorStep, Create, WriteOwner, CleanOwner, CleanDirectory, Stat, Rename, Retry,
     Refresh, Touch, Drain, Release, Unlink, Rmdir, Goto, GiveUp, CollectorsHold, TypeOK, workVars,
     Holding, Cleaning
<1>2. ASSUME NEW p \in Procs, WorkerStep(p) PROVE CollectorsHold'
  BY <1>2 DEF WorkerStep, StopsWorker, MarkConnected, Recover, EndWorker, WorkerAt,
     CollectorsHold, TypeOK, supVars
<1>3. ASSUME NEW p \in Procs, Connect(p) \/ Message(p) \/ FindStale(p) \/ Break(p)
      PROVE  CollectorsHold'
  BY <1>3 DEF Connect, Message, FindStale, Break, WorkerAt, CollectorsHold, TypeOK, supVars, Connected
<1>4. ASSUME NEW p \in Procs, WatchdogFires(p) \/ WatchdogMarks(p) \/ WriteFails(p)
      PROVE  CollectorsHold'
  BY <1>4 DEF WatchdogFires, WatchdogMarks, WriteFails, CloseFor, WorkerAt, CollectorsHold,
     FiredIsOpen, TypeOK, supVars
<1>5. ASSUME NEW p \in Procs, Exit(p) \/ Crash(p) PROVE CollectorsHold'
  BY <1>5 DEF Exit, Crash, Vanish, Goto, WorkerAt, CollectorsHold, TypeOK
<1>6. ASSUME NEW p \in Procs, Start(p) \/ Stop(p) \/ Boot(p) PROVE CollectorsHold'
  BY <1>6 DEF Start, Stop, Boot, Goto, CollectorsHold, TypeOK, workVars, Holding
<1>7. CASE Tick \/ UNCHANGED vars
  BY <1>7 DEF Tick, vars, CollectorsHold, supVars
<1> QED
  BY <1>1, <1>2, <1>3, <1>4, <1>5, <1>6, <1>7 DEF Next

\* The calls on the directory, one by one.
LEMMA FreshStep ==
  ASSUME TypeOK, FreshLock, [Next]_vars
  PROVE  FreshLock'
<1> USE StreamsAssumption DEF TypeOK, FreshLock, Has, Keeping, Holding, Cleaning
<1>1. ASSUME NEW p \in Procs, Create(p) PROVE FreshLock'
  BY <1>1 DEF Create, Goto, Made, lockVars, supVars
<1>2. ASSUME NEW p \in Procs, WriteOwner(p) PROVE FreshLock'
  BY <1>2 DEF WriteOwner, Goto, Made, lockVars, supVars
<1>3. ASSUME NEW p \in Procs, CleanOwner(p) PROVE FreshLock'
  BY <1>3 DEF CleanOwner, Goto, lockVars, supVars
<1>4. ASSUME NEW p \in Procs, CleanDirectory(p) PROVE FreshLock'
  BY <1>4 DEF CleanDirectory, GiveUp, Goto, RemoveEmpty, Gone, lockVars, supVars
<1>5. ASSUME NEW p \in Procs, Stat(p) PROVE FreshLock'
  BY <1>5 DEF Stat, Goto, HeartbeatIsStale, lockVars, supVars
<1>6. ASSUME NEW p \in Procs, Rename(p) PROVE FreshLock'
  BY <1>6 DEF Rename, Goto, Gone, lockVars, supVars
<1>7. ASSUME NEW p \in Procs, Retry(p) PROVE FreshLock'
  BY <1>7 DEF Retry, Goto, lockVars, supVars
<1>8. ASSUME NEW p \in Procs, Refresh(p) PROVE FreshLock'
  BY <1>8 DEF Refresh, GiveUp, Goto, lockVars, supVars
<1>9. ASSUME NEW p \in Procs, Touch(p) PROVE FreshLock'
  BY <1>9 DEF Touch, GiveUp, Goto, lockVars, supVars
<1>10. ASSUME NEW p \in Procs, Drain(p) PROVE FreshLock'
  BY <1>10 DEF Drain, Goto, lockVars, supVars
<1>11. ASSUME NEW p \in Procs, Release(p) PROVE FreshLock'
  BY <1>11 DEF Release, Goto, lockVars, supVars
<1>12. ASSUME NEW p \in Procs, Unlink(p) PROVE FreshLock'
  BY <1>12 DEF Unlink, Goto, lockVars, supVars
<1>13. ASSUME NEW p \in Procs, Rmdir(p) PROVE FreshLock'
  BY <1>13 DEF Rmdir, Goto, RemoveEmpty, Gone, lockVars, supVars
<1>14. ASSUME NEW p \in Procs, Start(p) PROVE FreshLock'
  BY <1>14 DEF Start, Goto, lockVars, supVars
<1>15. ASSUME NEW p \in Procs, Boot(p) PROVE FreshLock'
  BY <1>15 DEF Boot, Goto, lockVars, supVars
<1>16. ASSUME NEW p \in Procs, Exit(p) PROVE FreshLock'
  BY <1>16 DEF Exit, Vanish, Goto, lockVars, supVars
<1>17. ASSUME NEW p \in Procs, Crash(p) PROVE FreshLock'
  BY <1>17 DEF Crash, Vanish, Goto, lockVars, supVars
<1>18. CASE UNCHANGED <<lock, pc, sawStale>>
  BY <1>18
<1>19. CASE Tick
  BY <1>19 DEF Tick, supVars
<1>20. ASSUME NEW p \in Procs,
             \/ WorkerStep(p) \/ Connect(p) \/ Message(p) \/ FindStale(p) \/ Break(p)
             \/ WatchdogFires(p) \/ WatchdogMarks(p) \/ Stop(p) \/ WriteFails(p)
      PROVE  UNCHANGED <<lock, pc, sawStale>>
  BY <1>20 DEF WorkerStep, StopsWorker, MarkConnected, Recover, EndWorker, Connect, Message,
     FindStale, Break, WatchdogFires, WatchdogMarks, Stop, WriteFails, lockVars, supVars
<1> QED
  BY <1>1, <1>2, <1>3, <1>4, <1>5, <1>6, <1>7, <1>8, <1>9, <1>10, <1>11, <1>12, <1>13, <1>14, <1>15, <1>16, <1>17, <1>18, <1>19, <1>20 DEF Next, SupervisorStep, vars

(***************************************************************************)
(* Coverage is real                                                         *)
(***************************************************************************)
\* A step that leaves the row alone, and every other process as it is, keeps the
\* claim if the process that moves still answers where it did.
LEMMA AnswersKept ==
  ASSUME TypeOK, SinceIsReal, NEW p \in Procs, row'.since = row.since, unmarked => unmarked',
         \A q \in Procs : q # p =>
            worker'[q] = worker[q] /\ dog'[q] = dog[q] /\ age'[q] = age[q],
         Answers(p) => unmarked' \/ Answers(p)'
  PROVE  SinceIsReal'
<1>1. ASSUME NEW q \in Procs, q # p, Answers(q) PROVE Answers(q)'
  BY <1>1 DEF Answers
<1> QED
  BY <1>1 DEF SinceIsReal

LEMMA SinceStep ==
  ASSUME TypeOK, FiredIsOpen, SinceIsReal, [Next]_vars
  PROVE  SinceIsReal'
<1>1. ASSUME NEW p \in Procs, SupervisorStep(p) PROVE SinceIsReal'
  <2>1. /\ UNCHANGED <<rowVars, age, dog>>
        /\ \A q \in Procs : q # p => worker'[q] = worker[q]
        /\ worker[p] # "off" => worker'[p] = worker[p]
    BY <1>1 DEF SupervisorStep, Create, WriteOwner, CleanOwner, CleanDirectory, Stat, Rename,
       Retry, Refresh, Touch, Drain, Release, Unlink, Rmdir, TypeOK, workVars
  <2>2. Answers(p) => Answers(p)'
    BY <2>1 DEF Answers, rowVars
  <2> QED
    BY <2>1, <2>2, AnswersKept DEF rowVars
<1>2. ASSUME NEW p \in Procs, StopsWorker(p) \/ FindStale(p) \/ Break(p) PROVE SinceIsReal'
  <2>1. /\ UNCHANGED rowVars
        /\ \A q \in Procs : q # p => worker'[q] = worker[q] /\ dog'[q] = dog[q] /\ age'[q] = age[q]
        /\ Answers(p)'
    BY <1>2 DEF StopsWorker, FindStale, Break, WorkerAt, LeaveConnection, TypeOK, Answers,
       Connected
  <2> QED
    BY <2>1, AnswersKept DEF rowVars
<1>3. ASSUME NEW p \in Procs, MarkConnected(p) PROVE SinceIsReal'
  <2>1. row'.since = age[p] /\ worker'[p] = "open" /\ age' = age /\ age[p] \in Int
    BY <1>3, MarkType DEF MarkConnected, Tell, WorkerAt, TypeOK
  <2> QED
    BY <2>1 DEF SinceIsReal, Answers
<1>4. ASSUME NEW p \in Procs, EndWorker(p) \/ WatchdogMarks(p) PROVE SinceIsReal'
  BY <1>4, MarkType DEF EndWorker, WatchdogMarks, Tell, SinceIsReal
<1>5. ASSUME NEW p \in Procs, Recover(p) PROVE SinceIsReal'
  <2>1. CASE worker[p] \in {"failed", "stale"}
    <3>1. row' \in {mark_stream_disconnected, mark_stream_stale}
      BY <1>5, <2>1 DEF Recover, Tell
    <3> QED
      BY <3>1, MarkType DEF SinceIsReal
  <2>2. CASE worker[p] = "silent"
    <3>1. /\ UNCHANGED <<rowVars, age, dog>>
          /\ \A q \in Procs : q # p => worker'[q] = worker[q]
          /\ worker'[p] = "dial"
      BY <1>5, <2>2 DEF Recover, WorkerAt, TypeOK
    <3>2. Answers(p) => Answers(p)'
      BY <2>2, <3>1 DEF Answers
    <3> QED
      BY <3>1, <3>2, AnswersKept DEF rowVars
  <2> QED
    BY <1>5, <2>1, <2>2 DEF Recover
<1>6. ASSUME NEW p \in Procs, Connect(p) PROVE SinceIsReal'
  <2>1. /\ UNCHANGED <<rowVars, dog>> /\ worker[p] = "dial" /\ worker'[p] \in {"opened", "failed"}
        /\ \A q \in Procs : q # p => worker'[q] = worker[q] /\ age'[q] = age[q]
    BY <1>6 DEF Connect, WorkerAt, TypeOK
  <2>2. Answers(p) => Answers(p)'
    BY <2>1 DEF Answers
  <2> QED
    BY <2>1, <2>2, AnswersKept DEF rowVars
<1>7. ASSUME NEW p \in Procs, Message(p) PROVE SinceIsReal'
  <2>1. row'.since = row.since /\ UNCHANGED <<worker, age, dog, unmarked>>
    BY <1>7, MarkType DEF Message
  <2> QED
    BY <2>1 DEF SinceIsReal, Answers
<1>8. ASSUME NEW p \in Procs, WatchdogFires(p) PROVE SinceIsReal'
  <2>1. /\ UNCHANGED <<rowVars, worker, age>> /\ dog'[p] = "fired" /\ worker[p] = "open"
        /\ \A q \in Procs : q # p => dog'[q] = dog[q]
    BY <1>8 DEF WatchdogFires, TypeOK
  <2>2. Answers(p)'
    BY <2>1 DEF Answers
  <2> QED
    BY <2>1, <2>2, AnswersKept DEF rowVars
<1>9. ASSUME NEW p \in Procs, WriteFails(p) PROVE SinceIsReal'
  BY <1>9 DEF WriteFails, SinceIsReal
<1>10. ASSUME NEW p \in Procs, Exit(p) \/ Crash(p) PROVE SinceIsReal'
  <2>1. /\ row' = row /\ (unmarked => unmarked')
        /\ \A q \in Procs : q # p => worker'[q] = worker[q] /\ dog'[q] = dog[q] /\ age'[q] = age[q]
        /\ worker[p] # "off" => unmarked'
    BY <1>10 DEF Exit, Crash, Vanish, WorkerAt, TypeOK
  <2> QED
    BY <2>1, AnswersKept DEF Answers
<1>11. ASSUME NEW p \in Procs, Start(p) \/ Stop(p) \/ Boot(p) PROVE SinceIsReal'
  BY <1>11 DEF Start, Stop, Boot, workVars, rowVars, SinceIsReal, Answers
<1>12. CASE Tick
  <2>1. ASSUME NEW p \in Procs, worker[p] = "open", age[p] >= row.since, row.since # NoTime
        PROVE  age'[p] >= row'.since
    BY <1>12, <2>1, StreamsAssumption DEF Tick, TypeOK, Connected, Older, NoTime
  <2>2. row.since = NoTime => row'.since = NoTime
    BY <1>12 DEF Tick, TypeOK
  <2>3. UNCHANGED <<worker, dog, unmarked>>
    BY <1>12 DEF Tick
  <2>4. ASSUME NEW p \in Procs, Answers(p), row.since # NoTime PROVE Answers(p)'
    BY <2>1, <2>3, <2>4 DEF Answers
  <2> QED
    BY <2>2, <2>3, <2>4 DEF SinceIsReal
<1>13. CASE UNCHANGED vars
  BY <1>13 DEF vars, SinceIsReal, Answers
<1> QED
  BY <1>1, <1>2, <1>3, <1>4, <1>5, <1>6, <1>7, <1>8, <1>9, <1>10, <1>11, <1>12, <1>13
     DEF Next, WorkerStep

(***************************************************************************)
(* The theorems                                                             *)
(***************************************************************************)
LEMMA InvAlways == Spec => []IInv
<1>1. IInv /\ [Next]_vars => IInv'
  BY TypeStep, FiredStep, CollectorsStep, FreshStep, SinceStep DEF IInv
<1> QED
  BY <1>1, InitIInv, PTL DEF Spec

\* Locks, rows, ages and places keep their types and bounds, whatever fails.
THEOREM StreamsTypeCorrect == Spec => []TypeOK
<1>1. IInv => TypeOK
  BY DEF IInv
<1> QED
  BY <1>1, InvAlways, PTL

\* For any number of processes: no two of them collect at once unless some stat
\* found the heartbeat of the lock stale, in whatever order their mkdir, open,
\* stat, utime, unlink and rmdir fall, and whoever stops or crashes.
THEOREM OneCollector == Spec => []OneCollectorWhileFresh
<1>1. IInv => OneCollectorWhileFresh
  <2> SUFFICES ASSUME IInv, ~sawStale PROVE Cardinality(Collectors) <= 1
    BY DEF OneCollectorWhileFresh
  <2>1. \A p, q \in Collectors : p = q
    BY DEF IInv, Collectors, CollectorsHold, FreshLock, Has, Keeping, Holding
  <2>2. CASE Collectors = {}
    BY <2>2, FS_EmptySet
  <2>3. CASE Collectors # {}
    <3>1. PICK p : Collectors = {p}
      BY <2>1, <2>3
    <3> QED
      BY <3>1, FS_Singleton
  <2> QED
    BY <2>2, <2>3
<1> QED
  BY <1>1, InvAlways, PTL

\* A liquidation window that continuously_connected_since confirms was covered by
\* a connection that long, or its end is about to be written, or a process or a
\* write of the row failed, for any number of collectors at work on the row.
THEOREM CoverageAlwaysReal == Spec => []CoverageIsReal
<1>1. IInv => CoverageIsReal
  <2> SUFFICES ASSUME IInv, WindowConfirmed, ~unmarked
               PROVE  \E p \in Procs : OwesTheRow(p) \/ (worker[p] = "open" /\ age[p] >= Window)
    BY DEF CoverageIsReal
  <2>1. PICK p \in Procs : Answers(p)
    BY DEF IInv, SinceIsReal, WindowConfirmed
  <2>2. worker[p] = "open" /\ age[p] >= row.since => age[p] >= Window
    BY StreamsAssumption DEF IInv, TypeOK, WindowConfirmed, NoTime
  <2> QED
    BY <2>1, <2>2 DEF Answers, OwesTheRow
<1> QED
  BY <1>1, InvAlways, PTL

(***************************************************************************)
(* The signals: the inductive invariant                                     *)
(***************************************************************************)
\* A signal is known when its snapshot is.
RowsAreDated(table) ==
    \A r \in table : r.asOf \in Nat /\ r.snapshot.available = r.asOf

\* How far a capture is.
CaptureOK ==
    capture # Absent =>
        /\ "at" \in DOMAIN capture
        /\ capture.at \in {"fetch", "snapshot", "signal", "others", "crowding"}
        /\ capture.at = "fetch" => capture.started \in Nat /\ capture.started <= clock
        /\ capture.at # "fetch" => /\ "snapshot" \in DOMAIN capture
                                   /\ "available" \in DOMAIN capture.snapshot
                                   /\ capture.snapshot.available \in Nat

\* What a capture stores is known only after the cutoff.
NotYet(cutoff) == Storing => cutoff < capture.snapshot.available

ReadingHolds ==
    reading # Absent =>
        /\ reading.asOf \in Nat /\ reading.asOf < clock
        /\ reading.quiet => /\ reading.signal = observation_known_at(reading.asOf)
                            /\ NotYet(reading.asOf)

DecisionsHold ==
    \A d \in decisions :
        /\ d.asOf \in Nat /\ d.asOf < clock
        /\ d.quiet => d.overlay = known_at(d.asOf) /\ NotYet(d.asOf)

SignalsInv ==
    /\ clock \in Nat
    /\ RowsAreDated(signals) /\ RowsAreDated(crowding)
    /\ CaptureOK
    /\ ReadingHolds
    /\ DecisionsHold

LEMMA GreatestNat ==
  ASSUME NEW T, T \subseteq Nat, T # {}, NEW bound \in Nat, \A x \in T : x <= bound
  PROVE  \E x \in T : \A y \in T : y <= x
<1> DEFINE D == {bound - x : x \in T}
<1>0. \A x \in T : x \in Nat /\ bound - x \in Nat
  OBVIOUS
<1>1. D \subseteq Nat /\ D # {}
  BY <1>0
<1>2. PICK a \in D : \A b \in D : ~ (<<b, a>> \in OpToRel(<, Nat))
  BY <1>1, WFMin, NatLessThanWellFounded
<1>3. \A b \in D : ~(b < a)
  BY <1>1, <1>2 DEF OpToRel
<1>4. PICK x \in T : a = bound - x
  OBVIOUS
<1>5. \A y \in T : bound - y \in D
  OBVIOUS
<1> HIDE DEF D
<1> SUFFICES ASSUME NEW y \in T PROVE y <= x
  OBVIOUS
<1>6. ~(bound - y < bound - x)
  BY <1>3, <1>4, <1>5
<1> QED BY <1>0, <1>6

(***************************************************************************)
(* The signals: reading the tables                                          *)
(***************************************************************************)
\* What is known at a cutoff is no later than the cutoff.
LEMMA KnownIsPast ==
  ASSUME NEW table, RowsAreDated(table), NEW version, NEW cutoff \in Nat,
         Known(table, version, cutoff) # Absent
  PROVE  LET r == Known(table, version, cutoff)
         IN  r \in table /\ r.asOf <= cutoff /\ r.snapshot.available <= cutoff
<1> DEFINE known == {r \in table : /\ r.version = version /\ r.asOf <= cutoff
                                   /\ r.snapshot.available <= cutoff}
           Greatest(r) == \A y \in known : y.asOf <= r.asOf
           newest == CHOOSE r \in known : Greatest(r)
<1>1. known # {} /\ Known(table, version, cutoff) = newest
  BY DEF Known, Newest
<1>2. \E r \in known : Greatest(r)
  <2> DEFINE T == {r.asOf : r \in known}
  <2>1. T \subseteq Nat /\ T # {} /\ \A x \in T : x <= cutoff
    BY <1>1 DEF RowsAreDated
  <2>2. PICK x \in T : \A y \in T : y <= x
    BY <2>1, GreatestNat
  <2> QED BY <2>2
<1>3. newest \in known
  <2> HIDE DEF known, Greatest
  <2> QED BY <1>2
<1> QED BY <1>1, <1>3

\* What is known at a cutoff does not change by rows of a later time.
LEMMA KnownStays ==
  ASSUME NEW more, NEW cutoff, \A r \in more : ~(r.asOf <= cutoff)
  PROVE  \A table, version : Known(table \cup more, version, cutoff) = Known(table, version, cutoff)
<1> TAKE table, version
<1> DEFINE known(t) == {r \in t : /\ r.version = version /\ r.asOf <= cutoff
                                  /\ r.snapshot.available <= cutoff}
<1>1. known(table \cup more) = known(table)
  OBVIOUS
<1> QED BY <1>1 DEF Known

\* INSERT OR IGNORE adds the row or nothing.
LEMMA StoreIs ==
  ASSUME NEW table, NEW entry
  PROVE  \E more \in SUBSET {entry} : Store(table, entry) = table \cup more
<1>1. CASE Store(table, entry) = table
  <2> WITNESS {} \in SUBSET {entry}
  <2> QED BY <1>1
<1>2. CASE Store(table, entry) = table \cup {entry}
  <2> WITNESS {entry} \in SUBSET {entry}
  <2> QED BY <1>2
<1> QED BY <1>1, <1>2 DEF Store

\* The overlay of a squeeze signal that is known is never rejected.
LEMMA KnownIsSound ==
  ASSUME RowsAreDated(signals), RowsAreDated(crowding), NEW cutoff \in Nat
  PROVE  OverlayIsSound(known_at(cutoff))
<1> DEFINE signal == observation_known_at(cutoff)
           crowd == crowding_known_at(cutoff)
<1>1. signal # Absent => signal.asOf <= cutoff /\ signal.snapshot.available <= cutoff
  BY KnownIsPast DEF observation_known_at
<1>2. crowd # Absent => crowd.asOf <= cutoff
  BY KnownIsPast DEF crowding_known_at
<1> HIDE DEF signal, crowd
<1>3. OverlayIsSound(Overlay(cutoff, signal, crowd))
  BY <1>1, <1>2 DEF OverlayIsSound, Overlay, Availability
<1> QED BY <1>3 DEF known_at, signal, crowd

(***************************************************************************)
(* The signals: the steps                                                   *)
(***************************************************************************)
LEMMA SignalsInitInv == SignalsInit => SignalsInv
BY DEF SignalsInit, SignalsInv, RowsAreDated, CaptureOK, ReadingHolds, DecisionsHold

\* What was read for a cutoff stays, where rows come of a capture that is storing
\* and a capture that begins to store is of a time not before the clock's.
LEMMA StepKeeps ==
  ASSUME SignalsInv, CaptureOK',
         clock' \in Nat, clock <= clock',
         reading' \in {reading, Absent}, decisions' = decisions,
         NEW more, NEW crowd, signals' = signals \cup more, crowding' = crowding \cup crowd,
         \A r \in more : /\ Storing /\ r.asOf = capture.snapshot.available
                         /\ r.snapshot.available = r.asOf,
         \A r \in crowd : /\ Storing /\ r.asOf = capture.snapshot.available
                          /\ r.snapshot.available = r.asOf,
         Storing' => IF Storing THEN capture'.snapshot.available = capture.snapshot.available
                     ELSE clock <= capture'.snapshot.available
  PROVE  SignalsInv'
<1>1. Storing => capture.snapshot.available \in Nat
  BY DEF SignalsInv, CaptureOK, Storing
<1>2. Storing' => capture'.snapshot.available \in Nat
  BY DEF CaptureOK, Storing
<1>3. RowsAreDated(signals)' /\ RowsAreDated(crowding)'
  BY <1>1 DEF SignalsInv, RowsAreDated
<1>4. ASSUME NEW cutoff \in Nat, cutoff < clock, NotYet(cutoff)
      PROVE  /\ Storing' => cutoff < capture'.snapshot.available
             /\ Known(signals', "proxy", cutoff) = Known(signals, "proxy", cutoff)
             /\ Known(crowding', "crowding", cutoff) = Known(crowding, "crowding", cutoff)
  <2>1. /\ \A r \in more : ~(r.asOf <= cutoff)
        /\ \A r \in crowd : ~(r.asOf <= cutoff)
    BY <1>1, <1>4 DEF NotYet
  <2>2. \A table, version :
          Known(table \cup more, version, cutoff) = Known(table, version, cutoff)
    BY <2>1, KnownStays
  <2>3. \A table, version :
          Known(table \cup crowd, version, cutoff) = Known(table, version, cutoff)
    BY <2>1, KnownStays
  <2>4. Storing' => cutoff < capture'.snapshot.available
    BY <1>1, <1>2, <1>4 DEF NotYet, SignalsInv
  <2> QED BY <2>2, <2>3, <2>4
<1>5. ReadingHolds'
  <2>1. CASE reading' = Absent
    BY <2>1 DEF ReadingHolds
  <2>2. CASE reading # Absent /\ reading' = reading
    <3> DEFINE c == reading.asOf
    <3>1. c \in Nat /\ c < clock /\ c < clock'
      BY <2>2 DEF SignalsInv, ReadingHolds
    <3>2. ASSUME reading.quiet
          PROVE  /\ reading.signal = Known(signals', "proxy", c)
                 /\ Storing' => c < capture'.snapshot.available
      <4>1. NotYet(c) /\ reading.signal = Known(signals, "proxy", c)
        BY <2>2, <3>2 DEF SignalsInv, ReadingHolds, observation_known_at
      <4> HIDE DEF c
      <4> QED BY <1>4, <3>1, <4>1
    <3>3. c' = c /\ reading'.quiet = reading.quiet /\ reading'.signal = reading.signal
      BY <2>2
    <3>4. reading'.quiet => /\ reading'.signal = Known(signals', "proxy", c')
                            /\ Storing' => c' < capture'.snapshot.available
      <4> HIDE DEF c
      <4> QED BY <3>2, <3>3
    <3>5. ReadingHolds' = (reading' # Absent =>
            /\ c' \in Nat /\ c' < clock'
            /\ reading'.quiet => /\ reading'.signal = Known(signals', "proxy", c')
                                 /\ Storing' => c' < capture'.snapshot.available)
      BY DEF ReadingHolds, observation_known_at, NotYet
    <3> QED BY <3>1, <3>3, <3>4, <3>5
  <2> QED BY <2>1, <2>2 DEF ReadingHolds
<1>6. DecisionsHold'
  <2> SUFFICES ASSUME NEW d \in decisions
               PROVE  /\ d.asOf \in Nat /\ d.asOf < clock'
                      /\ d.quiet => /\ d.overlay = Overlay(d.asOf, Known(signals', "proxy", d.asOf),
                                                    Known(crowding', "crowding", d.asOf))
                                    /\ Storing' => d.asOf < capture'.snapshot.available
    BY DEF DecisionsHold, known_at, observation_known_at, crowding_known_at, NotYet
  <2>1. /\ d.asOf \in Nat /\ d.asOf < clock
        /\ d.quiet => d.overlay = known_at(d.asOf) /\ NotYet(d.asOf)
    BY DEF SignalsInv, DecisionsHold
  <2>2. d.asOf < clock'
    BY <2>1 DEF SignalsInv
  <2> QED BY <1>4, <2>1, <2>2 DEF known_at, observation_known_at, crowding_known_at
<1> QED BY <1>3, <1>5, <1>6 DEF SignalsInv

\* A step that stores no signal.
LEMMA QuietStepKeeps ==
  ASSUME SignalsInv, CaptureOK', clock' \in Nat, clock <= clock',
         reading' \in {reading, Absent}, decisions' = decisions,
         signals' = signals, crowding' = crowding,
         Storing' => IF Storing THEN capture'.snapshot.available = capture.snapshot.available
                     ELSE clock <= capture'.snapshot.available
  PROVE  SignalsInv'
<1> DEFINE none == {}
<1>1. signals' = signals \cup none /\ crowding' = crowding \cup none
  OBVIOUS
<1>2. \A r \in none : /\ Storing /\ r.asOf = capture.snapshot.available
                      /\ r.snapshot.available = r.asOf
  OBVIOUS
<1> HIDE DEF none
<1> QED BY <1>1, <1>2, StepKeeps, Zenon

\* The streams and the clock store no signal.
LEMMA StreamKeeps ==
  ASSUME SignalsInv, clock' \in {clock, clock + 1},
         UNCHANGED <<signals, crowding, capture, reading, decisions>>
  PROVE  SignalsInv'
<1>1. clock \in Nat /\ clock' \in Nat /\ clock <= clock'
  BY DEF SignalsInv
<1>2. CaptureOK'
  BY <1>1 DEF SignalsInv, CaptureOK
<1>3. Storing' = Storing
  BY DEF Storing
<1> QED BY <1>1, <1>2, <1>3, QuietStepKeeps

\* A capture reads the clock again when it has fetched, and its snapshot is available
\* from then on.
LEMMA FetchKeeps ==
  ASSUME SignalsInv, StartFetch \/ \E answer \in BasisAnswers : EndFetch(answer)
  PROVE  SignalsInv'
<1>1. /\ clock' = clock /\ signals' = signals /\ crowding' = crowding
      /\ reading' = reading /\ decisions' = decisions /\ clock \in Nat
  BY DEF StartFetch, EndFetch, tables, SignalsInv
<1>2. CASE StartFetch
  <2>1. capture' = [at |-> "fetch", started |-> clock, quote |-> Premium]
    BY <1>2 DEF StartFetch
  <2>2. CaptureOK' /\ ~Storing'
    BY <1>1, <2>1 DEF CaptureOK, Storing
  <2> QED BY <1>1, <2>2, QuietStepKeeps
<1>3. CASE \E answer \in BasisAnswers : EndFetch(answer)
  <2>1. PICK answer \in BasisAnswers : EndFetch(answer)
    BY <1>3
  <2>2. capture # Absent /\ capture.at = "fetch" /\ clock > capture.started
    BY <2>1 DEF EndFetch
  <2>3. ~Storing /\ capture.started \in Nat
    BY <2>2 DEF Storing, SignalsInv, CaptureOK
  <2>4. AvailableAt(capture.started) = clock
    BY <1>1, <2>2, <2>3 DEF AvailableAt, Max
  <2>5. PICK s : /\ capture' = [at |-> "snapshot", snapshot |-> s]
                 /\ "available" \in DOMAIN s /\ s.available = clock
    BY <2>1, <2>4 DEF EndFetch
  <2>6. CaptureOK' /\ capture'.snapshot.available = clock
    BY <1>1, <2>5 DEF CaptureOK
  <2> QED BY <1>1, <2>3, <2>6, QuietStepKeeps
<1> QED BY <1>2, <1>3

\* The Coinbase premium does not change when the snapshot is available.
LEMMA SaveSnapshotKeeps ==
  ASSUME SignalsInv, SaveSnapshot
  PROVE  SignalsInv'
<1>1. /\ clock' = clock /\ signals' = signals /\ crowding' = crowding
      /\ reading' = reading /\ decisions' = decisions /\ clock \in Nat
      /\ capture # Absent /\ capture.at = "snapshot"
      /\ capture' = [at |-> "signal", snapshot |-> WithCoinbasePremium(capture.snapshot)]
  BY DEF SaveSnapshot, SignalsInv
<1> DEFINE s == capture.snapshot
           w == WithCoinbasePremium(s)
<1>2. Storing /\ "available" \in DOMAIN s /\ s.available \in Nat
  BY <1>1 DEF Storing, SignalsInv, CaptureOK
<1>3. "available" \in DOMAIN w /\ w.available = s.available
  <2>1. CASE w = s
    BY <1>2, <2>1
  <2>2. CASE w # s
    <3> DEFINE seen == {c \in prices : c.observed <= s.available}
               newest == Newest(seen, LAMBDA c : c.observed)
               premium == ((newest.price - s.index) * 1000000) \div s.index
    <3>1. w \in {s, [s EXCEPT !.premium = premium]}
      BY DEF WithCoinbasePremium, Newest
    <3> HIDE DEF premium
    <3> QED BY <1>2, <2>2, <3>1
  <2> QED BY <2>1, <2>2
<1> HIDE DEF w
<1>4. CaptureOK' /\ capture'.snapshot.available = s.available
  BY <1>1, <1>2, <1>3 DEF CaptureOK, w
<1> QED BY <1>1, <1>2, <1>4, QuietStepKeeps

\* A signal is of the time of its snapshot.
LEMMA SaveSignalKeeps ==
  ASSUME SignalsInv,
         SavePrimarySignal \/ \E raises \in BOOLEAN : SaveAdditionalSignal(raises)
  PROVE  SignalsInv'
<1> DEFINE s == capture.snapshot
<1>1. /\ clock' = clock /\ crowding' = crowding
      /\ reading' = reading /\ decisions' = decisions /\ clock \in Nat
      /\ capture # Absent /\ capture.at \in {"signal", "others"}
  BY DEF SavePrimarySignal, SaveAdditionalSignal, SignalsInv
<1>2. Storing /\ "snapshot" \in DOMAIN capture /\ "at" \in DOMAIN capture
      /\ "available" \in DOMAIN s /\ s.available \in Nat
  BY <1>1 DEF Storing, SignalsInv, CaptureOK
<1>3. \A version, history, shorts, confirmed :
        LET g == Signal(version, history, s, shorts, confirmed)
        IN  g.asOf = s.available /\ g.snapshot = s
  BY DEF Signal
<1>4. \E g : /\ g.asOf = s.available /\ g.snapshot = s
             /\ signals' = signals \/ signals' = Store(signals, g)
  <2>1. CASE SavePrimarySignal
    BY <1>3, <2>1 DEF SavePrimarySignal
  <2>2. CASE \E raises \in BOOLEAN : SaveAdditionalSignal(raises)
    BY <1>3, <2>2 DEF SaveAdditionalSignal
  <2> QED BY <2>1, <2>2
<1>5. PICK more : /\ signals' = signals \cup more
                  /\ \A r \in more : r.asOf = s.available /\ r.snapshot = s
  <2>1. PICK g : /\ g.asOf = s.available /\ g.snapshot = s
                 /\ signals' = signals \/ signals' = Store(signals, g)
    BY <1>4
  <2>2. CASE signals' = signals
    <3> DEFINE none == {}
    <3>1. signals' = signals \cup none /\ \A r \in none : r.asOf = s.available /\ r.snapshot = s
      BY <2>2
    <3> HIDE DEF none
    <3> QED BY <3>1, Zenon
  <2>3. CASE signals' = Store(signals, g)
    <3>1. PICK more \in SUBSET {g} : Store(signals, g) = signals \cup more
      BY StoreIs
    <3> QED BY <2>1, <2>3, <3>1
  <2> QED BY <2>1, <2>2, <2>3
<1>6. /\ "snapshot" \in DOMAIN capture' /\ "at" \in DOMAIN capture'
      /\ capture'.at \in {"others", "crowding"} /\ capture'.snapshot = s
  <2>1. CASE SavePrimarySignal
    BY <2>1 DEF SavePrimarySignal
  <2>2. CASE \E raises \in BOOLEAN : SaveAdditionalSignal(raises)
    <3>1. capture' = [capture EXCEPT !.at = "crowding"]
      BY <2>2 DEF SaveAdditionalSignal
    <3> QED BY <1>2, <3>1
  <2> QED BY <2>1, <2>2
<1> HIDE DEF s
<1>7. CaptureOK' /\ (Storing' => capture'.snapshot.available = s.available)
  BY <1>1, <1>2, <1>6 DEF CaptureOK
<1> DEFINE none == {}
<1>8. /\ crowding' = crowding \cup none
      /\ \A r \in none : /\ Storing /\ r.asOf = capture.snapshot.available
                        /\ r.snapshot.available = r.asOf
  BY <1>1
<1> HIDE DEF none
<1>9. \A r \in more : /\ Storing /\ r.asOf = capture.snapshot.available
                      /\ r.snapshot.available = r.asOf
  BY <1>2, <1>5 DEF s
<1>10. Storing' => IF Storing THEN capture'.snapshot.available = capture.snapshot.available
                   ELSE clock <= capture'.snapshot.available
  BY <1>2, <1>7 DEF s
<1>11. /\ clock' \in Nat /\ clock <= clock' /\ reading' \in {reading, Absent}
       /\ decisions' = decisions /\ signals' = signals \cup more /\ CaptureOK'
  BY <1>1, <1>5, <1>7
<1> QED BY <1>8, <1>9, <1>10, <1>11, StepKeeps, Zenon

\* So is the crowding signal, complete or not.
LEMMA CrowdingIs ==
  ASSUME NEW s, NEW source, NEW longs, NEW shorts, NEW confirmed
  PROVE  LET c == Crowding(s, source, longs, shorts, confirmed)
         IN  c.asOf = s.available /\ c.snapshot = s
<1> DEFINE entry == [snapshot |-> s, version |-> "crowding", asOf |-> s.available,
                   state |-> "INSUFFICIENT_DATA", side |-> "NONE", long |-> Absent,
                   short |-> Absent, bullish |-> Absent, bearish |-> Absent, confidence |-> 0,
                   longs |-> longs, shorts |-> shorts, confirmed |-> confirmed]
           c == Crowding(s, source, longs, shorts, confirmed)
<1>1. entry.asOf = s.available /\ entry.snapshot = s
  OBVIOUS
<1>2. \A a, b, d, e, f, g, h :
        LET n == [entry EXCEPT !.state = a, !.side = b, !.long = d, !.short = e,
                             !.bullish = f, !.bearish = g, !.confidence = h]
        IN  n.asOf = s.available /\ n.snapshot = s
  OBVIOUS
<1> QED BY <1>1 DEF Crowding

LEMMA SaveCrowdingKeeps ==
  ASSUME SignalsInv, NEW raises \in BOOLEAN, SaveCrowdingSignal(raises)
  PROVE  SignalsInv'
<1> DEFINE s == capture.snapshot
           entry == Crowding(s, capture.signal, capture.longs, capture.shorts, capture.confirmed)
           none == {}
<1>1. /\ clock' = clock /\ signals' = signals
      /\ reading' = reading /\ decisions' = decisions /\ clock \in Nat
      /\ capture # Absent /\ capture.at = "crowding" /\ capture' = Absent
      /\ crowding' = crowding \/ crowding' = Store(crowding, entry)
  BY DEF SaveCrowdingSignal, SignalsInv
<1>2. Storing /\ entry.asOf = s.available /\ entry.snapshot = s
  BY <1>1, CrowdingIs DEF Storing
<1> HIDE DEF entry
<1>3. PICK more : /\ crowding' = crowding \cup more
                  /\ \A r \in more : r.asOf = s.available /\ r.snapshot = s
  <2>1. CASE crowding' = crowding
    <3>1. crowding' = crowding \cup none /\ \A r \in none : r.asOf = s.available /\ r.snapshot = s
      BY <2>1
    <3> HIDE DEF none
    <3> QED BY <3>1, Zenon
  <2>2. CASE crowding' = Store(crowding, entry)
    <3>1. PICK more \in SUBSET {entry} : Store(crowding, entry) = crowding \cup more
      BY StoreIs
    <3> QED BY <1>2, <2>2, <3>1
  <2> QED BY <1>1, <2>1, <2>2
<1>4. CaptureOK' /\ ~Storing'
  BY <1>1 DEF CaptureOK, Storing
<1>5. /\ signals' = signals \cup none
      /\ \A r \in none : /\ Storing /\ r.asOf = capture.snapshot.available
                        /\ r.snapshot.available = r.asOf
  BY <1>1
<1>6. \A r \in more : /\ Storing /\ r.asOf = capture.snapshot.available
                      /\ r.snapshot.available = r.asOf
  BY <1>2, <1>3
<1>7. /\ clock' \in Nat /\ clock <= clock' /\ reading' \in {reading, Absent}
      /\ decisions' = decisions /\ crowding' = crowding \cup more
  BY <1>1, <1>3
<1> HIDE DEF none
<1> QED BY <1>4, <1>5, <1>6, <1>7, StepKeeps, Zenon

\* A capture that fails leaves what was stored.
LEMMA CaptureFailsKeeps ==
  ASSUME SignalsInv, NEW crash \in BOOLEAN, CaptureFails(crash)
  PROVE  SignalsInv'
<1>1. /\ clock' = clock /\ clock \in Nat /\ signals' = signals /\ crowding' = crowding
      /\ reading' \in {reading, Absent} /\ decisions' = decisions /\ capture' = Absent
  BY DEF CaptureFails, SignalsInv, tables
<1>2. CaptureOK' /\ ~Storing'
  BY <1>1 DEF CaptureOK, Storing
<1> QED BY <1>1, <1>2, QuietStepKeeps

\* A decision takes its cutoff from the clock, which is later ever after.
LEMMA StartDecisionKeeps ==
  ASSUME SignalsInv, StartDecision
  PROVE  SignalsInv'
<1> DEFINE c == clock
<1>1. /\ clock \in Nat /\ clock' = clock + 1
      /\ signals' = signals /\ crowding' = crowding /\ capture' = capture
      /\ decisions' = decisions
      /\ reading' = [asOf |-> c, signal |-> Known(signals, "proxy", c), quiet |-> ~Storing]
  BY DEF StartDecision, SignalsInv, tables, observation_known_at
<1>2. /\ RowsAreDated(signals)' /\ RowsAreDated(crowding)' /\ CaptureOK'
  BY <1>1 DEF SignalsInv, RowsAreDated, CaptureOK
<1>3. DecisionsHold'
  <2> SUFFICES ASSUME NEW d \in decisions
               PROVE  /\ d.asOf \in Nat /\ d.asOf < clock'
                      /\ d.quiet => /\ d.overlay = Overlay(d.asOf, Known(signals', "proxy", d.asOf),
                                                    Known(crowding', "crowding", d.asOf))
                                    /\ Storing' => d.asOf < capture'.snapshot.available
    BY <1>1 DEF DecisionsHold, known_at, observation_known_at, crowding_known_at, NotYet
  <2>1. /\ d.asOf \in Nat /\ d.asOf < clock
        /\ d.quiet => d.overlay = known_at(d.asOf) /\ NotYet(d.asOf)
    BY DEF SignalsInv, DecisionsHold
  <2>2. Storing' = Storing
    BY <1>1 DEF Storing
  <2> QED BY <1>1, <2>1, <2>2 DEF known_at, observation_known_at, crowding_known_at, NotYet
<1>4. ReadingHolds'
  <2>1. ReadingHolds' = (reading' # Absent =>
            /\ reading'.asOf \in Nat /\ reading'.asOf < clock'
            /\ reading'.quiet => /\ reading'.signal = Known(signals', "proxy", reading'.asOf)
                                 /\ Storing' => reading'.asOf < capture'.snapshot.available)
    BY DEF ReadingHolds, observation_known_at, NotYet
  <2>2. /\ reading'.asOf = c /\ reading'.signal = Known(signals, "proxy", c)
        /\ reading'.quiet => ~Storing
    BY <1>1
  <2>3. Storing' = Storing
    BY <1>1 DEF Storing
  <2>4. c \in Nat /\ c < clock'
    BY <1>1
  <2> HIDE DEF c
  <2> QED BY <1>1, <2>1, <2>2, <2>3, <2>4
<1> QED BY <1>1, <1>2, <1>3, <1>4 DEF SignalsInv

\* It records what is known at its cutoff.
LEMMA FinishDecisionKeeps ==
  ASSUME SignalsInv, FinishDecision
  PROVE  SignalsInv'
<1> DEFINE c == reading.asOf
           o == Overlay(c, reading.signal, crowding_known_at(c))
           new == [asOf |-> c, quiet |-> reading.quiet,
                   overlay |-> IF OverlayIsSound(o) THEN o ELSE Absent]
<1>1. /\ reading # Absent /\ decisions' = decisions \cup {new} /\ reading' = Absent
      /\ clock' = clock /\ signals' = signals /\ crowding' = crowding /\ capture' = capture
  BY DEF FinishDecision, tables
<1>2. /\ c \in Nat /\ c < clock
      /\ reading.quiet => reading.signal = observation_known_at(c) /\ NotYet(c)
  BY <1>1 DEF SignalsInv, ReadingHolds
<1>3. new.asOf = c /\ (new.quiet => new.overlay = known_at(c) /\ NotYet(c))
  <2> SUFFICES ASSUME reading.quiet PROVE new.overlay = known_at(c)
    BY <1>2
  <2>1. o = known_at(c)
    BY <1>2 DEF known_at
  <2>2. OverlayIsSound(known_at(c))
    BY <1>2, KnownIsSound DEF SignalsInv
  <2> HIDE DEF o, c
  <2> QED BY <2>1, <2>2
<1> HIDE DEF new, c, o
<1>4. RowsAreDated(signals)' /\ RowsAreDated(crowding)' /\ CaptureOK' /\ ReadingHolds'
  BY <1>1 DEF SignalsInv, RowsAreDated, CaptureOK, ReadingHolds
<1>5. DecisionsHold'
  <2> SUFFICES ASSUME NEW d \in decisions'
               PROVE  /\ d.asOf \in Nat /\ d.asOf < clock'
                      /\ d.quiet => /\ d.overlay = Overlay(d.asOf, Known(signals', "proxy", d.asOf),
                                                    Known(crowding', "crowding", d.asOf))
                                    /\ Storing' => d.asOf < capture'.snapshot.available
    BY DEF DecisionsHold, known_at, observation_known_at, crowding_known_at, NotYet
  <2> SUFFICES /\ d.asOf \in Nat /\ d.asOf < clock
               /\ d.quiet => d.overlay = known_at(d.asOf) /\ NotYet(d.asOf)
    <3>1. Storing' = Storing
      BY <1>1 DEF Storing
    <3> QED BY <1>1, <3>1 DEF known_at, observation_known_at, crowding_known_at, NotYet
  <2>1. CASE d = new
    <3>1. d.asOf = c
      BY <1>3, <2>1
    <3>2. d.quiet => d.overlay = known_at(d.asOf) /\ NotYet(d.asOf)
      BY <1>3, <2>1, <3>1, Zenon
    <3> QED BY <1>2, <3>1, <3>2
  <2>2. CASE d \in decisions
    BY <2>2 DEF SignalsInv, DecisionsHold
  <2> QED BY <1>1, <2>1, <2>2
<1> QED BY <1>1, <1>4, <1>5 DEF SignalsInv

(***************************************************************************)
(* The signals: the theorem                                                 *)
(***************************************************************************)
LEMMA SignalsStep == SignalsInv /\ [SignalsNext]_signalVars => SignalsInv'
<1> SUFFICES ASSUME SignalsInv, [SignalsNext]_signalVars PROVE SignalsInv'
  OBVIOUS
<1>1. CASE \E delay \in -ClockSkew .. MaxDelay :
             clock - delay \in 0 .. MaxClock /\ ReceiveMarkPrice(clock - delay)
  BY <1>1, StreamKeeps DEF ReceiveMarkPrice, tables
<1>2. CASE \E l \in Liquidated, delay \in 0 .. MaxDelay : ReceiveLiquidation(l, clock - delay)
  BY <1>2, StreamKeeps DEF ReceiveLiquidation, tables
<1>3. CASE \E p \in Prices, delay \in 0 .. MaxDelay : ReceiveCoinbasePrice(p, clock - delay)
  BY <1>3, StreamKeeps DEF ReceiveCoinbasePrice, tables
<1>4. CASE StreamChanges
  BY <1>4, StreamKeeps DEF StreamChanges, tables
<1>5. CASE StartFetch \/ \E answer \in BasisAnswers : EndFetch(answer)
  BY <1>5, FetchKeeps
<1>6. CASE SaveSnapshot
  BY <1>6, SaveSnapshotKeeps
<1>7. CASE SavePrimarySignal \/ \E raises \in BOOLEAN : SaveAdditionalSignal(raises)
  BY <1>7, SaveSignalKeeps
<1>8. CASE \E raises \in BOOLEAN : SaveCrowdingSignal(raises)
  BY <1>8, SaveCrowdingKeeps
<1>9. CASE \E crash \in BOOLEAN : CaptureFails(crash)
  BY <1>9, CaptureFailsKeeps
<1>10. CASE StartDecision
  BY <1>10, StartDecisionKeeps
<1>11. CASE FinishDecision
  BY <1>11, FinishDecisionKeeps
<1>12. CASE ClockTicks
  BY <1>12, StreamKeeps DEF ClockTicks, tables
<1>13. CASE UNCHANGED signalVars
  BY <1>13, StreamKeeps DEF signalVars, tables
<1> QED BY <1>1, <1>2, <1>3, <1>4, <1>5, <1>6, <1>7, <1>8, <1>9, <1>10, <1>11, <1>12, <1>13
        DEF SignalsNext

\* The overlay of a decision is what the tables say for its cutoff for ever after,
\* for any market, streams, limits and timing, unless a capture was between its last
\* request and its last transaction (fetch_snapshot, known_at).
THEOREM OverlaysArePointInTime == SignalsSpec => []OverlayIsPointInTime
<1>1. SignalsInv => OverlayIsPointInTime
  BY DEF SignalsInv, DecisionsHold, OverlayIsPointInTime
<1> QED BY <1>1, SignalsInitInv, SignalsStep, PTL DEF SignalsSpec
=============================================================================
