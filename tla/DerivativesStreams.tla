------------------------- MODULE DerivativesStreams -------------------------
(***************************************************************************)
(* The derivatives WebSocket collectors: the ownership lock, a directory on *)
(* a volume several processes share; the supervisor thread of each process; *)
(* its stream worker with the worker's watchdog; and the stream's row in    *)
(* the status table, from which a capture decides whether a liquidation     *)
(* window was covered.                                                      *)
(*                                                                          *)
(* Every call on the directory (mkdir, open, stat, rename, utime, unlink,   *)
(* rmdir) is a step: no lock makes a sequence of them atomic between        *)
(* processes.  Times are ages that stop growing at the bound that matters,  *)
(* so no clock bounds a behaviour.  A process has one stream; a stream      *)
(* without a watchdog (the liquidations) behaves as one whose watchdog      *)
(* never fires.                                                             *)
(***************************************************************************)
EXTENDS Integers, FiniteSets

CONSTANTS
    Procs,          \* the processes that share the volume
    StaleAfter,     \* stale_after_seconds, the lock's heartbeat limit
    Window,         \* the liquidation window of a capture
    Silence,        \* message_timeout_seconds
    NoOwner,        \* no owner file
    Ghost,          \* the token of a process that is no more
    MaxFaults       \* how many stops, crashes, stalls and failed writes happen

ASSUME StreamsAssumption ==
    /\ IsFiniteSet(Procs) /\ {NoOwner, Ghost} \cap Procs = {} /\ NoOwner # Ghost
    /\ StaleAfter \in Nat \ {0} /\ Window \in Nat \ {0}
    /\ Silence \in Nat \ {0} /\ MaxFaults \in Nat

VARIABLES
    lock,       \* the directory at path: whether it is there, the token in its
                \* owner file, and the age of its mtime
    pc,         \* where each supervisor is; "down" without a process
    owned,      \* _owned of each process' lock object
    stop,       \* the _stop event of each process
    closed,     \* _closed, set by stop()
    worker,     \* where each stream worker is
    age,        \* the age of the worker's connection (of connected_at)
    quiet,      \* the time since the last handled message
    dog,        \* the watchdog: "idle", "fired" (stale_triggered set, its row
                \* not yet written), "late" (fired, and its connection is gone)
    row,        \* the stream's row: state, and the age of connected_since
    unmarked,   \* history: a connection ended and the row was never told
    sawStale,   \* history: some stat found the lock's heartbeat stale
    faults      \* stops, crashes, stalls and failed writes so far

lockVars == <<lock, owned>>
supVars == <<pc, stop, closed>>
workVars == <<worker, age, quiet, dog>>
rowVars == <<row, unmarked>>
vars == <<lock, pc, owned, stop, closed, worker, age, quiet, dog, row,
          unmarked, sawStale, faults>>

NoTime == -1        \* connected_since IS NULL

Gone == [dir |-> FALSE, owner |-> NoOwner, age |-> 0]
Made(token) == [dir |-> TRUE, owner |-> token, age |-> 0]

Acquiring == {"create", "stat", "rename", "recreate", "write"}
Holding == {"refresh", "touch"}
Leaving == {"drain", "release", "unlink", "rmdir"}
Cleaning == {"clean", "cleanDir"}
SupervisorPlaces ==
    {"down", "off", "idle"} \cup Acquiring \cup Holding \cup Leaving \cup Cleaning

Connected == {"opened", "open"}
\* "failed", "stale" and "silent": the connection is over; its exception, a
\* StreamStaleError, or an exception after stale_triggered is being handled.
WorkerPlaces == {"off", "dial", "failed", "stale", "silent", "ending"} \cup Connected

Older(n, bound) == IF n < bound THEN n + 1 ELSE n

(***************************************************************************)
(* The supervisor and the lock                                              *)
(***************************************************************************)
Goto(p, place) == pc' = [pc EXCEPT ![p] = place]

\* The finally of _supervise sets the stop event, whatever ended the loop.
GiveUp(p, place) == Goto(p, place) /\ stop' = [stop EXCEPT ![p] = TRUE]

\* Faults are bounded; what counts as one is said where it happens.
Fault == faults < MaxFaults /\ faults' = faults + 1

\* The processes in the middle of creating, taking over or removing the
\* directory, and the owner that is up: the directory expects a call of theirs.
MidCall == {p \in Procs :
    pc[p] \in {"write", "rename", "recreate", "unlink", "rmdir"} \cup Cleaning}
Busy == MidCall \cup {p \in Procs : pc[p] \in Holding /\ lock.owner = p}

\* start(), from the lifespan, and from the heartbeat job when is_running fails:
\* the job runs far less often than a call on the directory lasts, so that a
\* start in the middle of one is rare, and counted as a fault.
Start(p) ==
    /\ pc[p] = "off" /\ ~closed[p]
    /\ Goto(p, "create") /\ stop' = [stop EXCEPT ![p] = FALSE]
    /\ IF MidCall = {} THEN UNCHANGED faults ELSE Fault
    /\ UNCHANGED <<lockVars, closed, workVars, rowVars, sawStale>>

\* _try_create up to mkdir.  The first attempt of acquire falls through to
\* stat; the one after a vanished or renamed directory returns False.
Create(p) ==
    /\ pc[p] \in {"create", "recreate"}
    /\ IF ~lock.dir
       THEN lock' = Made(NoOwner) /\ Goto(p, "write")
       ELSE UNCHANGED lock /\ Goto(p, IF pc[p] = "create" THEN "stat" ELSE "idle")
    /\ UNCHANGED <<owned, stop, closed, workVars, rowVars, sawStale, faults>>

\* The owner file, opened O_EXCL at the path, whoever's directory is there now.
WriteOwner(p) ==
    /\ pc[p] = "write"
    /\ IF lock.dir /\ lock.owner = NoOwner
       THEN /\ lock' = Made(p) /\ owned' = [owned EXCEPT ![p] = TRUE]
            /\ Goto(p, "refresh")
       ELSE Goto(p, "clean") /\ UNCHANGED lockVars
    /\ UNCHANGED <<stop, closed, workVars, rowVars, sawStale, faults>>

\* _remove_directory(self.path) after a failed _try_create, which then raises:
\* it removes what is at the path, and fails on a directory that is not empty.
CleanOwner(p) ==
    /\ pc[p] = "clean" /\ Goto(p, "cleanDir")
    /\ lock' = [lock EXCEPT !.owner = NoOwner]
    /\ UNCHANGED <<owned, stop, closed, workVars, rowVars, sawStale, faults>>

RemoveEmpty == IF lock.owner = NoOwner THEN Gone ELSE lock

CleanDirectory(p) ==
    /\ pc[p] = "cleanDir" /\ GiveUp(p, "off")
    /\ lock' = RemoveEmpty
    /\ UNCHANGED <<owned, closed, workVars, rowVars, sawStale, faults>>

\* The age acquire computes from st_mtime.
HeartbeatIsStale == lock.age >= StaleAfter

\* Mutant: a directory without an owner file is never taken for stale.
StatOwned(p) ==
    /\ pc[p] = "stat"
    /\ Goto(p, CASE ~lock.dir -> "recreate"
                 [] lock.dir /\ lock.owner # NoOwner /\ HeartbeatIsStale -> "rename"
                 [] OTHER -> "idle")
    /\ sawStale' = (sawStale \/ (lock.dir /\ HeartbeatIsStale))
    /\ UNCHANGED <<lockVars, stop, closed, workVars, rowVars, faults>>

Stat(p) ==
    /\ pc[p] = "stat"
    /\ Goto(p, CASE ~lock.dir -> "recreate"
                 [] lock.dir /\ HeartbeatIsStale -> "rename"
                 [] OTHER -> "idle")
    /\ sawStale' = (sawStale \/ (lock.dir /\ HeartbeatIsStale))
    /\ UNCHANGED <<lockVars, stop, closed, workVars, rowVars, faults>>

\* The rename takes whatever directory is at the path by now.
Rename(p) ==
    /\ pc[p] = "rename"
    /\ lock' = Gone /\ Goto(p, IF lock.dir THEN "recreate" ELSE "idle")
    /\ UNCHANGED <<owned, stop, closed, workVars, rowVars, sawStale, faults>>

\* The wait of a standby, and the loop's condition.
Retry(p) ==
    /\ pc[p] = "idle"
    /\ Goto(p, IF stop[p] THEN "off" ELSE "create")
    /\ UNCHANGED <<lockVars, stop, closed, workVars, rowVars, sawStale, faults>>

\* Mutant: a heartbeat that does not read the token.
RefreshBlindly(p) ==
    /\ pc[p] = "refresh"
    /\ IF ~stop[p]
       THEN Goto(p, "touch") /\ UNCHANGED stop
       ELSE GiveUp(p, "drain")
    /\ UNCHANGED <<lock, owned, closed, workVars, rowVars, sawStale, faults>>

\* One turn of an owner: the token is read; a foreign token clears _owned, a
\* missing file raises and leaves it; either way the supervisor ends.
Refresh(p) ==
    /\ pc[p] = "refresh"
    /\ IF ~stop[p] /\ lock.dir /\ lock.owner = p
       THEN Goto(p, "touch") /\ UNCHANGED <<owned, stop>>
       ELSE /\ GiveUp(p, "drain")
            /\ owned' = [owned EXCEPT ![p] =
                  @ /\ (stop[p] \/ ~lock.dir \/ lock.owner \in {p, NoOwner})]
    /\ UNCHANGED <<lock, closed, workVars, rowVars, sawStale, faults>>

\* utime, then the workers that are not alive are started.
Touch(p) ==
    /\ pc[p] = "touch"
    /\ IF lock.dir
       THEN /\ lock' = [lock EXCEPT !.age = 0]
            /\ worker' = [worker EXCEPT ![p] = IF @ = "off" THEN "dial" ELSE @]
            /\ Goto(p, "refresh") /\ UNCHANGED stop
       ELSE GiveUp(p, "drain") /\ UNCHANGED <<lock, worker>>
    /\ UNCHANGED <<owned, closed, age, quiet, dog, rowVars, sawStale, faults>>

\* Mutant: the lock is released while the workers still run.
DrainAtOnce(p) ==
    /\ pc[p] = "drain" /\ Goto(p, "release")
    /\ UNCHANGED <<lockVars, stop, closed, workVars, rowVars, sawStale, faults>>

\* The finally waits until its workers are dead, and only then releases.
Drain(p) ==
    /\ pc[p] = "drain" /\ worker[p] = "off" /\ Goto(p, "release")
    /\ UNCHANGED <<lockVars, stop, closed, workVars, rowVars, sawStale, faults>>

Release(p) ==
    /\ pc[p] = "release"
    /\ owned' = [owned EXCEPT ![p] = FALSE]
    /\ Goto(p, IF owned[p] /\ lock.dir /\ lock.owner = p THEN "unlink" ELSE "off")
    /\ UNCHANGED <<lock, stop, closed, workVars, rowVars, sawStale, faults>>

\* The two calls of release act on the path, not on the directory it read.
Unlink(p) ==
    /\ pc[p] = "unlink" /\ Goto(p, "rmdir")
    /\ lock' = [lock EXCEPT !.owner = NoOwner]
    /\ UNCHANGED <<owned, stop, closed, workVars, rowVars, sawStale, faults>>

Rmdir(p) ==
    /\ pc[p] = "rmdir" /\ Goto(p, "off")
    /\ lock' = RemoveEmpty
    /\ UNCHANGED <<owned, stop, closed, workVars, rowVars, sawStale, faults>>

(***************************************************************************)
(* The stream worker, its watchdog and the status row                       *)
(***************************************************************************)
mark_stream_connected(p) == [state |-> "CONNECTED", since |-> age[p]]
mark_stream_message == [row EXCEPT !.state = "CONNECTED"]
mark_stream_disconnected == [state |-> "DISCONNECTED", since |-> NoTime]

mark_stream_stale == [state |-> "STALE", since |-> NoTime]

WorkerAt(p, place) == worker' = [worker EXCEPT ![p] = place]

\* A write of the row tells it where the connection ended, if that was owed.
Tell(newRow) == row' = newRow /\ unmarked' = FALSE

\* Leaving a connection stops its watchdog; one that has fired outlives the
\* two seconds of the join.
LeaveConnection(p) ==
    /\ dog' = [dog EXCEPT ![p] = IF @ = "fired" THEN "late" ELSE @]
    /\ age' = [age EXCEPT ![p] = 0] /\ quiet' = [quiet EXCEPT ![p] = 0]

StopsWorker(p) ==
    /\ worker[p] \in WorkerPlaces \ {"off", "ending"} /\ stop[p]
    /\ WorkerAt(p, "ending") /\ LeaveConnection(p)
    /\ UNCHANGED <<lockVars, supVars, rowVars, sawStale, faults>>

\* connection_factory succeeds and connected_at is read, or it raises.
Connect(p) ==
    /\ worker[p] = "dial" /\ ~stop[p]
    /\ \/ /\ WorkerAt(p, "opened")
          /\ age' = [age EXCEPT ![p] = 0] /\ quiet' = [quiet EXCEPT ![p] = 0]
       \/ WorkerAt(p, "failed") /\ UNCHANGED <<age, quiet>>
    /\ UNCHANGED <<lockVars, supVars, dog, rowVars, sawStale, faults>>

MarkConnected(p) ==
    /\ worker[p] = "opened" /\ ~stop[p]
    /\ WorkerAt(p, "open") /\ Tell(mark_stream_connected(p))
    /\ UNCHANGED <<lockVars, supVars, age, quiet, dog, sawStale, faults>>

\* A message the handler accepts; an ignored or malformed one changes nothing
\* unless the stream has been silent too long.
Message(p) ==
    /\ worker[p] = "open" /\ ~stop[p]
    /\ row' = mark_stream_message /\ quiet' = [quiet EXCEPT ![p] = 0]
    /\ UNCHANGED <<lockVars, supVars, worker, age, dog, unmarked, sawStale, faults>>

MessageIsStale(p) == quiet[p] >= Silence

\* A receive timeout or an unhandled message on a silent stream.
FindStale(p) ==
    /\ worker[p] = "open" /\ ~stop[p] /\ MessageIsStale(p)
    /\ WorkerAt(p, "stale") /\ LeaveConnection(p)
    /\ UNCHANGED <<lockVars, supVars, rowVars, sawStale, faults>>

\* Mutant: every broken connection is left to the watchdog to report.
BreakUnreported(p) ==
    /\ worker[p] \in Connected /\ ~stop[p]
    /\ WorkerAt(p, "silent") /\ LeaveConnection(p)
    /\ UNCHANGED <<lockVars, supVars, rowVars, sawStale, faults>>

\* The connection breaks: stale_triggered tells whether the row is told here.
Break(p) ==
    /\ worker[p] \in Connected /\ ~stop[p]
    /\ WorkerAt(p, IF dog[p] = "fired" THEN "silent" ELSE "failed")
    /\ LeaveConnection(p)
    /\ UNCHANGED <<lockVars, supVars, rowVars, sawStale, faults>>

\* The except clauses: the row is told, then the worker waits and dials again.
Recover(p) ==
    /\ worker[p] \in {"failed", "stale", "silent"} /\ ~stop[p]
    /\ WorkerAt(p, "dial")
    /\ CASE worker[p] = "failed" -> Tell(mark_stream_disconnected)
         [] worker[p] = "stale" -> Tell(mark_stream_stale)
         [] worker[p] = "silent" -> UNCHANGED rowVars
    /\ UNCHANGED <<lockVars, supVars, age, quiet, dog, sawStale, faults>>

\* The last line of _run.
EndWorker(p) ==
    /\ worker[p] = "ending" /\ WorkerAt(p, "off")
    /\ Tell(mark_stream_disconnected)
    /\ UNCHANGED <<lockVars, supVars, age, quiet, dog, sawStale, faults>>

\* The watchdog sets stale_triggered first and writes the row later ...
WatchdogFires(p) ==
    /\ worker[p] = "open" /\ dog[p] = "idle" /\ ~stop[p] /\ MessageIsStale(p)
    /\ dog' = [dog EXCEPT ![p] = "fired"]
    /\ UNCHANGED <<lockVars, supVars, worker, age, quiet, rowVars, sawStale, faults>>

\* ... and closes its own connection, which may be gone already.
CloseFor(p) ==
    IF dog[p] = "fired"
    THEN /\ WorkerAt(p, "silent")
         /\ age' = [age EXCEPT ![p] = 0] /\ quiet' = [quiet EXCEPT ![p] = 0]
    ELSE UNCHANGED <<worker, age, quiet>>

WatchdogMarks(p) ==
    /\ dog[p] \in {"fired", "late"} /\ dog' = [dog EXCEPT ![p] = "idle"]
    /\ Tell(mark_stream_stale)
    /\ CloseFor(p)
    /\ UNCHANGED <<lockVars, supVars, sawStale, faults>>

(***************************************************************************)
(* Faults and time                                                          *)
(***************************************************************************)
\* stop(), on shutdown: request_stop closes the connection.
Stop(p) ==
    /\ pc[p] # "down" /\ ~closed[p] /\ Fault
    /\ stop' = [stop EXCEPT ![p] = TRUE] /\ closed' = [closed EXCEPT ![p] = TRUE]
    /\ UNCHANGED <<lockVars, pc, workVars, rowVars, sawStale>>

Vanish(p) ==
    /\ Goto(p, "down") /\ WorkerAt(p, "off")
    /\ lock' = IF lock.owner = p THEN [lock EXCEPT !.owner = Ghost] ELSE lock
    /\ owned' = [owned EXCEPT ![p] = FALSE]
    /\ stop' = [stop EXCEPT ![p] = TRUE] /\ closed' = [closed EXCEPT ![p] = TRUE]
    /\ age' = [age EXCEPT ![p] = 0] /\ quiet' = [quiet EXCEPT ![p] = 0]
    /\ dog' = [dog EXCEPT ![p] = "idle"]
    /\ UNCHANGED <<row, sawStale>>

\* The process ends with its threads: after stop(), or at any time by a crash
\* (or because the supervisor outlived the join of stop()).
Exit(p) ==
    /\ pc[p] = "off" /\ closed[p] /\ worker[p] = "off" /\ dog[p] = "idle"
    /\ Vanish(p) /\ UNCHANGED <<unmarked, faults>>

Crash(p) ==
    /\ pc[p] # "down" /\ Fault /\ Vanish(p)
    /\ unmarked' = (unmarked \/ worker[p] # "off")

\* A new process: a new lock object, with a token of its own.
Boot(p) ==
    /\ pc[p] = "down" /\ Goto(p, "off")
    /\ closed' = [closed EXCEPT ![p] = FALSE]
    /\ UNCHANGED <<lockVars, stop, workVars, rowVars, sawStale, faults>>

\* A write of the row fails where nothing catches it: the worker's thread
\* dies, or the watchdog's, which still closes the connection.
WriteFails(p) ==
    /\ Fault /\ unmarked' = TRUE
    /\ \/ /\ worker[p] \in {"failed", "stale", "ending"} /\ WorkerAt(p, "off")
          /\ UNCHANGED <<age, quiet, dog>>
       \/ dog[p] # "idle" /\ dog' = [dog EXCEPT ![p] = "idle"] /\ CloseFor(p)
    /\ UNCHANGED <<lockVars, supVars, row, sawStale>>

\* Time passes.  That a running process stays away from the directory for as
\* long as StaleAfter (a suspended machine, a blocked volume) is a fault.
Tick ==
    /\ lock' = [lock EXCEPT !.age = IF lock.dir THEN Older(@, StaleAfter) ELSE 0]
    /\ age' = [p \in Procs |->
                  IF worker[p] \in Connected THEN Older(age[p], Window) ELSE age[p]]
    /\ quiet' = [p \in Procs |->
                  IF worker[p] \in Connected THEN Older(quiet[p], Silence) ELSE quiet[p]]
    /\ row' = [row EXCEPT !.since = IF @ = NoTime THEN @ ELSE Older(@, Window)]
    /\ IF lock.dir /\ lock.age = StaleAfter - 1 /\ Busy # {}
       THEN Fault ELSE UNCHANGED faults
    /\ UNCHANGED <<owned, supVars, worker, dog, unmarked, sawStale>>

Init ==
    /\ lock = Gone /\ pc = [p \in Procs |-> "down"]
    /\ owned = [p \in Procs |-> FALSE]
    /\ stop = [p \in Procs |-> TRUE] /\ closed = [p \in Procs |-> TRUE]
    /\ worker = [p \in Procs |-> "off"] /\ age = [p \in Procs |-> 0]
    /\ quiet = [p \in Procs |-> 0] /\ dog = [p \in Procs |-> "idle"]
    /\ row = mark_stream_disconnected
    /\ unmarked = FALSE /\ sawStale = FALSE /\ faults = 0

SupervisorStep(p) ==
    \/ Create(p) \/ WriteOwner(p) \/ CleanOwner(p) \/ CleanDirectory(p)
    \/ Stat(p) \/ Rename(p) \/ Retry(p) \/ Refresh(p) \/ Touch(p)
    \/ Drain(p) \/ Release(p) \/ Unlink(p) \/ Rmdir(p)

WorkerStep(p) ==
    \/ StopsWorker(p) \/ MarkConnected(p) \/ Recover(p) \/ EndWorker(p)

Next ==
    \/ \E p \in Procs :
          \/ Start(p) \/ SupervisorStep(p) \/ WorkerStep(p)
          \/ Connect(p) \/ Message(p) \/ FindStale(p) \/ Break(p)
          \/ WatchdogFires(p) \/ WatchdogMarks(p)
          \/ Stop(p) \/ Exit(p) \/ Crash(p) \/ Boot(p) \/ WriteFails(p)
    \/ Tick

\* Threads that can run do run, the heartbeat job revives a dead supervisor,
\* and time passes.  What the network does is left open.
Fairness ==
    /\ \A p \in Procs : WF_vars(Start(p)) /\ WF_vars(SupervisorStep(p))
                        /\ WF_vars(WorkerStep(p)) /\ WF_vars(Connect(p))
    /\ WF_vars(Tick)

Spec == Init /\ [][Next]_vars /\ Fairness

(***************************************************************************)
(* Properties                                                               *)
(***************************************************************************)
\* Every variable has its type; an age never passes its bound, and a row has a
\* connected_since only while its state is CONNECTED.
TypeOK ==
    /\ lock \in [dir : BOOLEAN, owner : Procs \cup {NoOwner, Ghost},
                 age : 0 .. StaleAfter]
    /\ pc \in [Procs -> SupervisorPlaces]
    /\ owned \in [Procs -> BOOLEAN] /\ stop \in [Procs -> BOOLEAN]
    /\ closed \in [Procs -> BOOLEAN] /\ worker \in [Procs -> WorkerPlaces]
    /\ age \in [Procs -> 0 .. Window] /\ quiet \in [Procs -> 0 .. Silence]
    /\ dog \in [Procs -> {"idle", "fired", "late"}]
    /\ row \in [state : {"CONNECTED", "DISCONNECTED", "STALE"},
                since : NoTime .. Window]
    /\ (row.since # NoTime => row.state = "CONNECTED")
    /\ unmarked \in BOOLEAN /\ sawStale \in BOOLEAN /\ faults \in 0 .. MaxFaults

Collectors == {p \in Procs : worker[p] # "off"}

\* continuously_connected_since for a window of the full length.
WindowConfirmed ==
    /\ row.state = "CONNECTED" /\ row.since # NoTime
    /\ row.since >= Window

\* The row of p's connection is still to be written.
OwesTheRow(p) ==
    worker[p] \in {"failed", "stale", "ending"} \/ dog[p] # "idle"

\* A window a capture takes for covered was covered by a connection that has
\* been open that long, or whose end is about to be written, unless a process
\* or a write of the row failed: with two collectors at work, watchdogs that
\* write late, and messages that set the state of a row they did not open, no
\* row claims more than some connection has seen.
CoverageIsReal ==
    WindowConfirmed =>
        \/ unmarked
        \/ \E p \in Procs : OwesTheRow(p) \/ (worker[p] = "open" /\ age[p] >= Window)

\* Two processes collect at once only if a heartbeat was seen stale: as long as
\* owners refresh in time, the path operations of acquire, refresh and release
\* interleave in no order that lets a second collector in.
OneCollectorWhileFresh ==
    sawStale \/ Cardinality(Collectors) <= 1

\* When two processes do collect, one of them finds the foreign token (or no
\* token) at its next heartbeat and ends its workers.
TwoCollectorsResolve ==
    Cardinality(Collectors) > 1 ~> Cardinality(Collectors) <= 1

\* Whatever owner crashed, and wherever in the protocol of the directory, some
\* process that is up collects again: no directory, no owner file and no dead
\* supervisor blocks the collection for good.
CollectionResumes ==
    []<>(Collectors # {} \/ \A p \in Procs : closed[p])

=============================================================================
