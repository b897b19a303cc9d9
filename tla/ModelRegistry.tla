--------------------------- MODULE ModelRegistry ---------------------------
(***************************************************************************)
(* The registry of trained models: one directory per model with the pickled *)
(* model and its metadata, the pointers LATEST and ACTIVE, and one audit     *)
(* file per activation.  Training and the approval of a model are calls of   *)
(* the REST interface; they may overlap, and a crash may end them between    *)
(* two files.                                                                *)
(*                                                                           *)
(* The identifier of a model is the hash of its kind, features, horizon,     *)
(* universe and data, but not of the walk-forward configuration: training    *)
(* the same data again replaces the scores of a model under its name, and    *)
(* two trainings of one model, like any two activations, share the temporary *)
(* files they write.                                                         *)
(***************************************************************************)
EXTENDS Integers, SharedFile

CONSTANTS
    Callers,        \* the requests that are served at once
    Models,         \* model identifiers
    Comparisons,    \* the mean scores of the selected kind a training may show
    MaxCalls,       \* a bound on the calls of a behaviour
    None            \* no file, no score, no call

VARIABLES
    pickles,        \* model.pkl of each model
    metadata,       \* metadata.json of each model, with its comparison
    latest,         \* LATEST; "" while it is empty
    active,         \* ACTIVE
    audits,         \* the activation records
    call,           \* the call each caller is in
    calls           \* how many have begun

vars == <<pickles, metadata, latest, active, audits, call, calls>>

Loads(m) == IsIntact(pickles[m].published) /\ IsIntact(metadata[m].published)
Scores(m) == Within(metadata[m].published)

\* _selected_score raises for a missing score; both must be positive.
PolicyHolds(comparison) ==
    /\ comparison.validation # None /\ comparison.test # None
    /\ comparison.validation > 0 /\ comparison.test > 0

Begins(c) == call[c] = None /\ calls < MaxCalls /\ calls' = calls + 1
Goes(c, at) == call' = [call EXCEPT ![c].at = at]

Init ==
    /\ pickles = [m \in Models |-> NewFile(Callers)]
    /\ metadata = [m \in Models |-> NewFile(Callers)]
    /\ latest = None /\ active = NewFile(Callers) /\ audits = {}
    /\ call = [c \in Callers |-> None] /\ calls = 0

(***************************************************************************)
(* train: fit, compare and save; the active model is left alone             *)
(***************************************************************************)
Train(c, m, comparison) ==
    /\ Begins(c)
    /\ call' = [call EXCEPT ![c] =
            [op |-> "train", model |-> m, comparison |-> comparison, at |-> "pickle"]]
    /\ UNCHANGED <<pickles, metadata, latest, active, audits>>

\* model.pkl, metadata.json and ACTIVE are replaced through one temporary file each.
Writes(c, file) == call[c] # None /\ call[c].at = file
PutPickle(c, f) == pickles' = [pickles EXCEPT ![call[c].model] = f]
PutMetadata(c, f) == metadata' = [metadata EXCEPT ![call[c].model] = f]

OpenPickle(c) ==
    /\ Writes(c, "pickle") /\ pickles[call[c].model].open[c] = "no"
    /\ PutPickle(c, Emptied(pickles[call[c].model], c))
    /\ UNCHANGED <<metadata, latest, active, audits, call, calls>>

DumpPickle(c) ==
    /\ Writes(c, "pickle") /\ IsOpen(pickles[call[c].model], c)
    /\ \E content \in Written(pickles[call[c].model], c, call[c].model) :
         PutPickle(c, Filled(pickles[call[c].model], c, content))
    /\ UNCHANGED <<metadata, latest, active, audits, call, calls>>

\* Mutant of ReplacePickle: the file is renamed before it is closed and flushed.
ReplacePickleUnflushed(c) ==
    /\ Writes(c, "pickle") /\ pickles[call[c].model].open[c] # "no"
    /\ pickles[call[c].model].temporary # Absent
    /\ PutPickle(c, Replaced(pickles[call[c].model], c))
    /\ Goes(c, "metadata")
    /\ UNCHANGED <<metadata, latest, active, audits, calls>>

ReplacePickle(c) ==
    /\ Writes(c, "pickle") /\ pickles[call[c].model].open[c] = "closed"
    /\ pickles[call[c].model].temporary # Absent
    /\ PutPickle(c, Replaced(pickles[call[c].model], c))
    /\ Goes(c, "metadata")
    /\ UNCHANGED <<metadata, latest, active, audits, calls>>

OpenMetadata(c) ==
    /\ Writes(c, "metadata") /\ metadata[call[c].model].open[c] = "no"
    /\ PutMetadata(c, Emptied(metadata[call[c].model], c))
    /\ UNCHANGED <<pickles, latest, active, audits, call, calls>>

DumpMetadata(c) ==
    /\ Writes(c, "metadata") /\ IsOpen(metadata[call[c].model], c)
    /\ \E content \in Written(metadata[call[c].model], c, call[c].comparison) :
         PutMetadata(c, Filled(metadata[call[c].model], c, content))
    /\ UNCHANGED <<pickles, latest, active, audits, call, calls>>

ReplaceMetadata(c) ==
    /\ Writes(c, "metadata") /\ metadata[call[c].model].open[c] = "closed"
    /\ metadata[call[c].model].temporary # Absent
    /\ PutMetadata(c, Replaced(metadata[call[c].model], c))
    /\ Goes(c, "truncate")
    /\ UNCHANGED <<pickles, latest, active, audits, calls>>

\* Another call has renamed the temporary file: the replacement raises, and the
\* call ends where it is.
ReplaceFails(c) ==
    /\ call' = [call EXCEPT ![c] = None]
    /\ \/ /\ Writes(c, "pickle") /\ pickles[call[c].model].open[c] = "closed"
          /\ pickles[call[c].model].temporary = Absent
          /\ PutPickle(c, Abandoned(pickles[call[c].model], c))
          /\ UNCHANGED <<metadata, active>>
       \/ /\ Writes(c, "metadata") /\ metadata[call[c].model].open[c] = "closed"
          /\ metadata[call[c].model].temporary = Absent
          /\ PutMetadata(c, Abandoned(metadata[call[c].model], c))
          /\ UNCHANGED <<pickles, active>>
       \/ /\ Writes(c, "pointer") /\ active.open[c] = "closed" /\ active.temporary = Absent
          /\ active' = Abandoned(active, c)
          /\ UNCHANGED <<pickles, metadata>>
    /\ UNCHANGED <<latest, audits, calls>>

\* LATEST is written in place: emptied first.
TruncateLatest(c) ==
    /\ call[c] # None /\ call[c].at = "truncate"
    /\ latest' = ""
    /\ Goes(c, "latest")
    /\ UNCHANGED <<pickles, metadata, active, audits, calls>>

WriteLatest(c) ==
    /\ call[c] # None /\ call[c].at = "latest"
    /\ latest' = call[c].model
    /\ call' = [call EXCEPT ![c] = None]
    /\ UNCHANGED <<pickles, metadata, active, audits, calls>>

(***************************************************************************)
(* activate: the service reads the scores and applies the policy to them,   *)
(* then the registry loads the model again, notes the previous one, writes  *)
(* the audit and at last the pointer.                                       *)
(***************************************************************************)
Approve(c, m) ==
    /\ Begins(c)
    /\ Loads(m) /\ PolicyHolds(Scores(m))
    /\ call' = [call EXCEPT ![c] =
            [op |-> "activate", model |-> m, comparison |-> Scores(m),
             previous |-> None, at |-> "reload"]]
    /\ UNCHANGED <<pickles, metadata, latest, active, audits>>

\* An empty pointer is read as no previous model.
Reload(c) ==
    /\ call[c] # None /\ call[c].at = "reload"
    /\ Loads(call[c].model)
    /\ call' = [call EXCEPT ![c].at = "audit",
            ![c].previous = IF IsIntact(active.published) THEN Within(active.published) ELSE None]
    /\ UNCHANGED <<pickles, metadata, latest, active, audits, calls>>

Audit(c) ==
    /\ call[c] # None /\ call[c].at = "audit"
    /\ audits' = audits \cup {[model |-> call[c].model, previous |-> call[c].previous,
                               comparison |-> call[c].comparison]}
    /\ Goes(c, "pointer")
    /\ UNCHANGED <<pickles, metadata, latest, active, calls>>

OpenPointer(c) ==
    /\ Writes(c, "pointer") /\ active.open[c] = "no"
    /\ active' = Emptied(active, c)
    /\ UNCHANGED <<pickles, metadata, latest, audits, call, calls>>

\* Identifiers are of one length, so the last one written is there as a whole.
WritePointer(c) ==
    /\ Writes(c, "pointer") /\ IsOpen(active, c)
    /\ active' = Filled(active, c, Intact(call[c].model))
    /\ UNCHANGED <<pickles, metadata, latest, audits, call, calls>>

ReplacePointer(c) ==
    /\ Writes(c, "pointer") /\ active.open[c] = "closed" /\ active.temporary # Absent
    /\ active' = Replaced(active, c)
    /\ call' = [call EXCEPT ![c] = None]
    /\ UNCHANGED <<pickles, metadata, latest, audits, calls>>

\* The process dies in the middle of its calls.
Crash ==
    /\ \E c \in Callers : call[c] # None
    /\ call' = [c \in Callers |-> None]
    /\ pickles' = [m \in Models |-> Killed(pickles[m])]
    /\ metadata' = [m \in Models |-> Killed(metadata[m])]
    /\ active' = Killed(active)
    /\ UNCHANGED <<latest, audits, calls>>

Next ==
    \/ Crash
    \/ \E c \in Callers :
        \/ OpenPickle(c) \/ DumpPickle(c) \/ ReplacePickle(c)
        \/ OpenMetadata(c) \/ DumpMetadata(c) \/ ReplaceMetadata(c)
        \/ TruncateLatest(c) \/ WriteLatest(c)
        \/ Reload(c) \/ Audit(c)
        \/ OpenPointer(c) \/ WritePointer(c) \/ ReplacePointer(c) \/ ReplaceFails(c)
        \/ \E m \in Models :
            \/ Approve(c, m)
            \/ \E comparison \in Comparisons : Train(c, m, comparison)

Spec == Init /\ [][Next]_vars

\* A file that was replaced by a call alone, no other call being at it, is whole or
\* not there yet.
Trusted(f) == f.shared \/ f.published = Absent \/ IsIntact(f.published)

\* ModelInUseIsApproved: whatever trainings and activations overlapped, a model that
\* ACTIVE names has an activation record with the scores it was approved for, all
\* positive, although training may have replaced its scores since; and ACTIVE and
\* the two files of that model can be read, unless two calls that wrote the file at
\* once left it broken: a file that a call has replaced alone since is whole again
\* (CryptoMLService.activate, CryptoModelRegistry.save, activate, load_active).
ModelInUseIsApproved ==
    /\ Trusted(active)
    /\ IsIntact(active.published) =>
         LET m == Within(active.published) IN
         /\ \E a \in audits : a.model = m /\ a.comparison.validation > 0
                                          /\ a.comparison.test > 0
         /\ \A f \in {pickles[m], metadata[m]} : Trusted(f) /\ f.published # Absent

=============================================================================
