----------------------------- MODULE SharedFile -----------------------------
(***************************************************************************)
(* A file that is replaced as a whole, through a temporary file that has    *)
(* one name whoever writes it: the temporary file is opened, which empties  *)
(* it, then filled, then renamed.  A writer that overlaps another one may   *)
(* empty what the other has filled, fill a file that was renamed meanwhile, *)
(* or find nothing to rename.                                               *)
(*                                                                          *)
(* A file is a record: what is published under its name, what the temporary *)
(* file holds, where the descriptor of each writer points, and whether what *)
(* is published was put there while writers overlapped.                     *)
(***************************************************************************)

Absent == <<"absent">>
Partial == <<"partial">>            \* opened, and not filled yet
Torn == <<"torn">>                  \* bytes of two writers
Intact(v) == <<"intact", v>>

IsIntact(content) == content[1] = "intact"
Within(content) == content[2]

NewFile(writers) ==
    [published |-> Absent, temporary |-> Absent,
     open |-> [w \in writers |-> "no"], shared |-> FALSE]

\* Another writer has begun and not ended.
Others(f, w) == \E o \in DOMAIN f.open : o # w /\ f.open[o] # "no"

\* The descriptor of w still takes what it writes.
IsOpen(f, w) == f.open[w] \in {"temporary", "published", "unlinked"}

\* Opening the temporary file empties the one that is there.
Emptied(f, w) ==
    [published |-> f.published,
     temporary |-> Partial,
     open |-> [f.open EXCEPT ![w] = "temporary"],
     shared |-> f.shared \/ Others(f, w)]

\* What the file of w holds once w has written v: another writer that has the same
\* file open, or has filled it, leaves a mix that nothing reads, or v on top.
Written(f, w, v) ==
    LET there == IF f.open[w] = "published" THEN f.published ELSE f.temporary
        alone == \A o \in DOMAIN f.open : o # w => f.open[o] # f.open[w]
    IN IF there = Partial /\ alone THEN {Intact(v)} ELSE {Intact(v), Torn}

\* The bytes go where the descriptor points, and it is closed.
Filled(f, w, content) ==
    [published |-> IF f.open[w] = "published" THEN content ELSE f.published,
     temporary |-> IF f.open[w] = "temporary" THEN content ELSE f.temporary,
     open |-> [f.open EXCEPT ![w] = "closed"],
     shared |-> f.shared]

\* The temporary file, whoever filled it, takes the name of the published one.
Replaced(f, w) ==
    [published |-> f.temporary,
     temporary |-> Absent,
     open |-> [o \in DOMAIN f.open |->
                 CASE o = w -> "no"
                   [] o # w /\ f.open[o] = "temporary" -> "published"
                   [] o # w /\ f.open[o] = "published" -> "unlinked"
                   [] OTHER -> f.open[o]],
     shared |-> Others(f, w)]

\* A writer that finds no temporary file ends with an error.
Abandoned(f, w) == [f EXCEPT !.open[w] = "no"]

\* The process ends: what is on disk stays.
Killed(f) == [f EXCEPT !.open = [o \in DOMAIN f.open |-> "no"]]
=============================================================================
