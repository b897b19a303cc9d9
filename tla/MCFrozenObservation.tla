------------------------- MODULE MCFrozenObservation -------------------------
(* Instances of FrozenObservation for TLC. *)
EXTENDS FrozenObservation

CONSTANTS boot, cliStart, lane, job, cliEvaluate, cliStop, frozen, other

\* The command line may be configured with another strategy version.
MCIdentityOf == [c \in Starts |-> IF c = boot THEN frozen ELSE other]

\* Nobody trades in the second quarter.
MCQuiet == {<<1, 2>>}
=============================================================================
