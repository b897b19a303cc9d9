------------------------ MODULE MCDerivativesStreams ------------------------
(* An instance of DerivativesStreams for TLC. *)
EXTENDS DerivativesStreams

CONSTANTS p1, p2, p3
=============================================================================
