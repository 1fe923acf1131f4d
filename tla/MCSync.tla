------------------------------- MODULE MCSync -------------------------------
(***************************************************************************)
(* Sync with two fuzzers, one always a secondary.                         *)
(***************************************************************************)
EXTENDS Sync, TLC

CONSTANTS F1, F2

MCRoles == (F1 :> {"-M", "-S"}) @@ (F2 :> {"-S"})

=============================================================================
