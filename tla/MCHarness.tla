------------------------------ MODULE MCHarness ------------------------------
(***************************************************************************)
(* The three targets in the order of main.go, for the runs of Harness.     *)
(***************************************************************************)
EXTENDS Harness

CONSTANTS redis, valkey, aki

MCOrder == <<redis, valkey, aki>>
=============================================================================
