----------------------------- MODULE MCCountdown -----------------------------
(***************************************************************************)
(* Three targets for the runs of Countdown.                                *)
(***************************************************************************)
EXTENDS Countdown

CONSTANTS redis, valkey, aki

MCKinds == {redis, valkey, aki}

MCDrifts == {-12, 0, 12}
NoDrift == {0}
=============================================================================
