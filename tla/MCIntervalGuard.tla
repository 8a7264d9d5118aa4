-------------------------- MODULE MCIntervalGuard ---------------------------
(* Small instances of IntervalGuard: two handles, a gap longer than the    *)
(* delay between attempts, as in the code.                                 *)
EXTENDS IntervalGuard

MCHandles == {1, 2}
AllKinds == {"revert", "reject", "drop", "foreign", "late", "retry", "restart"}
RevertsOnly == {"revert"}
=============================================================================
