--------------------------- MODULE MCSbnWaitClock ---------------------------
(* Small instances of SbnWaitClock: time-outs below, at and above one       *)
(* second, one of them more than two.                                       *)
EXTENDS SbnWaitClock

MCTimeOuts == {1, 4, 6, 9}
=============================================================================
