---------------------------- MODULE MCFrameLoop ----------------------------
(* A clock that is set, as gettimeofday is.                                *)
EXTENDS FrameLoop
ClockSet == {-5, -1, 1, 5}
=============================================================================
