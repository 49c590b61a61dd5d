------------------------------- MODULE MCClock -------------------------------
(* Instance of Clock for TLC: the wall clock may be set back and forward.   *)
EXTENDS Clock

MCMoves == {-6, 6}
=============================================================================
