------------------------------ MODULE MCKcbRtt ------------------------------
(***************************************************************************)
(* The arguments nodelay is called with: none, too small and too large.    *)
(***************************************************************************)
EXTENDS KcbRtt

IntervalArguments == {-1, 0, 99}
=============================================================================
