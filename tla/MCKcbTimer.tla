----------------------------- MODULE MCKcbTimer -----------------------------
(***************************************************************************)
(* The bounds of the run of KcbTimer, by kind of caller.                   *)
(***************************************************************************)
EXTENDS KcbTimer, TLC

\* Two segments at once for the caller that sleeps, none while the clock is
\* being set.
OutByCaller == ("polls" :> 1) @@ ("sleeps" :> 2) @@ ("resets" :> 0)
=============================================================================
