------------------------------- MODULE MCKcb -------------------------------
(***************************************************************************)
(* The bounds of the runs of Kcb, by endpoint.                             *)
(***************************************************************************)
EXTENDS Kcb, TLC

\* A's application sends 3, or 2, fragments; B's only receives.
OneWay3 == (A :> 3) @@ (B :> 0)
OneWay2 == (A :> 2) @@ (B :> 0)

\* Datagrams in flight: one, or two, each way.
NetOne == (A :> 1) @@ (B :> 1)
NetTwo == (A :> 2) @@ (B :> 2)
=============================================================================
