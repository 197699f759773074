---------------------------- MODULE MCKcpStream ----------------------------
(***************************************************************************)
(* The bounds of the runs of KcpStream, by endpoint.                       *)
(***************************************************************************)
EXTENDS KcpStream, TLC

\* Each application sends two messages, or one, or the server sends one more
\* than the client.
Two == (A :> 2) @@ (B :> 2)
One == (A :> 1) @@ (B :> 1)
OneTwo == (A :> 1) @@ (B :> 2)

\* Datagrams in flight, by the endpoint they go to.
NetOne == (A :> 1) @@ (B :> 1)
NetTwo == (A :> 2) @@ (B :> 2)
=============================================================================
