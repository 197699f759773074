--------------------------- MODULE MCKcpListener ---------------------------
(***************************************************************************)
(* The bounds of the runs of KcpListener.                                  *)
(***************************************************************************)
EXTENDS KcpListener

\* Messages by conversation: two, and one more after the client's restart.
TwoOne == <<2, 1>>
=============================================================================
