--------------------------- MODULE MessageChannel ---------------------------
(***************************************************************************)
(* What a KCP conversation promises to the applications at its two ends:   *)
(* a reliable, ordered channel of whole messages in each direction.        *)
(*                                                                         *)
(* send puts a message into the channel at once; recv takes out the oldest *)
(* message its peer has sent and that it has not taken yet.  A message is  *)
(* the sequence of its fragments, numbered by frg down to 0.               *)
(***************************************************************************)
EXTENDS Integers, Sequences

CONSTANTS
  A, B,          \* the two endpoints
  MaxFragments,  \* a longer message is refused
  FragCounts,    \* the message sizes the applications use
  MaxSegs        \* bound: fragments an endpoint's application ever sends

VARIABLES
  sent,   \* sent[e]: the fragments sent at e, message after message
  got     \* got[e]: the fragments received at e

Endpoint == {A, B}

Peer(e) == IF e = A THEN B ELSE A

Init ==
  /\ sent = [e \in Endpoint |-> <<>>]
  /\ got = [e \in Endpoint |-> <<>>]

Send(e, count) ==
  /\ count <= MaxFragments
  /\ Len(sent[e]) + count <= MaxSegs[e]
  /\ LET msg == IF sent[e] = <<>> THEN 1 ELSE sent[e][Len(sent[e])].msg + 1
     IN  sent' = [sent EXCEPT ![e] =
                    @ \o [i \in 1..count |-> [msg |-> msg, frg |-> count - i]]]
  /\ got' = got

\* The next message of the peer is what lies between the end of got[e] and
\* the next fragment with frg = 0, that one included.
Deliver(e) ==
  LET from == Len(got[e]) + 1
      stream == sent[Peer(e)]
  IN  \E to \in from..Len(stream) :
        /\ stream[to].frg = 0
        /\ \A i \in from..(to - 1) : stream[i].frg # 0
        /\ got' = [got EXCEPT ![e] = @ \o SubSeq(stream, from, to)]
        /\ sent' = sent

Next ==
  \E e \in Endpoint :
    \/ \E count \in FragCounts : Send(e, count)
    \/ Deliver(e)

Spec == Init /\ [][Next]_<<sent, got>>

\* Every message that is sent is received.
Delivery == \A e \in Endpoint : WF_<<sent, got>>(Deliver(e))
=============================================================================
