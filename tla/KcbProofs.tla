----------------------------- MODULE KcbProofs -----------------------------
(***************************************************************************)
(* Proofs about Kcb, for every window, every message size and every number *)
(* of segments and datagrams.                                              *)
(***************************************************************************)
EXTENDS Kcb, WellFoundedInduction, TLAPS

(***************************************************************************)
(* Lemmas about the operators the model is built from.                     *)
(***************************************************************************)

\* There are two endpoints, each the peer of the other.
LEMMA EndpointFacts ==
  ASSUME NEW e \in Endpoint
  PROVE  /\ Peer(e) \in Endpoint
         /\ Peer(e) # e
         /\ Peer(Peer(e)) = e
         /\ \A x \in Endpoint : x = e \/ x = Peer(e)
BY EndpointAssumption DEF Endpoint, Peer

\* shrink_buf finds the smallest number left, or snd_nxt when none is.
LEMMA FrontFacts ==
  ASSUME NEW S \in SUBSET Nat, NEW nxt \in Nat
  PROVE  /\ Front(S, nxt) \in Nat
         /\ S = {} => Front(S, nxt) = nxt
         /\ S # {} => Front(S, nxt) \in S
         /\ \A n \in S : Front(S, nxt) <= n
<1>1. CASE S = {}
  BY <1>1 DEF Front
<1>2. CASE S # {}
  <2>1. \E m \in S : \A n \in S : m <= n
    <3>1. PICK m \in S : \A n \in S : ~ (<<n, m>> \in OpToRel(<, Nat))
      BY <1>2, NatLessThanWellFounded, WFMin
    <3>2. ASSUME NEW n \in S PROVE m <= n
      <4>1. ~ (n < m)
        BY <3>1 DEF OpToRel
      <4> QED BY <4>1
    <3> QED BY <3>2
  <2>2. Min(S) \in S /\ \A n \in S : Min(S) <= n
    BY <2>1 DEF Min
  <2> QED BY <1>2, <2>2 DEF Front
<1> QED BY <1>1, <1>2

\* The segments acknowledged leave snd_buf, the others stay as they are.
LEMMA ParseAcksFacts ==
  ASSUME TypeOK, NEW e \in Endpoint, NEW s \in Segment, ParseAcks(e, s)
  PROVE  \E left \in SUBSET DOMAIN snd_buf[e] :
           /\ snd_buf' = [snd_buf EXCEPT ![e] = [n \in left |-> snd_buf[e][n]]]
           /\ snd_una' = [snd_una EXCEPT ![e] = Front(left, snd_nxt[e])]
           /\ \A n \in DOMAIN snd_buf[e] \ left :
                n < s.una \/ (s.cmd = "ACK" /\ n = s.sn)
           /\ \A n \in left : n >= s.una
           /\ rmt_wnd' = [rmt_wnd EXCEPT ![e] = s.wnd]
           /\ UNCHANGED <<snd_queue, snd_nxt>>
<1> DEFINE una == {n \in DOMAIN snd_buf[e] : n >= s.una}
           acked == IF /\ s.cmd = "ACK"
                       /\ s.sn >= Front(una, snd_nxt[e])
                       /\ s.sn < snd_nxt[e]
                    THEN {s.sn}
                    ELSE {}
           left == una \ acked
<1>1. /\ snd_buf' = [snd_buf EXCEPT ![e] = [n \in left |-> snd_buf[e][n]]]
      /\ snd_una' = [snd_una EXCEPT ![e] = Front(left, snd_nxt[e])]
      /\ rmt_wnd' = [rmt_wnd EXCEPT ![e] = s.wnd]
      /\ UNCHANGED <<snd_queue, snd_nxt>>
  BY DEF ParseAcks
<1>2. left \in SUBSET DOMAIN snd_buf[e] /\ \A n \in left : n >= s.una
  OBVIOUS
<1>3. \A n \in DOMAIN snd_buf[e] \ left : n < s.una \/ (s.cmd = "ACK" /\ n = s.sn)
  BY DEF TypeOK, Segment
<1> HIDE DEF left
<1> QED BY <1>1, <1>2, <1>3

\* k segments of buf, consecutive from rcv_nxt, are appended to queue and
\* removed from buf; the move stopped at a gap or at a full queue.
Moved(e, buf, queue, k) ==
  LET moved == [i \in 1..k |-> buf[rcv_nxt[e] + i - 1]]
  IN  /\ k > 0 => k <= RcvWnd - Len(queue)
      /\ rcv_nxt[e] .. rcv_nxt[e] + k - 1 \subseteq DOMAIN buf
      /\ k < RcvWnd - Len(queue) => rcv_nxt[e] + k \notin DOMAIN buf
      /\ rcv_nxt' = [rcv_nxt EXCEPT ![e] = rcv_nxt[e] + k]
      /\ rcv_buf' = [rcv_buf EXCEPT ![e] =
           [n \in DOMAIN buf \ (rcv_nxt[e] .. rcv_nxt[e] + k - 1) |-> buf[n]]]
      /\ rcv_queue' = [rcv_queue EXCEPT ![e] = queue \o moved]
      /\ moved \in Seq(Payload)
      /\ Len(moved) = k

\* The loop that moves segments from rcv_buf to rcv_queue does just that.
LEMMA MoveToQueueFacts ==
  ASSUME TypeOK, NEW e \in Endpoint,
         NEW queue \in Seq(Payload), NEW buf,
         DOMAIN buf \in SUBSET Nat, buf \in [DOMAIN buf -> Payload],
         MoveToQueue(e, buf, queue)
  PROVE  \E k \in Nat : Moved(e, buf, queue, k)
<1> DEFINE nxt == rcv_nxt[e]
<1>1. PICK k \in 0..RcvWnd :
        /\ Movable(k, buf, nxt, RcvWnd - Len(queue))
        /\ rcv_queue' = [rcv_queue EXCEPT ![e] =
                           queue \o [i \in 1..k |-> buf[nxt + i - 1]]]
        /\ rcv_nxt' = [rcv_nxt EXCEPT ![e] = nxt + k]
        /\ rcv_buf' = [rcv_buf EXCEPT ![e] =
                         [n \in DOMAIN buf \ (nxt .. nxt + k - 1) |-> buf[n]]]
  BY DEF MoveToQueue
<1>2. k \in Nat /\ nxt \in Nat /\ Len(queue) \in Nat /\ RcvWnd \in Nat
  BY WindowAssumption DEF TypeOK
<1>3. /\ k > 0 => k <= RcvWnd - Len(queue)
      /\ nxt .. nxt + k - 1 \subseteq DOMAIN buf
      /\ k < RcvWnd - Len(queue) => nxt + k \notin DOMAIN buf
  BY <1>1, <1>2 DEF Movable, Greater
<1>4. ASSUME NEW i \in 1..k PROVE buf[nxt + i - 1] \in Payload
  <2>1. nxt + i - 1 \in nxt .. nxt + k - 1
    BY <1>2
  <2> QED BY <2>1, <1>3
<1>5. [i \in 1..k |-> buf[nxt + i - 1]] \in [1..k -> Payload]
  BY <1>4
<1>6. /\ [i \in 1..k |-> buf[nxt + i - 1]] \in Seq(Payload)
      /\ Len([i \in 1..k |-> buf[nxt + i - 1]]) = k
  BY <1>2, <1>5
<1> QED BY <1>1, <1>2, <1>3, <1>6 DEF Moved

\* A datagram is made of the segments flush encodes.
LEMMA DatagramsFacts ==
  ASSUME NEW control, NEW last \in SUBSET control, NEW push, NEW cuts,
         NEW d \in Datagrams(control, last, push, cuts)
  PROVE  d \subseteq control \cup push
BY DEF Datagrams, Run

\* Only what is sent reaches the network, and only on the way to the peer.
LEMMA TransmitFacts ==
  ASSUME TypeOK, NEW e \in Endpoint, NEW out, Transmit(e, out)
  PROVE  \E kept \in SUBSET out :
           net' = [net EXCEPT ![Peer(e)] = net[Peer(e)] \cup kept]
BY DEF Transmit

\* The segments an endpoint makes are well typed.
LEMMA SegType ==
  ASSUME TypeOK, NEW e \in Endpoint, NEW cmd \in Cmd, NEW sn \in Nat,
         NEW data \in Payload
  PROVE  Seg(e, cmd, sn, data) \in Segment
BY WindowAssumption DEF Seg, Segment, TypeOK, WndUnused, Greater

LEMMA ControlType ==
  ASSUME TypeOK, NEW e \in Endpoint, NEW asks
  PROVE  Acks(e) \cup Probes(e, asks) \subseteq Segment
<1>1. NoData \in Payload /\ {"ACK", "WASK", "WINS"} \subseteq Cmd
  BY DEF NoData, Payload, Cmd
<1>2. Acks(e) \subseteq Segment
  <2>1. ASSUME NEW n \in acklist[e] PROVE Seg(e, "ACK", n, NoData) \in Segment
    <3>1. n \in Nat
      BY DEF TypeOK
    <3> QED BY <1>1, <3>1, SegType
  <2> QED BY <2>1 DEF Acks
<1>3. Probes(e, asks) \subseteq Segment
  BY <1>1, SegType DEF Probes
<1> QED BY <1>2, <1>3
(***************************************************************************)
(* Type correctness                                                        *)
(***************************************************************************)

LEMMA InitType == Init => TypeOK
BY WindowAssumption, EndpointAssumption DEF Init, TypeOK, Endpoint

LEMMA ParseAcksType ==
  ASSUME TypeOK, NEW e \in Endpoint, NEW s \in Segment, ParseAcks(e, s)
  PROVE  /\ snd_queue' = snd_queue /\ snd_nxt' = snd_nxt
         /\ DOMAIN snd_buf' = Endpoint
         /\ \A x \in Endpoint :
              /\ DOMAIN snd_buf'[x] \subseteq Nat
              /\ snd_buf'[x] \in [DOMAIN snd_buf'[x] -> Payload]
         /\ snd_una' \in [Endpoint -> Nat]
         /\ rmt_wnd' \in [Endpoint -> Nat]
<1>1. PICK left \in SUBSET DOMAIN snd_buf[e] :
           /\ snd_buf' = [snd_buf EXCEPT ![e] = [n \in left |-> snd_buf[e][n]]]
           /\ snd_una' = [snd_una EXCEPT ![e] = Front(left, snd_nxt[e])]
           /\ rmt_wnd' = [rmt_wnd EXCEPT ![e] = s.wnd]
           /\ UNCHANGED <<snd_queue, snd_nxt>>
  BY ParseAcksFacts
<1>2. Front(left, snd_nxt[e]) \in Nat
  BY FrontFacts DEF TypeOK
<1>3. s.wnd \in Nat
  BY DEF Segment
<1> QED BY <1>1, <1>2, <1>3 DEF TypeOK

LEMMA MoveToQueueType ==
  ASSUME TypeOK, NEW e \in Endpoint,
         NEW queue \in Seq(Payload), NEW buf,
         DOMAIN buf \in SUBSET Nat, buf \in [DOMAIN buf -> Payload],
         MoveToQueue(e, buf, queue)
  PROVE  /\ DOMAIN rcv_buf' = Endpoint
         /\ \A x \in Endpoint :
              /\ DOMAIN rcv_buf'[x] \subseteq Nat
              /\ rcv_buf'[x] \in [DOMAIN rcv_buf'[x] -> Payload]
         /\ rcv_queue' \in [Endpoint -> Seq(Payload)]
         /\ rcv_nxt' \in [Endpoint -> Nat]
<1>1. PICK k \in Nat : Moved(e, buf, queue, k)
  BY MoveToQueueFacts
<1> DEFINE moved == [i \in 1..k |-> buf[rcv_nxt[e] + i - 1]]
<1>2. /\ rcv_nxt' = [rcv_nxt EXCEPT ![e] = rcv_nxt[e] + k]
      /\ rcv_buf' = [rcv_buf EXCEPT ![e] =
           [n \in DOMAIN buf \ (rcv_nxt[e] .. rcv_nxt[e] + k - 1) |-> buf[n]]]
      /\ rcv_queue' = [rcv_queue EXCEPT ![e] = queue \o moved]
      /\ moved \in Seq(Payload)
  BY <1>1 DEF Moved
<1> HIDE DEF moved
<1>3. queue \o moved \in Seq(Payload)
  BY <1>2
<1>4. rcv_nxt' \in [Endpoint -> Nat] /\ rcv_queue' \in [Endpoint -> Seq(Payload)]
  BY <1>2, <1>3 DEF TypeOK
<1>5. DOMAIN rcv_buf' = Endpoint
  BY <1>2 DEF TypeOK
<1>6. ASSUME NEW x \in Endpoint
      PROVE  /\ DOMAIN rcv_buf'[x] \subseteq Nat
             /\ rcv_buf'[x] \in [DOMAIN rcv_buf'[x] -> Payload]
  <2>1. CASE x = e
    BY <2>1, <1>2 DEF TypeOK
  <2>2. CASE x # e
    BY <2>2, <1>2 DEF TypeOK
  <2> QED BY <2>1, <2>2
<1> QED BY <1>4, <1>5, <1>6

\* The segments that leave snd_queue in a flush are the first ones.
LEMMA AdmittedFacts ==
  ASSUME TypeOK, NEW e \in Endpoint, NEW cwnd \in Nat
  PROVE  /\ Admitted(e, cwnd) \in 0..Len(snd_queue[e])
         /\ Admitted(e, cwnd) > 0 =>
              snd_nxt[e] + Admitted(e, cwnd) <= snd_una[e] + cwnd
<1>1. /\ snd_una[e] \in Nat /\ snd_nxt[e] \in Nat
      /\ Len(snd_queue[e]) \in Nat
  BY DEF TypeOK
<1>2. \A a \in Nat, b \in Int :
        /\ Lesser(a, Greater(b, 0)) \in 0..a
        /\ Lesser(a, Greater(b, 0)) > 0 => Lesser(a, Greater(b, 0)) <= b
  BY DEF Lesser, Greater
<1>3. snd_una[e] + cwnd - snd_nxt[e] \in Int
  BY <1>1
<1>4. /\ Admitted(e, cwnd) \in 0..Len(snd_queue[e])
      /\ Admitted(e, cwnd) > 0 => Admitted(e, cwnd) <= snd_una[e] + cwnd - snd_nxt[e]
  BY <1>1, <1>2, <1>3 DEF Admitted
<1> QED BY <1>1, <1>4

\* snd_buf after flush has given numbers to the first `count' fragments.
Numbered(e, count) ==
  [n \in DOMAIN snd_buf[e] \cup (snd_nxt[e] .. snd_nxt[e] + count - 1) |->
     IF n \in snd_nxt[e] .. snd_nxt[e] + count - 1
     THEN snd_queue[e][n - snd_nxt[e] + 1]
     ELSE snd_buf[e][n]]

\* The segments a flush may send when snd_buf is buf.
Outgoing(e, buf) ==
  Acks(e) \cup Probes(e, {"SEND", "TELL"})
    \cup {Seg(e, "PUSH", n, buf[n]) : n \in DOMAIN buf}

\* Datagrams made of these segments may have gone to the peer.
SendsOnly(e, segments) ==
  \E kept \in SUBSET SUBSET segments :
    net' = [net EXCEPT ![Peer(e)] = net[Peer(e)] \cup kept]

\* What a flush does to the send side and to the network.
LEMMA FlushFacts ==
  ASSUME TypeOK, NEW e \in Endpoint, NEW resend, NEW expired \in BOOLEAN,
         Flush(e, resend, expired)
  PROVE  \E cwnd \in 0..SndWnd :
           /\ snd_buf' = [snd_buf EXCEPT ![e] = Numbered(e, Admitted(e, cwnd))]
           /\ snd_nxt' = [snd_nxt EXCEPT ![e] = snd_nxt[e] + Admitted(e, cwnd)]
           /\ snd_queue' = [snd_queue EXCEPT ![e] =
                SubSeq(snd_queue[e], Admitted(e, cwnd) + 1, Len(snd_queue[e]))]
           /\ SendsOnly(e, Outgoing(e, Numbered(e, Admitted(e, cwnd))))
           /\ UNCHANGED <<snd_una, rcvVars, histVars, rmt_wnd, cursor>>
<1> DEFINE window == Lesser(SndWnd, rmt_wnd[e])
           control == Acks(e) \cup Probes(e, Asks(e, expired))
           count(cwnd) == Admitted(e, cwnd)
           new(cwnd) == snd_nxt[e] .. snd_nxt[e] + count(cwnd) - 1
           push(cwnd) == {Seg(e, "PUSH", n, Numbered(e, count(cwnd))[n]) :
                            n \in new(cwnd) \cup resend}
<1>1. PICK cwnd \in IF NoCwnd THEN {window} ELSE 0..window :
        /\ snd_buf' = [snd_buf EXCEPT ![e] = Numbered(e, count(cwnd))]
        /\ snd_nxt' = [snd_nxt EXCEPT ![e] = snd_nxt[e] + count(cwnd)]
        /\ snd_queue' = [snd_queue EXCEPT ![e] =
             SubSeq(snd_queue[e], count(cwnd) + 1, Len(snd_queue[e]))]
        /\ \E last \in SUBSET LastControl(control) :
             \E cuts \in SUBSET (new(cwnd) \cup resend) :
               Transmit(e, Datagrams(control, last, push(cwnd), cuts))
  BY DEF Flush, Numbered
<1>2. cwnd \in 0..SndWnd
  BY WindowAssumption DEF TypeOK, Lesser
<1>3. resend \subseteq DOMAIN snd_buf[e]
  BY DEF Flush
<1>4. control \cup push(cwnd) \subseteq Outgoing(e, Numbered(e, count(cwnd)))
  <2>1. control \subseteq Acks(e) \cup Probes(e, {"SEND", "TELL"})
    BY DEF Probes
  <2>2. new(cwnd) \cup resend \subseteq DOMAIN Numbered(e, count(cwnd))
    BY <1>3 DEF Numbered
  <2> QED BY <2>1, <2>2 DEF Outgoing
<1>5. SendsOnly(e, Outgoing(e, Numbered(e, count(cwnd))))
  <2>1. PICK last \in SUBSET LastControl(control),
                cuts \in SUBSET (new(cwnd) \cup resend) :
          Transmit(e, Datagrams(control, last, push(cwnd), cuts))
    BY <1>1
  <2>2. last \in SUBSET control
    BY DEF LastControl
  <2>3. \A d \in Datagrams(control, last, push(cwnd), cuts) :
          d \subseteq control \cup push(cwnd)
    BY <2>2, DatagramsFacts
  <2> DEFINE out == Datagrams(control, last, push(cwnd), cuts)
  <2>4. out \in SUBSET SUBSET Outgoing(e, Numbered(e, count(cwnd)))
    BY <2>3, <1>4
  <2>5. Transmit(e, out)
    BY <2>1
  <2> HIDE DEF out
  <2>6. PICK kept \in SUBSET out :
          net' = [net EXCEPT ![Peer(e)] = net[Peer(e)] \cup kept]
    BY <2>5, TransmitFacts
  <2> QED BY <2>4, <2>6 DEF SendsOnly
<1>6. UNCHANGED <<snd_una, rcvVars, histVars, rmt_wnd, cursor>>
  BY DEF Flush
<1> QED BY <1>1, <1>2, <1>5, <1>6

\* A flush that is dropped in the middle sends control segments only.
LEMMA FlushDroppedFacts ==
  ASSUME TypeOK, NEW e \in Endpoint,
         \/ FlushDroppedAtAck(e)
         \/ \E expired \in BOOLEAN : FlushDroppedAtProbe(e, expired)
  PROVE  /\ SendsOnly(e, Outgoing(e, snd_buf[e]))
         /\ UNCHANGED <<sndVars, rcvVars, histVars, rmt_wnd, cursor>>
<1>1. PICK control \in SUBSET (Acks(e) \cup Probes(e, {"SEND", "TELL"})) :
        Transmit(e, {{s} : s \in control})
  <2>1. CASE FlushDroppedAtAck(e)
    BY <2>1 DEF FlushDroppedAtAck
  <2>2. ASSUME NEW expired \in BOOLEAN, FlushDroppedAtProbe(e, expired)
        PROVE  \E control \in SUBSET (Acks(e) \cup Probes(e, {"SEND", "TELL"})) :
                 Transmit(e, {{s} : s \in control})
    <3>1. Transmit(e, {{s} : s \in Acks(e) \cup Probes(e, Asks(e, expired))})
      BY <2>2 DEF FlushDroppedAtProbe
    <3>2. Acks(e) \cup Probes(e, Asks(e, expired))
            \subseteq Acks(e) \cup Probes(e, {"SEND", "TELL"})
      BY DEF Probes
    <3> QED BY <3>1, <3>2
  <2> QED BY <2>1, <2>2
<1>2. PICK kept \in SUBSET {{s} : s \in control} :
        net' = [net EXCEPT ![Peer(e)] = net[Peer(e)] \cup kept]
  BY <1>1, TransmitFacts
<1>3. kept \in SUBSET SUBSET Outgoing(e, snd_buf[e])
  BY <1>2 DEF Outgoing
<1> QED BY <1>2, <1>3 DEF SendsOnly, FlushDroppedAtAck, FlushDroppedAtProbe

\* Whatever flush makes of its segments, the network stays well typed.
LEMMA SendsOnlyType ==
  ASSUME TypeOK, NEW e \in Endpoint, NEW buf,
         DOMAIN buf \in SUBSET Nat, buf \in [DOMAIN buf -> Payload],
         SendsOnly(e, Outgoing(e, buf))
  PROVE  net' \in [Endpoint -> SUBSET SUBSET Segment]
<1>1. {Seg(e, "PUSH", n, buf[n]) : n \in DOMAIN buf} \subseteq Segment
  <2>1. ASSUME NEW n \in DOMAIN buf PROVE Seg(e, "PUSH", n, buf[n]) \in Segment
    <3>1. n \in Nat /\ buf[n] \in Payload /\ "PUSH" \in Cmd
      BY DEF Cmd
    <3> QED BY <3>1, SegType
  <2> QED BY <2>1
<1>2. Outgoing(e, buf) \subseteq Segment
  BY <1>1, ControlType DEF Outgoing
<1>3. PICK kept \in SUBSET SUBSET Outgoing(e, buf) :
        net' = [net EXCEPT ![Peer(e)] = net[Peer(e)] \cup kept]
  BY DEF SendsOnly
<1> QED BY <1>2, <1>3, EndpointFacts DEF TypeOK

LEMMA NumberedType ==
  ASSUME TypeOK, NEW e \in Endpoint, NEW count \in 0..Len(snd_queue[e])
  PROVE  /\ DOMAIN Numbered(e, count) =
              DOMAIN snd_buf[e] \cup (snd_nxt[e] .. snd_nxt[e] + count - 1)
         /\ DOMAIN Numbered(e, count) \in SUBSET Nat
         /\ Numbered(e, count) \in [DOMAIN Numbered(e, count) -> Payload]
<1> DEFINE new == snd_nxt[e] .. snd_nxt[e] + count - 1
<1>1. snd_nxt[e] \in Nat /\ Len(snd_queue[e]) \in Nat /\ count \in Nat
  BY DEF TypeOK
<1>2. DOMAIN Numbered(e, count) = DOMAIN snd_buf[e] \cup new
  BY DEF Numbered
<1>3. DOMAIN snd_buf[e] \subseteq Nat /\ new \subseteq Nat
  BY <1>1 DEF TypeOK
<1>4. ASSUME NEW n \in new PROVE Numbered(e, count)[n] \in Payload
  <2>1. n - snd_nxt[e] + 1 \in 1..Len(snd_queue[e])
    BY <1>1
  <2>2. snd_queue[e][n - snd_nxt[e] + 1] \in Payload
    BY <2>1 DEF TypeOK
  <2> QED BY <2>2 DEF Numbered
<1>5. ASSUME NEW n \in DOMAIN snd_buf[e], n \notin new
      PROVE  Numbered(e, count)[n] \in Payload
  <2>1. snd_buf[e][n] \in Payload
    BY DEF TypeOK
  <2> QED BY <2>1, <1>5 DEF Numbered
<1>6. \A n \in DOMAIN Numbered(e, count) : Numbered(e, count)[n] \in Payload
  BY <1>2, <1>4, <1>5
<1>7. Numbered(e, count) = [n \in DOMAIN Numbered(e, count) |-> Numbered(e, count)[n]]
  BY DEF Numbered
<1> QED BY <1>2, <1>3, <1>6, <1>7

\* A segment that input parses, and what it does to the receive side.
InputSegment(e, s) ==
  /\ s \in cursor[e]
  /\ ParseAcks(e, s)
  /\ cursor'[e] \subseteq cursor[e]
  /\ cursor' = [cursor EXCEPT ![e] = cursor'[e]]
  /\ UNCHANGED <<histVars, net>>

\* rcv_buf with the segment s put into it, unless its number is there.
Stored(e, s) ==
  [n \in DOMAIN rcv_buf[e] \cup {s.sn} |->
     IF n \in DOMAIN rcv_buf[e] THEN rcv_buf[e][n] ELSE s.data]

LEMMA StoredType ==
  ASSUME TypeOK, NEW e \in Endpoint, NEW s \in Segment
  PROVE  /\ DOMAIN Stored(e, s) = DOMAIN rcv_buf[e] \cup {s.sn}
         /\ DOMAIN Stored(e, s) \in SUBSET Nat
         /\ Stored(e, s) \in [DOMAIN Stored(e, s) -> Payload]
<1>1. s.sn \in Nat /\ s.data \in Payload
  BY DEF Segment
<1> QED BY <1>1 DEF Stored, TypeOK

\* All the steps of input: a segment is parsed, its sending side counts; a
\* PUSH inside the window is stored and acknowledged, one outside at most
\* acknowledged.
LEMMA InputFacts ==
  ASSUME TypeOK, NEW e \in Endpoint,
         InputAckOrWins(e) \/ InputWask(e) \/ InputPush(e) \/ InputStalePush(e)
  PROVE  \E s \in Segment :
           /\ InputSegment(e, s)
           /\ \/ /\ UNCHANGED rcvVars
                 /\ acklist' = acklist
              \/ /\ s.cmd = "PUSH"
                 /\ UNCHANGED rcvVars
                 /\ s.sn < rcv_nxt[e]
                 /\ acklist' = [acklist EXCEPT ![e] = acklist[e] \cup {s.sn}]
              \/ /\ s.cmd = "PUSH"
                 /\ s.sn >= rcv_nxt[e] /\ s.sn < rcv_nxt[e] + RcvWnd
                 /\ MoveToQueue(e, Stored(e, s), rcv_queue[e])
                 /\ acklist' = [acklist EXCEPT ![e] = acklist[e] \cup {s.sn}]
           /\ \/ probe' = probe
              \/ probe' = [probe EXCEPT ![e] = probe[e] \cup {"TELL"}]
           /\ probe_wait' = probe_wait
<1>0. cursor \in [Endpoint -> SUBSET Segment]
  BY DEF TypeOK
<1>1. CASE InputAckOrWins(e)
  BY <1>1 DEF InputAckOrWins, InputSegment, TypeOK, probeVars
<1>2. CASE InputWask(e)
  BY <1>2 DEF InputWask, InputSegment, TypeOK
<1>3. CASE InputPush(e)
  <2>1. PICK s \in cursor[e] :
          /\ s.cmd = "PUSH"
          /\ s.sn < rcv_nxt[e] + RcvWnd
          /\ s.sn >= rcv_nxt[e]
          /\ ParseAcks(e, s)
          /\ acklist' = [acklist EXCEPT ![e] = acklist[e] \cup {s.sn}]
          /\ MoveToQueue(e, Stored(e, s), rcv_queue[e])
          /\ cursor' = [cursor EXCEPT ![e] = cursor[e] \ {s}]
          /\ UNCHANGED <<probeVars, histVars, net>>
    BY <1>3 DEF InputPush, Stored
  <2>2. s \in Segment
    BY DEF TypeOK
  <2>3. InputSegment(e, s)
    BY <2>1, <1>0 DEF InputSegment
  <2> QED BY <2>1, <2>2, <2>3 DEF probeVars
<1>4. CASE InputStalePush(e)
  <2>1. PICK s \in cursor[e] :
          /\ s.cmd = "PUSH"
          /\ s.sn < rcv_nxt[e] \/ s.sn >= rcv_nxt[e] + RcvWnd
          /\ ParseAcks(e, s)
          /\ acklist' = IF s.sn < rcv_nxt[e] + RcvWnd
                        THEN [acklist EXCEPT ![e] = acklist[e] \cup {s.sn}]
                        ELSE acklist
          /\ cursor' = [cursor EXCEPT ![e] = {}]
          /\ UNCHANGED <<rcvVars, probeVars, histVars, net>>
    BY <1>4 DEF InputStalePush
  <2>2. s \in Segment
    BY DEF TypeOK
  <2>3. InputSegment(e, s)
    BY <2>1, <1>0 DEF InputSegment
  <2>4. /\ s.sn \in Nat /\ rcv_nxt[e] \in Nat
        /\ s.sn >= rcv_nxt[e] + RcvWnd => ~ (s.sn < rcv_nxt[e] + RcvWnd)
    BY <2>2, WindowAssumption DEF TypeOK, Segment
  <2> QED BY <2>1, <2>2, <2>3, <2>4 DEF probeVars
<1> QED BY <1>1, <1>2, <1>3, <1>4

\* Every step keeps the types.
LEMMA StepType ==
  ASSUME TypeOK, Next
  PROVE  TypeOK'
<1> USE DEF rcvVars, sndVars, probeVars, histVars
<1>1. ASSUME NEW e \in Endpoint, NEW count \in FragCounts, Send(e, count)
      PROVE  TypeOK'
  <2> DEFINE msg == IF sent[e] = <<>> THEN 1 ELSE sent[e][Len(sent[e])].msg + 1
             fragments == [i \in 1..count |-> [msg |-> msg, frg |-> count - i]]
  <2>1. count \in Nat
    BY FragmentAssumption
  <2>2. sent[e] \in Seq(Payload) /\ snd_queue[e] \in Seq(Payload)
    BY DEF TypeOK
  <2>3. msg \in Nat
    <3>1. CASE sent[e] = <<>>
      BY <3>1
    <3>2. CASE sent[e] # <<>>
      <4>1. sent[e][Len(sent[e])] \in Payload
        BY <2>2, <3>2
      <4> QED BY <4>1, <3>2 DEF Payload
    <3> QED BY <3>1, <3>2
  <2>4. fragments \in Seq(Payload)
    <3> HIDE DEF msg
    <3>1. \A i \in 1..count : [msg |-> msg, frg |-> count - i] \in Payload
      BY <2>1, <2>3 DEF Payload
    <3>2. fragments \in [1..count -> Payload]
      BY <3>1
    <3> QED BY <2>1, <3>2
  <2>5. /\ snd_queue' = [snd_queue EXCEPT ![e] = snd_queue[e] \o fragments]
        /\ sent' = [sent EXCEPT ![e] = sent[e] \o fragments]
        /\ UNCHANGED <<snd_buf, snd_una, snd_nxt, rcvVars, probeVars, got, rmt_wnd,
                       acklist, cursor, net>>
    BY <1>1 DEF Send
  <2> HIDE DEF fragments
  <2>6. snd_queue[e] \o fragments \in Seq(Payload) /\ sent[e] \o fragments \in Seq(Payload)
    BY <2>2, <2>4
  <2> QED BY <2>5, <2>6 DEF TypeOK
<1>2. ASSUME NEW e \in Endpoint, Recv(e) PROVE TypeOK'
  <2>1. PICK n \in 1..Len(rcv_queue[e]) :
          /\ got' = [got EXCEPT ![e] = got[e] \o SubSeq(rcv_queue[e], 1, n)]
          /\ MoveToQueue(e, rcv_buf[e],
                         SubSeq(rcv_queue[e], n + 1, Len(rcv_queue[e])))
    BY <1>2 DEF Recv
  <2>2. /\ rcv_queue[e] \in Seq(Payload) /\ got[e] \in Seq(Payload)
        /\ DOMAIN rcv_buf[e] \in SUBSET Nat /\ rcv_buf[e] \in [DOMAIN rcv_buf[e] -> Payload]
    BY DEF TypeOK
  <2>3. SubSeq(rcv_queue[e], 1, n) \in Seq(Payload)
    BY <2>2
  <2>4. SubSeq(rcv_queue[e], n + 1, Len(rcv_queue[e])) \in Seq(Payload)
    BY <2>2
  <2>5. got[e] \o SubSeq(rcv_queue[e], 1, n) \in Seq(Payload)
    BY <2>2, <2>3
  <2>6. got' \in [Endpoint -> Seq(Payload)]
    <3>1. got \in [Endpoint -> Seq(Payload)]
      BY DEF TypeOK
    <3> QED BY <2>1, <2>5, <3>1
  <2>7. /\ DOMAIN rcv_buf' = Endpoint
        /\ \A x \in Endpoint :
             /\ DOMAIN rcv_buf'[x] \subseteq Nat
             /\ rcv_buf'[x] \in [DOMAIN rcv_buf'[x] -> Payload]
        /\ rcv_queue' \in [Endpoint -> Seq(Payload)]
        /\ rcv_nxt' \in [Endpoint -> Nat]
    BY <2>1, <2>2, <2>4, MoveToQueueType
  <2>8. /\ UNCHANGED <<sndVars, probe_wait, sent, rmt_wnd, acklist, cursor, net>>
        /\ probe' = [probe EXCEPT ![e] = probe[e] \cup {"TELL"}] \/ probe' = probe
    BY <1>2 DEF Recv
  <2>9. probe' \in [Endpoint -> SUBSET {"SEND", "TELL"}]
    <3>1. probe \in [Endpoint -> SUBSET {"SEND", "TELL"}]
      BY DEF TypeOK
    <3> QED BY <2>8, <3>1
  <2> QED BY <2>6, <2>7, <2>8, <2>9 DEF TypeOK
<1>3. ASSUME NEW e \in Endpoint, NEW d \in net[e], Input(e, d) PROVE TypeOK'
  <2>1. /\ cursor' = [cursor EXCEPT ![e] = d]
        /\ net' = [net EXCEPT ![e] = net[e] \ {d}] \/ net' = net
        /\ UNCHANGED <<sndVars, rcvVars, probeVars, histVars, rmt_wnd, acklist>>
    BY <1>3 DEF Input
  <2>2. /\ d \in SUBSET Segment
        /\ cursor \in [Endpoint -> SUBSET Segment]
        /\ net \in [Endpoint -> SUBSET SUBSET Segment]
    BY DEF TypeOK
  <2>3. cursor' \in [Endpoint -> SUBSET Segment]
    BY <2>1, <2>2
  <2>4. net' \in [Endpoint -> SUBSET SUBSET Segment]
    BY <2>1, <2>2
  <2> QED BY <2>1, <2>3, <2>4 DEF TypeOK
<1>4. ASSUME NEW e \in Endpoint,
             InputAckOrWins(e) \/ InputWask(e) \/ InputPush(e) \/ InputStalePush(e)
      PROVE  TypeOK'
  <2>1. PICK s \in Segment :
           /\ InputSegment(e, s)
           /\ \/ UNCHANGED rcvVars
              \/ MoveToQueue(e, Stored(e, s), rcv_queue[e])
           /\ \/ acklist' = acklist
              \/ acklist' = [acklist EXCEPT ![e] = acklist[e] \cup {s.sn}]
           /\ \/ probe' = probe
              \/ probe' = [probe EXCEPT ![e] = probe[e] \cup {"TELL"}]
           /\ probe_wait' = probe_wait
    BY <1>4, InputFacts
  <2>2. /\ snd_queue' = snd_queue /\ snd_nxt' = snd_nxt
        /\ DOMAIN snd_buf' = Endpoint
        /\ \A x \in Endpoint :
              /\ DOMAIN snd_buf'[x] \subseteq Nat
              /\ snd_buf'[x] \in [DOMAIN snd_buf'[x] -> Payload]
        /\ snd_una' \in [Endpoint -> Nat]
        /\ rmt_wnd' \in [Endpoint -> Nat]
    BY <2>1, ParseAcksType DEF InputSegment
  <2>3. /\ DOMAIN rcv_buf' = Endpoint
        /\ \A x \in Endpoint :
             /\ DOMAIN rcv_buf'[x] \subseteq Nat
             /\ rcv_buf'[x] \in [DOMAIN rcv_buf'[x] -> Payload]
        /\ rcv_queue' \in [Endpoint -> Seq(Payload)]
        /\ rcv_nxt' \in [Endpoint -> Nat]
    <3>1. CASE UNCHANGED rcvVars
      BY <3>1 DEF TypeOK
    <3>2. CASE MoveToQueue(e, Stored(e, s), rcv_queue[e])
      <4>1. rcv_queue[e] \in Seq(Payload)
        BY DEF TypeOK
      <4> QED BY <3>2, <4>1, StoredType, MoveToQueueType
    <3> QED BY <2>1, <3>1, <3>2
  <2>4. acklist' \in [Endpoint -> SUBSET Nat]
    <3>1. acklist \in [Endpoint -> SUBSET Nat] /\ s.sn \in Nat
      BY DEF TypeOK, Segment
    <3> QED BY <2>1, <3>1
  <2>5. /\ probe' \in [Endpoint -> SUBSET {"SEND", "TELL"}]
        /\ probe_wait' \in [Endpoint -> BOOLEAN]
    <3>1. /\ probe \in [Endpoint -> SUBSET {"SEND", "TELL"}]
          /\ probe_wait \in [Endpoint -> BOOLEAN]
      BY DEF TypeOK
    <3> QED BY <2>1, <3>1
  <2>6. cursor' \in [Endpoint -> SUBSET Segment]
    BY <2>1 DEF InputSegment, TypeOK
  <2>7. UNCHANGED <<histVars, net>>
    BY <2>1 DEF InputSegment
  <2> QED BY <2>2, <2>3, <2>4, <2>5, <2>6, <2>7 DEF TypeOK
<1>5. ASSUME NEW e \in Endpoint, NEW resend, NEW expired \in BOOLEAN,
             Flush(e, resend, expired)
      PROVE  TypeOK'
  <2>1. PICK cwnd \in 0..SndWnd :
           /\ snd_buf' = [snd_buf EXCEPT ![e] = Numbered(e, Admitted(e, cwnd))]
           /\ snd_nxt' = [snd_nxt EXCEPT ![e] = snd_nxt[e] + Admitted(e, cwnd)]
           /\ snd_queue' = [snd_queue EXCEPT ![e] =
                SubSeq(snd_queue[e], Admitted(e, cwnd) + 1, Len(snd_queue[e]))]
           /\ SendsOnly(e, Outgoing(e, Numbered(e, Admitted(e, cwnd))))
           /\ UNCHANGED <<snd_una, rcvVars, histVars, rmt_wnd, cursor>>
    BY <1>5, FlushFacts
  <2> DEFINE count == Admitted(e, cwnd)
  <2>2. count \in 0..Len(snd_queue[e])
    BY AdmittedFacts, WindowAssumption
  <2>3. /\ acklist' = [acklist EXCEPT ![e] = {}]
        /\ probe' = [probe EXCEPT ![e] = {}]
        /\ probe_wait' = [probe_wait EXCEPT ![e] = (rmt_wnd[e] = 0)]
    BY <1>5 DEF Flush
  <2> HIDE DEF count
  <2>4. /\ DOMAIN Numbered(e, count) \in SUBSET Nat
        /\ Numbered(e, count) \in [DOMAIN Numbered(e, count) -> Payload]
    BY <2>2, NumberedType
  <2>5. net' \in [Endpoint -> SUBSET SUBSET Segment]
    BY <2>1, <2>4, SendsOnlyType DEF count
  <2>6. SubSeq(snd_queue[e], count + 1, Len(snd_queue[e])) \in Seq(Payload)
    BY <2>2 DEF TypeOK
  <2>7. snd_nxt[e] + count \in Nat
    BY <2>2 DEF TypeOK
  <2>8. /\ DOMAIN snd_buf' = Endpoint
        /\ \A x \in Endpoint :
             /\ DOMAIN snd_buf'[x] \subseteq Nat
             /\ snd_buf'[x] \in [DOMAIN snd_buf'[x] -> Payload]
    BY <2>1, <2>4 DEF TypeOK, count
  <2>9. snd_queue' \in [Endpoint -> Seq(Payload)] /\ snd_nxt' \in [Endpoint -> Nat]
    BY <2>1, <2>6, <2>7 DEF TypeOK, count
  <2> QED BY <2>1, <2>3, <2>5, <2>8, <2>9 DEF TypeOK
<1>6. ASSUME NEW e \in Endpoint,
             FlushDroppedAtAck(e) \/ \E expired \in BOOLEAN : FlushDroppedAtProbe(e, expired)
      PROVE  TypeOK'
  <2>1. /\ SendsOnly(e, Outgoing(e, snd_buf[e]))
        /\ UNCHANGED <<sndVars, rcvVars, histVars, rmt_wnd, cursor>>
    BY <1>6, FlushDroppedFacts
  <2>2. /\ acklist' = acklist \/ acklist' = [acklist EXCEPT ![e] = {}]
        /\ \/ probe' = probe
           \/ \E expired \in BOOLEAN : probe' = [probe EXCEPT ![e] = Asks(e, expired)]
        /\ \/ probe_wait' = probe_wait
           \/ probe_wait' = [probe_wait EXCEPT ![e] = (rmt_wnd[e] = 0)]
    BY <1>6 DEF FlushDroppedAtAck, FlushDroppedAtProbe
  <2>3. \A expired \in BOOLEAN : Asks(e, expired) \in SUBSET {"SEND", "TELL"}
    BY DEF Asks, TypeOK
  <2>4. net' \in [Endpoint -> SUBSET SUBSET Segment]
    BY <2>1, SendsOnlyType DEF TypeOK
  <2>5. /\ probe' \in [Endpoint -> SUBSET {"SEND", "TELL"}]
        /\ probe_wait' \in [Endpoint -> BOOLEAN]
        /\ acklist' \in [Endpoint -> SUBSET Nat]
    <3>1. /\ probe \in [Endpoint -> SUBSET {"SEND", "TELL"}]
          /\ probe_wait \in [Endpoint -> BOOLEAN]
          /\ acklist \in [Endpoint -> SUBSET Nat]
      BY DEF TypeOK
    <3> QED BY <2>2, <2>3, <3>1
  <2> QED BY <2>1, <2>4, <2>5 DEF TypeOK
<1> QED BY <1>1, <1>2, <1>3, <1>4, <1>5, <1>6 DEF Next

\* All variables of the two control blocks keep their types.
THEOREM TypeCorrect == Spec => []TypeOK
<1>1. TypeOK /\ UNCHANGED vars => TypeOK'
  BY DEF vars, sndVars, rcvVars, probeVars, histVars, TypeOK
<1> QED BY <1>1, InitType, StepType, PTL DEF Spec
=============================================================================
