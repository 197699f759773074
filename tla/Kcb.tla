-------------------------------- MODULE Kcb --------------------------------
(***************************************************************************)
(* The KCP control blocks (struct Kcb of src/kcp/kcb.rs) at the two ends    *)
(* of one conversation, and the UDP network between them.                   *)
(*                                                                         *)
(* The callers of a control block may call send, recv, input and flush (or *)
(* update, which is flush behind a timer) in any order.  `input' is        *)
(* synchronous; it is cut into one action per iteration of its loop over   *)
(* the segments of a datagram, and nothing else can happen at an endpoint  *)
(* while its `cursor' still holds a segment.                               *)
(*                                                                         *)
(* Abstractions of data:                                                   *)
(*  - the sorted deques snd_buf and rcv_buf are functions from sequence    *)
(*    number to content;                                                   *)
(*  - time is left out: which unacknowledged segments are overdue, and     *)
(*    whether the probe timer has expired, are free choices of flush;      *)
(*  - a message is its ordinal, a fragment is [msg, frg];                  *)
(*  - a datagram is a set of segments: at most one control segment, parsed *)
(*    first, then PUSH segments in the order of their sequence numbers;    *)
(*  - acklist is a set: without timestamps a second acknowledgement of a   *)
(*    segment is a duplicate of the first.                                 *)
(***************************************************************************)
EXTENDS Integers, FiniteSets, Sequences, FiniteSetsExt

CONSTANTS
  A, B,           \* the two endpoints
  SndWnd,         \* snd_wnd of both ends (wndsize)
  RcvWnd,         \* rcv_wnd of both ends (wndsize)
  RmtWndInit,     \* what rmt_wnd starts with (KCP_WND_RCV)
  NoCwnd,         \* nocwnd: TRUE disables congestion control
  MaxFragments,   \* `count > 255' is refused by send
  FragCounts,     \* the message sizes, in fragments, the applications use
  MaxSegs,        \* bound: segments an endpoint's application ever sends
  MaxNet          \* bound: datagrams in flight, by the endpoint they go to

Endpoint == {A, B}

Peer(e) == IF e = A THEN B ELSE A

ASSUME EndpointAssumption == A # B
ASSUME WindowAssumption ==
  /\ SndWnd \in Nat \ {0}
  /\ RcvWnd \in Nat \ {0}
  /\ RmtWndInit \in Nat
  /\ NoCwnd \in BOOLEAN
ASSUME FragmentAssumption ==
  /\ MaxFragments \in Nat
  /\ FragCounts \subseteq Nat \ {0}

VARIABLES
  snd_queue,   \* fragments accepted by send and not yet numbered
  snd_buf,     \* numbered, unacknowledged fragments, by sequence number
  snd_una,     \* first unacknowledged sequence number
  snd_nxt,     \* next sequence number to give out
  rmt_wnd,     \* the receive window the peer last told
  rcv_buf,     \* received fragments that rcv_queue has not taken
  rcv_queue,   \* fragments in order, for recv
  rcv_nxt,     \* next sequence number rcv_queue needs
  acklist,     \* sequence numbers to acknowledge
  probe,       \* subset of {"SEND", "TELL"}: KCP_ASK_SEND, KCP_ASK_TELL
  probe_wait,  \* is the window-probe timer armed (probe_wait # 0)?
  cursor,      \* the segments of the datagram `input' has still to parse
  net,         \* net[e]: datagrams in flight towards e
  sent,        \* history: all fragments send has accepted
  got          \* history: all fragments recv has returned

sndVars == <<snd_queue, snd_buf, snd_una, snd_nxt>>
rcvVars == <<rcv_buf, rcv_queue, rcv_nxt>>
probeVars == <<probe, probe_wait>>
histVars == <<sent, got>>
vars == <<sndVars, rcvVars, probeVars, histVars, rmt_wnd, acklist, cursor, net>>
----------------------------------------------------------------------------
Payload == [msg : Nat, frg : Nat]
Cmd == {"PUSH", "ACK", "WASK", "WINS"}
Segment == [cmd : Cmd, wnd : Nat, una : Nat, sn : Nat, data : Payload]

\* The data of a segment that carries none.
NoData == [msg |-> 0, frg |-> 0]

Lesser(a, b) == IF a <= b THEN a ELSE b
Greater(a, b) == IF a <= b THEN b ELSE a

TypeOK ==
  /\ snd_queue \in [Endpoint -> Seq(Payload)]
  /\ DOMAIN snd_buf = Endpoint
  /\ \A e \in Endpoint :
       /\ DOMAIN snd_buf[e] \subseteq Nat
       /\ snd_buf[e] \in [DOMAIN snd_buf[e] -> Payload]
  /\ snd_una \in [Endpoint -> Nat]
  /\ snd_nxt \in [Endpoint -> Nat]
  /\ rmt_wnd \in [Endpoint -> Nat]
  /\ DOMAIN rcv_buf = Endpoint
  /\ \A e \in Endpoint :
       /\ DOMAIN rcv_buf[e] \subseteq Nat
       /\ rcv_buf[e] \in [DOMAIN rcv_buf[e] -> Payload]
  /\ rcv_queue \in [Endpoint -> Seq(Payload)]
  /\ rcv_nxt \in [Endpoint -> Nat]
  /\ acklist \in [Endpoint -> SUBSET Nat]
  /\ probe \in [Endpoint -> SUBSET {"SEND", "TELL"}]
  /\ probe_wait \in [Endpoint -> BOOLEAN]
  /\ cursor \in [Endpoint -> SUBSET Segment]
  /\ net \in [Endpoint -> SUBSET SUBSET Segment]
  /\ sent \in [Endpoint -> Seq(Payload)]
  /\ got \in [Endpoint -> Seq(Payload)]

Init ==
  /\ snd_queue = [e \in Endpoint |-> <<>>]
  /\ snd_buf = [e \in Endpoint |-> <<>>]
  /\ snd_una = [e \in Endpoint |-> 0]
  /\ snd_nxt = [e \in Endpoint |-> 0]
  /\ rmt_wnd = [e \in Endpoint |-> RmtWndInit]
  /\ rcv_buf = [e \in Endpoint |-> <<>>]
  /\ rcv_queue = [e \in Endpoint |-> <<>>]
  /\ rcv_nxt = [e \in Endpoint |-> 0]
  /\ acklist = [e \in Endpoint |-> {}]
  /\ probe = [e \in Endpoint |-> {}]
  /\ probe_wait = [e \in Endpoint |-> FALSE]
  /\ cursor = [e \in Endpoint |-> {}]
  /\ net = [e \in Endpoint |-> {}]
  /\ sent = [e \in Endpoint |-> <<>>]
  /\ got = [e \in Endpoint |-> <<>>]
----------------------------------------------------------------------------
(* send, recv: the calls of the application *)

\* The application sends a message of `count' fragments (stream mode is off:
\* the fragments count down to frg = 0).
Send(e, count) ==
  /\ cursor[e] = {}
  /\ count <= MaxFragments
  /\ Len(sent[e]) + count <= MaxSegs[e]
  /\ LET msg == IF sent[e] = <<>> THEN 1 ELSE sent[e][Len(sent[e])].msg + 1
         fragments == [i \in 1..count |-> [msg |-> msg, frg |-> count - i]]
     IN  /\ snd_queue' = [snd_queue EXCEPT ![e] = @ \o fragments]
         /\ sent' = [sent EXCEPT ![e] = @ \o fragments]
  /\ UNCHANGED <<snd_buf, snd_una, snd_nxt, rcvVars, probeVars, got, rmt_wnd,
                 acklist, cursor, net>>

\* k is how many segments of buf can follow nxt-1 in a queue with room for
\* `room' more: as many as are consecutive from nxt.
Movable(k, buf, nxt, room) ==
  /\ k \in 0..Greater(room, 0)
  /\ nxt .. nxt + k - 1 \subseteq DOMAIN buf
  /\ k < room => nxt + k \notin DOMAIN buf

\* Mutant: segments of rcv_buf are moved without looking for a gap.
MoveToQueueGap(e, buf, queue) ==
  LET nxt == IF DOMAIN buf = {} THEN 0 ELSE Min(DOMAIN buf)
      k == IF DOMAIN buf = {} \/ Len(queue) >= RcvWnd THEN 0 ELSE 1
  IN  /\ rcv_queue' = [rcv_queue EXCEPT ![e] =
                         queue \o [i \in 1..k |-> buf[nxt + i - 1]]]
      /\ rcv_nxt' = [rcv_nxt EXCEPT ![e] = @ + k]
      /\ rcv_buf' = [rcv_buf EXCEPT ![e] =
                       [n \in DOMAIN buf \ (nxt .. nxt + k - 1) |-> buf[n]]]

\* Move available data from rcv_buf -> rcv_queue, given what the two hold.
MoveToQueue(e, buf, queue) ==
  \E k \in 0..RcvWnd :
    LET nxt == rcv_nxt[e]
    IN  /\ Movable(k, buf, nxt, RcvWnd - Len(queue))
        /\ rcv_queue' = [rcv_queue EXCEPT ![e] =
                           queue \o [i \in 1..k |-> buf[nxt + i - 1]]]
        /\ rcv_nxt' = [rcv_nxt EXCEPT ![e] = nxt + k]
        /\ rcv_buf' = [rcv_buf EXCEPT ![e] =
                         [n \in DOMAIN buf \ (nxt .. nxt + k - 1) |-> buf[n]]]

\* Mutant: peeksize does not wait for the last fragment.
MessageReadyEarly(queue) == queue # <<>>

\* Mutant: peeksize compares the fragments with <= instead of <.
MessageReadyLate(queue) == queue # <<>> /\ Len(queue) > queue[1].frg + 1

\* peeksize succeeds: the queue is not empty and, going by its first
\* fragment, holds a whole message.
MessageReady(queue) == queue # <<>> /\ Len(queue) >= queue[1].frg + 1

\* Mutant: recv copies the message and leaves it in the queue.
RecvPeek(e) ==
  /\ cursor[e] = {}
  /\ MessageReady(rcv_queue[e])
  /\ \E n \in 1..Len(rcv_queue[e]) :
       LET queue == rcv_queue[e]
       IN  /\ queue[n].frg = 0 \/ n = Len(queue)
           /\ \A i \in 1..(n - 1) : queue[i].frg # 0
           /\ got' = [got EXCEPT ![e] = @ \o SubSeq(queue, 1, n)]
           /\ MoveToQueue(e, rcv_buf[e], queue)
  /\ UNCHANGED <<sndVars, probeVars, sent, rmt_wnd, acklist, cursor, net>>

\* The application receives the next message: fragments up to the first with
\* frg = 0.  If the queue was full and is not any more, tell the peer.
Recv(e) ==
  /\ cursor[e] = {}
  /\ MessageReady(rcv_queue[e])
  /\ \E n \in 1..Len(rcv_queue[e]) :
       LET queue == rcv_queue[e]
       IN  /\ queue[n].frg = 0 \/ n = Len(queue)
           /\ \A i \in 1..(n - 1) : queue[i].frg # 0
           /\ got' = [got EXCEPT ![e] = @ \o SubSeq(queue, 1, n)]
           /\ MoveToQueue(e, rcv_buf[e], SubSeq(queue, n + 1, Len(queue)))
  /\ probe' = IF Len(rcv_queue[e]) >= RcvWnd /\ Len(rcv_queue'[e]) < RcvWnd
              THEN [probe EXCEPT ![e] = @ \cup {"TELL"}]
              ELSE probe
  /\ UNCHANGED <<sndVars, probe_wait, sent, rmt_wnd, acklist, cursor, net>>
----------------------------------------------------------------------------
(* input: a datagram of the network is parsed segment by segment *)

\* The socket has received datagram d and `input' is called with it.  The
\* network may keep a duplicate.
Input(e, d) ==
  /\ cursor[e] = {}
  /\ d \in net[e]
  /\ cursor' = [cursor EXCEPT ![e] = d]
  /\ \/ net' = [net EXCEPT ![e] = @ \ {d}]
     \/ net' = net
  /\ UNCHANGED <<sndVars, rcvVars, probeVars, histVars, rmt_wnd, acklist>>

\* s is the segment of datagram d that comes first.
First(s, d) ==
  \A t \in d \ {s} : t.cmd = "PUSH" /\ (s.cmd = "PUSH" => s.sn < t.sn)

\* shrink_buf: the first unacknowledged number, when `unacked' are left.
Front(unacked, nxt) == IF unacked = {} THEN nxt ELSE Min(unacked)

\* Mutant: una is taken as the last number received, not the next expected.
ParseAcksOffByOne(e, s) ==
  LET left == {n \in DOMAIN snd_buf[e] :
                 n > s.una /\ ~ (s.cmd = "ACK" /\ s.sn = n)}
  IN  /\ rmt_wnd' = [rmt_wnd EXCEPT ![e] = s.wnd]
      /\ snd_buf' = [snd_buf EXCEPT ![e] = [n \in left |-> snd_buf[e][n]]]
      /\ snd_una' = [snd_una EXCEPT ![e] = Front(left, snd_nxt[e])]
      /\ UNCHANGED <<snd_queue, snd_nxt>>

\* Mutant: snd_una is copied from the segment instead of from snd_buf.
ParseAcksStale(e, s) ==
  LET left == {n \in DOMAIN snd_buf[e] :
                 n >= s.una /\ ~ (s.cmd = "ACK" /\ s.sn = n)}
  IN  /\ rmt_wnd' = [rmt_wnd EXCEPT ![e] = s.wnd]
      /\ snd_buf' = [snd_buf EXCEPT ![e] = [n \in left |-> snd_buf[e][n]]]
      /\ snd_una' = [snd_una EXCEPT ![e] = s.una]
      /\ UNCHANGED <<snd_queue, snd_nxt>>

\* What every segment does to the sending side: it tells the peer's window
\* and acknowledges all numbers below una (parse_una, shrink_buf); an ACK
\* also acknowledges its own number (parse_ack, shrink_buf).
ParseAcks(e, s) ==
  LET una == {n \in DOMAIN snd_buf[e] : n >= s.una}
      acked == IF /\ s.cmd = "ACK"
                  /\ s.sn >= Front(una, snd_nxt[e])
                  /\ s.sn < snd_nxt[e]
               THEN {s.sn}
               ELSE {}
      left == una \ acked
  IN  /\ rmt_wnd' = [rmt_wnd EXCEPT ![e] = s.wnd]
      /\ snd_buf' = [snd_buf EXCEPT ![e] = [n \in left |-> snd_buf[e][n]]]
      /\ snd_una' = [snd_una EXCEPT ![e] = Front(left, snd_nxt[e])]
      /\ UNCHANGED <<snd_queue, snd_nxt>>

\* An ACK, or a WINS ("do nothing").
InputAckOrWins(e) ==
  \E s \in cursor[e] :
    /\ First(s, cursor[e])
    /\ s.cmd \in {"ACK", "WINS"}
    /\ ParseAcks(e, s)
    /\ cursor' = [cursor EXCEPT ![e] = @ \ {s}]
    /\ UNCHANGED <<rcvVars, probeVars, histVars, acklist, net>>

\* The peer asks for the window: tell it in the next flush.
InputWask(e) ==
  \E s \in cursor[e] :
    /\ First(s, cursor[e])
    /\ s.cmd = "WASK"
    /\ ParseAcks(e, s)
    /\ probe' = [probe EXCEPT ![e] = @ \cup {"TELL"}]
    /\ cursor' = [cursor EXCEPT ![e] = @ \ {s}]
    /\ UNCHANGED <<rcvVars, probe_wait, histVars, acklist, net>>

\* Mutant: an old segment is stored again (no lower bound on sn).
InputPushOld(e) ==
  \E s \in cursor[e] :
    /\ First(s, cursor[e])
    /\ s.cmd = "PUSH"
    /\ s.sn < rcv_nxt[e] + RcvWnd
    /\ ParseAcks(e, s)
    /\ acklist' = [acklist EXCEPT ![e] = @ \cup {s.sn}]
    /\ MoveToQueue(e,
                   [n \in DOMAIN rcv_buf[e] \cup {s.sn} |->
                      IF n \in DOMAIN rcv_buf[e] THEN rcv_buf[e][n] ELSE s.data],
                   rcv_queue[e])
    /\ cursor' = [cursor EXCEPT ![e] = @ \ {s}]
    /\ UNCHANGED <<probeVars, histVars, net>>

\* A PUSH inside the receive window: acknowledge it and parse_data, which
\* ignores a repeat.
InputPush(e) ==
  \E s \in cursor[e] :
    /\ First(s, cursor[e])
    /\ s.cmd = "PUSH"
    /\ s.sn < rcv_nxt[e] + RcvWnd
    /\ s.sn >= rcv_nxt[e]
    /\ ParseAcks(e, s)
    /\ acklist' = [acklist EXCEPT ![e] = @ \cup {s.sn}]
    /\ MoveToQueue(e,
                   [n \in DOMAIN rcv_buf[e] \cup {s.sn} |->
                      IF n \in DOMAIN rcv_buf[e] THEN rcv_buf[e][n] ELSE s.data],
                   rcv_queue[e])
    /\ cursor' = [cursor EXCEPT ![e] = @ \ {s}]
    /\ UNCHANGED <<probeVars, histVars, net>>

\* Mutant: a segment beyond the window is acknowledged like an old one.
InputStalePushAcked(e) ==
  \E s \in cursor[e] :
    /\ First(s, cursor[e])
    /\ s.cmd = "PUSH"
    /\ s.sn < rcv_nxt[e] \/ s.sn >= rcv_nxt[e] + RcvWnd
    /\ ParseAcks(e, s)
    /\ acklist' = [acklist EXCEPT ![e] = @ \cup {s.sn}]
    /\ cursor' = [cursor EXCEPT ![e] = {}]
    /\ UNCHANGED <<rcvVars, probeVars, histVars, net>>

\* A PUSH outside the window: acknowledged if it is old, ignored if it is too
\* new.  Its payload is not read from the cursor, so the loop takes it for the
\* next header and gives up: the rest of the datagram is dropped.
InputStalePush(e) ==
  \E s \in cursor[e] :
    /\ First(s, cursor[e])
    /\ s.cmd = "PUSH"
    /\ s.sn < rcv_nxt[e] \/ s.sn >= rcv_nxt[e] + RcvWnd
    /\ ParseAcks(e, s)
    /\ acklist' = IF s.sn < rcv_nxt[e] + RcvWnd
                  THEN [acklist EXCEPT ![e] = @ \cup {s.sn}]
                  ELSE acklist
    /\ cursor' = [cursor EXCEPT ![e] = {}]
    /\ UNCHANGED <<rcvVars, probeVars, histVars, net>>
----------------------------------------------------------------------------
(* flush: acknowledgements, window probes, new and overdue segments *)

\* Mutant: the window is one short, and below zero when the queue is full.
WndUnusedShort(e) == RcvWnd - Len(rcv_queue[e]) - 1

\* wnd_unused: the room in rcv_queue.
WndUnused(e) == Greater(RcvWnd - Len(rcv_queue[e]), 0)

\* A segment e sends now.
Seg(e, cmd, sn, data) ==
  [cmd |-> cmd, wnd |-> WndUnused(e), una |-> rcv_nxt[e], sn |-> sn, data |-> data]

Acks(e) == {Seg(e, "ACK", n, NoData) : n \in acklist[e]}

\* Mutant: the probe timer expires but no probe is sent.
AsksNever(e, expired) == probe[e]

\* The probes to send: KCP_ASK_SEND is raised when the remote window is zero,
\* the probe timer was armed by an earlier flush and has expired.
Asks(e, expired) ==
  IF rmt_wnd[e] = 0 /\ probe_wait[e] /\ expired
  THEN probe[e] \cup {"SEND"}
  ELSE probe[e]

Probes(e, asks) ==
  (IF "SEND" \in asks THEN {Seg(e, "WASK", 0, NoData)} ELSE {})
    \cup (IF "TELL" \in asks THEN {Seg(e, "WINS", 0, NoData)} ELSE {})

\* The control segment that is still in the output buffer when the data
\* segments are written: the last one encoded.
LastControl(control) ==
  {c \in control :
     CASE c.cmd = "WINS" -> TRUE
       [] c.cmd = "WASK" -> \A d \in control : d.cmd # "WINS"
       [] OTHER -> \A d \in control : d.cmd = "ACK"}

\* The PUSH segments from number `from' to the next cut.
Run(push, cuts, from) ==
  {p \in push : p.sn >= from /\ \A c \in cuts : c > from => p.sn < c}

\* How the output buffer cuts the segments into datagrams.  A control segment
\* always finds the buffer full and starts a new datagram; the first data
\* segment is appended to the last control segment; a later one starts a new
\* datagram unless it is longer than all that is buffered, so the cuts depend
\* on the lengths of the data.
Datagrams(control, last, push, cuts) ==
  ({{c} : c \in control \ last}
    \cup {last \cup Run(push, cuts, 0)}
    \cup {Run(push, cuts, c) : c \in cuts}) \ {{}}

\* Send `out' to the peer; the network may lose any of it.
Transmit(e, out) ==
  \E kept \in SUBSET out :
    /\ Cardinality(net[Peer(e)] \cup kept) <= MaxNet[Peer(e)]
    /\ net' = [net EXCEPT ![Peer(e)] = @ \cup kept]

\* Mutant: the window is counted from snd_nxt.
AdmittedFromNxt(e, cwnd) == Lesser(Len(snd_queue[e]), cwnd)

\* The number of segments the window lets into snd_buf.
Admitted(e, cwnd) ==
  Lesser(Len(snd_queue[e]), Greater(snd_una[e] + cwnd - snd_nxt[e], 0))

\* One call of flush in which the segments `resend' are overdue (or resent
\* early, after `fastresend' duplicate acknowledgements).
Flush(e, resend, expired) ==
  /\ cursor[e] = {}
  /\ resend \subseteq DOMAIN snd_buf[e]
  /\ LET window == Lesser(SndWnd, rmt_wnd[e])
         asks == Asks(e, expired)
         control == Acks(e) \cup Probes(e, asks)
     IN  \E cwnd \in IF NoCwnd THEN {window} ELSE 0..window :
           LET count == Admitted(e, cwnd)
               new == snd_nxt[e] .. snd_nxt[e] + count - 1
               buf == [n \in DOMAIN snd_buf[e] \cup new |->
                         IF n \in new
                         THEN snd_queue[e][n - snd_nxt[e] + 1]
                         ELSE snd_buf[e][n]]
               push == {Seg(e, "PUSH", n, buf[n]) : n \in new \cup resend}
           IN  /\ snd_buf' = [snd_buf EXCEPT ![e] = buf]
               /\ snd_nxt' = [snd_nxt EXCEPT ![e] = @ + count]
               /\ snd_queue' = [snd_queue EXCEPT ![e] =
                                  SubSeq(@, count + 1, Len(@))]
               /\ \E last \in SUBSET LastControl(control) :
                    /\ Cardinality(last) <= 1
                    /\ last = {} => control = {}
                    /\ \E cuts \in SUBSET {n \in new \cup resend :
                                             \E m \in new \cup resend : m < n} :
                         Transmit(e, Datagrams(control, last, push, cuts))
  /\ acklist' = [acklist EXCEPT ![e] = {}]
  /\ probe' = [probe EXCEPT ![e] = {}]
  /\ probe_wait' = [probe_wait EXCEPT ![e] = (rmt_wnd[e] = 0)]
  /\ UNCHANGED <<snd_una, rcvVars, histVars, rmt_wnd, cursor>>

\* flush awaits the socket inside its loops, and the poll functions of
\* KcpStream drop the future when the socket is not ready.  Dropped in the
\* loop over acklist, some acknowledgements are out and the list is kept.
FlushDroppedAtAck(e) ==
  /\ cursor[e] = {}
  /\ acklist[e] # {}
  /\ Transmit(e, {{a} : a \in Acks(e)})
  /\ UNCHANGED <<sndVars, rcvVars, probeVars, histVars, rmt_wnd, acklist, cursor>>

\* Dropped while writing a probe, acklist is cleared and the probes are kept.
FlushDroppedAtProbe(e, expired) ==
  /\ cursor[e] = {}
  /\ Asks(e, expired) # {}
  /\ Transmit(e, {{s} : s \in Acks(e) \cup Probes(e, Asks(e, expired))})
  /\ acklist' = [acklist EXCEPT ![e] = {}]
  /\ probe' = [probe EXCEPT ![e] = Asks(e, expired)]
  /\ probe_wait' = [probe_wait EXCEPT ![e] = (rmt_wnd[e] = 0)]
  /\ UNCHANGED <<sndVars, rcvVars, histVars, rmt_wnd, cursor>>
----------------------------------------------------------------------------
Next ==
  \E e \in Endpoint :
    \/ \E count \in FragCounts : Send(e, count)
    \/ Recv(e)
    \/ \E d \in net[e] : Input(e, d)
    \/ InputAckOrWins(e)
    \/ InputWask(e)
    \/ InputPush(e)
    \/ InputStalePush(e)
    \/ \E resend \in SUBSET DOMAIN snd_buf[e], expired \in BOOLEAN :
         Flush(e, resend, expired)
    \/ FlushDroppedAtAck(e)
    \/ \E expired \in BOOLEAN : FlushDroppedAtProbe(e, expired)

Spec == Init /\ [][Next]_vars
----------------------------------------------------------------------------
(* Safety *)

\* What recv has returned at e is a prefix of what its peer's application
\* sent: no fragment is lost, repeated, reordered or altered on the way
\* through snd_queue, snd_buf, the network, rcv_buf and rcv_queue.
InOrderDelivery ==
  \A e \in Endpoint :
    /\ Len(got[e]) <= Len(sent[Peer(e)])
    /\ \A i \in 1..Len(got[e]) : got[e][i] = sent[Peer(e)][i]

\* recv returns whole messages: it never stops inside one.
WholeMessages ==
  \A e \in Endpoint : got[e] # <<>> => got[e][Len(got[e])].frg = 0

\* The sequence numbers the control block of e has received.
Received(e) == 0 .. rcv_nxt[e] - 1 \cup DOMAIN rcv_buf[e]

\* A segment that the sender has dropped from snd_buf (parse_ack, parse_una)
\* is in the receiver's hands: otherwise nobody would ever send it again.
NothingForgotten ==
  \A e \in Endpoint :
    \A n \in 0 .. snd_nxt[e] - 1 :
      n \in DOMAIN snd_buf[e] \/ n \in Received(Peer(e))

\* The receive side stays inside its window, and the segment rcv_queue waits
\* for is never left behind in rcv_buf while there is room in the queue.
ReceiveWindow ==
  \A e \in Endpoint :
    /\ Len(rcv_queue[e]) <= RcvWnd
    /\ DOMAIN rcv_buf[e] \subseteq rcv_nxt[e] .. rcv_nxt[e] + RcvWnd - 1
    /\ rcv_nxt[e] \in DOMAIN rcv_buf[e] => Len(rcv_queue[e]) = RcvWnd

\* The send side never has more than snd_wnd numbers outstanding, and snd_una
\* is the oldest of them.
SendWindow ==
  \A e \in Endpoint :
    /\ snd_una[e] = Front(DOMAIN snd_buf[e], snd_nxt[e])
    /\ DOMAIN snd_buf[e] \subseteq snd_una[e] .. snd_nxt[e] - 1
    /\ snd_nxt[e] - snd_una[e] <= SndWnd

\* recv's Err asks to try again: when the queue is full, so that nothing more
\* can enter it before recv succeeds, it holds a whole message.
RecvNotWedged ==
  \A e \in Endpoint :
    Len(rcv_queue[e]) >= RcvWnd => MessageReady(rcv_queue[e])

\* An acknowledged number stays acknowledged: snd_una and rcv_nxt never move
\* back, whatever stale acknowledgements arrive.
Monotone ==
  [][\A e \in Endpoint : snd_una'[e] >= snd_una[e] /\ rcv_nxt'[e] >= rcv_nxt[e]]_vars
----------------------------------------------------------------------------
(* The inductive invariant behind the safety properties *)

\* snd_queue and snd_buf hold what the application sent, at its place.
SendStream(e) ==
  /\ snd_nxt[e] + Len(snd_queue[e]) = Len(sent[e])
  /\ \A i \in 1..Len(snd_queue[e]) : snd_queue[e][i] = sent[e][snd_nxt[e] + i]
  /\ \A n \in DOMAIN snd_buf[e] :
       n < snd_nxt[e] /\ snd_buf[e][n] = sent[e][n + 1]

\* got, then rcv_queue, then rcv_buf hold what the peer sent, at its place.
RecvStream(e) ==
  /\ rcv_nxt[e] = Len(got[e]) + Len(rcv_queue[e])
  /\ rcv_nxt[e] <= snd_nxt[Peer(e)]
  /\ \A i \in 1..Len(got[e]) : got[e][i] = sent[Peer(e)][i]
  /\ \A i \in 1..Len(rcv_queue[e]) :
       rcv_queue[e][i] = sent[Peer(e)][Len(got[e]) + i]
  /\ \A n \in DOMAIN rcv_buf[e] :
       n < snd_nxt[Peer(e)] /\ rcv_buf[e][n] = sent[Peer(e)][n + 1]

\* A segment on its way to e says nothing of its sender that is not true now.
Truthful(e, s) ==
  /\ s.una <= rcv_nxt[Peer(e)]
  /\ s.cmd = "ACK" => s.sn \in Received(Peer(e))
  /\ s.cmd = "PUSH" => s.sn < snd_nxt[Peer(e)] /\ s.data = sent[Peer(e)][s.sn + 1]

\* The frg of a fragment says how many more of its message follow.
Framed(stream) ==
  \A i \in 1..Len(stream) :
    /\ i + stream[i].frg <= Len(stream)
    /\ \A j \in i..(i + stream[i].frg) : stream[j].frg = stream[i].frg - (j - i)

\* All of it together, for both directions: every copy of a fragment, in a
\* queue, a buffer or a datagram, is the fragment its sequence number stands
\* for, and every acknowledgement in preparation or under way is of a segment
\* that was received.
StreamInv ==
  /\ \A e \in Endpoint :
       /\ SendStream(e)
       /\ RecvStream(e)
       /\ Framed(sent[e])
       /\ acklist[e] \subseteq Received(e)
       /\ \A s \in cursor[e] : Truthful(e, s)
       /\ \A d \in net[e] : \A s \in d : Truthful(e, s)
  /\ NothingForgotten
  /\ WholeMessages
----------------------------------------------------------------------------
(* Refinement and liveness *)

Channel == INSTANCE MessageChannel WITH sent <- sent, got <- got

\* The two control blocks over a lossy network implement the reliable channel:
\* every step of theirs sends a message, delivers the next whole message to
\* the application, or changes nothing an application can see.
ImplementsChannel == Channel!Spec

\* A flush that resends the oldest unacknowledged segment, if there is one,
\* and whose first datagram after the lone control segments gets through.
FlushHeard(e) ==
  /\ \E resend \in SUBSET DOMAIN snd_buf[e] :
       /\ snd_una[e] \in DOMAIN snd_buf[e] => snd_una[e] \in resend
       /\ Flush(e, resend, TRUE)
  /\ \E d \in net'[Peer(e)] :
       /\ net[Peer(e)] # net'[Peer(e)]
       /\ snd_una[e] < snd_nxt'[e] =>
            \E s \in d : s.cmd = "PUSH" /\ s.sn = snd_una[e]
       /\ \A s \in d : s.una = rcv_nxt[e] /\ s.wnd = WndUnused(e)
       /\ Asks(e, TRUE) # {} => \E s \in d : s.cmd \in {"WASK", "WINS"}

\* A datagram reaches the socket and the network keeps no duplicate of it.
InputTaken(e) ==
  /\ \E d \in net[e] : Input(e, d)
  /\ net' # net

\* The callers keep the contract of the doc comments: they call update
\* repeatedly, hand every datagram to input (which runs to its end) and call
\* recv while it has a message; the network does not lose every datagram.
Fairness ==
  \A e \in Endpoint :
    /\ SF_vars(Recv(e))
    /\ SF_vars(InputTaken(e))
    /\ WF_vars(InputAckOrWins(e) \/ InputWask(e) \/ InputPush(e) \/ InputStalePush(e))
    /\ SF_vars(Flush(e, DOMAIN snd_buf[e], TRUE))
    /\ SF_vars(FlushHeard(e))

FairSpec == Spec /\ Fairness

\* Every message that send accepts is eventually returned by the peer's recv,
\* in spite of lost, repeated and reordered datagrams, a window that closes,
\* and a window update or an acknowledgement that is lost.
EventualDelivery == Channel!Delivery
=============================================================================
