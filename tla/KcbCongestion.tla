---------------------------- MODULE KcbCongestion ----------------------------
(***************************************************************************)
(* Congestion control of a KCP control block (src/kcp/kcb.rs): the tail of *)
(* input, parse_fastack, and what flush makes of lost segments.            *)
(*                                                                         *)
(* The peer is what its acknowledgements say: any set of numbers, in any   *)
(* order and again.  Sequence numbers are counted from snd_una; time is    *)
(* left out, so that flush may find any segment overdue.  Every stream of  *)
(* the repository passes nc = true to nodelay: cwnd is then computed as    *)
(* here, and not used (NoCwnd).                                            *)
(***************************************************************************)
EXTENDS Integers, FiniteSets, FiniteSetsExt

CONSTANTS
  Mss,         \* mss: payload bytes of a segment
  SndWnd,      \* snd_wnd
  Windows,     \* the windows the peer tells
  FastResend,  \* fastresend: skipped this often, a segment is sent again
  NoCwnd       \* nocwnd

\* KCP_THRESH_INIT and KCP_THRESH_MIN
ThreshInit == 2
ThreshMin == 2

\* setmtu refuses an mtu below 50, which leaves 26 bytes.
ASSUME MssAssumption == Mss \in Nat /\ Mss >= 26
\* A window is told in 16 bits.
ASSUME WindowsAssumption ==
  /\ SndWnd \in Nat \ {0}
  /\ \A wnd \in Windows : wnd \in Nat /\ wnd < 65536
  /\ FastResend \in Nat
  /\ NoCwnd \in BOOLEAN

VARIABLES
  snd_buf,   \* fastack of the unacknowledged segments, counted from snd_una
  inflight,  \* snd_nxt - snd_una
  rmt_wnd,   \* the receive window the peer last told
  cwnd,      \* congestion window, in segments
  ssthresh,  \* where slow start ends
  incr,      \* congestion window, in bytes
  calm       \* has the network stopped to lose segments?

vars == <<snd_buf, inflight, rmt_wnd, cwnd, ssthresh, incr, calm>>

\* cwnd is below the largest window told, or what a fast resend has left.
TypeOK ==
  /\ inflight \in 0..SndWnd
  /\ DOMAIN snd_buf \subseteq 0..(inflight - 1)
  /\ \A n \in DOMAIN snd_buf : snd_buf[n] \in 0..FastResend
  /\ inflight > 0 => 0 \in DOMAIN snd_buf
  /\ rmt_wnd \in Windows
  /\ cwnd \in 0..Max(Windows \cup {Max({ThreshMin, SndWnd \div 2}) + FastResend})
  /\ ssthresh \in ThreshMin..Max({ThreshMin, SndWnd})
  /\ calm \in BOOLEAN

Init ==
  /\ snd_buf = <<>>
  /\ inflight = 0
  /\ rmt_wnd \in Windows
  /\ cwnd = 0
  /\ ssthresh = ThreshInit
  /\ incr = 0
  /\ calm = FALSE
----------------------------------------------------------------------------
(* input *)

\* parse_fastack: the segments before the largest number acknowledged have
\* been skipped once more.  (Counts beyond FastResend do what it does.)
Skipped(buf, acks, n) ==
  IF acks # {} /\ n < Max(acks) THEN Min({buf[n] + 1, FastResend}) ELSE buf[n]

\* Mutant: there is no growth beyond slow start.
GrownSlowly(wnd) ==
  IF cwnd < wnd /\ cwnd < ssthresh THEN [cwnd |-> cwnd + 1, incr |-> incr + Mss]
  ELSE [cwnd |-> cwnd, incr |-> incr]

\* Mutant: the peer's window does not end the growth.
GrownEver(wnd) ==
  LET bytes == Max({incr, Mss})
      more == bytes + (Mss * Mss) \div bytes + Mss \div 16
  IN  IF cwnd < ssthresh THEN [cwnd |-> cwnd + 1, incr |-> incr + Mss]
      ELSE [cwnd |-> IF (cwnd + 1) * Mss <= more THEN cwnd + 1 ELSE cwnd,
            incr |-> more]

\* cwnd and incr after an acknowledgement of the oldest segment: a segment
\* more in slow start, about a segment more per window after it.
Grown(wnd) ==
  LET bytes == Max({incr, Mss})
      more == bytes + (Mss * Mss) \div bytes + Mss \div 16
  IN  IF cwnd >= wnd THEN [cwnd |-> cwnd, incr |-> incr]
      ELSE IF cwnd < ssthresh THEN [cwnd |-> cwnd + 1, incr |-> incr + Mss]
      ELSE [cwnd |-> IF (cwnd + 1) * Mss <= more THEN cwnd + 1 ELSE cwnd,
            incr |-> more]

\* A datagram acknowledges the numbers below una and those in `acks', and
\* tells the window.  If input meets an error in it (it was cut, or has a PUSH
\* that is not taken), what comes before the error counts, but the tail of
\* input is not reached.
Input(una, acks, wnd, whole) ==
  LET left == {n \in DOMAIN snd_buf : n >= una /\ n \notin acks}
      front == IF left = {} THEN inflight ELSE Min(left)
      grown == Grown(wnd)
  IN  /\ rmt_wnd' = wnd
      /\ inflight' = inflight - front
      /\ snd_buf' = [n \in {m - front : m \in left} |->
                       Skipped(snd_buf, IF whole THEN acks ELSE {}, n + front)]
      /\ IF front > 0 /\ whole
         THEN cwnd' = grown.cwnd /\ incr' = grown.incr
         ELSE UNCHANGED <<cwnd, incr>>
      /\ UNCHANGED <<ssthresh, calm>>
----------------------------------------------------------------------------
(* flush *)

\* The window flush fills.
Window ==
  Min({SndWnd, rmt_wnd} \cup IF NoCwnd THEN {} ELSE {cwnd})

\* Segments flush sends again early.
Early(overdue) ==
  {n \in DOMAIN snd_buf \ overdue : FastResend > 0 /\ snd_buf[n] >= FastResend}

\* Mutant: incr is left as it was.
AfterFlushBytes(overdue, sent) ==
  IF overdue # {}
  THEN [ssthresh |-> Max({Window \div 2, ThreshMin}), cwnd |-> 1, incr |-> incr]
  ELSE IF Early(overdue) # {}
  THEN LET half == Max({(inflight + sent) \div 2, ThreshMin})
       IN  [ssthresh |-> half, cwnd |-> half + FastResend,
            incr |-> (half + FastResend) * Mss]
  ELSE [ssthresh |-> ssthresh, cwnd |-> Max({cwnd, 1}),
        incr |-> IF cwnd < 1 THEN Mss ELSE incr]

\* What flush leaves: after a timeout a window of one segment, after an early
\* resend half of what is in flight and a little more; never an empty window.
\* (A timeout overrides an early resend in the same flush.)
AfterFlush(overdue, sent) ==
  IF overdue # {}
  THEN [ssthresh |-> Max({Window \div 2, ThreshMin}), cwnd |-> 1, incr |-> Mss]
  ELSE IF Early(overdue) # {}
  THEN LET half == Max({(inflight + sent) \div 2, ThreshMin})
       IN  [ssthresh |-> half, cwnd |-> half + FastResend,
            incr |-> (half + FastResend) * Mss]
  ELSE [ssthresh |-> ssthresh, cwnd |-> Max({cwnd, 1}),
        incr |-> IF cwnd < 1 THEN Mss ELSE incr]

\* flush sends `sent' new segments, as far as the window and the queue allow,
\* and again those that are overdue or have been skipped too often.
Flush(sent, overdue) ==
  LET after == AfterFlush(overdue, sent)
  IN  /\ sent <= Max({Window - inflight, 0})
      /\ inflight' = inflight + sent
      /\ snd_buf' = [n \in DOMAIN snd_buf \cup inflight..(inflight + sent - 1) |->
                       IF n >= inflight \/ n \in Early(overdue) THEN 0
                       ELSE snd_buf[n]]
      /\ cwnd' = after.cwnd
      /\ ssthresh' = after.ssthresh
      /\ incr' = after.incr
      /\ UNCHANGED <<rmt_wnd, calm>>

\* From now on nothing is lost or reordered, and the peer's window stays open.
Calm ==
  /\ rmt_wnd = Max(Windows)
  /\ calm' = TRUE
  /\ UNCHANGED <<snd_buf, inflight, rmt_wnd, cwnd, ssthresh, incr>>

Next ==
  \/ \E una \in 0..inflight, acks \in SUBSET (0..(inflight - 1)), wnd \in Windows,
        whole \in BOOLEAN :
       /\ calm => acks = {} /\ wnd = rmt_wnd /\ whole
       /\ Input(una, acks, wnd, whole)
  \/ \E sent \in 0..SndWnd, overdue \in SUBSET DOMAIN snd_buf :
       /\ calm => overdue = {}
       /\ Flush(sent, overdue)
  \/ Calm

Spec == Init /\ [][Next]_vars

\* There is data to send, flush is called, and the peer answers.
FairSpec ==
  /\ Spec
  /\ WF_vars(\E sent \in 1..SndWnd : Flush(sent, {}))
  /\ WF_vars(Flush(0, {}))
  /\ WF_vars(\E una \in 1..inflight : Input(una, {}, rmt_wnd, TRUE))
----------------------------------------------------------------------------
\* incr is cwnd in bytes, to less than a segment, in spite of the divisions
\* and of the places where one of them is set without the other in sight:
\* cwnd grows neither early nor late.
IncrAgrees == cwnd * Mss <= incr /\ incr < (cwnd + 1) * Mss

\* Once the network is calm the congestion window grows until it is not what
\* limits the sender, however often it has been cut before.
WindowOpens == <>[]calm => <>[](cwnd >= rmt_wnd)
=============================================================================
