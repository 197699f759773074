------------------------------- MODULE KcbRtt -------------------------------
(***************************************************************************)
(* The round-trip estimate of a KCP control block (src/kcp/kcb.rs,         *)
(* update_ack and nodelay): integer averages that truncate, from which the *)
(* retransmission timeout rx_rto is taken.                                 *)
(*                                                                         *)
(* At first the network's round trips are arbitrary and the application    *)
(* may call nodelay; from some moment on the network is steady.            *)
(***************************************************************************)
EXTENDS Integers

CONSTANTS
  Rtts,         \* the round trips the network can have
  MaxRtt,       \* the longest of them
  Intervals,    \* the arguments nodelay is called with
  MinInterval,  \* nodelay's bounds for interval (10 and 5000)
  MaxInterval,
  DefInterval,  \* KCP_INTERVAL
  RtoNdl,       \* KCP_RTO_NDL
  RtoMin,       \* KCP_RTO_MIN
  RtoDef,       \* KCP_RTO_DEF
  RtoMax,       \* KCP_RTO_MAX
  Width         \* integers are smaller than this (2^32)

ASSUME RttAssumption ==
  /\ MaxRtt \in Nat /\ Rtts \subseteq 0..MaxRtt
  /\ Intervals \subseteq Int
ASSUME IntervalAssumption ==
  /\ MinInterval \in Nat \ 0..7
  /\ MaxInterval \in Nat /\ MinInterval <= MaxInterval
  /\ DefInterval \in MinInterval..MaxInterval
ASSUME RtoAssumption ==
  /\ {RtoNdl, RtoMin, RtoDef, RtoMax} \subseteq Nat
  /\ RtoNdl <= RtoMin /\ RtoMin <= RtoDef /\ RtoDef <= RtoMax
\* Wide enough for the averages: a round trip of less than 2^29 ms.
ASSUME WidthAssumption ==
  Width \in Nat /\ 8 * MaxRtt < Width /\ MaxRtt + MaxInterval < Width

VARIABLES
  rx_srtt,     \* smoothed round trip; 0 before the first
  rx_rttval,   \* its variation
  rx_rto,      \* retransmission timeout
  rx_minrto,   \* its lower bound
  interval,    \* interval between flushes
  steady       \* the round trips the network can have from now on

vars == <<rx_srtt, rx_rttval, rx_rto, rx_minrto, interval, steady>>

TypeOK ==
  /\ rx_srtt \in 0..MaxRtt
  /\ rx_rttval \in 0..MaxRtt
  /\ rx_rto \in RtoNdl..RtoMax
  /\ rx_minrto \in {RtoNdl, RtoMin}
  /\ interval \in MinInterval..MaxInterval
  /\ steady \in SUBSET Rtts

Init ==
  /\ rx_srtt = 0
  /\ rx_rttval = 0
  /\ rx_rto = RtoDef
  /\ rx_minrto = RtoMin
  /\ interval = DefInterval
  /\ steady = Rtts
----------------------------------------------------------------------------
Lesser(a, b) == IF a <= b THEN a ELSE b
Greater(a, b) == IF a <= b THEN b ELSE a
Distance(a, b) == IF a <= b THEN b - a ELSE a - b

\* Mutant: the upper bound is left out.
BoundBelow(lower, v, upper) == Greater(lower, v)

Bound(lower, v, upper) == Lesser(Greater(lower, v), upper)

\* Mutant: the flush interval is not allowed for.
TimeoutBare(srtt, rttval) == Bound(rx_minrto, srtt + 4 * rttval, RtoMax)

\* The timeout for an estimate: the round trip, and its variation or the time
\* until the next flush.
Timeout(srtt, rttval) ==
  Bound(rx_minrto, srtt + Greater(interval, 4 * rttval), RtoMax)

\* Mutant: the variation is added up, not averaged.
VariationSum(rtt) == 3 * rx_rttval + Distance(rtt, rx_srtt)

\* Mutant: the largest variation is kept.
VariationPeak(rtt) == Greater(rx_rttval, Distance(rtt, rx_srtt))

\* The variation after a round trip of `rtt'.
Variation(rtt) == (3 * rx_rttval + Distance(rtt, rx_srtt)) \div 4

Smoothed(rtt) == Greater((7 * rx_srtt + rtt) \div 8, 1)

\* update_ack: an acknowledgement shows a round trip of `rtt'.
UpdateAck(rtt) ==
  /\ rtt \in steady
  /\ IF rx_srtt = 0
     THEN rx_srtt' = rtt /\ rx_rttval' = rtt \div 2
     ELSE rx_srtt' = Smoothed(rtt) /\ rx_rttval' = Variation(rtt)
  /\ rx_rto' = Timeout(rx_srtt', rx_rttval')
  /\ UNCHANGED <<rx_minrto, interval, steady>>

Clamped(iv) == Bound(MinInterval, iv, MaxInterval)

\* nodelay: a negative argument leaves the setting alone; rx_rto is not
\* computed anew.
Nodelay(fast, iv) ==
  /\ steady = Rtts
  /\ rx_minrto' \in {rx_minrto, IF fast THEN RtoNdl ELSE RtoMin}
  /\ interval' = IF iv >= 0 THEN Clamped(iv) ELSE interval
  /\ UNCHANGED <<rx_srtt, rx_rttval, rx_rto, steady>>

\* From now on every round trip takes `rtt'.
Settle(rtt) ==
  /\ steady = Rtts
  /\ steady' = {rtt}
  /\ UNCHANGED <<rx_srtt, rx_rttval, rx_rto, rx_minrto, interval>>

Next ==
  \/ \E rtt \in Rtts : UpdateAck(rtt) \/ Settle(rtt)
  \/ \E fast \in BOOLEAN, iv \in Intervals : Nodelay(fast, iv)

Spec == Init /\ [][Next]_vars

\* Acknowledgements keep arriving.
FairSpec == Spec /\ WF_vars(\E rtt \in Rtts : UpdateAck(rtt))
----------------------------------------------------------------------------
\* No intermediate result of update_ack is too large for its integer type,
\* whatever round trips follow each other: the averages do not creep up.
NoOverflow ==
  \A rtt \in steady :
    /\ 7 * rx_srtt + rtt < Width
    /\ 3 * rx_rttval + Distance(rtt, rx_srtt) < Width
    /\ rx_srtt + Greater(interval, 4 * rx_rttval) < Width

\* On a steady network the timeout ends up above the round trip, although
\* the truncated average stays up to 7 below it: segments are not sent again
\* while their acknowledgement is on its way.
NoSpuriousTimeout ==
  \A rtt \in Rtts : rtt < RtoMax =>
    (steady = {rtt}) ~> [](rx_rto > rtt)

\* On a steady network the timeout forgets the past: it ends up within a
\* flush interval, or the truncation of the averages, of the round trip.
TimeoutForgets ==
  \A rtt \in Rtts :
    (steady = {rtt}) ~>
      [](rx_rto <= Greater(rx_minrto, rtt + Greater(interval, 28)))
=============================================================================
