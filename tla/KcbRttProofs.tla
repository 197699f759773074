--------------------------- MODULE KcbRttProofs ---------------------------
(***************************************************************************)
(* The round-trip estimate keeps its bounds and never overflows.           *)
(***************************************************************************)
EXTENDS KcbRtt, TLAPS

\* Both averages stay inside the range of what they average.
LEMMA AveragesBounded ==
  ASSUME TypeOK, NEW rtt \in 0..MaxRtt
  PROVE  /\ rtt \div 2 \in 0..MaxRtt
         /\ Variation(rtt) \in 0..MaxRtt
         /\ rx_srtt # 0 => Smoothed(rtt) \in 0..MaxRtt
<1>1. MaxRtt \in Nat
  BY RttAssumption
<1>2. rx_srtt \in 0..MaxRtt /\ rx_rttval \in 0..MaxRtt
  BY DEF TypeOK
<1>3. Distance(rtt, rx_srtt) \in 0..MaxRtt
  BY <1>1, <1>2 DEF Distance
<1>4. Variation(rtt) \in 0..MaxRtt
  BY <1>1, <1>2, <1>3 DEF Variation
<1>5. rx_srtt # 0 => Smoothed(rtt) \in 0..MaxRtt
  BY <1>1, <1>2 DEF Smoothed, Greater
<1> QED BY <1>1, <1>4, <1>5

\* A bounded value lies between its bounds.
LEMMA BoundInRange ==
  ASSUME NEW lower \in Int, NEW upper \in Int, NEW v \in Int, lower <= upper
  PROVE  Bound(lower, v, upper) \in lower..upper
BY DEF Bound, Lesser, Greater

LEMMA TypeInit == Init => TypeOK
BY RttAssumption, IntervalAssumption, RtoAssumption DEF Init, TypeOK

LEMMA TypeStep == TypeOK /\ [Next]_vars => TypeOK'
<1> SUFFICES ASSUME TypeOK, [Next]_vars PROVE TypeOK'
  OBVIOUS
<1>1. ASSUME NEW rtt \in Rtts, UpdateAck(rtt) PROVE TypeOK'
  <2>1. rtt \in 0..MaxRtt
    BY <1>1, RttAssumption
  <2>2. rx_srtt' \in 0..MaxRtt /\ rx_rttval' \in 0..MaxRtt
    BY <1>1, <2>1, AveragesBounded DEF UpdateAck
  <2>3. rx_rto' \in rx_minrto..RtoMax
    <3> DEFINE v == rx_srtt' + Greater(interval, 4 * rx_rttval')
    <3>1. v \in Int
      <4>1. rx_srtt' \in Int /\ 4 * rx_rttval' \in Int /\ interval \in Int
        BY <2>2, RttAssumption, IntervalAssumption DEF TypeOK
      <4> QED BY <4>1 DEF Greater
    <3>2. rx_minrto \in Int /\ RtoMax \in Int /\ rx_minrto <= RtoMax
      BY RtoAssumption DEF TypeOK
    <3>3. rx_rto' = Bound(rx_minrto, v, RtoMax)
      BY <1>1 DEF UpdateAck, Timeout
    <3> HIDE DEF v
    <3> QED BY <3>1, <3>2, <3>3, BoundInRange
  <2>4. rx_rto' \in RtoNdl..RtoMax
    BY <2>3, RtoAssumption DEF TypeOK
  <2> QED BY <1>1, <2>2, <2>4 DEF UpdateAck, TypeOK
<1>2. ASSUME NEW rtt \in Rtts, Settle(rtt) PROVE TypeOK'
  BY <1>2 DEF Settle, TypeOK
<1>3. ASSUME NEW fast \in BOOLEAN, NEW iv \in Intervals, Nodelay(fast, iv)
      PROVE  TypeOK'
  <2>1. iv \in Int
    BY RttAssumption
  <2>2. Clamped(iv) \in MinInterval..MaxInterval
    <3>1. /\ MinInterval \in Int /\ MaxInterval \in Int
          /\ MinInterval <= MaxInterval
      BY IntervalAssumption
    <3> QED BY <2>1, <3>1, BoundInRange DEF Clamped
  <2>3. interval' \in MinInterval..MaxInterval
    BY <1>3, <2>2 DEF Nodelay, TypeOK
  <2>4. rx_minrto' \in {RtoNdl, RtoMin}
    BY <1>3 DEF Nodelay, TypeOK
  <2> QED BY <1>3, <2>3, <2>4 DEF Nodelay, TypeOK
<1>4. CASE UNCHANGED vars
  BY <1>4 DEF vars, TypeOK
<1> QED BY <1>1, <1>2, <1>3, <1>4 DEF Next

\* Types and ranges, for update_ack and nodelay with any arguments: the
\* timeout stays between KCP_RTO_NDL and KCP_RTO_MAX, the averages within
\* the round trips seen.
THEOREM TypeCorrect == Spec => []TypeOK
BY TypeInit, TypeStep, PTL DEF Spec

\* Within those ranges the arithmetic of update_ack fits its integers.
LEMMA RangesFit == TypeOK => NoOverflow
<1> SUFFICES ASSUME TypeOK, NEW rtt \in steady
             PROVE  /\ 7 * rx_srtt + rtt < Width
                    /\ 3 * rx_rttval + Distance(rtt, rx_srtt) < Width
                    /\ rx_srtt + Greater(interval, 4 * rx_rttval) < Width
  BY DEF NoOverflow
<1>1. rtt \in 0..MaxRtt /\ MaxRtt \in Nat
  BY RttAssumption DEF TypeOK
<1>2. /\ rx_srtt \in 0..MaxRtt
      /\ rx_rttval \in 0..MaxRtt
      /\ interval \in MinInterval..MaxInterval
  BY DEF TypeOK
<1>3. Distance(rtt, rx_srtt) \in 0..MaxRtt
  BY <1>1, <1>2 DEF Distance
<1> QED BY <1>1, <1>2, <1>3, WidthAssumption, IntervalAssumption DEF Greater

\* Round trips below an eighth of the integer range never overflow the
\* arithmetic of update_ack, in any order and number.
THEOREM NeverOverflows == Spec => []NoOverflow
BY TypeCorrect, RangesFit, PTL
=============================================================================
