------------------------- MODULE KcbCongestionProofs -------------------------
(***************************************************************************)
(* The congestion window, for any segment size, any windows and any        *)
(* acknowledgements: it is always the same in bytes and in segments, and   *)
(* bounded by what the peer tells or a fast resend leaves.                 *)
(***************************************************************************)
EXTENDS KcbCongestion, WellFoundedInduction, TLAPS

LEMMA MinFacts ==
  ASSUME NEW S \in SUBSET Nat, S # {}
  PROVE  Min(S) \in S /\ \A n \in S : Min(S) <= n
<1>1. PICK m \in S : \A n \in S : ~ (<<n, m>> \in OpToRel(<, Nat))
  BY NatLessThanWellFounded, WFMin
<1>2. ASSUME NEW n \in S PROVE m <= n
  <2>1. ~ (n < m)
    BY <1>1 DEF OpToRel
  <2> QED BY <2>1
<1> QED BY <1>2 DEF Min

\* A set of naturals with a bound has a maximum: the least of its bounds.
LEMMA MaxFacts ==
  ASSUME NEW S \in SUBSET Nat, S # {}, NEW bound \in Nat, \A n \in S : n <= bound
  PROVE  Max(S) \in S /\ \A n \in S : n <= Max(S)
<1> DEFINE B == {b \in Nat : \A n \in S : n <= b}
<1>1. Min(B) \in B /\ \A b \in B : Min(B) <= b
  BY MinFacts
<1> DEFINE m == Min(B)
<1>2. m \in Nat /\ \A n \in S : n <= m
  BY <1>1
<1>3. m \in S
  <2>1. SUFFICES ASSUME m \notin S PROVE FALSE
    OBVIOUS
  <2> HIDE DEF m
  <2>2. \A n \in S : n \in Nat /\ n <= m /\ n # m
    BY <1>2, <2>1
  <2>3. m # 0
    <3>1. PICK n \in S : TRUE
      OBVIOUS
    <3> QED BY <1>2, <2>2, <3>1
  <2>4. \A n \in S : n <= m - 1
    BY <1>2, <2>2
  <2>5. m - 1 \in B
    BY <1>2, <2>3, <2>4
  <2>6. m <= m - 1
    BY <1>1, <2>5 DEF m
  <2> QED BY <1>2, <2>6
<1> HIDE DEF m
<1> QED BY <1>2, <1>3 DEF Max

LEMMA MaxOfTwo ==
  ASSUME NEW a \in Nat, NEW b \in Nat
  PROVE  /\ Max({a, b}) \in Nat /\ Max({a, b}) \in {a, b}
         /\ Max({a, b}) >= a /\ Max({a, b}) >= b
<1>1. \E n \in Nat : a <= n /\ b <= n
  <2>1. a + b \in Nat /\ a <= a + b /\ b <= a + b
    OBVIOUS
  <2> QED BY <2>1
<1>2. Max({a, b}) \in {a, b} /\ \A n \in {a, b} : n <= Max({a, b})
  BY <1>1, MaxFacts
<1> QED BY <1>2

(***************************************************************************)
(* The arithmetic of the window in bytes.                                  *)
(***************************************************************************)

LEMMA MssFacts == Mss \in Nat /\ Mss >= 26
BY MssAssumption

LEMMA WindowFacts ==
  /\ SndWnd \in Nat /\ SndWnd > 0 /\ FastResend \in Nat
  /\ \A wnd \in Windows : wnd \in Nat /\ wnd < 65536
BY WindowsAssumption

\* One segment more in the window is Mss bytes more.
LEMMA OneMore ==
  ASSUME NEW c \in Nat
  PROVE  (c + 1) * Mss = c * Mss + Mss /\ c * Mss \in Nat
BY MssFacts

\* What congestion avoidance adds for an acknowledgement is less than half a
\* segment and a sixteenth, once the window is two segments.
LEMMA Increment ==
  ASSUME NEW bytes \in Nat, bytes >= 2 * Mss
  PROVE  /\ (Mss * Mss) \div bytes + Mss \div 16 \in Nat
         /\ (Mss * Mss) \div bytes + Mss \div 16 < Mss
<1> DEFINE part == (Mss * Mss) \div bytes
           sixteenth == Mss \div 16
<1>1. bytes > 0 /\ Mss * Mss \in Nat
  BY MssFacts
<1>2. part \in Nat /\ part * bytes <= Mss * Mss
  BY <1>1
<1>3. sixteenth \in Nat /\ 16 * sixteenth <= Mss
  BY MssFacts
<1> HIDE DEF part, sixteenth
<1>4. 2 * part <= Mss
  <2>1. part * (2 * Mss) <= part * bytes
    BY <1>2, MssFacts
  <2>2. (2 * part) * Mss <= Mss * Mss
    BY <1>1, <1>2, <2>1, MssFacts
  <2> QED BY <1>2, <2>2, MssFacts
<1>5. part + sixteenth < Mss
  BY <1>2, <1>3, <1>4, MssFacts
<1> QED BY <1>2, <1>3, <1>5 DEF part, sixteenth
(***************************************************************************)
(* The inductive invariant.  Slow start ends at two segments at the least, *)
(* so that congestion avoidance begins where Increment applies.            *)
(***************************************************************************)

CongestionInv == TypeOK /\ incr \in Nat /\ IncrAgrees

\* The largest congestion window.
Largest == Max(Windows \cup {Max({ThreshMin, SndWnd \div 2}) + FastResend})

\* All that cwnd is compared with is finite, and Largest is the largest.
LEMMA LargestFacts ==
  /\ Largest \in Nat
  /\ \A wnd \in Windows : wnd \in Nat /\ wnd <= Largest
  /\ Max({ThreshMin, SndWnd \div 2}) + FastResend <= Largest
<1> DEFINE half == SndWnd \div 2
           cut == Max({ThreshMin, half}) + FastResend
           S == Windows \cup {cut}
<1>1. half \in Nat
  BY WindowFacts
<1>2. Max({ThreshMin, half}) \in Nat
  <2> HIDE DEF half
  <2> QED BY <1>1, MaxOfTwo DEF ThreshMin
<1>3. cut \in Nat
  <2> HIDE DEF half
  <2> QED BY <1>2, WindowFacts
<1> HIDE DEF half, cut
<1>4. S \in SUBSET Nat /\ cut \in S
  BY <1>3, WindowFacts
<1>5. \E bound \in Nat : \A n \in S : n <= bound
  <2>1. \A n \in Windows : n <= 65536
    BY WindowFacts
  <2>2. \A n \in S : n <= cut + 65536
    BY <1>3, <2>1, WindowFacts
  <2> QED BY <1>3, <2>2
<1>6. Max(S) \in S /\ \A n \in S : n <= Max(S)
  BY <1>4, <1>5, MaxFacts
<1> HIDE DEF S
<1>7. Largest = Max(S)
  BY DEF Largest, S, cut, half
<1>8. \A wnd \in Windows : wnd \in S
  BY DEF S
<1> QED BY <1>4, <1>6, <1>7, <1>8 DEF cut, half

LEMMA InitCongestion == Init => CongestionInv
<1> SUFFICES ASSUME Init PROVE CongestionInv
  OBVIOUS
<1>1. IncrAgrees /\ incr \in Nat
  BY MssFacts DEF Init, IncrAgrees
<1>2. cwnd \in 0..Largest
  BY LargestFacts DEF Init
<1>3. ssthresh \in ThreshMin..Max({ThreshMin, SndWnd})
  BY MaxOfTwo, WindowFacts DEF Init, ThreshInit, ThreshMin
<1>4. DOMAIN snd_buf = {} /\ inflight \in 0..SndWnd /\ ~ (inflight > 0)
  BY WindowFacts DEF Init
<1>5. rmt_wnd \in Windows /\ calm \in BOOLEAN
  BY DEF Init
<1>6. TypeOK
  BY <1>2, <1>3, <1>4, <1>5, Zenon DEF TypeOK, Largest
<1> QED BY <1>1, <1>6 DEF CongestionInv

\* Growth keeps the window in bytes with the window in segments.
LEMMA GrownFacts ==
  ASSUME CongestionInv, NEW wnd \in Windows
  PROVE  LET grown == Grown(wnd)
         IN  /\ grown.cwnd \in 0..Largest /\ grown.incr \in Nat
             /\ grown.cwnd * Mss <= grown.incr
             /\ grown.incr < (grown.cwnd + 1) * Mss
<1> DEFINE bytes == Max({incr, Mss})
           more == bytes + (Mss * Mss) \div bytes + Mss \div 16
<1>1. /\ cwnd \in 0..Largest /\ cwnd \in Nat /\ incr \in Nat
      /\ cwnd * Mss <= incr /\ incr < (cwnd + 1) * Mss
      /\ ssthresh \in Nat /\ ssthresh >= 2
  <2>1. ssthresh \in ThreshMin..Max({ThreshMin, SndWnd})
    BY DEF CongestionInv, TypeOK
  <2>2. Max({ThreshMin, SndWnd}) \in Nat
    BY MaxOfTwo, WindowFacts DEF ThreshMin
  <2>3. ssthresh \in Nat /\ ssthresh >= 2
    BY <2>1, <2>2 DEF ThreshMin
  <2> QED BY <2>3, LargestFacts DEF CongestionInv, TypeOK, IncrAgrees, Largest
<1>2. CASE cwnd >= wnd
  BY <1>1, <1>2 DEF Grown
<1>3. CASE cwnd < wnd /\ cwnd < ssthresh
  <2>1. Grown(wnd) = [cwnd |-> cwnd + 1, incr |-> incr + Mss]
    BY <1>1, <1>3, LargestFacts DEF Grown
  <2>2. cwnd + 1 \in 0..Largest
    BY <1>1, <1>3, LargestFacts
  <2>3. (cwnd + 1) * Mss <= incr + Mss /\ incr + Mss < ((cwnd + 1) + 1) * Mss
    BY <1>1, MssFacts
  <2> QED BY <1>1, <2>1, <2>2, <2>3, MssFacts
<1>4. CASE cwnd < wnd /\ ~ (cwnd < ssthresh)
  <2>1. cwnd >= 2 /\ incr >= 2 * Mss
    BY <1>1, <1>4, MssFacts
  <2>2. bytes = incr
    BY <1>1, <2>1, MssFacts, MaxOfTwo
  <2> HIDE DEF bytes
  <2>3. more \in Nat /\ incr <= more /\ more < incr + Mss
    <3> DEFINE step == (Mss * Mss) \div bytes + Mss \div 16
    <3>1. step \in Nat /\ step < Mss
      BY <1>1, <2>1, <2>2, Increment
    <3>2. more = incr + step
      <4>1. (Mss * Mss) \div bytes \in Int /\ Mss \div 16 \in Int
        BY <1>1, <2>1, <2>2, MssFacts
      <4> QED BY <1>1, <2>2, <4>1
    <3> HIDE DEF step, more
    <3> QED BY <1>1, <3>1, <3>2, MssFacts
  <2>4. Grown(wnd) = [cwnd |-> IF (cwnd + 1) * Mss <= more THEN cwnd + 1 ELSE cwnd,
                      incr |-> more]
    BY <1>1, <1>4, LargestFacts DEF Grown, bytes
  <2> HIDE DEF more
  <2>5. cwnd + 1 \in 0..Largest
    BY <1>1, <1>4, LargestFacts
  <2>6. CASE (cwnd + 1) * Mss <= more
    <3>1. more < ((cwnd + 1) + 1) * Mss
      BY <1>1, <2>3, MssFacts
    <3> QED BY <2>3, <2>4, <2>5, <2>6, <3>1
  <2>7. CASE ~ ((cwnd + 1) * Mss <= more)
    <3>1. cwnd * Mss <= more /\ more < (cwnd + 1) * Mss
      <4>1. (cwnd + 1) * Mss \in Nat /\ cwnd * Mss \in Nat
        BY <1>1, MssFacts
      <4> QED BY <1>1, <2>3, <2>7, <4>1
    <3> QED BY <1>1, <2>3, <2>4, <2>7, <3>1
  <2> QED BY <2>6, <2>7
<1> QED BY <1>1, <1>2, <1>3, <1>4, LargestFacts
LEMMA InputKeeps ==
  ASSUME CongestionInv, NEW una \in 0..inflight,
         NEW acks \in SUBSET (0..(inflight - 1)), NEW wnd \in Windows,
         NEW whole \in BOOLEAN, Input(una, acks, wnd, whole)
  PROVE  CongestionInv'
<1> DEFINE left == {n \in DOMAIN snd_buf : n >= una /\ n \notin acks}
           front == IF left = {} THEN inflight ELSE Min(left)
           some == IF whole THEN acks ELSE {}
           grown == Grown(wnd)
<1>1. /\ inflight \in 0..SndWnd /\ inflight \in Nat
      /\ DOMAIN snd_buf \subseteq 0..(inflight - 1)
      /\ \A n \in DOMAIN snd_buf : snd_buf[n] \in 0..FastResend
      /\ calm \in BOOLEAN
      /\ ssthresh \in ThreshMin..Max({ThreshMin, SndWnd})
      /\ cwnd \in 0..Largest /\ incr \in Nat
      /\ cwnd * Mss <= incr /\ incr < (cwnd + 1) * Mss
  BY WindowFacts DEF CongestionInv, TypeOK, IncrAgrees, Largest
<1>2. /\ rmt_wnd' = wnd /\ inflight' = inflight - front
      /\ snd_buf' = [n \in {m - front : m \in left} |-> Skipped(snd_buf, some, n + front)]
      /\ ssthresh' = ssthresh /\ calm' = calm
      /\ \/ cwnd' = grown.cwnd /\ incr' = grown.incr
         \/ cwnd' = cwnd /\ incr' = incr
  BY DEF Input
<1>3. left \in SUBSET Nat /\ \A n \in left : n < inflight /\ n \in DOMAIN snd_buf
  BY <1>1
<1>4. /\ front \in Nat /\ front <= inflight
      /\ left = {} => front = inflight
      /\ left # {} => front \in left
      /\ \A n \in left : front <= n
  <2>1. CASE left = {}
    BY <1>1, <2>1
  <2>2. CASE left # {}
    <3>1. Min(left) \in left /\ \A n \in left : Min(left) <= n
      BY <1>3, <2>2, MinFacts
    <3>2. front = Min(left)
      BY <2>2
    <3>3. Min(left) \in Nat /\ Min(left) < inflight
      BY <1>3, <3>1
    <3> HIDE DEF left, front
    <3> QED BY <1>1, <2>2, <3>1, <3>2, <3>3
  <2> QED BY <2>1, <2>2
<1> HIDE DEF front, left, some, grown
<1>5. inflight' \in 0..SndWnd
  <2>1. inflight' = inflight - front /\ inflight \in 0..SndWnd
    BY <1>1, <1>2
  <2> QED BY <1>1, <1>4, <2>1, WindowFacts
<1>6. DOMAIN snd_buf' = {m - front : m \in left}
  BY <1>2
<1>7. DOMAIN snd_buf' \subseteq 0..(inflight' - 1)
  <2>1. ASSUME NEW m \in left PROVE m - front \in 0..(inflight' - 1)
    BY <1>1, <1>2, <1>3, <1>4
  <2> QED BY <1>6, <2>1
<1>8. ASSUME NEW n \in DOMAIN snd_buf' PROVE snd_buf'[n] \in 0..FastResend
  <2>1. PICK m \in left : n = m - front
    BY <1>6
  <2>2. n + front = m /\ m \in DOMAIN snd_buf
    BY <1>3, <1>4, <2>1
  <2>3. snd_buf'[n] = Skipped(snd_buf, some, m)
    BY <1>2, <1>6, <2>2
  <2>4. snd_buf[m] \in Nat /\ snd_buf[m] <= FastResend
    BY <1>1, <2>2, WindowFacts
  <2>5. Min({snd_buf[m] + 1, FastResend}) \in 0..FastResend
    <3>1. {snd_buf[m] + 1, FastResend} \in SUBSET Nat
      BY <2>4, WindowFacts
    <3>2. /\ Min({snd_buf[m] + 1, FastResend}) \in {snd_buf[m] + 1, FastResend}
          /\ Min({snd_buf[m] + 1, FastResend}) <= FastResend
      BY <3>1, MinFacts
    <3> QED BY <2>4, <3>1, <3>2, WindowFacts
  <2> QED BY <2>3, <2>4, <2>5, WindowFacts DEF Skipped
<1>9. inflight' > 0 => 0 \in DOMAIN snd_buf'
  <2>1. SUFFICES ASSUME inflight' > 0 PROVE 0 \in DOMAIN snd_buf'
    OBVIOUS
  <2>2. left # {}
    BY <1>1, <1>2, <1>4, <2>1
  <2>3. front \in left /\ front - front = 0
    BY <1>4, <2>2
  <2> QED BY <1>6, <2>3
<1>10. /\ cwnd' \in 0..Largest /\ incr' \in Nat
       /\ cwnd' * Mss <= incr' /\ incr' < (cwnd' + 1) * Mss
  <2>1. /\ grown.cwnd \in 0..Largest /\ grown.incr \in Nat
        /\ grown.cwnd * Mss <= grown.incr
        /\ grown.incr < (grown.cwnd + 1) * Mss
    BY GrownFacts DEF grown
  <2>2. CASE cwnd' = grown.cwnd /\ incr' = grown.incr
    BY <2>1, <2>2
  <2>3. CASE cwnd' = cwnd /\ incr' = incr
    BY <1>1, <2>3
  <2> QED BY <1>2, <2>2, <2>3
<1>11. TypeOK'
  <2>1. rmt_wnd' \in Windows /\ calm' \in BOOLEAN
        /\ ssthresh' \in ThreshMin..Max({ThreshMin, SndWnd})
    BY <1>1, <1>2
  <2> QED BY <1>5, <1>7, <1>8, <1>9, <1>10, <2>1, Zenon DEF TypeOK, Largest
<1> QED BY <1>10, <1>11 DEF CongestionInv, IncrAgrees

\* What flush leaves of the window agrees too, and is bounded.
LEMMA AfterFlushFacts ==
  ASSUME CongestionInv, NEW sent \in Nat, inflight + sent <= SndWnd, NEW overdue
  PROVE  LET after == AfterFlush(overdue, sent)
         IN  /\ after.cwnd \in 0..Largest /\ after.incr \in Nat
             /\ after.cwnd * Mss <= after.incr
             /\ after.incr < (after.cwnd + 1) * Mss
             /\ after.ssthresh \in ThreshMin..Max({ThreshMin, SndWnd})
<1>1. /\ inflight \in Nat /\ rmt_wnd \in Nat
      /\ ssthresh \in ThreshMin..Max({ThreshMin, SndWnd})
      /\ cwnd \in 0..Largest /\ cwnd \in Nat /\ incr \in Nat
      /\ cwnd * Mss <= incr /\ incr < (cwnd + 1) * Mss
  BY WindowFacts, LargestFacts DEF CongestionInv, TypeOK, IncrAgrees, Largest
<1>2. /\ Max({ThreshMin, SndWnd}) \in Nat
      /\ Max({ThreshMin, SndWnd}) >= SndWnd /\ Max({ThreshMin, SndWnd}) >= 2
  BY WindowFacts, MaxOfTwo DEF ThreshMin
<1>3. 2 + FastResend <= Largest /\ (SndWnd \div 2) + FastResend <= Largest
  <2> DEFINE half == SndWnd \div 2
  <2>1. half \in Nat
    BY WindowFacts
  <2> HIDE DEF half
  <2>2. /\ Max({ThreshMin, half}) \in Nat /\ Max({ThreshMin, half}) >= half
        /\ Max({ThreshMin, half}) >= 2
    BY <2>1, MaxOfTwo DEF ThreshMin
  <2>3. Max({ThreshMin, half}) + FastResend <= Largest
    BY LargestFacts DEF half
  <2>4. 2 + FastResend <= Largest /\ half + FastResend <= Largest
    BY <2>1, <2>2, <2>3, WindowFacts, LargestFacts
  <2> QED BY <2>4 DEF half
<1>4. Window \in Nat /\ Window <= SndWnd
  <2> DEFINE S == {SndWnd, rmt_wnd} \cup IF NoCwnd THEN {} ELSE {cwnd}
  <2>1. S \in SUBSET Nat /\ SndWnd \in S
    BY <1>1, WindowFacts
  <2>2. Window = Min(S)
    BY DEF Window
  <2> HIDE DEF S
  <2> QED BY <2>1, <2>2, MinFacts
<1>5. CASE overdue # {}
  <2> DEFINE half == Window \div 2
             after == [ssthresh |-> Max({half, ThreshMin}), cwnd |-> 1, incr |-> Mss]
  <2>1. AfterFlush(overdue, sent) = after
    BY <1>5 DEF AfterFlush
  <2>2. half \in Nat /\ half <= Window
    BY <1>4
  <2> HIDE DEF half
  <2>3. Max({half, ThreshMin}) \in Nat /\ Max({half, ThreshMin}) >= 2
        /\ Max({half, ThreshMin}) \in {half, 2}
    BY <2>2, MaxOfTwo DEF ThreshMin
  <2>4. Max({half, ThreshMin}) \in ThreshMin..Max({ThreshMin, SndWnd})
    BY <1>2, <1>4, <2>2, <2>3, WindowFacts DEF ThreshMin
  <2>5. 1 \in 0..Largest
    BY <1>3, WindowFacts, LargestFacts
  <2>6. 1 * Mss <= Mss /\ Mss < (1 + 1) * Mss /\ Mss \in Nat
    BY MssFacts
  <2> QED BY <2>1, <2>4, <2>5, <2>6
<1>6. CASE overdue = {} /\ Early(overdue) # {}
  <2> DEFINE part == (inflight + sent) \div 2
             half == Max({part, ThreshMin})
             after == [ssthresh |-> half, cwnd |-> half + FastResend,
                       incr |-> (half + FastResend) * Mss]
  <2>1. AfterFlush(overdue, sent) = after
    BY <1>6 DEF AfterFlush
  <2>2. part \in Nat /\ part <= SndWnd \div 2 /\ part <= SndWnd
    BY <1>1, WindowFacts
  <2> HIDE DEF part
  <2>3. half \in Nat /\ half >= 2 /\ half \in {part, 2}
    BY <2>2, MaxOfTwo DEF ThreshMin
  <2> HIDE DEF half
  <2>4. half \in ThreshMin..Max({ThreshMin, SndWnd})
    BY <1>2, <2>2, <2>3, WindowFacts DEF ThreshMin
  <2>5. half + FastResend \in 0..Largest /\ half + FastResend \in Nat
    BY <1>3, <2>2, <2>3, WindowFacts, LargestFacts
  <2>6. /\ (half + FastResend) * Mss \in Nat
        /\ (half + FastResend) * Mss < ((half + FastResend) + 1) * Mss
    BY <2>5, OneMore, MssFacts
  <2> QED BY <2>1, <2>4, <2>5, <2>6
<1>7. CASE overdue = {} /\ ~ (Early(overdue) # {})
  <2> DEFINE after == [ssthresh |-> ssthresh, cwnd |-> Max({cwnd, 1}),
                       incr |-> IF cwnd < 1 THEN Mss ELSE incr]
  <2>1. AfterFlush(overdue, sent) = after
    BY <1>7 DEF AfterFlush
  <2>2. Max({cwnd, 1}) = IF cwnd < 1 THEN 1 ELSE cwnd
    BY <1>1, MaxOfTwo
  <2>3. CASE cwnd < 1
    <3>1. AfterFlush(overdue, sent) = [ssthresh |-> ssthresh, cwnd |-> 1, incr |-> Mss]
      BY <2>1, <2>2, <2>3
    <3>2. 1 \in 0..Largest
      BY <1>3, WindowFacts, LargestFacts
    <3>3. 1 * Mss <= Mss /\ Mss < (1 + 1) * Mss /\ Mss \in Nat
      BY MssFacts
    <3>4. ssthresh \in ThreshMin..Max({ThreshMin, SndWnd})
      BY <1>1
    <3> QED BY <3>1, <3>2, <3>3, <3>4
  <2>4. CASE ~ (cwnd < 1)
    <3>1. after = [ssthresh |-> ssthresh, cwnd |-> cwnd, incr |-> incr]
      BY <2>2, <2>4
    <3> QED BY <1>1, <2>1, <3>1
  <2> QED BY <2>3, <2>4
<1> QED BY <1>5, <1>6, <1>7

LEMMA FlushKeeps ==
  ASSUME CongestionInv, NEW sent \in 0..SndWnd, NEW overdue, Flush(sent, overdue)
  PROVE  CongestionInv'
<1> DEFINE after == AfterFlush(overdue, sent)
           fresh == inflight..(inflight + sent - 1)
<1>1. /\ inflight \in 0..SndWnd /\ inflight \in Nat /\ sent \in Nat
      /\ DOMAIN snd_buf \subseteq 0..(inflight - 1)
      /\ \A n \in DOMAIN snd_buf : snd_buf[n] \in 0..FastResend
      /\ inflight > 0 => 0 \in DOMAIN snd_buf
      /\ rmt_wnd \in Windows /\ rmt_wnd \in Nat /\ calm \in BOOLEAN
      /\ cwnd \in Nat
  BY WindowFacts, LargestFacts DEF CongestionInv, TypeOK, Largest
<1>2. /\ sent <= Max({Window - inflight, 0})
      /\ inflight' = inflight + sent
      /\ snd_buf' = [n \in DOMAIN snd_buf \cup fresh |->
                       IF n >= inflight \/ n \in Early(overdue) THEN 0
                       ELSE snd_buf[n]]
      /\ cwnd' = after.cwnd /\ ssthresh' = after.ssthresh /\ incr' = after.incr
      /\ rmt_wnd' = rmt_wnd /\ calm' = calm
  BY DEF Flush
<1>3. inflight + sent <= SndWnd
  <2> DEFINE S == {SndWnd, rmt_wnd} \cup IF NoCwnd THEN {} ELSE {cwnd}
  <2>1. S \in SUBSET Nat /\ SndWnd \in S /\ Window = Min(S)
    BY <1>1, WindowFacts DEF Window
  <2> HIDE DEF S
  <2>2. Window \in Nat /\ Window <= SndWnd
    BY <2>1, MinFacts
  <2>3. CASE Window - inflight >= 0
    <3>1. Window - inflight \in Nat
      BY <1>1, <2>2, <2>3
    <3>2. Max({Window - inflight, 0}) \in {Window - inflight, 0}
      BY <3>1, MaxOfTwo
    <3>3. sent <= Window - inflight \/ sent <= 0
      BY <1>2, <3>2
    <3>4. /\ inflight \in Nat /\ inflight <= SndWnd /\ sent \in Nat
          /\ SndWnd \in Nat
      BY <1>1, WindowFacts
    <3> QED BY <2>2, <3>3, <3>4
  <2>4. CASE Window - inflight < 0
    <3>1. Max({Window - inflight, 0}) = 0
      BY <1>1, <2>2, <2>4 DEF Max
    <3> QED BY <1>1, <1>2, <3>1
  <2> QED BY <1>1, <2>2, <2>3, <2>4
<1>4. /\ after.cwnd \in 0..Largest /\ after.incr \in Nat
      /\ after.cwnd * Mss <= after.incr /\ after.incr < (after.cwnd + 1) * Mss
      /\ after.ssthresh \in ThreshMin..Max({ThreshMin, SndWnd})
  BY <1>1, <1>3, AfterFlushFacts
<1> HIDE DEF after
<1>5. inflight' \in 0..SndWnd
  BY <1>1, <1>2, <1>3
<1>6. DOMAIN snd_buf' = DOMAIN snd_buf \cup fresh
  BY <1>2
<1>7. DOMAIN snd_buf' \subseteq 0..(inflight' - 1)
  BY <1>1, <1>2, <1>6
<1>8. \A n \in DOMAIN snd_buf' : snd_buf'[n] \in 0..FastResend
  <2>1. ASSUME NEW n \in DOMAIN snd_buf' PROVE snd_buf'[n] \in 0..FastResend
    <3>1. CASE n >= inflight \/ n \in Early(overdue)
      <4>1. snd_buf'[n] = 0
        BY <1>2, <1>6, <3>1
      <4> QED BY <4>1, WindowFacts
    <3>2. CASE ~ (n >= inflight \/ n \in Early(overdue))
      <4>1. snd_buf'[n] = snd_buf[n]
        BY <1>2, <1>6, <3>2
      <4>2. n \in DOMAIN snd_buf
        BY <1>1, <1>6, <3>2
      <4> QED BY <1>1, <4>1, <4>2
    <3> QED BY <3>1, <3>2
  <2> QED BY <2>1
<1>9. inflight' > 0 => 0 \in DOMAIN snd_buf'
  <2>1. CASE inflight > 0
    BY <1>1, <1>6, <2>1
  <2>2. CASE inflight = 0
    BY <1>1, <1>2, <1>6, <2>2
  <2> QED BY <1>1, <2>1, <2>2
<1>10. /\ cwnd' \in 0..Largest /\ incr' \in Nat
       /\ cwnd' * Mss <= incr' /\ incr' < (cwnd' + 1) * Mss
       /\ ssthresh' \in ThreshMin..Max({ThreshMin, SndWnd})
  BY <1>2, <1>4
<1>11. TypeOK'
  <2>1. rmt_wnd' \in Windows /\ calm' \in BOOLEAN
    BY <1>1, <1>2
  <2> QED BY <1>5, <1>7, <1>8, <1>9, <1>10, <2>1, Zenon DEF TypeOK, Largest
<1> QED BY <1>10, <1>11 DEF CongestionInv, IncrAgrees

LEMMA NextCongestion ==
  ASSUME CongestionInv, [Next]_vars
  PROVE  CongestionInv'
<1>1. CASE Calm
  BY <1>1 DEF Calm, CongestionInv, TypeOK, IncrAgrees
<1>2. CASE UNCHANGED vars
  BY <1>2 DEF vars, CongestionInv, TypeOK, IncrAgrees
<1> QED BY <1>1, <1>2, InputKeeps, FlushKeeps DEF Next

THEOREM CongestionCorrect == Spec => []CongestionInv
<1>1. Init => CongestionInv
  BY InitCongestion
<1>2. CongestionInv /\ [Next]_vars => CongestionInv'
  BY NextCongestion
<1> QED BY <1>1, <1>2, PTL DEF Spec

\* The windows have their types and bounds: cwnd stays within what the peer
\* has told or a fast resend leaves, ssthresh between two segments and the send
\* window, however often and in whatever order acknowledgements arrive (input
\* and flush of src/kcp/kcb.rs).
THEOREM CongestionTypes == Spec => []TypeOK
<1>1. CongestionInv => TypeOK
  BY DEF CongestionInv
<1> QED BY <1>1, CongestionCorrect, PTL

\* The window counted in bytes agrees with the window counted in segments, to
\* less than a segment, for any segment size, in spite of the two divisions
\* of congestion avoidance and of the three places of flush that set one of
\* them without looking at the other.
THEOREM BytesAgreeWithSegments == Spec => []IncrAgrees
<1>1. CongestionInv => IncrAgrees
  BY DEF CongestionInv
<1> QED BY <1>1, CongestionCorrect, PTL
=============================================================================
