--------------------------- MODULE KcbTimerProofs ---------------------------
(***************************************************************************)
(* The flush timer is always ahead and near, on a clock that wraps and     *)
(* that anybody may set; and while nobody sets it, segments are sent again *)
(* and a closed window is probed in time, and nothing is sent again early. *)
(***************************************************************************)
EXTENDS KcbTimer, WellFoundedInduction, TLAPS

Half == Modulus \div 2

LEMMA ClockFacts ==
  /\ Modulus \in Nat \ {0}
  /\ Half \in Nat
  /\ Modulus = 2 * Half
  /\ Interval \in 1..JumpLimit
  /\ JumpLimit \in 1..(Half - 1)
<1>1. Half \in Nat /\ Modulus = 2 * Half
  BY ClockAssumption DEF Half
<1> QED BY <1>1, ClockAssumption

LEMMA ModSmall == ASSUME NEW m \in Nat \ {0}, NEW x \in 0..(m - 1) PROVE x % m = x
OBVIOUS

LEMMA ModAbove ==
  ASSUME NEW m \in Nat \ {0}, NEW x \in m..(2 * m - 1) PROVE x % m = x - m
<1>1. \A y \in 0..(m - 1) : (y + m) % m = y
  OBVIOUS
<1>2. x - m \in 0..(m - 1) /\ (x - m) + m = x
  OBVIOUS
<1> QED BY <1>1, <1>2

LEMMA ModBelow ==
  ASSUME NEW m \in Nat \ {0}, NEW x \in (-m)..(-1) PROVE x % m = x + m
<1>1. \A y \in 0..(m - 1) : (y - m) % m = y
  OBVIOUS
<1>2. x + m \in 0..(m - 1) /\ (x + m) - m = x
  OBVIOUS
<1> QED BY <1>1, <1>2

\* timediff: the difference, wrapped into the signed range.
LEMMA TimediffValue ==
  ASSUME NEW a \in Clock, NEW b \in Clock
  PROVE  /\ Timediff(a, b) \in (-Half)..(Half - 1)
         /\ Timediff(a, b) \in {a - b, a - b + Modulus, a - b - Modulus}
<1> DEFINE d == (a - b) % Modulus
<1>1. a - b \in (-Modulus)..(Modulus - 1)
  BY ClockFacts DEF Clock
<1>2. d \in {a - b, a - b + Modulus} /\ d \in 0..(Modulus - 1)
  <2>1. CASE a - b \in 0..(Modulus - 1)
    BY <2>1, ClockFacts, ModSmall
  <2>2. CASE a - b \in (-Modulus)..(-1)
    BY <2>2, ClockFacts, ModBelow
  <2> QED BY <1>1, <2>1, <2>2, ClockFacts
<1>3. Timediff(a, b) = IF d >= Half THEN d - Modulus ELSE d
  BY DEF Timediff, Half
<1> HIDE DEF d
<1> QED BY <1>1, <1>2, <1>3, ClockFacts

\* A clock value some ticks on.
LEMMA AfterValue ==
  ASSUME NEW t \in Clock, NEW k \in 0..JumpLimit
  PROVE  After(t, k) \in Clock /\ After(t, k) \in {t + k, t + k - Modulus}
<1>1. t + k \in 0..(2 * Modulus - 1)
  BY ClockFacts DEF Clock
<1>2. CASE t + k \in 0..(Modulus - 1)
  BY <1>2, ClockFacts, ModSmall DEF After, Clock
<1>3. CASE t + k \in Modulus..(2 * Modulus - 1)
  BY <1>1, <1>3, ClockFacts, ModAbove DEF After, Clock
<1> QED BY <1>1, <1>2, <1>3, ClockFacts

\* The invariant: clock values, and the flush timer ahead.
TimerInv ==
  /\ now \in Clock
  /\ current \in Clock
  /\ ts_flush \in Clock
  /\ updated \in BOOLEAN
  /\ FlushAhead

LEMMA TimerInit == Init => TimerInv
<1>1. Interval \in Clock /\ 0 \in Clock
  BY ClockFacts DEF Clock
<1> QED BY <1>1 DEF Init, TimerInv, FlushAhead

\* The timer update works with is a clock value near now.
LEMMA TimerNear ==
  ASSUME TimerInv
  PROVE  /\ Timer \in Clock
         /\ Timediff(now, Timer) \in (-JumpLimit)..(JumpLimit - 1)
<1> DEFINE ts == IF updated THEN ts_flush ELSE now
           slap == Timediff(now, ts)
<1>1. ts \in Clock /\ now \in Clock
  BY DEF TimerInv
<1>2. slap \in Int /\ Timediff(now, now) = 0
  <2>1. slap \in (-Half)..(Half - 1)
    BY <1>1, TimediffValue
  <2>2. /\ Timediff(now, now) \in (-Half)..(Half - 1)
        /\ Timediff(now, now) \in {now - now, now - now + Modulus, now - now - Modulus}
    BY <1>1, TimediffValue
  <2> HIDE DEF slap
  <2> QED BY <1>1, <2>1, <2>2, ClockFacts DEF Clock
<1>3. Timer = IF slap >= JumpLimit \/ slap < -JumpLimit THEN now ELSE ts
  BY DEF Timer
<1> HIDE DEF ts
<1>4. CASE slap >= JumpLimit \/ slap < -JumpLimit
  BY <1>1, <1>2, <1>3, <1>4, ClockFacts
<1>5. CASE ~ (slap >= JumpLimit \/ slap < -JumpLimit)
  BY <1>1, <1>2, <1>3, <1>5, ClockFacts
<1> QED BY <1>4, <1>5

\* An early update leaves the timer ahead, by no more than JumpLimit.
LEMMA EarlyAhead ==
  ASSUME TimerInv, Timediff(now, Timer) < 0
  PROVE  Timediff(Timer, now) \in 1..JumpLimit
<1> DEFINE d == Timediff(now, Timer)
           r == Timediff(Timer, now)
           T == Timer
<1>1. T \in Clock /\ now \in Clock /\ d \in (-JumpLimit)..(-1)
  BY TimerNear, ClockFacts DEF TimerInv
<1>2. /\ d \in {now - T, now - T + Modulus, now - T - Modulus}
      /\ r \in {T - now, T - now + Modulus, T - now - Modulus}
      /\ r \in (-Half)..(Half - 1)
  BY <1>1, TimediffValue
<1> HIDE DEF d, r, T
<1>3. r \in 1..JumpLimit
  BY <1>1, <1>2, ClockFacts DEF Clock
<1> QED BY <1>3 DEF r

\* A flush leaves it ahead by no more than one interval.
LEMMA FlushSetsAhead ==
  ASSUME TimerInv, Timediff(now, Timer) >= 0
  PROVE  NextFlush \in Clock /\ Timediff(NextFlush, now) \in 1..Interval
<1> DEFINE T == Timer
           N == After(T, Interval)
           P == After(now, Interval)
           d == Timediff(now, T)
           late == Timediff(now, N)
<1>1. T \in Clock /\ now \in Clock /\ d \in 0..(JumpLimit - 1)
  BY TimerNear, ClockFacts DEF TimerInv
<1>2. Interval \in 0..JumpLimit
  BY ClockFacts
<1>3. /\ N \in Clock /\ N \in {T + Interval, T + Interval - Modulus}
      /\ P \in Clock /\ P \in {now + Interval, now + Interval - Modulus}
  BY <1>1, <1>2, AfterValue
<1>4. /\ d \in {now - T, now - T + Modulus, now - T - Modulus}
      /\ late \in {now - N, now - N + Modulus, now - N - Modulus}
      /\ late \in (-Half)..(Half - 1)
      /\ Timediff(N, now) \in {N - now, N - now + Modulus, N - now - Modulus}
      /\ Timediff(N, now) \in (-Half)..(Half - 1)
      /\ Timediff(P, now) \in {P - now, P - now + Modulus, P - now - Modulus}
      /\ Timediff(P, now) \in (-Half)..(Half - 1)
  BY <1>1, <1>3, TimediffValue
<1>5. NextFlush = IF late >= 0 THEN P ELSE N
  BY DEF NextFlush
<1> DEFINE dn == Timediff(N, now)
           dp == Timediff(P, now)
<1>6. ASSUME late >= 0 PROVE dp \in 1..Interval
  <2> HIDE DEF T, N, P, d, late, dn, dp
  <2> QED BY <1>1, <1>3, <1>4, ClockFacts DEF Clock, dp
<1>7. ASSUME late < 0 PROVE dn \in 1..Interval
  <2>1. dn \in {N - now, N - now + Modulus, N - now - Modulus}
    BY <1>4
  <2>2. dn \in (-Half)..(Half - 1)
    BY <1>4
  <2> HIDE DEF T, N, P, d, late, dn, dp
  <2> QED BY <1>1, <1>3, <1>4, <1>7, <2>1, <2>2, ClockFacts DEF Clock
<1>8. late \in Int
  BY <1>4
<1> QED BY <1>3, <1>5, <1>6, <1>7, <1>8

LEMMA TimerStep == TimerInv /\ [Next]_vars => TimerInv'
<1> SUFFICES ASSUME TimerInv, [Next]_vars PROVE TimerInv'
  OBVIOUS
<1>1. CASE UpdateEarly
  BY <1>1, EarlyAhead, TimerNear DEF UpdateEarly, TimerInv, FlushAhead
<1>2. ASSUME NEW new \in SUBSET (Ids \ DOMAIN snd_buf), UpdateFlush(new)
      PROVE  TimerInv'
  <2>1. NextFlush \in Clock /\ Timediff(NextFlush, now) \in 1..JumpLimit
    BY <1>2, FlushSetsAhead, ClockFacts DEF UpdateFlush
  <2>2. /\ now' = now /\ current' = now /\ updated' = TRUE
        /\ ts_flush' = NextFlush
    BY <1>2 DEF UpdateFlush
  <2> QED BY <2>1, <2>2 DEF TimerInv, FlushAhead
<1>3. ASSUME NEW new \in SUBSET (Ids \ DOMAIN snd_buf), FlushAgain(new)
      PROVE  TimerInv'
  BY <1>3 DEF FlushAgain, TimerInv, FlushAhead, timers
<1>4. ASSUME NEW id \in Ids, NEW rto \in Rtos, Acked(id, rto) PROVE TimerInv'
  BY <1>4 DEF Acked, TimerInv, FlushAhead, timers
<1>5. CASE Window
  BY <1>5 DEF Window, TimerInv, FlushAhead, timers
<1>6. CASE Tick
  <2>1. After(now, 1) \in Clock
    BY AfterValue, ClockFacts DEF TimerInv
  <2> QED BY <1>6, <2>1 DEF Tick, TimerInv, FlushAhead, timers
<1>7. CASE Jump
  BY <1>7 DEF Jump, TimerInv, FlushAhead, timers
<1>8. CASE UNCHANGED vars
  BY <1>8 DEF vars, TimerInv, FlushAhead, timers
<1> QED BY <1>1, <1>2, <1>3, <1>4, <1>5, <1>6, <1>7, <1>8 DEF Next

\* However wide the clock, however late the caller and wherever the clock is
\* set: after every update the next flush is ahead, by at most JumpLimit.
THEOREM FlushNeverFar == Spec => []FlushAhead
<1>1. TimerInv => FlushAhead
  BY DEF TimerInv
<1> QED BY TimerInit, TimerStep, <1>1, PTL DEF Spec
----------------------------------------------------------------------------
(***************************************************************************)
(* The timers of the segments and of the window probe.                     *)
(***************************************************************************)

LEMMA Halves ==
  /\ Interval >= 2 /\ Interval \in Nat
  /\ MaxXmit \in Nat \ {0} /\ MaxGap \in Nat \ {0} /\ RtoMax \in Nat
  /\ Rtos \subseteq (MaxGap + 1)..RtoMax
  /\ ProbeInit \in 1..ProbeLimit /\ ProbeLimit \in 1..(Half - 1)
  /\ RtoMax + RtoMax \div 8 < Half
  /\ MaxXmit * RtoMax < Half
  /\ Interval + MaxGap < Half
  /\ MaxXmit * RtoMax \in Nat
<1>1. \A ticks \in {RtoMax + RtoMax \div 8, MaxXmit * RtoMax, ProbeLimit,
                   Interval + MaxGap} : 2 * ticks < 2 * Half
  BY TimerAssumption, ClockFacts
<1>2. MaxXmit * RtoMax \in Nat
  BY TimerAssumption
<1>3. RtoMax + RtoMax \div 8 \in Nat
  BY TimerAssumption
<1>4. 2 * (RtoMax + RtoMax \div 8) < 2 * Half /\ 2 * (MaxXmit * RtoMax) < 2 * Half
      /\ 2 * ProbeLimit < 2 * Half /\ 2 * (Interval + MaxGap) < 2 * Half
  BY <1>1
<1> DEFINE eighth == RtoMax + RtoMax \div 8
           product == MaxXmit * RtoMax
<1>5. eighth < Half /\ product < Half
  <2> HIDE DEF eighth, product
  <2> QED BY <1>2, <1>3, <1>4, ClockFacts DEF eighth, product
<1> QED BY <1>2, <1>4, <1>5, TimerAssumption, ClockFacts

\* A signed number that is a difference modulo the clock is what timediff says.
LEMMA TimediffIs ==
  ASSUME NEW a \in Clock, NEW b \in Clock, NEW d \in (-Half)..(Half - 1),
         d \in {a - b, a - b + Modulus, a - b - Modulus}
  PROVE  Timediff(a, b) = d
<1> DEFINE x == Timediff(a, b)
<1>1. /\ x \in (-Half)..(Half - 1)
      /\ x \in {a - b, a - b + Modulus, a - b - Modulus}
  BY TimediffValue
<1> HIDE DEF x
<1>2. x = d
  BY <1>1, ClockFacts DEF Clock
<1> QED BY <1>2 DEF x

LEMMA TimediffSelf == ASSUME NEW a \in Clock PROVE Timediff(a, a) = 0
<1>1. 0 \in (-Half)..(Half - 1) /\ 0 \in {a - a, a - a + Modulus, a - a - Modulus}
  BY ClockFacts DEF Clock
<1> QED BY <1>1, TimediffIs

\* Times seen from another one.
LEMMA Rebase ==
  ASSUME NEW a \in Clock, NEW b \in Clock, NEW c \in Clock,
         Timediff(a, c) - Timediff(b, c) \in (-Half)..(Half - 1)
  PROVE  Timediff(a, b) = Timediff(a, c) - Timediff(b, c)
<1> DEFINE x == Timediff(a, c)
           y == Timediff(b, c)
           z == Timediff(a, b)
<1>1. /\ x \in (-Half)..(Half - 1) /\ x \in {a - c, a - c + Modulus, a - c - Modulus}
      /\ y \in (-Half)..(Half - 1) /\ y \in {b - c, b - c + Modulus, b - c - Modulus}
      /\ z \in (-Half)..(Half - 1) /\ z \in {a - b, a - b + Modulus, a - b - Modulus}
  BY TimediffValue
<1>2. x - y \in (-Half)..(Half - 1)
  OBVIOUS
<1> HIDE DEF x, y, z
<1>3. z = x - y
  BY <1>1, <1>2, ClockFacts DEF Clock
<1> QED BY <1>3 DEF x, y, z

LEMMA Opposite ==
  ASSUME NEW a \in Clock, NEW b \in Clock
  PROVE  /\ Timediff(a, b) >= 0 => Timediff(b, a) = - Timediff(a, b)
         /\ Timediff(a, b) >= 0 <=> Timediff(b, a) \in (1 - Half)..0
         /\ Timediff(a, b) < 0 /\ Timediff(a, b) # -Half =>
              Timediff(b, a) = - Timediff(a, b)
<1> DEFINE x == Timediff(a, b)
           y == Timediff(b, a)
<1>1. /\ x \in (-Half)..(Half - 1) /\ x \in {a - b, a - b + Modulus, a - b - Modulus}
      /\ y \in (-Half)..(Half - 1) /\ y \in {b - a, b - a + Modulus, b - a - Modulus}
  BY TimediffValue
<1> HIDE DEF x, y
<1>2. /\ x >= 0 => y = -x
      /\ x >= 0 <=> y \in (1 - Half)..0
      /\ x < 0 /\ x # -Half => y = -x
  BY <1>1, ClockFacts DEF Clock
<1> QED BY <1>2 DEF x, y

\* Some ticks on, seen from any time.
LEMMA AfterAhead ==
  ASSUME NEW t \in Clock, NEW k \in 0..(Half - 1)
  PROVE  /\ After(t, k) \in Clock
         /\ Timediff(After(t, k), t) = k
         /\ \A c \in Clock : Timediff(t, c) + k < Half =>
              Timediff(After(t, k), c) = Timediff(t, c) + k
<1> DEFINE u == After(t, k)
<1>1. t + k \in 0..(2 * Modulus - 1)
  BY ClockFacts DEF Clock
<1>2. u \in Clock /\ u \in {t + k, t + k - Modulus}
  <2>1. CASE t + k \in 0..(Modulus - 1)
    BY <2>1, ClockFacts, ModSmall DEF After, Clock
  <2>2. CASE t + k \in Modulus..(2 * Modulus - 1)
    BY <1>1, <2>2, ClockFacts, ModAbove DEF After, Clock
  <2> QED BY <1>1, <2>1, <2>2, ClockFacts
<1> HIDE DEF u
<1>3. ASSUME NEW c \in Clock, NEW x, x = Timediff(t, c), x + k < Half
      PROVE  Timediff(u, c) = x + k
  <2>1. x \in (-Half)..(Half - 1) /\ x \in {t - c, t - c + Modulus, t - c - Modulus}
    BY <1>3, TimediffValue
  <2>2. x + k \in (-Half)..(Half - 1)
    BY <1>3, <2>1, ClockFacts
  <2>3. x + k \in {u - c, u - c + Modulus, u - c - Modulus}
        \/ x + k = u - c + 2 * Modulus \/ x + k = u - c - 2 * Modulus
    BY <1>2, <2>1, ClockFacts DEF Clock
  <2>4. x + k \in {u - c, u - c + Modulus, u - c - Modulus}
    BY <1>2, <2>2, <2>3, ClockFacts DEF Clock
  <2> QED BY <1>2, <2>2, <2>4, TimediffIs
<1>4. Timediff(u, t) = k
  <2>1. Timediff(t, t) = 0
    BY TimediffSelf
  <2>2. 0 + k < Half /\ 0 + k = k
    BY ClockFacts
  <2> QED BY <1>3, <2>1, <2>2
<1> QED BY <1>2, <1>3, <1>4 DEF u

(***************************************************************************)
(* The inductive invariant.  Times are counted from the last update.       *)
(***************************************************************************)
Ahead(t) == Timediff(t, current)

\* Nobody sets the clock.
Regular == caller # "resets"

\* Timeouts are bounded by the number of transmissions, and a segment that has
\* been sent MaxXmit times is not overdue.
SegmentInv ==
  \A id \in DOMAIN snd_buf :
    /\ snd_buf[id].rto \in 1..(snd_buf[id].xmit * RtoMax)
    /\ snd_buf[id].xmit = MaxXmit => Timediff(now, snd_buf[id].resendts) < 0

\* How long the caller has been away, and may stay away.
CallerInv ==
  /\ ~ updated => snd_buf = <<>> /\ patience = 0 /\ probe_wait = 0 /\ quiet = 0
  /\ updated =>
       /\ Ahead(ts_flush) \in 1..Interval
       /\ Ahead(now) \in Nat
       /\ Ahead(now) + patience <= MaxGap + Interval
       /\ caller = "polls" => Ahead(now) + patience <= MaxGap

\* The timer of each segment expires less than an interval before the flush
\* timer, and not long before the caller comes back; and it tells the age.
ResendInv ==
  \A id \in DOMAIN snd_buf :
    LET due == Ahead(snd_buf[id].resendts)
    IN  /\ Ahead(ts_flush) - due <= Interval - 1
        /\ Ahead(now) + patience - due <= (Interval - 1) + (MaxGap - 1)
        /\ age[id] <= Timeout(snd_buf[id]) + Ahead(now) - due
        /\ caller = "sleeps" => age[id] = Timeout(snd_buf[id]) + Ahead(now) - due

\* So does the probe timer; while it is off, the flush timer itself tells how
\* long the window has been closed.
ProbeInv ==
  /\ probe_wait # 0 =>
       /\ Ahead(ts_flush) - Ahead(ts_probe) <= Interval - 1
       /\ Ahead(ts_probe) - Ahead(now) <= ProbeLimit
  /\ quiet > 0 => closed
  /\ closed /\ updated /\ probe_wait = 0 =>
       Ahead(ts_flush) - Ahead(now) + quiet <= Interval
  /\ closed /\ probe_wait # 0 =>
       \/ quiet + Ahead(ts_probe) - Ahead(now) <= ProbeLimit
       \/ quiet + Ahead(ts_probe) - Ahead(now) <= (Interval + MaxGap - 1) + ProbeInit

RetransmitInv ==
  /\ TypeOK
  /\ SegmentInv
  /\ closed \/ probe_wait # 0 \/ quiet # 0 => caller = "polls"
  /\ Regular => CallerInv /\ ResendInv /\ ProbeInv

LEMMA AfterClock == ASSUME NEW t \in Clock, NEW k \in Nat PROVE After(t, k) \in Clock
BY ClockFacts DEF After, Clock

\* The bounds alone, without the products.
LEMMA Small ==
  Interval \in Nat /\ Interval >= 2 /\ MaxGap \in Nat /\ MaxGap >= 1
BY Halves

\* A set of naturals that is not empty has a minimum.
LEMMA LeastNatural ==
  ASSUME NEW S \in SUBSET Nat, S # {}
  PROVE  \E m \in S : \A n \in S : m <= n
<1>1. PICK m \in S : \A n \in S : ~ (<<n, m>> \in OpToRel(<, Nat))
  BY NatLessThanWellFounded, WFMin
<1>2. ASSUME NEW n \in S PROVE m <= n
  <2>1. ~ (n < m)
    BY <1>1 DEF OpToRel
  <2> QED BY <2>1
<1> QED BY <1>2

\* check never tells more than one interval, and never more than is left until
\* the retransmission of any segment.
LEMMA CheckFacts ==
  ASSUME NEW t \in Clock, NEW tsf \in Clock, NEW buf,
         \A id \in DOMAIN buf : buf[id].resendts \in Clock
  PROVE  /\ Check(t, tsf, buf) \in 0..Interval
         /\ Check(t, tsf, buf) # 0 =>
              \A id \in DOMAIN buf : Check(t, tsf, buf) <= Timediff(buf[id].resendts, t)
<1> DEFINE W == Waits(t, tsf, buf)
           w0 == CHOOSE w \in W : \A v \in W : w <= v
           none == Timediff(tsf, t) > JumpLimit \/ \E w \in W : w <= 0
<1>1. Check(t, tsf, buf) = IF none THEN 0 ELSE w0
  BY DEF Check
<1>2. W \subseteq Int /\ Interval \in W
        /\ \A id \in DOMAIN buf : Timediff(buf[id].resendts, t) \in W
  BY TimediffValue, ClockFacts DEF Waits
<1>3. CASE none
  BY <1>1, <1>3, Halves
<1>4. CASE ~ none
  <2>1. W \subseteq Nat
    BY <1>2, <1>4
  <2>2. \E w \in W : \A v \in W : w <= v
    BY <1>2, <2>1, LeastNatural
  <2>3. w0 \in W /\ \A v \in W : w0 <= v
    BY <2>2
  <2>4. Check(t, tsf, buf) = w0
    BY <1>1, <1>4
  <2> HIDE DEF w0, W
  <2>5. w0 \in Nat /\ w0 <= Interval
    BY <1>2, <2>1, <2>3
  <2>6. \A id \in DOMAIN buf : w0 <= Timediff(buf[id].resendts, t)
    BY <1>2, <2>3
  <2> QED BY <2>4, <2>5, <2>6, Halves
<1> QED BY <1>3, <1>4

\* xmit times a timeout is at most MaxXmit times the largest.
LEMMA Product ==
  ASSUME NEW k \in 1..MaxXmit
  PROVE  k * RtoMax <= MaxXmit * RtoMax
BY Halves
\* No timeout reaches half around the clock.
LEMMA TimeoutRange ==
  ASSUME NEW seg, seg.xmit \in 1..MaxXmit, seg.rto \in 1..(seg.xmit * RtoMax)
  PROVE  Timeout(seg) \in 1..(Half - 1)
<1> DEFINE x == seg.xmit
           r == seg.rto
<1>1. x \in 1..MaxXmit /\ r \in 1..(x * RtoMax)
  OBVIOUS
<1>2. Timeout(seg) = IF x = 1 THEN r + r \div 8 ELSE r
  BY DEF Timeout
<1> HIDE DEF x, r
<1>3. r \in Nat /\ r >= 1
  BY <1>1
<1>4. CASE x = 1
  <2>1. r <= RtoMax
    BY <1>1, <1>4, Halves
  <2>2. r + r \div 8 <= RtoMax + RtoMax \div 8 /\ r \div 8 \in Nat
    BY <1>3, <2>1, Halves
  <2> QED BY <1>2, <1>3, <1>4, <2>2, Halves, ClockFacts
<1>5. CASE x # 1
  <2>1. x * RtoMax <= MaxXmit * RtoMax /\ x * RtoMax \in Nat
    BY <1>1, Product, Halves
  <2>2. r <= MaxXmit * RtoMax
    BY <1>1, <1>3, <2>1, Halves
  <2> QED BY <1>2, <1>3, <1>5, <2>2, Halves, ClockFacts
<1> QED BY <1>4, <1>5

\* What a flush at time t does to each segment: it is sent, and its timer is
\* one timeout ahead of t; or its timer is ahead of t and it stays as it is.
LEMMA FlushDataFacts ==
  ASSUME TypeOK, SegmentInv, NEW t \in Clock,
         NEW new \in SUBSET (Ids \ DOMAIN snd_buf), FlushData(t, new),
         \A id \in Overdue(t) : snd_buf[id].xmit # MaxXmit
  PROVE  /\ DOMAIN snd_buf' \subseteq Ids
         /\ age' \in [Ids -> Nat]
         /\ \A id \in DOMAIN snd_buf' :
              /\ snd_buf'[id].resendts \in Clock
              /\ snd_buf'[id].xmit \in 1..MaxXmit
              /\ snd_buf'[id].rto \in 1..(snd_buf'[id].xmit * RtoMax)
              /\ \/ /\ age'[id] = 0
                    /\ Timeout(snd_buf'[id]) \in (MaxGap + 1)..(Half - 1)
                    /\ Timediff(snd_buf'[id].resendts, t) = Timeout(snd_buf'[id])
                 \/ /\ id \in DOMAIN snd_buf
                    /\ snd_buf'[id] = snd_buf[id]
                    /\ age'[id] = age[id]
                    /\ Timediff(t, snd_buf[id].resendts) < 0
<1>1. /\ DOMAIN snd_buf' = DOMAIN snd_buf \cup new
      /\ DOMAIN snd_buf \subseteq Ids /\ new \subseteq Ids
      /\ new \cap DOMAIN snd_buf = {} /\ Overdue(t) \subseteq DOMAIN snd_buf
  BY DEF FlushData, TypeOK, Overdue
<1>2. age' \in [Ids -> Nat]
  BY DEF FlushData, TypeOK
<1>3. rx_rto \in (MaxGap + 1)..RtoMax /\ rx_rto \div 8 \in Nat
  BY Halves DEF TypeOK
<1>4. ASSUME NEW id \in new
      PROVE  /\ snd_buf'[id].resendts \in Clock
             /\ snd_buf'[id].xmit \in 1..MaxXmit
             /\ snd_buf'[id].rto \in 1..(snd_buf'[id].xmit * RtoMax)
             /\ age'[id] = 0
             /\ Timeout(snd_buf'[id]) \in (MaxGap + 1)..(Half - 1)
             /\ Timediff(snd_buf'[id].resendts, t) = Timeout(snd_buf'[id])
  <2>1. snd_buf'[id] = Fresh(t) /\ age'[id] = 0
    BY <1>1, <1>4 DEF FlushData
  <2>2. /\ Fresh(t).resendts = After(t, rx_rto + rx_rto \div 8)
        /\ Fresh(t).rto = rx_rto /\ Fresh(t).xmit = 1
        /\ Timeout(Fresh(t)) = rx_rto + rx_rto \div 8
    BY DEF Fresh, Timeout
  <2>3. 1 \in 1..MaxXmit /\ rx_rto \in 1..(1 * RtoMax)
    BY <1>3, Halves
  <2>4. rx_rto + rx_rto \div 8 \in (MaxGap + 1)..(Half - 1)
    <3>1. rx_rto + rx_rto \div 8 <= RtoMax + RtoMax \div 8
      BY <1>3, Halves
    <3> QED BY <1>3, <3>1, Halves, ClockFacts
  <2>5. /\ After(t, rx_rto + rx_rto \div 8) \in Clock
        /\ Timediff(After(t, rx_rto + rx_rto \div 8), t) = rx_rto + rx_rto \div 8
    BY <2>4, AfterAhead, Halves
  <2> QED BY <2>1, <2>2, <2>3, <2>4, <2>5
<1>5. ASSUME NEW id \in Overdue(t)
      PROVE  /\ snd_buf'[id].resendts \in Clock
             /\ snd_buf'[id].xmit \in 1..MaxXmit
             /\ snd_buf'[id].rto \in 1..(snd_buf'[id].xmit * RtoMax)
             /\ age'[id] = 0
             /\ Timeout(snd_buf'[id]) \in (MaxGap + 1)..(Half - 1)
             /\ Timediff(snd_buf'[id].resendts, t) = Timeout(snd_buf'[id])
  <2> DEFINE x == snd_buf[id].xmit
             r == snd_buf[id].rto
  <2>1. snd_buf'[id] = Again(snd_buf[id], t) /\ age'[id] = 0
    BY <1>1, <1>5 DEF FlushData
  <2>2. x \in 1..MaxXmit /\ x # MaxXmit /\ r \in 1..(x * RtoMax)
    BY <1>1, <1>5 DEF TypeOK, SegmentInv
  <2>3. /\ Again(snd_buf[id], t).resendts = After(t, r + rx_rto)
        /\ Again(snd_buf[id], t).rto = r + rx_rto
        /\ Again(snd_buf[id], t).xmit = x + 1
    BY DEF Again
  <2> HIDE DEF x, r
  <2>4. x + 1 \in 1..MaxXmit /\ x \in Nat /\ x + 1 # 1
    BY <2>2, Halves
  <2>5. r + rx_rto \in 1..((x + 1) * RtoMax)
    <3>1. (x + 1) * RtoMax = x * RtoMax + RtoMax /\ x * RtoMax \in Nat
      BY <2>4, Halves
    <3> QED BY <1>3, <2>2, <3>1, Halves
  <2>6. r + rx_rto \in (MaxGap + 1)..(Half - 1)
    <3>1. (x + 1) * RtoMax <= MaxXmit * RtoMax /\ (x + 1) * RtoMax \in Nat
      BY <2>4, Product, Halves
    <3> QED BY <1>3, <2>2, <2>4, <2>5, <3>1, Halves, ClockFacts
  <2>7. /\ After(t, r + rx_rto) \in Clock
        /\ Timediff(After(t, r + rx_rto), t) = r + rx_rto
    BY <2>6, AfterAhead, Halves
  <2>8. Timeout(Again(snd_buf[id], t)) = r + rx_rto
    BY <2>3, <2>4 DEF Timeout
  <2> QED BY <2>1, <2>3, <2>4, <2>5, <2>6, <2>7, <2>8
<1>6. ASSUME NEW id \in DOMAIN snd_buf, id \notin Overdue(t)
      PROVE  /\ snd_buf'[id].resendts \in Clock
             /\ snd_buf'[id].xmit \in 1..MaxXmit
             /\ snd_buf'[id].rto \in 1..(snd_buf'[id].xmit * RtoMax)
             /\ snd_buf'[id] = snd_buf[id]
             /\ age'[id] = age[id]
             /\ Timediff(t, snd_buf[id].resendts) < 0
  <2>1. snd_buf'[id] = snd_buf[id] /\ age'[id] = age[id]
    BY <1>1, <1>6 DEF FlushData
  <2>2. snd_buf[id].resendts \in Clock
    BY DEF TypeOK
  <2>3. Timediff(t, snd_buf[id].resendts) \in Int
    BY <2>2, TimediffValue
  <2>4. Timediff(t, snd_buf[id].resendts) < 0
    BY <1>6, <2>3 DEF Overdue
  <2> QED BY <2>1, <2>2, <2>4 DEF TypeOK, SegmentInv
<1> QED BY <1>1, <1>2, <1>4, <1>5, <1>6
\* The same times, seen from now instead of from the last update.
LEMMA SegmentNow ==
  ASSUME RetransmitInv, Regular, updated, NEW id \in DOMAIN snd_buf
  PROVE  LET due == Ahead(snd_buf[id].resendts)
         IN  /\ due \in Int /\ Ahead(now) \in Nat
             /\ Timediff(snd_buf[id].resendts, now) = due - Ahead(now)
             /\ due - Ahead(now) > -(Half - 1)
             /\ due - Ahead(now) <= Timeout(snd_buf[id])
             /\ Timeout(snd_buf[id]) \in 1..(Half - 1)
<1> DEFINE res == snd_buf[id].resendts
           due == Ahead(res)
           e == Ahead(now)
           L == Timeout(snd_buf[id])
           a == age[id]
<1>1. res \in Clock /\ now \in Clock /\ current \in Clock /\ patience \in Nat /\ a \in Nat
  BY DEF RetransmitInv, TypeOK
<1>2. due \in (-Half)..(Half - 1)
  BY <1>1, TimediffValue DEF Ahead
<1>3. L \in 1..(Half - 1)
  BY TimeoutRange DEF RetransmitInv, TypeOK, SegmentInv
<1>4. e \in Nat /\ e + patience - due <= (Interval - 1) + (MaxGap - 1)
      /\ a <= L + e - due
  BY DEF RetransmitInv, CallerInv, ResendInv
<1>5. due = Timediff(res, current) /\ e = Timediff(now, current)
  BY DEF Ahead
<1> HIDE DEF res, due, e, L, a
<1>6. due - e \in (-Half)..(Half - 1) /\ due - e > -(Half - 1) /\ due - e <= L
  BY <1>1, <1>2, <1>3, <1>4, Halves, ClockFacts
<1>7. Timediff(res, now) = due - e
  BY <1>1, <1>5, <1>6, Rebase
<1> QED BY <1>2, <1>3, <1>4, <1>6, <1>7 DEF res, due, e, L

LEMMA FlushTimerNow ==
  ASSUME RetransmitInv, Regular, updated
  PROVE  Timediff(ts_flush, now) = Ahead(ts_flush) - Ahead(now)
<1> DEFINE f == Ahead(ts_flush)
           e == Ahead(now)
<1>1. ts_flush \in Clock /\ now \in Clock /\ current \in Clock /\ patience \in Nat
  BY DEF RetransmitInv, TypeOK
<1>2. f \in 1..Interval /\ e \in Nat /\ e + patience <= MaxGap + Interval
  BY DEF RetransmitInv, CallerInv
<1>3. f = Timediff(ts_flush, current) /\ e = Timediff(now, current)
  BY DEF Ahead
<1> HIDE DEF f, e
<1>4. f - e \in (-Half)..(Half - 1)
  BY <1>1, <1>2, Halves, ClockFacts
<1>5. Timediff(ts_flush, now) = f - e
  BY <1>1, <1>3, <1>4, Rebase
<1> QED BY <1>5 DEF f, e

LEMMA ProbeNow ==
  ASSUME RetransmitInv, Regular, updated, probe_wait # 0
  PROVE  /\ Timediff(ts_probe, now) = Ahead(ts_probe) - Ahead(now)
         /\ Ahead(ts_probe) - Ahead(now) > -(Half - 1)
         /\ Ahead(ts_probe) \in Int
<1> DEFINE f == Ahead(ts_flush)
           e == Ahead(now)
           p == Ahead(ts_probe)
<1>1. ts_probe \in Clock /\ now \in Clock /\ current \in Clock /\ patience \in Nat
  BY DEF RetransmitInv, TypeOK
<1>2. f \in 1..Interval /\ e \in Nat /\ e + patience <= MaxGap
  BY DEF RetransmitInv, CallerInv
<1>3. p = Timediff(ts_probe, current) /\ e = Timediff(now, current)
  BY DEF Ahead
<1>4. p \in (-Half)..(Half - 1)
  BY <1>1, <1>3, TimediffValue
<1>5. f - p <= Interval - 1 /\ p - e <= ProbeLimit
  BY DEF RetransmitInv, ProbeInv
<1> HIDE DEF f, e, p
<1>6. p - e \in (-Half)..(Half - 1) /\ p - e > -(Half - 1)
  BY <1>1, <1>2, <1>4, <1>5, Halves, ClockFacts
<1>7. Timediff(ts_probe, now) = p - e
  BY <1>1, <1>3, <1>6, Rebase
<1> QED BY <1>4, <1>6, <1>7 DEF f, e, p
\* What a flush at time t does to the probe timer.
LEMMA FlushProbeFacts ==
  ASSUME TypeOK, NEW t \in Clock, FlushProbe(t)
  PROVE  /\ probe_wait' \in Nat /\ ts_probe' \in Clock /\ quiet' \in Nat
         /\ ~ closed => probe_wait' = 0 /\ quiet' = 0
         /\ closed =>
              /\ probe_wait' # 0
              /\ \/ /\ probe_wait = 0
                    /\ quiet' = quiet
                    /\ Timediff(ts_probe', t) = ProbeInit
                 \/ /\ probe_wait # 0
                    /\ UNCHANGED <<probe_wait, ts_probe, quiet>>
                    /\ Timediff(t, ts_probe) < 0
                 \/ /\ probe_wait # 0
                    /\ quiet' = 0
                    /\ Timediff(ts_probe', t) \in 1..ProbeLimit
<1>1. probe_wait \in Nat /\ ts_probe \in Clock /\ quiet \in Nat /\ closed \in BOOLEAN
  BY DEF TypeOK
<1>2. CASE ~ closed
  <2>1. probe_wait' = 0 /\ ts_probe' = 0 /\ quiet' = 0
    BY <1>2 DEF FlushProbe
  <2> QED BY <1>2, <2>1, ClockFacts DEF Clock
<1>3. CASE closed /\ probe_wait = 0
  <2>1. probe_wait' = ProbeInit /\ ts_probe' = After(t, ProbeInit) /\ quiet' = quiet
    BY <1>3 DEF FlushProbe
  <2>2. ProbeInit \in 0..(Half - 1) /\ ProbeInit \in Nat \ {0}
    BY Halves, ClockFacts
  <2>3. After(t, ProbeInit) \in Clock /\ Timediff(After(t, ProbeInit), t) = ProbeInit
    BY <2>2, AfterAhead
  <2> QED BY <1>1, <1>3, <2>1, <2>2, <2>3
<1>4. CASE closed /\ probe_wait # 0 /\ UNCHANGED <<probes, quiet>> /\ Timediff(t, ts_probe) < 0
  BY <1>1, <1>4 DEF probes
<1>5. CASE /\ closed /\ probe_wait # 0
           /\ probe_wait' = Longer(probe_wait)
           /\ ts_probe' = After(t, Longer(probe_wait))
           /\ quiet' = 0
  <2> DEFINE w == Longer(probe_wait)
  <2>1. w \in 1..ProbeLimit
    <3>1. probe_wait \div 2 \in Nat
      BY <1>1
    <3>2. probe_wait + probe_wait \div 2 \in Nat \ {0}
      BY <1>1, <1>5, <3>1
    <3> QED BY <3>2, Halves DEF Longer, Lesser
  <2>2. w \in 0..(Half - 1)
    <3> HIDE DEF w
    <3> QED BY <2>1, Halves, ClockFacts
  <2>3. After(t, w) \in Clock /\ Timediff(After(t, w), t) = w
    BY <2>2, AfterAhead
  <2>4. w \in Nat /\ w # 0
    <3> HIDE DEF w
    <3> QED BY <2>1, Halves
  <2> QED BY <1>1, <1>5, <2>1, <2>3, <2>4
<1> QED BY <1>1, <1>2, <1>3, <1>4, <1>5 DEF FlushProbe

LEMMA RetransmitInit == Init => RetransmitInv
<1> SUFFICES ASSUME Init PROVE RetransmitInv
  OBVIOUS
<1>1. TypeOK
  <2>1. 0 \in Clock /\ Interval \in Clock
    BY ClockFacts DEF Clock
  <2>2. DOMAIN snd_buf = {}
    BY DEF Init
  <2> QED BY <2>1, <2>2 DEF Init, TypeOK
<1>2. SegmentInv /\ ResendInv
  BY DEF Init, SegmentInv, ResendInv
<1>3. CallerInv /\ ProbeInv
  BY DEF Init, CallerInv, ProbeInv
<1> QED BY <1>1, <1>2, <1>3 DEF Init, RetransmitInv

\* How long the caller stays away after an update.
LEMMA LeaveFacts ==
  ASSUME Leave, now \in Clock, ts_flush' \in Clock, caller \in Callers,
         \A id \in DOMAIN snd_buf' : snd_buf'[id].resendts \in Clock
  PROVE  /\ caller' = caller
         /\ patience' \in MaxGap..(MaxGap + Interval)
         /\ caller # "sleeps" => patience' = MaxGap
         /\ \/ patience' = MaxGap
            \/ \A id \in DOMAIN snd_buf' :
                 patience' - MaxGap <= Timediff(snd_buf'[id].resendts, now)
<1> DEFINE w == Check(now, ts_flush', snd_buf')
<1>1. w \in 0..Interval
  BY CheckFacts
<1>2. w # 0 => \A id \in DOMAIN snd_buf' : w <= Timediff(snd_buf'[id].resendts, now)
  BY CheckFacts
<1>3. /\ patience' = MaxGap + IF caller = "sleeps" THEN w ELSE 0
      /\ caller' = caller
  BY DEF Leave
<1> HIDE DEF w
<1>4. CASE caller # "sleeps" \/ w = 0
  BY <1>3, <1>4, Halves
<1>5. CASE caller = "sleeps" /\ w # 0
  <2>1. patience' = MaxGap + w /\ patience' - MaxGap = w
    BY <1>1, <1>3, <1>5, Halves
  <2> QED BY <1>1, <1>2, <1>3, <1>5, <2>1, Halves
<1> QED BY <1>4, <1>5
LEMMA EarlyKeeps ==
  ASSUME RetransmitInv, TimerInv, UpdateEarly
  PROVE  RetransmitInv'
<1>1. TypeOK /\ SegmentInv /\ now \in Clock
  BY DEF RetransmitInv, TypeOK
<1>2. /\ current' = now /\ updated' = TRUE /\ ts_flush' = Timer
      /\ UNCHANGED <<now, snd_buf, rx_rto, closed, probe_wait, ts_probe, age, quiet>>
      /\ Timediff(now, Timer) < 0 /\ Leave
  BY DEF UpdateEarly, probes
<1>3. Timer \in Clock
  BY TimerNear
<1>4. /\ caller' = caller /\ patience' \in MaxGap..(MaxGap + Interval)
      /\ caller # "sleeps" => patience' = MaxGap
      /\ \/ patience' = MaxGap
         \/ \A id \in DOMAIN snd_buf :
              patience' - MaxGap <= Timediff(snd_buf[id].resendts, now)
  BY <1>1, <1>2, <1>3, LeaveFacts DEF TypeOK
<1>5. TypeOK' /\ SegmentInv'
  BY <1>1, <1>2, <1>3, <1>4, Halves DEF TypeOK, SegmentInv
<1>6. ASSUME Regular PROVE (CallerInv /\ ResendInv /\ ProbeInv)'
  <2>1. Timediff(now, now) = 0
    BY <1>1, TimediffSelf
  <2>2. updated /\ Timer = ts_flush
    <3>1. Timer # now
      BY <1>2, <2>1
    <3> QED BY <3>1, ClockFacts DEF Timer
  <2> DEFINE f == Ahead(ts_flush)
             e == Ahead(now)
             f1 == Timediff(ts_flush, now)
  <2>3. /\ f \in 1..Interval /\ e \in Nat /\ e + patience <= MaxGap + Interval
        /\ caller = "polls" => e + patience <= MaxGap
    BY <1>6, <2>2 DEF RetransmitInv, CallerInv
  <2>4. f1 = f - e /\ f1 \in 1..JumpLimit
    BY <1>2, <1>6, <2>2, FlushTimerNow, EarlyAhead
  <2>5. Ahead(ts_flush)' = f1 /\ Ahead(now)' = 0
    BY <1>2, <2>1, <2>2 DEF Ahead
  <2>6. CallerInv'
    <3>1. f1 \in 1..Interval
      <4> HIDE DEF f, e, f1
      <4> QED BY <2>3, <2>4, Halves, ClockFacts
    <3>2. 0 + patience' <= MaxGap + Interval /\ (caller = "polls" => 0 + patience' <= MaxGap)
      <4> DEFINE q == patience'
      <4>1. q \in MaxGap..(MaxGap + Interval)
        BY <1>4
      <4>2. caller = "polls" => q = MaxGap
        BY <1>4
      <4> HIDE DEF q
      <4>3. 0 + q <= MaxGap + Interval /\ (caller = "polls" => 0 + q <= MaxGap)
        BY <4>1, <4>2, Small
      <4> QED BY <4>3 DEF q
    <3> HIDE DEF f1
    <3> QED BY <1>2, <1>4, <2>5, <3>1, <3>2 DEF CallerInv
  <2>7. ASSUME NEW id \in DOMAIN snd_buf'
        PROVE  LET due == Ahead(snd_buf[id].resendts)'
               IN  /\ f1 - due <= Interval - 1
                   /\ 0 + patience' - due <= (Interval - 1) + (MaxGap - 1)
                   /\ age'[id] <= Timeout(snd_buf'[id]) + 0 - due
                   /\ caller' = "sleeps" => age'[id] = Timeout(snd_buf'[id]) + 0 - due
    <3> DEFINE d == Ahead(snd_buf[id].resendts)
               d1 == Timediff(snd_buf[id].resendts, now)
               L == Timeout(snd_buf[id])
               a == age[id]
    <3>1. id \in DOMAIN snd_buf /\ snd_buf'[id] = snd_buf[id] /\ age'[id] = a
      BY <1>2, <2>7
    <3>2. d1 = d - e /\ d \in Int /\ L \in 1..(Half - 1)
      BY <1>6, <2>2, <3>1, SegmentNow
    <3>3. /\ f - d <= Interval - 1 /\ a <= L + e - d
          /\ caller = "sleeps" => a = L + e - d
      BY <1>6, <3>1 DEF RetransmitInv, ResendInv
    <3>4. patience' = MaxGap \/ patience' - MaxGap <= d1
      BY <1>4, <3>1
    <3>5. a \in Nat /\ patience \in Nat
      BY <1>1, <3>1 DEF TypeOK
    <3>6. Ahead(snd_buf[id].resendts)' = d1
      BY <1>2 DEF Ahead
    <3> HIDE DEF f, e, f1, d, d1, L, a
    <3>7. f1 - d1 <= Interval - 1
      BY <2>3, <2>4, <3>2, <3>3, Halves
    <3>8. a <= L + 0 - d1 /\ (caller = "sleeps" => a = L + 0 - d1)
      BY <2>3, <3>2, <3>3, <3>5, Halves, ClockFacts
    <3>9. 0 + patience' - d1 <= (Interval - 1) + (MaxGap - 1)
      <4>1. patience' \in Nat /\ d1 \in Int /\ f1 >= 1 /\ f1 \in Int
        BY <1>4, <2>3, <2>4, <3>2, Halves, ClockFacts
      <4> DEFINE q == patience'
      <4>2. q \in Nat /\ (q = MaxGap \/ q - MaxGap <= d1)
        BY <3>4, <4>1
      <4> HIDE DEF q
      <4>3. 0 + q - d1 <= (Interval - 1) + (MaxGap - 1)
        BY <3>7, <4>1, <4>2, Small
      <4> QED BY <4>3 DEF q
    <3> QED BY <1>4, <3>1, <3>6, <3>7, <3>8, <3>9 DEF L
  <2>8. ResendInv'
    <3> HIDE DEF f1
    <3> QED BY <1>2, <2>5, <2>7 DEF ResendInv
  <2>9. ProbeInv'
    <3> DEFINE p == Ahead(ts_probe)
               p1 == Timediff(ts_probe, now)
    <3>1. probe_wait # 0 => p1 = p - e /\ p \in Int
      BY <1>6, <2>2, ProbeNow
    <3>2. Ahead(ts_probe)' = p1
      BY <1>2 DEF Ahead
    <3>3. /\ probe_wait # 0 => f - p <= Interval - 1 /\ p - e <= ProbeLimit
          /\ quiet > 0 => closed
          /\ closed /\ probe_wait = 0 => f - e + quiet <= Interval
          /\ closed /\ probe_wait # 0 =>
               \/ quiet + p - e <= ProbeLimit
               \/ quiet + p - e <= (Interval + MaxGap - 1) + ProbeInit
      BY <1>6, <2>2 DEF RetransmitInv, ProbeInv
    <3>4. quiet \in Nat
      BY <1>1 DEF TypeOK
    <3> HIDE DEF f, e, f1, p, p1
    <3>5. /\ probe_wait # 0 => f1 - p1 <= Interval - 1 /\ p1 - 0 <= ProbeLimit
          /\ closed /\ probe_wait = 0 => f1 - 0 + quiet <= Interval
      BY <2>3, <2>4, <3>1, <3>3, <3>4, Halves
    <3>6. closed /\ probe_wait # 0 =>
            \/ quiet + p1 - 0 <= ProbeLimit
            \/ quiet + p1 - 0 <= (Interval + MaxGap - 1) + ProbeInit
      BY <2>3, <2>4, <3>1, <3>3, <3>4, Halves
    <3> QED BY <1>2, <2>5, <3>2, <3>3, <3>5, <3>6 DEF ProbeInv
  <2> QED BY <2>6, <2>8, <2>9
<1> QED BY <1>2, <1>4, <1>5, <1>6 DEF RetransmitInv, Regular
LEMMA FlushKeeps ==
  ASSUME RetransmitInv, TimerInv,
         NEW new \in SUBSET (Ids \ DOMAIN snd_buf), UpdateFlush(new)
  PROVE  RetransmitInv'
<1> DEFINE pat == patience'
           f1 == Timediff(NextFlush, now)
<1>1. TypeOK /\ SegmentInv /\ now \in Clock
  BY DEF RetransmitInv, TypeOK
<1>2. /\ current' = now /\ updated' = TRUE /\ ts_flush' = NextFlush
      /\ UNCHANGED <<now, rx_rto, closed>>
      /\ FlushData(now, new) /\ FlushProbe(now) /\ Leave
  BY DEF UpdateFlush, Flush
<1>3. NextFlush \in Clock /\ f1 \in 1..Interval
  BY FlushSetsAhead DEF UpdateFlush
<1>4. \A id \in Overdue(now) : snd_buf[id].xmit # MaxXmit
  <2>1. \A id \in DOMAIN snd_buf : Timediff(now, snd_buf[id].resendts) \in Int
    BY <1>1, TimediffValue DEF TypeOK
  <2> QED BY <1>1, <2>1 DEF SegmentInv, Overdue
<1>5. /\ DOMAIN snd_buf' \subseteq Ids
      /\ age' \in [Ids -> Nat]
      /\ \A id \in DOMAIN snd_buf' :
           /\ snd_buf'[id].resendts \in Clock
           /\ snd_buf'[id].xmit \in 1..MaxXmit
           /\ snd_buf'[id].rto \in 1..(snd_buf'[id].xmit * RtoMax)
           /\ \/ /\ age'[id] = 0
                 /\ Timeout(snd_buf'[id]) \in (MaxGap + 1)..(Half - 1)
                 /\ Timediff(snd_buf'[id].resendts, now) = Timeout(snd_buf'[id])
              \/ /\ id \in DOMAIN snd_buf
                 /\ snd_buf'[id] = snd_buf[id]
                 /\ age'[id] = age[id]
                 /\ Timediff(now, snd_buf[id].resendts) < 0
  BY <1>1, <1>2, <1>4, FlushDataFacts
<1>6. /\ probe_wait' \in Nat /\ ts_probe' \in Clock /\ quiet' \in Nat
      /\ ~ closed => probe_wait' = 0 /\ quiet' = 0
      /\ closed =>
           /\ probe_wait' # 0
           /\ \/ /\ probe_wait = 0
                 /\ quiet' = quiet
                 /\ Timediff(ts_probe', now) = ProbeInit
              \/ /\ probe_wait # 0
                 /\ UNCHANGED <<probe_wait, ts_probe, quiet>>
                 /\ Timediff(now, ts_probe) < 0
              \/ /\ probe_wait # 0
                 /\ quiet' = 0
                 /\ Timediff(ts_probe', now) \in 1..ProbeLimit
  BY <1>1, <1>2, FlushProbeFacts
<1>7. /\ caller' = caller /\ pat \in MaxGap..(MaxGap + Interval)
      /\ caller # "sleeps" => pat = MaxGap
      /\ \/ pat = MaxGap
         \/ \A id \in DOMAIN snd_buf' :
              pat - MaxGap <= Timediff(snd_buf'[id].resendts, now)
  BY <1>1, <1>2, <1>3, <1>5, LeaveFacts DEF TypeOK
<1>8. pat \in Nat
  <2> HIDE DEF pat
  <2> QED BY <1>7, Small
<1>9. TypeOK'
  <2>1. \A id \in DOMAIN snd_buf' : snd_buf'[id].rto \in Nat
    BY <1>5
  <2> QED BY <1>1, <1>2, <1>3, <1>5, <1>6, <1>7, <1>8, <2>1 DEF TypeOK
<1>10. SegmentInv'
  <2>1. ASSUME NEW id \in DOMAIN snd_buf', snd_buf'[id].xmit = MaxXmit
        PROVE  Timediff(now, snd_buf'[id].resendts) < 0
    <3>1. snd_buf'[id].resendts \in Clock
      BY <1>5
    <3>2. CASE Timediff(snd_buf'[id].resendts, now) = Timeout(snd_buf'[id])
               /\ Timeout(snd_buf'[id]) \in (MaxGap + 1)..(Half - 1)
      <4> DEFINE d == Timediff(snd_buf'[id].resendts, now)
                 b == Timediff(now, snd_buf'[id].resendts)
      <4>1. d \in (MaxGap + 1)..(Half - 1)
        BY <3>2
      <4>2. b >= 0 <=> d \in (1 - Half)..0
        BY <1>1, <3>1, Opposite
      <4>3. b \in (-Half)..(Half - 1)
        BY <1>1, <3>1, TimediffValue
      <4> HIDE DEF d, b
      <4>4. b < 0
        BY <4>1, <4>2, <4>3, Small, ClockFacts
      <4> QED BY <4>4 DEF b
    <3>3. CASE snd_buf'[id] = snd_buf[id] /\ Timediff(now, snd_buf[id].resendts) < 0
      BY <3>3
    <3> QED BY <1>5, <2>1, <3>2, <3>3
  <2> QED BY <1>2, <1>5, <2>1 DEF SegmentInv
<1>11. ASSUME Regular PROVE (CallerInv /\ ResendInv /\ ProbeInv)'
  <2>1. Ahead(now)' = 0 /\ Ahead(ts_flush)' = f1
    BY <1>1, <1>2, TimediffSelf DEF Ahead
  <2>2. CallerInv'
    <3> HIDE DEF pat, f1
    <3>1. 0 + pat <= MaxGap + Interval /\ (caller = "polls" => 0 + pat <= MaxGap)
      BY <1>7, <1>8, Small
    <3> QED BY <1>2, <1>3, <1>7, <2>1, <3>1 DEF CallerInv, pat
  <2>3. ASSUME NEW id \in DOMAIN snd_buf'
        PROVE  LET due == Ahead(snd_buf[id].resendts)'
               IN  /\ f1 - due <= Interval - 1
                   /\ 0 + pat - due <= (Interval - 1) + (MaxGap - 1)
                   /\ age'[id] <= Timeout(snd_buf'[id]) + 0 - due
                   /\ caller' = "sleeps" => age'[id] = Timeout(snd_buf'[id]) + 0 - due
    <3> DEFINE d1 == Timediff(snd_buf'[id].resendts, now)
               L1 == Timeout(snd_buf'[id])
               a1 == age'[id]
    <3>1. Ahead(snd_buf[id].resendts)' = d1
      BY <1>2 DEF Ahead
    <3>2. pat = MaxGap \/ pat - MaxGap <= d1
      BY <1>7
    <3>3. d1 \in Int /\ d1 >= 1 /\ L1 \in Int
          /\ a1 <= L1 + 0 - d1 /\ (caller = "sleeps" => a1 = L1 + 0 - d1)
      <4>1. CASE d1 = L1 /\ a1 = 0 /\ L1 \in (MaxGap + 1)..(Half - 1)
        <5> HIDE DEF d1, L1, a1
        <5> QED BY <4>1, Small, ClockFacts
      <4>2. CASE /\ id \in DOMAIN snd_buf
                 /\ snd_buf'[id] = snd_buf[id]
                 /\ age'[id] = age[id]
                 /\ Timediff(now, snd_buf[id].resendts) < 0
        <5> DEFINE d == Ahead(snd_buf[id].resendts)
                   e == Ahead(now)
                   L == Timeout(snd_buf[id])
                   a == age[id]
                   b == Timediff(now, snd_buf[id].resendts)
        <5>1. updated
          <6>1. ~ updated => DOMAIN snd_buf = {}
            BY <1>11 DEF RetransmitInv, CallerInv
          <6> QED BY <4>2, <6>1
        <5>2. d1 = d - e /\ d \in Int /\ e \in Nat /\ L \in 1..(Half - 1)
              /\ d - e > -(Half - 1) /\ d - e <= L
          BY <1>11, <4>2, <5>1, SegmentNow
        <5>3. b >= 0 <=> d1 \in (1 - Half)..0
          BY <1>1, <4>2, Opposite DEF TypeOK
        <5>4. b < 0 /\ L1 = L /\ a1 = a
          BY <4>2
        <5>5. a <= L + e - d /\ (caller = "sleeps" => a = L + e - d)
          BY <1>11, <4>2 DEF RetransmitInv, ResendInv
        <5>6. a \in Nat
          BY <1>1, <4>2 DEF TypeOK
        <5>7. b \in Int
          BY <1>1, <4>2, TimediffValue DEF TypeOK
        <5> HIDE DEF d1, L1, a1, d, e, L, a, b
        <5> QED BY <5>2, <5>3, <5>4, <5>5, <5>6, <5>7, ClockFacts
      <4> QED BY <1>5, <4>1, <4>2
    <3> HIDE DEF d1, L1, a1, pat, f1
    <3>4. f1 - d1 <= Interval - 1
      BY <1>3, <3>3, Small
    <3>5. 0 + pat - d1 <= (Interval - 1) + (MaxGap - 1)
      BY <1>8, <3>2, <3>3, Small
    <3> QED BY <1>7, <3>1, <3>3, <3>4, <3>5 DEF L1, a1
  <2>4. ResendInv'
    <3> HIDE DEF f1
    <3> QED BY <1>2, <2>1, <2>3 DEF ResendInv, pat
  <2>5. ProbeInv'
    <3> DEFINE p1 == Timediff(ts_probe', now)
               q1 == quiet'
    <3>1. Ahead(ts_probe)' = p1
      BY <1>2 DEF Ahead
    <3>2. CASE ~ closed
      BY <1>2, <1>6, <3>2 DEF ProbeInv
    <3>3. CASE closed
      <4>1. caller = "polls"
        BY <3>3 DEF RetransmitInv
      <4>2. /\ p1 \in Int /\ q1 \in Nat
            /\ p1 >= 1 /\ p1 <= ProbeLimit
            /\ \/ q1 + p1 - 0 <= ProbeLimit
               \/ q1 + p1 - 0 <= (Interval + MaxGap - 1) + ProbeInit
        <5>1. CASE probe_wait = 0 /\ quiet' = quiet /\ Timediff(ts_probe', now) = ProbeInit
          <6> DEFINE f == Ahead(ts_flush)
                     e == Ahead(now)
          <6>1. q1 = quiet /\ p1 = ProbeInit /\ quiet \in Nat /\ patience \in Nat
            BY <1>1, <5>1 DEF TypeOK
          <6>2. ~ updated => quiet = 0
            BY <1>11 DEF RetransmitInv, CallerInv
          <6>3. updated => /\ f - e + quiet <= Interval
                           /\ f \in 1..Interval /\ e \in Nat /\ e + patience <= MaxGap
            BY <1>11, <3>3, <4>1, <5>1 DEF RetransmitInv, CallerInv, ProbeInv
          <6> HIDE DEF f, e, q1, p1
          <6>4. quiet <= Interval + MaxGap - 1
            BY <6>1, <6>2, <6>3, Small
          <6> QED BY <6>1, <6>4, Small, Halves
        <5>2. CASE /\ probe_wait # 0
                   /\ UNCHANGED <<probe_wait, ts_probe, quiet>>
                   /\ Timediff(now, ts_probe) < 0
          <6> DEFINE p == Ahead(ts_probe)
                     e == Ahead(now)
                     b == Timediff(now, ts_probe)
          <6>1. updated
            BY <1>11, <5>2 DEF RetransmitInv, CallerInv
          <6>2. q1 = quiet /\ p1 = Timediff(ts_probe, now) /\ quiet \in Nat
            BY <1>1, <5>2 DEF TypeOK
          <6>3. p1 = p - e /\ p - e > -(Half - 1) /\ p \in Int /\ e \in Nat
            BY <1>11, <5>2, <6>1, <6>2, ProbeNow DEF RetransmitInv, CallerInv
          <6>4. b >= 0 <=> p1 \in (1 - Half)..0
            BY <1>1, <6>2, Opposite DEF TypeOK
          <6>5. b < 0 /\ b \in Int
            BY <1>1, <5>2, TimediffValue DEF TypeOK
          <6>6. p - e <= ProbeLimit
                /\ \/ quiet + p - e <= ProbeLimit
                   \/ quiet + p - e <= (Interval + MaxGap - 1) + ProbeInit
            BY <1>11, <3>3, <5>2 DEF RetransmitInv, ProbeInv
          <6> HIDE DEF p, e, b, q1, p1
          <6>7. p1 >= 1
            BY <6>3, <6>4, <6>5, ClockFacts
          <6> QED BY <6>2, <6>3, <6>6, <6>7, Small, Halves
        <5>3. CASE quiet' = 0 /\ Timediff(ts_probe', now) \in 1..ProbeLimit
          <6>1. q1 = 0 /\ p1 \in 1..ProbeLimit
            BY <5>3
          <6> HIDE DEF q1, p1
          <6> QED BY <6>1, Halves
        <5> QED BY <1>6, <3>3, <5>1, <5>2, <5>3
      <4>3. closed' /\ probe_wait' # 0
        BY <1>2, <1>6, <3>3
      <4> HIDE DEF p1, q1, f1
      <4>4. f1 - p1 <= Interval - 1 /\ p1 - 0 <= ProbeLimit
        BY <1>3, <4>2, Small, Halves
      <4> QED BY <2>1, <3>1, <4>2, <4>3, <4>4 DEF ProbeInv, q1
    <3> QED BY <3>2, <3>3, <1>1 DEF TypeOK
  <2> QED BY <2>2, <2>4, <2>5
<1>12. closed' \/ probe_wait' # 0 \/ quiet' # 0 => caller' = "polls"
  BY <1>2, <1>6, <1>7 DEF RetransmitInv
<1> QED BY <1>7, <1>9, <1>10, <1>11, <1>12 DEF RetransmitInv, Regular
LEMMA AgainKeeps ==
  ASSUME RetransmitInv,
         NEW new \in SUBSET (Ids \ DOMAIN snd_buf), FlushAgain(new)
  PROVE  RetransmitInv'
<1> DEFINE e == Ahead(now)
           f == Ahead(ts_flush)
<1>1. TypeOK /\ SegmentInv /\ now \in Clock /\ current \in Clock
  BY DEF RetransmitInv, TypeOK
<1>2. /\ updated /\ (now = current \/ caller = "polls")
      /\ UNCHANGED <<now, current, updated, ts_flush, rx_rto, closed, caller, patience>>
      /\ FlushData(current, new) /\ FlushProbe(current)
  BY DEF FlushAgain, Flush, timers
<1>3. now = current => e = 0
  BY <1>1, TimediffSelf DEF Ahead
<1>4. caller = "polls" => Regular
  BY DEF Regular
<1>5. Regular =>
        /\ f \in 1..Interval /\ e \in Nat /\ patience \in Nat
        /\ e + patience <= MaxGap + Interval
        /\ caller = "polls" => e + patience <= MaxGap
        /\ caller # "polls" => e = 0
  BY <1>1, <1>2, <1>3 DEF RetransmitInv, CallerInv, TypeOK
<1>6. ASSUME NEW id \in Overdue(current) PROVE snd_buf[id].xmit # MaxXmit
  <2> DEFINE res == snd_buf[id].resendts
             b == Timediff(now, res)
             d == Ahead(res)
             b0 == Timediff(current, res)
  <2>1. id \in DOMAIN snd_buf /\ b0 >= 0
    BY DEF Overdue
  <2>2. res \in Clock
    BY <1>1, <2>1 DEF TypeOK
  <2>3. b \in Int
    BY <1>1, <2>2, TimediffValue
  <2>4. snd_buf[id].xmit = MaxXmit => b < 0
    BY <1>1, <2>1 DEF SegmentInv
  <2>5. CASE now = current
    <3>1. b = b0
      BY <2>5
    <3> HIDE DEF b, b0
    <3> QED BY <2>1, <2>3, <2>4, <3>1
  <2>6. CASE caller = "polls"
    <3>1. /\ d \in Int /\ e \in Nat /\ Timediff(res, now) = d - e
          /\ d - e > -(Half - 1)
      BY <1>2, <1>4, <2>1, <2>6, SegmentNow
    <3>2. b >= 0 <=> Timediff(res, now) \in (1 - Half)..0
      BY <1>1, <2>2, Opposite
    <3>3. b0 >= 0 <=> d \in (1 - Half)..0
      BY <1>1, <2>2, Opposite DEF Ahead
    <3> HIDE DEF b, b0, d, e, res
    <3>4. b >= 0
      BY <2>1, <3>1, <3>2, <3>3, ClockFacts
    <3> QED BY <2>3, <2>4, <3>4
  <2> QED BY <1>2, <2>5, <2>6
<1>7. /\ DOMAIN snd_buf' \subseteq Ids
      /\ age' \in [Ids -> Nat]
      /\ \A id \in DOMAIN snd_buf' :
           /\ snd_buf'[id].resendts \in Clock
           /\ snd_buf'[id].xmit \in 1..MaxXmit
           /\ snd_buf'[id].rto \in 1..(snd_buf'[id].xmit * RtoMax)
           /\ \/ /\ age'[id] = 0
                 /\ Timeout(snd_buf'[id]) \in (MaxGap + 1)..(Half - 1)
                 /\ Timediff(snd_buf'[id].resendts, current) = Timeout(snd_buf'[id])
              \/ /\ id \in DOMAIN snd_buf
                 /\ snd_buf'[id] = snd_buf[id]
                 /\ age'[id] = age[id]
                 /\ Timediff(current, snd_buf[id].resendts) < 0
  BY <1>1, <1>2, <1>6, FlushDataFacts
<1>8. /\ probe_wait' \in Nat /\ ts_probe' \in Clock /\ quiet' \in Nat
      /\ ~ closed => probe_wait' = 0 /\ quiet' = 0
      /\ closed =>
           /\ probe_wait' # 0
           /\ \/ /\ probe_wait = 0
                 /\ quiet' = quiet
                 /\ Timediff(ts_probe', current) = ProbeInit
              \/ /\ probe_wait # 0
                 /\ UNCHANGED <<probe_wait, ts_probe, quiet>>
                 /\ Timediff(current, ts_probe) < 0
              \/ /\ probe_wait # 0
                 /\ quiet' = 0
                 /\ Timediff(ts_probe', current) \in 1..ProbeLimit
  BY <1>1, <1>2, FlushProbeFacts
<1>9. TypeOK'
  <2>1. \A id \in DOMAIN snd_buf' : snd_buf'[id].rto \in Nat
    BY <1>7
  <2> QED BY <1>1, <1>2, <1>7, <1>8, <2>1 DEF TypeOK
<1>10. SegmentInv'
  <2>1. ASSUME NEW id \in DOMAIN snd_buf', snd_buf'[id].xmit = MaxXmit
        PROVE  Timediff(now, snd_buf'[id].resendts) < 0
    <3> DEFINE res == snd_buf'[id].resendts
               L == Timeout(snd_buf'[id])
               d == Timediff(res, current)
               d1 == Timediff(res, now)
               b == Timediff(now, res)
    <3>1. res \in Clock
      BY <1>7
    <3>2. CASE d = L /\ L \in (MaxGap + 1)..(Half - 1)
      <4>1. e \in 0..MaxGap
        <5>1. CASE now = current
          BY <1>3, <5>1, Small
        <5>2. CASE caller = "polls"
          <6>1. e \in Nat /\ patience \in Nat /\ e + patience <= MaxGap
            BY <1>4, <1>5, <5>2
          <6> HIDE DEF e
          <6> QED BY <6>1, Small
        <5> QED BY <1>2, <5>1, <5>2
      <4>2. e = Timediff(now, current)
        BY DEF Ahead
      <4>3. b >= 0 <=> d1 \in (1 - Half)..0
        BY <1>1, <3>1, Opposite
      <4>4. b \in (-Half)..(Half - 1)
        BY <1>1, <3>1, TimediffValue
      <4> HIDE DEF res, L, d, d1, b, e
      <4>5. d - e \in (-Half)..(Half - 1) /\ d - e >= 1
        BY <3>2, <4>1, Small, ClockFacts
      <4>6. d1 = d - e
        BY <1>1, <3>1, <4>2, <4>5, Rebase DEF d, d1
      <4>7. b < 0
        BY <4>3, <4>4, <4>5, <4>6, ClockFacts
      <4> QED BY <4>7 DEF b, res
    <3>3. CASE id \in DOMAIN snd_buf /\ snd_buf'[id] = snd_buf[id]
      BY <1>1, <2>1, <3>3 DEF SegmentInv
    <3> QED BY <1>7, <3>2, <3>3
  <2> QED BY <1>2, <1>7, <2>1 DEF SegmentInv
<1>11. ASSUME Regular PROVE (CallerInv /\ ResendInv /\ ProbeInv)'
  <2>1. Ahead(now)' = e /\ Ahead(ts_flush)' = f
    BY <1>2 DEF Ahead
  <2>2. CallerInv'
    BY <1>2, <1>5, <1>11, <2>1 DEF CallerInv
  <2>3. ASSUME NEW id \in DOMAIN snd_buf'
        PROVE  LET due == Ahead(snd_buf[id].resendts)'
               IN  /\ f - due <= Interval - 1
                   /\ e + patience - due <= (Interval - 1) + (MaxGap - 1)
                   /\ age'[id] <= Timeout(snd_buf'[id]) + e - due
                   /\ caller' = "sleeps" => age'[id] = Timeout(snd_buf'[id]) + e - due
    <3> DEFINE d1 == Timediff(snd_buf'[id].resendts, current)
               L1 == Timeout(snd_buf'[id])
               a1 == age'[id]
    <3>1. Ahead(snd_buf[id].resendts)' = d1
      BY <1>2 DEF Ahead
    <3>2. CASE a1 = 0 /\ L1 \in (MaxGap + 1)..(Half - 1) /\ d1 = L1
      <4>1. /\ f \in 1..Interval /\ e \in Nat /\ patience \in Nat
            /\ e + patience <= MaxGap + Interval
            /\ caller = "polls" => e + patience <= MaxGap
            /\ caller # "polls" => e = 0
        BY <1>5, <1>11
      <4> HIDE DEF d1, L1, a1, e, f
      <4>2. f - d1 <= Interval - 1
        BY <3>2, <4>1, Small, ClockFacts
      <4>3. e + patience - d1 <= (Interval - 1) + (MaxGap - 1)
        BY <3>2, <4>1, Small, ClockFacts
      <4>4. a1 <= L1 + e - d1 /\ (caller = "sleeps" => a1 = L1 + e - d1)
        BY <3>2, <4>1, Small, ClockFacts
      <4> QED BY <1>2, <3>1, <4>2, <4>3, <4>4 DEF a1, L1
    <3>3. CASE /\ id \in DOMAIN snd_buf
               /\ snd_buf'[id] = snd_buf[id]
               /\ age'[id] = age[id]
      BY <1>2, <1>11, <3>3 DEF RetransmitInv, ResendInv, Ahead
    <3> QED BY <1>7, <3>2, <3>3
  <2>4. ResendInv'
    <3> HIDE DEF e, f
    <3> QED BY <1>2, <2>1, <2>3 DEF ResendInv
  <2>5. ProbeInv'
    <3> DEFINE p1 == Timediff(ts_probe', current)
               q1 == quiet'
    <3>1. Ahead(ts_probe)' = p1
      BY <1>2 DEF Ahead
    <3>2. CASE ~ closed
      BY <1>2, <1>8, <3>2 DEF ProbeInv
    <3>3. CASE closed
      <4>1. /\ caller = "polls" /\ f \in 1..Interval /\ e \in Nat /\ patience \in Nat
            /\ e + patience <= MaxGap
        BY <1>5, <1>11, <3>3 DEF RetransmitInv
      <4>2. /\ f - p1 <= Interval - 1 /\ p1 - e <= ProbeLimit
            /\ \/ q1 + p1 - e <= ProbeLimit
               \/ q1 + p1 - e <= (Interval + MaxGap - 1) + ProbeInit
        <5>1. CASE probe_wait = 0 /\ quiet' = quiet /\ Timediff(ts_probe', current) = ProbeInit
          <6>1. q1 = quiet /\ p1 = ProbeInit /\ quiet \in Nat
            BY <1>1, <5>1 DEF TypeOK
          <6>2. f - e + quiet <= Interval
            BY <1>2, <1>11, <3>3, <5>1 DEF RetransmitInv, ProbeInv
          <6>3. ProbeInit >= 1 /\ ProbeInit <= ProbeLimit /\ ProbeInit \in Nat
                /\ ProbeLimit \in Nat
            BY Halves
          <6> HIDE DEF f, e, q1, p1
          <6>4. f - p1 <= Interval - 1 /\ p1 - e <= ProbeLimit
            BY <4>1, <6>1, <6>3, Small
          <6>5. q1 + p1 - e <= (Interval + MaxGap - 1) + ProbeInit
            BY <4>1, <6>1, <6>2, <6>3, Small
          <6> QED BY <6>4, <6>5
        <5>2. CASE probe_wait # 0 /\ UNCHANGED <<probe_wait, ts_probe, quiet>>
          <6>1. p1 = Ahead(ts_probe) /\ q1 = quiet
            BY <5>2 DEF Ahead
          <6> QED BY <1>11, <3>3, <5>2, <6>1 DEF RetransmitInv, ProbeInv
        <5>3. CASE quiet' = 0 /\ Timediff(ts_probe', current) \in 1..ProbeLimit
          <6>1. q1 = 0 /\ p1 \in 1..ProbeLimit
            BY <5>3
          <6>2. ProbeLimit \in Nat
            BY Halves
          <6> HIDE DEF q1, p1, e, f
          <6> QED BY <4>1, <6>1, <6>2, Small
        <5> QED BY <1>8, <3>3, <5>1, <5>2, <5>3
      <4>3. closed' /\ probe_wait' # 0
        BY <1>2, <1>8, <3>3
      <4> HIDE DEF p1, f, e
      <4> QED BY <2>1, <3>1, <4>2, <4>3 DEF ProbeInv
    <3> QED BY <3>2, <3>3, <1>1 DEF TypeOK
  <2> QED BY <2>2, <2>4, <2>5
<1>12. closed' \/ probe_wait' # 0 \/ quiet' # 0 => caller' = "polls"
  BY <1>2, <1>8 DEF RetransmitInv
<1> QED BY <1>2, <1>9, <1>10, <1>11, <1>12 DEF RetransmitInv, Regular
LEMMA AckedKeeps ==
  ASSUME RetransmitInv, NEW id \in Ids, NEW rto \in Rtos, Acked(id, rto)
  PROVE  RetransmitInv'
<1>1. /\ snd_buf' = [i \in DOMAIN snd_buf \ {id} |-> snd_buf[i]]
      /\ age' = [age EXCEPT ![id] = 0]
      /\ rx_rto' = rto
      /\ UNCHANGED <<now, current, updated, ts_flush, closed, probe_wait, ts_probe,
                     caller, patience, quiet>>
  BY DEF Acked, timers, probes
<1>2. id \in DOMAIN snd_buf
  BY DEF Acked
<1>3. \A i \in DOMAIN snd_buf' :
        i \in DOMAIN snd_buf /\ snd_buf'[i] = snd_buf[i] /\ age'[i] = age[i]
  BY <1>1 DEF RetransmitInv, TypeOK
<1>4. DOMAIN snd_buf' \subseteq DOMAIN snd_buf
  BY <1>1
<1>5. TypeOK'
  BY <1>1, <1>3, <1>4 DEF RetransmitInv, TypeOK
<1>6. SegmentInv'
  BY <1>1, <1>3 DEF RetransmitInv, SegmentInv
<1>7. ASSUME Regular PROVE (CallerInv /\ ResendInv /\ ProbeInv)'
  <2>1. updated
    <3>1. ~ updated => DOMAIN snd_buf = {}
      BY <1>7 DEF RetransmitInv, CallerInv
    <3> QED BY <1>2, <3>1
  <2>2. CallerInv'
    BY <1>1, <1>7, <2>1 DEF RetransmitInv, CallerInv, Ahead
  <2>3. ResendInv'
    BY <1>1, <1>3, <1>7 DEF RetransmitInv, ResendInv, Ahead
  <2>4. ProbeInv'
    BY <1>1, <1>7 DEF RetransmitInv, ProbeInv, Ahead
  <2> QED BY <2>2, <2>3, <2>4
<1> QED BY <1>1, <1>5, <1>6, <1>7 DEF RetransmitInv, Regular

LEMMA WindowKeeps == ASSUME RetransmitInv, Window PROVE RetransmitInv'
<1>1. /\ caller = "polls" /\ closed' = ~ closed /\ quiet' = 0
      /\ UNCHANGED <<now, current, updated, ts_flush, snd_buf, rx_rto, probe_wait,
                     ts_probe, caller, patience, age>>
  BY DEF Window, timers, probes
<1>2. TypeOK' /\ SegmentInv'
  BY <1>1 DEF RetransmitInv, TypeOK, SegmentInv
<1>3. Regular /\ CallerInv /\ ResendInv /\ ProbeInv /\ TypeOK
  BY <1>1 DEF RetransmitInv, Regular
<1>4. CallerInv' /\ ResendInv'
  BY <1>1, <1>3 DEF CallerInv, ResendInv, Ahead
<1>5. ProbeInv'
  <2> DEFINE f == Ahead(ts_flush)
             e == Ahead(now)
             p == Ahead(ts_probe)
  <2>1. Ahead(ts_flush)' = f /\ Ahead(now)' = e /\ Ahead(ts_probe)' = p
    BY <1>1 DEF Ahead
  <2>2. updated => f \in 1..Interval /\ e \in Nat
    BY <1>3 DEF CallerInv
  <2>3. p \in Int /\ (probe_wait # 0 => p - e <= ProbeLimit /\ f - p <= Interval - 1)
    BY <1>3, TimediffValue DEF ProbeInv, Ahead, TypeOK
  <2>4. probe_wait # 0 => updated
    BY <1>3 DEF CallerInv
  <2> HIDE DEF f, e, p
  <2>5. updated => f - e + 0 <= Interval
    BY <2>2, Small
  <2>6. probe_wait # 0 => 0 + p - e <= ProbeLimit
    BY <2>2, <2>3, <2>4
  <2> QED BY <1>1, <2>1, <2>3, <2>5, <2>6 DEF ProbeInv
<1> QED BY <1>1, <1>2, <1>3, <1>4, <1>5 DEF RetransmitInv, Regular

LEMMA TickKeeps == ASSUME RetransmitInv, Tick PROVE RetransmitInv'
<1> DEFINE e == Ahead(now)
           f == Ahead(ts_flush)
           pat == patience'
<1>1. TypeOK /\ SegmentInv /\ now \in Clock /\ current \in Clock
  BY DEF RetransmitInv, TypeOK
<1>2. /\ patience > 0 /\ patience' = patience - 1
      /\ now' = After(now, 1)
      /\ age' = [id \in Ids |-> IF id \in DOMAIN snd_buf THEN age[id] + 1 ELSE 0]
      /\ quiet' = IF closed THEN quiet + 1 ELSE 0
      /\ UNCHANGED <<current, updated, ts_flush, snd_buf, rx_rto, closed, probe_wait,
                     ts_probe, caller>>
      /\ \A id \in DOMAIN snd_buf :
           snd_buf[id].xmit = MaxXmit => Timediff(now, snd_buf[id].resendts) < -1
  BY DEF Tick, timers, probes
<1>3. 1 \in 0..(Half - 1) /\ Half \in Nat
  BY Halves, ClockFacts
<1>4. /\ now' \in Clock
      /\ \A c \in Clock : Timediff(now, c) + 1 < Half =>
           Timediff(now', c) = Timediff(now, c) + 1
  BY <1>1, <1>2, <1>3, AfterAhead
<1>5. pat \in Nat /\ patience \in Nat /\ pat = patience - 1
  <2>1. patience \in Nat /\ patience > 0
    BY <1>1, <1>2 DEF TypeOK
  <2> QED BY <1>2, <2>1
<1>6. TypeOK'
  <2>1. age' \in [Ids -> Nat]
    BY <1>1, <1>2 DEF TypeOK
  <2>2. quiet' \in Nat
    BY <1>1, <1>2 DEF TypeOK
  <2> QED BY <1>1, <1>2, <1>4, <1>5, <2>1, <2>2 DEF TypeOK
<1>7. SegmentInv'
  <2>1. ASSUME NEW id \in DOMAIN snd_buf, snd_buf[id].xmit = MaxXmit
        PROVE  Timediff(now', snd_buf[id].resendts) < 0
    <3> DEFINE b == Timediff(now, snd_buf[id].resendts)
    <3>1. snd_buf[id].resendts \in Clock
      BY <1>1 DEF TypeOK
    <3>2. b < -1 /\ b \in Int
      BY <1>1, <1>2, <2>1, <3>1, TimediffValue
    <3>3. b + 1 < Half => Timediff(now', snd_buf[id].resendts) = b + 1
      BY <1>4, <3>1
    <3> HIDE DEF b
    <3>4. b + 1 < Half /\ b + 1 < 0
      BY <1>3, <3>2
    <3> QED BY <3>3, <3>4
  <2> QED BY <1>1, <1>2, <2>1 DEF SegmentInv
<1>8. ASSUME Regular PROVE (CallerInv /\ ResendInv /\ ProbeInv)'
  <2>1. updated
    BY <1>2, <1>8 DEF RetransmitInv, CallerInv
  <2>2. /\ f \in 1..Interval /\ e \in Nat
        /\ e + patience <= MaxGap + Interval
        /\ caller = "polls" => e + patience <= MaxGap
    BY <1>8, <2>1 DEF RetransmitInv, CallerInv
  <2>3. Ahead(ts_flush)' = f /\ Ahead(now)' = e + 1
    <3>1. e = Timediff(now, current)
      BY DEF Ahead
    <3>2. e + 1 < Half
      <4> HIDE DEF e, pat
      <4> QED BY <1>3, <1>5, <2>2, Halves
    <3>3. Timediff(now', current) = e + 1
      BY <1>1, <1>4, <3>1, <3>2
    <3> QED BY <1>2, <3>3 DEF Ahead
  <2>4. CallerInv'
    <3> HIDE DEF e, f, pat
    <3>1. e + 1 \in Nat /\ (e + 1) + pat = e + patience
      BY <1>5, <2>2
    <3> QED BY <1>2, <2>1, <2>2, <2>3, <3>1 DEF CallerInv, pat
  <2>5. ASSUME NEW id \in DOMAIN snd_buf
        PROVE  LET due == Ahead(snd_buf[id].resendts)
               IN  /\ f - due <= Interval - 1
                   /\ (e + 1) + pat - due <= (Interval - 1) + (MaxGap - 1)
                   /\ age'[id] <= Timeout(snd_buf[id]) + (e + 1) - due
                   /\ caller = "sleeps" => age'[id] = Timeout(snd_buf[id]) + (e + 1) - due
    <3> DEFINE d == Ahead(snd_buf[id].resendts)
               L == Timeout(snd_buf[id])
               a == age[id]
    <3>1. d \in Int /\ L \in 1..(Half - 1)
      BY <1>8, <2>1, SegmentNow
    <3>2. /\ f - d <= Interval - 1
          /\ e + patience - d <= (Interval - 1) + (MaxGap - 1)
          /\ a <= L + e - d
          /\ caller = "sleeps" => a = L + e - d
      BY <1>8 DEF RetransmitInv, ResendInv
    <3>3. a \in Nat /\ age'[id] = a + 1
      BY <1>1, <1>2 DEF TypeOK
    <3> HIDE DEF d, L, a, e, f, pat
    <3>4. (e + 1) + pat - d <= (Interval - 1) + (MaxGap - 1)
      BY <1>5, <2>2, <3>1, <3>2, Small
    <3>5. a + 1 <= L + (e + 1) - d /\ (caller = "sleeps" => a + 1 = L + (e + 1) - d)
      BY <2>2, <3>1, <3>2, <3>3
    <3> QED BY <3>2, <3>3, <3>4, <3>5 DEF d, L
  <2>6. ResendInv'
    <3>1. \A id \in DOMAIN snd_buf :
            Ahead(snd_buf[id].resendts)' = Ahead(snd_buf[id].resendts)
      BY <1>2 DEF Ahead
    <3> HIDE DEF e, f
    <3> QED BY <1>2, <2>3, <2>5, <3>1 DEF ResendInv, pat
  <2>7. ProbeInv'
    <3> DEFINE p == Ahead(ts_probe)
               q1 == quiet'
    <3>1. Ahead(ts_probe)' = p /\ p \in Int
      BY <1>1, <1>2, TimediffValue DEF Ahead, TypeOK
    <3>2. /\ probe_wait # 0 => f - p <= Interval - 1 /\ p - e <= ProbeLimit
          /\ closed /\ probe_wait = 0 => f - e + quiet <= Interval
          /\ closed /\ probe_wait # 0 =>
               \/ quiet + p - e <= ProbeLimit
               \/ quiet + p - e <= (Interval + MaxGap - 1) + ProbeInit
      BY <1>8, <2>1 DEF RetransmitInv, ProbeInv
    <3>3. quiet \in Nat /\ (closed => q1 = quiet + 1) /\ (~ closed => q1 = 0)
      BY <1>1, <1>2 DEF TypeOK
    <3>4. ProbeLimit \in Nat /\ ProbeInit \in Nat
      BY Halves
    <3> HIDE DEF e, f, p, q1
    <3>5. /\ probe_wait # 0 => f - p <= Interval - 1 /\ p - (e + 1) <= ProbeLimit
          /\ closed /\ probe_wait = 0 => f - (e + 1) + q1 <= Interval
      BY <2>2, <3>1, <3>2, <3>3, <3>4, Small
    <3>6. closed /\ probe_wait # 0 =>
            \/ q1 + p - (e + 1) <= ProbeLimit
            \/ q1 + p - (e + 1) <= (Interval + MaxGap - 1) + ProbeInit
      BY <2>2, <3>1, <3>2, <3>3, <3>4, Small
    <3>7. q1 > 0 => closed
      BY <3>3
    <3> QED BY <1>2, <2>3, <3>1, <3>5, <3>6, <3>7 DEF ProbeInv, q1
  <2> QED BY <2>4, <2>6, <2>7
<1>9. closed' \/ probe_wait' # 0 \/ quiet' # 0 => caller' = "polls"
  BY <1>2 DEF RetransmitInv
<1> QED BY <1>2, <1>6, <1>7, <1>8, <1>9 DEF RetransmitInv, Regular

LEMMA JumpKeeps == ASSUME RetransmitInv, Jump PROVE RetransmitInv'
<1>1. /\ caller = "resets" /\ now' \in Clock
      /\ \A id \in DOMAIN snd_buf :
           snd_buf[id].xmit = MaxXmit => Timediff(now', snd_buf[id].resendts) < 0
      /\ UNCHANGED <<current, updated, ts_flush, snd_buf, rx_rto, closed, probe_wait,
                     ts_probe, caller, patience, age, quiet>>
  BY DEF Jump, timers, probes
<1>2. TypeOK' /\ SegmentInv'
  BY <1>1 DEF RetransmitInv, TypeOK, SegmentInv
<1> QED BY <1>1, <1>2 DEF RetransmitInv, Regular

LEMMA RetransmitStep == RetransmitInv /\ TimerInv /\ [Next]_vars => RetransmitInv'
<1> SUFFICES ASSUME RetransmitInv, TimerInv, [Next]_vars PROVE RetransmitInv'
  OBVIOUS
<1>1. CASE UpdateEarly
  BY <1>1, EarlyKeeps
<1>2. ASSUME NEW new \in SUBSET (Ids \ DOMAIN snd_buf), UpdateFlush(new)
      PROVE  RetransmitInv'
  BY <1>2, FlushKeeps
<1>3. ASSUME NEW new \in SUBSET (Ids \ DOMAIN snd_buf), FlushAgain(new)
      PROVE  RetransmitInv'
  BY <1>3, AgainKeeps
<1>4. ASSUME NEW id \in Ids, NEW rto \in Rtos, Acked(id, rto) PROVE RetransmitInv'
  BY <1>4, AckedKeeps
<1>5. CASE Window
  BY <1>5, WindowKeeps
<1>6. CASE Tick
  BY <1>6, TickKeeps
<1>7. CASE Jump
  BY <1>7, JumpKeeps
<1>8. CASE UNCHANGED vars
  <2>1. UNCHANGED <<now, current, updated, ts_flush, snd_buf, rx_rto, closed, probe_wait,
                    ts_probe, caller, patience, age, quiet>>
    BY <1>8 DEF vars, timers, probes
  <2>2. TypeOK' /\ SegmentInv' /\ (Regular' <=> Regular)
    BY <2>1 DEF RetransmitInv, TypeOK, SegmentInv, Regular
  <2>3. Regular => (CallerInv /\ ResendInv /\ ProbeInv)'
    BY <2>1 DEF RetransmitInv, CallerInv, ResendInv, ProbeInv, Ahead
  <2> QED BY <2>1, <2>2, <2>3 DEF RetransmitInv
<1> QED BY <1>1, <1>2, <1>3, <1>4, <1>5, <1>6, <1>7, <1>8 DEF Next
----------------------------------------------------------------------------
LEMMA AlwaysRetransmitInv == Spec => [](TimerInv /\ RetransmitInv)
<1>1. Init => TimerInv /\ RetransmitInv
  BY TimerInit, RetransmitInit
<1>2. (TimerInv /\ RetransmitInv) /\ [Next]_vars => (TimerInv /\ RetransmitInv)'
  BY TimerStep, RetransmitStep
<1> QED BY <1>1, <1>2, PTL DEF Spec

\* The variables of the timers always have their types: every time is a value
\* of the clock, wherever it wraps.
THEOREM TimerTypes == Spec => []TypeOK
<1>1. RetransmitInv => TypeOK
  BY DEF RetransmitInv
<1> QED BY AlwaysRetransmitInv, <1>1, PTL

\* However late the caller comes and wherever the clock wraps: while nobody
\* sets it, the flush timer is never more than one interval away.
THEOREM FlushSoon == Spec => []FlushWithinInterval
<1>1. RetransmitInv => FlushWithinInterval
  BY DEF RetransmitInv, FlushWithinInterval, CallerInv, Regular, Ahead
<1> QED BY AlwaysRetransmitInv, <1>1, PTL

\* No unacknowledged segment waits longer than its timeout, one flush interval
\* and the caller's lateness before it is sent again: not for a caller that
\* sleeps as long as check tells it, nor for one that polls.
THEOREM ResentInTime == Spec => []ResentOnTime
<1>1. ASSUME RetransmitInv PROVE ResentOnTime
  <2> SUFFICES ASSUME Regular, NEW id \in DOMAIN snd_buf
               PROVE  age[id] <= Timeout(snd_buf[id]) + (Interval - 1) + (MaxGap - 1)
    BY DEF ResentOnTime, Regular
  <2> DEFINE d == Ahead(snd_buf[id].resendts)
             e == Ahead(now)
             L == Timeout(snd_buf[id])
             a == age[id]
  <2>1. updated
    <3>1. ~ updated => DOMAIN snd_buf = {}
      BY <1>1 DEF RetransmitInv, CallerInv
    <3> QED BY <3>1
  <2>2. d \in Int /\ e \in Nat /\ L \in 1..(Half - 1)
    BY <1>1, <2>1, SegmentNow
  <2>3. a \in Nat /\ patience \in Nat
    BY <1>1 DEF RetransmitInv, TypeOK
  <2>4. a <= L + e - d /\ e + patience - d <= (Interval - 1) + (MaxGap - 1)
    BY <1>1 DEF RetransmitInv, ResendInv
  <2> HIDE DEF a, d, e, L
  <2>5. a <= L + (Interval - 1) + (MaxGap - 1)
    BY <2>2, <2>3, <2>4, Small
  <2> QED BY <2>5 DEF a, L
<1> QED BY AlwaysRetransmitInv, <1>1, PTL

\* An unexpired segment is never sent again, for a caller that does not call
\* poll_flush: its age then is exactly what its timer says.
THEOREM NotResentEarly == Spec => NeverResentEarly
<1> DEFINE Late == caller = "sleeps" =>
             \A id \in DOMAIN snd_buf \cap DOMAIN snd_buf' :
               snd_buf'[id].xmit > snd_buf[id].xmit => age[id] >= Timeout(snd_buf[id])
<1>1. ASSUME RetransmitInv, [Next]_vars PROVE [Late]_vars
  <2> SUFFICES ASSUME caller = "sleeps",
                      NEW id \in DOMAIN snd_buf \cap DOMAIN snd_buf',
                      snd_buf'[id].xmit > snd_buf[id].xmit
               PROVE  age[id] >= Timeout(snd_buf[id])
    OBVIOUS
  <2>1. /\ snd_buf[id].xmit \in Nat
        /\ ~ (snd_buf[id].xmit > snd_buf[id].xmit)
    BY <1>1, Halves DEF RetransmitInv, TypeOK
  <2>2. ASSUME NEW t, NEW new \in SUBSET (Ids \ DOMAIN snd_buf), FlushData(t, new), t = now
        PROVE  age[id] >= Timeout(snd_buf[id])
    <3> DEFINE d == Ahead(snd_buf[id].resendts)
               e == Ahead(now)
               L == Timeout(snd_buf[id])
               a == age[id]
               b == Timediff(now, snd_buf[id].resendts)
    <3>1. id \in Overdue(now)
      <4>1. id \notin Overdue(t) => snd_buf'[id] = snd_buf[id]
        BY <2>2 DEF FlushData
      <4> QED BY <2>1, <2>2, <4>1
    <3>2. Regular
      BY DEF Regular
    <3>3. updated
      <4>1. ~ updated => DOMAIN snd_buf = {}
        BY <1>1, <3>2 DEF RetransmitInv, CallerInv
      <4> QED BY <4>1
    <3>4. /\ d \in Int /\ e \in Nat /\ L \in 1..(Half - 1)
          /\ Timediff(snd_buf[id].resendts, now) = d - e
      BY <1>1, <3>2, <3>3, SegmentNow
    <3>5. a = L + e - d
      BY <1>1, <3>2 DEF RetransmitInv, ResendInv
    <3>6. b >= 0
      BY <3>1 DEF Overdue
    <3>7. b >= 0 <=> Timediff(snd_buf[id].resendts, now) \in (1 - Half)..0
      BY <1>1, Opposite DEF RetransmitInv, TypeOK
    <3> HIDE DEF a, b, d, e, L
    <3>8. a >= L
      BY <3>4, <3>5, <3>6, <3>7, ClockFacts
    <3> QED BY <3>8 DEF a, L
  <2>3. CASE UpdateEarly
    BY <2>1, <2>3 DEF UpdateEarly
  <2>4. ASSUME NEW new \in SUBSET (Ids \ DOMAIN snd_buf), UpdateFlush(new)
        PROVE  age[id] >= Timeout(snd_buf[id])
    BY <2>2, <2>4 DEF UpdateFlush, Flush
  <2>5. ASSUME NEW new \in SUBSET (Ids \ DOMAIN snd_buf), FlushAgain(new)
        PROVE  age[id] >= Timeout(snd_buf[id])
    <3>1. current = now /\ FlushData(current, new)
      BY <2>5 DEF FlushAgain, Flush
    <3> QED BY <2>2, <3>1
  <2>6. ASSUME NEW i \in Ids, NEW rto \in Rtos, Acked(i, rto)
        PROVE  age[id] >= Timeout(snd_buf[id])
    <3>1. snd_buf'[id] = snd_buf[id]
      BY <2>6 DEF Acked
    <3> QED BY <2>1, <3>1
  <2>7. CASE Window
    BY <2>1, <2>7 DEF Window
  <2>8. CASE Tick
    BY <2>1, <2>8 DEF Tick
  <2>9. CASE Jump
    BY <2>1, <2>9 DEF Jump
  <2>10. CASE UNCHANGED vars
    BY <2>1, <2>10 DEF vars
  <2> QED BY <1>1, <2>3, <2>4, <2>5, <2>6, <2>7, <2>8, <2>9, <2>10 DEF Next
<1>2. RetransmitInv /\ [Next]_vars => [Late]_vars
  BY <1>1
<1> QED BY AlwaysRetransmitInv, <1>2, PTL DEF Spec, NeverResentEarly

\* The peer whose window is closed is asked for it again and again, however
\* often that has been done.
THEOREM ProbedInTime == Spec => []ProbedOnTime
<1>1. ASSUME RetransmitInv PROVE ProbedOnTime
  <2> DEFINE f == Ahead(ts_flush)
             e == Ahead(now)
             p == Ahead(ts_probe)
             late == (Interval - 1) + (MaxGap - 1)
  <2>1. quiet \in Nat /\ patience \in Nat
    BY <1>1 DEF RetransmitInv, TypeOK
  <2>2. ProbeLimit \in Nat /\ ProbeInit \in Nat
    BY Halves
  <2>3. CASE quiet = 0
    BY <2>2, <2>3, Small DEF ProbedOnTime
  <2>4. CASE quiet # 0
    <3>1. caller = "polls" /\ Regular
      BY <1>1, <2>4 DEF RetransmitInv, Regular
    <3>2. /\ updated /\ closed
          /\ f \in 1..Interval /\ e \in Nat /\ e + patience <= MaxGap
      BY <1>1, <2>1, <2>4, <3>1 DEF RetransmitInv, CallerInv, ProbeInv
    <3>3. CASE probe_wait = 0
      <4>1. f - e + quiet <= Interval
        BY <1>1, <3>1, <3>2, <3>3 DEF RetransmitInv, ProbeInv
      <4> HIDE DEF f, e
      <4>2. quiet <= (1 + late) + ProbeInit + late
        BY <2>1, <2>2, <3>2, <4>1, Small
      <4> QED BY <4>2 DEF ProbedOnTime
    <3>4. CASE probe_wait # 0
      <4>1. /\ f - p <= Interval - 1
            /\ \/ quiet + p - e <= ProbeLimit
               \/ quiet + p - e <= (Interval + MaxGap - 1) + ProbeInit
        BY <1>1, <3>1, <3>2, <3>4 DEF RetransmitInv, ProbeInv
      <4>2. p \in Int
        BY <1>1, <3>1, <3>2, <3>4, ProbeNow
      <4> HIDE DEF f, e, p
      <4>3. quiet <= ProbeLimit + late \/ quiet <= (1 + late) + ProbeInit + late
        BY <2>1, <2>2, <3>2, <4>1, <4>2, Small
      <4> QED BY <4>3 DEF ProbedOnTime
    <3> QED BY <3>3, <3>4
  <2> QED BY <2>3, <2>4
<1> QED BY AlwaysRetransmitInv, <1>1, PTL
=============================================================================
