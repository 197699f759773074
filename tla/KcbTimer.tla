------------------------------ MODULE KcbTimer ------------------------------
(***************************************************************************)
(* The timers of one KCP control block (src/kcp/kcb.rs): the flush timer   *)
(* of update, the answer of check, the retransmission timers of the        *)
(* segments in snd_buf and the window-probe timer, over a millisecond      *)
(* clock of finite width that wraps (module Kcb leaves all of it to free   *)
(* choices of flush).                                                      *)
(*                                                                         *)
(* There are three kinds of caller. One that `polls' comes back within     *)
(* MaxGap ticks of the last update; it may call poll_flush, and the peer's *)
(* window may close. One that `sleeps' follows check: it comes back within *)
(* MaxGap ticks of the time check has told it. One that `resets' polls     *)
(* while somebody sets the wall clock. Fast retransmission is off          *)
(* (fastresend = 0, as for every stream) and nodelay = 0. u32 additions    *)
(* wrap, as in a release build.                                            *)
(***************************************************************************)
EXTENDS Integers, FiniteSets

CONSTANTS
  Modulus,     \* the clock counts modulo this (2^32)
  Interval,    \* interval between flushes
  JumpLimit,   \* a flush timer further off than this is reset (10000)
  Rtos,        \* the values rx_rto can take
  RtoMax,      \* the largest of them (KCP_RTO_MAX)
  ProbeInit,   \* KCP_PROBE_INIT
  ProbeLimit,  \* KCP_PROBE_LIMIT
  Ids,         \* bound: the segments that can be in snd_buf
  MaxXmit,     \* bound: a segment's transmission of this number is answered
  MaxGap,      \* the caller is at most this late
  Callers,     \* the kinds of caller, of "polls", "sleeps", "resets"
  MaxOut       \* bound: segments in snd_buf at once, by kind of caller

ASSUME ClockAssumption ==
  /\ Modulus \in Nat /\ Modulus % 2 = 0
  /\ Interval \in Nat \ {0}
  /\ JumpLimit \in Nat /\ Interval <= JumpLimit
  /\ 2 * JumpLimit < Modulus

\* Timeouts are longer than the caller is late (KCP_RTO_MIN is 100 and update is
\* to be called every 10 to 100 ms), the interval is not the smallest tick
\* (nodelay keeps it above 10), and no timer reaches half around the clock.
ASSUME TimerAssumption ==
  /\ Interval >= 2
  /\ MaxXmit \in Nat \ {0} /\ MaxGap \in Nat \ {0}
  /\ RtoMax \in Nat /\ Rtos \subseteq (MaxGap + 1)..RtoMax
  /\ ProbeInit \in Nat \ {0} /\ ProbeLimit \in Nat /\ ProbeInit <= ProbeLimit
  /\ \A ticks \in {RtoMax + RtoMax \div 8, MaxXmit * RtoMax, ProbeLimit,
                   Interval + MaxGap} : 2 * ticks < Modulus
  /\ Callers \subseteq {"polls", "sleeps", "resets"}

VARIABLES
  now,         \* the wall clock
  current,     \* the time of the last update
  updated,     \* has update been called?
  ts_flush,    \* when the next flush is due
  snd_buf,     \* segments in flight: resendts, rto, xmit
  rx_rto,      \* retransmission timeout for new segments
  closed,      \* is rmt_wnd zero?
  probe_wait,  \* interval between window probes, 0 if the timer is off
  ts_probe,    \* when the next window probe is due
  caller,      \* which kind of caller there is
  patience,    \* ticks until the caller comes back
  age,         \* history: ticks since the segment was last sent
  quiet        \* history: ticks the window is closed without a probe

timers == <<current, updated, ts_flush>>
probes == <<probe_wait, ts_probe>>
vars == <<now, timers, snd_buf, rx_rto, closed, probes, caller, patience, age,
          quiet>>

Clock == 0 .. Modulus - 1

TypeOK ==
  /\ {now, current, ts_flush, ts_probe} \subseteq Clock
  /\ updated \in BOOLEAN
  /\ DOMAIN snd_buf \subseteq Ids
  /\ \A id \in DOMAIN snd_buf :
       /\ snd_buf[id].resendts \in Clock
       /\ snd_buf[id].rto \in Nat
       /\ snd_buf[id].xmit \in 1..MaxXmit
  /\ rx_rto \in Rtos
  /\ closed \in BOOLEAN
  /\ probe_wait \in Nat
  /\ caller \in Callers
  /\ patience \in Nat
  /\ age \in [Ids -> Nat]
  /\ quiet \in Nat

Init ==
  /\ now \in Clock
  /\ current = 0
  /\ updated = FALSE
  /\ ts_flush = Interval
  /\ snd_buf = <<>>
  /\ rx_rto \in Rtos
  /\ closed = FALSE
  /\ probe_wait = 0
  /\ ts_probe = 0
  /\ caller \in Callers
  /\ patience = 0
  /\ age = [id \in Ids |-> 0]
  /\ quiet = 0
----------------------------------------------------------------------------
Lesser(a, b) == IF a <= b THEN a ELSE b

\* Mutant: the clock does not wrap.
AfterLonger(t, ticks) == t + ticks

After(t, ticks) == (t + ticks) % Modulus

\* Mutant: times are compared as they are.
TimediffPlain(later, earlier) == later - earlier

\* timediff: the difference of two clock values, as a signed number.
Timediff(later, earlier) ==
  LET d == (later - earlier) % Modulus
  IN  IF d >= Modulus \div 2 THEN d - Modulus ELSE d

\* Segments of snd_buf whose retransmission timer has expired at time t.
Overdue(t) == {id \in DOMAIN snd_buf : Timediff(t, snd_buf[id].resendts) >= 0}

\* The first transmission of a segment at time t.
Fresh(t) ==
  [resendts |-> After(t, rx_rto + rx_rto \div 8), rto |-> rx_rto, xmit |-> 1]

\* A retransmission at time t: the timeout is lengthened by rx_rto.
Again(seg, t) ==
  [resendts |-> After(t, seg.rto + rx_rto),
   rto |-> seg.rto + rx_rto,
   xmit |-> seg.xmit + 1]

\* flush sends the segments `new', moved to snd_buf by this call, and those
\* that are overdue.
FlushData(t, new) ==
  /\ snd_buf' = [id \in DOMAIN snd_buf \cup new |->
                   IF id \in new THEN Fresh(t)
                   ELSE IF id \in Overdue(t) THEN Again(snd_buf[id], t)
                   ELSE snd_buf[id]]
  /\ age' = [id \in Ids |-> IF id \in new \cup Overdue(t) THEN 0 ELSE age[id]]

\* The next interval between probes: half as long again, up to the limit.
Longer(wait) == Lesser(wait + wait \div 2, ProbeLimit)

\* Mutant: every flush arms the probe timer anew until it expires.
FlushProbeArmed(t) ==
  \/ /\ ~ closed
     /\ probe_wait' = 0 /\ ts_probe' = 0 /\ quiet' = 0
  \/ /\ closed
     /\ probe_wait = 0 \/ Timediff(t, ts_probe) < 0
     /\ probe_wait' = ProbeInit /\ ts_probe' = After(t, ProbeInit) /\ quiet' = quiet
  \/ /\ closed
     /\ probe_wait # 0 /\ Timediff(t, ts_probe) >= 0
     /\ probe_wait' = Longer(probe_wait) /\ ts_probe' = After(t, Longer(probe_wait))
     /\ quiet' = 0

\* flush arms the probe timer when the window is zero, sends a probe when it
\* expires and disarms it when the window has opened.
FlushProbe(t) ==
  \/ /\ ~ closed
     /\ probe_wait' = 0
     /\ ts_probe' = 0
     /\ quiet' = 0
  \/ /\ closed
     /\ probe_wait = 0
     /\ probe_wait' = ProbeInit
     /\ ts_probe' = After(t, ProbeInit)
     /\ quiet' = quiet
  \/ /\ closed
     /\ probe_wait # 0
     /\ Timediff(t, ts_probe) < 0
     /\ UNCHANGED <<probes, quiet>>
  \/ /\ closed
     /\ probe_wait # 0
     /\ Timediff(t, ts_probe) >= 0
     /\ probe_wait' = Longer(probe_wait)
     /\ ts_probe' = After(t, Longer(probe_wait))
     /\ quiet' = 0

Flush(t, new) == FlushData(t, new) /\ FlushProbe(t)
----------------------------------------------------------------------------
\* Mutant: a timer that is off is not started again.
TimerKept == IF updated THEN ts_flush ELSE now

\* The flush timer as `update' finds it: the first call starts it, and one
\* that is off by more than JumpLimit is started again.
Timer ==
  LET ts == IF updated THEN ts_flush ELSE now
      slap == Timediff(now, ts)
  IN  IF slap >= JumpLimit \/ slap < -JumpLimit THEN now ELSE ts

\* Mutant: a late caller does not move the flush timer past the present.
NextFlushBehind == After(Timer, Interval)

\* Where a flush puts the flush timer: one interval on, and never behind now.
NextFlush ==
  IF Timediff(now, After(Timer, Interval)) >= 0
  THEN After(now, Interval)
  ELSE After(Timer, Interval)

\* The ticks check(t) chooses from: until the next flush, until the next
\* retransmission of each segment, and one interval.
Waits(t, tsf, buf) ==
  {Timediff(tsf, t), Interval} \cup {Timediff(buf[id].resendts, t) : id \in DOMAIN buf}

\* Mutant: check returns the largest of them.
CheckLast(t, tsf, buf) ==
  CHOOSE w \in Waits(t, tsf, buf) : \A v \in Waits(t, tsf, buf) : w >= v

\* What check(t) returns: the first of them, and 0 if it has passed or the
\* flush timer is off.
Check(t, tsf, buf) ==
  LET waits == Waits(t, tsf, buf)
  IN  IF Timediff(tsf, t) > JumpLimit \/ \E w \in waits : w <= 0
      THEN 0
      ELSE CHOOSE w \in waits : \A v \in waits : w <= v

\* How long the caller stays away after an update.
Leave ==
  /\ patience' =
       MaxGap + IF caller = "sleeps" THEN Check(now, ts_flush', snd_buf') ELSE 0
  /\ caller' = caller

\* update, when the flush timer has not expired.
UpdateEarly ==
  /\ Timediff(now, Timer) < 0
  /\ current' = now
  /\ updated' = TRUE
  /\ ts_flush' = Timer
  /\ UNCHANGED <<now, snd_buf, rx_rto, closed, probes, age, quiet>>
  /\ Leave

\* update, when it has: set it anew and flush.
UpdateFlush(new) ==
  /\ Timediff(now, Timer) >= 0
  /\ current' = now
  /\ updated' = TRUE
  /\ ts_flush' = NextFlush
  /\ Flush(now, new)
  /\ UNCHANGED <<now, rx_rto, closed>>
  /\ Leave

\* poll_write flushes once more after its update; poll_flush flushes with the
\* time of the last update.
FlushAgain(new) ==
  /\ updated
  /\ now = current \/ caller = "polls"
  /\ Flush(current, new)
  /\ UNCHANGED <<now, timers, rx_rto, closed, caller, patience>>

\* input: a segment is acknowledged, which gives a new timeout.
Acked(id, rto) ==
  /\ id \in DOMAIN snd_buf
  /\ snd_buf' = [i \in DOMAIN snd_buf \ {id} |-> snd_buf[i]]
  /\ age' = [age EXCEPT ![id] = 0]
  /\ rx_rto' = rto
  /\ UNCHANGED <<now, timers, closed, probes, caller, patience, quiet>>

\* input: the peer tells that its window is closed, or open.
Window ==
  /\ caller = "polls"
  /\ closed' = ~ closed
  /\ quiet' = 0
  /\ UNCHANGED <<now, timers, snd_buf, rx_rto, probes, caller, patience, age>>

\* A tick of the clock, unless the caller must come back first, or a segment
\* must be answered.
Tick ==
  /\ patience > 0
  /\ \A id \in DOMAIN snd_buf :
       snd_buf[id].xmit = MaxXmit => Timediff(now, snd_buf[id].resendts) < -1
  /\ now' = After(now, 1)
  /\ patience' = patience - 1
  /\ age' = [id \in Ids |-> IF id \in DOMAIN snd_buf THEN age[id] + 1 ELSE 0]
  /\ quiet' = IF closed THEN quiet + 1 ELSE 0
  /\ UNCHANGED <<timers, snd_buf, rx_rto, closed, probes, caller>>

\* Somebody sets the wall clock.
Jump ==
  /\ caller = "resets"
  /\ now' \in Clock
  /\ \A id \in DOMAIN snd_buf :
       snd_buf[id].xmit = MaxXmit => Timediff(now', snd_buf[id].resendts) < 0
  /\ UNCHANGED <<timers, snd_buf, rx_rto, closed, probes, caller, patience, age,
                 quiet>>

Next ==
  \/ UpdateEarly
  \/ \E new \in SUBSET (Ids \ DOMAIN snd_buf) :
       /\ Cardinality(DOMAIN snd_buf \cup new) <= MaxOut[caller]
       /\ UpdateFlush(new) \/ FlushAgain(new)
  \/ \E id \in Ids, rto \in Rtos : Acked(id, rto)
  \/ Window
  \/ Tick
  \/ Jump

Spec == Init /\ [][Next]_vars
----------------------------------------------------------------------------
\* The timeout that a segment was last sent with.
Timeout(seg) == IF seg.xmit = 1 THEN seg.rto + seg.rto \div 8 ELSE seg.rto

\* After every update, whatever the clock does, the next flush is ahead and
\* at most JumpLimit away: a jump of the clock never stops the flushes for
\* longer.
FlushAhead ==
  updated => Timediff(ts_flush, current) \in 1..JumpLimit

\* While the clock is not set, the next flush is at most one interval away,
\* however late the caller came and wherever the clock wraps.
FlushWithinInterval ==
  updated /\ caller # "resets" => Timediff(ts_flush, current) \in 1..Interval

\* While the clock is not set, a segment that is not acknowledged is sent again
\* less than one flush interval, and the caller's lateness, after its timeout.
ResentOnTime ==
  caller # "resets" =>
    \A id \in DOMAIN snd_buf :
      age[id] <= Timeout(snd_buf[id]) + (Interval - 1) + (MaxGap - 1)

\* If poll_flush is not called (it takes the time of the last update for the
\* present), no segment is sent again before its timeout has passed.
NeverResentEarly ==
  [][caller = "sleeps" =>
       \A id \in DOMAIN snd_buf \cap DOMAIN snd_buf' :
         snd_buf'[id].xmit > snd_buf[id].xmit => age[id] >= Timeout(snd_buf[id])]_vars

\* While the window stays closed the peer is asked for it again and again: at
\* most ProbeLimit apart, and the first time ProbeInit after a flush has seen
\* it closed, each with a flush interval and the caller's lateness added.
ProbedOnTime ==
  LET late == (Interval - 1) + (MaxGap - 1)
  IN  quiet <= ProbeLimit + late \/ quiet <= (1 + late) + ProbeInit + late
=============================================================================
