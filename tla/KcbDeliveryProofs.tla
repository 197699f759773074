-------------------------- MODULE KcbDeliveryProofs --------------------------
(***************************************************************************)
(* Proof that Kcb delivers: StreamInv is an inductive invariant, and with  *)
(* it what recv returns is what the peer sent, in whole messages, and no   *)
(* unacknowledged segment is forgotten; that both sides keep their         *)
(* windows; and that the whole implements the reliable message channel.    *)
(***************************************************************************)
EXTENDS KcbProofs, SequenceTheorems

LEMMA InitStream == Init => StreamInv
<1>1. \A e \in Endpoint : Peer(e) \in Endpoint
  BY EndpointFacts
<1> QED BY <1>1 DEF Init, StreamInv, SendStream, RecvStream, Framed, NothingForgotten,
                    WholeMessages, Received

\* Types of what the lemmas below talk about, by endpoint.
LEMMA TypesAt ==
  ASSUME TypeOK, NEW e \in Endpoint
  PROVE  /\ snd_nxt[e] \in Nat /\ rcv_nxt[e] \in Nat
         /\ sent[e] \in Seq(Payload) /\ got[e] \in Seq(Payload)
         /\ snd_queue[e] \in Seq(Payload) /\ rcv_queue[e] \in Seq(Payload)
         /\ Len(sent[e]) \in Nat /\ Len(got[e]) \in Nat
         /\ Len(snd_queue[e]) \in Nat /\ Len(rcv_queue[e]) \in Nat
         /\ DOMAIN snd_buf[e] \in SUBSET Nat
         /\ snd_buf[e] \in [DOMAIN snd_buf[e] -> Payload]
         /\ DOMAIN rcv_buf[e] \in SUBSET Nat
         /\ rcv_buf[e] \in [DOMAIN rcv_buf[e] -> Payload]
         /\ cursor[e] \in SUBSET Segment /\ net[e] \in SUBSET SUBSET Segment
         /\ acklist[e] \in SUBSET Nat
BY DEF TypeOK

\* What no step ever takes back: the numbers grow, what was received stays
\* received, and the history of what was sent is only extended.
Grows ==
  \A x \in Endpoint :
    /\ rcv_nxt'[x] \in Nat /\ rcv_nxt[x] <= rcv_nxt'[x]
    /\ snd_nxt'[x] \in Nat /\ snd_nxt[x] <= snd_nxt'[x]
    /\ Received(x) \subseteq Received(x)'
    /\ Len(sent[x]) <= Len(sent'[x])
    /\ \A i \in 1..Len(sent[x]) : sent'[x][i] = sent[x][i]

\* So what a segment says of its sender stays true.
LEMMA TruthfulStable ==
  ASSUME TypeOK, TypeOK', StreamInv, Grows,
         NEW e \in Endpoint, NEW s \in Segment, Truthful(e, s)
  PROVE  Truthful(e, s)'
<1> DEFINE p == Peer(e)
<1>1. p \in Endpoint
  BY EndpointFacts
<1>2. /\ s.una \in Nat /\ s.sn \in Nat
      /\ rcv_nxt[p] \in Nat /\ snd_nxt[p] \in Nat
      /\ rcv_nxt'[p] \in Nat /\ snd_nxt'[p] \in Nat
      /\ Len(sent[p]) \in Nat /\ Len(snd_queue[p]) \in Nat
  BY <1>1, TypesAt DEF Grows, Segment
<1>3. s.una <= rcv_nxt'[p]
  BY <1>1, <1>2 DEF Grows, Truthful
<1>4. s.cmd = "ACK" => s.sn \in Received(p)'
  BY <1>1 DEF Grows, Truthful
<1>5. ASSUME s.cmd = "PUSH"
      PROVE  s.sn < snd_nxt'[p] /\ s.data = sent'[p][s.sn + 1]
  <2>1. s.sn < snd_nxt[p] /\ s.data = sent[p][s.sn + 1]
    BY <1>5 DEF Truthful
  <2>2. snd_nxt[p] + Len(snd_queue[p]) = Len(sent[p])
    BY <1>1 DEF StreamInv, SendStream
  <2>3. s.sn + 1 \in 1..Len(sent[p])
    BY <1>2, <2>1, <2>2
  <2> QED BY <1>1, <1>2, <2>1, <2>3 DEF Grows
<1> QED BY <1>3, <1>4, <1>5 DEF Truthful

\* The receive side of x keeps its part of the invariant if it does not move.
LEMMA RecvStreamStable ==
  ASSUME TypeOK, TypeOK', StreamInv, Grows, NEW x \in Endpoint,
         rcv_nxt'[x] = rcv_nxt[x], rcv_queue'[x] = rcv_queue[x],
         rcv_buf'[x] = rcv_buf[x], got'[x] = got[x]
  PROVE  RecvStream(x)'
<1> DEFINE p == Peer(x)
<1>1. p \in Endpoint
  BY EndpointFacts
<1>2. /\ rcv_nxt[x] = Len(got[x]) + Len(rcv_queue[x])
      /\ rcv_nxt[x] <= snd_nxt[p]
      /\ snd_nxt[p] + Len(snd_queue[p]) = Len(sent[p])
  BY <1>1 DEF StreamInv, SendStream, RecvStream
<1>3. /\ snd_nxt[p] \in Nat /\ snd_nxt'[p] \in Nat /\ rcv_nxt[x] \in Nat
      /\ Len(sent[p]) \in Nat /\ Len(snd_queue[p]) \in Nat
      /\ Len(got[x]) \in Nat /\ Len(rcv_queue[x]) \in Nat
      /\ DOMAIN rcv_buf[x] \in SUBSET Nat
      /\ snd_nxt[p] <= snd_nxt'[p]
  BY <1>1, TypesAt DEF Grows
<1>4. \A i \in 1..Len(sent[p]) : sent'[p][i] = sent[p][i]
  BY <1>1 DEF Grows
<1>5. /\ \A i \in 1..Len(got[x]) : got[x][i] = sent[p][i]
      /\ \A i \in 1..Len(rcv_queue[x]) : rcv_queue[x][i] = sent[p][Len(got[x]) + i]
      /\ \A n \in DOMAIN rcv_buf[x] : n < snd_nxt[p] /\ rcv_buf[x][n] = sent[p][n + 1]
  BY DEF StreamInv, RecvStream
<1>6. /\ \A i \in 1..Len(got[x]) : i \in 1..Len(sent[p])
      /\ \A i \in 1..Len(rcv_queue[x]) : Len(got[x]) + i \in 1..Len(sent[p])
      /\ \A n \in Nat : n < snd_nxt[p] => n + 1 \in 1..Len(sent[p]) /\ n < snd_nxt'[p]
      /\ rcv_nxt[x] <= snd_nxt'[p]
  <2> DEFINE g == Len(got[x])
             q == Len(rcv_queue[x])
             w == Len(snd_queue[p])
             l == Len(sent[p])
             m == snd_nxt[p]
             m2 == snd_nxt'[p]
  <2>1. /\ g \in Nat /\ q \in Nat /\ w \in Nat /\ l \in Nat /\ m \in Nat /\ m2 \in Nat
        /\ g + q <= m /\ m + w = l /\ m <= m2
    BY <1>2, <1>3
  <2> HIDE DEF g, q, w, l, m, m2
  <2>2. /\ \A i \in 1..g : i \in 1..l
        /\ \A i \in 1..q : g + i \in 1..l
        /\ \A n \in Nat : n < m => n + 1 \in 1..l /\ n < m2
        /\ g + q <= m2
    BY <2>1
  <2> QED BY <1>2, <2>2 DEF g, q, l, m, m2
<1>7. /\ \A i \in 1..Len(got[x]) : got[x][i] = sent'[p][i]
      /\ \A i \in 1..Len(rcv_queue[x]) : rcv_queue[x][i] = sent'[p][Len(got[x]) + i]
  BY <1>4, <1>5, <1>6
<1>8. \A n \in DOMAIN rcv_buf[x] : n < snd_nxt'[p] /\ rcv_buf[x][n] = sent'[p][n + 1]
  <2>1. ASSUME NEW n \in DOMAIN rcv_buf[x]
        PROVE  n \in Nat /\ n < snd_nxt[p] /\ rcv_buf[x][n] = sent[p][n + 1]
    BY <1>3, <1>5
  <2> QED BY <1>4, <1>6, <2>1
<1> QED BY <1>2, <1>6, <1>7, <1>8 DEF RecvStream

\* The send side of x keeps its part if it does not move, or only loses
\* acknowledged segments.
LEMMA SendStreamStable ==
  ASSUME TypeOK, StreamInv, NEW x \in Endpoint,
         snd_nxt'[x] = snd_nxt[x], snd_queue'[x] = snd_queue[x], sent'[x] = sent[x],
         DOMAIN snd_buf'[x] \subseteq DOMAIN snd_buf[x],
         \A n \in DOMAIN snd_buf'[x] : snd_buf'[x][n] = snd_buf[x][n]
  PROVE  SendStream(x)'
BY DEF StreamInv, SendStream

\* Segments that were on their way stay truthful, and new ones are to be
\* looked at.
LEMMA NetworkTruthful ==
  ASSUME TypeOK, TypeOK', StreamInv, Grows,
         \A e \in Endpoint :
           /\ \A s \in cursor'[e] : s \in cursor[e] \/ (\E d \in net[e] : s \in d)
           /\ \A d \in net'[e] \ net[e] : \A s \in d : Truthful(e, s)'
  PROVE  \A e \in Endpoint :
           /\ \A s \in cursor'[e] : Truthful(e, s)'
           /\ \A d \in net'[e] : \A s \in d : Truthful(e, s)'
<1> SUFFICES ASSUME NEW e \in Endpoint
             PROVE  /\ \A s \in cursor'[e] : Truthful(e, s)'
                    /\ \A d \in net'[e] : \A s \in d : Truthful(e, s)'
  OBVIOUS
<1>1. \A s \in cursor[e] : Truthful(e, s)'
  BY TruthfulStable DEF StreamInv, TypeOK
<1>2. \A d \in net[e] : \A s \in d : Truthful(e, s)'
  BY TruthfulStable DEF StreamInv, TypeOK
<1> QED BY <1>1, <1>2

(***************************************************************************)
(* Lemmas about sequences of fragments                                     *)
(***************************************************************************)

\* A queue holds a history from behind its first g fragments on.
Holds(q, h, g) == \A i \in 1..Len(q) : q[i] = h[g + i]

\* A buffer holds, by number, fragments of a history of which l are numbered.
Placed(buf, h, l) == \A n \in DOMAIN buf : n < l /\ buf[n] = h[n + 1]

LEMMA ConcatAt ==
  ASSUME NEW a \in Seq(Payload), NEW b \in Seq(Payload)
  PROVE  /\ Len(a \o b) = Len(a) + Len(b)
         /\ \A i \in 1..(Len(a) + Len(b)) :
              (a \o b)[i] = IF i <= Len(a) THEN a[i] ELSE b[i - Len(a)]
BY ConcatProperties

\* Appending the same fragments to a queue and to the history keeps the queue
\* at the end of the history.
LEMMA AppendStream ==
  ASSUME NEW q \in Seq(Payload), NEW h \in Seq(Payload), NEW f \in Seq(Payload),
         NEW nxt \in Nat, nxt + Len(q) = Len(h),
         \A i \in 1..Len(q) : q[i] = h[nxt + i]
  PROVE  /\ nxt + Len(q \o f) = Len(h \o f)
         /\ \A i \in 1..Len(q \o f) : (q \o f)[i] = (h \o f)[nxt + i]
<1>1. /\ Len(q) \in Nat /\ Len(h) \in Nat /\ Len(f) \in Nat
      /\ Len(q \o f) = Len(q) + Len(f) /\ Len(h \o f) = Len(h) + Len(f)
  BY ConcatProperties, LenProperties
<1>2. /\ \A i \in 1..(Len(q) + Len(f)) :
           (q \o f)[i] = IF i <= Len(q) THEN q[i] ELSE f[i - Len(q)]
      /\ \A i \in 1..(Len(h) + Len(f)) :
           (h \o f)[i] = IF i <= Len(h) THEN h[i] ELSE f[i - Len(h)]
  BY ConcatProperties
<1> DEFINE a == Len(q)
           b == Len(h)
           c == Len(f)
<1>3. a \in Nat /\ b \in Nat /\ c \in Nat /\ nxt + a = b
  BY <1>1
<1>4. ASSUME NEW i \in 1..(a + c) PROVE (q \o f)[i] = (h \o f)[nxt + i]
  <2> HIDE DEF a, b, c
  <2>1. /\ nxt + i \in 1..(b + c)
        /\ i <= a => i \in 1..a /\ nxt + i <= b
        /\ ~ (i <= a) => ~ (nxt + i <= b) /\ nxt + i - b = i - a
    BY <1>3
  <2>2. (h \o f)[nxt + i] = IF nxt + i <= b THEN h[nxt + i] ELSE f[nxt + i - b]
    BY <1>2, <2>1 DEF b, c
  <2>3. (q \o f)[i] = IF i <= a THEN q[i] ELSE f[i - a]
    BY <1>2 DEF a, c
  <2>4. i <= a => q[i] = h[nxt + i]
    BY <2>1 DEF a
  <2> QED BY <2>1, <2>2, <2>3, <2>4
<1>5. nxt + (a + c) = b + c
  <2> HIDE DEF a, b, c
  <2> QED BY <1>3
<1> QED BY <1>1, <1>4, <1>5

\* Appending a message whose frg count down to 0 keeps the history framed.
LEMMA AppendFramed ==
  ASSUME NEW h \in Seq(Payload), NEW f \in Seq(Payload), Framed(h),
         \A i \in 1..Len(f) : f[i].frg = Len(f) - i
  PROVE  Framed(h \o f)
<1>1. /\ Len(h) \in Nat /\ Len(f) \in Nat
      /\ Len(h \o f) = Len(h) + Len(f)
      /\ \A i \in 1..(Len(h) + Len(f)) :
           (h \o f)[i] = IF i <= Len(h) THEN h[i] ELSE f[i - Len(h)]
  BY ConcatProperties, LenProperties
<1> DEFINE hf == h \o f
<1>2. ASSUME NEW i \in 1..(Len(h) + Len(f))
      PROVE  /\ i + hf[i].frg <= Len(h) + Len(f)
             /\ \A j \in i..(i + hf[i].frg) : hf[j].frg = hf[i].frg - (j - i)
  <2>1. CASE i <= Len(h)
    <3>1. i \in 1..Len(h) /\ hf[i] = h[i]
      BY <1>1, <2>1
    <3>2. h[i].frg \in Nat
      <4>1. h[i] \in Payload
        BY <3>1, ElementOfSeq
      <4> QED BY <4>1 DEF Payload
    <3>3. /\ i + h[i].frg <= Len(h)
          /\ \A j \in i..(i + h[i].frg) : h[j].frg = h[i].frg - (j - i)
      BY <3>1 DEF Framed
    <3>4. ASSUME NEW j \in i..(i + h[i].frg) PROVE hf[j] = h[j]
      <4>1. j \in 1..(Len(h) + Len(f)) /\ j <= Len(h)
        BY <1>1, <3>1, <3>2, <3>3
      <4> QED BY <1>1, <4>1
    <3>5. i + h[i].frg <= Len(h) + Len(f)
      BY <1>1, <3>1, <3>2, <3>3
    <3> QED BY <3>1, <3>3, <3>4, <3>5
  <2>2. CASE ~ (i <= Len(h))
    <3>1. \A j \in (Len(h) + 1)..(Len(h) + Len(f)) :
            hf[j].frg = Len(f) - (j - Len(h))
      <4>1. ASSUME NEW j \in (Len(h) + 1)..(Len(h) + Len(f))
            PROVE  /\ j \in 1..(Len(h) + Len(f)) /\ ~ (j <= Len(h))
                   /\ j - Len(h) \in 1..Len(f)
        BY <1>1
      <4> QED BY <1>1, <4>1
    <3>2. i \in (Len(h) + 1)..(Len(h) + Len(f)) /\ hf[i].frg = Len(f) - (i - Len(h))
      BY <1>1, <2>2, <3>1
    <3>3. i + hf[i].frg = Len(h) + Len(f)
      BY <1>1, <3>2
    <3>4. \A j \in i..(i + hf[i].frg) :
            /\ j \in (Len(h) + 1)..(Len(h) + Len(f))
            /\ Len(f) - (j - Len(h)) = Len(f) - (i - Len(h)) - (j - i)
      BY <1>1, <3>2, <3>3
    <3> QED BY <1>1, <3>1, <3>2, <3>3, <3>4
  <2> QED BY <2>1, <2>2
<1> QED BY <1>1, <1>2 DEF Framed

(***************************************************************************)
(* One lemma per operation: StreamInv is kept                              *)
(***************************************************************************)

LEMMA SendKeeps ==
  ASSUME TypeOK, TypeOK', StreamInv,
         NEW e \in Endpoint, NEW count \in FragCounts, Send(e, count)
  PROVE  StreamInv'
<1> DEFINE msg == IF sent[e] = <<>> THEN 1 ELSE sent[e][Len(sent[e])].msg + 1
           f == [i \in 1..count |-> [msg |-> msg, frg |-> count - i]]
<1>1. /\ snd_queue' = [snd_queue EXCEPT ![e] = snd_queue[e] \o f]
      /\ sent' = [sent EXCEPT ![e] = sent[e] \o f]
      /\ UNCHANGED <<snd_buf, snd_una, snd_nxt, rcv_buf, rcv_queue, rcv_nxt, got,
                     acklist, cursor, net>>
  BY DEF Send, rcvVars
<1>2. f \in Seq(Payload) /\ Len(f) = count /\ \A i \in 1..Len(f) : f[i].frg = Len(f) - i
  <2>1. count \in Nat
    BY FragmentAssumption
  <2>2. msg \in Nat
    <3>1. CASE sent[e] = <<>>
      BY <3>1
    <3>2. CASE sent[e] # <<>>
      <4>1. sent[e][Len(sent[e])] \in Payload
        BY <3>2, TypesAt
      <4> QED BY <4>1, <3>2 DEF Payload
    <3> QED BY <3>1, <3>2
  <2> HIDE DEF msg
  <2>3. \A i \in 1..count : [msg |-> msg, frg |-> count - i] \in Payload
    BY <2>1, <2>2 DEF Payload
  <2>4. f \in [1..count -> Payload]
    BY <2>3
  <2>5. f \in Seq(Payload) /\ Len(f) = count
    BY <2>1, <2>4
  <2>6. \A i \in 1..count : f[i].frg = count - i
    OBVIOUS
  <2> HIDE DEF f
  <2> QED BY <2>5, <2>6
<1> HIDE DEF f
<1>3. /\ sent'[e] = sent[e] \o f /\ snd_queue'[e] = snd_queue[e] \o f
      /\ \A x \in Endpoint : x # e => sent'[x] = sent[x] /\ snd_queue'[x] = snd_queue[x]
  BY <1>1 DEF TypeOK
<1>4. Grows
  <2>1. /\ Len(sent[e]) <= Len(sent[e] \o f)
        /\ \A i \in 1..Len(sent[e]) : (sent[e] \o f)[i] = sent[e][i]
    BY <1>2, TypesAt, ConcatProperties
  <2>2. ASSUME NEW x \in Endpoint
        PROVE  /\ Len(sent[x]) <= Len(sent'[x])
               /\ \A i \in 1..Len(sent[x]) : sent'[x][i] = sent[x][i]
    <3>1. CASE x = e
      BY <3>1, <1>3, <2>1
    <3>2. CASE x # e
      <4>1. Len(sent[x]) \in Nat /\ sent'[x] = sent[x]
        BY <3>2, <1>3, TypesAt
      <4> QED BY <4>1
    <3> QED BY <3>1, <3>2
  <2> QED BY <1>1, <2>2, TypesAt DEF Grows, Received
<1>5. SendStream(e)'
  <2>1. /\ snd_nxt[e] + Len(snd_queue[e]) = Len(sent[e])
        /\ \A i \in 1..Len(snd_queue[e]) : snd_queue[e][i] = sent[e][snd_nxt[e] + i]
        /\ \A n \in DOMAIN snd_buf[e] :
             n < snd_nxt[e] /\ snd_buf[e][n] = sent[e][n + 1]
    BY DEF StreamInv, SendStream
  <2>2. /\ snd_nxt[e] + Len(snd_queue[e] \o f) = Len(sent[e] \o f)
        /\ \A i \in 1..Len(snd_queue[e] \o f) :
             (snd_queue[e] \o f)[i] = (sent[e] \o f)[snd_nxt[e] + i]
    <3>1. /\ snd_queue[e] \in Seq(Payload) /\ sent[e] \in Seq(Payload)
          /\ snd_nxt[e] \in Nat
      BY TypesAt
    <3> DEFINE q == snd_queue[e]
               h == sent[e]
               nxt == snd_nxt[e]
    <3>2. /\ q \in Seq(Payload) /\ h \in Seq(Payload) /\ f \in Seq(Payload) /\ nxt \in Nat
          /\ nxt + Len(q) = Len(h)
          /\ \A i \in 1..Len(q) : q[i] = h[nxt + i]
      BY <1>2, <2>1, <3>1
    <3> HIDE DEF q, h, nxt
    <3>3. /\ nxt + Len(q \o f) = Len(h \o f)
          /\ \A i \in 1..Len(q \o f) : (q \o f)[i] = (h \o f)[nxt + i]
      BY <3>2, AppendStream
    <3> QED BY <3>3 DEF q, h, nxt
  <2>3. \A n \in DOMAIN snd_buf[e] : n + 1 \in 1..Len(sent[e])
    BY <2>1, TypesAt
  <2>4. \A n \in DOMAIN snd_buf[e] : sent'[e][n + 1] = sent[e][n + 1]
    BY <1>4, <2>3 DEF Grows
  <2> QED BY <1>1, <1>3, <2>1, <2>2, <2>4 DEF SendStream
<1>6. \A x \in Endpoint : SendStream(x)'
  <2>1. ASSUME NEW x \in Endpoint, x # e PROVE SendStream(x)'
    BY <2>1, <1>1, <1>3, SendStreamStable
  <2> QED BY <1>5, <2>1
<1>7. \A x \in Endpoint : RecvStream(x)'
  BY <1>1, <1>4, RecvStreamStable
<1>8. \A x \in Endpoint : Framed(sent'[x])
  <2>1. \A x \in Endpoint : Framed(sent[x])
    BY DEF StreamInv
  <2>2. sent[e] \in Seq(Payload)
    BY TypesAt
  <2>3. Framed(sent[e] \o f)
    BY <1>2, <2>1, <2>2, AppendFramed
  <2> QED BY <1>3, <2>1, <2>3
<1>9. \A x \in Endpoint :
        /\ \A s \in cursor'[x] : Truthful(x, s)'
        /\ \A d \in net'[x] : \A s \in d : Truthful(x, s)'
  BY <1>1, <1>4, NetworkTruthful
<1> QED BY <1>1, <1>6, <1>7, <1>8, <1>9
        DEF StreamInv, NothingForgotten, WholeMessages, Received

\* Moving segments from rcv_buf to rcv_queue keeps both at their place in the
\* history h of what the peer sent, of which l are numbered: g of it are with
\* the application, then comes the queue.
LEMMA MoveStream ==
  ASSUME TypeOK, NEW e \in Endpoint, NEW queue \in Seq(Payload), NEW buf,
         DOMAIN buf \in SUBSET Nat, NEW k \in Nat, Moved(e, buf, queue, k),
         NEW g \in Nat, NEW l \in Nat, NEW h,
         rcv_nxt[e] = g + Len(queue), rcv_nxt[e] <= l,
         Holds(queue, h, g), Placed(buf, h, l)
  PROVE  /\ rcv_nxt'[e] = g + Len(rcv_queue'[e])
         /\ rcv_nxt'[e] \in Nat /\ rcv_nxt[e] <= rcv_nxt'[e] /\ rcv_nxt'[e] <= l
         /\ Holds(rcv_queue'[e], h, g)
         /\ Placed(rcv_buf'[e], h, l)
         /\ 0..(rcv_nxt[e] - 1) \cup DOMAIN buf \subseteq Received(e)'
         /\ \A x \in Endpoint : x # e =>
              /\ rcv_nxt'[x] = rcv_nxt[x] /\ rcv_queue'[x] = rcv_queue[x]
              /\ rcv_buf'[x] = rcv_buf[x]
<1> DEFINE r == rcv_nxt[e]
           q == Len(queue)
           moved == [i \in 1..k |-> buf[rcv_nxt[e] + i - 1]]
<1>1. /\ r .. r + k - 1 \subseteq DOMAIN buf
      /\ rcv_nxt' = [rcv_nxt EXCEPT ![e] = r + k]
      /\ rcv_buf' = [rcv_buf EXCEPT ![e] = [n \in DOMAIN buf \ (r .. r + k - 1) |-> buf[n]]]
      /\ rcv_queue' = [rcv_queue EXCEPT ![e] = queue \o moved]
      /\ moved \in Seq(Payload) /\ Len(moved) = k
  BY DEF Moved
<1>2. \A i \in 1..k : moved[i] = buf[r + i - 1]
  OBVIOUS
<1>3. r \in Nat /\ q \in Nat /\ r = g + q /\ r <= l
  BY TypesAt, LenProperties
<1> HIDE DEF moved
<1>4. /\ Len(queue \o moved) = q + k
      /\ \A i \in 1..(q + k) :
           (queue \o moved)[i] = IF i <= q THEN queue[i] ELSE moved[i - q]
  <2>1. moved \in Seq(Payload) /\ Len(moved) = k
    BY <1>1
  <2> HIDE DEF q
  <2> QED BY <2>1, ConcatAt DEF q
<1>5. /\ rcv_nxt'[e] = r + k /\ rcv_queue'[e] = queue \o moved
      /\ rcv_buf'[e] = [n \in DOMAIN buf \ (r .. r + k - 1) |-> buf[n]]
      /\ \A x \in Endpoint : x # e =>
           /\ rcv_nxt'[x] = rcv_nxt[x] /\ rcv_queue'[x] = rcv_queue[x]
           /\ rcv_buf'[x] = rcv_buf[x]
  BY <1>1 DEF TypeOK
<1>6. /\ \A i \in 1..q : queue[i] = h[g + i]
      /\ \A n \in DOMAIN buf : n \in Nat /\ n < l /\ buf[n] = h[n + 1]
  BY DEF Holds, Placed
<1> HIDE DEF r, q
<1>7. r + k \in Nat /\ r <= r + k /\ r + k = g + (q + k)
  BY <1>3
<1>8. r + k <= l
  <2>1. CASE k = 0
    BY <2>1, <1>3
  <2>2. CASE k # 0
    <3>1. r + k - 1 \in r .. r + k - 1
      BY <2>2, <1>3
    <3>2. r + k - 1 < l
      BY <3>1, <1>1, <1>6
    <3> QED BY <3>2, <1>3
  <2> QED BY <2>1, <2>2
<1>9. ASSUME NEW i \in 1..(q + k) PROVE (queue \o moved)[i] = h[g + i]
  <2>1. CASE i <= q
    <3>1. i \in 1..q
      BY <2>1, <1>3
    <3> QED BY <3>1, <2>1, <1>4, <1>6
  <2>2. CASE ~ (i <= q)
    <3>1. /\ i - q \in 1..k
          /\ r + (i - q) - 1 \in r .. r + k - 1
          /\ r + (i - q) - 1 + 1 = g + i
      BY <2>2, <1>3
    <3>2. (queue \o moved)[i] = buf[r + (i - q) - 1]
      BY <3>1, <2>2, <1>2, <1>4
    <3>3. buf[r + (i - q) - 1] = h[r + (i - q) - 1 + 1]
      BY <3>1, <1>1, <1>6
    <3> QED BY <3>1, <3>2, <3>3
  <2> QED BY <2>1, <2>2
<1>10. \A n \in DOMAIN rcv_buf'[e] : n < l /\ rcv_buf'[e][n] = h[n + 1]
  BY <1>5, <1>6
<1>11. 0..(r - 1) \cup DOMAIN buf \subseteq 0..(rcv_nxt'[e] - 1) \cup DOMAIN rcv_buf'[e]
  <2>1. ASSUME NEW n \in 0..(r - 1) \cup DOMAIN buf
        PROVE  n \in 0..(r + k - 1) \cup (DOMAIN buf \ (r .. r + k - 1))
    <3>1. n \in Nat
      BY <1>3, <1>6
    <3> QED BY <3>1, <1>3
  <2>2. 0 .. (rcv_nxt'[e] - 1) = 0 .. (r + k - 1)
    <3>1. rcv_nxt'[e] = r + k
      BY <1>5
    <3> QED BY <3>1, <1>3
  <2>3. DOMAIN [n \in DOMAIN buf \ (r .. r + k - 1) |-> buf[n]] = DOMAIN buf \ (r .. r + k - 1)
    OBVIOUS
  <2>4. DOMAIN rcv_buf'[e] = DOMAIN buf \ (r .. r + k - 1)
    BY <1>5, <2>3
  <2> QED BY <2>1, <2>2, <2>4
<1> QED BY <1>4, <1>5, <1>7, <1>8, <1>9, <1>10, <1>11 DEF Received, r, Holds, Placed

\* A framed message that starts at fragment 1 of a queue that holds all of it
\* ends with the first fragment whose frg is 0.
LEMMA MessageEnd ==
  ASSUME NEW queue \in Seq(Payload), NEW h \in Seq(Payload), NEW g \in Nat,
         Framed(h), g + Len(queue) <= Len(h), Holds(queue, h, g),
         MessageReady(queue),
         NEW n \in 1..Len(queue),
         queue[n].frg = 0 \/ n = Len(queue),
         \A i \in 1..(n - 1) : queue[i].frg # 0
  PROVE  queue[n].frg = 0
<1> USE DEF Holds
<1> DEFINE q == Len(queue)
           c == queue[1].frg
<1>1. q \in Nat /\ 1 \in 1..q /\ q >= c + 1
  BY LenProperties DEF MessageReady
<1>2. c \in Nat
  <2>1. queue[1] \in Payload
    BY <1>1, ElementOfSeq
  <2> QED BY <2>1 DEF Payload
<1>3. queue[c + 1].frg = 0
  <2>1. /\ Len(h) \in Nat /\ h[g + 1].frg = c /\ g + q <= Len(h)
    BY <1>1, LenProperties
  <2> HIDE DEF q, c
  <2>2. g + 1 \in 1..Len(h) /\ g + 1 + c \in (g + 1)..(g + 1 + c) /\ c + 1 \in 1..q
    BY <1>1, <1>2, <2>1
  <2>3. \A j \in (g + 1)..(g + 1 + c) : h[j].frg = c - (j - (g + 1))
    BY <2>1, <2>2 DEF Framed
  <2>4. PICK j \in (g + 1)..(g + 1 + c) : j = g + 1 + c
    BY <2>2
  <2>5. h[g + (c + 1)].frg = 0
    <3>1. j = g + (c + 1)
      BY <1>2, <2>4
    <3>2. c - (j - (g + 1)) = 0
      BY <1>2, <2>4
    <3> QED BY <2>3, <3>1, <3>2
  <2> QED BY <2>2, <2>5 DEF q
<1>4. ASSUME queue[n].frg # 0 PROVE FALSE
  <2>1. n = q
    BY <1>4
  <2> HIDE DEF q, c
  <2>2. c + 1 \in 1..(n - 1) \/ c + 1 = n
    BY <1>1, <1>2, <2>1
  <2> QED BY <1>3, <1>4, <2>2
<1> QED BY <1>4

\* What a cut at n leaves of a queue.
LEMMA SubSeqFacts ==
  ASSUME NEW q \in Seq(Payload), NEW n \in 0..Len(q)
  PROVE  /\ SubSeq(q, 1, n) \in Seq(Payload) /\ Len(SubSeq(q, 1, n)) = n
         /\ \A i \in 1..n : SubSeq(q, 1, n)[i] = q[i]
         /\ SubSeq(q, n + 1, Len(q)) \in Seq(Payload)
         /\ Len(SubSeq(q, n + 1, Len(q))) = Len(q) - n
         /\ \A i \in 1..(Len(q) - n) : SubSeq(q, n + 1, Len(q))[i] = q[n + i]
<1>1. Len(q) \in Nat /\ n \in Nat
  BY LenProperties
<1>2. SubSeq(q, 1, n) \in Seq(Payload) /\ SubSeq(q, n + 1, Len(q)) \in Seq(Payload)
  BY <1>1
<1>3. Len(SubSeq(q, 1, n)) = n /\ Len(SubSeq(q, n + 1, Len(q))) = Len(q) - n
  BY <1>1
<1>4. \A i \in 1..n : SubSeq(q, 1, n)[i] = q[i]
  BY <1>1
<1>5. \A i \in 1..(Len(q) - n) : SubSeq(q, n + 1, Len(q))[i] = q[n + i]
  BY <1>1
<1> QED BY <1>2, <1>3, <1>4, <1>5

\* recv hands the first n fragments of the queue to the application: got is
\* still a prefix of h, and the rest of the queue is at its place behind it.
LEMMA HandOver ==
  ASSUME NEW q \in Seq(Payload), NEW g \in Seq(Payload), NEW h,
         NEW n \in 1..Len(q),
         Holds(g, h, 0), Holds(q, h, Len(g))
  PROVE  /\ Len(g \o SubSeq(q, 1, n)) = Len(g) + n
         /\ Holds(g \o SubSeq(q, 1, n), h, 0)
         /\ (g \o SubSeq(q, 1, n))[Len(g) + n] = q[n]
         /\ Holds(SubSeq(q, n + 1, Len(q)), h, Len(g) + n)
<1> DEFINE a == Len(g)
           b == Len(q)
           front == SubSeq(q, 1, n)
<1>1. a \in Nat /\ b \in Nat /\ n \in 1..b
  BY LenProperties
<1>2. /\ front \in Seq(Payload) /\ Len(front) = n
      /\ \A i \in 1..n : front[i] = q[i]
      /\ Len(SubSeq(q, n + 1, b)) = b - n
      /\ \A i \in 1..(b - n) : SubSeq(q, n + 1, b)[i] = q[n + i]
  BY <1>1, SubSeqFacts
<1> HIDE DEF front
<1>3. /\ Len(g \o front) = a + n
      /\ \A i \in 1..(a + n) : (g \o front)[i] = IF i <= a THEN g[i] ELSE front[i - a]
  BY <1>2, ConcatAt
<1>4. /\ \A i \in 1..a : g[i] = h[0 + i]
      /\ \A i \in 1..b : q[i] = h[a + i]
  BY DEF Holds
<1> HIDE DEF a, b
<1>5. ASSUME NEW i \in 1..(a + n) PROVE (g \o front)[i] = h[0 + i]
  <2>1. CASE i <= a
    <3>1. i \in 1..a
      BY <1>1, <2>1
    <3> QED BY <1>3, <1>4, <2>1, <3>1
  <2>2. CASE ~ (i <= a)
    <3>1. i - a \in 1..n /\ i - a \in 1..b /\ a + (i - a) = 0 + i
      BY <1>1, <2>2
    <3>2. (g \o front)[i] = q[i - a]
      BY <1>2, <1>3, <2>2, <3>1
    <3>3. q[i - a] = h[a + (i - a)]
      BY <1>4, <3>1
    <3> QED BY <3>1, <3>2, <3>3
  <2> QED BY <2>1, <2>2
<1>6. (g \o front)[a + n] = q[n]
  <2>1. a + n \in 1..(a + n) /\ ~ (a + n <= a) /\ a + n - a = n /\ n \in 1..n
    BY <1>1
  <2> QED BY <1>2, <1>3, <2>1
<1>7. ASSUME NEW i \in 1..(b - n) PROVE SubSeq(q, n + 1, b)[i] = h[a + n + i]
  <2>1. n + i \in 1..b /\ a + (n + i) = a + n + i
    BY <1>1
  <2> QED BY <1>2, <1>4, <2>1
<1> QED BY <1>2, <1>3, <1>5, <1>6, <1>7 DEF a, b, front, Holds

\* RecvStream, in these words.
LEMMA RecvStreamWords ==
  ASSUME TypeOK, NEW e \in Endpoint
  PROVE  RecvStream(e) <=> /\ rcv_nxt[e] = Len(got[e]) + Len(rcv_queue[e])
                           /\ rcv_nxt[e] <= snd_nxt[Peer(e)]
                           /\ Holds(got[e], sent[Peer(e)], 0)
                           /\ Holds(rcv_queue[e], sent[Peer(e)], Len(got[e]))
                           /\ Placed(rcv_buf[e], sent[Peer(e)], snd_nxt[Peer(e)])
<1>1. Holds(got[e], sent[Peer(e)], 0) <=>
        \A i \in 1..Len(got[e]) : got[e][i] = sent[Peer(e)][i]
  <2>1. Len(got[e]) \in Nat
    BY TypesAt
  <2>2. \A i \in 1..Len(got[e]) : 0 + i = i
    BY <2>1
  <2> QED BY <2>2 DEF Holds
<1> QED BY <1>1 DEF RecvStream, Holds, Placed

LEMMA RecvStreamWordsNext ==
  ASSUME TypeOK', NEW e \in Endpoint,
         rcv_nxt'[e] = Len(got'[e]) + Len(rcv_queue'[e]),
         rcv_nxt'[e] <= snd_nxt'[Peer(e)],
         Holds(got'[e], sent'[Peer(e)], 0),
         Holds(rcv_queue'[e], sent'[Peer(e)], Len(got'[e])),
         Placed(rcv_buf'[e], sent'[Peer(e)], snd_nxt'[Peer(e)])
  PROVE  RecvStream(e)'
<1>1. \A i \in 1..Len(got'[e]) : got'[e][i] = sent'[Peer(e)][i]
  <2>1. got'[e] \in Seq(Payload)
    BY DEF TypeOK
  <2>2. Len(got'[e]) \in Nat
    BY <2>1, LenProperties
  <2>3. \A i \in 1..Len(got'[e]) : 0 + i = i
    BY <2>2
  <2> QED BY <2>3 DEF Holds
<1> QED BY <1>1 DEF RecvStream, Holds, Placed

LEMMA RecvKeeps ==
  ASSUME TypeOK, TypeOK', StreamInv, NEW e \in Endpoint, Recv(e)
  PROVE  StreamInv'
<1> DEFINE p == Peer(e)
           queue == rcv_queue[e]
           rest(n) == SubSeq(queue, n + 1, Len(queue))
           now(n) == got[e] \o SubSeq(queue, 1, n)
           g == Len(got[e])
<1>1. PICK n \in 1..Len(queue) :
        /\ queue[n].frg = 0 \/ n = Len(queue)
        /\ \A i \in 1..(n - 1) : queue[i].frg # 0
        /\ got' = [got EXCEPT ![e] = now(n)]
        /\ MoveToQueue(e, rcv_buf[e], rest(n))
  BY DEF Recv
<1>2. /\ MessageReady(queue)
      /\ UNCHANGED <<snd_queue, snd_buf, snd_una, snd_nxt, sent, acklist, cursor, net>>
  BY DEF Recv, sndVars
<1>3. /\ p \in Endpoint /\ queue \in Seq(Payload)
      /\ got[e] \in Seq(Payload) /\ sent[p] \in Seq(Payload)
      /\ DOMAIN rcv_buf[e] \in SUBSET Nat /\ rcv_buf[e] \in [DOMAIN rcv_buf[e] -> Payload]
      /\ Len(queue) \in Nat /\ g \in Nat /\ Len(sent[p]) \in Nat
      /\ rcv_nxt[e] \in Nat /\ snd_nxt[p] \in Nat /\ Len(snd_queue[p]) \in Nat
  BY EndpointFacts, TypesAt
<1>4. /\ rcv_nxt[e] = g + Len(queue)
      /\ rcv_nxt[e] <= snd_nxt[p]
      /\ Holds(got[e], sent[p], 0)
      /\ Holds(queue, sent[p], g)
      /\ Placed(rcv_buf[e], sent[p], snd_nxt[p])
  BY RecvStreamWords DEF StreamInv
<1>5. Framed(sent[p]) /\ snd_nxt[p] + Len(snd_queue[p]) = Len(sent[p])
  BY <1>3 DEF StreamInv, SendStream
<1>6. /\ rest(n) \in Seq(Payload) /\ Len(rest(n)) = Len(queue) - n /\ n \in Nat
  <2>1. n \in 0..Len(queue)
    BY <1>3
  <2> QED BY <1>3, <2>1, SubSeqFacts
<1>7. /\ Len(now(n)) = g + n
      /\ Holds(now(n), sent[p], 0)
      /\ now(n)[g + n] = queue[n]
      /\ Holds(rest(n), sent[p], g + n)
  <2> HIDE DEF queue
  <2> QED BY <1>3, <1>4, HandOver
<1>8. got'[e] = now(n) /\ \A x \in Endpoint : x # e => got'[x] = got[x]
  BY <1>1 DEF TypeOK
<1>9. PICK k \in Nat : Moved(e, rcv_buf[e], rest(n), k)
  BY <1>1, <1>3, <1>6, MoveToQueueFacts
<1> HIDE DEF rest, now
<1>10. /\ rcv_nxt'[e] = g + n + Len(rcv_queue'[e])
       /\ rcv_nxt'[e] \in Nat /\ rcv_nxt[e] <= rcv_nxt'[e] /\ rcv_nxt'[e] <= snd_nxt[p]
       /\ Holds(rcv_queue'[e], sent[p], g + n)
       /\ Placed(rcv_buf'[e], sent[p], snd_nxt[p])
       /\ 0..(rcv_nxt[e] - 1) \cup DOMAIN rcv_buf[e] \subseteq Received(e)'
       /\ \A x \in Endpoint : x # e =>
            /\ rcv_nxt'[x] = rcv_nxt[x] /\ rcv_queue'[x] = rcv_queue[x]
            /\ rcv_buf'[x] = rcv_buf[x]
  <2>1. g + n \in Nat
    BY <1>3, <1>6
  <2>2. rcv_nxt[e] = g + n + Len(rest(n))
    <3> DEFINE lq == Len(queue)
               lr == Len(rest(n))
    <3>1. lq \in Nat /\ g \in Nat /\ n \in Nat /\ lr = lq - n /\ rcv_nxt[e] = g + lq
      BY <1>3, <1>4, <1>6
    <3> HIDE DEF lq, lr, g
    <3> QED BY <3>1 DEF lr
  <2> DEFINE g1 == g + n
             q1 == rest(n)
             b1 == rcv_buf[e]
             h1 == sent[p]
             l1 == snd_nxt[p]
  <2>3. /\ g1 \in Nat /\ l1 \in Nat /\ q1 \in Seq(Payload) /\ DOMAIN b1 \in SUBSET Nat
        /\ Moved(e, b1, q1, k) /\ rcv_nxt[e] = g1 + Len(q1) /\ rcv_nxt[e] <= l1
        /\ Holds(q1, h1, g1) /\ Placed(b1, h1, l1)
    BY <1>3, <1>4, <1>6, <1>7, <1>9, <2>1, <2>2
  <2> HIDE DEF g1, q1, b1, h1, l1
  <2>4. /\ rcv_nxt'[e] = g1 + Len(rcv_queue'[e])
        /\ rcv_nxt'[e] \in Nat /\ rcv_nxt[e] <= rcv_nxt'[e] /\ rcv_nxt'[e] <= l1
        /\ Holds(rcv_queue'[e], h1, g1) /\ Placed(rcv_buf'[e], h1, l1)
        /\ 0..(rcv_nxt[e] - 1) \cup DOMAIN b1 \subseteq Received(e)'
        /\ \A x \in Endpoint : x # e =>
             /\ rcv_nxt'[x] = rcv_nxt[x] /\ rcv_queue'[x] = rcv_queue[x]
             /\ rcv_buf'[x] = rcv_buf[x]
    BY <2>3, MoveStream
  <2> QED BY <2>4 DEF g1, b1, h1, l1
<1>11. Grows
  <2>1. ASSUME NEW x \in Endpoint
        PROVE  /\ rcv_nxt'[x] \in Nat /\ rcv_nxt[x] <= rcv_nxt'[x]
               /\ Received(x) \subseteq Received(x)'
    <3>1. CASE x = e
      BY <3>1, <1>10 DEF Received
    <3>2. CASE x # e
      BY <3>2, <1>10, TypesAt DEF Received
    <3> QED BY <3>1, <3>2
  <2>2. \A x \in Endpoint : snd_nxt[x] \in Nat /\ Len(sent[x]) \in Nat
    BY TypesAt
  <2> QED BY <1>2, <2>1, <2>2 DEF Grows
<1>12. \A x \in Endpoint : RecvStream(x)'
  <2>1. RecvStream(e)'
    BY <1>2, <1>7, <1>8, <1>10, RecvStreamWordsNext
  <2>2. ASSUME NEW x \in Endpoint, x # e PROVE RecvStream(x)'
    BY <2>2, <1>8, <1>10, <1>11, RecvStreamStable
  <2> QED BY <2>1, <2>2
<1>13. \A x \in Endpoint : SendStream(x)' /\ Framed(sent'[x])
  BY <1>2 DEF StreamInv, SendStream
<1>14. \A x \in Endpoint :
         /\ \A s \in cursor'[x] : Truthful(x, s)'
         /\ \A d \in net'[x] : \A s \in d : Truthful(x, s)'
  BY <1>2, <1>11, NetworkTruthful
<1>15. NothingForgotten' /\ \A x \in Endpoint : acklist'[x] \subseteq Received(x)'
  BY <1>2, <1>11, EndpointFacts DEF StreamInv, NothingForgotten, Grows
<1>16. WholeMessages'
  <2>1. queue[n].frg = 0
    <3>1. g + Len(queue) <= Len(sent[p])
      <4> DEFINE lq == Len(queue)
                 ls == Len(sent[p])
                 lw == Len(snd_queue[p])
      <4>1. /\ lq \in Nat /\ g \in Nat /\ ls \in Nat /\ lw \in Nat /\ snd_nxt[p] \in Nat
            /\ rcv_nxt[e] = g + lq /\ rcv_nxt[e] <= snd_nxt[p] /\ snd_nxt[p] + lw = ls
        BY <1>3, <1>4, <1>5
      <4> HIDE DEF lq, ls, lw, g
      <4>2. g + lq <= ls
        BY <4>1
      <4> QED BY <4>2 DEF lq, ls
    <3> HIDE DEF p, g, queue
    <3> QED BY <1>1, <1>2, <1>3, <1>4, <1>5, <3>1, MessageEnd
  <2>2. got'[e][Len(got'[e])].frg = 0
    BY <1>7, <1>8, <2>1
  <2>3. \A x \in Endpoint : x # e => got'[x] = got[x]
    BY <1>8
  <2> QED BY <2>2, <2>3 DEF StreamInv, WholeMessages
<1> QED BY <1>12, <1>13, <1>14, <1>15, <1>16 DEF StreamInv

LEMMA InputStartKeeps ==
  ASSUME TypeOK, TypeOK', StreamInv,
         NEW e \in Endpoint, NEW d \in net[e], Input(e, d)
  PROVE  StreamInv'
<1>1. /\ cursor' = [cursor EXCEPT ![e] = d]
      /\ net' = [net EXCEPT ![e] = net[e] \ {d}] \/ net' = net
      /\ UNCHANGED <<snd_queue, snd_buf, snd_una, snd_nxt, rcv_buf, rcv_queue, rcv_nxt,
                     sent, got, acklist>>
  BY DEF Input, sndVars, rcvVars, histVars
<1>2. Grows
  BY <1>1, TypesAt DEF Grows, Received
<1>3. \A x \in Endpoint :
        /\ \A s \in cursor'[x] : s \in cursor[x] \/ (\E c \in net[x] : s \in c)
        /\ net'[x] \ net[x] = {}
  <2>1. cursor'[e] = d /\ \A x \in Endpoint : x # e => cursor'[x] = cursor[x]
    BY <1>1 DEF TypeOK
  <2>2. ASSUME NEW x \in Endpoint PROVE net'[x] \ net[x] = {}
    <3>1. net \in [Endpoint -> SUBSET SUBSET Segment]
      BY DEF TypeOK
    <3>2. net'[x] = net[x] \/ net'[x] = net[x] \ {d}
      BY <1>1, <3>1
    <3> QED BY <3>2
  <2> QED BY <2>1, <2>2
<1>4. \A x \in Endpoint :
        /\ \A s \in cursor'[x] : Truthful(x, s)'
        /\ \A c \in net'[x] : \A s \in c : Truthful(x, s)'
  <2>1. \A x \in Endpoint :
          /\ \A s \in cursor'[x] : s \in cursor[x] \/ (\E c \in net[x] : s \in c)
          /\ \A c \in net'[x] \ net[x] : \A s \in c : Truthful(x, s)'
    BY <1>3
  <2> QED BY <1>2, <2>1, NetworkTruthful
<1>5. ASSUME NEW x \in Endpoint
      PROVE  /\ SendStream(x)' /\ RecvStream(x)' /\ Framed(sent'[x])
             /\ acklist'[x] \subseteq Received(x)'
  <2>1. SendStream(x)'
    BY <1>1, SendStreamStable
  <2>2. RecvStream(x)'
    BY <1>1, <1>2, RecvStreamStable
  <2> QED BY <1>1, <2>1, <2>2 DEF StreamInv, Received
<1>6. NothingForgotten' /\ WholeMessages'
  BY <1>1 DEF StreamInv, NothingForgotten, WholeMessages, Received
<1> QED BY <1>4, <1>5, <1>6 DEF StreamInv

\* What a segment does to the receive side of e.
LEMMA InputRecvSide ==
  ASSUME TypeOK, StreamInv, NEW e \in Endpoint, NEW s \in cursor[e], s.cmd = "PUSH",
         MoveToQueue(e, Stored(e, s), rcv_queue[e])
  PROVE  /\ rcv_nxt'[e] = Len(got[e]) + Len(rcv_queue'[e])
         /\ rcv_nxt'[e] \in Nat /\ rcv_nxt[e] <= rcv_nxt'[e]
         /\ rcv_nxt'[e] <= snd_nxt[Peer(e)]
         /\ Holds(rcv_queue'[e], sent[Peer(e)], Len(got[e]))
         /\ Placed(rcv_buf'[e], sent[Peer(e)], snd_nxt[Peer(e)])
         /\ Received(e) \cup {s.sn} \subseteq Received(e)'
         /\ \A x \in Endpoint : x # e =>
              /\ rcv_nxt'[x] = rcv_nxt[x] /\ rcv_queue'[x] = rcv_queue[x]
              /\ rcv_buf'[x] = rcv_buf[x]
<1> DEFINE q1 == rcv_queue[e]
           b1 == Stored(e, s)
           h1 == sent[Peer(e)]
           l1 == snd_nxt[Peer(e)]
           g1 == Len(got[e])
<1>1. /\ g1 \in Nat /\ l1 \in Nat /\ q1 \in Seq(Payload)
  BY EndpointFacts, TypesAt
<1>2. s \in Segment
  BY TypesAt
<1>3. /\ DOMAIN b1 \in SUBSET Nat /\ b1 \in [DOMAIN b1 -> Payload]
      /\ DOMAIN b1 = DOMAIN rcv_buf[e] \cup {s.sn}
  BY <1>2, StoredType
<1>4. PICK k \in Nat : Moved(e, b1, q1, k)
  <2> HIDE DEF b1, q1
  <2>1. MoveToQueue(e, b1, q1)
    BY DEF b1, q1
  <2> QED BY <1>1, <1>3, <2>1, MoveToQueueFacts
<1>5. /\ rcv_nxt[e] = g1 + Len(q1) /\ rcv_nxt[e] <= l1
      /\ Holds(q1, h1, g1) /\ Placed(rcv_buf[e], h1, l1)
  BY RecvStreamWords DEF StreamInv
<1>6. Placed(b1, h1, l1)
  <2>1. s.sn < l1 /\ s.data = h1[s.sn + 1]
    BY DEF StreamInv, Truthful
  <2>2. \A n \in DOMAIN b1 : b1[n] = IF n \in DOMAIN rcv_buf[e] THEN rcv_buf[e][n] ELSE s.data
    BY DEF Stored
  <2>3. \A n \in DOMAIN rcv_buf[e] : n < l1 /\ rcv_buf[e][n] = h1[n + 1]
    BY <1>5 DEF Placed
  <2> HIDE DEF b1, h1, l1
  <2> QED BY <1>3, <2>1, <2>2, <2>3 DEF Placed
<1> HIDE DEF q1, b1, h1, l1, g1
<1>7. /\ rcv_nxt'[e] = g1 + Len(rcv_queue'[e])
      /\ rcv_nxt'[e] \in Nat /\ rcv_nxt[e] <= rcv_nxt'[e] /\ rcv_nxt'[e] <= l1
      /\ Holds(rcv_queue'[e], h1, g1) /\ Placed(rcv_buf'[e], h1, l1)
      /\ 0..(rcv_nxt[e] - 1) \cup DOMAIN b1 \subseteq Received(e)'
      /\ \A x \in Endpoint : x # e =>
           /\ rcv_nxt'[x] = rcv_nxt[x] /\ rcv_queue'[x] = rcv_queue[x]
           /\ rcv_buf'[x] = rcv_buf[x]
  BY <1>1, <1>3, <1>4, <1>5, <1>6, MoveStream
<1>8. Received(e) \cup {s.sn} \subseteq Received(e)'
  <2>1. Received(e) \cup {s.sn} = 0..(rcv_nxt[e] - 1) \cup DOMAIN b1
    BY <1>3 DEF Received
  <2> QED BY <1>7, <2>1
<1> QED BY <1>7, <1>8 DEF g1, h1, l1

LEMMA InputKeeps ==
  ASSUME TypeOK, TypeOK', StreamInv, NEW e \in Endpoint,
         InputAckOrWins(e) \/ InputWask(e) \/ InputPush(e) \/ InputStalePush(e)
  PROVE  StreamInv'
<1> DEFINE p == Peer(e)
<1>1. PICK s \in Segment :
        /\ InputSegment(e, s)
        /\ \/ UNCHANGED rcvVars /\ acklist' = acklist
           \/ /\ s.cmd = "PUSH" /\ UNCHANGED rcvVars
              /\ s.sn < rcv_nxt[e]
              /\ acklist' = [acklist EXCEPT ![e] = acklist[e] \cup {s.sn}]
           \/ /\ s.cmd = "PUSH"
              /\ MoveToQueue(e, Stored(e, s), rcv_queue[e])
              /\ acklist' = [acklist EXCEPT ![e] = acklist[e] \cup {s.sn}]
  BY InputFacts
<1>2. /\ s \in cursor[e] /\ ParseAcks(e, s)
      /\ cursor'[e] \subseteq cursor[e]
      /\ cursor' = [cursor EXCEPT ![e] = cursor'[e]]
      /\ UNCHANGED <<sent, got, net>>
  BY <1>1 DEF InputSegment, histVars
<1>3. PICK left \in SUBSET DOMAIN snd_buf[e] :
        /\ snd_buf' = [snd_buf EXCEPT ![e] = [n \in left |-> snd_buf[e][n]]]
        /\ \A n \in DOMAIN snd_buf[e] \ left :
             n < s.una \/ (s.cmd = "ACK" /\ n = s.sn)
        /\ UNCHANGED <<snd_queue, snd_nxt>>
  BY <1>2, ParseAcksFacts
<1>4. /\ DOMAIN snd_buf'[e] = left /\ \A n \in left : snd_buf'[e][n] = snd_buf[e][n]
      /\ \A x \in Endpoint : x # e => snd_buf'[x] = snd_buf[x]
  BY <1>3 DEF TypeOK
<1>5. /\ p \in Endpoint /\ p # e /\ \A x \in Endpoint : x = e \/ x = p
      /\ s.una \in Nat /\ s.sn \in Nat /\ rcv_nxt[e] \in Nat /\ rcv_nxt[p] \in Nat
      /\ \A x \in Endpoint : snd_nxt[x] \in Nat /\ Len(sent[x]) \in Nat
                             /\ rcv_nxt[x] \in Nat /\ DOMAIN snd_buf[x] \in SUBSET Nat
  BY EndpointFacts, TypesAt DEF Segment
<1>6. Truthful(e, s)
  BY <1>2 DEF StreamInv
<1>7. \/ rcv_nxt' = rcv_nxt /\ rcv_queue' = rcv_queue /\ rcv_buf' = rcv_buf
      \/ s.cmd = "PUSH" /\ MoveToQueue(e, Stored(e, s), rcv_queue[e])
  BY <1>1 DEF rcvVars
<1>8. Grows
  <2>1. ASSUME NEW x \in Endpoint
        PROVE  /\ rcv_nxt'[x] \in Nat /\ rcv_nxt[x] <= rcv_nxt'[x]
               /\ Received(x) \subseteq Received(x)'
    <3>1. CASE rcv_nxt' = rcv_nxt /\ rcv_queue' = rcv_queue /\ rcv_buf' = rcv_buf
      BY <3>1, <1>5 DEF Received
    <3>2. CASE s.cmd = "PUSH" /\ MoveToQueue(e, Stored(e, s), rcv_queue[e])
      <4>1. CASE x = e
        BY <4>1, <3>2, <1>2, InputRecvSide
      <4>2. CASE x # e
        <5>1. rcv_nxt'[x] = rcv_nxt[x] /\ rcv_buf'[x] = rcv_buf[x]
          BY <4>2, <3>2, <1>2, InputRecvSide
        <5> QED BY <5>1, <1>5 DEF Received
      <4> QED BY <4>1, <4>2
    <3> QED BY <1>7, <3>1, <3>2
  <2> QED BY <1>2, <1>3, <1>5, <2>1 DEF Grows
<1>9. \A x \in Endpoint : RecvStream(x)'
  <2>1. CASE rcv_nxt' = rcv_nxt /\ rcv_queue' = rcv_queue /\ rcv_buf' = rcv_buf
    BY <2>1, <1>2, <1>8, RecvStreamStable
  <2>2. CASE s.cmd = "PUSH" /\ MoveToQueue(e, Stored(e, s), rcv_queue[e])
    <3>1. RecvStream(e)'
      <4>1. /\ rcv_nxt'[e] = Len(got[e]) + Len(rcv_queue'[e])
            /\ rcv_nxt'[e] <= snd_nxt[p]
            /\ Holds(rcv_queue'[e], sent[p], Len(got[e]))
            /\ Placed(rcv_buf'[e], sent[p], snd_nxt[p])
        BY <2>2, <1>2, InputRecvSide
      <4>2. Holds(got[e], sent[p], 0)
        BY RecvStreamWords DEF StreamInv
      <4> QED BY <1>2, <1>3, <4>1, <4>2, RecvStreamWordsNext
    <3>2. ASSUME NEW x \in Endpoint, x # e PROVE RecvStream(x)'
      <4>1. /\ rcv_nxt'[x] = rcv_nxt[x] /\ rcv_queue'[x] = rcv_queue[x]
            /\ rcv_buf'[x] = rcv_buf[x]
        BY <3>2, <2>2, <1>2, InputRecvSide
      <4> QED BY <4>1, <1>2, <1>8, RecvStreamStable
    <3> QED BY <3>1, <3>2
  <2> QED BY <1>7, <2>1, <2>2
<1>10. \A x \in Endpoint : SendStream(x)' /\ Framed(sent'[x])
  <2>1. ASSUME NEW x \in Endpoint PROVE SendStream(x)'
    <3>1. /\ DOMAIN snd_buf'[x] \subseteq DOMAIN snd_buf[x]
          /\ \A n \in DOMAIN snd_buf'[x] : snd_buf'[x][n] = snd_buf[x][n]
      BY <1>4
    <3> QED BY <3>1, <1>2, <1>3, SendStreamStable
  <2> QED BY <1>2, <2>1 DEF StreamInv
<1>11. \A x \in Endpoint :
         /\ \A t \in cursor'[x] : Truthful(x, t)'
         /\ \A d \in net'[x] : \A t \in d : Truthful(x, t)'
  <2>1. ASSUME NEW x \in Endpoint PROVE cursor'[x] \subseteq cursor[x] /\ net'[x] = net[x]
    <3>1. x # e => cursor'[x] = cursor[x]
      <4> DEFINE rest == cursor'[e]
      <4>1. cursor' = [cursor EXCEPT ![e] = rest]
        BY <1>2
      <4> HIDE DEF rest
      <4> QED BY <4>1 DEF TypeOK
    <3> QED BY <1>2, <3>1
  <2> QED BY <1>8, <2>1, NetworkTruthful
<1>12. \A x \in Endpoint : acklist'[x] \subseteq Received(x)'
  <2>1. \A x \in Endpoint : acklist[x] \subseteq Received(x)'
    BY <1>8 DEF StreamInv, Grows
  <2>2. \/ acklist' = acklist
        \/ acklist' = [acklist EXCEPT ![e] = acklist[e] \cup {s.sn}] /\ s.sn \in Received(e)'
    <3>1. s.sn < rcv_nxt[e] => s.sn \in Received(e)
      BY <1>5 DEF Received
    <3>2. Received(e) \subseteq Received(e)'
      BY <1>8 DEF Grows
    <3>3. s.cmd = "PUSH" /\ MoveToQueue(e, Stored(e, s), rcv_queue[e]) => s.sn \in Received(e)'
      BY <1>2, InputRecvSide
    <3> QED BY <1>1, <3>1, <3>2, <3>3
  <2>3. CASE acklist' = acklist
    BY <2>1, <2>3
  <2>4. CASE /\ acklist' = [acklist EXCEPT ![e] = acklist[e] \cup {s.sn}]
             /\ s.sn \in Received(e)'
    <3>1. ASSUME NEW x \in Endpoint PROVE acklist'[x] \subseteq acklist[x] \cup {s.sn}
      BY <2>4 DEF TypeOK
    <3>2. ASSUME NEW x \in Endpoint, x # e PROVE acklist'[x] = acklist[x]
      BY <2>4, <3>2 DEF TypeOK
    <3> QED BY <2>1, <2>4, <3>1, <3>2
  <2> QED BY <2>2, <2>3, <2>4
<1>13. NothingForgotten'
  <2>1. ASSUME NEW n \in 0..(snd_nxt[e] - 1)
        PROVE  n \in left \/ n \in Received(p)
    <3>1. n \in DOMAIN snd_buf[e] \/ n \in Received(p)
      BY DEF StreamInv, NothingForgotten
    <3>2. ASSUME n \in DOMAIN snd_buf[e] \ left PROVE n \in Received(p)
      <4>1. n < s.una => n \in 0..(rcv_nxt[p] - 1)
        BY <1>5, <1>6 DEF Truthful
      <4> QED BY <1>3, <1>6, <3>2, <4>1 DEF Truthful, Received
    <3> QED BY <3>1, <3>2
  <2>2. \A x \in Endpoint : Received(x) \subseteq Received(x)'
    BY <1>8 DEF Grows
  <2>3. \A n \in 0..(snd_nxt'[e] - 1) : n \in DOMAIN snd_buf'[e] \/ n \in Received(Peer(e))'
    BY <1>3, <1>4, <1>5, <2>1, <2>2
  <2>4. \A n \in 0..(snd_nxt'[p] - 1) : n \in DOMAIN snd_buf'[p] \/ n \in Received(Peer(p))'
    BY <1>3, <1>4, <1>5, <2>2, EndpointFacts DEF StreamInv, NothingForgotten
  <2> QED BY <1>5, <2>3, <2>4 DEF NothingForgotten
<1> QED BY <1>2, <1>9, <1>10, <1>11, <1>12, <1>13 DEF StreamInv, WholeMessages

\* Numbering the first fragments of snd_queue keeps all at their place.
LEMMA NumberedStream ==
  ASSUME TypeOK, NEW e \in Endpoint, SendStream(e), NEW count \in 0..Len(snd_queue[e])
  PROVE  LET rest == SubSeq(snd_queue[e], count + 1, Len(snd_queue[e]))
         IN  /\ snd_nxt[e] + count + Len(rest) = Len(sent[e])
             /\ Holds(rest, sent[e], snd_nxt[e] + count)
             /\ Placed(Numbered(e, count), sent[e], snd_nxt[e] + count)
<1> DEFINE q == snd_queue[e]
           h == sent[e]
           nxt == snd_nxt[e]
           buf == snd_buf[e]
           rest == SubSeq(q, count + 1, Len(q))
           b == Len(q)
<1>1. /\ q \in Seq(Payload) /\ b \in Nat /\ nxt \in Nat /\ count \in 0..b
      /\ Len(h) \in Nat /\ DOMAIN buf \in SUBSET Nat
  BY TypesAt
<1>2. /\ nxt + b = Len(h)
      /\ \A i \in 1..b : q[i] = h[nxt + i]
      /\ \A n \in DOMAIN buf : n < nxt /\ buf[n] = h[n + 1]
  BY DEF SendStream
<1>3. Len(rest) = b - count /\ \A i \in 1..(b - count) : rest[i] = q[count + i]
  <2> HIDE DEF q
  <2> QED BY <1>1, SubSeqFacts
<1>4. /\ DOMAIN Numbered(e, count) = DOMAIN buf \cup (nxt .. nxt + count - 1)
      /\ \A n \in nxt .. nxt + count - 1 : Numbered(e, count)[n] = q[n - nxt + 1]
      /\ \A n \in DOMAIN buf : n \notin nxt .. nxt + count - 1 => Numbered(e, count)[n] = buf[n]
  BY DEF Numbered
<1> HIDE DEF q, h, nxt, buf, b, rest
<1>5. nxt + count + Len(rest) = Len(h)
  <2>1. nxt + count + (b - count) = nxt + b
    BY <1>1
  <2> QED BY <2>1, <1>2, <1>3
<1>6. Holds(rest, h, nxt + count)
  <2>1. ASSUME NEW i \in 1..(b - count) PROVE rest[i] = h[nxt + count + i]
    <3>1. count + i \in 1..b /\ nxt + (count + i) = nxt + count + i
      BY <1>1
    <3> QED BY <3>1, <1>2, <1>3
  <2> QED BY <2>1, <1>3 DEF Holds
<1>7. Placed(Numbered(e, count), h, nxt + count)
  <2>1. ASSUME NEW n \in nxt .. nxt + count - 1
        PROVE  n < nxt + count /\ Numbered(e, count)[n] = h[n + 1]
    <3>1. n - nxt + 1 \in 1..b /\ nxt + (n - nxt + 1) = n + 1 /\ n < nxt + count
      BY <1>1
    <3>2. q[n - nxt + 1] = h[nxt + (n - nxt + 1)]
      BY <3>1, <1>2
    <3> QED BY <3>1, <3>2, <1>4
  <2>2. ASSUME NEW n \in DOMAIN buf
        PROVE  n < nxt + count /\ n \notin nxt .. nxt + count - 1
    BY <1>1, <1>2
  <2> QED BY <1>2, <1>4, <2>1, <2>2 DEF Placed
<1> QED BY <1>5, <1>6, <1>7 DEF h, nxt, rest, q, b

\* What an endpoint sends is true of it.
LEMMA OutgoingTruthful ==
  ASSUME TypeOK, StreamInv, NEW e \in Endpoint, NEW buf,
         rcv_nxt' = rcv_nxt, rcv_buf' = rcv_buf, sent' = sent,
         Placed(buf, sent[e], snd_nxt'[e]),
         NEW s \in Outgoing(e, buf)
  PROVE  Truthful(Peer(e), s)'
<1>1. Peer(e) \in Endpoint /\ Peer(Peer(e)) = e /\ rcv_nxt[e] \in Nat
  BY EndpointFacts, TypesAt
<1>2. \E cmd, sn, data :
        /\ s = Seg(e, cmd, sn, data)
        /\ cmd = "ACK" => sn \in acklist[e]
        /\ cmd = "PUSH" => sn \in DOMAIN buf /\ data = buf[sn]
  BY DEF Outgoing, Acks, Probes
<1>3. PICK cmd, sn, data :
        /\ s = Seg(e, cmd, sn, data)
        /\ cmd = "ACK" => sn \in acklist[e]
        /\ cmd = "PUSH" => sn \in DOMAIN buf /\ data = buf[sn]
  BY <1>2
<1>4. s.cmd = cmd /\ s.sn = sn /\ s.data = data /\ s.una = rcv_nxt[e]
  BY <1>3 DEF Seg
<1>5. cmd = "ACK" => sn \in Received(e)'
  BY <1>3 DEF StreamInv, Received
<1>6. cmd = "PUSH" => sn < snd_nxt'[e] /\ data = sent'[e][sn + 1]
  BY <1>3 DEF Placed
<1>7. s.una <= rcv_nxt'[e]
  BY <1>1, <1>4
<1> QED BY <1>1, <1>4, <1>5, <1>6, <1>7 DEF Truthful

\* So the network stays truthful, whatever part of it gets through.
LEMMA SendsOnlyTruthful ==
  ASSUME TypeOK, TypeOK', StreamInv, Grows, NEW e \in Endpoint, NEW buf,
         rcv_nxt' = rcv_nxt, rcv_buf' = rcv_buf, sent' = sent, cursor' = cursor,
         Placed(buf, sent[e], snd_nxt'[e]),
         SendsOnly(e, Outgoing(e, buf))
  PROVE  \A x \in Endpoint :
           /\ \A s \in cursor'[x] : Truthful(x, s)'
           /\ \A d \in net'[x] : \A s \in d : Truthful(x, s)'
<1>1. PICK kept \in SUBSET SUBSET Outgoing(e, buf) :
        net' = [net EXCEPT ![Peer(e)] = net[Peer(e)] \cup kept]
  BY DEF SendsOnly
<1>2. ASSUME NEW x \in Endpoint
      PROVE  \A d \in net'[x] \ net[x] : x = Peer(e) /\ d \in kept
  <2>1. net \in [Endpoint -> SUBSET SUBSET Segment]
    BY DEF TypeOK
  <2>2. x = Peer(e) => net'[x] = net[x] \cup kept
    BY <1>1, <2>1
  <2>3. x # Peer(e) => net'[x] = net[x]
    BY <1>1, <2>1
  <2> QED BY <2>2, <2>3
<1>3. \A s \in Outgoing(e, buf) : Truthful(Peer(e), s)'
  BY OutgoingTruthful
<1>4. \A x \in Endpoint :
        /\ \A s \in cursor'[x] : s \in cursor[x] \/ (\E c \in net[x] : s \in c)
        /\ \A d \in net'[x] \ net[x] : \A s \in d : Truthful(x, s)'
  BY <1>2, <1>3
<1> QED BY <1>4, NetworkTruthful

LEMMA FlushKeeps ==
  ASSUME TypeOK, TypeOK', StreamInv,
         NEW e \in Endpoint, NEW resend, NEW expired \in BOOLEAN, Flush(e, resend, expired)
  PROVE  StreamInv'
<1> DEFINE p == Peer(e)
<1>1. PICK cwnd \in 0..SndWnd :
        /\ snd_buf' = [snd_buf EXCEPT ![e] = Numbered(e, Admitted(e, cwnd))]
        /\ snd_nxt' = [snd_nxt EXCEPT ![e] = snd_nxt[e] + Admitted(e, cwnd)]
        /\ snd_queue' = [snd_queue EXCEPT ![e] =
             SubSeq(snd_queue[e], Admitted(e, cwnd) + 1, Len(snd_queue[e]))]
        /\ SendsOnly(e, Outgoing(e, Numbered(e, Admitted(e, cwnd))))
        /\ UNCHANGED <<snd_una, rcvVars, histVars, rmt_wnd, cursor>>
  BY FlushFacts
<1> DEFINE count == Admitted(e, cwnd)
           rest == SubSeq(snd_queue[e], count + 1, Len(snd_queue[e]))
<1>2. count \in 0..Len(snd_queue[e])
  BY AdmittedFacts, WindowAssumption
<1>3. /\ acklist' = [acklist EXCEPT ![e] = {}]
      /\ UNCHANGED <<rcv_buf, rcv_queue, rcv_nxt, sent, got, cursor>>
  BY <1>1 DEF Flush, rcvVars, histVars
<1> HIDE DEF count
<1>4. /\ snd_buf'[e] = Numbered(e, count) /\ snd_nxt'[e] = snd_nxt[e] + count
      /\ snd_queue'[e] = rest
      /\ SendsOnly(e, Outgoing(e, Numbered(e, count)))
  BY <1>1 DEF TypeOK, count
<1>5. \A x \in Endpoint : x # e =>
        snd_buf'[x] = snd_buf[x] /\ snd_nxt'[x] = snd_nxt[x] /\ snd_queue'[x] = snd_queue[x]
  BY <1>1 DEF TypeOK
<1>6. /\ snd_nxt[e] + count + Len(rest) = Len(sent[e])
      /\ Holds(rest, sent[e], snd_nxt[e] + count)
      /\ Placed(Numbered(e, count), sent[e], snd_nxt[e] + count)
  BY <1>2, NumberedStream DEF StreamInv
<1>7. /\ p \in Endpoint /\ p # e /\ \A x \in Endpoint : x = e \/ x = p
      /\ Peer(p) = e
      /\ snd_nxt[e] \in Nat /\ count \in Nat
      /\ DOMAIN Numbered(e, count) = DOMAIN snd_buf[e] \cup (snd_nxt[e] .. snd_nxt[e] + count - 1)
  <2>1. Len(snd_queue[e]) \in Nat
    BY TypesAt
  <2>2. p \in Endpoint /\ p # e /\ Peer(p) = e /\ \A x \in Endpoint : x = e \/ x = p
    BY EndpointFacts
  <2>3. snd_nxt[e] \in Nat /\ count \in Nat
    BY <1>2, <2>1, TypesAt
  <2>4. DOMAIN Numbered(e, count) =
          DOMAIN snd_buf[e] \cup (snd_nxt[e] .. snd_nxt[e] + count - 1)
    BY <1>2, NumberedType
  <2> QED BY <2>2, <2>3, <2>4
<1> HIDE DEF rest
<1>8. Grows
  <2>1. ASSUME NEW x \in Endpoint PROVE snd_nxt'[x] \in Nat /\ snd_nxt[x] <= snd_nxt'[x]
    <3>1. snd_nxt[x] \in Nat
      BY TypesAt
    <3>2. snd_nxt'[x] = snd_nxt[x] \/ snd_nxt'[x] = snd_nxt[x] + count
      BY <1>4, <1>5
    <3> QED BY <3>1, <3>2, <1>7
  <2> QED BY <1>3, <2>1, TypesAt DEF Grows, Received
<1>9. \A x \in Endpoint : SendStream(x)' /\ Framed(sent'[x])
  <2>1. SendStream(e)'
    BY <1>3, <1>4, <1>6 DEF SendStream, Holds, Placed
  <2>2. ASSUME NEW x \in Endpoint, x # e PROVE SendStream(x)'
    BY <2>2, <1>3, <1>5, SendStreamStable
  <2> QED BY <1>3, <2>1, <2>2 DEF StreamInv
<1>10. \A x \in Endpoint : RecvStream(x)'
  BY <1>3, <1>8, RecvStreamStable
<1>11. \A x \in Endpoint :
         /\ \A s \in cursor'[x] : Truthful(x, s)'
         /\ \A d \in net'[x] : \A s \in d : Truthful(x, s)'
  BY <1>3, <1>4, <1>6, <1>8, SendsOnlyTruthful
<1>12. \A x \in Endpoint : acklist'[x] \subseteq Received(x)'
  <2>1. ASSUME NEW x \in Endpoint PROVE acklist'[x] \subseteq acklist[x]
    BY <1>3 DEF TypeOK
  <2> QED BY <2>1, <1>3 DEF StreamInv, Received
<1>13. NothingForgotten'
  <2>1. \A x \in Endpoint : Received(x)' = Received(x)
    BY <1>3 DEF Received
  <2>2. ASSUME NEW n \in 0..(snd_nxt'[e] - 1)
        PROVE  n \in DOMAIN snd_buf'[e] \/ n \in Received(Peer(e))'
    <3>1. n \in 0..(snd_nxt[e] - 1) \/ n \in snd_nxt[e] .. snd_nxt[e] + count - 1
      BY <1>4, <1>7
    <3>2. n \in 0..(snd_nxt[e] - 1) => n \in DOMAIN snd_buf[e] \/ n \in Received(Peer(e))
      BY DEF StreamInv, NothingForgotten
    <3> QED BY <1>4, <1>7, <2>1, <3>1, <3>2
  <2>3. \A n \in 0..(snd_nxt'[p] - 1) : n \in DOMAIN snd_buf'[p] \/ n \in Received(Peer(p))'
    BY <1>5, <1>7, <2>1 DEF StreamInv, NothingForgotten
  <2> QED BY <1>7, <2>2, <2>3 DEF NothingForgotten
<1> QED BY <1>3, <1>9, <1>10, <1>11, <1>12, <1>13 DEF StreamInv, WholeMessages

LEMMA FlushDroppedKeeps ==
  ASSUME TypeOK, TypeOK', StreamInv, NEW e \in Endpoint,
         FlushDroppedAtAck(e) \/ \E expired \in BOOLEAN : FlushDroppedAtProbe(e, expired)
  PROVE  StreamInv'
<1>1. /\ SendsOnly(e, Outgoing(e, snd_buf[e]))
      /\ UNCHANGED <<snd_queue, snd_buf, snd_una, snd_nxt, rcv_buf, rcv_queue, rcv_nxt,
                     sent, got, cursor>>
  BY FlushDroppedFacts DEF sndVars, rcvVars, histVars
<1>2. acklist' = acklist \/ acklist' = [acklist EXCEPT ![e] = {}]
  BY DEF FlushDroppedAtAck, FlushDroppedAtProbe
<1>3. Grows
  BY <1>1, TypesAt DEF Grows, Received
<1>4. Placed(snd_buf[e], sent[e], snd_nxt'[e])
  BY <1>1 DEF StreamInv, SendStream, Placed
<1>5. \A x \in Endpoint :
        /\ \A s \in cursor'[x] : Truthful(x, s)'
        /\ \A d \in net'[x] : \A s \in d : Truthful(x, s)'
  BY <1>1, <1>3, <1>4, SendsOnlyTruthful
<1>6. ASSUME NEW x \in Endpoint
      PROVE  SendStream(x)' /\ RecvStream(x)' /\ Framed(sent'[x])
  <2>1. SendStream(x)'
    BY <1>1, SendStreamStable
  <2>2. RecvStream(x)'
    BY <1>1, <1>3, RecvStreamStable
  <2> QED BY <1>1, <2>1, <2>2 DEF StreamInv
<1>7. \A x \in Endpoint : acklist'[x] \subseteq Received(x)'
  <2>1. ASSUME NEW x \in Endpoint PROVE acklist'[x] \subseteq acklist[x]
    BY <1>2 DEF TypeOK
  <2> QED BY <2>1, <1>1 DEF StreamInv, Received
<1>8. NothingForgotten' /\ WholeMessages'
  BY <1>1 DEF StreamInv, NothingForgotten, WholeMessages, Received
<1> QED BY <1>5, <1>6, <1>7, <1>8 DEF StreamInv

LEMMA StreamStep ==
  ASSUME TypeOK, TypeOK', StreamInv, Next
  PROVE  StreamInv'
<1>1. PICK e \in Endpoint :
        \/ \E count \in FragCounts : Send(e, count)
        \/ Recv(e)
        \/ \E d \in net[e] : Input(e, d)
        \/ InputAckOrWins(e) \/ InputWask(e) \/ InputPush(e) \/ InputStalePush(e)
        \/ \E resend \in SUBSET DOMAIN snd_buf[e], expired \in BOOLEAN :
             Flush(e, resend, expired)
        \/ FlushDroppedAtAck(e) \/ \E expired \in BOOLEAN : FlushDroppedAtProbe(e, expired)
  BY DEF Next
<1>2. CASE \E count \in FragCounts : Send(e, count)
  BY <1>2, SendKeeps
<1>3. CASE Recv(e)
  BY <1>3, RecvKeeps
<1>4. CASE \E d \in net[e] : Input(e, d)
  BY <1>4, InputStartKeeps
<1>5. CASE InputAckOrWins(e) \/ InputWask(e) \/ InputPush(e) \/ InputStalePush(e)
  BY <1>5, InputKeeps
<1>6. CASE \E resend \in SUBSET DOMAIN snd_buf[e], expired \in BOOLEAN :
             Flush(e, resend, expired)
  BY <1>6, FlushKeeps
<1>7. CASE FlushDroppedAtAck(e) \/ \E expired \in BOOLEAN : FlushDroppedAtProbe(e, expired)
  BY <1>7, FlushDroppedKeeps
<1> QED BY <1>1, <1>2, <1>3, <1>4, <1>5, <1>6, <1>7

(***************************************************************************)
(* The theorems                                                            *)
(***************************************************************************)

\* Every copy of a fragment, wherever it is, is the fragment its number stands
\* for, and every acknowledgement is of a segment that was received.
THEOREM StreamCorrect == Spec => []StreamInv
<1>1. TypeOK /\ TypeOK' /\ StreamInv /\ [Next]_vars => StreamInv'
  <2>1. StreamInv /\ UNCHANGED vars => StreamInv'
    <3> SUFFICES ASSUME StreamInv, UNCHANGED vars PROVE StreamInv'
      OBVIOUS
    <3>1. UNCHANGED <<snd_queue, snd_buf, snd_nxt, rcv_buf, rcv_queue, rcv_nxt, sent, got,
                      acklist, cursor, net>>
      BY DEF vars, sndVars, rcvVars, histVars
    <3>2. ASSUME NEW e \in Endpoint
          PROVE  /\ SendStream(e)' /\ RecvStream(e)' /\ Framed(sent'[e])
                 /\ acklist'[e] \subseteq Received(e)'
      BY <3>1 DEF StreamInv, SendStream, RecvStream, Received
    <3>3. ASSUME NEW e \in Endpoint
          PROVE  /\ \A s \in cursor'[e] : Truthful(e, s)'
                 /\ \A d \in net'[e] : \A s \in d : Truthful(e, s)'
      BY <3>1 DEF StreamInv, Truthful, Received
    <3>4. NothingForgotten' /\ WholeMessages'
      BY <3>1 DEF StreamInv, NothingForgotten, WholeMessages, Received
    <3> QED BY <3>2, <3>3, <3>4 DEF StreamInv
  <2> QED BY <2>1, StreamStep
<1> QED BY <1>1, InitStream, TypeCorrect, PTL DEF Spec

\* A prefix of what the peer sent is all recv ever returns.
LEMMA StreamDelivers == TypeOK /\ StreamInv => InOrderDelivery
<1> SUFFICES ASSUME TypeOK, StreamInv, NEW e \in Endpoint
             PROVE  /\ Len(got[e]) <= Len(sent[Peer(e)])
                    /\ \A i \in 1..Len(got[e]) : got[e][i] = sent[Peer(e)][i]
  BY DEF InOrderDelivery
<1> DEFINE p == Peer(e)
           g == Len(got[e])
           q == Len(rcv_queue[e])
           w == Len(snd_queue[p])
           l == Len(sent[p])
           m == snd_nxt[p]
<1>1. p \in Endpoint
  BY EndpointFacts
<1>2. /\ g \in Nat /\ q \in Nat /\ w \in Nat /\ l \in Nat /\ m \in Nat
      /\ rcv_nxt[e] = g + q /\ rcv_nxt[e] <= m /\ m + w = l
      /\ \A i \in 1..g : got[e][i] = sent[p][i]
  BY <1>1, TypesAt DEF StreamInv, SendStream, RecvStream
<1> HIDE DEF g, q, w, l, m
<1>3. g <= l
  BY <1>2
<1> QED BY <1>2, <1>3 DEF g, l

\* What recv has returned is always a prefix of what the peer sent.
THEOREM DeliveredInOrder == Spec => []InOrderDelivery
BY StreamCorrect, TypeCorrect, StreamDelivers, PTL

\* A segment leaves snd_buf only when the peer has received it.
THEOREM NoneForgotten == Spec => []NothingForgotten
<1>1. StreamInv => NothingForgotten
  BY DEF StreamInv
<1> QED BY <1>1, StreamCorrect, PTL

\* recv never stops inside a message.
THEOREM MessagesWhole == Spec => []WholeMessages
<1>1. StreamInv => WholeMessages
  BY DEF StreamInv
<1> QED BY <1>1, StreamCorrect, PTL

(***************************************************************************)
(* Both sides of a control block keep their windows, and their sequence    *)
(* numbers never move back.                                                *)
(***************************************************************************)

(***************************************************************************)
(* The receive window                                                      *)
(***************************************************************************)

\* ReceiveWindow, for one endpoint.
ReceiveWindowAt(e) ==
  /\ Len(rcv_queue[e]) <= RcvWnd
  /\ DOMAIN rcv_buf[e] \subseteq rcv_nxt[e] .. rcv_nxt[e] + RcvWnd - 1
  /\ rcv_nxt[e] \in DOMAIN rcv_buf[e] => Len(rcv_queue[e]) = RcvWnd

LEMMA ReceiveWindowInit == Init => ReceiveWindow
BY WindowAssumption DEF Init, ReceiveWindow

\* The move loop leaves a receive side inside its window.
LEMMA MoveWindow ==
  ASSUME TypeOK, NEW e \in Endpoint, NEW queue \in Seq(Payload), NEW buf,
         DOMAIN buf \in SUBSET Nat, NEW k \in Nat, Moved(e, buf, queue, k),
         Len(queue) <= RcvWnd,
         DOMAIN buf \subseteq rcv_nxt[e] .. rcv_nxt[e] + RcvWnd - 1
  PROVE  /\ ReceiveWindowAt(e)'
         /\ rcv_nxt'[e] >= rcv_nxt[e]
         /\ \A x \in Endpoint : x # e =>
              /\ rcv_nxt'[x] = rcv_nxt[x] /\ rcv_queue'[x] = rcv_queue[x]
              /\ rcv_buf'[x] = rcv_buf[x]
<1> DEFINE r == rcv_nxt[e]
           q == Len(queue)
           moved == [i \in 1..k |-> buf[rcv_nxt[e] + i - 1]]
           w == RcvWnd
           D == DOMAIN buf
<1>1. /\ k > 0 => k <= w - q
      /\ k < w - q => r + k \notin D
      /\ rcv_nxt' = [rcv_nxt EXCEPT ![e] = r + k]
      /\ rcv_buf' = [rcv_buf EXCEPT ![e] = [n \in D \ (r .. r + k - 1) |-> buf[n]]]
      /\ rcv_queue' = [rcv_queue EXCEPT ![e] = queue \o moved]
      /\ moved \in Seq(Payload) /\ Len(moved) = k
  BY DEF Moved
<1> HIDE DEF moved
<1>2. Len(queue \o moved) = q + k
  BY <1>1, ConcatAt
<1>3. /\ rcv_nxt'[e] = r + k /\ rcv_queue'[e] = queue \o moved
      /\ rcv_buf'[e] = [n \in D \ (r .. r + k - 1) |-> buf[n]]
      /\ \A x \in Endpoint : x # e =>
           /\ rcv_nxt'[x] = rcv_nxt[x] /\ rcv_queue'[x] = rcv_queue[x]
           /\ rcv_buf'[x] = rcv_buf[x]
  BY <1>1 DEF TypeOK
<1>4. /\ r \in Nat /\ q \in Nat /\ w \in Nat /\ q <= w
      /\ D \subseteq r .. r + w - 1 /\ D \subseteq Nat
  BY TypesAt, LenProperties, WindowAssumption
<1>5. DOMAIN rcv_buf'[e] = D \ (r .. r + k - 1)
  BY <1>3
<1> HIDE DEF r, q, w, D
<1>6. q + k <= w
  BY <1>1, <1>4
<1>7. D \ (r .. r + k - 1) \subseteq r + k .. r + k + w - 1
  <2>1. ASSUME NEW n \in D \ (r .. r + k - 1) PROVE n \in r + k .. r + k + w - 1
    <3>1. n \in r .. r + w - 1 /\ n \in Nat
      BY <1>4
    <3> QED BY <3>1, <1>4
  <2> QED BY <2>1
<1>8. r + k \in D => q + k = w
  BY <1>1, <1>4, <1>6
<1>9. /\ q + k <= w
      /\ DOMAIN rcv_buf'[e] \subseteq rcv_nxt'[e] .. rcv_nxt'[e] + w - 1
      /\ rcv_nxt'[e] \in DOMAIN rcv_buf'[e] => q + k = w
      /\ Len(rcv_queue'[e]) = q + k
  <2>1. DOMAIN rcv_buf'[e] \subseteq rcv_nxt'[e] .. rcv_nxt'[e] + w - 1
    <3>1. rcv_nxt'[e] = r + k
      BY <1>3
    <3> QED BY <3>1, <1>5, <1>7
  <2> QED BY <2>1, <1>2, <1>3, <1>5, <1>6, <1>8
<1>10. r + k >= r
  BY <1>4
<1> QED BY <1>3, <1>9, <1>10 DEF ReceiveWindowAt, w, r

LEMMA ReceiveWindowStep ==
  ASSUME TypeOK, ReceiveWindow, Next
  PROVE  /\ ReceiveWindow'
         /\ \A e \in Endpoint : rcv_nxt'[e] >= rcv_nxt[e]
<1> USE DEF rcvVars, sndVars
<1>1. \A x \in Endpoint : ReceiveWindowAt(x) /\ rcv_nxt[x] \in Nat
  BY TypesAt DEF ReceiveWindow, ReceiveWindowAt
<1>2. CASE UNCHANGED rcvVars
  BY <1>1, <1>2 DEF ReceiveWindow
<1>3. ASSUME NEW e \in Endpoint, NEW queue \in Seq(Payload), NEW buf,
             DOMAIN buf \in SUBSET Nat, buf \in [DOMAIN buf -> Payload],
             MoveToQueue(e, buf, queue), Len(queue) <= RcvWnd,
             DOMAIN buf \subseteq rcv_nxt[e] .. rcv_nxt[e] + RcvWnd - 1
      PROVE  /\ ReceiveWindow'
             /\ \A x \in Endpoint : rcv_nxt'[x] >= rcv_nxt[x]
  <2>1. PICK k \in Nat : Moved(e, buf, queue, k)
    BY <1>3, MoveToQueueFacts
  <2>2. /\ ReceiveWindowAt(e)'
        /\ rcv_nxt'[e] >= rcv_nxt[e]
        /\ \A x \in Endpoint : x # e =>
             /\ rcv_nxt'[x] = rcv_nxt[x] /\ rcv_queue'[x] = rcv_queue[x]
             /\ rcv_buf'[x] = rcv_buf[x]
    BY <1>3, <2>1, MoveWindow
  <2>3. ASSUME NEW x \in Endpoint
        PROVE  ReceiveWindowAt(x)' /\ rcv_nxt'[x] >= rcv_nxt[x]
    <3>1. CASE x = e
      BY <3>1, <2>2
    <3>2. CASE x # e
      BY <3>2, <2>2, <1>1 DEF ReceiveWindowAt
    <3> QED BY <3>1, <3>2
  <2> QED BY <2>3 DEF ReceiveWindow, ReceiveWindowAt
<1>4. ASSUME NEW e \in Endpoint, Recv(e)
      PROVE  ReceiveWindow' /\ \A x \in Endpoint : rcv_nxt'[x] >= rcv_nxt[x]
  <2> DEFINE q == rcv_queue[e]
             rest(n) == SubSeq(q, n + 1, Len(q))
  <2>1. PICK n \in 1..Len(q) : MoveToQueue(e, rcv_buf[e], rest(n))
    BY <1>4 DEF Recv
  <2>2. /\ q \in Seq(Payload) /\ Len(q) \in Nat /\ n \in 0..Len(q) /\ n \in Nat
        /\ DOMAIN rcv_buf[e] \in SUBSET Nat /\ rcv_buf[e] \in [DOMAIN rcv_buf[e] -> Payload]
    BY TypesAt
  <2>3. rest(n) \in Seq(Payload) /\ Len(rest(n)) = Len(q) - n
    <3> HIDE DEF q
    <3> QED BY <2>2, SubSeqFacts
  <2>4. /\ Len(q) <= RcvWnd
        /\ DOMAIN rcv_buf[e] \subseteq rcv_nxt[e] .. rcv_nxt[e] + RcvWnd - 1
    BY <1>1 DEF ReceiveWindowAt
  <2>5. Len(rest(n)) <= RcvWnd
    <3> DEFINE lq == Len(q)
               lr == Len(rest(n))
    <3>1. lq \in Nat /\ n \in Nat /\ lr = lq - n /\ lq <= RcvWnd /\ RcvWnd \in Nat
      BY <2>2, <2>3, <2>4, WindowAssumption
    <3> HIDE DEF lq, lr
    <3> QED BY <3>1 DEF lr
  <2> HIDE DEF rest
  <2> QED BY <2>1, <2>2, <2>3, <2>4, <2>5, <1>3
<1>5. ASSUME NEW e \in Endpoint,
             InputAckOrWins(e) \/ InputWask(e) \/ InputPush(e) \/ InputStalePush(e)
      PROVE  ReceiveWindow' /\ \A x \in Endpoint : rcv_nxt'[x] >= rcv_nxt[x]
  <2>1. PICK s \in Segment :
          \/ UNCHANGED rcvVars
          \/ /\ s.sn >= rcv_nxt[e] /\ s.sn < rcv_nxt[e] + RcvWnd
             /\ MoveToQueue(e, Stored(e, s), rcv_queue[e])
    BY <1>5, InputFacts
  <2>2. CASE UNCHANGED rcvVars
    BY <2>2, <1>2
  <2>3. CASE /\ s.sn >= rcv_nxt[e] /\ s.sn < rcv_nxt[e] + RcvWnd
             /\ MoveToQueue(e, Stored(e, s), rcv_queue[e])
    <3>1. /\ DOMAIN Stored(e, s) = DOMAIN rcv_buf[e] \cup {s.sn}
          /\ DOMAIN Stored(e, s) \in SUBSET Nat
          /\ Stored(e, s) \in [DOMAIN Stored(e, s) -> Payload]
      BY StoredType
    <3>2. /\ Len(rcv_queue[e]) <= RcvWnd /\ rcv_queue[e] \in Seq(Payload)
          /\ DOMAIN rcv_buf[e] \subseteq rcv_nxt[e] .. rcv_nxt[e] + RcvWnd - 1
      BY <1>1, TypesAt DEF ReceiveWindowAt
    <3>3. s.sn \in rcv_nxt[e] .. rcv_nxt[e] + RcvWnd - 1
      <4>1. s.sn \in Nat /\ rcv_nxt[e] \in Nat /\ RcvWnd \in Nat
        BY TypesAt, WindowAssumption DEF Segment
      <4> QED BY <4>1, <2>3
    <3>4. DOMAIN Stored(e, s) \subseteq rcv_nxt[e] .. rcv_nxt[e] + RcvWnd - 1
      BY <3>1, <3>2, <3>3
    <3> QED BY <2>3, <3>1, <3>2, <3>4, <1>3
  <2> QED BY <2>1, <2>2, <2>3
<1>6. ASSUME NEW e \in Endpoint, NEW count, Send(e, count) PROVE UNCHANGED rcvVars
  BY <1>6 DEF Send
<1>7. ASSUME NEW e \in Endpoint, NEW d, Input(e, d) PROVE UNCHANGED rcvVars
  BY <1>7 DEF Input
<1>8. ASSUME NEW e \in Endpoint, NEW resend, NEW expired, Flush(e, resend, expired)
      PROVE  UNCHANGED rcvVars
  BY <1>8 DEF Flush
<1>9. ASSUME NEW e \in Endpoint,
             FlushDroppedAtAck(e) \/ \E expired \in BOOLEAN : FlushDroppedAtProbe(e, expired)
      PROVE  UNCHANGED rcvVars
  BY <1>9 DEF FlushDroppedAtAck, FlushDroppedAtProbe
<1> QED BY <1>2, <1>4, <1>5, <1>6, <1>7, <1>8, <1>9 DEF Next

\* The receive side stays inside its window, and takes up what it can.
THEOREM ReceiveWindowKept == Spec => []ReceiveWindow
<1>1. TypeOK /\ ReceiveWindow /\ [Next]_vars => ReceiveWindow'
  <2>1. ReceiveWindow /\ UNCHANGED vars => ReceiveWindow'
    BY DEF vars, rcvVars, ReceiveWindow
  <2> QED BY <2>1, ReceiveWindowStep
<1> QED BY <1>1, ReceiveWindowInit, TypeCorrect, PTL DEF Spec

(***************************************************************************)
(* The send window                                                         *)
(***************************************************************************)

\* SendWindow, for one endpoint: una is the oldest of the numbers in D, all
\* below nxt, and no more than a window of them is outstanding.
Outstanding(D, una, nxt) ==
  /\ una = Front(D, nxt)
  /\ D \subseteq una .. nxt - 1
  /\ nxt - una <= SndWnd

\* Front is the least of the numbers.
LEMMA FrontUnique ==
  ASSUME NEW S \in SUBSET Nat, NEW nxt \in Nat, NEW m \in S, \A n \in S : m <= n
  PROVE  Front(S, nxt) = m
<1>1. Front(S, nxt) \in S /\ \A n \in S : Front(S, nxt) <= n
  BY FrontFacts
<1> HIDE DEF Front
<1>2. Front(S, nxt) <= m /\ m <= Front(S, nxt) /\ Front(S, nxt) \in Nat /\ m \in Nat
  BY <1>1
<1> QED BY <1>2

LEMMA OutstandingOrder ==
  ASSUME NEW D \in SUBSET Nat, NEW una \in Nat, NEW nxt \in Nat, Outstanding(D, una, nxt)
  PROVE  una <= nxt /\ (D # {} => una \in D) /\ (D = {} => una = nxt)
<1>1. /\ D = {} => una = nxt
      /\ D # {} => una \in D
      /\ D \subseteq una .. nxt - 1
  BY FrontFacts DEF Outstanding
<1>2. D # {} => una <= nxt
  <2>1. D # {} => una \in una .. nxt - 1
    BY <1>1
  <2> QED BY <2>1
<1> QED BY <1>1, <1>2

\* Numbers that are acknowledged leave a window of the others.
LEMMA AckWindow ==
  ASSUME NEW D \in SUBSET Nat, NEW una \in Nat, NEW nxt \in Nat, Outstanding(D, una, nxt),
         NEW left \in SUBSET D
  PROVE  Outstanding(left, Front(left, nxt), nxt) /\ Front(left, nxt) >= una
<1> DEFINE f == Front(left, nxt)
<1>1. /\ f \in Nat
      /\ left = {} => f = nxt
      /\ left # {} => f \in left
      /\ \A n \in left : f <= n
  BY FrontFacts
<1>2. una <= nxt /\ D \subseteq una .. nxt - 1 /\ nxt - una <= SndWnd
  BY OutstandingOrder DEF Outstanding
<1>3. SndWnd \in Nat
  BY WindowAssumption
<1> HIDE DEF f
<1>4. f >= una /\ f <= nxt
  <2>1. CASE left = {}
    BY <2>1, <1>1, <1>2
  <2>2. CASE left # {}
    <3>1. f \in una .. nxt - 1
      BY <2>2, <1>1, <1>2
    <3> QED BY <3>1, <1>1
  <2> QED BY <2>1, <2>2
<1>5. left \subseteq f .. nxt - 1
  <2>1. ASSUME NEW n \in left PROVE n \in f .. nxt - 1
    <3>1. n \in una .. nxt - 1 /\ f <= n /\ n \in Nat
      BY <1>1, <1>2
    <3> QED BY <3>1, <1>1
  <2> QED BY <2>1
<1>6. nxt - f <= SndWnd
  BY <1>1, <1>2, <1>3, <1>4
<1> QED BY <1>4, <1>5, <1>6 DEF Outstanding, f

\* Numbers that are given out, as many as the window admits, are outstanding.
LEMMA NewWindow ==
  ASSUME NEW D \in SUBSET Nat, NEW una \in Nat, NEW nxt \in Nat, Outstanding(D, una, nxt),
         NEW count \in Nat, count > 0 => nxt + count <= una + SndWnd
  PROVE  Outstanding(D \cup (nxt .. nxt + count - 1), una, nxt + count)
<1> DEFINE D2 == D \cup (nxt .. nxt + count - 1)
<1>1. una <= nxt /\ (D # {} => una \in D) /\ (D = {} => una = nxt)
  BY OutstandingOrder
<1>2. D \subseteq una .. nxt - 1 /\ nxt - una <= SndWnd /\ SndWnd \in Nat
  BY WindowAssumption DEF Outstanding
<1>3. D2 \subseteq una .. nxt + count - 1 /\ D2 \in SUBSET Nat /\ nxt + count \in Nat
  <2>1. ASSUME NEW n \in D2 PROVE n \in una .. nxt + count - 1 /\ n \in Nat
    BY <1>1, <1>2
  <2> QED BY <2>1
<1>4. nxt + count - una <= SndWnd
  BY <1>2
<1>5. una = Front(D2, nxt + count)
  <2> HIDE DEF D2
  <2>1. CASE una \in D2
    <3>1. \A n \in D2 : una <= n
      BY <1>3
    <3> QED BY <2>1, <3>1, <1>3, FrontUnique
  <2>2. CASE una \notin D2
    <3>1. D = {} /\ una = nxt /\ count = 0 /\ D2 = {}
      <4>1. D = {} /\ una = nxt
        BY <2>2, <1>1 DEF D2
      <4>2. count = 0
        <5>1. count # 0 => nxt \in nxt .. nxt + count - 1
          OBVIOUS
        <5> QED BY <5>1, <2>2, <4>1 DEF D2
      <4>3. nxt .. nxt + count - 1 = {}
        BY <4>2
      <4> QED BY <4>1, <4>2, <4>3 DEF D2
    <3> QED BY <3>1, <1>3, FrontFacts
  <2> QED BY <2>1, <2>2
<1> QED BY <1>3, <1>4, <1>5 DEF Outstanding

LEMMA SendWindowInit == Init => SendWindow
<1> SUFFICES ASSUME Init, NEW e \in Endpoint
             PROVE  Outstanding(DOMAIN snd_buf[e], snd_una[e], snd_nxt[e])
  BY DEF SendWindow, Outstanding
<1>1. DOMAIN snd_buf[e] = {} /\ snd_una[e] = 0 /\ snd_nxt[e] = 0 /\ SndWnd \in Nat
  BY WindowAssumption DEF Init
<1> QED BY <1>1, FrontFacts DEF Outstanding

LEMMA SendWindowStep ==
  ASSUME TypeOK, SendWindow, Next
  PROVE  SendWindow' /\ \A e \in Endpoint : snd_una'[e] >= snd_una[e]
<1>1. \A x \in Endpoint :
        /\ Outstanding(DOMAIN snd_buf[x], snd_una[x], snd_nxt[x])
        /\ DOMAIN snd_buf[x] \in SUBSET Nat /\ snd_una[x] \in Nat /\ snd_nxt[x] \in Nat
  BY DEF TypeOK, SendWindow, Outstanding
<1>2. CASE UNCHANGED <<snd_buf, snd_una, snd_nxt>>
  BY <1>1, <1>2 DEF SendWindow
<1>3. ASSUME NEW e \in Endpoint,
             InputAckOrWins(e) \/ InputWask(e) \/ InputPush(e) \/ InputStalePush(e)
      PROVE  SendWindow' /\ \A x \in Endpoint : snd_una'[x] >= snd_una[x]
  <2>1. PICK s \in Segment : ParseAcks(e, s)
    BY <1>3, InputFacts DEF InputSegment
  <2>2. PICK left \in SUBSET DOMAIN snd_buf[e] :
          /\ snd_buf' = [snd_buf EXCEPT ![e] = [n \in left |-> snd_buf[e][n]]]
          /\ snd_una' = [snd_una EXCEPT ![e] = Front(left, snd_nxt[e])]
          /\ snd_nxt' = snd_nxt
    BY <2>1, ParseAcksFacts
  <2>3. /\ DOMAIN snd_buf'[e] = left /\ snd_una'[e] = Front(left, snd_nxt[e])
        /\ \A x \in Endpoint : x # e => snd_buf'[x] = snd_buf[x] /\ snd_una'[x] = snd_una[x]
    BY <2>2 DEF TypeOK
  <2>4. /\ Outstanding(left, Front(left, snd_nxt[e]), snd_nxt[e])
        /\ Front(left, snd_nxt[e]) >= snd_una[e]
    BY <1>1, AckWindow
  <2>5. ASSUME NEW x \in Endpoint
        PROVE  /\ Outstanding(DOMAIN snd_buf'[x], snd_una'[x], snd_nxt'[x])
               /\ snd_una'[x] >= snd_una[x]
    <3>1. CASE x = e
      BY <3>1, <2>2, <2>3, <2>4
    <3>2. CASE x # e
      <4>1. /\ snd_buf'[x] = snd_buf[x] /\ snd_una'[x] = snd_una[x]
            /\ snd_nxt'[x] = snd_nxt[x] /\ snd_una[x] >= snd_una[x]
        BY <3>2, <2>2, <2>3, <1>1
      <4> QED BY <4>1, <1>1
    <3> QED BY <3>1, <3>2
  <2> QED BY <2>5 DEF SendWindow, Outstanding
<1>4. ASSUME NEW e \in Endpoint, NEW resend, NEW expired \in BOOLEAN,
             Flush(e, resend, expired)
      PROVE  SendWindow' /\ \A x \in Endpoint : snd_una'[x] >= snd_una[x]
  <2>1. PICK cwnd \in 0..SndWnd :
          /\ snd_buf' = [snd_buf EXCEPT ![e] = Numbered(e, Admitted(e, cwnd))]
          /\ snd_nxt' = [snd_nxt EXCEPT ![e] = snd_nxt[e] + Admitted(e, cwnd)]
          /\ snd_una' = snd_una
    BY <1>4, FlushFacts
  <2> DEFINE count == Admitted(e, cwnd)
  <2>2. /\ count \in 0..Len(snd_queue[e])
        /\ count > 0 => snd_nxt[e] + count <= snd_una[e] + cwnd
    BY AdmittedFacts, WindowAssumption
  <2> HIDE DEF count
  <2>3. /\ snd_buf'[e] = Numbered(e, count) /\ snd_nxt'[e] = snd_nxt[e] + count
        /\ \A x \in Endpoint : x # e => snd_buf'[x] = snd_buf[x] /\ snd_nxt'[x] = snd_nxt[x]
    BY <2>1 DEF TypeOK, count
  <2>4. DOMAIN snd_buf'[e] = DOMAIN snd_buf[e] \cup (snd_nxt[e] .. snd_nxt[e] + count - 1)
    BY <2>2, <2>3, NumberedType
  <2>5. count \in Nat /\ (count > 0 => snd_nxt[e] + count <= snd_una[e] + SndWnd)
    <3>1. count \in Nat /\ cwnd \in Nat /\ cwnd <= SndWnd /\ SndWnd \in Nat
      BY <2>2, TypesAt, WindowAssumption
    <3> QED BY <3>1, <2>2, <1>1
  <2>6. Outstanding(DOMAIN snd_buf'[e], snd_una[e], snd_nxt'[e])
    BY <1>1, <2>3, <2>4, <2>5, NewWindow
  <2>7. ASSUME NEW x \in Endpoint
        PROVE  /\ Outstanding(DOMAIN snd_buf'[x], snd_una'[x], snd_nxt'[x])
               /\ snd_una'[x] >= snd_una[x]
    <3>1. snd_una'[x] = snd_una[x] /\ snd_una[x] >= snd_una[x]
      BY <2>1, <1>1
    <3>2. CASE x = e
      BY <3>1, <3>2, <2>6
    <3>3. CASE x # e
      BY <3>1, <3>3, <2>3, <1>1
    <3> QED BY <3>1, <3>2, <3>3
  <2> QED BY <2>7 DEF SendWindow, Outstanding
<1>5. ASSUME NEW e \in Endpoint, NEW count, Send(e, count)
      PROVE  UNCHANGED <<snd_buf, snd_una, snd_nxt>>
  BY <1>5 DEF Send
<1>6. ASSUME NEW e \in Endpoint, Recv(e) PROVE UNCHANGED <<snd_buf, snd_una, snd_nxt>>
  BY <1>6 DEF Recv, sndVars
<1>7. ASSUME NEW e \in Endpoint, NEW d, Input(e, d)
      PROVE  UNCHANGED <<snd_buf, snd_una, snd_nxt>>
  BY <1>7 DEF Input, sndVars
<1>8. ASSUME NEW e \in Endpoint,
             FlushDroppedAtAck(e) \/ \E expired \in BOOLEAN : FlushDroppedAtProbe(e, expired)
      PROVE  UNCHANGED <<snd_buf, snd_una, snd_nxt>>
  BY <1>8 DEF FlushDroppedAtAck, FlushDroppedAtProbe, sndVars
<1> QED BY <1>2, <1>3, <1>4, <1>5, <1>6, <1>7, <1>8 DEF Next

\* The sender never has more than its window outstanding, and snd_una is the
\* oldest unacknowledged number.
THEOREM SendWindowKept == Spec => []SendWindow
<1>1. TypeOK /\ SendWindow /\ [Next]_vars => SendWindow'
  <2>1. SendWindow /\ UNCHANGED vars => SendWindow'
    BY DEF vars, sndVars, SendWindow
  <2> QED BY <2>1, SendWindowStep
<1> QED BY <1>1, SendWindowInit, TypeCorrect, PTL DEF Spec

\* No acknowledgement and no segment, however old, moves a number back.
THEOREM NeverBack == Spec => Monotone
<1>1. TypeOK /\ ReceiveWindow /\ SendWindow /\ [Next]_vars =>
        [\A e \in Endpoint : snd_una'[e] >= snd_una[e] /\ rcv_nxt'[e] >= rcv_nxt[e]]_vars
  BY ReceiveWindowStep, SendWindowStep
<1> QED BY <1>1, TypeCorrect, ReceiveWindowKept, SendWindowKept, PTL DEF Spec, Monotone

(***************************************************************************)
(* A queue that is full holds a message, if no message is longer than it   *)
(***************************************************************************)

\* Every fragment ever sent belongs to a message that fits the peer's queue.
ShortMessages ==
  \A e \in Endpoint : \A i \in 1..Len(sent[e]) : sent[e][i].frg < RcvWnd

LEMMA ShortStep ==
  ASSUME TypeOK, ShortMessages, Next, \A count \in FragCounts : count <= RcvWnd
  PROVE  ShortMessages'
<1>1. CASE sent' = sent
  BY <1>1 DEF ShortMessages
<1>2. ASSUME NEW e \in Endpoint, NEW count \in FragCounts, Send(e, count)
      PROVE  ShortMessages'
  <2> DEFINE msg == IF sent[e] = <<>> THEN 1 ELSE sent[e][Len(sent[e])].msg + 1
             f == [i \in 1..count |-> [msg |-> msg, frg |-> count - i]]
  <2>1. sent' = [sent EXCEPT ![e] = sent[e] \o f]
    BY <1>2 DEF Send
  <2>2. count \in Nat /\ count <= RcvWnd /\ RcvWnd \in Nat
    BY FragmentAssumption, WindowAssumption
  <2> HIDE DEF msg
  <2> DEFINE F == {[msg |-> msg, frg |-> count - i] : i \in 1..count}
  <2>3. f \in Seq(F) /\ Len(f) = count
    <3>1. f \in [1..count -> F]
      OBVIOUS
    <3> HIDE DEF f, F
    <3>2. f \in Seq(F) /\ DOMAIN f = 1..count
      BY <3>1, <2>2
    <3> QED BY <2>2, <3>2, LenProperties
  <2>4. \A i \in 1..count : f[i].frg < RcvWnd
    <3>1. \A i \in 1..count : f[i].frg = count - i
      OBVIOUS
    <3> HIDE DEF f
    <3> QED BY <2>2, <3>1
  <2> HIDE DEF f
  <2>5. sent \in [Endpoint -> Seq(Payload)] /\ sent[e] \in Seq(Payload) /\ Len(sent[e]) \in Nat
    BY TypesAt DEF TypeOK
  <2> DEFINE h == sent[e]
             hf == h \o f
             l == Len(h)
  <2>6. \A i \in 1..Len(hf) : hf[i].frg < RcvWnd
    <3>1. /\ Len(hf) = l + count
          /\ \A i \in 1..(l + count) : hf[i] = IF i <= l THEN h[i] ELSE f[i - l]
      <4> DEFINE T == Payload \cup F
      <4>1. h \in Seq(T) /\ f \in Seq(T)
        <5> HIDE DEF F
        <5> QED BY <2>3, <2>5
      <4> HIDE DEF h, T
      <4> QED BY <2>3, <4>1, ConcatProperties
    <3>2. \A i \in 1..l : h[i].frg < RcvWnd
      BY DEF ShortMessages
    <3>3. l \in Nat
      BY <2>5
    <3> HIDE DEF h, hf, l
    <3>4. ASSUME NEW i \in 1..(l + count) PROVE hf[i].frg < RcvWnd
      <4>1. CASE i <= l
        <5>1. i \in 1..l
          BY <4>1, <3>3, <2>2
        <5> QED BY <5>1, <4>1, <3>1, <3>2
      <4>2. CASE ~ (i <= l)
        <5>1. i - l \in 1..count
          BY <4>2, <3>3, <2>2
        <5> QED BY <5>1, <4>2, <3>1, <2>4
      <4> QED BY <4>1, <4>2
    <3> QED BY <3>1, <3>4
  <2>7. ASSUME NEW x \in Endpoint, NEW i \in 1..Len(sent'[x])
        PROVE  sent'[x][i].frg < RcvWnd
    <3>1. CASE x = e
      <4>1. sent'[x] = hf
        BY <3>1, <2>1, <2>5
      <4> QED BY <4>1, <2>6
    <3>2. CASE x # e
      <4>1. sent'[x] = sent[x]
        BY <3>2, <2>1, <2>5
      <4> QED BY <4>1 DEF ShortMessages
    <3> QED BY <3>1, <3>2
  <2> QED BY <2>7 DEF ShortMessages
<1>3. (\E e \in Endpoint, count \in FragCounts : Send(e, count)) \/ sent' = sent
  <2>1. \A e \in Endpoint :
          /\ Recv(e) => sent' = sent
          /\ \A d : Input(e, d) => sent' = sent
          /\ \A resend, expired : Flush(e, resend, expired) => sent' = sent
    BY DEF Recv, Input, Flush, histVars
  <2>2. \A e \in Endpoint :
          /\ InputAckOrWins(e) \/ InputWask(e) \/ InputPush(e) \/ InputStalePush(e)
               => sent' = sent
          /\ FlushDroppedAtAck(e) => sent' = sent
          /\ \A expired : FlushDroppedAtProbe(e, expired) => sent' = sent
    BY DEF InputAckOrWins, InputWask, InputPush, InputStalePush, FlushDroppedAtAck,
           FlushDroppedAtProbe, histVars
  <2> QED BY <2>1, <2>2 DEF Next
<1> QED BY <1>1, <1>2, <1>3

LEMMA ShortNotWedged ==
  ASSUME TypeOK, StreamInv, ShortMessages
  PROVE  RecvNotWedged
<1> SUFFICES ASSUME NEW e \in Endpoint, Len(rcv_queue[e]) >= RcvWnd
             PROVE  MessageReady(rcv_queue[e])
  BY DEF RecvNotWedged
<1> DEFINE queue == rcv_queue[e]
           p == Peer(e)
           g == Len(got[e])
           q == Len(queue)
           l == Len(sent[p])
           w == Len(snd_queue[p])
<1>1. /\ p \in Endpoint /\ queue \in Seq(Payload)
      /\ q \in Nat /\ g \in Nat /\ l \in Nat /\ w \in Nat /\ snd_nxt[p] \in Nat
      /\ RcvWnd \in Nat /\ RcvWnd # 0 /\ q >= RcvWnd
  BY EndpointFacts, TypesAt, WindowAssumption
<1>2. /\ Holds(queue, sent[p], g)
      /\ rcv_nxt[e] = g + q /\ rcv_nxt[e] <= snd_nxt[p] /\ snd_nxt[p] + w = l
  BY <1>1, RecvStreamWords DEF StreamInv, SendStream
<1>3. g + 1 \in 1..l /\ 1 \in 1..q
  <2> HIDE DEF g, q, l, w
  <2> QED BY <1>1, <1>2
<1>4. queue[1].frg < RcvWnd
  <2>1. queue[1] = sent[p][g + 1]
    BY <1>2, <1>3 DEF Holds
  <2> QED BY <1>1, <1>3, <2>1 DEF ShortMessages
<1>5. queue[1].frg \in Nat
  <2>1. queue[1] \in Payload
    BY <1>1, <1>3, ElementOfSeq
  <2> QED BY <2>1 DEF Payload
<1>6. queue # <<>>
  BY <1>3
<1>7. q >= queue[1].frg + 1
  <2> DEFINE c == queue[1].frg
  <2>1. c \in Nat /\ c < RcvWnd
    BY <1>4, <1>5
  <2> HIDE DEF c, q
  <2>2. q >= c + 1
    BY <1>1, <2>1
  <2> QED BY <2>2 DEF c
<1> QED BY <1>6, <1>7 DEF MessageReady

\* If no message has more fragments than the receive window, a full queue
\* always holds a whole message.
THEOREM NeverWedged ==
  ASSUME \A count \in FragCounts : count <= RcvWnd
  PROVE  Spec => []RecvNotWedged
<1>1. Init => ShortMessages
  BY DEF Init, ShortMessages
<1>2. TypeOK /\ ShortMessages /\ [Next]_vars => ShortMessages'
  <2>1. ShortMessages /\ UNCHANGED vars => ShortMessages'
    BY DEF vars, histVars, ShortMessages
  <2> QED BY <2>1, ShortStep
<1>3. TypeOK /\ StreamInv /\ ShortMessages => RecvNotWedged
  BY ShortNotWedged
<1> QED BY <1>1, <1>2, <1>3, TypeCorrect, StreamCorrect, PTL DEF Spec

(***************************************************************************)
(* The two control blocks over a lossy network implement the reliable      *)
(* message channel.                                                        *)
(***************************************************************************)

\* A segment of a history, read off a queue that holds the history.
LEMMA SameFragments ==
  ASSUME NEW q \in Seq(Payload), NEW h \in Seq(Payload), NEW g \in Nat,
         g + Len(q) <= Len(h), Holds(q, h, g), NEW n \in 1..Len(q)
  PROVE  SubSeq(h, g + 1, g + n) = SubSeq(q, 1, n)
<1>1. /\ Len(q) \in Nat /\ Len(h) \in Nat /\ n \in 0..Len(q) /\ n \in Nat
  BY LenProperties
<1>2. /\ SubSeq(q, 1, n) \in Seq(Payload) /\ Len(SubSeq(q, 1, n)) = n
      /\ \A i \in 1..n : SubSeq(q, 1, n)[i] = q[i]
  BY <1>1, SubSeqFacts
<1>3. \A i \in (g + 1)..(g + n) : i \in 1..Len(h)
  <2> DEFINE lq == Len(q)
             lh == Len(h)
  <2>1. lq \in Nat /\ lh \in Nat /\ n \in 0..lq /\ g + lq <= lh
    BY <1>1
  <2> HIDE DEF lq, lh
  <2>2. \A i \in (g + 1)..(g + n) : i \in 1..lh
    BY <2>1
  <2> QED BY <2>2 DEF lh
<1>4. \A i \in (g + 1)..(g + n) : h[i] \in Payload
  BY <1>3, ElementOfSeq
<1> DEFINE first == g + 1
           last == g + n
           cut == SubSeq(h, first, last)
<1>5. first \in Int /\ last \in Int /\ first <= last /\ last - first + 1 = n
  BY <1>1
<1>6. /\ cut \in Seq(Payload)
      /\ Len(cut) = IF first <= last THEN last - first + 1 ELSE 0
      /\ \A i \in 1..(last - first + 1) : cut[i] = h[first + i - 1]
  <2>1. \A i \in first..last : h[i] \in Payload
    BY <1>4
  <2> HIDE DEF first, last
  <2> QED BY <1>5, <2>1, SubSeqProperties
<1>7. Len(cut) = n
  <2> HIDE DEF cut, first, last
  <2> QED BY <1>5, <1>6
<1>8. ASSUME NEW i \in 1..n PROVE cut[i] = SubSeq(q, 1, n)[i]
  <2>1. i \in 1..(last - first + 1) /\ first + i - 1 = g + i /\ i \in 1..Len(q)
    BY <1>1, <1>5
  <2>2. cut[i] = h[first + i - 1]
    BY <1>6, <2>1
  <2>3. q[i] = h[g + i]
    BY <2>1 DEF Holds
  <2> HIDE DEF cut, first, last
  <2> QED BY <1>2, <2>1, <2>2, <2>3
<1> HIDE DEF cut
<1>9. cut = SubSeq(q, 1, n)
  BY <1>2, <1>6, <1>7, <1>8, SeqEqual
<1> QED BY <1>9 DEF cut, first, last

LEMMA ChannelInit == Init => Channel!Init
BY DEF Init, Channel!Init, Endpoint, Channel!Endpoint

\* recv delivers the next message.
LEMMA RecvDelivers ==
  ASSUME TypeOK, StreamInv, NEW e \in Endpoint, Recv(e)
  PROVE  Channel!Deliver(e)
<1> DEFINE p == Peer(e)
           queue == rcv_queue[e]
           g == Len(got[e])
           h == sent[p]
<1>1. PICK n \in 1..Len(queue) :
        /\ queue[n].frg = 0 \/ n = Len(queue)
        /\ \A i \in 1..(n - 1) : queue[i].frg # 0
        /\ got' = [got EXCEPT ![e] = got[e] \o SubSeq(queue, 1, n)]
  BY DEF Recv
<1>2. MessageReady(queue) /\ sent' = sent
  BY DEF Recv
<1>3. /\ p \in Endpoint /\ queue \in Seq(Payload) /\ h \in Seq(Payload)
      /\ Len(queue) \in Nat /\ g \in Nat /\ Len(h) \in Nat /\ Len(snd_queue[p]) \in Nat
      /\ rcv_nxt[e] \in Nat /\ snd_nxt[p] \in Nat
  BY EndpointFacts, TypesAt
<1>4. /\ Holds(queue, h, g) /\ Framed(h)
      /\ rcv_nxt[e] = g + Len(queue) /\ rcv_nxt[e] <= snd_nxt[p]
      /\ snd_nxt[p] + Len(snd_queue[p]) = Len(h)
  BY <1>3, RecvStreamWords DEF StreamInv, SendStream
<1>5. g + Len(queue) <= Len(h)
  <2> DEFINE lq == Len(queue)
             lh == Len(h)
             lw == Len(snd_queue[p])
  <2>1. /\ lq \in Nat /\ g \in Nat /\ lh \in Nat /\ lw \in Nat /\ snd_nxt[p] \in Nat
        /\ rcv_nxt[e] = g + lq /\ rcv_nxt[e] <= snd_nxt[p] /\ snd_nxt[p] + lw = lh
    BY <1>3, <1>4
  <2> HIDE DEF lq, lh, lw, g
  <2>2. g + lq <= lh
    BY <2>1
  <2> QED BY <2>2 DEF lq, lh
<1>6. queue[n].frg = 0
  <2> HIDE DEF queue, g, h
  <2> QED BY <1>1, <1>2, <1>3, <1>4, <1>5, MessageEnd
<1>7. SubSeq(h, g + 1, g + n) = SubSeq(queue, 1, n)
  <2> HIDE DEF queue, g, h
  <2> QED BY <1>3, <1>4, <1>5, SameFragments
<1>8. Channel!Peer(e) = p
  BY DEF Peer, Channel!Peer
<1> DEFINE to == g + n
<1>9. to \in (g + 1)..Len(h)
  <2> DEFINE lq == Len(queue)
             lh == Len(h)
  <2>1. lq \in Nat /\ lh \in Nat /\ g \in Nat /\ g + lq <= lh /\ n \in 1..lq
    BY <1>3, <1>5
  <2> HIDE DEF lq, lh, g
  <2>2. to \in (g + 1)..lh
    BY <2>1
  <2> QED BY <2>2 DEF lh
<1>10. h[to].frg = 0
  <2>1. queue[n] = h[g + n]
    BY <1>4 DEF Holds
  <2> QED BY <1>6, <2>1
<1>11. ASSUME NEW i \in (g + 1)..(to - 1) PROVE h[i].frg # 0
  <2> HIDE DEF g, h
  <2>1. i - g \in 1..(n - 1) /\ i - g \in 1..Len(queue) /\ g + (i - g) = i
    BY <1>3
  <2>2. queue[i - g] = h[g + (i - g)]
    BY <1>4, <2>1 DEF Holds
  <2> QED BY <1>1, <2>1, <2>2
<1>12. got' = [got EXCEPT ![e] = got[e] \o SubSeq(h, g + 1, to)]
  BY <1>1, <1>7
<1> HIDE DEF to
<1> QED BY <1>2, <1>8, <1>9, <1>10, <1>11, <1>12 DEF Channel!Deliver

\* Every step is a send, a delivery, or nothing an application can see.
LEMMA ChannelStep ==
  ASSUME TypeOK, StreamInv, Next
  PROVE  Channel!Next \/ UNCHANGED <<sent, got>>
<1>0. Channel!Endpoint = Endpoint
  BY DEF Endpoint, Channel!Endpoint
<1>1. PICK e \in Endpoint :
        \/ \E count \in FragCounts : Send(e, count)
        \/ Recv(e)
        \/ \E d \in net[e] : Input(e, d)
        \/ InputAckOrWins(e) \/ InputWask(e) \/ InputPush(e) \/ InputStalePush(e)
        \/ \E resend \in SUBSET DOMAIN snd_buf[e], expired \in BOOLEAN :
             Flush(e, resend, expired)
        \/ FlushDroppedAtAck(e) \/ \E expired \in BOOLEAN : FlushDroppedAtProbe(e, expired)
  BY DEF Next
<1>2. ASSUME NEW count \in FragCounts, Send(e, count) PROVE Channel!Next
  <2>1. Channel!Send(e, count)
    BY <1>2 DEF Send, Channel!Send
  <2> QED BY <1>0, <2>1 DEF Channel!Next
<1>3. CASE Recv(e)
  BY <1>0, <1>3, RecvDelivers DEF Channel!Next
<1>4. ASSUME NEW d \in net[e], Input(e, d) PROVE UNCHANGED <<sent, got>>
  BY <1>4 DEF Input, histVars
<1>5. CASE InputAckOrWins(e) \/ InputWask(e) \/ InputPush(e) \/ InputStalePush(e)
  BY <1>5 DEF InputAckOrWins, InputWask, InputPush, InputStalePush, histVars
<1>6. ASSUME NEW resend, NEW expired, Flush(e, resend, expired)
      PROVE  UNCHANGED <<sent, got>>
  BY <1>6 DEF Flush, histVars
<1>7. CASE FlushDroppedAtAck(e) \/ \E expired \in BOOLEAN : FlushDroppedAtProbe(e, expired)
  BY <1>7 DEF FlushDroppedAtAck, FlushDroppedAtProbe, histVars
<1> QED BY <1>1, <1>2, <1>3, <1>4, <1>5, <1>6, <1>7

\* Whatever the network loses, repeats or reorders and whenever a flush is
\* abandoned, the applications see a reliable, ordered channel of messages.
THEOREM ChannelImplemented == Spec => ImplementsChannel
<1>1. TypeOK /\ StreamInv /\ [Next]_vars => [Channel!Next]_<<sent, got>>
  <2>1. UNCHANGED vars => UNCHANGED <<sent, got>>
    BY DEF vars, histVars
  <2> QED BY <2>1, ChannelStep
<1> QED BY <1>1, ChannelInit, TypeCorrect, StreamCorrect, PTL
        DEF Spec, ImplementsChannel, Channel!Spec
=============================================================================
