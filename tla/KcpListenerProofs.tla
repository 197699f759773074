-------------------------- MODULE KcpListenerProofs --------------------------
(***************************************************************************)
(* What the listener's table and the messages read through it have in      *)
(* common, and that no message is lost but with a stream that is dropped:  *)
(* for any clients, any lengths of messages and of the buffer, any bounds *)
(* on what is under way, and whatever datagrams the network keeps.         *)
(***************************************************************************)
EXTENDS KcpListener, FiniteSetTheorems, SequenceTheorems, WellFoundedInduction,
        TLAPS

\* A set of naturals that is not empty has a minimum.
LEMMA MinFacts ==
  ASSUME NEW S \in SUBSET Nat, S # {}
  PROVE  Min(S) \in S /\ \A n \in S : Min(S) <= n
<1>1. PICK m \in S : \A n \in S : ~ (<<n, m>> \in OpToRel(<, Nat))
  BY NatLessThanWellFounded, WFMin
<1>2. ASSUME NEW n \in S PROVE m <= n
  <2>1. ~ (n < m)
    BY <1>1 DEF OpToRel
  <2> QED BY <2>1
<1> QED BY <1>2 DEF Min

\* All numbers before the first missing one are there.
LEMMA NextMissingFacts ==
  ASSUME NEW nxt \in Nat, NEW have, IsFiniteSet(have)
  PROVE  /\ NextMissing(nxt, have) \in Nat
         /\ NextMissing(nxt, have) >= nxt
         /\ NextMissing(nxt, have) \notin have
         /\ \A n \in nxt..(NextMissing(nxt, have) - 1) : n \in have
<1> DEFINE k == Cardinality(have)
           S == {n \in nxt..(nxt + k) : n \notin have}
<1>1. k \in Nat
  BY FS_CardinalityType
<1>2. S # {}
  <2>1. SUFFICES ASSUME nxt..(nxt + k) \subseteq have PROVE FALSE
    OBVIOUS
  <2>2. Cardinality(nxt..(nxt + k)) <= k
    BY <2>1, FS_Subset
  <2>3. Cardinality(nxt..(nxt + k)) = k + 1
    <3> HIDE DEF k
    <3> QED BY <1>1, FS_Interval
  <2> QED BY <1>1, <2>2, <2>3
<1>3. S \in SUBSET Nat
  BY <1>1
<1>4. Min(S) \in S /\ \A n \in S : Min(S) <= n
  BY <1>2, <1>3, MinFacts
<1>5. NextMissing(nxt, have) = Min(S)
  BY DEF NextMissing
<1>6. ASSUME NEW n \in nxt..(Min(S) - 1) PROVE n \in have
  BY <1>1, <1>4
<1> QED BY <1>1, <1>4, <1>5, <1>6

(***************************************************************************)
(* The inductive invariant.                                                *)
(***************************************************************************)

Fields(kcb) ==
  \E c, n, b, q, k :
    kcb = [conv |-> c, rcv_nxt |-> n, rcv_buf |-> b, rcv_queue |-> q, acklist |-> k]

\* flush leaves all fields but acklist as they were.
LEMMA FlushedFields ==
  ASSUME NEW kcb, Fields(kcb)
  PROVE  /\ Fields(Flushed(kcb))
         /\ Flushed(kcb).conv = kcb.conv
         /\ Flushed(kcb).rcv_nxt = kcb.rcv_nxt
         /\ Flushed(kcb).rcv_buf = kcb.rcv_buf
         /\ Flushed(kcb).rcv_queue = kcb.rcv_queue
         /\ Flushed(kcb).acklist = {}
<1>1. PICK c, n, b, q, k :
        kcb = [conv |-> c, rcv_nxt |-> n, rcv_buf |-> b, rcv_queue |-> q, acklist |-> k]
  BY DEF Fields
<1>2. Flushed(kcb) =
        [conv |-> c, rcv_nxt |-> n, rcv_buf |-> b, rcv_queue |-> q, acklist |-> {}]
  BY <1>1 DEF Flushed
<1>3. Fields(Flushed(kcb))
  BY <1>2 DEF Fields
<1> QED BY <1>1, <1>2, <1>3

\* So does recv with all but rcv_queue.
LEMMA QueueFields ==
  ASSUME NEW kcb, Fields(kcb), NEW p
  PROVE  LET after == [kcb EXCEPT !.rcv_queue = p]
         IN  /\ Fields(after)
             /\ after.conv = kcb.conv
             /\ after.rcv_nxt = kcb.rcv_nxt
             /\ after.rcv_buf = kcb.rcv_buf
             /\ after.rcv_queue = p
             /\ after.acklist = kcb.acklist
<1>1. PICK c, n, b, q, k :
        kcb = [conv |-> c, rcv_nxt |-> n, rcv_buf |-> b, rcv_queue |-> q, acklist |-> k]
  BY DEF Fields
<1> DEFINE after == [kcb EXCEPT !.rcv_queue = p]
<1>2. after = [conv |-> c, rcv_nxt |-> n, rcv_buf |-> b, rcv_queue |-> p, acklist |-> k]
  BY <1>1
<1>3. Fields(after)
  BY <1>2 DEF Fields
<1> HIDE DEF after
<1>4. /\ after.conv = kcb.conv /\ after.rcv_nxt = kcb.rcv_nxt
      /\ after.rcv_buf = kcb.rcv_buf /\ after.rcv_queue = p
      /\ after.acklist = kcb.acklist
  BY <1>1, <1>2
<1> QED BY <1>3, <1>4 DEF after

\* The messages of a sequence are of conversation c, numbered from n on.
Numbered(seq, c, n) ==
  \A i \in 1..Len(seq) : seq[i].conv = c /\ seq[i].sn = n + i - 1

\* A control block from which the messages l have been read: it holds messages
\* of its own conversation only, each under its number, and its queue goes on
\* where l ends.
Follows(kcb, l, S) ==
  /\ Fields(kcb)
  /\ l \in Seq(S) /\ kcb.rcv_queue \in Seq(S)
  /\ kcb.rcv_nxt = Len(l) + Len(kcb.rcv_queue)
  /\ IsFiniteSet(DOMAIN kcb.rcv_buf)
  /\ \A n \in DOMAIN kcb.rcv_buf :
       kcb.rcv_buf[n].conv = kcb.conv /\ kcb.rcv_buf[n].sn = n
  /\ Numbered(l, kcb.conv, 0)
  /\ Numbered(kcb.rcv_queue, kcb.conv, Len(l))

TableInv ==
  /\ DOMAIN connections \subseteq Addr
  /\ connections = [a \in DOMAIN connections |-> connections[a]]
  /\ log = [a \in Addr |-> log[a]]
  /\ \A d \in up : d.addr \in Addr
  /\ \A a \in DOMAIN connections : \E S : Follows(connections[a], log[a], S)
  /\ \A a \in DOMAIN connections : log[a] # <<>>
  /\ \A a \in Addr \ DOMAIN connections : log[a] = <<>>

\* input keeps a control block in step with what has been read from it,
\* whatever the datagram is.
LEMMA InputFollows ==
  ASSUME NEW kcb, NEW l, NEW S, Follows(kcb, l, S), NEW d
  PROVE  \E T : Follows(Input(kcb, d), l, T)
<1> DEFINE window == kcb.rcv_nxt..(kcb.rcv_nxt + RcvWnd - 1)
           new == (Taken(kcb, d.segs) \cap window) \ DOMAIN kcb.rcv_buf
           size(n) == (CHOOSE s \in Range(d.segs) : s.cmd = "PUSH" /\ s.sn = n).size
           buf == [n \in DOMAIN kcb.rcv_buf \cup new |->
                     IF n \in new
                     THEN [addr |-> d.addr, conv |-> d.conv, sn |-> n, size |-> size(n)]
                     ELSE kcb.rcv_buf[n]]
           nxt == NextMissing(kcb.rcv_nxt, DOMAIN buf)
           moved == [i \in 1..(nxt - kcb.rcv_nxt) |-> buf[kcb.rcv_nxt + i - 1]]
           after == [conv |-> kcb.conv,
                     rcv_nxt |-> nxt,
                     rcv_buf |-> Remaining(buf, nxt),
                     rcv_queue |-> kcb.rcv_queue \o moved,
                     acklist |-> kcb.acklist \cup Acked(kcb, d.segs)]
<1>1. CASE ~ OfConversation(kcb.conv, d)
  BY <1>1 DEF Input
<1>2. CASE OfConversation(kcb.conv, d)
  <2>1. Input(kcb, d) = after
    BY <1>2 DEF Input
  <2>2. /\ kcb.rcv_nxt \in Nat /\ Len(l) \in Nat /\ Len(kcb.rcv_queue) \in Nat
        /\ kcb.rcv_nxt = Len(l) + Len(kcb.rcv_queue)
    BY DEF Follows
  <2>3. IsFiniteSet(DOMAIN buf)
    <3>1. IsFiniteSet(window)
      <4>1. kcb.rcv_nxt \in Int /\ kcb.rcv_nxt + RcvWnd - 1 \in Int
        BY <2>2 DEF RcvWnd
      <4> QED BY <4>1, FS_Interval
    <3>2. IsFiniteSet(new)
      BY <3>1, FS_Subset
    <3> QED BY <3>2, FS_Union DEF Follows
  <2>4. \A n \in DOMAIN buf : buf[n].conv = kcb.conv /\ buf[n].sn = n
    BY <1>2 DEF OfConversation, Follows
  <2>5. /\ nxt \in Nat /\ nxt >= kcb.rcv_nxt
        /\ \A n \in kcb.rcv_nxt..(nxt - 1) : n \in DOMAIN buf
    <3> HIDE DEF buf
    <3> QED BY <2>2, <2>3, NextMissingFacts
  <2> DEFINE k == nxt - kcb.rcv_nxt
             M == {moved[i] : i \in 1..k}
             T == S \cup M
  <2>6. k \in Nat
    <3> HIDE DEF nxt
    <3> QED BY <2>2, <2>5
  <2>7. moved \in Seq(T) /\ Len(moved) = k
    <3>1. moved \in [1..k -> T]
      <4> HIDE DEF buf, nxt
      <4> QED OBVIOUS
    <3> HIDE DEF moved, T, k
    <3> QED BY <2>6, <3>1, SeqDef, LenProperties
  <2>8. \A i \in 1..k : moved[i].conv = kcb.conv
                          /\ moved[i].sn = kcb.rcv_nxt + i - 1
    <3>1. ASSUME NEW i \in 1..k
          PROVE  moved[i].conv = kcb.conv /\ moved[i].sn = kcb.rcv_nxt + i - 1
      <4>1. kcb.rcv_nxt + i - 1 \in kcb.rcv_nxt..(nxt - 1)
        <5> HIDE DEF nxt
        <5> QED BY <2>2, <2>5
      <4>2. moved[i] = buf[kcb.rcv_nxt + i - 1]
        OBVIOUS
      <4> HIDE DEF buf, nxt, moved, k
      <4> QED BY <4>1, <4>2, <2>4, <2>5
    <3> QED BY <3>1
  <2>9. l \in Seq(T) /\ kcb.rcv_queue \in Seq(T)
    <3> HIDE DEF M
    <3> QED BY DEF Follows
  <2> HIDE DEF moved, T, k
  <2>10. /\ kcb.rcv_queue \o moved \in Seq(T)
         /\ Len(kcb.rcv_queue \o moved) = Len(kcb.rcv_queue) + k
    BY <2>7, <2>9, ConcatProperties
  <2>11. nxt = Len(l) + Len(kcb.rcv_queue \o moved)
    <3> HIDE DEF nxt
    <3> QED BY <2>2, <2>5, <2>10 DEF Follows, k
  <2>12. Numbered(kcb.rcv_queue \o moved, kcb.conv, Len(l))
    <3>1. ASSUME NEW i \in 1..Len(kcb.rcv_queue \o moved)
          PROVE  /\ (kcb.rcv_queue \o moved)[i].conv = kcb.conv
                 /\ (kcb.rcv_queue \o moved)[i].sn = Len(l) + i - 1
      <4>1. CASE i <= Len(kcb.rcv_queue)
        <5>1. (kcb.rcv_queue \o moved)[i] = kcb.rcv_queue[i]
          BY <2>6, <2>7, <2>9, <2>10, <3>1, <4>1
        <5> QED BY <5>1, <4>1, <2>2, <2>6, <2>10 DEF Follows, Numbered
      <4>2. CASE i > Len(kcb.rcv_queue)
        <5>1. /\ i - Len(kcb.rcv_queue) \in 1..k
              /\ (kcb.rcv_queue \o moved)[i] = moved[i - Len(kcb.rcv_queue)]
          BY <2>2, <2>6, <2>7, <2>9, <2>10, <3>1, <4>2
        <5>2. i \in Int
          BY <2>2, <2>6, <2>10
        <5>3. kcb.rcv_nxt + (i - Len(kcb.rcv_queue)) - 1 = Len(l) + i - 1
          <6>1. \A x, y \in Nat, j \in Int : x + y + (j - y) - 1 = x + j - 1
            OBVIOUS
          <6> QED BY <2>2, <5>2, <6>1, Zenon
        <5> QED BY <5>1, <5>3, <2>8
      <4> QED BY <2>2, <2>6, <2>10, <4>1, <4>2
    <3> QED BY <3>1 DEF Numbered
  <2>13. /\ IsFiniteSet(DOMAIN Remaining(buf, nxt))
         /\ \A n \in DOMAIN Remaining(buf, nxt) :
              /\ Remaining(buf, nxt)[n].conv = kcb.conv
              /\ Remaining(buf, nxt)[n].sn = n
    <3> HIDE DEF buf, nxt
    <3>1. DOMAIN Remaining(buf, nxt) \in SUBSET DOMAIN buf
      BY DEF Remaining
    <3> QED BY <3>1, <2>3, <2>4, FS_Subset DEF Remaining
  <2>14. Follows(after, l, T)
    <3>1. Fields(after)
      BY DEF Fields
    <3>2. /\ after.conv = kcb.conv /\ after.rcv_nxt = nxt
          /\ after.rcv_buf = Remaining(buf, nxt)
          /\ after.rcv_queue = kcb.rcv_queue \o moved
      OBVIOUS
    <3>3. Numbered(l, kcb.conv, 0)
      BY DEF Follows
    <3> HIDE DEF buf, nxt, after
    <3> QED BY <2>9, <2>10, <2>11, <2>12, <2>13, <3>1, <3>2, <3>3 DEF Follows
  <2> QED BY <2>1, <2>14
<1> QED BY <1>1, <1>2

\* The control block a datagram is for is in step with what was read from it.
LEMMA BlockFollows ==
  ASSUME TableInv, NEW d \in up
  PROVE  \E S : Follows(Block(d), log[d.addr], S)
<1>1. d.addr \in Addr
  BY DEF TableInv
<1>2. CASE d.addr \in DOMAIN connections
  BY <1>2, InputFollows DEF TableInv, Block
<1>3. CASE d.addr \notin DOMAIN connections
  <2>1. log[d.addr] = <<>>
    BY <1>1, <1>3 DEF TableInv
  <2>2. Follows(NewBlock(d.conv), <<>>, {})
    <3>1. Fields(NewBlock(d.conv))
      BY DEF NewBlock, Fields
    <3>2. DOMAIN NewBlock(d.conv).rcv_buf = {}
      BY DEF NewBlock
    <3> QED BY <3>1, <3>2, FS_EmptySet DEF NewBlock, Follows, Numbered
  <2> QED BY <1>3, <2>1, <2>2, InputFollows DEF Block
<1> QED BY <1>2, <1>3

\* The client's steps add datagrams of known addresses and leave the table.
LEMMA ClientSteps ==
  ASSUME TableInv, UNCHANGED <<connections, log>>, \A d \in up' : d.addr \in Addr
  PROVE  TableInv'
BY DEF TableInv

LEMMA ClientFlushSends ==
  ASSUME TableInv, NEW a \in Addr, NEW owed, NEW sizes, NEW numbers,
         ClientFlush(a, owed, sizes, numbers)
  PROVE  \A d \in up' : d.addr \in Addr
BY DEF ClientFlush, TableInv

\* A datagram is served: the table and the log change for its address alone.
LEMMA ServedSteps ==
  ASSUME TableInv, NEW d \in up, up' \subseteq up,
         NEW a, a = d.addr,
         log' = [log EXCEPT ![a] = log'[a]],
         connections' = [c \in DOMAIN connections' |-> connections'[c]],
         DOMAIN connections' \ {a} = DOMAIN connections \ {a},
         \A c \in DOMAIN connections \ {a} : connections'[c] = connections[c],
         a \in DOMAIN connections' =>
           /\ log'[a] # <<>>
           /\ \E S : Follows(connections'[a], log'[a], S),
         a \notin DOMAIN connections' => log'[a] = <<>>
  PROVE  TableInv'
<1>1. a \in Addr
  BY DEF TableInv
<1>2. log' = [c \in Addr |-> log'[c]] /\ \A c \in Addr \ {a} : log'[c] = log[c]
  BY <1>1 DEF TableInv
<1>3. DOMAIN connections' \subseteq Addr
  BY <1>1 DEF TableInv
<1>4. ASSUME NEW c \in DOMAIN connections'
      PROVE  log'[c] # <<>> /\ \E S : Follows(connections'[c], log'[c], S)
  BY <1>2, <1>3, <1>4 DEF TableInv
<1>5. ASSUME NEW c \in Addr \ DOMAIN connections' PROVE log'[c] = <<>>
  BY <1>2, <1>5 DEF TableInv
<1> QED BY <1>2, <1>3, <1>4, <1>5 DEF TableInv

LEMMA ServeWaitsStep ==
  ASSUME TableInv, NEW d \in up, NEW flushed \in BOOLEAN, ServeWaits(d, flushed)
  PROVE  TableInv'
<1> DEFINE a == d.addr
           kcb == IF flushed THEN Flushed(Block(d)) ELSE Block(d)
<1>1. a \in DOMAIN connections /\ a \in Addr
  BY DEF ServeWaits, Waits, TableInv
<1>2. connections' = Table(a, kcb) /\ log' = log /\ up' \subseteq up
  BY DEF ServeWaits, Served
<1>3. PICK S : Follows(Block(d), log[a], S)
  BY BlockFollows
<1>4. Follows(kcb, log[a], S)
  <2>1. Fields(Block(d))
    BY <1>3 DEF Follows
  <2>2. Follows(Flushed(Block(d)), log[a], S)
    BY <1>3, <2>1, FlushedFields DEF Follows
  <2> QED BY <1>3, <2>2
<1> HIDE DEF kcb
<1>5. /\ DOMAIN connections' = DOMAIN connections
      /\ connections' = [c \in DOMAIN connections' |-> connections'[c]]
      /\ connections'[a] = kcb
      /\ \A c \in DOMAIN connections \ {a} : connections'[c] = connections[c]
  BY <1>1, <1>2 DEF Table
<1>6. log[a] # <<>> /\ log' = [log EXCEPT ![a] = log'[a]]
  BY <1>1, <1>2 DEF TableInv
<1> QED BY <1>1, <1>2, <1>4, <1>5, <1>6, ServedSteps

LEMMA ServeMessageStep ==
  ASSUME TableInv, NEW d \in up, NEW flushed \in BOOLEAN, ServeMessage(d, flushed)
  PROVE  TableInv'
<1> DEFINE a == d.addr
           q == Block(d).rcv_queue
           kcb == [Flushed(Block(d)) EXCEPT !.rcv_queue = Tail(@)]
           l == Append(log[a], Head(q))
<1>1. a \in Addr
  BY DEF TableInv
<1>2. /\ connections' = Table(a, kcb) /\ up' \subseteq up
      /\ log' = [log EXCEPT ![a] = l]
      /\ q # <<>>
  BY DEF ServeMessage, Served, Readable
<1>3. PICK S : Follows(Block(d), log[a], S)
  BY BlockFollows
<1>4. /\ Fields(kcb)
      /\ kcb.conv = Block(d).conv /\ kcb.rcv_nxt = Block(d).rcv_nxt
      /\ kcb.rcv_buf = Block(d).rcv_buf /\ kcb.rcv_queue = Tail(q)
  <2>1. Fields(Block(d))
    BY <1>3 DEF Follows
  <2>2. /\ Fields(Flushed(Block(d)))
        /\ Flushed(Block(d)).conv = Block(d).conv
        /\ Flushed(Block(d)).rcv_nxt = Block(d).rcv_nxt
        /\ Flushed(Block(d)).rcv_buf = Block(d).rcv_buf
        /\ Flushed(Block(d)).rcv_queue = q
    BY <2>1, FlushedFields
  <2>3. kcb = [Flushed(Block(d)) EXCEPT !.rcv_queue = Tail(q)]
    BY <2>2
  <2> HIDE DEF kcb, q
  <2> QED BY <2>2, <2>3, QueueFields
<1>5. /\ q \in Seq(S) /\ log[a] \in Seq(S)
      /\ Len(q) \in Nat /\ Len(q) > 0 /\ Len(log[a]) \in Nat
  BY <1>2, <1>3 DEF Follows
<1>6. /\ Head(q) = q[1]
      /\ Tail(q) \in Seq(S) /\ Len(Tail(q)) = Len(q) - 1
      /\ \A i \in 1..Len(Tail(q)) : Tail(q)[i] = q[i + 1]
  BY <1>2, <1>5
<1>7. /\ l \in Seq(S) /\ Len(l) = Len(log[a]) + 1
      /\ \A i \in 1..Len(log[a]) : l[i] = log[a][i]
      /\ l[Len(l)] = q[1]
  <2>1. q[1] \in S
    BY <1>5
  <2> QED BY <1>5, <1>6, <2>1
<1>8. Numbered(l, Block(d).conv, 0)
  <2>1. q[1].conv = Block(d).conv /\ q[1].sn = Len(log[a])
    BY <1>3, <1>5 DEF Follows, Numbered
  <2>2. ASSUME NEW i \in 1..Len(l)
        PROVE  l[i].conv = Block(d).conv /\ l[i].sn = 0 + i - 1
    <3> HIDE DEF q, l, a
    <3>1. CASE i = Len(l)
      BY <1>5, <1>7, <2>1, <3>1
    <3>2. CASE i # Len(l)
      <4>1. i \in 1..Len(log[a]) /\ l[i] = log[a][i]
        BY <1>5, <1>7, <3>2
      <4> QED BY <1>3, <4>1 DEF Follows, Numbered
    <3> QED BY <3>1, <3>2
  <2> HIDE DEF l
  <2> QED BY <2>2 DEF Numbered
<1>9. Numbered(Tail(q), Block(d).conv, Len(l))
  <2>1. ASSUME NEW i \in 1..Len(Tail(q))
        PROVE  /\ Tail(q)[i].conv = Block(d).conv
               /\ Tail(q)[i].sn = Len(l) + i - 1
    <3>1. i + 1 \in 1..Len(q) /\ Tail(q)[i] = q[i + 1]
      BY <1>5, <1>6
    <3>2. q[i + 1].conv = Block(d).conv /\ q[i + 1].sn = Len(log[a]) + (i + 1) - 1
      BY <1>3, <3>1 DEF Follows, Numbered
    <3> HIDE DEF l, q, a
    <3> QED BY <1>5, <1>6, <1>7, <3>1, <3>2
  <2> HIDE DEF l, q
  <2> QED BY <2>1 DEF Numbered
<1>10. Block(d).rcv_nxt = Len(l) + Len(Tail(q))
  <2>1. Block(d).rcv_nxt = Len(log[a]) + Len(q)
    BY <1>3 DEF Follows
  <2> HIDE DEF l, q, a
  <2> QED BY <1>5, <1>6, <1>7, <2>1
<1>11. Follows(kcb, l, S)
  <2>1. /\ IsFiniteSet(DOMAIN Block(d).rcv_buf)
        /\ \A n \in DOMAIN Block(d).rcv_buf :
             /\ Block(d).rcv_buf[n].conv = Block(d).conv
             /\ Block(d).rcv_buf[n].sn = n
    BY <1>3 DEF Follows
  <2> HIDE DEF kcb, l, q
  <2> QED BY <1>4, <1>6, <1>7, <1>8, <1>9, <1>10, <2>1 DEF Follows
<1>12. l # <<>>
  <2> HIDE DEF l, a
  <2> QED BY <1>5, <1>7
<1> HIDE DEF kcb, l
<1>13. /\ DOMAIN connections' = DOMAIN connections \cup {a}
       /\ connections' = [c \in DOMAIN connections' |-> connections'[c]]
       /\ connections'[a] = kcb
       /\ \A c \in DOMAIN connections \ {a} : connections'[c] = connections[c]
  BY <1>2 DEF Table
<1>14. log'[a] = l /\ log' = [log EXCEPT ![a] = log'[a]]
  BY <1>1, <1>2 DEF TableInv
<1>15. log'[a] # <<>> /\ \E T : Follows(connections'[a], log'[a], T)
  BY <1>11, <1>12, <1>13, <1>14
<1> QED BY <1>2, <1>13, <1>14, <1>15, ServedSteps

LEMMA ReadFailsStep ==
  ASSUME TableInv, NEW d \in up, NEW flushed \in BOOLEAN, ReadFails(d, flushed)
  PROVE  TableInv'
<1> DEFINE a == d.addr
<1>1. a \in Addr
  BY DEF TableInv
<1>2. /\ connections' = DropStream(a, Block(d)) /\ up' \subseteq up
      /\ log' = [log EXCEPT ![a] = <<>>]
  BY DEF ReadFails, Served
<1>3. /\ DOMAIN connections' = DOMAIN connections \ {a}
      /\ connections' = [c \in DOMAIN connections' |-> connections'[c]]
      /\ \A c \in DOMAIN connections \ {a} : connections'[c] = connections[c]
  BY <1>2 DEF DropStream
<1>4. log'[a] = <<>> /\ log' = [log EXCEPT ![a] = log'[a]]
  BY <1>1, <1>2 DEF TableInv
<1> QED BY <1>2, <1>3, <1>4, ServedSteps

\* Datagrams to the clients go to known addresses.
DownInv == \A d \in down : d.addr \in Addr

LEMMA ServeDown ==
  ASSUME TableInv, DownInv, NEW d \in up, NEW flushed \in BOOLEAN, Serve(d, flushed)
  PROVE  DownInv'
<1>1. d.addr \in Addr
  BY DEF TableInv
<1>2. PICK out : ServerSends(out) /\ \A x \in out : x.addr = d.addr
  <2>1. \A k, segs : \A x \in Answers(d.addr, k, segs) : x.addr = d.addr
    BY DEF Answers
  <2>2. CASE ServeWaits(d, flushed)
    BY <2>1, <2>2 DEF ServeWaits
  <2>3. CASE ServeMessage(d, flushed)
    BY <2>1, <2>3 DEF ServeMessage
  <2>4. CASE ReadFails(d, flushed)
    BY <2>1, <2>4 DEF ReadFails
  <2> QED BY <2>2, <2>3, <2>4 DEF Serve, ServeError, ServePending
<1> QED BY <1>1, <1>2 DEF ServerSends, DownInv

LEMMA InitTable == Init => TableInv /\ DownInv
BY DEF Init, TableInv, DownInv

LEMMA NextTable ==
  ASSUME TableInv, DownInv, [Next]_vars
  PROVE  TableInv' /\ DownInv'
<1>1. ASSUME NEW a \in Addr, NEW size \in Sizes,
             NEW overdue \in SUBSET DOMAIN snd_buf[a], Write(a, size, overdue)
      PROVE  TableInv' /\ DownInv'
  <2>1. UNCHANGED <<connections, log, down>> /\ \E o, s, n : ClientFlush(a, o, s, n)
    BY <1>1 DEF Write
  <2> QED BY <2>1, ClientFlushSends, ClientSteps DEF DownInv
<1>2. ASSUME NEW a \in Addr, Restart(a) PROVE TableInv' /\ DownInv'
  BY <1>2, ClientSteps DEF Restart, TableInv, DownInv
<1>3. ASSUME NEW d \in down, NEW flushed \in BOOLEAN,
             NEW overdue \in SUBSET DOMAIN snd_buf[d.addr],
             ClientReceive(d, flushed, overdue)
      PROVE  TableInv' /\ DownInv'
  <2>1. d.addr \in Addr
    BY DEF DownInv
  <2>2. /\ UNCHANGED <<connections, log>> /\ down' \subseteq down
        /\ up' = up \/ \E o, s, n : ClientFlush(d.addr, o, s, n)
    BY <1>3 DEF ClientReceive
  <2>3. \A x \in up' : x.addr \in Addr
    BY <2>1, <2>2, ClientFlushSends DEF TableInv
  <2> QED BY <2>2, <2>3, ClientSteps DEF DownInv
<1>4. ASSUME NEW d \in up, NEW flushed \in BOOLEAN, Serve(d, flushed)
      PROVE  TableInv' /\ DownInv'
  BY <1>4, ServeWaitsStep, ServeMessageStep, ReadFailsStep, ServeDown
     DEF Serve, ServeError, ServePending
<1>5. CASE UNCHANGED vars
  BY <1>5 DEF vars, TableInv, DownInv
<1> QED BY <1>1, <1>2, <1>3, <1>4, <1>5 DEF Next

\* The table, the control blocks in it and what was read through them stay in
\* step: the inductive invariant holds of every reachable state.
THEOREM TableCorrect == Spec => []TableInv
<1>1. Init => TableInv /\ DownInv
  BY InitTable
<1>2. TableInv /\ DownInv /\ [Next]_vars => (TableInv /\ DownInv)'
  BY NextTable
<1> QED BY <1>1, <1>2, PTL DEF Spec

\* What is read from a connection is the messages of its own conversation, from
\* the first on, none missing and none twice, whatever datagrams of an earlier
\* conversation arrive and whenever streams are dropped (accept and drop_stream
\* of src/kcp/mod.rs).
THEOREM ConversationsKeptApart == Spec => []ConversationsApart
<1>1. TableInv => ConversationsApart
  <2>1. SUFFICES ASSUME TableInv, NEW a \in DOMAIN connections,
                        NEW i \in 1..Len(log[a])
                 PROVE  log[a][i].conv = connections[a].conv /\ log[a][i].sn = i - 1
    BY DEF ConversationsApart
  <2>2. PICK S : Follows(connections[a], log[a], S)
    BY <2>1 DEF TableInv
  <2> QED BY <2>1, <2>2 DEF Follows, Numbered
<1> QED BY <1>1, TableCorrect, PTL

\* No control block stays in the table from which nothing has been read: a
\* conversation that begins in the middle is dropped with its first read, for
\* any clients and messages (accept, and the loop of examples/kcp_l.rs).
THEOREM AllServed == Spec => []EachServed
<1>1. TableInv => EachServed
  <2>1. SUFFICES ASSUME TableInv, NEW a \in DOMAIN connections
                 PROVE  log[a] # <<>> /\ log[a][1].sn = 0
    BY DEF EachServed
  <2>2. PICK S : Follows(connections[a], log[a], S)
    BY <2>1 DEF TableInv
  <2>3. log[a] # <<>> /\ log[a] \in Seq(S)
    BY <2>1, <2>2 DEF TableInv, Follows
  <2>4. 1 \in 1..Len(log[a])
    BY <2>3
  <2> QED BY <2>2, <2>3, <2>4 DEF Follows, Numbered
<1> QED BY <1>1, TableCorrect, PTL
----------------------------------------------------------------------------
(***************************************************************************)
(* Nothing is lost but with a stream that is dropped.                      *)
(***************************************************************************)

\* A finite set of naturals can be put in order.
LEMMA OrderExists ==
  ASSUME NEW S \in SUBSET Nat, IsFiniteSet(S)
  PROVE  \E order \in [1..Cardinality(S) -> S] :
           \A i, j \in DOMAIN order : i < j => order[i] < order[j]
<1> DEFINE Ordered(T) ==
             \E order \in [1..Cardinality(T) -> T] :
               \A i, j \in DOMAIN order : i < j => order[i] < order[j]
           Bad == {k \in Nat : \E T \in SUBSET Nat :
                     IsFiniteSet(T) /\ Cardinality(T) = k /\ ~ Ordered(T)}
<1>1. ASSUME Bad # {} PROVE FALSE
  <2>1. Min(Bad) \in Bad /\ \A k \in Bad : Min(Bad) <= k
    BY <1>1, MinFacts
  <2> DEFINE k == Min(Bad)
  <2>2. PICK T \in SUBSET Nat : IsFiniteSet(T) /\ Cardinality(T) = k /\ ~ Ordered(T)
    BY <2>1
  <2>3. k \in Nat /\ \A j \in Bad : k <= j
    BY <2>1
  <2> HIDE DEF k
  <2>4. CASE k = 0
    <3>1. T = {} /\ Cardinality(T) = 0
      BY <2>2, <2>4, FS_EmptySet
    <3>2. [i \in 1..0 |-> 0] \in [1..0 -> {}] /\ 1..0 = {}
      OBVIOUS
    <3>3. Ordered(T)
      BY <3>1, <3>2
    <3> QED BY <2>2, <3>3
  <2>5. CASE k # 0
    <3>1. T # {}
      BY <2>2, <2>5, FS_EmptySet
    <3> DEFINE x == Min(T)
               U == T \ {x}
    <3>2. x \in T /\ \A n \in T : x <= n
      BY <3>1, MinFacts
    <3>3. IsFiniteSet(U) /\ Cardinality(U) = k - 1 /\ U \in SUBSET Nat
      <4> HIDE DEF x
      <4> QED BY <2>2, <3>2, FS_RemoveElement
    <3>4. Ordered(U)
      <4>1. k - 1 \notin Bad /\ k - 1 \in Nat
        <5> HIDE DEF Bad
        <5> QED BY <2>3, <2>5
      <4> HIDE DEF U, Ordered
      <4> QED BY <3>3, <4>1
    <3>5. PICK order \in [1..(k - 1) -> U] :
            \A i, j \in DOMAIN order : i < j => order[i] < order[j]
      BY <3>3, <3>4
    <3> DEFINE more == [i \in 1..k |-> IF i = 1 THEN x ELSE order[i - 1]]
    <3> HIDE DEF x
    <3>6. \A i \in 1..k : more[i] \in T /\ (i # 1 => more[i] \in U)
      BY <2>3, <3>2, <3>5
    <3>7. \A n \in U : x < n
      BY <2>2, <3>2
    <3>8. ASSUME NEW i \in 1..k, NEW j \in 1..k, i < j PROVE more[i] < more[j]
      <4>1. CASE i = 1
        <5>1. j # 1 /\ more[i] = x
          BY <3>8, <4>1
        <5> HIDE DEF more
        <5> QED BY <3>6, <3>7, <5>1
      <4>2. CASE i # 1
        <5>1. i - 1 \in 1..(k - 1) /\ j - 1 \in 1..(k - 1) /\ i - 1 < j - 1 /\ j # 1
          BY <2>3, <3>8, <4>2
        <5>2. more[i] = order[i - 1] /\ more[j] = order[j - 1]
          BY <4>2, <5>1
        <5> HIDE DEF more
        <5> QED BY <3>5, <5>1, <5>2
      <4> QED BY <4>1, <4>2
    <3>9. more \in [1..k -> T] /\ DOMAIN more = 1..k
      BY <3>6
    <3> HIDE DEF more
    <3>10. Ordered(T)
      BY <2>2, <3>8, <3>9
    <3> QED BY <2>2, <3>10
  <2> QED BY <2>4, <2>5
<1>2. Cardinality(S) \in Nat
  BY FS_CardinalityType
<1> HIDE DEF Ordered
<1>3. Ordered(S)
  BY <1>1, <1>2
<1> QED BY <1>3 DEF Ordered

LEMMA AscendingFacts ==
  ASSUME NEW S \in SUBSET Nat, IsFiniteSet(S)
  PROVE  /\ Cardinality(S) \in Nat
         /\ \A i \in 1..Cardinality(S) : Ascending(S)[i] \in S
<1>1. Ascending(S) \in [1..Cardinality(S) -> S]
  BY OrderExists DEF Ascending
<1> QED BY <1>1, FS_CardinalityType

\* The segments that flush makes.
LEMMA AckSegsFacts ==
  ASSUME NEW S \in SUBSET Nat, IsFiniteSet(S)
  PROVE  AckSegs(S) \in Seq([cmd : {"ACK"}, sn : S, size : {0}])
<1> DEFINE T == [cmd : {"ACK"}, sn : S, size : {0}]
<1>1. AckSegs(S) \in [1..Cardinality(S) -> T]
  BY AscendingFacts DEF AckSegs
<1> HIDE DEF T
<1>2. AckSegs(S) \in Seq(T)
  BY <1>1, AscendingFacts, SeqDef
<1> QED BY <1>2 DEF T

LEMMA PushesFacts ==
  ASSUME NEW S \in SUBSET Nat, IsFiniteSet(S), NEW sizes, NEW Z,
         \A n \in S : sizes[n] \in Z
  PROVE  Pushes(sizes, S) \in Seq([cmd : {"PUSH"}, sn : S, size : Z])
<1> DEFINE T == [cmd : {"PUSH"}, sn : S, size : Z]
<1>1. Pushes(sizes, S) \in [1..Cardinality(S) -> T]
  BY AscendingFacts DEF Pushes
<1> HIDE DEF T
<1>2. Pushes(sizes, S) \in Seq(T)
  BY <1>1, AscendingFacts, SeqDef
<1> QED BY <1>2 DEF T

\* Where flush begins its datagrams is determined, segment by segment.
LEMMA CutsExist ==
  ASSUME NEW segs, NEW n \in Nat
  PROVE  \E cuts \in SUBSET (2..n) :
           \A i \in 2..n :
             i \in cuts <=>
               Header + segs[i].size <= Bytes(SubSeq(segs, Start(cuts, i - 1), i - 1))
<1> DEFINE Test(cuts, i) ==
             Header + segs[i].size <= Bytes(SubSeq(segs, Start(cuts, i - 1), i - 1))
           Cut(k) == \E cuts \in SUBSET (2..k) :
                       \A i \in 2..k : i \in cuts <=> Test(cuts, i)
           Bad == {k \in Nat : ~ Cut(k)}
<1>1. ASSUME Bad # {} PROVE FALSE
  <2> DEFINE k == Min(Bad)
  <2>1. k \in Bad /\ \A j \in Bad : k <= j
    <3> HIDE DEF Cut
    <3> QED BY <1>1, MinFacts
  <2>2. k \in Nat /\ ~ Cut(k)
    BY <2>1
  <2> HIDE DEF k
  <2>3. CASE k < 2
    <3>1. 2..k = {}
      BY <2>2, <2>3
    <3> HIDE DEF Test
    <3> QED BY <2>2, <3>1
  <2>4. CASE k >= 2
    <3>1. k - 1 \in Nat /\ k - 1 \notin Bad
      <4> HIDE DEF Bad
      <4> QED BY <2>1, <2>2, <2>4
    <3>2. Cut(k - 1)
      <4> HIDE DEF Cut
      <4> QED BY <3>1
    <3>3. PICK cuts \in SUBSET (2..(k - 1)) :
            \A i \in 2..(k - 1) : i \in cuts <=> Test(cuts, i)
      BY <3>2
    <3> DEFINE more == IF Test(cuts, k) THEN cuts \cup {k} ELSE cuts
    <3>4. more \in SUBSET (2..k) /\ k \notin cuts
      BY <2>2, <2>4
    <3>5. \A i \in 2..k : Test(more, i) <=> Test(cuts, i)
      <4>1. ASSUME NEW i \in 2..k PROVE Start(more, i - 1) = Start(cuts, i - 1)
        <5>1. {c \in more : c <= i - 1} = {c \in cuts : c <= i - 1}
          <6>1. ~ (k <= i - 1)
            BY <2>2, <4>1
          <6> HIDE DEF Test
          <6> QED BY <6>1
        <5> QED BY <5>1 DEF Start
      <4> HIDE DEF more
      <4> QED BY <4>1
    <3> HIDE DEF Test
    <3>6. \A i \in 2..k : i \in more <=> Test(cuts, i)
      <4>1. ASSUME NEW i \in 2..k PROVE i \in more <=> Test(cuts, i)
        <5>1. CASE i = k
          BY <3>4, <5>1
        <5>2. CASE i # k
          <6>1. i \in 2..(k - 1)
            BY <2>2, <5>2
          <6> QED BY <3>3, <5>2, <6>1
        <5> QED BY <5>1, <5>2
      <4> QED BY <4>1
    <3> HIDE DEF more
    <3>7. Cut(k)
      BY <3>4, <3>5, <3>6
    <3> HIDE DEF Cut
    <3> QED BY <2>2, <3>7
  <2> QED BY <2>2, <2>3, <2>4
<1>2. Cut(n)
  <2> HIDE DEF Cut
  <2> QED BY <1>1
<1> QED BY <1>2

\* A datagram has the segments it is made of, and no other.
LEMMA DatagramsFacts ==
  ASSUME NEW T, NEW segs \in Seq(T), NEW out \in Datagrams(segs)
  PROVE  out \in Seq(T)
<1> DEFINE n == Len(segs)
           cuts == CHOOSE cuts \in SUBSET (2..Len(segs)) : CutsOf(segs, cuts)
           to(c) == Min({Len(segs) + 1} \cup {e \in cuts : e > c}) - 1
<1>1. n \in Nat
  OBVIOUS
<1>2. \E c \in SUBSET (2..n) : CutsOf(segs, c)
  BY <1>1, CutsExist DEF CutsOf
<1>3. cuts \in SUBSET (2..n)
  BY <1>2
<1>4. segs # <<>> /\ \E c \in {1} \cup cuts : out = SubSeq(segs, c, to(c))
  BY DEF Datagrams
<1> HIDE DEF cuts
<1>5. PICK c \in {1} \cup cuts : out = SubSeq(segs, c, to(c))
  BY <1>4
<1>6. c \in 1..n
  BY <1>1, <1>3, <1>4
<1>7. to(c) \in c..n
  <2> DEFINE E == {n + 1} \cup {e \in cuts : e > c}
  <2>1. E \in SUBSET Nat /\ E # {} /\ n + 1 \in E
    <3>1. cuts \subseteq Nat /\ n + 1 \in Nat
      BY <1>1, <1>3
    <3> HIDE DEF n
    <3> QED BY <3>1
  <2>2. Min(E) \in E /\ Min(E) <= n + 1
    BY <2>1, MinFacts
  <2>3. \A e \in E : e > c /\ e \in Nat
    BY <1>1, <1>3, <1>6
  <2>4. to(c) = Min(E) - 1
    OBVIOUS
  <2> HIDE DEF E, to
  <2> QED BY <1>1, <1>6, <2>2, <2>3, <2>4
<1> HIDE DEF to, n
<1>8. SubSeq(segs, c, to(c)) \in Seq(T)
  BY <1>1, <1>6, <1>7, SubSeqProperties DEF n
<1> QED BY <1>5, <1>8

(***************************************************************************)
(* The second inductive invariant.                                         *)
(***************************************************************************)

\* What a client puts into its datagrams.
Piece == [cmd : {"PUSH"}, sn : Number, size : Sizes]
           \cup [cmd : {"ACK"}, sn : Number, size : {0}]

\* The messages of conversation c at a.
From(a, c) == {m \in Message : m.addr = a /\ m.conv = c}

Holds(kcb) == Range(kcb.rcv_buf) \cup Range(kcb.rcv_queue)

\* A control block at a has its type, and holds messages of its own
\* conversation, each under its number.
BlockOk(kcb, a) ==
  /\ Fields(kcb)
  /\ kcb.conv \in Conv
  /\ kcb.rcv_nxt \in 0..128
  /\ DOMAIN kcb.rcv_buf \subseteq kcb.rcv_nxt + 1 .. 127
  /\ \A n \in DOMAIN kcb.rcv_buf :
       kcb.rcv_buf[n] \in From(a, kcb.conv) /\ kcb.rcv_buf[n].sn = n
  /\ kcb.rcv_queue \in Seq(From(a, kcb.conv))
  /\ kcb.acklist \subseteq Number

UpOk(d) == d.addr \in Addr /\ d.conv \in Conv /\ d.segs \in Seq(Piece)

\* A sequence has, and has only, the elements of its parts.
LEMMA ConcatRange ==
  ASSUME NEW T, NEW q \in Seq(T), NEW r \in Seq(T)
  PROVE  Range(q) \subseteq Range(q \o r) /\ Range(r) \subseteq Range(q \o r)
<1>1. ASSUME NEW i \in 1..Len(q) PROVE i \in 1..Len(q \o r) /\ (q \o r)[i] = q[i]
  OBVIOUS
<1>2. ASSUME NEW i \in 1..Len(r)
      PROVE  Len(q) + i \in 1..Len(q \o r) /\ (q \o r)[Len(q) + i] = r[i]
  OBVIOUS
<1>3. DOMAIN q = 1..Len(q) /\ DOMAIN r = 1..Len(r) /\ DOMAIN (q \o r) = 1..Len(q \o r)
  OBVIOUS
<1> QED BY <1>1, <1>2, <1>3 DEF Range

\* input keeps what the control block holds, and what it moves rcv_nxt past or
\* acknowledges it holds, or held before.
LEMMA InputBlock ==
  ASSUME NEW a \in Addr, NEW kcb, BlockOk(kcb, a), NEW d, UpOk(d), d.addr = a
  PROVE  LET after == Input(kcb, d)
         IN  /\ BlockOk(after, a)
             /\ after.conv = kcb.conv
             /\ Holds(kcb) \subseteq Holds(after)
             /\ \A n \in 0..(after.rcv_nxt - 1) :
                  n < kcb.rcv_nxt \/ \E m \in Holds(after) \cap From(a, kcb.conv) : m.sn = n
             /\ \A n \in after.acklist :
                  \/ n \in kcb.acklist \/ n < kcb.rcv_nxt
                  \/ \E m \in Holds(after) \cap From(a, kcb.conv) : m.sn = n
<1> DEFINE c == kcb.conv
           r == kcb.rcv_nxt
           window == r..(r + RcvWnd - 1)
           new == (Taken(kcb, d.segs) \cap window) \ DOMAIN kcb.rcv_buf
           size(n) == (CHOOSE s \in Range(d.segs) : s.cmd = "PUSH" /\ s.sn = n).size
           buf == [n \in DOMAIN kcb.rcv_buf \cup new |->
                     IF n \in new
                     THEN [addr |-> d.addr, conv |-> d.conv, sn |-> n, size |-> size(n)]
                     ELSE kcb.rcv_buf[n]]
           nxt == NextMissing(r, DOMAIN buf)
           moved == [i \in 1..(nxt - r) |-> buf[r + i - 1]]
           after == [conv |-> c,
                     rcv_nxt |-> nxt,
                     rcv_buf |-> Remaining(buf, nxt),
                     rcv_queue |-> kcb.rcv_queue \o moved,
                     acklist |-> kcb.acklist \cup Acked(kcb, d.segs)]
<1>1. CASE ~ OfConversation(kcb.conv, d)
  <2>1. Input(kcb, d) = kcb
    BY <1>1 DEF Input
  <2>2. r \in 0..128
    BY DEF BlockOk
  <2> QED BY <2>1, <2>2
<1>2. CASE OfConversation(kcb.conv, d)
  <2>1. Input(kcb, d) = after
    BY <1>2 DEF Input
  <2>2. d.conv = c
    BY <1>2 DEF OfConversation
  <2>3. /\ r \in 0..128 /\ DOMAIN kcb.rcv_buf \subseteq r + 1 .. 127
        /\ \A n \in DOMAIN kcb.rcv_buf :
             kcb.rcv_buf[n] \in From(a, c) /\ kcb.rcv_buf[n].sn = n
        /\ kcb.rcv_queue \in Seq(From(a, c)) /\ kcb.acklist \subseteq Number /\ c \in Conv
    BY DEF BlockOk
  <2> HIDE DEF r, c
  <2>4. ASSUME NEW n \in Taken(kcb, d.segs) PROVE n \in Number /\ size(n) \in Sizes
    <3>1. PICK i \in 1..Len(d.segs) : d.segs[i].cmd = "PUSH" /\ d.segs[i].sn = n
      BY DEF Taken
    <3>2. /\ d.segs \in Seq(Piece)
          /\ \A x \in Range(d.segs) : x \in Piece
          /\ d.segs[i] \in Range(d.segs)
      BY <3>1 DEF UpOk, Range
    <3>3. \E x \in Range(d.segs) : x.cmd = "PUSH" /\ x.sn = n
      BY <3>1, <3>2
    <3> DEFINE s == CHOOSE x \in Range(d.segs) : x.cmd = "PUSH" /\ x.sn = n
    <3>4. s \in Range(d.segs) /\ s.cmd = "PUSH" /\ s.sn = n
      BY <3>3
    <3>5. size(n) = s.size
      OBVIOUS
    <3> HIDE DEF s
    <3>6. s \in [cmd : {"PUSH"}, sn : Number, size : Sizes]
      BY <3>2, <3>4 DEF Piece
    <3> QED BY <3>4, <3>5, <3>6
  <2>5. new \subseteq r..127 /\ new \subseteq Number
    <3>1. ASSUME NEW n \in new PROVE n \in r..127 /\ n \in Number
      <4>1. n \in Number /\ n \in window
        BY <2>4
      <4>2. n \in 0..127
        BY <4>1 DEF Number, RcvWnd
      <4> HIDE DEF new
      <4> QED BY <2>3, <4>1, <4>2
    <3> QED BY <3>1
  <2>6. ASSUME NEW n \in DOMAIN buf
        PROVE  n \in r..127 /\ buf[n] \in From(a, c) /\ buf[n].sn = n
    <3>1. CASE n \in new
      <4>1. buf[n] = [addr |-> a, conv |-> c, sn |-> n, size |-> size(n)]
        BY <2>2, <3>1
      <4>2. n \in Number /\ size(n) \in Sizes
        BY <2>4, <3>1
      <4> HIDE DEF new, size, buf
      <4>3. buf[n] \in Message /\ buf[n].addr = a /\ buf[n].conv = c /\ buf[n].sn = n
        BY <2>3, <4>1, <4>2 DEF Message
      <4> QED BY <2>5, <3>1, <4>3 DEF From
    <3>2. CASE n \notin new
      <4>1. n \in DOMAIN kcb.rcv_buf /\ buf[n] = kcb.rcv_buf[n]
        BY <3>2
      <4> HIDE DEF new, buf
      <4> QED BY <2>3, <4>1
    <3> QED BY <3>1, <3>2
  <2>7. DOMAIN buf = DOMAIN kcb.rcv_buf \cup new
        /\ \A n \in DOMAIN kcb.rcv_buf : buf[n] = kcb.rcv_buf[n]
    OBVIOUS
  <2> HIDE DEF buf, new
  <2>8. IsFiniteSet(DOMAIN buf)
    <3>1. DOMAIN buf \in SUBSET (0..127)
      <4>1. r \in 0..128
        BY <2>3
      <4>2. r..127 \subseteq 0..127
        BY <4>1
      <4> QED BY <2>6, <4>2
    <3>2. IsFiniteSet(0..127)
      <4> DEFINE low == 0
                 high == 127
      <4>1. low \in Int /\ high \in Int
        OBVIOUS
      <4> HIDE DEF low, high
      <4>2. IsFiniteSet(low..high)
        BY <4>1, FS_Interval
      <4> QED BY <4>2 DEF low, high
    <3> QED BY <3>1, <3>2, FS_Subset
  <2>9. /\ nxt \in Nat /\ nxt >= r /\ nxt \notin DOMAIN buf
        /\ \A n \in r..(nxt - 1) : n \in DOMAIN buf
    <3>1. r \in Nat
      BY <2>3
    <3> QED BY <2>8, <3>1, NextMissingFacts
  <2> HIDE DEF nxt
  <2>10. nxt \in 0..128
    <3>1. nxt > r => nxt - 1 \in DOMAIN buf
      BY <2>3, <2>9
    <3>2. nxt > r => nxt - 1 <= 127
      BY <2>6, <3>1
    <3> QED BY <2>3, <2>9, <3>2
  <2> DEFINE k == nxt - r
  <2>11. k \in Nat
    BY <2>3, <2>9
  <2>12. \A i \in 1..k : r + i - 1 \in DOMAIN buf /\ moved[i] = buf[r + i - 1]
    BY <2>3, <2>9
  <2>13. moved \in Seq(From(a, c))
    <3>1. moved \in [1..k -> From(a, c)]
      BY <2>6, <2>12
    <3> HIDE DEF moved, k
    <3> QED BY <2>11, <3>1, SeqDef
  <2> DEFINE rest == Remaining(buf, nxt)
             q == kcb.rcv_queue \o moved
  <2>14. DOMAIN rest = {n \in DOMAIN buf : n > nxt} /\ \A n \in DOMAIN rest : rest[n] = buf[n]
    BY DEF Remaining
  <2>15. /\ DOMAIN rest \subseteq nxt + 1 .. 127
         /\ \A n \in DOMAIN rest : rest[n] \in From(a, c) /\ rest[n].sn = n
    <3> HIDE DEF rest
    <3> QED BY <2>3, <2>6, <2>10, <2>14
  <2>16. q \in Seq(From(a, c)) /\ Range(kcb.rcv_queue) \subseteq Range(q)
         /\ Range(moved) \subseteq Range(q)
    <3> HIDE DEF moved
    <3> QED BY <2>3, <2>13, ConcatRange, ConcatProperties
  <2>17. DOMAIN moved = 1..k
    OBVIOUS
  <2>18. ASSUME NEW n \in DOMAIN buf PROVE buf[n] \in Range(rest) \cup Range(q)
    <3>1. n \in r..127 /\ n # nxt
      BY <2>6, <2>9
    <3>2. CASE n > nxt
      <4> HIDE DEF rest
      <4> QED BY <2>14, <3>2 DEF Range
    <3>3. CASE n < nxt
      <4>1. n - r + 1 \in 1..k /\ r + (n - r + 1) - 1 = n
        BY <2>3, <2>9, <3>1, <3>3
      <4>2. moved[n - r + 1] = buf[n]
        BY <2>12, <4>1
      <4> HIDE DEF moved, k, q
      <4> QED BY <2>16, <2>17, <4>1, <4>2 DEF Range
    <3> QED BY <2>3, <2>9, <3>1, <3>2, <3>3
  <2>19. Acked(kcb, d.segs) \subseteq Number
    BY <2>4 DEF Acked
  <2>20. /\ Fields(after) /\ after.conv = c /\ after.rcv_nxt = nxt
         /\ after.rcv_buf = rest /\ after.rcv_queue = q
         /\ after.acklist = kcb.acklist \cup Acked(kcb, d.segs)
    BY DEF Fields
  <2> HIDE DEF after, rest, q, moved
  <2>21. BlockOk(after, a)
    BY <2>3, <2>10, <2>15, <2>16, <2>19, <2>20 DEF BlockOk
  <2>22. Holds(kcb) \subseteq Holds(after)
    <3>1. Range(kcb.rcv_buf) \subseteq Range(rest) \cup Range(q)
      BY <2>7, <2>18 DEF Range
    <3> QED BY <2>16, <2>20, <3>1 DEF Holds
  <2>23. \A n \in DOMAIN buf :
           buf[n] \in Holds(after) \cap From(a, c) /\ buf[n].sn = n
    BY <2>6, <2>18, <2>20 DEF Holds
  <2>24. ASSUME NEW n \in 0..(nxt - 1), ~ (n < r)
         PROVE  \E m \in Holds(after) \cap From(a, c) : m.sn = n
    <3>1. n \in DOMAIN buf
      <4>1. r \in 0..128 /\ nxt \in Nat
        BY <2>3, <2>9
      <4>2. n \in 0..(nxt - 1) /\ ~ (n < r)
        BY <2>24
      <4>3. n \in r..(nxt - 1)
        BY <4>1, <4>2
      <4> QED BY <2>9, <4>3
    <3> QED BY <2>23, <3>1
  <2>25. ASSUME NEW n \in Acked(kcb, d.segs), ~ (n < r)
         PROVE  \E m \in Holds(after) \cap From(a, c) : m.sn = n
    <3>1. n \in Taken(kcb, d.segs) /\ n \in Number
      BY <2>19 DEF Acked
    <3>2. n \in window
      <4>1. n \in 0..127
        BY <3>1 DEF Number, RcvWnd
      <4> QED BY <2>3, <2>25, <4>1 DEF RcvWnd
    <3>3. n \in DOMAIN buf
      BY <2>7, <3>1, <3>2 DEF new
    <3> QED BY <2>23, <3>3
  <2> QED BY <2>1, <2>20, <2>21, <2>22, <2>24, <2>25 DEF r, c
<1> QED BY <1>1, <1>2

\* A message that is read, or thrown away with its stream, or held.
Safe(a, c, n) ==
  \E m \in read \cup lost \cup Held(a) : m.addr = a /\ m.conv = c /\ m.sn = n

ClientOk ==
  /\ conv \in [Addr -> Conv]
  /\ snd_nxt \in [Addr -> 0..128]
  /\ owes \in [Addr -> BOOLEAN]
  /\ snd_buf = [a \in Addr |-> snd_buf[a]]
  /\ \A a \in Addr : \A n \in DOMAIN snd_buf[a] :
       n \in 0..(snd_nxt[a] - 1) /\ snd_buf[a][n] \in Sizes

\* All that a datagram acknowledges is safe.
DownOk(d) ==
  /\ d.addr \in Addr /\ d.una \in Nat
  /\ \A n \in 0..(d.una - 1) : Safe(d.addr, d.conv, n)
  /\ \A i \in 1..Len(d.segs) :
       d.segs[i].cmd = "ACK" => Safe(d.addr, d.conv, d.segs[i].sn)

\* All that a control block is past, or is to acknowledge, is safe.
TableOk ==
  /\ DOMAIN connections \subseteq Addr
  /\ \A a \in DOMAIN connections :
       LET kcb == connections[a]
       IN  /\ BlockOk(kcb, a)
           /\ \A n \in 0..(kcb.rcv_nxt - 1) \cup kcb.acklist : Safe(a, kcb.conv, n)

LostInv ==
  /\ ClientOk
  /\ \A d \in up : UpOk(d)
  /\ \A d \in down : DownOk(d)
  /\ TableOk
  /\ LostOnlyByDrop

LEMMA LostOnlyByDropSafe ==
  LostOnlyByDrop <=>
    \A a \in Addr : \A n \in 0..(snd_nxt[a] - 1) \ DOMAIN snd_buf[a] : Safe(a, conv[a], n)
BY DEF LostOnlyByDrop, Safe

LEMMA LostInit == Init => LostInv
<1> SUFFICES ASSUME Init PROVE LostInv
  OBVIOUS
<1>1. ClientOk
  <2>1. 1 \in Conv
    BY BoundAssumption DEF Conv
  <2> QED BY <2>1 DEF Init, ClientOk
<1>2. LostOnlyByDrop
  <2>1. \A a \in Addr : snd_nxt[a] = 0
    BY DEF Init
  <2>2. 0..(0 - 1) = {}
    OBVIOUS
  <2> QED BY <2>1, <2>2 DEF LostOnlyByDrop
<1>3. TableOk
  BY DEF Init, TableOk
<1> QED BY <1>1, <1>2, <1>3 DEF Init, LostInv

LEMMA Numbers == Number = 0..127 /\ \A n \in 0..128 : n \in Nat
BY DEF Number, RcvWnd

LEMMA SeqWider ==
  ASSUME NEW S, NEW T, S \subseteq T, NEW s \in Seq(S)
  PROVE  s \in Seq(T)
<1>1. Len(s) \in Nat /\ s \in [1..Len(s) -> S]
  OBVIOUS
<1>2. s \in [1..Len(s) -> T]
  BY <1>1
<1> QED BY <1>1, <1>2, SeqDef

\* What a client sends is well formed.
LEMMA ClientSends ==
  ASSUME ClientOk, \A d \in up : UpOk(d), NEW a \in Addr, NEW owed, NEW sizes,
         NEW numbers \in SUBSET Number, \A n \in numbers : sizes[n] \in Sizes,
         ClientFlush(a, owed, sizes, numbers)
  PROVE  /\ \A d \in up' : UpOk(d)
         /\ owes' \in [Addr -> BOOLEAN]
<1> DEFINE control == IF owed THEN AckSegs({0}) ELSE <<>>
           pushes == Pushes(sizes, numbers)
<1>1. Number \subseteq Nat /\ 0 \in Number
  BY DEF Number, RcvWnd
<1>2. IsFiniteSet(numbers)
  <2>1. \A n \in numbers : n <= 127 /\ n \in Nat
    BY DEF Number, RcvWnd
  <2>2. numbers \in SUBSET Nat /\ 127 \in Nat
    BY <2>1
  <2> QED BY <2>1, <2>2, FS_BoundedSetOfNaturals
<1>3. control \in Seq(Piece)
  <2>1. {0} \in SUBSET Nat /\ IsFiniteSet({0})
    BY FS_Singleton
  <2>2. AckSegs({0}) \in Seq([cmd : {"ACK"}, sn : {0}, size : {0}])
    BY <2>1, AckSegsFacts
  <2>3. [cmd : {"ACK"}, sn : {0}, size : {0}] \subseteq Piece
    BY <1>1 DEF Piece
  <2>4. AckSegs({0}) \in Seq(Piece)
    BY <2>2, <2>3, SeqWider
  <2> QED BY <2>4
<1>4. pushes \in Seq(Piece)
  <2>1. pushes \in Seq([cmd : {"PUSH"}, sn : numbers, size : Sizes])
    BY <1>1, <1>2, PushesFacts
  <2>2. [cmd : {"PUSH"}, sn : numbers, size : Sizes] \subseteq Piece
    BY DEF Piece
  <2> HIDE DEF pushes
  <2> QED BY <2>1, <2>2, SeqWider
<1> HIDE DEF control, pushes
<1>5. \A segs \in Datagrams(control \o pushes) : segs \in Seq(Piece)
  BY <1>3, <1>4, DatagramsFacts, ConcatProperties
<1>6. ASSUME NEW d \in up', d \notin up
      PROVE  UpOk(d)
  <2>1. PICK segs \in Datagrams(control \o pushes) :
          d = [addr |-> a, conv |-> conv[a], segs |-> segs]
    BY <1>6 DEF ClientFlush, control, pushes
  <2> QED BY <1>5, <2>1 DEF UpOk, ClientOk
<1> QED BY <1>6 DEF ClientFlush, ClientOk

\* Only the client's variables and `up' change: what is safe stays safe.
LEMMA SafeKept ==
  ASSUME UNCHANGED <<connections, read, lost>>
  PROVE  \A a, c, n : Safe(a, c, n)' <=> Safe(a, c, n)
<1>1. \A a : Held(a)' = Held(a)
  BY DEF Held
<1> QED BY <1>1 DEF Safe

LEMMA TableKept ==
  ASSUME TableOk, UNCHANGED <<connections, read, lost>>
  PROVE  TableOk'
<1>1. \A a, c, n : Safe(a, c, n)' <=> Safe(a, c, n)
  BY SafeKept
<1>2. connections' = connections
  OBVIOUS
<1> HIDE DEF Safe
<1> QED BY <1>1, <1>2 DEF TableOk, BlockOk

LEMMA DownKept ==
  ASSUME \A d \in down : DownOk(d), down' \subseteq down,
         UNCHANGED <<connections, read, lost>>
  PROVE  (\A d \in down : DownOk(d))'
<1>1. \A a, c, n : Safe(a, c, n)' <=> Safe(a, c, n)
  BY SafeKept
<1> QED BY <1>1 DEF DownOk

LEMMA WriteKeeps ==
  ASSUME LostInv, NEW a \in Addr, NEW size \in Sizes,
         NEW overdue \in SUBSET DOMAIN snd_buf[a], Write(a, size, overdue)
  PROVE  LostInv'
<1> DEFINE n == snd_nxt[a]
           buf == [i \in DOMAIN snd_buf[a] \cup {n} |->
                     IF i = n THEN size ELSE snd_buf[a][i]]
<1>1. /\ n < MaxMsgs[conv[a]]
      /\ snd_nxt' = [snd_nxt EXCEPT ![a] = n + 1]
      /\ snd_buf' = [snd_buf EXCEPT ![a] = buf]
      /\ ClientFlush(a, owes[a], buf, overdue \cup {n})
      /\ UNCHANGED <<conv, connections, down, log, read, lost>>
  BY DEF Write
<1>2. ClientOk /\ \A d \in up : UpOk(d)
  BY DEF LostInv
<1>3. n \in 0..127
  <2>1. conv[a] \in Conv /\ n \in 0..128
    BY <1>2 DEF ClientOk
  <2>2. MaxMsgs[conv[a]] \in 0..128
    BY <2>1, BoundAssumption DEF Conv
  <2> HIDE DEF n
  <2> QED BY <1>1, <2>1, <2>2 DEF n
<1>4. \A i \in DOMAIN snd_buf[a] : i \in 0..(n - 1) /\ snd_buf[a][i] \in Sizes
  BY <1>2 DEF ClientOk
<1>5. \A i \in DOMAIN buf : i \in 0..n /\ buf[i] \in Sizes
  <2> HIDE DEF n
  <2> QED BY <1>3, <1>4
<1>6. overdue \cup {n} \subseteq DOMAIN buf /\ DOMAIN buf = DOMAIN snd_buf[a] \cup {n}
  OBVIOUS
<1>7. overdue \cup {n} \in SUBSET Number
  <2>1. \A i \in DOMAIN buf : i \in 0..127
    <3> HIDE DEF n, buf
    <3> QED BY <1>3, <1>5
  <2> HIDE DEF n, buf
  <2> QED BY <1>6, <2>1 DEF Number, RcvWnd
<1> HIDE DEF buf
<1>8. (\A d \in up : UpOk(d))' /\ owes' \in [Addr -> BOOLEAN]
  BY <1>1, <1>2, <1>5, <1>6, <1>7, ClientSends
<1>9. ClientOk'
  <2>1. snd_nxt' \in [Addr -> 0..128] /\ snd_nxt'[a] = n + 1
    <3>1. n + 1 \in 0..128
      <4> HIDE DEF n
      <4> QED BY <1>3
    <3> HIDE DEF n
    <3> QED BY <1>1, <1>2, <3>1 DEF ClientOk
  <2>2. snd_buf' = [b \in Addr |-> snd_buf'[b]] /\ snd_buf'[a] = buf
        /\ \A b \in Addr \ {a} : snd_buf'[b] = snd_buf[b] /\ snd_nxt'[b] = snd_nxt[b]
    BY <1>1, <1>2 DEF ClientOk
  <2>3. ASSUME NEW b \in Addr, NEW i \in DOMAIN snd_buf'[b]
        PROVE  i \in 0..(snd_nxt'[b] - 1) /\ snd_buf'[b][i] \in Sizes
    <3>1. CASE b = a
      <4>1. 0..n = 0..((n + 1) - 1)
        <5> HIDE DEF n
        <5> QED BY <1>3
      <4> HIDE DEF n
      <4> QED BY <1>5, <2>1, <2>2, <2>3, <3>1, <4>1
    <3>2. CASE b # a
      BY <1>2, <2>2, <2>3, <3>2 DEF ClientOk
    <3> QED BY <3>1, <3>2
  <2> QED BY <1>1, <1>2, <1>8, <2>1, <2>2, <2>3 DEF ClientOk
<1>10. (\A d \in down : DownOk(d))' /\ TableOk'
  BY <1>1, DownKept, TableKept DEF LostInv
<1>11. LostOnlyByDrop'
  <2>1. \A b, c, i : Safe(b, c, i)' <=> Safe(b, c, i)
    BY <1>1, SafeKept
  <2>2. ASSUME NEW b \in Addr, NEW i \in (0..(snd_nxt'[b] - 1)) \ DOMAIN snd_buf'[b]
        PROVE  Safe(b, conv[b], i)
    <3>1. i \in 0..(snd_nxt[b] - 1) /\ i \notin DOMAIN snd_buf[b]
      <4>1. CASE b = a
        <5>1. snd_nxt'[b] = n + 1 /\ snd_buf'[b] = buf /\ snd_nxt[b] = n
          BY <1>1, <1>2, <4>1 DEF ClientOk
        <5> HIDE DEF n
        <5> QED BY <1>3, <1>6, <2>2, <4>1, <5>1
      <4>2. CASE b # a
        <5>1. snd_nxt'[b] = snd_nxt[b] /\ snd_buf'[b] = snd_buf[b]
          BY <1>1, <1>2, <4>2 DEF ClientOk
        <5> QED BY <2>2, <5>1
      <4> QED BY <4>1, <4>2
    <3> QED BY <3>1, LostOnlyByDropSafe DEF LostInv
  <2>3. (\A b \in Addr : \A i \in 0..(snd_nxt[b] - 1) \ DOMAIN snd_buf[b] : Safe(b, conv[b], i))'
    BY <1>1, <2>1, <2>2
  <2> QED BY <2>3 DEF LostOnlyByDrop, Safe
<1> QED BY <1>8, <1>9, <1>10, <1>11 DEF LostInv

LEMMA RestartKeeps ==
  ASSUME LostInv, NEW a \in Addr, Restart(a)
  PROVE  LostInv'
<1>1. /\ conv[a] < MaxConv
      /\ conv' = [conv EXCEPT ![a] = conv[a] + 1]
      /\ snd_nxt' = [snd_nxt EXCEPT ![a] = 0]
      /\ snd_buf' = [snd_buf EXCEPT ![a] = <<>>]
      /\ owes' = [owes EXCEPT ![a] = FALSE]
      /\ UNCHANGED <<connections, up, down, log, read, lost>>
  BY DEF Restart
<1>2. ClientOk
  BY DEF LostInv
<1>3. ClientOk'
  <2>1. conv[a] + 1 \in Conv
    BY <1>1, <1>2, BoundAssumption DEF ClientOk, Conv
  <2>2. DOMAIN <<>> = {}
    OBVIOUS
  <2>3. /\ conv' \in [Addr -> Conv] /\ snd_nxt' \in [Addr -> 0..128]
        /\ owes' \in [Addr -> BOOLEAN]
        /\ snd_buf' = [b \in Addr |-> snd_buf'[b]] /\ snd_buf'[a] = <<>>
        /\ \A b \in Addr \ {a} : snd_buf'[b] = snd_buf[b] /\ snd_nxt'[b] = snd_nxt[b]
    <3>1. conv' \in [Addr -> Conv]
      BY <1>1, <1>2, <2>1 DEF ClientOk
    <3>2. snd_nxt' \in [Addr -> 0..128]
          /\ \A b \in Addr \ {a} : snd_nxt'[b] = snd_nxt[b]
      <4>1. 0 \in 0..128
        OBVIOUS
      <4> QED BY <1>1, <1>2, <4>1 DEF ClientOk
    <3>3. owes' \in [Addr -> BOOLEAN]
      BY <1>1, <1>2 DEF ClientOk
    <3>4. /\ snd_buf' = [b \in Addr |-> snd_buf'[b]] /\ snd_buf'[a] = <<>>
          /\ \A b \in Addr \ {a} : snd_buf'[b] = snd_buf[b]
      BY <1>1, <1>2 DEF ClientOk
    <3> QED BY <3>1, <3>2, <3>3, <3>4
  <2>4. ASSUME NEW b \in Addr, NEW n \in DOMAIN snd_buf'[b]
        PROVE  n \in 0..(snd_nxt'[b] - 1) /\ snd_buf'[b][n] \in Sizes
    BY <1>2, <2>2, <2>3, <2>4 DEF ClientOk
  <2> QED BY <2>3, <2>4 DEF ClientOk
<1>4. (\A d \in down : DownOk(d))' /\ TableOk'
  BY <1>1, DownKept, TableKept DEF LostInv
<1>5. (\A d \in up : UpOk(d))'
  BY <1>1 DEF LostInv, UpOk
<1>6. LostOnlyByDrop'
  <2>1. ASSUME NEW b \in Addr, NEW i \in (0..(snd_nxt'[b] - 1)) \ DOMAIN snd_buf'[b]
        PROVE  Safe(b, conv'[b], i)
    <3>1. CASE b = a
      <4>1. snd_nxt'[b] = 0
        BY <1>1, <1>2, <3>1 DEF ClientOk
      <4>2. 0..(0 - 1) = {}
        OBVIOUS
      <4> QED BY <2>1, <4>1, <4>2
    <3>2. CASE b # a
      <4>1. snd_nxt'[b] = snd_nxt[b] /\ snd_buf'[b] = snd_buf[b] /\ conv'[b] = conv[b]
        BY <1>1, <1>2, <3>2 DEF ClientOk
      <4> QED BY <2>1, <4>1, LostOnlyByDropSafe DEF LostInv
    <3> QED BY <3>1, <3>2
  <2>2. \A b, c, i : Safe(b, c, i)' <=> Safe(b, c, i)
    BY <1>1, SafeKept
  <2>3. (\A b \in Addr : \A i \in 0..(snd_nxt[b] - 1) \ DOMAIN snd_buf[b] : Safe(b, conv[b], i))'
    BY <2>1, <2>2
  <2> QED BY <2>3 DEF LostOnlyByDrop, Safe
<1> QED BY <1>3, <1>4, <1>5, <1>6 DEF LostInv

\* What the client takes out of snd_buf has been acknowledged, and is safe.
LEMMA ReceiveKeeps ==
  ASSUME LostInv, NEW d \in down, NEW flushed \in BOOLEAN,
         NEW overdue \in SUBSET DOMAIN snd_buf[d.addr],
         ClientReceive(d, flushed, overdue)
  PROVE  LostInv'
<1> DEFINE a == d.addr
           mine == d.conv = conv[a]
           acked == {s.sn : s \in {d.segs[i] : i \in {i \in 1..Len(d.segs) :
                                            d.segs[i].cmd = "ACK"}}}
           left == {n \in DOMAIN snd_buf[a] : mine => n >= d.una /\ n \notin acked}
           buf == [n \in left |-> snd_buf[a][n]]
           owed == owes[a] \/ (mine /\ \E i \in 1..Len(d.segs) :
                                        d.segs[i].cmd = "PUSH" /\ Whole(d.segs, i))
<1>1. /\ down' = down \ {d}
      /\ UNCHANGED <<conv, snd_nxt, connections, log, read, lost>>
      /\ snd_buf' = [snd_buf EXCEPT ![a] = buf]
      /\ \/ overdue \subseteq left /\ ClientFlush(a, owed, buf, overdue)
         \/ up' = up /\ owes' = [owes EXCEPT ![a] = owed]
  BY DEF ClientReceive, OfConversation
<1>2. ClientOk /\ DownOk(d) /\ a \in Addr /\ \A x \in up : UpOk(x)
  BY DEF LostInv, DownOk
<1>3. (\A x \in down : DownOk(x))' /\ TableOk'
  BY <1>1, DownKept, TableKept DEF LostInv
<1>4. \A b, c, i : Safe(b, c, i)' <=> Safe(b, c, i)
  BY <1>1, SafeKept
<1>5. left \subseteq DOMAIN snd_buf[a] /\ owed \in BOOLEAN
  BY <1>2 DEF ClientOk
<1>6. DOMAIN buf = left /\ \A n \in left : buf[n] = snd_buf[a][n]
  OBVIOUS
<1>7. ASSUME NEW n \in DOMAIN snd_buf[a], n \notin left PROVE mine /\ Safe(a, d.conv, n)
  <2>1. n \in Nat
    BY <1>2 DEF ClientOk
  <2>2. mine /\ (~ (n >= d.una) \/ n \in acked)
    BY <1>7
  <2>3. CASE n \in acked
    <3>1. PICK i \in 1..Len(d.segs) : d.segs[i].cmd = "ACK" /\ n = d.segs[i].sn
      BY <2>3
    <3> QED BY <1>2, <2>2, <3>1 DEF DownOk
  <2>4. CASE ~ (n >= d.una)
    <3> HIDE DEF left, acked, mine
    <3>1. n \in 0..(d.una - 1)
      BY <1>2, <2>1, <2>4 DEF DownOk
    <3> QED BY <1>2, <2>2, <3>1 DEF DownOk
  <2> QED BY <2>2, <2>3, <2>4
<1> HIDE DEF left, buf, owed
<1>8. \A i \in left : i \in Number /\ buf[i] \in Sizes
  <2>1. ASSUME NEW i \in left
        PROVE  i \in 0..127 /\ buf[i] \in Sizes
    <3>1. i \in 0..(snd_nxt[a] - 1) /\ snd_nxt[a] \in 0..128 /\ snd_buf[a][i] \in Sizes
      BY <1>2, <1>5 DEF ClientOk
    <3> QED BY <1>6, <3>1
  <2> QED BY <2>1 DEF Number, RcvWnd
<1>9. (\A x \in up : UpOk(x))' /\ owes' \in [Addr -> BOOLEAN]
  <2>1. CASE overdue \subseteq left /\ ClientFlush(a, owed, buf, overdue)
    <3>1. overdue \in SUBSET Number /\ \A n \in overdue : buf[n] \in Sizes
      BY <1>8, <2>1
    <3> QED BY <1>2, <2>1, <3>1, ClientSends
  <2>2. CASE up' = up /\ owes' = [owes EXCEPT ![a] = owed]
    BY <1>2, <1>5, <2>2 DEF ClientOk, UpOk
  <2> QED BY <1>1, <2>1, <2>2
<1>10. /\ \A b \in Addr \ {a} : snd_buf'[b] = snd_buf[b]
       /\ snd_buf' = [b \in Addr |-> snd_buf'[b]]
       /\ snd_buf'[a] = buf
  BY <1>1, <1>2 DEF ClientOk
<1>11. ClientOk'
  <2>1. ASSUME NEW b \in Addr, NEW n \in DOMAIN snd_buf'[b]
        PROVE  n \in 0..(snd_nxt'[b] - 1) /\ snd_buf'[b][n] \in Sizes
    <3>1. n \in DOMAIN snd_buf[b] /\ snd_buf'[b][n] = snd_buf[b][n]
      BY <1>5, <1>6, <1>10, <2>1
    <3> QED BY <1>1, <1>2, <3>1 DEF ClientOk
  <2> QED BY <1>1, <1>2, <1>9, <1>10, <2>1 DEF ClientOk
<1>12. LostOnlyByDrop'
  <2>1. ASSUME NEW b \in Addr, NEW n \in (0..(snd_nxt[b] - 1)) \ DOMAIN snd_buf'[b]
        PROVE  Safe(b, conv[b], n)
    <3>1. CASE n \notin DOMAIN snd_buf[b]
      BY <2>1, <3>1, LostOnlyByDropSafe DEF LostInv
    <3>2. CASE n \in DOMAIN snd_buf[b]
      <4>1. b = a /\ n \notin left
        BY <1>6, <1>10, <2>1, <3>2
      <4> QED BY <1>7, <3>2, <4>1
    <3> QED BY <3>1, <3>2
  <2>2. (\A b \in Addr : \A i \in 0..(snd_nxt[b] - 1) \ DOMAIN snd_buf[b] : Safe(b, conv[b], i))'
    BY <1>1, <1>4, <2>1
  <2> QED BY <2>2 DEF LostOnlyByDrop, Safe
<1> QED BY <1>3, <1>9, <1>11, <1>12 DEF LostInv

\* The control block that a datagram is for: all that it is past, or is to
\* acknowledge, was read or thrown away, or it holds.
LEMMA BlockSafe ==
  ASSUME LostInv, NEW d \in up
  PROVE  LET kcb == Block(d)
         IN  /\ d.addr \in Addr
             /\ BlockOk(kcb, d.addr)
             /\ Held(d.addr) \subseteq Holds(kcb)
             /\ \A n \in 0..(kcb.rcv_nxt - 1) \cup kcb.acklist :
                  \E m \in read \cup lost \cup Holds(kcb) :
                    m.addr = d.addr /\ m.conv = kcb.conv /\ m.sn = n
<1> DEFINE a == d.addr
           old == IF a \in DOMAIN connections THEN connections[a] ELSE NewBlock(d.conv)
           kcb == Input(old, d)
<1>1. UpOk(d) /\ a \in Addr
  BY DEF LostInv, UpOk
<1>2. Block(d) = kcb
  BY DEF Block
<1>3. /\ BlockOk(old, a) /\ Held(a) \subseteq Holds(old)
      /\ \A n \in 0..(old.rcv_nxt - 1) \cup old.acklist : Safe(a, old.conv, n)
  <2>1. CASE a \in DOMAIN connections
    BY <2>1 DEF LostInv, TableOk, Held, Holds
  <2>2. CASE a \notin DOMAIN connections
    <3>1. old = [conv |-> d.conv, rcv_nxt |-> 0, rcv_buf |-> <<>>, rcv_queue |-> <<>>,
                 acklist |-> {}]
      BY <2>2 DEF NewBlock
    <3>2. Fields(old)
      BY <3>1 DEF Fields
    <3>3. /\ old.conv = d.conv /\ old.rcv_nxt = 0 /\ old.acklist = {}
          /\ old.rcv_buf = <<>> /\ old.rcv_queue = <<>>
      BY <3>1
    <3> HIDE DEF old
    <3>4. DOMAIN old.rcv_buf = {} /\ 0..(old.rcv_nxt - 1) = {}
      BY <3>3
    <3>5. BlockOk(old, a)
      BY <1>1, <3>2, <3>3, <3>4 DEF BlockOk, UpOk
    <3> QED BY <2>2, <3>3, <3>4, <3>5 DEF Held
  <2> QED BY <2>1, <2>2
<1> HIDE DEF old
<1>4. /\ BlockOk(kcb, a) /\ kcb.conv = old.conv /\ Holds(old) \subseteq Holds(kcb)
      /\ \A n \in 0..(kcb.rcv_nxt - 1) :
           n < old.rcv_nxt \/ \E m \in Holds(kcb) \cap From(a, old.conv) : m.sn = n
      /\ \A n \in kcb.acklist :
           \/ n \in old.acklist \/ n < old.rcv_nxt
           \/ \E m \in Holds(kcb) \cap From(a, old.conv) : m.sn = n
  BY <1>1, <1>3, InputBlock
<1> HIDE DEF kcb
<1>5. ASSUME NEW n, Safe(a, old.conv, n)
      PROVE  \E m \in read \cup lost \cup Holds(kcb) :
               m.addr = a /\ m.conv = kcb.conv /\ m.sn = n
  BY <1>3, <1>4, <1>5 DEF Safe
<1>6. ASSUME NEW n, \E m \in Holds(kcb) \cap From(a, old.conv) : m.sn = n
      PROVE  \E m \in read \cup lost \cup Holds(kcb) :
               m.addr = a /\ m.conv = kcb.conv /\ m.sn = n
  BY <1>4, <1>6 DEF From
<1>7. /\ old.rcv_nxt \in Nat
      /\ \A n \in 0..(kcb.rcv_nxt - 1) \cup kcb.acklist : n \in Nat
  <2>1. BlockOk(old, a) /\ BlockOk(kcb, a)
    BY <1>3, <1>4
  <2>2. old.rcv_nxt \in 0..128 /\ kcb.acklist \subseteq Number
    BY <2>1 DEF BlockOk
  <2>3. \A n \in 0..(kcb.rcv_nxt - 1) : n \in Nat
    OBVIOUS
  <2>4. \A n \in Number : n \in Nat
    BY Numbers
  <2> QED BY <2>2, <2>3, <2>4, Numbers
<1>8. ASSUME NEW n \in 0..(kcb.rcv_nxt - 1) \cup kcb.acklist
      PROVE  \E m \in read \cup lost \cup Holds(kcb) :
               m.addr = a /\ m.conv = kcb.conv /\ m.sn = n
  <2>1. CASE n < old.rcv_nxt
    <3>1. n \in 0..(old.rcv_nxt - 1)
      BY <1>7, <2>1
    <3> QED BY <1>3, <1>5, <3>1
  <2>2. CASE n \in old.acklist
    BY <1>3, <1>5, <2>2
  <2>3. CASE \E m \in Holds(kcb) \cap From(a, old.conv) : m.sn = n
    BY <1>6, <2>3
  <2> QED BY <1>4, <2>1, <2>2, <2>3
<1> QED BY <1>1, <1>2, <1>3, <1>4, <1>8

\* A datagram is served: the table changes for its address alone, and what the
\* control block held is still held, or read, or thrown away.
LEMMA ServedKeeps ==
  ASSUME LostInv, NEW d \in up, NEW kcb, kcb = Block(d), NEW a, a = d.addr,
         UNCHANGED client, up' \subseteq up,
         read \subseteq read', lost \subseteq lost',
         DOMAIN connections' \subseteq DOMAIN connections \cup {a},
         \A b \in DOMAIN connections \ {a} :
           b \in DOMAIN connections' /\ connections'[b] = connections[b],
         Holds(kcb) \subseteq read' \cup lost' \cup Held(a)',
         a \in DOMAIN connections' =>
           /\ BlockOk(connections'[a], a)
           /\ connections'[a].conv = kcb.conv
           /\ connections'[a].rcv_nxt = kcb.rcv_nxt
           /\ connections'[a].acklist \subseteq kcb.acklist,
         \A x \in down' :
           \/ x \in down
           \/ /\ x.addr = a /\ x.conv = kcb.conv /\ x.una = kcb.rcv_nxt
              /\ \A i \in 1..Len(x.segs) :
                   x.segs[i].cmd = "ACK" => x.segs[i].sn \in kcb.acklist
  PROVE  LostInv'
<1> DEFINE Safe1(b, c, n) ==
             \E m \in read' \cup lost' \cup Held(b)' : m.addr = b /\ m.conv = c /\ m.sn = n
<1>1. /\ a \in Addr /\ BlockOk(kcb, a) /\ Held(a) \subseteq Holds(kcb)
      /\ \A n \in 0..(kcb.rcv_nxt - 1) \cup kcb.acklist :
           \E m \in read \cup lost \cup Holds(kcb) :
             m.addr = a /\ m.conv = kcb.conv /\ m.sn = n
  BY BlockSafe
<1>2. ASSUME NEW b PROVE Held(b) \subseteq read' \cup lost' \cup Held(b)'
  <2>1. CASE b = a
    BY <1>1, <2>1
  <2>2. CASE b # a
    BY <2>2 DEF Held
  <2> QED BY <2>1, <2>2
<1>3. ASSUME NEW b, NEW c, NEW n, Safe(b, c, n) PROVE Safe1(b, c, n)
  BY <1>2, <1>3 DEF Safe
<1>4. ASSUME NEW n \in 0..(kcb.rcv_nxt - 1) \cup kcb.acklist
      PROVE  Safe1(a, kcb.conv, n)
  <2>1. PICK m \in read \cup lost \cup Holds(kcb) :
          m.addr = a /\ m.conv = kcb.conv /\ m.sn = n
    BY <1>1
  <2>2. m \in read' \cup lost' \cup Held(a)'
    BY <2>1
  <2> QED BY <2>1, <2>2
<1> HIDE DEF Safe1
<1>5. UNCHANGED <<conv, snd_nxt, snd_buf, owes>>
  BY DEF client
<1>6. ClientOk' /\ (\A x \in up : UpOk(x))'
  BY <1>5 DEF LostInv, ClientOk, UpOk
<1>7. ASSUME NEW x \in down'
      PROVE  /\ x.addr \in Addr /\ x.una \in Nat
             /\ \A n \in 0..(x.una - 1) : Safe1(x.addr, x.conv, n)
             /\ \A i \in 1..Len(x.segs) :
                  x.segs[i].cmd = "ACK" => Safe1(x.addr, x.conv, x.segs[i].sn)
  <2>1. CASE x \in down
    BY <1>3, <2>1 DEF LostInv, DownOk
  <2>2. CASE /\ x.addr = a /\ x.conv = kcb.conv /\ x.una = kcb.rcv_nxt
             /\ \A i \in 1..Len(x.segs) :
                  x.segs[i].cmd = "ACK" => x.segs[i].sn \in kcb.acklist
    <3>1. kcb.rcv_nxt \in Nat
      <4>1. BlockOk(kcb, a)
        BY <1>1
      <4>2. kcb.rcv_nxt \in 0..128
        BY <4>1 DEF BlockOk
      <4> QED BY <4>2, Numbers
    <3> QED BY <1>1, <1>4, <2>2, <3>1
  <2> QED BY <2>1, <2>2
<1>8. (\A x \in down : DownOk(x))'
  BY <1>7 DEF DownOk, Safe, Safe1
<1>9. TableOk'
  <2>1. DOMAIN connections' \subseteq Addr
    BY <1>1 DEF LostInv, TableOk
  <2>2. ASSUME NEW b \in DOMAIN connections'
        PROVE  /\ BlockOk(connections'[b], b)
               /\ \A n \in 0..(connections'[b].rcv_nxt - 1) \cup connections'[b].acklist :
                    Safe1(b, connections'[b].conv, n)
    <3>1. CASE b = a
      <4>1. /\ BlockOk(connections'[a], a)
            /\ connections'[a].conv = kcb.conv
            /\ connections'[a].rcv_nxt = kcb.rcv_nxt
            /\ connections'[a].acklist \subseteq kcb.acklist
        BY <2>2, <3>1
      <4> QED BY <1>4, <3>1, <4>1
    <3>2. CASE b # a
      <4>1. b \in DOMAIN connections /\ connections'[b] = connections[b]
        BY <2>2, <3>2
      <4>2. /\ BlockOk(connections[b], b)
            /\ \A n \in 0..(connections[b].rcv_nxt - 1) \cup connections[b].acklist :
                 Safe(b, connections[b].conv, n)
        BY <4>1 DEF LostInv, TableOk
      <4> QED BY <1>3, <4>1, <4>2
    <3> QED BY <3>1, <3>2
  <2> QED BY <2>1, <2>2 DEF TableOk, BlockOk, Safe, Safe1
<1>10. LostOnlyByDrop'
  <2>1. ASSUME NEW b \in Addr, NEW n \in 0..(snd_nxt[b] - 1) \ DOMAIN snd_buf[b]
        PROVE  Safe1(b, conv[b], n)
    BY <1>3, LostOnlyByDropSafe DEF LostInv
  <2>2. (\A b \in Addr : \A n \in 0..(snd_nxt[b] - 1) \ DOMAIN snd_buf[b] :
           Safe(b, conv[b], n))'
    BY <1>5, <2>1 DEF Safe, Safe1
  <2> QED BY <2>2 DEF LostOnlyByDrop, Safe
<1> QED BY <1>6, <1>8, <1>9, <1>10 DEF LostInv

\* A reply that is flushed has the address, the conversation and the numbers
\* of its control block, and acknowledges what is in acklist.
LEMMA AnswersFacts ==
  ASSUME NEW a, NEW kcb, NEW T, \A s \in T : s.cmd = "ACK" => s.sn \in kcb.acklist,
         NEW segs \in Seq(T), NEW x \in Answers(a, kcb, segs)
  PROVE  /\ x.addr = a /\ x.conv = kcb.conv /\ x.una = kcb.rcv_nxt
         /\ \A i \in 1..Len(x.segs) :
              x.segs[i].cmd = "ACK" => x.segs[i].sn \in kcb.acklist
<1>1. PICK out \in Datagrams(segs) :
        x = [addr |-> a, conv |-> kcb.conv, una |-> kcb.rcv_nxt, segs |-> out]
  BY DEF Answers
<1>2. out \in Seq(T)
  BY DatagramsFacts
<1>3. \A i \in 1..Len(out) : out[i] \in T
  BY <1>2
<1> QED BY <1>1, <1>3

\* The acknowledgements of a control block, and the reply that follows them.
LEMMA AcksFacts ==
  ASSUME NEW kcb, NEW a, BlockOk(kcb, a)
  PROVE  AckSegs(kcb.acklist) \in Seq([cmd : {"ACK"}, sn : kcb.acklist, size : {0}])
<1>1. kcb.acklist \in SUBSET Nat /\ IsFiniteSet(kcb.acklist)
  <2>1. kcb.acklist \subseteq Number
    BY DEF BlockOk
  <2>2. \A i \in kcb.acklist : i <= 127 /\ i \in Nat
    BY <2>1 DEF Number, RcvWnd
  <2>3. kcb.acklist \in SUBSET Nat /\ 127 \in Nat
    BY <2>2
  <2> QED BY <2>2, <2>3, FS_BoundedSetOfNaturals
<1> QED BY <1>1, AckSegsFacts

LEMMA AckAnswers ==
  ASSUME NEW kcb, NEW a, BlockOk(kcb, a), NEW x \in Answers(a, kcb, AckSegs(kcb.acklist))
  PROVE  /\ x.addr = a /\ x.conv = kcb.conv /\ x.una = kcb.rcv_nxt
         /\ \A i \in 1..Len(x.segs) :
              x.segs[i].cmd = "ACK" => x.segs[i].sn \in kcb.acklist
<1> DEFINE T == [cmd : {"ACK"}, sn : kcb.acklist, size : {0}]
<1>1. AckSegs(kcb.acklist) \in Seq(T)
  BY AcksFacts
<1>2. \A s \in T : s.cmd = "ACK" => s.sn \in kcb.acklist
  OBVIOUS
<1> HIDE DEF T
<1> QED BY <1>1, <1>2, AnswersFacts

LEMMA ReplyFacts ==
  ASSUME NEW kcb, NEW a, BlockOk(kcb, a), NEW r, r.cmd = "PUSH"
  PROVE  \E T : /\ AckSegs(kcb.acklist) \in Seq(T)
                /\ <<r>> \in Seq(T)
                /\ AckSegs(kcb.acklist) \o <<r>> \in Seq(T)
                /\ \A s \in T : s.cmd = "ACK" => s.sn \in kcb.acklist
<1> DEFINE A == [cmd : {"ACK"}, sn : kcb.acklist, size : {0}]
           T == A \cup {r}
<1>1. AckSegs(kcb.acklist) \in Seq(A)
  BY AcksFacts
<1>2. \A s \in T : s.cmd = "ACK" => s.sn \in kcb.acklist
  OBVIOUS
<1>3. r \in T /\ A \subseteq T
  OBVIOUS
<1> HIDE DEF A, T
<1>4. AckSegs(kcb.acklist) \in Seq(T)
  BY <1>1, <1>3, SeqWider
<1>5. <<r>> \in Seq(T)
  BY <1>3
<1>6. AckSegs(kcb.acklist) \o <<r>> \in Seq(T)
  BY <1>4, <1>5, ConcatProperties
<1> QED BY <1>2, <1>4, <1>5, <1>6

\* Whatever of the replies the network keeps, nothing else comes to be under
\* way to the clients.
LEMMA SendsOnly ==
  ASSUME NEW out, ServerSends(out)
  PROVE  \A x \in down' : x \in down \/ x \in out
BY DEF ServerSends

LEMMA WaitsKeeps ==
  ASSUME LostInv, NEW d \in up, NEW flushed \in BOOLEAN, ServeWaits(d, flushed)
  PROVE  LostInv'
<1> DEFINE a == d.addr
           kcb == Block(d)
           new == IF flushed THEN Flushed(kcb) ELSE kcb
           out == IF flushed THEN Answers(a, kcb, AckSegs(kcb.acklist)) ELSE {}
<1>1. /\ UNCHANGED client /\ up' \subseteq up /\ UNCHANGED <<log, read, lost>>
      /\ a \in DOMAIN connections
      /\ connections' = Table(a, new) /\ ServerSends(out)
  BY DEF ServeWaits, Served, Waits
<1>2. BlockOk(kcb, a)
  BY BlockSafe
<1>3. /\ BlockOk(new, a) /\ new.conv = kcb.conv /\ new.rcv_nxt = kcb.rcv_nxt
      /\ new.acklist \subseteq kcb.acklist /\ Holds(new) = Holds(kcb)
  <2>1. Fields(kcb)
    BY <1>2 DEF BlockOk
  <2> HIDE DEF kcb
  <2>2. /\ Fields(Flushed(kcb)) /\ Flushed(kcb).conv = kcb.conv
        /\ Flushed(kcb).rcv_nxt = kcb.rcv_nxt /\ Flushed(kcb).rcv_buf = kcb.rcv_buf
        /\ Flushed(kcb).rcv_queue = kcb.rcv_queue /\ Flushed(kcb).acklist = {}
    BY <2>1, FlushedFields
  <2>3. BlockOk(Flushed(kcb), a)
    BY <1>2, <2>2 DEF BlockOk
  <2> QED BY <1>2, <2>2, <2>3 DEF Holds
<1> HIDE DEF new
<1>4. /\ DOMAIN connections' = DOMAIN connections \cup {a} /\ connections'[a] = new
      /\ \A b \in DOMAIN connections \ {a} : connections'[b] = connections[b]
  BY <1>1 DEF Table
<1>5. Holds(kcb) \subseteq read' \cup lost' \cup Held(a)'
  BY <1>3, <1>4 DEF Held, Holds
<1>6. ASSUME NEW x \in down', x \notin down
      PROVE  /\ x.addr = a /\ x.conv = kcb.conv /\ x.una = kcb.rcv_nxt
             /\ \A i \in 1..Len(x.segs) :
                  x.segs[i].cmd = "ACK" => x.segs[i].sn \in kcb.acklist
  <2>1. x \in Answers(a, kcb, AckSegs(kcb.acklist))
    BY <1>1, <1>6, SendsOnly
  <2> HIDE DEF kcb
  <2> QED BY <1>2, <2>1, AckAnswers
<1>7. /\ read \subseteq read' /\ lost \subseteq lost'
      /\ DOMAIN connections' \subseteq DOMAIN connections \cup {a}
      /\ \A b \in DOMAIN connections \ {a} :
           b \in DOMAIN connections' /\ connections'[b] = connections[b]
  BY <1>1, <1>4
<1>8. /\ BlockOk(connections'[a], a) /\ connections'[a].conv = kcb.conv
      /\ connections'[a].rcv_nxt = kcb.rcv_nxt
      /\ connections'[a].acklist \subseteq kcb.acklist
  BY <1>3, <1>4
<1> QED BY <1>1, <1>5, <1>6, <1>7, <1>8, ServedKeeps

LEMMA MessageKeeps ==
  ASSUME LostInv, NEW d \in up, NEW flushed \in BOOLEAN, ServeMessage(d, flushed)
  PROVE  LostInv'
<1> DEFINE a == d.addr
           kcb == Block(d)
           q == kcb.rcv_queue
           new == [Flushed(kcb) EXCEPT !.rcv_queue = Tail(@)]
           acks == AckSegs(kcb.acklist)
           reply == <<[cmd |-> "PUSH", sn |-> Len(log[a]), size |-> Head(q).size]>>
           out == IF flushed
                  THEN Answers(a, kcb, acks) \cup Answers(a, kcb, reply)
                  ELSE Answers(a, kcb, acks \o reply)
<1>1. /\ UNCHANGED client /\ up' \subseteq up
      /\ q # <<>>
      /\ connections' = Table(a, new) /\ ServerSends(out)
      /\ read' = read \cup {Head(q)} /\ lost' = lost
  BY DEF ServeMessage, Served, Readable
<1>2. BlockOk(kcb, a)
  BY BlockSafe
<1>3. q \in Seq(From(a, kcb.conv))
  BY <1>2 DEF BlockOk
<1> HIDE DEF kcb
<1>4. /\ Fields(new) /\ new.conv = kcb.conv /\ new.rcv_nxt = kcb.rcv_nxt
      /\ new.rcv_buf = kcb.rcv_buf /\ new.rcv_queue = Tail(q) /\ new.acklist = {}
  <2>1. Fields(kcb)
    BY <1>2 DEF BlockOk
  <2>2. /\ Fields(Flushed(kcb)) /\ Flushed(kcb).conv = kcb.conv
        /\ Flushed(kcb).rcv_nxt = kcb.rcv_nxt /\ Flushed(kcb).rcv_buf = kcb.rcv_buf
        /\ Flushed(kcb).rcv_queue = q /\ Flushed(kcb).acklist = {}
    BY <2>1, FlushedFields
  <2>3. new = [Flushed(kcb) EXCEPT !.rcv_queue = Tail(q)]
    BY <2>2
  <2> HIDE DEF new, q
  <2> QED BY <2>2, <2>3, QueueFields
<1> HIDE DEF new
<1>5. /\ Tail(q) \in Seq(From(a, kcb.conv))
      /\ Range(q) \subseteq {Head(q)} \cup Range(Tail(q))
  <2> HIDE DEF q
  <2>1. /\ Tail(q) \in Seq(From(a, kcb.conv)) /\ Len(Tail(q)) = Len(q) - 1
        /\ \A i \in 1..Len(Tail(q)) : Tail(q)[i] = q[i + 1]
        /\ Head(q) = q[1] /\ Len(q) \in Nat /\ Len(q) > 0
    BY <1>1, <1>3
  <2>2. DOMAIN q = 1..Len(q) /\ DOMAIN Tail(q) = 1..Len(Tail(q))
    BY <1>3, <2>1
  <2>3. ASSUME NEW i \in 1..Len(q), i # 1
        PROVE  i - 1 \in DOMAIN Tail(q) /\ Tail(q)[i - 1] = q[i]
    <3>1. i - 1 \in 1..Len(Tail(q)) /\ (i - 1) + 1 = i
      BY <2>1, <2>3
    <3> QED BY <2>1, <2>2, <3>1
  <2>4. ASSUME NEW i \in 1..Len(q) PROVE q[i] \in {Head(q)} \cup Range(Tail(q))
    <3>1. CASE i = 1
      BY <2>1, <3>1
    <3>2. CASE i # 1
      BY <2>3, <3>2 DEF Range
    <3> QED BY <3>1, <3>2
  <2> QED BY <2>1, <2>2, <2>4 DEF Range
<1>6. BlockOk(new, a)
  BY <1>2, <1>4, <1>5 DEF BlockOk
<1>7. /\ DOMAIN connections' = DOMAIN connections \cup {a} /\ connections'[a] = new
      /\ \A b \in DOMAIN connections \ {a} : connections'[b] = connections[b]
  BY <1>1 DEF Table
<1>8. Holds(kcb) \subseteq read' \cup lost' \cup Held(a)'
  <2>1. Held(a)' = Range(kcb.rcv_buf) \cup Range(Tail(q))
    <3> HIDE DEF q
    <3> QED BY <1>4, <1>7 DEF Held
  <2> QED BY <1>1, <1>5, <2>1 DEF Holds
<1>9. ASSUME NEW x \in down', x \notin down
      PROVE  /\ x.addr = a /\ x.conv = kcb.conv /\ x.una = kcb.rcv_nxt
             /\ \A i \in 1..Len(x.segs) :
                  x.segs[i].cmd = "ACK" => x.segs[i].sn \in kcb.acklist
  <2>1. x \in out
    BY <1>1, <1>9, SendsOnly
  <2> DEFINE r == [cmd |-> "PUSH", sn |-> Len(log[a]), size |-> Head(q).size]
  <2>2. r.cmd = "PUSH" /\ reply = <<r>>
    OBVIOUS
  <2> HIDE DEF r
  <2>3. PICK T : /\ acks \in Seq(T) /\ <<r>> \in Seq(T) /\ acks \o <<r>> \in Seq(T)
                 /\ \A s \in T : s.cmd = "ACK" => s.sn \in kcb.acklist
    BY <1>2, <2>2, ReplyFacts
  <2>4. PICK segs \in Seq(T) : x \in Answers(a, kcb, segs)
    <3> HIDE DEF acks, reply
    <3> QED BY <2>1, <2>2, <2>3
  <2> QED BY <2>3, <2>4, AnswersFacts
<1>10. /\ read \subseteq read' /\ lost \subseteq lost'
       /\ DOMAIN connections' \subseteq DOMAIN connections \cup {a}
       /\ \A b \in DOMAIN connections \ {a} :
            b \in DOMAIN connections' /\ connections'[b] = connections[b]
  BY <1>1, <1>7
<1>11. /\ BlockOk(connections'[a], a) /\ connections'[a].conv = kcb.conv
       /\ connections'[a].rcv_nxt = kcb.rcv_nxt
       /\ connections'[a].acklist \subseteq kcb.acklist
  BY <1>4, <1>6, <1>7
<1>12. kcb = Block(d)
  BY DEF kcb
<1> QED BY <1>1, <1>8, <1>9, <1>10, <1>11, <1>12, ServedKeeps

LEMMA FailsKeeps ==
  ASSUME LostInv, NEW d \in up, NEW flushed \in BOOLEAN, ReadFails(d, flushed)
  PROVE  LostInv'
<1> DEFINE a == d.addr
           kcb == Block(d)
           out == IF flushed THEN Answers(a, kcb, AckSegs(kcb.acklist)) ELSE {}
<1>1. /\ UNCHANGED client /\ up' \subseteq up
      /\ connections' = DropStream(a, kcb) /\ ServerSends(out)
      /\ lost' = lost \cup Range(kcb.rcv_buf) \cup Range(kcb.rcv_queue)
      /\ read' = read
  BY DEF ReadFails, Served
<1>2. BlockOk(kcb, a)
  BY BlockSafe
<1>3. /\ DOMAIN connections' = DOMAIN connections \ {a}
      /\ \A b \in DOMAIN connections \ {a} : connections'[b] = connections[b]
  BY <1>1 DEF DropStream
<1>4. Holds(kcb) \subseteq read' \cup lost' \cup Held(a)'
  BY <1>1 DEF Holds
<1>5. ASSUME NEW x \in down', x \notin down
      PROVE  /\ x.addr = a /\ x.conv = kcb.conv /\ x.una = kcb.rcv_nxt
             /\ \A i \in 1..Len(x.segs) :
                  x.segs[i].cmd = "ACK" => x.segs[i].sn \in kcb.acklist
  <2>1. x \in Answers(a, kcb, AckSegs(kcb.acklist))
    BY <1>1, <1>5, SendsOnly
  <2> HIDE DEF kcb
  <2> QED BY <1>2, <2>1, AckAnswers
<1>6. /\ read \subseteq read' /\ lost \subseteq lost'
      /\ DOMAIN connections' \subseteq DOMAIN connections \cup {a}
      /\ \A b \in DOMAIN connections \ {a} :
           b \in DOMAIN connections' /\ connections'[b] = connections[b]
  BY <1>1, <1>3
<1>7. a \notin DOMAIN connections'
  BY <1>3
<1> QED BY <1>1, <1>4, <1>5, <1>6, <1>7, ServedKeeps

LEMMA NextLost ==
  ASSUME LostInv, [Next]_vars
  PROVE  LostInv'
<1>1. ASSUME NEW d \in up, NEW flushed \in BOOLEAN, Serve(d, flushed)
      PROVE  LostInv'
  BY <1>1, WaitsKeeps, MessageKeeps, FailsKeeps DEF Serve, ServeError, ServePending
<1>2. CASE UNCHANGED vars
  <2>1. UNCHANGED <<conv, snd_nxt, snd_buf, owes, connections, up, down, read, lost>>
    BY <1>2 DEF vars, client
  <2>2. (\A x \in down : DownOk(x))' /\ TableOk'
    BY <2>1, DownKept, TableKept DEF LostInv
  <2> QED BY <2>1, <2>2 DEF LostInv, ClientOk, UpOk, LostOnlyByDrop, Held
<1> QED
  BY <1>1, <1>2, WriteKeeps, RestartKeeps, ReceiveKeeps DEF Next

\* The second invariant holds of every reachable state.
THEOREM LostCorrect == Spec => []LostInv
<1>1. Init => LostInv
  BY LostInit
<1>2. LostInv /\ [Next]_vars => LostInv'
  BY NextLost
<1> QED BY <1>1, <1>2, PTL DEF Spec

\* A message that its client has seen acknowledged was read, or is held by the
\* control block in the table, or went with a stream that was dropped, be it
\* out of the control block or, if kcp_check was pending, out of recv's hands:
\* whatever flush puts together in a datagram, whatever is cut off at the end
\* of the buffer, and whatever of it the network loses (input, flush, accept
\* and drop_stream of src/kcp).
THEOREM LostOnlyWithDrop == Spec => []LostOnlyByDrop
<1>1. LostInv => LostOnlyByDrop
  BY DEF LostInv
<1> QED BY <1>1, LostCorrect, PTL

\* The clients, the table and the control blocks in it have their types; what
\* waits in rcv_buf is past rcv_nxt, and inside the window.
THEOREM ListenerTypes == Spec => []TypeOK
<1>1. LostInv => TypeOK
  <2> SUFFICES ASSUME LostInv PROVE TypeOK
    OBVIOUS
  <2>1. \A a \in Addr : DOMAIN snd_buf[a] \subseteq 0..(snd_nxt[a] - 1)
    BY DEF LostInv, ClientOk
  <2>2. ASSUME NEW a \in DOMAIN connections
        PROVE  /\ connections[a].conv \in Conv
               /\ connections[a].rcv_nxt \in 0..128
               /\ DOMAIN connections[a].rcv_buf \subseteq connections[a].rcv_nxt + 1 .. 127
               /\ connections[a].rcv_queue \in Seq(Message)
               /\ connections[a].acklist \subseteq Number
    <3>1. BlockOk(connections[a], a)
      BY DEF LostInv, TableOk
    <3>2. connections[a].rcv_queue \in Seq(Message)
      <4>1. From(a, connections[a].conv) \subseteq Message
        BY DEF From
      <4>2. connections[a].rcv_queue \in Seq(From(a, connections[a].conv))
        BY <3>1 DEF BlockOk
      <4> QED BY <4>1, <4>2, SeqWider
    <3> QED BY <3>1, <3>2 DEF BlockOk
  <2> QED BY <2>1, <2>2 DEF LostInv, ClientOk, TableOk, TypeOK
<1> QED BY <1>1, LostCorrect, PTL
=============================================================================
