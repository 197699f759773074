------------------------------ MODULE TcpProofs ------------------------------
(***************************************************************************)
(* Proofs about TcpConnector and Socks5, for any addresses, any greetings, *)
(* any data and any cutting of the streams.                                *)
(***************************************************************************)
EXTENDS MCTcp, SequenceTheorems, TLAPS

(***************************************************************************)
(* Addresses on the wire.                                                  *)
(***************************************************************************)

\* Bytes before the host: the type, and the length of a name.
HeaderLen(a) == IF a.kind = "name" THEN 2 ELSE 1

LEMMA ByteFacts == \A n : n \in Byte <=> n \in Nat /\ n <= 255
BY DEF Byte

LEMMA PlusNat == \A i, j \in Nat : i + j \in Nat
OBVIOUS

LEMMA ConcatFacts ==
  ASSUME NEW T, NEW s \in Seq(T), NEW t \in Seq(T), NEW r, r = s \o t
  PROVE  /\ r \in Seq(T) /\ Len(r) = Len(s) + Len(t)
         /\ \A i \in 1..Len(s) : r[i] = s[i]
         /\ \A i \in 1..Len(t) : r[Len(s) + i] = t[i]
<1>1. s \o t \in Seq(T) /\ Len(s \o t) = Len(s) + Len(t)
  OBVIOUS
<1>2. \A i \in 1..Len(s) : (s \o t)[i] = s[i]
  OBVIOUS
<1>3. \A i \in 1..Len(t) : (s \o t)[Len(s) + i] = t[i]
  OBVIOUS
<1> QED BY <1>1, <1>2, <1>3

LEMMA AddressFacts ==
  ASSUME NEW a, IsAddress(a)
  PROVE  /\ a.kind \in {"v4", "name", "v6"}
         /\ a.host \in Seq(Byte) /\ Len(a.host) \in Nat
         /\ a.kind = "name" => Len(a.host) <= 255
         /\ a.kind = "v4" => Len(a.host) = 4
         /\ a.kind = "v6" => Len(a.host) = 16
         /\ a.port \in Nat /\ a.port < 65536
         /\ a = [kind |-> a.kind, host |-> a.host, port |-> a.port]
<1>1. a \in [kind : DOMAIN TypeByte, host : Seq(Byte), port : Port16]
  BY DEF IsAddress
<1>2. DOMAIN TypeByte = {"v4", "name", "v6"}
  BY DEF TypeByte
<1>3. HostLength["v4"] = 4 /\ HostLength["v6"] = 16
  BY DEF HostLength
<1>4. /\ a.kind \in {"v4", "name", "v6"} /\ a.host \in Seq(Byte)
      /\ a.port \in Port16
      /\ a = [kind |-> a.kind, host |-> a.host, port |-> a.port]
  BY <1>1, <1>2
<1>5. Len(a.host) \in Nat
  BY <1>4
<1>6. a.port \in Nat /\ a.port < 65536
  BY <1>4 DEF Port16
<1>7. /\ a.kind = "name" => Len(a.host) <= 255
      /\ a.kind = "v4" => Len(a.host) = 4
      /\ a.kind = "v6" => Len(a.host) = 16
  BY <1>3 DEF IsAddress
<1> QED BY <1>4, <1>5, <1>6, <1>7

LEMMA TypeBytes ==
  /\ DOMAIN TypeByte = {"v4", "name", "v6"}
  /\ TypeByte["v4"] = 1 /\ TypeByte["name"] = 3 /\ TypeByte["v6"] = 4
BY DEF TypeByte

\* The bytes of an address, one by one.
LEMMA EncodedFacts ==
  ASSUME NEW a, IsAddress(a)
  PROVE  LET E == Encoded(a)
             h == HeaderLen(a)
             k == Len(a.host)
         IN  /\ E \in Seq(Byte)
             /\ Len(E) = h + k + 2
             /\ E[1] = TypeByte[a.kind]
             /\ a.kind = "name" => E[2] = k
             /\ \A i \in 1..k : E[h + i] = a.host[i]
             /\ E[h + k + 1] = a.port \div 256
             /\ E[h + k + 2] = a.port % 256
<1> DEFINE type == <<TypeByte[a.kind]>>
           length == IF a.kind = "name" THEN <<Len(a.host)>> ELSE <<>>
           port == <<a.port \div 256, a.port % 256>>
           h == HeaderLen(a)
           k == Len(a.host)
           head == type \o length
           front == head \o a.host
<1>1. /\ a.kind \in {"v4", "name", "v6"} /\ a.host \in Seq(Byte) /\ k \in Nat
      /\ a.kind = "name" => k <= 255
      /\ a.port \in Nat /\ a.port < 65536
  BY AddressFacts
<1>2. type \in Seq(Byte) /\ Len(type) = 1 /\ type[1] = TypeByte[a.kind]
  <2>1. TypeByte[a.kind] \in Byte
    <3>1. TypeByte[a.kind] \in {1, 3, 4}
      BY <1>1, TypeBytes
    <3> QED BY <3>1, ByteFacts
  <2> HIDE DEF k
  <2> QED BY <2>1
<1>3. /\ length \in Seq(Byte) /\ Len(length) = h - 1
      /\ a.kind = "name" => length[1] = k
  <2>1. CASE a.kind = "name"
    <3>1. k \in Byte /\ length = <<k>> /\ h = 2
      BY <1>1, <2>1, ByteFacts DEF HeaderLen
    <3> HIDE DEF k, h, length
    <3> QED BY <3>1
  <2>2. CASE a.kind # "name"
    <3>1. length = <<>> /\ h = 1
      BY <2>2 DEF HeaderLen
    <3> HIDE DEF h, length
    <3> QED BY <2>2, <3>1
  <2> QED BY <2>1, <2>2
<1>4. /\ port \in Seq(Byte) /\ Len(port) = 2
      /\ port[1] = a.port \div 256 /\ port[2] = a.port % 256
  <2> DEFINE high == a.port \div 256
             low == a.port % 256
  <2>1. high \in Byte /\ low \in Byte
    <3>1. high \in Nat /\ high <= 255 /\ low \in Nat /\ low <= 255
      BY <1>1
    <3> QED BY <3>1, ByteFacts
  <2>2. port = <<high, low>>
    OBVIOUS
  <2> HIDE DEF high, low, port
  <2>3. port \in Seq(Byte) /\ Len(port) = 2 /\ port[1] = high /\ port[2] = low
    BY <2>1, <2>2
  <2> QED BY <2>3 DEF high, low
<1>5. Encoded(a) = front \o port
  BY DEF Encoded
<1> HIDE DEF type, length, port, k
<1>6. h \in 1..2
  BY DEF HeaderLen
<1> HIDE DEF h
<1>7. /\ head \in Seq(Byte) /\ Len(head) = h /\ head[1] = TypeByte[a.kind]
      /\ a.kind = "name" => h = 2 /\ head[2] = k
  <2>1. a.kind = "name" => h = 2
    BY DEF h, HeaderLen
  <2>2. /\ head \in Seq(Byte) /\ Len(head) = Len(type) + Len(length)
        /\ \A i \in 1..Len(type) : head[i] = type[i]
        /\ \A i \in 1..Len(length) : head[Len(type) + i] = length[i]
    <3>1. head = type \o length
      BY DEF head
    <3>2. type \in Seq(Byte) /\ length \in Seq(Byte)
      BY <1>2, <1>3
    <3> QED BY <3>1, <3>2, ConcatFacts
  <2>3. head[1] = type[1]
    BY <1>2, <2>2
  <2>4. a.kind = "name" => head[2] = length[1]
    <3>1. a.kind = "name" => 1 \in 1..Len(length) /\ Len(type) + 1 = 2
      BY <1>2, <1>3, <1>6, <2>1
    <3> QED BY <2>2, <3>1, Zenon
  <2> QED BY <1>2, <1>3, <1>6, <2>1, <2>2, <2>3, <2>4
<1> HIDE DEF head
<1>8. /\ front \in Seq(Byte) /\ Len(front) = h + k
      /\ \A i \in 1..h : front[i] = head[i]
      /\ \A i \in 1..k : front[h + i] = a.host[i]
  <2>1. a.host \in Seq(Byte) /\ k = Len(a.host)
    BY <1>1 DEF k
  <2>2. /\ front \in Seq(Byte) /\ Len(front) = Len(head) + Len(a.host)
        /\ \A i \in 1..Len(head) : front[i] = head[i]
        /\ \A i \in 1..Len(a.host) : front[Len(head) + i] = a.host[i]
    <3>1. front = head \o a.host
      BY DEF front
    <3>2. head \in Seq(Byte) /\ a.host \in Seq(Byte)
      BY <1>7, <2>1
    <3> QED BY <3>1, <3>2, ConcatFacts
  <2> QED BY <1>7, <2>1, <2>2, Zenon
<1> HIDE DEF front
<1>9. /\ Encoded(a) \in Seq(Byte) /\ Len(Encoded(a)) = (h + k) + 2
      /\ \A i \in 1..(h + k) : Encoded(a)[i] = front[i]
      /\ Encoded(a)[(h + k) + 1] = port[1] /\ Encoded(a)[(h + k) + 2] = port[2]
  <2>1. /\ Encoded(a) \in Seq(Byte) /\ Len(Encoded(a)) = Len(front) + Len(port)
        /\ \A i \in 1..Len(front) : Encoded(a)[i] = front[i]
        /\ \A i \in 1..Len(port) : Encoded(a)[Len(front) + i] = port[i]
    <3>1. front \in Seq(Byte) /\ port \in Seq(Byte)
      BY <1>4, <1>8
    <3> QED BY <1>5, <3>1, ConcatFacts
  <2>2. 1 \in 1..Len(port) /\ 2 \in 1..Len(port)
    BY <1>4
  <2> QED BY <1>4, <1>8, <2>1, <2>2, Zenon
<1>10. Encoded(a)[1] = head[1] /\ (h = 2 => Encoded(a)[2] = head[2])
  BY <1>1, <1>6, <1>8, <1>9
<1>11. \A i \in 1..k : Encoded(a)[h + i] = a.host[i]
  BY <1>1, <1>6, <1>8, <1>9
<1> QED BY <1>4, <1>7, <1>9, <1>10, <1>11 DEF h, k

\* What a sequence is cut into.
LEMMA CutFacts ==
  ASSUME NEW T, NEW s \in Seq(T), NEW n \in 0..Len(s)
  PROVE  /\ SubSeq(s, 1, n) \in Seq(T) /\ Len(SubSeq(s, 1, n)) = n
         /\ \A i \in 1..n : SubSeq(s, 1, n)[i] = s[i]
         /\ SubSeq(s, n + 1, Len(s)) \in Seq(T)
         /\ Len(SubSeq(s, n + 1, Len(s))) = Len(s) - n
         /\ \A i \in 1..(Len(s) - n) : SubSeq(s, n + 1, Len(s))[i] = s[n + i]
<1>1. Len(s) \in Nat /\ n \in Nat /\ n <= Len(s)
  OBVIOUS
<1>2. \A i \in 1..Len(s) : s[i] \in T
  OBVIOUS
<1>3. /\ SubSeq(s, 1, n) \in Seq(T) /\ Len(SubSeq(s, 1, n)) = n
      /\ \A i \in 1..n : SubSeq(s, 1, n)[i] = s[i]
  BY <1>1, <1>2
<1>4. /\ SubSeq(s, n + 1, Len(s)) \in Seq(T)
      /\ Len(SubSeq(s, n + 1, Len(s))) = Len(s) - n
      /\ \A i \in 1..(Len(s) - n) : SubSeq(s, n + 1, Len(s))[i] = s[n + i]
  BY <1>1, <1>2
<1> QED BY <1>3, <1>4

(***************************************************************************)
(* TcpConnector: the inductive invariant.                                  *)
(***************************************************************************)

\* Data from position n + 1 on: each byte tells its position.
Ordered(s, n) == \A i \in 1..Len(s) : s[i] = n + i

\* Bytes of the address that read_from has read.
Position ==
  IF reader.at = "type" THEN 0
  ELSE IF reader.at = "length" THEN 1
  ELSE HeaderLen(asked)

Reading == reader.at \in {"type", "length", "rest"}
HasRead == reader.at \in {"connect", "relay"}

\* All variables but `unsent' have their types.
ConnectorTypes ==
  /\ asked \in Targets
  /\ sent \in [Ways -> 0..RelayLen]
  /\ shut \subseteq Ways
  /\ wire \in [Ways -> Seq(Byte)]
  /\ held \in [Ways -> Seq(Byte)]
  /\ got \in [Ways -> Seq(Byte)]
  /\ reader \in [at : {"type", "length", "rest", "connect", "relay", "failed"},
                 kind : {"v4", "name", "v6", ""}, need : Nat]
  /\ reader.need <= 257
  /\ target \in {<<>>, asked}
  /\ outcome = <<>> \/ outcome \in Ways \X {"end", "error"}

\* The address is written from its first byte on, and before any data.
UnsentInv ==
  LET E == Encoded(asked)
  IN  /\ unsent \in Seq(Byte) /\ Len(unsent) <= Len(E)
      /\ \A i \in 1..Len(unsent) : unsent[i] = E[Len(E) - Len(unsent) + i]
      /\ sent["up"] > 0 => unsent = <<>>

\* While read_from is at work: what it waits for, and where it is in the
\* address, the rest of which is on its way, before the data.
ReadingInv ==
  LET E == Encoded(asked)
      bytes == wire["up"]
      p == Position
  IN  /\ target = <<>> /\ got["up"] = <<>> /\ held["up"] = <<>>
      /\ reader.at = "length" => asked.kind = "name"
      /\ reader.at # "type" => reader.kind = asked.kind
      /\ reader.need = IF reader.at = "rest" THEN Len(asked.host) + 2 ELSE 1
      /\ p + Len(bytes) + Len(unsent) = Len(E) + sent["up"]
      /\ \A i \in 1..Len(bytes) :
           bytes[i] = IF p + i <= Len(E) THEN E[p + i] ELSE (p + i) - Len(E)

\* What a copy has moved, holds and has before it is one sequence, and all of
\* what was sent.
Copying(w) ==
  /\ Ordered(wire[w], Len(got[w]) + Len(held[w]))
  /\ Len(got[w]) + Len(held[w]) + Len(wire[w]) = sent[w]

CopyInv ==
  /\ \A w \in Ways : Ordered(got[w], 0) /\ Ordered(held[w], Len(got[w]))
  /\ \A w \in Ways : Len(got[w]) + Len(held[w]) <= sent[w]
  /\ Copying("down")

OutcomeInv ==
  /\ outcome # <<>> => reader.at = "relay"
  /\ \A w \in Ways : outcome = <<w, "end">> =>
       w \in shut /\ wire[w] = <<>> /\ held[w] = <<>>

ConnectorInv ==
  /\ ConnectorTypes
  /\ UnsentInv
  /\ Reading => ReadingInv
  /\ HasRead => target = asked /\ unsent = <<>> /\ Copying("up")
  /\ CopyInv
  /\ OutcomeInv

LEMMA AskedFacts ==
  ASSUME ConnectorTypes
  PROVE  /\ IsAddress(asked)
         /\ Encoded(asked) \in Seq(Byte) /\ Len(Encoded(asked)) \in Nat
         /\ HeaderLen(asked) \in 1..2 /\ Len(asked.host) \in Nat
         /\ Len(asked.host) <= 255
         /\ Len(Encoded(asked)) = HeaderLen(asked) + Len(asked.host) + 2
<1>1. IsAddress(asked)
  BY TargetsAssumption DEF ConnectorTypes
<1>2. /\ Len(asked.host) \in Nat /\ asked.kind \in {"v4", "name", "v6"}
      /\ Len(asked.host) <= 255
  <2>1. /\ Len(asked.host) \in Nat /\ asked.kind \in {"v4", "name", "v6"}
        /\ asked.kind = "name" => Len(asked.host) <= 255
        /\ asked.kind = "v4" => Len(asked.host) = 4
        /\ asked.kind = "v6" => Len(asked.host) = 16
    BY <1>1, AddressFacts
  <2> DEFINE k == Len(asked.host)
  <2>2. k <= 255 \/ k = 4 \/ k = 16
    BY <2>1
  <2> HIDE DEF k
  <2>3. k <= 255
    BY <2>2
  <2> QED BY <2>1, <2>3, Zenon DEF k
<1>3. HeaderLen(asked) \in 1..2
  BY DEF HeaderLen
<1>4. Encoded(asked) \in Seq(Byte)
      /\ Len(Encoded(asked)) = HeaderLen(asked) + Len(asked.host) + 2
  BY <1>1, EncodedFacts
<1> QED BY <1>1, <1>2, <1>3, <1>4

LEMMA InitConnector == ConnectorInit => ConnectorInv
<1> SUFFICES ASSUME ConnectorInit PROVE ConnectorInv
  OBVIOUS
<1> DEFINE E == Encoded(asked)
<1>1. <<>> \in Seq(Byte) /\ 0 \in 0..RelayLen
  BY RelayLenAssumption, ByteFacts
<1>2. ConnectorTypes
  <2>1. /\ asked \in Targets /\ shut \subseteq Ways /\ target \in {<<>>, asked}
        /\ outcome = <<>>
    BY DEF ConnectorInit
  <2>2. sent \in [Ways -> 0..RelayLen]
    BY <1>1 DEF ConnectorInit
  <2>3. /\ wire \in [Ways -> Seq(Byte)] /\ held \in [Ways -> Seq(Byte)]
        /\ got \in [Ways -> Seq(Byte)]
    BY <1>1 DEF ConnectorInit
  <2>4. /\ reader \in [at : {"type", "length", "rest", "connect", "relay", "failed"},
                      kind : {"v4", "name", "v6", ""}, need : Nat]
        /\ reader.need <= 257
    <3>1. reader = [at |-> "type", kind |-> "", need |-> 1]
      BY DEF ConnectorInit
    <3>2. reader.need = 1
      BY <3>1
    <3>3. reader.need <= 257
      BY <3>2
    <3> QED BY <3>1, <3>3
  <2> QED BY <2>1, <2>2, <2>3, <2>4 DEF ConnectorTypes
<1>3. E \in Seq(Byte) /\ Len(E) \in Nat
  BY <1>2, AskedFacts
<1>4. sent["up"] = 0 /\ unsent = E /\ wire["up"] = <<>>
  BY DEF ConnectorInit, Ways
<1> HIDE DEF E
<1>5. UnsentInv
  BY <1>3, <1>4 DEF UnsentInv, E
<1>6. ReadingInv /\ Reading /\ ~ HasRead
  <2>1. /\ target = <<>> /\ got["up"] = <<>> /\ held["up"] = <<>>
        /\ reader.at = "type" /\ reader.need = 1 /\ Position = 0
    BY DEF ConnectorInit, Ways, Position
  <2>2. 0 + Len(wire["up"]) + Len(unsent) = Len(E) + sent["up"] /\ Len(wire["up"]) = 0
    BY <1>3, <1>4
  <2> QED BY <2>1, <2>2 DEF ReadingInv, E, Reading, HasRead
<1>7. CopyInv
  <2>1. \A w \in Ways : got[w] = <<>> /\ held[w] = <<>> /\ wire[w] = <<>> /\ sent[w] = 0
    BY DEF ConnectorInit
  <2>2. Len(<<>>) = 0 /\ 1..0 = {}
    OBVIOUS
  <2>3. \A w \in Ways : Ordered(got[w], 0) /\ Ordered(held[w], 0) /\ Ordered(wire[w], 0)
    BY <2>1, <2>2 DEF Ordered
  <2>4. \A w \in Ways : /\ Ordered(held[w], Len(got[w]))
                         /\ Ordered(wire[w], Len(got[w]) + Len(held[w]))
                         /\ Len(got[w]) + Len(held[w]) = sent[w]
                         /\ Len(got[w]) + Len(held[w]) + Len(wire[w]) = sent[w]
    <3> SUFFICES ASSUME NEW w \in Ways
                 PROVE  /\ Ordered(held[w], Len(got[w]))
                        /\ Ordered(wire[w], Len(got[w]) + Len(held[w]))
                        /\ Len(got[w]) + Len(held[w]) = sent[w]
                        /\ Len(got[w]) + Len(held[w]) + Len(wire[w]) = sent[w]
      OBVIOUS
    <3>1. Len(got[w]) = 0 /\ Len(held[w]) = 0 /\ Len(wire[w]) = 0 /\ sent[w] = 0
      BY <2>1, <2>2, Zenon
    <3>2. 0 + 0 = 0
      OBVIOUS
    <3> QED BY <2>3, <3>1, <3>2, Zenon
  <2>5. \A w \in Ways : Len(got[w]) + Len(held[w]) <= sent[w]
    <3> SUFFICES ASSUME NEW w \in Ways PROVE Len(got[w]) + Len(held[w]) <= sent[w]
      OBVIOUS
    <3>1. Len(got[w]) = 0 /\ Len(held[w]) = 0 /\ sent[w] = 0
      BY <2>1, <2>2, Zenon
    <3> QED BY <3>1
  <2> QED BY <2>3, <2>4, <2>5 DEF CopyInv, Copying, Ways
<1>8. OutcomeInv
  BY DEF ConnectorInit, OutcomeInv
<1> QED BY <1>2, <1>5, <1>6, <1>7, <1>8 DEF ConnectorInv

LEMMA TypesExpanded ==
  ASSUME ConnectorTypes
  PROVE  /\ "up" \in Ways /\ "down" \in Ways /\ Ways = {"up", "down"}
         /\ \A w \in Ways :
              /\ sent[w] \in Nat /\ sent[w] <= RelayLen
              /\ wire[w] \in Seq(Byte) /\ Len(wire[w]) \in Nat
              /\ held[w] \in Seq(Byte) /\ Len(held[w]) \in Nat
              /\ got[w] \in Seq(Byte) /\ Len(got[w]) \in Nat
         /\ RelayLen \in Nat /\ RelayLen <= 255
<1>1. RelayLen \in Nat /\ RelayLen <= 255
  BY RelayLenAssumption, ByteFacts
<1>2. "up" \in Ways /\ "down" \in Ways /\ Ways = {"up", "down"}
  BY DEF Ways
<1>3. ASSUME NEW w \in Ways PROVE sent[w] \in Nat /\ sent[w] <= RelayLen
  <2>1. sent[w] \in 0..RelayLen
    BY DEF ConnectorTypes
  <2> QED BY <1>1, <2>1
<1>4. ASSUME NEW w \in Ways
      PROVE  /\ wire[w] \in Seq(Byte) /\ Len(wire[w]) \in Nat
             /\ held[w] \in Seq(Byte) /\ Len(held[w]) \in Nat
             /\ got[w] \in Seq(Byte) /\ Len(got[w]) \in Nat
  <2>1. wire[w] \in Seq(Byte) /\ held[w] \in Seq(Byte) /\ got[w] \in Seq(Byte)
    BY DEF ConnectorTypes
  <2> QED BY <2>1
<1> QED BY <1>1, <1>2, <1>3, <1>4

\* A piece of the address arrives: nothing else was under way behind it.
LEMMA WriteAddressKeeps ==
  ASSUME ConnectorInv, WriteAddress
  PROVE  ConnectorInv'
<1> DEFINE E == Encoded(asked)
           bytes == wire["up"]
           p == Position
<1>1. PICK n \in 1..Len(unsent) :
        /\ wire' = [wire EXCEPT !["up"] = bytes \o SubSeq(unsent, 1, n)]
        /\ unsent' = SubSeq(unsent, n + 1, Len(unsent))
        /\ UNCHANGED <<asked, sent, shut, reader, target, held, got, outcome>>
  BY DEF WriteAddress
<1>2. ConnectorTypes /\ UnsentInv /\ CopyInv /\ OutcomeInv
  BY DEF ConnectorInv
<1>3. /\ bytes \in Seq(Byte) /\ Len(bytes) \in Nat /\ "up" \in Ways
      /\ wire \in [Ways -> Seq(Byte)] /\ E \in Seq(Byte) /\ Len(E) \in Nat
  BY <1>2, TypesExpanded, AskedFacts DEF ConnectorTypes
<1>4. /\ unsent \in Seq(Byte) /\ Len(unsent) <= Len(E) /\ Len(unsent) \in Nat
      /\ \A i \in 1..Len(unsent) : unsent[i] = E[Len(E) - Len(unsent) + i]
      /\ sent["up"] > 0 => unsent = <<>>
  BY <1>2 DEF UnsentInv
<1>5. n \in 0..Len(unsent) /\ unsent # <<>> /\ n \in Nat /\ n > 0
  BY <1>1, <1>4
<1> DEFINE piece == SubSeq(unsent, 1, n)
           rest == SubSeq(unsent, n + 1, Len(unsent))
           more == bytes \o piece
<1>6. /\ piece \in Seq(Byte) /\ Len(piece) = n /\ \A i \in 1..n : piece[i] = unsent[i]
      /\ rest \in Seq(Byte) /\ Len(rest) = Len(unsent) - n
      /\ \A i \in 1..(Len(unsent) - n) : rest[i] = unsent[n + i]
  BY <1>4, <1>5, CutFacts
<1> HIDE DEF piece, rest
<1>7. /\ more \in Seq(Byte) /\ Len(more) = Len(bytes) + n
      /\ \A i \in 1..Len(bytes) : more[i] = bytes[i]
      /\ \A i \in 1..n : more[Len(bytes) + i] = piece[i]
  <2>1. piece \in Seq(Byte) /\ bytes \in Seq(Byte)
    BY <1>3, <1>6
  <2> HIDE DEF bytes
  <2>2. /\ more \in Seq(Byte) /\ Len(more) = Len(bytes) + Len(piece)
        /\ \A i \in 1..Len(bytes) : more[i] = bytes[i]
        /\ \A i \in 1..Len(piece) : more[Len(bytes) + i] = piece[i]
    BY <2>1, ConcatFacts
  <2> QED BY <1>6, <2>2
<1> HIDE DEF more
<1>8. /\ wire' = [wire EXCEPT !["up"] = more] /\ unsent' = rest
      /\ wire' \in [Ways -> Seq(Byte)] /\ wire'["up"] = more /\ wire'["down"] = wire["down"]
  <2>1. wire' = [wire EXCEPT !["up"] = more] /\ unsent' = rest
    BY <1>1 DEF more, piece, rest
  <2> QED BY <1>3, <1>7, <2>1 DEF Ways
<1>9. ConnectorTypes'
  BY <1>1, <1>2, <1>8 DEF ConnectorTypes
<1>10. UnsentInv'
  <2>1. \A i \in 1..Len(rest) : rest[i] = E[Len(E) - Len(rest) + i]
    <3>1. ASSUME NEW i \in 1..(Len(unsent) - n)
          PROVE  rest[i] = E[Len(E) - (Len(unsent) - n) + i]
      <4>1. n + i \in 1..Len(unsent)
        BY <1>4, <1>5
      <4>2. rest[i] = E[Len(E) - Len(unsent) + (n + i)]
        BY <1>4, <1>6, <4>1
      <4>3. Len(E) - Len(unsent) + (n + i) = Len(E) - (Len(unsent) - n) + i
        <5> HIDE DEF E
        <5> QED BY <1>3, <1>4, <1>5
      <4> QED BY <4>2, <4>3
    <3> QED BY <1>6, <3>1
  <2>2. sent["up"] > 0 => rest = <<>>
    BY <1>4, <1>5
  <2>3. Len(rest) <= Len(E)
    <3> HIDE DEF E
    <3> QED BY <1>3, <1>4, <1>5, <1>6
  <2>4. Encoded(asked)' = E
    BY <1>1
  <2> QED BY <1>1, <1>6, <1>8, <2>1, <2>2, <2>3, <2>4 DEF UnsentInv, E
<1>11. ~ HasRead
  BY <1>5 DEF ConnectorInv
<1>12. Reading => ReadingInv'
  <2>1. SUFFICES ASSUME Reading PROVE ReadingInv'
    OBVIOUS
  <2>2. /\ target = <<>> /\ got["up"] = <<>> /\ held["up"] = <<>>
        /\ reader.at = "length" => asked.kind = "name"
        /\ reader.at # "type" => reader.kind = asked.kind
        /\ reader.need = IF reader.at = "rest" THEN Len(asked.host) + 2 ELSE 1
        /\ p + Len(bytes) + Len(unsent) = Len(E) + sent["up"]
        /\ \A i \in 1..Len(bytes) :
             bytes[i] = IF p + i <= Len(E) THEN E[p + i] ELSE (p + i) - Len(E)
    BY <2>1 DEF ConnectorInv, ReadingInv
  <2>3. p \in Nat /\ sent["up"] = 0
    <3>1. p \in Nat
      BY <1>2, AskedFacts DEF Position
    <3>2. sent["up"] \in Nat
      BY <1>2, TypesExpanded
    <3> QED BY <1>4, <1>5, <3>1, <3>2
  <2>4. /\ Position' = p /\ Encoded(asked)' = E
    BY <1>1 DEF Position
  <2> HIDE DEF p, E, bytes
  <2> DEFINE e == Len(E)
             b == Len(bytes)
             u == Len(unsent)
  <2>10. p + b + u = e + sent["up"]
    BY <2>2
  <2>11. e \in Nat /\ b \in Nat /\ u \in Nat /\ n <= u
    BY <1>3, <1>4, <1>5
  <2>12. Len(more) = b + n /\ Len(rest) = u - n
    BY <1>6, <1>7
  <2> HIDE DEF e, b, u
  <2>13. p + b + u = e
    <3> DEFINE zero == sent["up"]
    <3>1. p + b + u = e + zero /\ zero = 0
      BY <2>3, <2>10
    <3> HIDE DEF zero
    <3> QED BY <2>11, <3>1
  <2>5. p + Len(more) + Len(rest) = Len(E) + sent["up"]
    <3>1. p + (b + n) + (u - n) = e + 0
      BY <1>5, <2>3, <2>11, <2>13
    <3> QED BY <2>3, <2>12, <3>1, Zenon DEF e
  <2>6. ASSUME NEW i \in 1..Len(more)
        PROVE  more[i] = IF p + i <= Len(E) THEN E[p + i] ELSE (p + i) - Len(E)
    <3>1. CASE i <= Len(bytes)
      <4>1. i \in 1..Len(bytes) /\ more[i] = bytes[i]
        BY <1>3, <1>7, <3>1
      <4> QED BY <2>2, <4>1
    <3>2. CASE i > Len(bytes)
      <4> DEFINE j == i - Len(bytes)
      <4>1. j \in 1..n /\ i = Len(bytes) + j
        BY <1>3, <1>5, <1>7, <3>2
      <4>2. more[i] = unsent[j]
        BY <1>6, <1>7, <4>1
      <4>3. j \in 1..Len(unsent)
        BY <1>4, <1>5, <4>1
      <4>4. unsent[j] = E[Len(E) - Len(unsent) + j]
        BY <1>4, <4>3
      <4> HIDE DEF j
      <4>5. Len(E) - Len(unsent) + j = p + i /\ p + i <= Len(E)
        <5>1. j \in Nat /\ j <= u /\ i = b + j
          BY <1>5, <2>11, <4>1 DEF b
        <5>2. e - u + j = p + i /\ p + i <= e
          BY <2>3, <2>11, <2>13, <5>1
        <5> QED BY <5>2 DEF e, u
      <4> QED BY <4>2, <4>4, <4>5
    <3> QED BY <1>3, <1>5, <1>7, <3>1, <3>2
  <2> QED BY <1>1, <1>8, <2>2, <2>4, <2>5, <2>6 DEF ReadingInv, E
<1>13. CopyInv'
  BY <1>1, <1>2, <1>8 DEF CopyInv, Copying, Ordered
<1>14. OutcomeInv'
  <2>1. outcome = <<>>
    BY <1>2, <1>11 DEF OutcomeInv, HasRead
  <2> QED BY <1>1, <2>1 DEF OutcomeInv
<1> QED BY <1>1, <1>9, <1>10, <1>11, <1>12, <1>13, <1>14
        DEF ConnectorInv, Reading, HasRead

(***************************************************************************)
(* Data in order: what is appended, cut off and joined stays in order.     *)
(***************************************************************************)

LEMMA OrderedAppend ==
  ASSUME NEW s \in Seq(Byte), NEW n \in Nat, NEW k \in Byte, Ordered(s, n),
         k = n + Len(s) + 1
  PROVE  /\ Ordered(Append(s, k), n) /\ Append(s, k) \in Seq(Byte)
         /\ Len(Append(s, k)) = Len(s) + 1
<1> DEFINE r == Append(s, k)
<1>1. /\ r \in Seq(Byte) /\ Len(r) = Len(s) + 1 /\ Len(s) \in Nat
      /\ \A i \in 1..Len(s) : r[i] = s[i]
      /\ r[Len(s) + 1] = k
  OBVIOUS
<1> HIDE DEF r
<1>2. ASSUME NEW i \in 1..Len(r) PROVE r[i] = n + i
  <2>1. CASE i \in 1..Len(s)
    BY <1>1, <2>1 DEF Ordered
  <2>2. CASE i = Len(s) + 1
    BY <1>1, <2>2
  <2> QED BY <1>1, <2>1, <2>2
<1> QED BY <1>1, <1>2 DEF Ordered, r

LEMMA OrderedCut ==
  ASSUME NEW s \in Seq(Byte), NEW n \in Nat, NEW k \in 0..Len(s), Ordered(s, n)
  PROVE  /\ Ordered(SubSeq(s, 1, k), n)
         /\ Ordered(SubSeq(s, k + 1, Len(s)), n + k)
<1> DEFINE front == SubSeq(s, 1, k)
           rest == SubSeq(s, k + 1, Len(s))
<1>1. /\ front \in Seq(Byte) /\ Len(front) = k
      /\ \A i \in 1..k : front[i] = s[i]
      /\ rest \in Seq(Byte) /\ Len(rest) = Len(s) - k
      /\ \A i \in 1..(Len(s) - k) : rest[i] = s[k + i]
  BY CutFacts
<1> HIDE DEF front, rest
<1>2. Len(s) \in Nat /\ k \in Nat /\ k <= Len(s)
  OBVIOUS
<1>3. ASSUME NEW i \in 1..k PROVE front[i] = n + i
  <2>1. i \in 1..Len(s)
    BY <1>2
  <2> QED BY <1>1, <2>1 DEF Ordered
<1>4. ASSUME NEW i \in 1..(Len(s) - k) PROVE rest[i] = (n + k) + i
  <2>1. k + i \in 1..Len(s) /\ n + (k + i) = (n + k) + i
    BY <1>2
  <2> QED BY <1>1, <2>1 DEF Ordered
<1> QED BY <1>1, <1>3, <1>4 DEF Ordered, front, rest

LEMMA OrderedJoin ==
  ASSUME NEW s \in Seq(Byte), NEW t \in Seq(Byte), NEW n \in Nat,
         Ordered(s, n), Ordered(t, n + Len(s))
  PROVE  /\ Ordered(s \o t, n) /\ s \o t \in Seq(Byte)
         /\ Len(s \o t) = Len(s) + Len(t)
<1> DEFINE r == s \o t
<1>1. /\ r \in Seq(Byte) /\ Len(r) = Len(s) + Len(t)
      /\ \A i \in 1..Len(s) : r[i] = s[i]
      /\ \A i \in 1..Len(t) : r[Len(s) + i] = t[i]
  BY ConcatFacts
<1> HIDE DEF r
<1>2. Len(s) \in Nat /\ Len(t) \in Nat
  OBVIOUS
<1>3. ASSUME NEW i \in 1..Len(r) PROVE r[i] = n + i
  <2>1. CASE i <= Len(s)
    <3>1. i \in 1..Len(s)
      BY <1>1, <1>2, <2>1
    <3> QED BY <1>1, <3>1 DEF Ordered
  <2>2. CASE i > Len(s)
    <3> DEFINE j == i - Len(s)
    <3>1. j \in 1..Len(t) /\ Len(s) + j = i /\ (n + Len(s)) + j = n + i
      BY <1>1, <1>2, <2>2
    <3> HIDE DEF j
    <3>2. r[Len(s) + j] = t[j] /\ t[j] = (n + Len(s)) + j
      BY <1>1, <3>1 DEF Ordered
    <3> QED BY <3>1, <3>2
  <2> QED BY <1>2, <2>1, <2>2
<1> QED BY <1>1, <1>3 DEF Ordered, r

\* A byte of data arrives.
LEMMA SupplyKeeps ==
  ASSUME ConnectorInv, NEW w \in Ways, Supply(w)
  PROVE  ConnectorInv'
<1> DEFINE E == Encoded(asked)
           bytes == wire[w]
           k == sent[w] + 1
           more == Append(bytes, k)
<1>1. /\ sent[w] < RelayLen /\ w \notin shut
      /\ w = "up" => unsent = <<>>
      /\ w # "up" => reader.at = "relay"
      /\ wire' = [wire EXCEPT ![w] = more]
      /\ sent' = [sent EXCEPT ![w] = k]
      /\ UNCHANGED <<asked, unsent, shut, reader, target, held, got, outcome>>
  BY DEF Supply
<1>2. ConnectorTypes /\ UnsentInv /\ CopyInv /\ OutcomeInv
  BY DEF ConnectorInv
<1>3. /\ bytes \in Seq(Byte) /\ Len(bytes) \in Nat /\ "up" \in Ways
      /\ sent[w] \in Nat /\ RelayLen \in Nat /\ RelayLen <= 255
      /\ \A v \in Ways : /\ Len(got[v]) \in Nat /\ Len(held[v]) \in Nat
                         /\ sent[v] \in Nat
  BY <1>2, TypesExpanded
<1>4. k \in Nat /\ k <= RelayLen /\ k <= 255
  BY <1>1, <1>3
<1>5. k \in Byte /\ k \in 0..RelayLen
  BY <1>3, <1>4, ByteFacts
<1>6. /\ more \in Seq(Byte) /\ Len(more) = Len(bytes) + 1
      /\ \A i \in 1..Len(bytes) : more[i] = bytes[i]
      /\ more[Len(bytes) + 1] = k
  <2> HIDE DEF bytes, k
  <2> QED BY <1>3, <1>5
<1> HIDE DEF more, k
<1>7. /\ wire' \in [Ways -> Seq(Byte)] /\ wire'[w] = more
      /\ \A v \in Ways \ {w} : wire'[v] = wire[v]
  <2>1. wire \in [Ways -> Seq(Byte)]
    BY <1>2 DEF ConnectorTypes
  <2> QED BY <1>1, <1>6, <2>1
<1>8. /\ sent' \in [Ways -> 0..RelayLen] /\ sent'[w] = k
      /\ \A v \in Ways \ {w} : sent'[v] = sent[v]
  <2>1. sent \in [Ways -> 0..RelayLen]
    BY <1>2 DEF ConnectorTypes
  <2> QED BY <1>1, <1>5, <2>1
<1>9. ConnectorTypes'
  BY <1>1, <1>2, <1>7, <1>8 DEF ConnectorTypes
<1>10. UnsentInv'
  <2>1. sent'["up"] > 0 => unsent = <<>>
    BY <1>1, <1>2, <1>3, <1>8 DEF UnsentInv
  <2> QED BY <1>1, <1>2, <2>1 DEF UnsentInv
<1>11. ASSUME Copying(w) PROVE Copying(w)'
  <2> DEFINE m == Len(got[w]) + Len(held[w])
  <2>1. /\ m \in Nat /\ Ordered(bytes, m) /\ m + Len(bytes) = sent[w]
    <3>1. m \in Nat
      <4>1. Len(got[w]) \in Nat /\ Len(held[w]) \in Nat
        BY <1>3, Zenon
      <4> QED BY <4>1, PlusNat, Zenon
    <3>2. Ordered(bytes, m) /\ m + Len(bytes) = sent[w]
      BY <1>11, Zenon DEF Copying
    <3> QED BY <3>1, <3>2
  <2>2. k = m + Len(bytes) + 1
    BY <2>1 DEF k
  <2>3. (Len(got[w]) + Len(held[w]))' = m
    BY <1>1
  <2> HIDE DEF m, bytes
  <2>4. Ordered(more, m) /\ m + Len(more) = k
    <3>1. Ordered(more, m)
      BY <1>3, <1>5, <2>1, <2>2, OrderedAppend DEF more
    <3>2. m + (Len(bytes) + 1) = k
      BY <1>3, <2>1, <2>2
    <3> QED BY <1>6, <3>1, <3>2
  <2> QED BY <1>7, <1>8, <2>3, <2>4 DEF Copying, Ordered
<1>12. ASSUME NEW v \in Ways \ {w}, Copying(v) PROVE Copying(v)'
  BY <1>1, <1>7, <1>8, <1>12 DEF Copying, Ordered
<1>13. ASSUME NEW v \in Ways, Copying(v) PROVE Copying(v)'
  BY <1>11, <1>12, <1>13
<1>14. CopyInv'
  <2>1. Copying("down")'
    BY <1>2, <1>13 DEF CopyInv, Ways
  <2>2. ASSUME NEW v \in Ways PROVE (Len(got[v]) + Len(held[v]) <= sent[v])'
    <3>1. Len(got[v]) + Len(held[v]) <= sent[v]
      BY <1>2 DEF CopyInv
    <3>2. sent'[v] = sent[v] \/ sent'[v] = sent[v] + 1
      BY <1>8 DEF k
    <3>3. (Len(got[v]) + Len(held[v]))' = Len(got[v]) + Len(held[v])
      BY <1>1
    <3> DEFINE m == Len(got[v]) + Len(held[v])
    <3>4. m \in Nat /\ sent[v] \in Nat
      <4>1. Len(got[v]) \in Nat /\ Len(held[v]) \in Nat /\ sent[v] \in Nat
        BY <1>3, Zenon
      <4> QED BY <4>1, PlusNat, Zenon
    <3>5. m <= sent[v]
      BY <3>1
    <3> HIDE DEF m
    <3>6. m <= sent'[v]
      BY <3>2, <3>4, <3>5
    <3> QED BY <3>3, <3>6, Zenon DEF m
  <2>3. (\A v \in Ways : Ordered(got[v], 0) /\ Ordered(held[v], Len(got[v])))'
    BY <1>1, <1>2 DEF CopyInv, Ordered
  <2> QED BY <2>1, <2>2, <2>3 DEF CopyInv
<1>15. Reading => ReadingInv'
  <2> SUFFICES ASSUME Reading PROVE ReadingInv'
    OBVIOUS
  <2> DEFINE p == Position
             e == Len(E)
             b == Len(bytes)
  <2>1. w = "up" /\ unsent = <<>>
    BY <1>1 DEF Reading
  <2>2. /\ target = <<>> /\ got["up"] = <<>> /\ held["up"] = <<>>
        /\ reader.at = "length" => asked.kind = "name"
        /\ reader.at # "type" => reader.kind = asked.kind
        /\ reader.need = IF reader.at = "rest" THEN Len(asked.host) + 2 ELSE 1
        /\ p + b + Len(unsent) = e + sent[w]
        /\ \A i \in 1..b :
             bytes[i] = IF p + i <= e THEN E[p + i] ELSE (p + i) - e
    BY <2>1 DEF ConnectorInv, ReadingInv
  <2>3. p \in Nat /\ e \in Nat /\ b \in Nat
    <3>1. p \in Nat
      BY <1>2, AskedFacts DEF Position
    <3>2. e \in Nat /\ b \in Nat
      BY <1>2, <1>3, AskedFacts
    <3> QED BY <3>1, <3>2
  <2>4. Position' = p /\ Encoded(asked)' = E
    BY <1>1 DEF Position
  <2> HIDE DEF p, e, b
  <2>5. Len(unsent) = 0
    BY <2>1
  <2>6. p + b = e + sent[w]
    <3>1. p + b + 0 = e + sent[w]
      BY <2>2, <2>5
    <3> QED BY <2>3, <3>1
  <2>7. p + (b + 1) + 0 = e + k
    BY <1>3, <2>3, <2>6 DEF k
  <2>8. ASSUME NEW i \in 1..(b + 1)
        PROVE  more[i] = IF p + i <= e THEN E[p + i] ELSE (p + i) - e
    <3>1. CASE i \in 1..b
      <4>1. more[i] = bytes[i]
        BY <1>6, <3>1 DEF b
      <4> QED BY <2>2, <3>1, <4>1
    <3>2. CASE i = b + 1
      <4>1. more[i] = k
        BY <1>6, <3>2 DEF b
      <4>2. ~ (p + i <= e) /\ (p + i) - e = k
        BY <1>3, <2>3, <2>6, <3>2 DEF k
      <4> QED BY <4>1, <4>2
    <3> QED BY <2>3, <3>1, <3>2
  <2>9. /\ wire'["up"] = more /\ Len(more) = b + 1 /\ sent'["up"] = k
        /\ Len(unsent') = 0
    BY <1>1, <1>6, <1>7, <1>8, <2>1, <2>5 DEF b
  <2> QED BY <1>1, <2>2, <2>4, <2>7, <2>8, <2>9 DEF ReadingInv, e
<1>16. HasRead => target = asked /\ unsent = <<>> /\ Copying("up")'
  BY <1>3, <1>13 DEF ConnectorInv
<1>17. OutcomeInv'
  <2>1. outcome # <<>> => reader.at = "relay"
    BY <1>2 DEF OutcomeInv
  <2>2. ASSUME NEW v \in Ways, outcome = <<v, "end">>
        PROVE  v \in shut /\ wire[v] = <<>> /\ held[v] = <<>> /\ v # w
    BY <1>1, <1>2, <2>2 DEF OutcomeInv
  <2>3. ASSUME NEW v \in Ways, outcome = <<v, "end">>
        PROVE  v \in shut /\ wire'[v] = <<>> /\ held[v] = <<>>
    BY <1>7, <2>2, <2>3
  <2> QED BY <1>1, <2>1, <2>3 DEF OutcomeInv
<1> QED BY <1>1, <1>9, <1>10, <1>14, <1>15, <1>16, <1>17
        DEF ConnectorInv, Reading, HasRead

\* A sender ends its stream: the ways that had ended still have.
LEMMA ShutKeeps ==
  ASSUME ConnectorInv, NEW w \in Ways, Shut(w)
  PROVE  ConnectorInv'
<1>1. /\ shut' = shut \cup {w}
      /\ UNCHANGED <<asked, unsent, sent, wire, reader, target, held, got, outcome>>
  BY DEF Shut
<1>2. ConnectorTypes'
  BY <1>1 DEF ConnectorInv, ConnectorTypes
<1>3. UnsentInv'
  BY <1>1 DEF ConnectorInv, UnsentInv
<1>4. Reading' => ReadingInv'
  BY <1>1 DEF ConnectorInv, Reading, ReadingInv, Position
<1>5. CopyInv' /\ (HasRead' => target' = asked' /\ unsent' = <<>> /\ Copying("up")')
  BY <1>1 DEF ConnectorInv, HasRead, CopyInv, Copying, Ordered
<1>6. OutcomeInv'
  BY <1>1 DEF ConnectorInv, OutcomeInv
<1> QED BY <1>2, <1>3, <1>4, <1>5, <1>6 DEF ConnectorInv

\* read_from waits no longer; or the connection is opened or refused.
LEMMA ReaderMovesKeep ==
  ASSUME ConnectorInv, ReadFails \/ Connect
  PROVE  ConnectorInv'
<1>1. UNCHANGED <<asked, unsent, sent, shut, wire, target, held, got, outcome>>
  BY DEF ReadFails, Connect
<1>2. PICK at \in {"relay", "failed"} :
        /\ reader' = [reader EXCEPT !.at = at]
        /\ reader.at # "relay"
        /\ at = "relay" => reader.at = "connect"
  <2>1. CASE ReadFails
    BY <2>1 DEF ReadFails
  <2>2. CASE Connect
    BY <2>2 DEF Connect
  <2> QED BY <2>1, <2>2
<1>3. ConnectorTypes /\ OutcomeInv /\ reader'.at = at
  BY <1>2 DEF ConnectorInv, ConnectorTypes
<1>4. ConnectorTypes'
  BY <1>1, <1>2, <1>3 DEF ConnectorTypes
<1>5. UnsentInv'
  BY <1>1 DEF ConnectorInv, UnsentInv
<1>6. ~ Reading'
  BY <1>3 DEF Reading
<1>7. HasRead' => HasRead
  BY <1>2, <1>3 DEF HasRead
<1>8. CopyInv' /\ (HasRead => target' = asked' /\ unsent' = <<>> /\ Copying("up")')
  BY <1>1 DEF ConnectorInv, CopyInv, Copying, Ordered
<1>9. OutcomeInv'
  BY <1>1, <1>2, <1>3 DEF OutcomeInv
<1> QED BY <1>4, <1>5, <1>6, <1>7, <1>8, <1>9 DEF ConnectorInv

\* While the relay runs, both ways are copied in order.
LEMMA RelayingFacts ==
  ASSUME ConnectorInv, Relaying
  PROVE  /\ reader.at = "relay" /\ ~ Reading /\ HasRead
         /\ target = asked /\ unsent = <<>> /\ outcome = <<>>
         /\ \A w \in Ways :
              /\ Copying(w) /\ Ordered(got[w], 0) /\ Ordered(held[w], Len(got[w]))
              /\ Len(got[w]) + Len(held[w]) <= sent[w]
<1>1. reader.at = "relay" /\ outcome = <<>> /\ ~ Reading /\ HasRead
  BY DEF Relaying, Reading, HasRead
<1>2. target = asked /\ unsent = <<>> /\ Copying("up") /\ CopyInv
  BY <1>1 DEF ConnectorInv
<1>3. ASSUME NEW w \in Ways
      PROVE  /\ Copying(w) /\ Ordered(got[w], 0) /\ Ordered(held[w], Len(got[w]))
             /\ Len(got[w]) + Len(held[w]) <= sent[w]
  BY <1>2 DEF CopyInv, Ways
<1> QED BY <1>1, <1>2, <1>3

\* What ends the relay.
LEMMA EndKeeps ==
  ASSUME ConnectorInv, NEW w \in Ways, Finish(w) \/ Break(w)
  PROVE  ConnectorInv'
<1>1. /\ UNCHANGED <<asked, unsent, sent, shut, wire, reader, target, held, got>>
      /\ Relaying
  BY DEF Finish, Break
<1>2. reader.at = "relay"
  BY <1>1 DEF Relaying
<1>3. \/ /\ outcome' = <<w, "end">>
         /\ w \in shut /\ wire[w] = <<>> /\ held[w] = <<>>
      \/ outcome' = <<w, "error">>
  BY DEF Finish, Break, Copied
<1>4. ConnectorTypes'
  <2>1. outcome' \in Ways \X {"end", "error"}
    BY <1>3
  <2> QED BY <1>1, <2>1 DEF ConnectorInv, ConnectorTypes
<1>5. UnsentInv'
  BY <1>1 DEF ConnectorInv, UnsentInv
<1>6. Reading' => ReadingInv'
  BY <1>1, <1>2 DEF Reading
<1>7. CopyInv' /\ (HasRead' => target' = asked' /\ unsent' = <<>> /\ Copying("up")')
  BY <1>1 DEF ConnectorInv, HasRead, CopyInv, Copying, Ordered
<1>8. OutcomeInv'
  <2>1. ASSUME NEW v \in Ways, outcome' = <<v, "end">>
        PROVE  v \in shut /\ wire[v] = <<>> /\ held[v] = <<>>
    <3>1. outcome' = <<w, "end">> /\ v = w
      BY <1>3, <2>1
    <3> QED BY <1>3, <2>1, <3>1
  <2> QED BY <1>1, <1>2, <2>1 DEF OutcomeInv
<1> QED BY <1>4, <1>5, <1>6, <1>7, <1>8 DEF ConnectorInv

\* A copy moves data: in `wire', `held' and `got' of its way, and of no other,
\* the same data lies in the same order.
LEMMA MovedKeeps ==
  ASSUME ConnectorInv, Relaying, NEW w \in Ways,
         UNCHANGED <<asked, unsent, sent, shut, reader, target, outcome>>,
         wire' \in [Ways -> Seq(Byte)], held' \in [Ways -> Seq(Byte)],
         got' \in [Ways -> Seq(Byte)],
         \A v \in Ways \ {w} :
           wire'[v] = wire[v] /\ held'[v] = held[v] /\ got'[v] = got[v],
         Copying(w)', Ordered(got'[w], 0), Ordered(held'[w], Len(got'[w])),
         Len(got'[w]) + Len(held'[w]) <= sent[w]
  PROVE  ConnectorInv'
<1>1. /\ reader.at = "relay" /\ target = asked /\ unsent = <<>> /\ outcome = <<>>
      /\ ~ Reading /\ HasRead
      /\ \A v \in Ways :
           /\ Copying(v) /\ Ordered(got[v], 0) /\ Ordered(held[v], Len(got[v]))
           /\ Len(got[v]) + Len(held[v]) <= sent[v]
  BY RelayingFacts
<1>2. ConnectorTypes'
  BY DEF ConnectorInv, ConnectorTypes
<1>3. UnsentInv'
  BY DEF ConnectorInv, UnsentInv
<1>4. ~ Reading'
  BY <1>1 DEF Reading
<1>5. ASSUME NEW v \in Ways
      PROVE  /\ Copying(v)' /\ Ordered(got'[v], 0) /\ Ordered(held'[v], Len(got'[v]))
             /\ Len(got'[v]) + Len(held'[v]) <= sent[v]
  <2>1. CASE v = w
    BY <2>1
  <2>2. CASE v # w
    <3>1. wire'[v] = wire[v] /\ held'[v] = held[v] /\ got'[v] = got[v] /\ sent'[v] = sent[v]
      BY <2>2
    <3>2. Copying(v)'
      <4>1. Copying(v)
        BY <1>1
      <4> QED BY <3>1, <4>1, Zenon DEF Copying, Ordered
    <3> QED BY <1>1, <3>1, <3>2, Zenon
  <2> QED BY <2>1, <2>2
<1>6. CopyInv'
  BY <1>5 DEF CopyInv, Ordered, Ways
<1>7. Copying("up")'
  BY <1>5 DEF Ways
<1>8. OutcomeInv'
  BY <1>1 DEF OutcomeInv
<1> QED BY <1>1, <1>2, <1>3, <1>4, <1>6, <1>7, <1>8 DEF ConnectorInv

LEMMA FillKeeps ==
  ASSUME ConnectorInv, NEW w \in Ways, Fill(w)
  PROVE  ConnectorInv'
<1>1. /\ Relaying /\ held[w] = <<>>
      /\ UNCHANGED <<asked, unsent, sent, shut, reader, target, got, outcome>>
  BY DEF Fill
<1>2. PICK n \in 1..Len(wire[w]) :
        /\ held' = [held EXCEPT ![w] = SubSeq(wire[w], 1, n)]
        /\ wire' = [wire EXCEPT ![w] = SubSeq(wire[w], n + 1, Len(wire[w]))]
  BY DEF Fill
<1>3. ConnectorTypes
  BY DEF ConnectorInv
<1> DEFINE s == wire[w]
           g == Len(got[w])
           piece == SubSeq(s, 1, n)
           rest == SubSeq(s, n + 1, Len(s))
<1>4. /\ s \in Seq(Byte) /\ g \in Nat /\ sent[w] \in Nat /\ got[w] \in Seq(Byte)
  BY <1>3, TypesExpanded
<1>5. Ordered(s, g) /\ g + Len(s) = sent[w] /\ Ordered(got[w], 0)
  <2>1. /\ Ordered(s, g + Len(held[w])) /\ (g + Len(held[w])) + Len(s) = sent[w]
        /\ Ordered(got[w], 0)
    BY <1>1, RelayingFacts DEF Copying
  <2>2. Len(held[w]) = 0
    BY <1>1
  <2>3. g + Len(held[w]) = g
    <3> HIDE DEF g
    <3>1. g + 0 = g
      BY <1>4
    <3> QED BY <2>2, <3>1, Zenon
  <2> HIDE DEF g, s
  <2> QED BY <2>1, <2>3, Zenon
<1> HIDE DEF s, g
<1>6. n \in 0..Len(s) /\ n \in Nat /\ Len(s) \in Nat
  BY <1>2, <1>4 DEF s
<1>7. /\ piece \in Seq(Byte) /\ Len(piece) = n
      /\ rest \in Seq(Byte) /\ Len(rest) = Len(s) - n
  BY <1>4, <1>6, CutFacts
<1>8. Ordered(piece, g) /\ Ordered(rest, g + n)
  BY <1>4, <1>5, <1>6, OrderedCut
<1> HIDE DEF piece, rest
<1>9. held' = [held EXCEPT ![w] = piece] /\ wire' = [wire EXCEPT ![w] = rest]
  BY <1>2 DEF piece, rest, s
<1>10. held \in [Ways -> Seq(Byte)] /\ wire \in [Ways -> Seq(Byte)]
       /\ got \in [Ways -> Seq(Byte)]
  BY <1>3 DEF ConnectorTypes
<1>11. /\ held' \in [Ways -> Seq(Byte)] /\ wire' \in [Ways -> Seq(Byte)]
       /\ got' \in [Ways -> Seq(Byte)] /\ got' = got
       /\ held'[w] = piece /\ wire'[w] = rest
       /\ \A v \in Ways \ {w} : wire'[v] = wire[v] /\ held'[v] = held[v]
  BY <1>1, <1>7, <1>9, <1>10
<1>12. g + n + (Len(s) - n) = sent[w] /\ g + n <= sent[w]
  BY <1>2, <1>4, <1>5, <1>6
<1>13. Len(got'[w]) = g /\ Len(held'[w]) = n /\ Len(wire'[w]) = Len(s) - n
  BY <1>7, <1>11 DEF g
<1>14. sent' = sent
  BY <1>1
<1>15. Copying(w)'
  <2>1. Len(got[w])' + Len(held[w])' = g + n
    BY <1>13
  <2>2. Ordered(wire'[w], g + n)
    BY <1>8, <1>11
  <2> QED BY <1>12, <1>13, <1>14, <2>1, <2>2, Zenon DEF Copying, Ordered
<1>16. /\ Ordered(got'[w], 0) /\ Ordered(held'[w], Len(got'[w]))
       /\ Len(got'[w]) + Len(held'[w]) <= sent[w]
  <2>1. Ordered(got'[w], 0)
    BY <1>5, <1>11
  <2>2. Ordered(held'[w], Len(got'[w]))
    BY <1>8, <1>11, <1>13
  <2>3. Len(got'[w]) + Len(held'[w]) <= sent[w]
    BY <1>12, <1>13
  <2> QED BY <2>1, <2>2, <2>3
<1> QED BY <1>1, <1>11, <1>15, <1>16, MovedKeeps

LEMMA DrainKeeps ==
  ASSUME ConnectorInv, NEW w \in Ways, Drain(w)
  PROVE  ConnectorInv'
<1>1. /\ Relaying
      /\ UNCHANGED <<asked, unsent, sent, shut, wire, reader, target, outcome>>
  BY DEF Drain
<1>2. PICK n \in 1..Len(held[w]) :
        /\ got' = [got EXCEPT ![w] = got[w] \o SubSeq(held[w], 1, n)]
        /\ held' = [held EXCEPT ![w] = SubSeq(held[w], n + 1, Len(held[w]))]
  BY DEF Drain, Sink
<1>3. ConnectorTypes
  BY DEF ConnectorInv
<1> DEFINE s == held[w]
           d == got[w]
           g == Len(d)
           piece == SubSeq(s, 1, n)
           rest == SubSeq(s, n + 1, Len(s))
           more == d \o piece
<1>4. /\ s \in Seq(Byte) /\ g \in Nat /\ sent[w] \in Nat /\ d \in Seq(Byte)
      /\ Len(wire[w]) \in Nat
  BY <1>3, TypesExpanded
<1>5. /\ Ordered(s, g) /\ Ordered(d, 0) /\ Ordered(wire[w], g + Len(s))
      /\ g + Len(s) + Len(wire[w]) = sent[w] /\ g + Len(s) <= sent[w]
  BY <1>1, RelayingFacts DEF Copying
<1> HIDE DEF s, g, d
<1>6. n \in 0..Len(s) /\ n \in Nat /\ Len(s) \in Nat
  BY <1>2, <1>4 DEF s
<1>7. /\ piece \in Seq(Byte) /\ Len(piece) = n
      /\ rest \in Seq(Byte) /\ Len(rest) = Len(s) - n
  BY <1>4, <1>6, CutFacts
<1>8. Ordered(piece, g) /\ Ordered(rest, g + n)
  BY <1>4, <1>5, <1>6, OrderedCut
<1> HIDE DEF piece, rest
<1>9. Ordered(more, 0) /\ more \in Seq(Byte) /\ Len(more) = g + n
  <2>1. 0 \in Nat /\ Ordered(piece, 0 + Len(d))
    <3>1. 0 + Len(d) = g
      BY <1>4 DEF g
    <3> QED BY <1>8, <3>1
  <2>2. /\ Ordered(more, 0) /\ more \in Seq(Byte)
        /\ Len(more) = Len(d) + Len(piece)
    BY <1>4, <1>5, <1>7, <2>1, OrderedJoin
  <2> HIDE DEF more
  <2> QED BY <1>7, <2>2, Zenon DEF g
<1> HIDE DEF more
<1>10. held' = [held EXCEPT ![w] = rest] /\ got' = [got EXCEPT ![w] = more]
  BY <1>2 DEF piece, rest, s, more, d
<1>11. held \in [Ways -> Seq(Byte)] /\ wire \in [Ways -> Seq(Byte)]
       /\ got \in [Ways -> Seq(Byte)]
  BY <1>3 DEF ConnectorTypes
<1>12. /\ held' \in [Ways -> Seq(Byte)] /\ wire' \in [Ways -> Seq(Byte)]
       /\ got' \in [Ways -> Seq(Byte)] /\ wire' = wire
       /\ held'[w] = rest /\ got'[w] = more
       /\ \A v \in Ways \ {w} : got'[v] = got[v] /\ held'[v] = held[v]
  BY <1>1, <1>7, <1>9, <1>10, <1>11
<1>13. (g + n) + (Len(s) - n) = g + Len(s)
  BY <1>4, <1>6
<1>14. Len(got'[w]) = g + n /\ Len(held'[w]) = Len(s) - n /\ sent' = sent
  BY <1>1, <1>7, <1>9, <1>12
<1>15. Len(got'[w]) + Len(held'[w]) = g + Len(s)
  BY <1>13, <1>14
<1>16. Copying(w)'
  <2>1. Ordered(wire'[w], g + Len(s)) /\ g + Len(s) + Len(wire'[w]) = sent'[w]
    BY <1>5, <1>12, <1>14, Zenon
  <2> QED BY <1>15, <2>1, Zenon DEF Copying, Ordered
<1>17. /\ Ordered(got'[w], 0) /\ Ordered(held'[w], Len(got'[w]))
       /\ Len(got'[w]) + Len(held'[w]) <= sent[w]
  BY <1>5, <1>8, <1>9, <1>12, <1>14, <1>15, Zenon
<1> QED BY <1>1, <1>12, <1>16, <1>17, MovedKeeps

(***************************************************************************)
(* Address::read_from.                                                     *)
(***************************************************************************)

\* The bytes that read_from has waited for are the next ones of the address,
\* and what follows them stays in the stream.
LEMMA ReadBytes ==
  ASSUME ConnectorInv, Reading, Arrived(reader.need)
  PROVE  LET E == Encoded(asked)
             n == reader.need
             s == wire["up"]
             rest == SubSeq(s, n + 1, Len(s))
             p == Position
         IN  /\ n \in Nat /\ n > 0 /\ p \in Nat /\ p + n <= Len(E)
             /\ Bytes(n) \in Seq(Byte) /\ Len(Bytes(n)) = n
             /\ \A i \in 1..n : Bytes(n)[i] = E[p + i]
             /\ rest \in Seq(Byte)
             /\ (p + n) + Len(rest) + Len(unsent) = Len(E) + sent["up"]
             /\ \A i \in 1..Len(rest) :
                  rest[i] = IF (p + n) + i <= Len(E) THEN E[(p + n) + i]
                            ELSE ((p + n) + i) - Len(E)
<1> DEFINE E == Encoded(asked)
           e == Len(E)
           n == reader.need
           s == wire["up"]
           b == Len(s)
           u == Len(unsent)
           rest == SubSeq(s, n + 1, b)
           p == Position
           h == HeaderLen(asked)
           k == Len(asked.host)
<1>1. ConnectorTypes /\ UnsentInv /\ ReadingInv
  BY DEF ConnectorInv
<1>2. /\ h \in 1..2 /\ k \in Nat /\ e = h + k + 2 /\ e \in Nat /\ E \in Seq(Byte)
      /\ s \in Seq(Byte) /\ b \in Nat /\ sent["up"] \in Nat
      /\ unsent \in Seq(Byte) /\ u \in Nat
  BY <1>1, AskedFacts, TypesExpanded DEF UnsentInv
<1>3. /\ reader.at \in {"type", "length", "rest"}
      /\ reader.at = "length" => asked.kind = "name"
      /\ n = IF reader.at = "rest" THEN k + 2 ELSE 1
      /\ p + b + u = e + sent["up"]
      /\ \A i \in 1..b : s[i] = IF p + i <= e THEN E[p + i] ELSE (p + i) - e
  BY <1>1 DEF ReadingInv, Reading
<1>4. b >= n
  BY DEF Arrived
<1>5. \/ n = 1 /\ p = 0
      \/ n = 1 /\ p = 1 /\ h = 2
      \/ n = k + 2 /\ p = h
  <2>1. CASE reader.at = "type"
    BY <1>3, <2>1 DEF Position
  <2>2. CASE reader.at = "length"
    BY <1>3, <2>2 DEF Position, HeaderLen
  <2>3. CASE reader.at = "rest"
    BY <1>3, <2>3 DEF Position
  <2> QED BY <1>3, <2>1, <2>2, <2>3
<1> HIDE DEF E, e, n, s, b, u, p, h, k
<1>6. n \in Nat /\ n > 0 /\ p \in Nat /\ p + n <= e
  BY <1>2, <1>5
<1>7. \A i \in 1..n : s[i] = E[p + i] /\ i <= b
  <2> SUFFICES ASSUME NEW i \in 1..n PROVE s[i] = E[p + i] /\ i <= b
    OBVIOUS
  <2>1. i \in 1..b /\ p + i <= e /\ i <= b
    BY <1>2, <1>4, <1>6
  <2> QED BY <1>3, <2>1
<1>8. /\ Bytes(n) \in Seq(Byte) /\ Len(Bytes(n)) = n
      /\ \A i \in 1..n : Bytes(n)[i] = s[i]
  <2>1. Bytes(n) = [i \in 1..n |-> s[i]]
    BY <1>7 DEF Bytes, s, b
  <2>2. \A i \in 1..n : s[i] \in Byte
    <3>1. \A i \in 1..n : i \in 1..Len(s)
      BY <1>2, <1>4, <1>6 DEF b
    <3> QED BY <1>2, <3>1
  <2> QED BY <1>6, <2>1, <2>2
<1>9. n \in 0..Len(s)
  BY <1>2, <1>4, <1>6 DEF b
<1>10. /\ rest \in Seq(Byte) /\ Len(rest) = b - n
       /\ \A i \in 1..(b - n) : rest[i] = s[n + i]
  BY <1>2, <1>9, CutFacts DEF b
<1> HIDE DEF rest
<1>11. (p + n) + (b - n) + u = e + sent["up"]
  <2> DEFINE m == sent["up"]
  <2>1. m \in Nat /\ p + b + u = e + m
    BY <1>2, <1>3
  <2> HIDE DEF m
  <2>2. (p + n) + (b - n) + u = e + m
    BY <1>2, <1>6, <2>1
  <2> QED BY <2>2 DEF m
<1>12. ASSUME NEW i \in 1..(b - n)
       PROVE  rest[i] = IF (p + n) + i <= e THEN E[(p + n) + i]
                        ELSE ((p + n) + i) - e
  <2>1. n + i \in 1..b /\ p + (n + i) = (p + n) + i
    BY <1>2, <1>4, <1>6
  <2>2. s[n + i] = IF p + (n + i) <= e THEN E[p + (n + i)] ELSE (p + (n + i)) - e
    BY <1>3, <2>1
  <2>3. rest[i] = s[n + i]
    BY <1>10
  <2> DEFINE q == p + (n + i)
             r == (p + n) + i
  <2>4. q = r /\ s[n + i] = IF q <= e THEN E[q] ELSE q - e
    <3>1. q = r
      BY <2>1
    <3> QED BY <2>2, <3>1, Zenon
  <2> HIDE DEF q
  <2>5. rest[i] = IF r <= e THEN E[r] ELSE r - e
    <3> HIDE DEF r
    <3> QED BY <2>3, <2>4, Zenon
  <2> QED BY <2>5, Zenon
<1>13. /\ n \in Nat /\ n > 0 /\ p \in Nat /\ p + n <= e
       /\ Bytes(n) \in Seq(Byte) /\ Len(Bytes(n)) = n
       /\ \A i \in 1..n : Bytes(n)[i] = E[p + i]
       /\ rest \in Seq(Byte)
       /\ (p + n) + Len(rest) + u = e + sent["up"]
       /\ \A i \in 1..Len(rest) :
            rest[i] = IF (p + n) + i <= e THEN E[(p + n) + i]
                      ELSE ((p + n) + i) - e
  BY <1>6, <1>7, <1>8, <1>10, <1>11, <1>12
<1> QED BY <1>13, Zenon DEF E, e, n, s, b, u, rest, p

\* Host and port are read back.
LEMMA DecodedIsAsked ==
  ASSUME NEW a, IsAddress(a), NEW bytes \in Seq(Byte),
         Len(bytes) = Len(a.host) + 2,
         \A i \in 1..Len(bytes) : bytes[i] = Encoded(a)[HeaderLen(a) + i]
  PROVE  [kind |-> a.kind, host |-> SubSeq(bytes, 1, Len(bytes) - 2),
          port |-> Port(bytes)] = a
<1> DEFINE k == Len(a.host)
           h == HeaderLen(a)
           host == SubSeq(bytes, 1, k)
           high == a.port \div 256
           low == a.port % 256
<1>1. /\ k \in Nat /\ a.host \in Seq(Byte) /\ a.port \in Nat
      /\ a = [kind |-> a.kind, host |-> a.host, port |-> a.port]
  BY AddressFacts
<1>2. h \in Nat
  BY DEF HeaderLen
<1>3. /\ \A i \in 1..k : Encoded(a)[h + i] = a.host[i]
      /\ Encoded(a)[h + k + 1] = high
      /\ Encoded(a)[h + k + 2] = low
  BY EncodedFacts
<1>4. Len(bytes) = k + 2 /\ \A i \in 1..(k + 2) : bytes[i] = Encoded(a)[h + i]
  OBVIOUS
<1>5. a.port = high * 256 + low
  BY <1>1
<1> HIDE DEF k, h, high, low
<1>6. host = a.host
  <2>1. k \in 0..Len(bytes)
    BY <1>1, <1>4
  <2>2. host \in Seq(Byte) /\ Len(host) = k /\ \A i \in 1..k : host[i] = bytes[i]
    BY <2>1, CutFacts
  <2>3. \A i \in 1..k : bytes[i] = a.host[i]
    <3> SUFFICES ASSUME NEW i \in 1..k PROVE bytes[i] = a.host[i]
      OBVIOUS
    <3>1. i \in 1..(k + 2)
      BY <1>1
    <3> QED BY <1>3, <1>4, <3>1
  <2> HIDE DEF host
  <2>4. Len(a.host) = k
    BY DEF k
  <2> QED BY <1>1, <2>2, <2>3, <2>4, SeqEqual
<1>7. Port(bytes) = high * 256 + low
  <2>1. (k + 2) - 1 = k + 1 /\ k + 1 \in 1..(k + 2) /\ k + 2 \in 1..(k + 2)
    BY <1>1
  <2>2. h + (k + 1) = h + k + 1 /\ h + (k + 2) = h + k + 2
    BY <1>1, <1>2
  <2>3. bytes[k + 1] = high /\ bytes[k + 2] = low
    BY <1>3, <1>4, <2>1, <2>2
  <2> QED BY <1>4, <2>1, <2>3, Zenon DEF Port
<1>8. Len(bytes) - 2 = k
  BY <1>1, <1>4
<1> QED BY <1>1, <1>5, <1>6, <1>7, <1>8, Zenon

\* The type says how the address goes on; the length, how long it is; and with
\* the rest of it the reader has the address asked for, and the stream stands at
\* the first byte of data.
LEMMA ReadFromKeeps ==
  ASSUME ConnectorInv, ReadFrom
  PROVE  ConnectorInv'
<1> DEFINE E == Encoded(asked)
           n == reader.need
           s == wire["up"]
           rest == SubSeq(s, n + 1, Len(s))
           p == Position
           bytes == Bytes(n)
           k == Len(asked.host)
           h == HeaderLen(asked)
<1>1. /\ Reading /\ Arrived(n)
      /\ wire' = [wire EXCEPT !["up"] = rest]
      /\ UNCHANGED <<asked, unsent, sent, shut, held, got, outcome>>
  BY DEF ReadFrom, Reading
<1>2. ConnectorTypes /\ UnsentInv /\ ReadingInv /\ CopyInv /\ OutcomeInv
  BY <1>1 DEF ConnectorInv
<1>3. /\ n \in Nat /\ n > 0 /\ p \in Nat /\ p + n <= Len(E)
      /\ bytes \in Seq(Byte) /\ Len(bytes) = n
      /\ \A i \in 1..n : bytes[i] = E[p + i]
      /\ rest \in Seq(Byte)
      /\ (p + n) + Len(rest) + Len(unsent) = Len(E) + sent["up"]
      /\ \A i \in 1..Len(rest) :
           rest[i] = IF (p + n) + i <= Len(E) THEN E[(p + n) + i]
                     ELSE ((p + n) + i) - Len(E)
  BY <1>1, ReadBytes
<1>4. /\ reader.at \in {"type", "length", "rest"}
      /\ target = <<>> /\ got["up"] = <<>> /\ held["up"] = <<>>
      /\ reader.at = "length" => asked.kind = "name"
      /\ reader.at # "type" => reader.kind = asked.kind
      /\ n = IF reader.at = "rest" THEN k + 2 ELSE 1
  BY <1>1, <1>2 DEF ReadingInv, Reading
<1>5. /\ IsAddress(asked) /\ k \in Nat /\ h \in 1..2 /\ Len(E) = h + k + 2
      /\ asked.kind \in {"v4", "name", "v6"}
      /\ E[1] = TypeByte[asked.kind]
      /\ asked.kind = "name" => E[2] = k
      /\ asked.kind = "v4" => k = 4
      /\ asked.kind = "v6" => k = 16
  BY <1>2, AskedFacts, AddressFacts, EncodedFacts
<1> HIDE DEF E, n, s, rest, p, bytes, k, h
<1>6. /\ wire' \in [Ways -> Seq(Byte)] /\ wire'["up"] = rest
      /\ wire'["down"] = wire["down"]
  <2>1. wire \in [Ways -> Seq(Byte)] /\ "up" \in Ways /\ "down" # "up"
    BY <1>2 DEF ConnectorTypes, Ways
  <2> QED BY <1>1, <1>3, <2>1 DEF Ways
<1>7. \/ /\ reader.at = "type" /\ UNCHANGED target
         /\ reader' = AfterType(asked.kind)
      \/ /\ reader.at = "length" /\ UNCHANGED target
         /\ reader' = [reader EXCEPT !.at = "rest", !.need = k + 2]
      \/ /\ reader.at = "rest"
         /\ target' = asked
         /\ reader' = [reader EXCEPT !.at = "connect"]
  <2>1. CASE /\ reader.at = "type" /\ UNCHANGED target
             /\ \E kind \in DOMAIN TypeByte :
                  TypeByte[kind] = bytes[1] /\ reader' = AfterType(kind)
    <3>1. p = 0 /\ n = 1
      BY <1>4, <2>1 DEF Position, p
    <3>2. bytes[1] = E[1]
      <4>1. 1 \in 1..n /\ p + 1 = 1
        BY <3>1
      <4> QED BY <1>3, <4>1
    <3>3. PICK kind \in DOMAIN TypeByte :
            TypeByte[kind] = TypeByte[asked.kind] /\ reader' = AfterType(kind)
      BY <1>5, <2>1, <3>2
    <3>4. kind = asked.kind
      BY <1>5, <3>3, TypeBytes
    <3> QED BY <2>1, <3>3, <3>4
  <2>2. CASE /\ reader.at = "type"
             /\ bytes[1] \notin {TypeByte[kind] : kind \in DOMAIN TypeByte}
    <3>1. p = 0 /\ n = 1
      BY <1>4, <2>2 DEF Position, p
    <3>2. bytes[1] = E[1]
      <4>1. 1 \in 1..n /\ p + 1 = 1
        BY <3>1
      <4> QED BY <1>3, <4>1
    <3>3. asked.kind \in DOMAIN TypeByte
      BY <1>5, TypeBytes
    <3> QED BY <1>5, <2>2, <3>2, <3>3
  <2>3. CASE /\ reader.at = "length" /\ UNCHANGED target
             /\ reader' = [reader EXCEPT !.at = "rest",
                                         !.need = RestLength("name", bytes[1])]
    <3>1. p = 1 /\ n = 1 /\ asked.kind = "name"
      BY <1>4, <2>3 DEF Position, p
    <3>2. bytes[1] = E[2]
      <4>1. 1 \in 1..n /\ p + 1 = 2
        BY <3>1
      <4> QED BY <1>3, <4>1
    <3>3. RestLength("name", bytes[1]) = k + 2
      BY <1>5, <3>1, <3>2 DEF RestLength
    <3> QED BY <2>3, <3>3
  <2>4. CASE /\ reader.at = "rest"
             /\ target' = [kind |-> reader.kind,
                           host |-> SubSeq(bytes, 1, Len(bytes) - 2),
                           port |-> Port(bytes)]
             /\ reader' = [reader EXCEPT !.at = "connect"]
    <3>1. p = h /\ n = k + 2 /\ reader.kind = asked.kind
      BY <1>4, <2>4 DEF Position, p, h
    <3>2. /\ Len(bytes) = Len(asked.host) + 2
          /\ \A i \in 1..Len(bytes) : bytes[i] = Encoded(asked)[HeaderLen(asked) + i]
      <4>1. Len(bytes) = n /\ \A i \in 1..n : bytes[i] = E[h + i]
        BY <1>3, <3>1
      <4> QED BY <3>1, <4>1, Zenon DEF k, E, h
    <3>3. [kind |-> asked.kind, host |-> SubSeq(bytes, 1, Len(bytes) - 2),
           port |-> Port(bytes)] = asked
      <4>1. bytes \in Seq(Byte) /\ IsAddress(asked)
        BY <1>3, <1>5
      <4> QED BY <3>2, <4>1, DecodedIsAsked
    <3>4. target' = asked
      BY <2>4, <3>1, <3>3, Zenon
    <3> QED BY <2>4, <3>4
  <2> QED BY <2>1, <2>2, <2>3, <2>4 DEF ReadFrom, bytes, n
<1>8. reader \in [at : {"type", "length", "rest", "connect", "relay", "failed"},
                  kind : {"v4", "name", "v6", ""}, need : Nat]
  BY <1>2 DEF ConnectorTypes
<1>9. \/ /\ UNCHANGED target
         /\ reader'.at \in {"length", "rest"} /\ reader'.kind = asked.kind
         /\ reader'.at = "length" => asked.kind = "name"
         /\ reader'.need = IF reader'.at = "rest" THEN k + 2 ELSE 1
         /\ p + n = IF reader'.at = "length" THEN 1 ELSE h
         /\ reader' \in [at : {"type", "length", "rest", "connect", "relay", "failed"},
                         kind : {"v4", "name", "v6", ""}, need : Nat]
      \/ /\ target' = asked
         /\ reader'.at = "connect" /\ reader'.need = reader.need
         /\ p + n = Len(E)
         /\ reader' \in [at : {"type", "length", "rest", "connect", "relay", "failed"},
                         kind : {"v4", "name", "v6", ""}, need : Nat]
  <2>1. CASE reader.at = "type" /\ UNCHANGED target /\ reader' = AfterType(asked.kind)
    <3>1. p = 0 /\ n = 1
      BY <1>4, <2>1 DEF Position, p
    <3>2. CASE asked.kind = "name"
      <4>1. reader' = [at |-> "length", kind |-> "name", need |-> 1]
        BY <2>1, <3>2 DEF AfterType
      <4>2. p + n = 1
        BY <3>1
      <4>3. /\ reader'.at = "length" /\ reader'.kind = asked.kind /\ reader'.need = 1
            /\ reader' \in [at : {"type", "length", "rest", "connect", "relay", "failed"},
                            kind : {"v4", "name", "v6", ""}, need : Nat]
        BY <3>2, <4>1
      <4> QED BY <2>1, <3>2, <4>2, <4>3, Zenon
    <3>3. CASE asked.kind # "name"
      <4>1. RestLength(asked.kind, 0) = k + 2 /\ h = 1
        BY <1>5, <3>3 DEF RestLength, HostLength, HeaderLen, h
      <4>2. reader' = [at |-> "rest", kind |-> asked.kind, need |-> k + 2]
        BY <2>1, <3>3, <4>1 DEF AfterType
      <4>3. k + 2 \in Nat /\ p + n = h
        BY <1>5, <3>1, <4>1
      <4>4. /\ reader'.at = "rest" /\ reader'.kind = asked.kind /\ reader'.need = k + 2
            /\ reader' \in [at : {"type", "length", "rest", "connect", "relay", "failed"},
                            kind : {"v4", "name", "v6", ""}, need : Nat]
        BY <1>5, <4>2, <4>3
      <4>5. "rest" # "length"
        OBVIOUS
      <4> QED BY <2>1, <4>3, <4>4, <4>5, Zenon
    <3> QED BY <3>2, <3>3
  <2>2. CASE /\ reader.at = "length" /\ UNCHANGED target
             /\ reader' = [reader EXCEPT !.at = "rest", !.need = k + 2]
    <3>1. p = 1 /\ n = 1 /\ h = 2 /\ reader.kind = asked.kind
      BY <1>4, <2>2 DEF Position, p, h, HeaderLen
    <3>2. k + 2 \in Nat /\ p + n = h
      BY <1>5, <3>1
    <3> QED BY <1>8, <2>2, <3>1, <3>2
  <2>3. CASE /\ reader.at = "rest" /\ target' = asked
             /\ reader' = [reader EXCEPT !.at = "connect"]
    <3>1. p = h /\ n = k + 2
      BY <1>4, <2>3 DEF Position, p, h
    <3>2. p + n = Len(E)
      BY <1>5, <3>1
    <3> QED BY <1>8, <2>3, <3>2
  <2> QED BY <1>7, <2>1, <2>2, <2>3
<1>10. ConnectorTypes'
  <2>1. /\ reader' \in [at : {"type", "length", "rest", "connect", "relay", "failed"},
                       kind : {"v4", "name", "v6", ""}, need : Nat]
        /\ target' \in {<<>>, asked}
    BY <1>4, <1>9
  <2>2. reader'.need <= 257
    <3>1. reader.need \in Nat /\ reader.need <= 257 /\ k <= 255
      BY <1>2, AskedFacts DEF ConnectorTypes, k
    <3>2. reader'.need \in {1, k + 2, reader.need}
      BY <1>9
    <3> QED BY <1>5, <3>1, <3>2
  <2> QED BY <1>1, <1>2, <1>6, <2>1, <2>2 DEF ConnectorTypes
<1>11. UnsentInv'
  BY <1>1, <1>2 DEF UnsentInv
<1>12. CopyInv'
  BY <1>1, <1>2, <1>6 DEF CopyInv, Copying, Ordered
<1>13. OutcomeInv'
  BY <1>1, <1>2, <1>4 DEF OutcomeInv
<1>14. Reading' => ReadingInv'
  <2> SUFFICES ASSUME Reading' PROVE ReadingInv'
    OBVIOUS
  <2>1. /\ UNCHANGED target
        /\ reader'.at \in {"length", "rest"} /\ reader'.kind = asked.kind
        /\ reader'.at = "length" => asked.kind = "name"
        /\ reader'.need = IF reader'.at = "rest" THEN k + 2 ELSE 1
        /\ p + n = IF reader'.at = "length" THEN 1 ELSE h
    BY <1>9 DEF Reading
  <2>2. asked' = asked
    BY <1>1
  <2>3. Position' = p + n
    BY <2>1, <2>2 DEF Position, h
  <2>4. unsent' = unsent /\ sent' = sent /\ got' = got /\ held' = held
    BY <1>1
  <2> QED BY <1>3, <1>4, <1>6, <2>1, <2>2, <2>3, <2>4 DEF ReadingInv, E, k
<1>15. HasRead' => target' = asked' /\ unsent' = <<>> /\ Copying("up")'
  <2> SUFFICES ASSUME HasRead'
               PROVE  target' = asked' /\ unsent' = <<>> /\ Copying("up")'
    OBVIOUS
  <2>1. target' = asked /\ p + n = Len(E)
    BY <1>9 DEF HasRead
  <2> DEFINE e == Len(E)
             r == Len(rest)
             u == Len(unsent)
             d == sent["up"]
  <2>2. e \in Nat /\ r \in Nat /\ u \in Nat /\ d \in Nat
    <3>1. unsent \in Seq(Byte) /\ d \in Nat
      BY <1>2, TypesExpanded DEF UnsentInv
    <3>2. e \in Nat
      BY <1>5
    <3> QED BY <1>3, <3>1, <3>2
  <2>3. e + r + u = e + d /\ (d > 0 => unsent = <<>>)
    BY <1>2, <1>3, <2>1 DEF UnsentInv
  <2>4. \A i \in 1..r : rest[i] = IF e + i <= e THEN E[e + i] ELSE (e + i) - e
    BY <1>3, <2>1
  <2>5. unsent \in Seq(Byte)
    BY <1>2 DEF UnsentInv
  <2> HIDE DEF e, r, d
  <2>6. unsent = <<>> /\ u = 0
    <3>1. CASE d > 0
      BY <2>3, <3>1
    <3>2. CASE d = 0
      <4>1. u = 0
        <5> HIDE DEF u
        <5> QED BY <2>2, <2>3, <3>2
      <4> QED BY <2>5, <4>1
    <3> QED BY <2>2, <3>1, <3>2
  <2> HIDE DEF u
  <2>7. r = d /\ 0 + 0 + r = r
    BY <2>2, <2>3, <2>6
  <2>8. \A i \in 1..r : rest[i] = (0 + 0) + i
    BY <2>2, <2>4
  <2>9. Len(got'["up"]) = 0 /\ Len(held'["up"]) = 0 /\ sent'["up"] = d
    BY <1>1, <1>4 DEF d
  <2>10. Copying("up")'
    <3>1. Ordered(rest, 0 + 0) /\ (0 + 0) + Len(rest) = d
      BY <2>7, <2>8 DEF Ordered, r
    <3> QED BY <1>6, <2>9, <3>1, Zenon DEF Copying, Ordered
  <2> QED BY <1>1, <2>1, <2>6, <2>10
<1> QED BY <1>10, <1>11, <1>12, <1>13, <1>14, <1>15 DEF ConnectorInv

LEMMA StutterConnector ==
  ASSUME ConnectorInv, UNCHANGED connectorVars
  PROVE  ConnectorInv'
<1>1. UNCHANGED <<asked, unsent, sent, shut, wire, reader, target, held, got, outcome>>
  BY DEF connectorVars
<1>2. ConnectorTypes' /\ OutcomeInv'
  BY <1>1 DEF ConnectorInv, ConnectorTypes, OutcomeInv
<1>3. UnsentInv'
  BY <1>1 DEF ConnectorInv, UnsentInv
<1>4. Reading' => ReadingInv'
  BY <1>1 DEF ConnectorInv, Reading, ReadingInv, Position
<1>5. CopyInv' /\ (HasRead' => target' = asked' /\ unsent' = <<>> /\ Copying("up")')
  BY <1>1 DEF ConnectorInv, HasRead, CopyInv, Copying, Ordered
<1> QED BY <1>2, <1>3, <1>4, <1>5 DEF ConnectorInv

LEMMA NextConnector ==
  ConnectorInv /\ [ConnectorNext]_connectorVars => ConnectorInv'
<1> SUFFICES ASSUME ConnectorInv, [ConnectorNext]_connectorVars
             PROVE  ConnectorInv'
  OBVIOUS
<1>1. CASE WriteAddress
  BY <1>1, WriteAddressKeeps
<1>2. CASE ReadFrom
  BY <1>2, ReadFromKeeps
<1>3. CASE ReadFails \/ Connect
  BY <1>3, ReaderMovesKeep
<1>4. ASSUME NEW w \in Ways, Supply(w) PROVE ConnectorInv'
  BY <1>4, SupplyKeeps
<1>5. ASSUME NEW w \in Ways, Shut(w) PROVE ConnectorInv'
  BY <1>5, ShutKeeps
<1>6. ASSUME NEW w \in Ways, Fill(w) PROVE ConnectorInv'
  BY <1>6, FillKeeps
<1>7. ASSUME NEW w \in Ways, Drain(w) PROVE ConnectorInv'
  BY <1>7, DrainKeeps
<1>8. ASSUME NEW w \in Ways, Finish(w) \/ Break(w) PROVE ConnectorInv'
  BY <1>8, EndKeeps
<1>9. CASE UNCHANGED connectorVars
  BY <1>9, StutterConnector
<1> QED BY <1>1, <1>2, <1>3, <1>4, <1>5, <1>6, <1>7, <1>8, <1>9 DEF ConnectorNext

\* The inductive invariant of TcpConnector: the address and the data lie in
\* their order in what is unsent, on the way, held and handed over.
THEOREM ConnectorCorrect == ConnectorSpec => []ConnectorInv
BY InitConnector, NextConnector, PTL DEF ConnectorSpec

\* The connector never opens a connection to another target than the one that
\* the peer has written, however the stream is cut (NeverMisdirected).
THEOREM ConnectsWhereAsked == ConnectorSpec => []NeverMisdirected
<1>1. ConnectorInv => NeverMisdirected
  BY DEF ConnectorInv, ConnectorTypes, NeverMisdirected
<1> QED BY <1>1, ConnectorCorrect, PTL

\* Each side gets the other's data from its first byte on and without a gap,
\* and nothing of the address (RelayedInOrder).
THEOREM RelaysInOrder == ConnectorSpec => []RelayedInOrder
<1>1. ConnectorInv => RelayedInOrder
  <2> SUFFICES ASSUME ConnectorInv, NEW w \in Ways
               PROVE  got[w] = [i \in 1..Len(got[w]) |-> i] /\ Len(got[w]) <= sent[w]
    BY DEF RelayedInOrder
  <2> DEFINE s == got[w]
             g == Len(s)
             d == Len(held[w])
  <2>1. s \in Seq(Byte) /\ g \in Nat /\ d \in Nat /\ sent[w] \in Nat
    BY TypesExpanded DEF ConnectorInv
  <2>2. Ordered(s, 0) /\ g + d <= sent[w]
    BY DEF ConnectorInv, CopyInv
  <2> HIDE DEF s, d
  <2>3. \A i \in 1..g : s[i] = i
    BY <2>1, <2>2 DEF Ordered
  <2>4. s = [i \in 1..g |-> i]
    BY <2>1, <2>3
  <2>5. g <= sent[w]
    <3> HIDE DEF g
    <3> QED BY <2>1, <2>2
  <2> QED BY <2>4, <2>5 DEF s
<1> QED BY <1>1, ConnectorCorrect, PTL

\* A way whose end has ended the relay has been copied to its last byte
\* (EndedCopied).
THEOREM EndsCopied == ConnectorSpec => []EndedCopied
<1>1. ConnectorInv => EndedCopied
  <2> SUFFICES ASSUME ConnectorInv, NEW w \in Ways, outcome = <<w, "end">>
               PROVE  Len(got[w]) = sent[w]
    BY DEF EndedCopied
  <2>1. wire[w] = <<>> /\ held[w] = <<>> /\ reader.at = "relay"
    BY DEF ConnectorInv, OutcomeInv
  <2>2. Copying(w)
    BY <2>1 DEF ConnectorInv, HasRead, CopyInv, Ways
  <2> DEFINE g == Len(got[w])
  <2>3. g \in Nat /\ sent[w] \in Nat
    BY TypesExpanded DEF ConnectorInv
  <2>4. g + Len(held[w]) + Len(wire[w]) = sent[w]
    BY <2>2 DEF Copying
  <2>5. Len(held[w]) = 0 /\ Len(wire[w]) = 0
    BY <2>1
  <2> HIDE DEF g
  <2>6. g + 0 + 0 = sent[w]
    BY <2>4, <2>5
  <2> QED BY <2>3, <2>6 DEF g
<1> QED BY <1>1, ConnectorCorrect, PTL

(***************************************************************************)
(* Socks5: the inductive invariant.                                        *)
(***************************************************************************)

\* All variables have their types.
SocksTypes ==
  /\ client \in [Clients -> [at : Steps, asks : Requests]]
  /\ up \in [Clients -> Seq(Byte)]
  /\ echoed \in [Clients -> Seq(Byte)]
  /\ answers \in [Clients -> {0, 1, 2}]
  /\ server \in [at : {"accept", "hello", "request", "ended"}, with : Clients,
                 buf : [1..BufLen -> Byte]]
  /\ DOMAIN handles = Clients
  /\ \A c \in Clients : (handles[c] # <<>>) <=> (answers[c] = 2)
  /\ tasks \subseteq Clients
  /\ \A c \in tasks : answers[c] = 2

\* What main waits for, it has not had.
ServerInv ==
  /\ server.at = "hello" => answers[server.with] = 0
  /\ server.at = "request" => answers[server.with] = 1

Asking(c) == <<5, 1, 0>> \o Encoded(client[c].asks)

\* What is under way from a client is what it writes in its step of the
\* handshake, whole, or nothing; and after the handshake, data in order.
StreamInv(c) ==
  /\ answers[c] = 0 => /\ up[c] \in {<<>>} \cup Greetings
                       /\ client[c].at = "new" => up[c] = <<>>
  /\ answers[c] = 1 => /\ up[c] \in {<<>>, Asking(c)}
                       /\ client[c].at = "greeted" => up[c] = <<>>
  /\ answers[c] = 2 => /\ Ordered(up[c], Len(echoed[c]))
                       /\ client[c].at = "asked" => up[c] = <<>> /\ echoed[c] = <<>>
  /\ answers[c] # 2 => echoed[c] = <<>>

HandleInv(c) ==
  handles[c] # <<>> =>
    LET a == client[c].asks
    IN  Meant(handles[c]) =
          [a EXCEPT !.host = IF a.kind = "name" THEN @
                             ELSE <<"">> \o [i \in 1..4 |-> ToString(@[i])]]

\* A failed handshake leaves a cut stream behind: the program has ended.
SocksInv ==
  /\ SocksTypes
  /\ ServerInv
  /\ \A c \in Clients : server.at # "ended" => StreamInv(c)
  /\ \A c \in Clients : Ordered(echoed[c], 0)
  /\ \A c \in Clients : HandleInv(c)

\* The port that read_i16 makes of two bytes is theirs, modulo 2^16.
LEMMA PortMeant ==
  ASSUME NEW port \in Nat, port < 65536
  PROVE  I16(port \div 256, port % 256) % 65536 = port
<1>1. (port \div 256) * 256 + (port % 256) = port
  OBVIOUS
<1>2. I16(port \div 256, port % 256) = IF port < 32768 THEN port ELSE port - 65536
  BY <1>1 DEF I16
<1>3. CASE port < 32768
  BY <1>2, <1>3
<1>4. CASE ~ (port < 32768)
  <2>1. (port - 65536) % 65536 = port
    BY <1>4
  <2> QED BY <1>2, <1>4, <2>1
<1> QED BY <1>3, <1>4

\* parse_header returns nothing but what was asked for, and only once it has all
\* of it.
LEMMA ParsedIsAsked ==
  ASSUME NEW a, IsAddress(a), NEW data \in Seq(Byte),
         Len(data) <= Len(Encoded(a)),
         \A i \in 1..Len(data) : data[i] = Encoded(a)[i],
         ParseHeader(data) # <<>>
  PROVE  /\ Len(data) = Len(Encoded(a))
         /\ Meant(ParseHeader(data)) =
              [a EXCEPT !.host = IF a.kind = "name" THEN @
                                 ELSE <<"">> \o [i \in 1..4 |-> ToString(@[i])]]
<1> DEFINE k == Len(a.host)
           h == HeaderLen(a)
           E == Encoded(a)
           m == Len(data)
           handle == ParseHeader(data)
           high == a.port \div 256
           low == a.port % 256
<1>1. /\ a.kind \in {"v4", "name", "v6"} /\ k \in Nat /\ a.host \in Seq(Byte)
      /\ a.kind = "v4" => k = 4
      /\ a.port \in Nat /\ a.port < 65536
      /\ a = [kind |-> a.kind, host |-> a.host, port |-> a.port]
  BY AddressFacts
<1>2. /\ Len(E) = h + k + 2
      /\ E[1] = TypeByte[a.kind]
      /\ a.kind = "name" => E[2] = k
      /\ \A i \in 1..k : E[h + i] = a.host[i]
      /\ E[h + k + 1] = high
      /\ E[h + k + 2] = low
  BY EncodedFacts
<1>3. I16(high, low) % 65536 = a.port
  BY <1>1, PortMeant
<1>4. m \in Nat /\ m <= Len(E) /\ \A i \in 1..m : data[i] = E[i]
  OBVIOUS
<1>5. TypeByte.v4 = 1 /\ TypeByte.name = 3 /\ TypeByte["v6"] = 4
  BY TypeBytes
<1> HIDE DEF k, h, E, m, high, low
<1>6. a.kind = "v4" \/ a.kind = "name" \/ a.kind = "v6"
  BY <1>1
<1>7. CASE m >= 7 /\ data[1] = 1
  <2>1. data[1] = E[1]
    BY <1>4, <1>7
  <2>2. a.kind = "v4" /\ k = 4 /\ h = 1
    <3>1. TypeByte[a.kind] = 1
      BY <1>2, <1>7, <2>1, Zenon
    <3>2. a.kind = "v4"
      BY <1>5, <1>6, <3>1
    <3>3. h = 1
      BY <3>2 DEF h, HeaderLen
    <3>4. k = 4
      BY <1>1, <3>2
    <3> QED BY <3>2, <3>3, <3>4
  <2>3. Len(E) = 7 /\ m = 7
    BY <1>2, <1>4, <1>7, <2>2
  <2>4. \A i \in 1..4 : data[i + 1] = a.host[i]
    <3> SUFFICES ASSUME NEW i \in 1..4 PROVE data[i + 1] = a.host[i]
      OBVIOUS
    <3>1. i + 1 \in 1..m /\ 1 + i = i + 1 /\ i \in 1..k
      BY <2>2, <2>3
    <3> QED BY <1>2, <1>4, <2>2, <3>1
  <2>5. data[6] = high /\ data[7] = low
    <3>1. data[6] = E[6] /\ data[7] = E[7]
      BY <1>4, <2>3
    <3>2. h + k + 1 = 6 /\ h + k + 2 = 7
      BY <2>2
    <3> QED BY <1>2, <3>1, <3>2
  <2> DEFINE text == <<"">> \o [i \in 1..4 |-> ToString(data[i + 1])]
  <2>6. handle = [addr |-> text, port |-> I16(high, low), use_host |-> FALSE]
    BY <1>5, <1>7, <2>5, Zenon DEF ParseHeader, m
  <2>7. text = <<"">> \o [i \in 1..4 |-> ToString(a.host[i])]
    <3>1. [i \in 1..4 |-> ToString(data[i + 1])] = [i \in 1..4 |-> ToString(a.host[i])]
      BY <2>4, Zenon
    <3> QED BY <3>1
  <2> HIDE DEF text
  <2>8. Meant(handle) = [kind |-> "v4", host |-> text, port |-> a.port]
    BY <1>3, <2>6 DEF Meant
  <2>9. [kind |-> "v4", host |-> text, port |-> a.port] = [a EXCEPT !.host = text]
    BY <1>1, <2>2
  <2> QED BY <2>2, <2>3, <2>7, <2>8, <2>9, Zenon DEF E, m
<1>8. CASE ~ (m >= 7 /\ data[1] = 1)
  <2>1. /\ m >= 2 /\ data[1] = 3 /\ m >= data[2] + 4
        /\ handle = [addr |-> SubSeq(data, 3, data[2] + 2),
                     port |-> I16(data[data[2] + 3], data[data[2] + 4]),
                     use_host |-> TRUE]
    BY <1>5, <1>8, Zenon DEF ParseHeader, m
  <2>2. data[1] = E[1] /\ data[2] = E[2]
    BY <1>4, <2>1
  <2>3. a.kind = "name" /\ data[2] = k /\ h = 2
    <3>1. TypeByte[a.kind] = 3
      BY <1>2, <2>1, <2>2, Zenon
    <3>2. a.kind = "name"
      BY <1>5, <1>6, <3>1
    <3>3. h = 2
      BY <3>2 DEF h, HeaderLen
    <3> QED BY <1>2, <2>2, <3>2, <3>3, Zenon
  <2>4. k \in Nat /\ Len(E) = k + 4 /\ m = k + 4
    <3>1. k \in Nat
      BY <1>1
    <3>2. m \in Nat /\ m <= Len(E)
      BY <1>4
    <3>3. m >= k + 4
      BY <2>1, <2>3
    <3>4. Len(E) = 2 + k + 2
      BY <1>2, <2>3, Zenon
    <3> QED BY <3>1, <3>2, <3>3, <3>4
  <2>5. SubSeq(data, 3, k + 2) = a.host
    <3> DEFINE host == SubSeq(data, 3, k + 2)
    <3>1. host \in Seq(Byte) /\ Len(host) = k /\ \A i \in 1..k : host[i] = data[2 + i]
      <4>1. \A i \in 1..m : data[i] \in Byte
        BY DEF m
      <4>2. host = [i \in 1..k |-> data[2 + i]]
        BY <2>4
      <4>3. \A i \in 1..k : data[2 + i] \in Byte
        <5> SUFFICES ASSUME NEW i \in 1..k PROVE data[2 + i] \in Byte
          OBVIOUS
        <5>1. 2 + i \in 1..m
          BY <2>4
        <5> QED BY <4>1, <5>1, Zenon
      <4> HIDE DEF host
      <4> QED BY <2>4, <4>2, <4>3
    <3>2. \A i \in 1..k : data[2 + i] = a.host[i]
      <4> SUFFICES ASSUME NEW i \in 1..k PROVE data[2 + i] = a.host[i]
        OBVIOUS
      <4>1. 2 + i \in 1..m
        BY <2>4
      <4> QED BY <1>2, <1>4, <2>3, <4>1
    <3> HIDE DEF host
    <3>3. host = a.host
      <4>1. Len(a.host) = Len(host)
        BY <3>1 DEF k
      <4>2. \A i \in 1..Len(host) : host[i] = a.host[i]
        BY <3>1, <3>2
      <4>3. host \in Seq(Byte) /\ a.host \in Seq(Byte)
        BY <1>1, <3>1
      <4> QED BY <4>1, <4>2, <4>3, SeqEqual
    <3> QED BY <3>3 DEF host
  <2>6. data[k + 3] = high /\ data[k + 4] = low
    <3>1. k + 3 \in 1..m /\ k + 4 \in 1..m
      BY <2>4
    <3>2. data[k + 3] = E[k + 3] /\ data[k + 4] = E[k + 4]
      BY <1>4, <3>1, Zenon
    <3>3. h + k + 1 = k + 3 /\ h + k + 2 = k + 4
      BY <2>3, <2>4
    <3> QED BY <1>2, <3>2, <3>3, Zenon
  <2>7. handle = [addr |-> a.host, port |-> I16(high, low), use_host |-> TRUE]
    BY <2>1, <2>3, <2>5, <2>6, Zenon
  <2>8. Meant(handle) = [kind |-> "name", host |-> a.host, port |-> a.port]
    BY <1>3, <2>7 DEF Meant
  <2>9. [kind |-> "name", host |-> a.host, port |-> a.port] = [a EXCEPT !.host = a.host]
    BY <1>1, <2>3
  <2> QED BY <2>3, <2>4, <2>8, <2>9, Zenon DEF E, m
<1> QED BY <1>7, <1>8

LEMMA SocksConstants ==
  /\ BufLen \in Nat /\ DataLen \in Nat /\ DataLen <= 255
  /\ \A g \in Greetings : g \in Seq(Byte) /\ Len(g) >= 2 /\ Len(g) = g[2] + 2
  /\ \A a \in Requests : IsAddress(a)
BY BufLenAssumption, DataLenAssumption, GreetingsAssumption, RequestsAssumption,
   ByteFacts

LEMMA SocksTypesExpanded ==
  ASSUME SocksTypes, NEW c \in Clients
  PROVE  /\ client[c] \in [at : Steps, asks : Requests]
         /\ up[c] \in Seq(Byte) /\ Len(up[c]) \in Nat
         /\ echoed[c] \in Seq(Byte) /\ Len(echoed[c]) \in Nat
         /\ answers[c] \in {0, 1, 2}
         /\ Encoded(client[c].asks) \in Seq(Byte) /\ IsAddress(client[c].asks)
<1>1. /\ client[c] \in [at : Steps, asks : Requests]
      /\ up[c] \in Seq(Byte) /\ echoed[c] \in Seq(Byte)
      /\ answers[c] \in {0, 1, 2}
  BY DEF SocksTypes
<1>2. IsAddress(client[c].asks)
  BY <1>1, SocksConstants
<1>3. Encoded(client[c].asks) \in Seq(Byte)
  BY <1>2, EncodedFacts
<1>4. Len(up[c]) \in Nat /\ Len(echoed[c]) \in Nat
  BY <1>1
<1> QED BY <1>1, <1>2, <1>3, <1>4

LEMMA InitSocks == SocksInit => SocksInv
<1> SUFFICES ASSUME SocksInit PROVE SocksInv
  OBVIOUS
<1>1. /\ \A c \in Clients : /\ up[c] = <<>> /\ echoed[c] = <<>> /\ handles[c] = <<>>
                            /\ answers[c] = 0
      /\ tasks = {} /\ server.at = "accept"
  BY DEF SocksInit
<1>2. SocksTypes
  <2>1. client \in [Clients -> [at : Steps, asks : Requests]]
    <3>1. client \in [Clients -> [at : {"new"}, asks : Requests]]
      BY DEF SocksInit
    <3> QED BY <3>1 DEF Steps
  <2>2. /\ up \in [Clients -> Seq(Byte)] /\ echoed \in [Clients -> Seq(Byte)]
    <3>1. <<>> \in Seq(Byte)
      OBVIOUS
    <3> QED BY <3>1 DEF SocksInit
  <2>3. answers \in [Clients -> {0, 1, 2}] /\ DOMAIN handles = Clients
    BY DEF SocksInit
  <2>4. server \in [at : {"accept", "hello", "request", "ended"}, with : Clients,
                    buf : [1..BufLen -> Byte]]
    <3>1. AnyClient \in Clients
      BY ClientsAssumption DEF AnyClient
    <3>2. 0 \in Byte
      BY ByteFacts
    <3>3. Zeros \in [1..BufLen -> Byte]
      BY <3>2 DEF Zeros
    <3> QED BY <3>1, <3>3 DEF SocksInit
  <2>5. \A c \in Clients : (handles[c] # <<>>) <=> (answers[c] = 2)
    BY <1>1
  <2> QED BY <1>1, <2>1, <2>2, <2>3, <2>4, <2>5 DEF SocksTypes
<1>3. ServerInv
  BY <1>1 DEF ServerInv
<1>4. ASSUME NEW c \in Clients PROVE StreamInv(c) /\ HandleInv(c)
  <2>1. StreamInv(c)
    BY <1>1 DEF StreamInv
  <2>2. HandleInv(c)
    BY <1>1, Zenon DEF HandleInv
  <2> QED BY <2>1, <2>2
<1>5. \A c \in Clients : Ordered(echoed[c], 0)
  <2>1. Len(<<>>) = 0 /\ 1..0 = {}
    OBVIOUS
  <2> QED BY <1>1, <2>1 DEF Ordered
<1> QED BY <1>2, <1>3, <1>4, <1>5 DEF SocksInv

\* Every step is about one client: of the others nothing changes.
LEMMA OneClient ==
  ASSUME SocksInv, NEW c \in Clients, SocksTypes', ServerInv',
         \A d \in Clients \ {c} :
           /\ client'[d] = client[d] /\ up'[d] = up[d] /\ answers'[d] = answers[d]
           /\ echoed'[d] = echoed[d] /\ handles'[d] = handles[d],
         server'.at # "ended" => server.at # "ended" /\ StreamInv(c)',
         Ordered(echoed[c], 0)', HandleInv(c)'
  PROVE  SocksInv'
<1>1. ASSUME NEW d \in Clients, server'.at # "ended" PROVE StreamInv(d)'
  <2>1. CASE d = c
    BY <1>1, <2>1
  <2>2. CASE d # c
    <3>1. StreamInv(d)
      BY <1>1 DEF SocksInv
    <3>2. /\ client'[d] = client[d] /\ up'[d] = up[d] /\ answers'[d] = answers[d]
          /\ echoed'[d] = echoed[d]
      BY <2>2
    <3> QED BY <3>1, <3>2, Zenon DEF StreamInv, Asking, Ordered
  <2> QED BY <2>1, <2>2
<1>2. ASSUME NEW d \in Clients PROVE Ordered(echoed[d], 0)' /\ HandleInv(d)'
  <2>1. CASE d = c
    BY <2>1
  <2>2. CASE d # c
    <3>1. Ordered(echoed[d], 0) /\ HandleInv(d)
      BY DEF SocksInv
    <3>2. /\ client'[d] = client[d] /\ echoed'[d] = echoed[d]
          /\ handles'[d] = handles[d]
      BY <2>2
    <3> QED BY <3>1, <3>2, Zenon DEF HandleInv, Ordered
  <2> QED BY <2>1, <2>2
<1> QED BY <1>1, <1>2 DEF SocksInv

\* A client goes on with its part of the handshake.
LEMMA ClientStepKeeps ==
  ASSUME SocksInv, NEW c \in Clients, NEW from, NEW after, NEW to \in Steps,
         NEW bytes \in Seq(Byte), ClientStep(c, from, after, to, bytes),
         server.at # "ended" => StreamInv(c)'
  PROVE  SocksInv'
<1> DEFINE more == up[c] \o bytes
<1>1. /\ client' = [client EXCEPT ![c].at = to]
      /\ up' = [up EXCEPT ![c] = more]
      /\ UNCHANGED <<answers, echoed, server, handles, tasks>>
  BY DEF ClientStep
<1>2. SocksTypes /\ ServerInv /\ Ordered(echoed[c], 0) /\ HandleInv(c)
  BY DEF SocksInv
<1>3. more \in Seq(Byte)
  <2>1. up[c] \in Seq(Byte)
    BY <1>2, SocksTypesExpanded
  <2> QED BY <2>1
<1> HIDE DEF more
<1>4. /\ client \in [Clients -> [at : Steps, asks : Requests]]
      /\ up \in [Clients -> Seq(Byte)]
  BY <1>2 DEF SocksTypes
<1>5. /\ client' \in [Clients -> [at : Steps, asks : Requests]]
      /\ client'[c].asks = client[c].asks
      /\ \A d \in Clients \ {c} : client'[d] = client[d]
  BY <1>1, <1>4
<1>7. /\ up' \in [Clients -> Seq(Byte)]
      /\ \A d \in Clients \ {c} : up'[d] = up[d]
  BY <1>1, <1>3, <1>4
<1>8. SocksTypes' /\ ServerInv'
  BY <1>1, <1>2, <1>5, <1>7 DEF SocksTypes, ServerInv
<1>6. Ordered(echoed[c], 0)' /\ HandleInv(c)'
  BY <1>1, <1>2, <1>5, Zenon DEF HandleInv, Ordered
<1> QED BY <1>1, <1>5, <1>7, <1>8, <1>6, OneClient

LEMMA EmptyConcat ==
  ASSUME NEW T, NEW s \in Seq(T)
  PROVE  <<>> \o s = s
OBVIOUS

LEMMA GreetKeeps ==
  ASSUME SocksInv, NEW c \in Clients, Greet(c)
  PROVE  SocksInv'
<1>1. PICK g \in Greetings : ClientStep(c, "new", 0, "greeted", g)
  BY DEF Greet
<1>2. g \in Seq(Byte) /\ "greeted" \in Steps
  BY SocksConstants DEF Steps
<1>3. server.at # "ended" => StreamInv(c)'
  <2> SUFFICES ASSUME server.at # "ended" PROVE StreamInv(c)'
    OBVIOUS
  <2>1. client[c].at = "new" /\ answers[c] = 0 /\ answers' = answers /\ echoed' = echoed
    BY <1>1 DEF ClientStep
  <2>2. up[c] = <<>> /\ echoed[c] = <<>>
    BY <2>1 DEF SocksInv, StreamInv
  <2>3. up'[c] = g
    <3>1. up' = [up EXCEPT ![c] = up[c] \o g] /\ up \in [Clients -> Seq(Byte)]
      BY <1>1 DEF ClientStep, SocksInv, SocksTypes
    <3>2. up[c] \o g = g
      BY <1>2, <2>2, EmptyConcat
    <3> QED BY <3>1, <3>2
  <2>4. client'[c].at = "greeted"
    BY <1>1 DEF ClientStep, SocksInv, SocksTypes
  <2>5. answers'[c] = 0 /\ echoed'[c] = <<>>
    BY <2>1, <2>2
  <2> QED BY <2>3, <2>4, <2>5 DEF StreamInv
<1> QED BY <1>1, <1>2, <1>3, ClientStepKeeps

LEMMA AskKeeps ==
  ASSUME SocksInv, NEW c \in Clients, Ask(c)
  PROVE  SocksInv'
<1> DEFINE bytes == Asking(c)
<1>1. ClientStep(c, "greeted", 1, "asked", bytes)
  BY DEF Ask, Asking
<1>2. bytes \in Seq(Byte) /\ "asked" \in Steps
  <2>1. Encoded(client[c].asks) \in Seq(Byte)
    BY SocksTypesExpanded DEF SocksInv
  <2>2. <<5, 1, 0>> \in Seq(Byte)
    <3>1. 5 \in Byte /\ 1 \in Byte /\ 0 \in Byte
      BY ByteFacts
    <3> QED BY <3>1
  <2>3. bytes \in Seq(Byte)
    BY <2>1, <2>2 DEF Asking
  <2> QED BY <2>3 DEF Steps
<1> HIDE DEF bytes
<1>3. server.at # "ended" => StreamInv(c)'
  <2> SUFFICES ASSUME server.at # "ended" PROVE StreamInv(c)'
    OBVIOUS
  <2>1. client[c].at = "greeted" /\ answers[c] = 1 /\ answers' = answers /\ echoed' = echoed
    BY <1>1 DEF ClientStep
  <2>2. up[c] = <<>> /\ echoed[c] = <<>>
    BY <2>1 DEF SocksInv, StreamInv
  <2>3. up'[c] = bytes
    <3>1. up' = [up EXCEPT ![c] = up[c] \o bytes] /\ up \in [Clients -> Seq(Byte)]
      BY <1>1 DEF ClientStep, SocksInv, SocksTypes
    <3>2. up[c] \o bytes = bytes
      BY <1>2, <2>2, EmptyConcat
    <3> QED BY <3>1, <3>2
  <2>4. client'[c].at = "asked" /\ client'[c].asks = client[c].asks
    BY <1>1 DEF ClientStep, SocksInv, SocksTypes
  <2>5. answers'[c] = 1 /\ echoed'[c] = <<>>
    BY <2>1, <2>2
  <2>6. Asking(c)' = bytes
    BY <2>4 DEF Asking, bytes
  <2> QED BY <2>3, <2>4, <2>5, <2>6 DEF StreamInv
<1> QED BY <1>1, <1>2, <1>3, ClientStepKeeps

LEMMA SendKeeps ==
  ASSUME SocksInv, NEW c \in Clients, Send(c)
  PROVE  SocksInv'
<1> DEFINE bytes == [i \in 1..DataLen |-> i]
<1>1. ClientStep(c, "asked", 2, "sent", bytes)
  BY DEF Send
<1>2. bytes \in Seq(Byte) /\ Ordered(bytes, 0) /\ "sent" \in Steps
  <2>1. DataLen \in Nat /\ DataLen <= 255
    BY SocksConstants
  <2>2. \A i \in 1..DataLen : i \in Byte
    BY <2>1, ByteFacts
  <2>3. bytes \in Seq(Byte) /\ Len(bytes) = DataLen
    BY <2>1, <2>2
  <2>4. \A i \in 1..DataLen : bytes[i] = 0 + i
    BY <2>1
  <2> QED BY <2>3, <2>4 DEF Ordered, Steps
<1> HIDE DEF bytes
<1>3. server.at # "ended" => StreamInv(c)'
  <2> SUFFICES ASSUME server.at # "ended" PROVE StreamInv(c)'
    OBVIOUS
  <2>1. client[c].at = "asked" /\ answers[c] = 2 /\ answers' = answers /\ echoed' = echoed
    BY <1>1 DEF ClientStep
  <2>2. up[c] = <<>> /\ echoed[c] = <<>>
    BY <2>1 DEF SocksInv, StreamInv
  <2>3. up'[c] = bytes
    <3>1. up' = [up EXCEPT ![c] = up[c] \o bytes] /\ up \in [Clients -> Seq(Byte)]
      BY <1>1 DEF ClientStep, SocksInv, SocksTypes
    <3>2. up[c] \o bytes = bytes
      BY <1>2, <2>2, EmptyConcat
    <3> QED BY <3>1, <3>2
  <2>4. client'[c].at = "sent"
    BY <1>1 DEF ClientStep, SocksInv, SocksTypes
  <2>5. answers'[c] = 2 /\ Len(echoed'[c]) = 0
    BY <2>1, <2>2
  <2>6. Ordered(up[c], Len(echoed[c]))'
    BY <1>2, <2>3, <2>5, Zenon DEF Ordered
  <2> QED BY <2>4, <2>5, <2>6 DEF StreamInv
<1> QED BY <1>1, <1>2, <1>3, ClientStepKeeps

\* A client gives up: what it has written stays.
LEMMA CloseKeeps ==
  ASSUME SocksInv, NEW c \in Clients, Close(c)
  PROVE  SocksInv'
<1>1. /\ client' = [client EXCEPT ![c].at = "closed"]
      /\ UNCHANGED <<up, answers, echoed, server, handles, tasks>>
  BY DEF Close
<1>2. SocksTypes /\ ServerInv /\ Ordered(echoed[c], 0) /\ HandleInv(c)
  BY DEF SocksInv
<1>3. /\ client' \in [Clients -> [at : Steps, asks : Requests]]
      /\ client'[c].asks = client[c].asks /\ client'[c].at = "closed"
      /\ \A d \in Clients \ {c} : client'[d] = client[d]
  <2>1. client \in [Clients -> [at : Steps, asks : Requests]]
    BY <1>2 DEF SocksTypes
  <2> QED BY <1>1, <2>1 DEF Steps
<1>4. SocksTypes' /\ ServerInv'
  BY <1>1, <1>2, <1>3 DEF SocksTypes, ServerInv
<1>5. Ordered(echoed[c], 0)' /\ HandleInv(c)'
  BY <1>1, <1>2, <1>3, Zenon DEF HandleInv, Ordered
<1>7. server.at # "ended" => StreamInv(c)'
  <2> SUFFICES ASSUME server.at # "ended" PROVE StreamInv(c)'
    OBVIOUS
  <2>1. StreamInv(c)
    BY DEF SocksInv
  <2>2. Asking(c)' = Asking(c)
    BY <1>3 DEF Asking
  <2> QED BY <1>1, <1>3, <2>1, <2>2 DEF StreamInv, Ordered
<1> QED BY <1>1, <1>3, <1>4, <1>5, <1>7, OneClient

\* main accepts a connection.
LEMMA AcceptKeeps ==
  ASSUME SocksInv, NEW c \in Clients, Accept(c)
  PROVE  SocksInv'
<1>1. /\ server.at = "accept" /\ answers[c] = 0
      /\ server' = [at |-> "hello", with |-> c, buf |-> Zeros]
      /\ UNCHANGED <<client, up, answers, echoed, handles, tasks>>
  BY DEF Accept
<1>2. SocksTypes /\ StreamInv(c) /\ Ordered(echoed[c], 0) /\ HandleInv(c)
  BY <1>1 DEF SocksInv
<1>3. server' \in [at : {"accept", "hello", "request", "ended"}, with : Clients,
                   buf : [1..BufLen -> Byte]]
  <2>1. 0 \in Byte
    BY ByteFacts
  <2>2. Zeros \in [1..BufLen -> Byte]
    BY <2>1 DEF Zeros
  <2> QED BY <1>1, <2>2
<1>4. SocksTypes' /\ ServerInv'
  BY <1>1, <1>2, <1>3 DEF SocksTypes, ServerInv
<1>5. StreamInv(c)' /\ Ordered(echoed[c], 0)' /\ HandleInv(c)'
  BY <1>1, <1>2, Zenon DEF StreamInv, Asking, HandleInv, Ordered
<1> QED BY <1>1, <1>4, <1>5, OneClient

\* What main reads of its client is cut off the front of what is under way.
LEMMA ReadFacts ==
  ASSUME SocksInv, NEW n \in 0..BufLen, Read(n)
  PROVE  LET c == server.with
             s == up[c]
             rest == SubSeq(s, n + 1, Len(s))
         IN  /\ c \in Clients /\ s \in Seq(Byte) /\ n \in 0..Len(s)
             /\ rest \in Seq(Byte) /\ Len(rest) = Len(s) - n
             /\ up' = [up EXCEPT ![c] = rest] /\ up'[c] = rest
             /\ up' \in [Clients -> Seq(Byte)]
             /\ \A d \in Clients \ {c} : up'[d] = up[d]
             /\ Buffer(n) \in [1..BufLen -> Byte]
             /\ \A i \in 1..n : i \in 1..BufLen /\ Buffer(n)[i] = s[i]
<1> DEFINE c == server.with
           s == up[c]
           rest == SubSeq(s, n + 1, Len(s))
<1>1. SocksTypes /\ BufLen \in Nat
  BY SocksConstants DEF SocksInv
<1>2. c \in Clients /\ server.buf \in [1..BufLen -> Byte] /\ up \in [Clients -> Seq(Byte)]
  BY <1>1 DEF SocksTypes
<1>3. s \in Seq(Byte) /\ Len(s) \in Nat
  BY <1>2
<1>4. up' = [up EXCEPT ![c] = rest] /\ (n # 0 => n <= Len(s))
  BY DEF Read
<1> HIDE DEF s, c
<1>5. n \in 0..Len(s) /\ n \in Nat /\ n <= BufLen
  BY <1>1, <1>3, <1>4
<1>7. rest \in Seq(Byte) /\ Len(rest) = Len(s) - n
  BY <1>3, <1>5, CutFacts
<1> HIDE DEF rest
<1>8. /\ up' \in [Clients -> Seq(Byte)] /\ up'[c] = rest
      /\ \A d \in Clients \ {c} : up'[d] = up[d]
  BY <1>2, <1>4, <1>7
<1>6. Buffer(n) = [i \in 1..BufLen |-> IF i <= n THEN s[i] ELSE server.buf[i]]
  BY DEF Buffer, s, c
<1>9. ASSUME NEW i \in 1..BufLen
      PROVE  (IF i <= n THEN s[i] ELSE server.buf[i]) \in Byte
  <2>1. CASE i <= n
    <3>1. i \in 1..Len(s)
      BY <1>1, <1>3, <1>5, <2>1
    <3>2. s[i] \in Byte
      BY <1>3, <3>1
    <3> QED BY <2>1, <3>2, Zenon
  <2>2. CASE ~ (i <= n)
    BY <1>2, <2>2
  <2> QED BY <2>1, <2>2
<1>10. Buffer(n) \in [1..BufLen -> Byte]
  BY <1>6, <1>9
<1>11. ASSUME NEW i \in 1..n PROVE i \in 1..BufLen /\ Buffer(n)[i] = s[i]
  <2>1. i \in 1..BufLen /\ i <= n
    BY <1>1, <1>5
  <2> QED BY <1>6, <2>1
<1> QED BY <1>2, <1>3, <1>4, <1>5, <1>7, <1>8, <1>10, <1>11, Zenon DEF c, s, rest

\* A greeting that hello accepts has been read whole.
LEMMA HelloKeeps ==
  ASSUME SocksInv, NEW n \in 0..BufLen, Hello(n)
  PROVE  SocksInv'
<1>0. PICK c \in Clients : c = server.with
  BY DEF SocksInv, SocksTypes
<1> DEFINE s == up[c]
           rest == SubSeq(s, n + 1, Len(s))
           buf == Buffer(n)
<1>1. /\ server.at = "hello" /\ Read(n)
      /\ \/ server' = [server EXCEPT !.at = "ended"] /\ UNCHANGED answers
         \/ /\ ~ (n < 3) /\ ~ (buf[2] > 1)
            /\ server' = [server EXCEPT !.at = "request", !.buf = buf]
            /\ answers' = [answers EXCEPT ![c] = 1]
      /\ UNCHANGED <<client, echoed, handles, tasks>>
  BY <1>0 DEF Hello
<1>2. /\ c \in Clients /\ s \in Seq(Byte) /\ n \in 0..Len(s)
      /\ rest \in Seq(Byte) /\ Len(rest) = Len(s) - n
      /\ up'[c] = rest /\ up' \in [Clients -> Seq(Byte)]
      /\ \A d \in Clients \ {c} : up'[d] = up[d]
      /\ buf \in [1..BufLen -> Byte]
      /\ \A i \in 1..n : i \in 1..BufLen /\ buf[i] = s[i]
  BY <1>0, <1>1, ReadFacts
<1>3. SocksTypes /\ ServerInv /\ Ordered(echoed[c], 0) /\ HandleInv(c) /\ StreamInv(c)
  BY <1>1, <1>2 DEF SocksInv
<1>4. answers[c] = 0 /\ echoed[c] = <<>>
  BY <1>0, <1>1, <1>3 DEF ServerInv, StreamInv
<1>5. /\ server \in [at : {"accept", "hello", "request", "ended"}, with : Clients,
                     buf : [1..BufLen -> Byte]]
      /\ answers \in [Clients -> {0, 1, 2}]
  BY <1>3 DEF SocksTypes
<1>7. Ordered(echoed[c], 0)' /\ HandleInv(c)'
  BY <1>1, <1>3, Zenon DEF HandleInv, Ordered
<1> HIDE DEF s, rest, buf
<1>8. CASE server' = [server EXCEPT !.at = "ended"] /\ UNCHANGED answers
  <2>1. SocksTypes' /\ ServerInv' /\ server'.at = "ended"
    BY <1>1, <1>2, <1>3, <1>5, <1>8 DEF SocksTypes, ServerInv
  <2> QED BY <1>1, <1>2, <1>7, <1>8, <2>1, OneClient
<1>6. CASE /\ ~ (n < 3) /\ ~ (buf[2] > 1)
           /\ server' = [server EXCEPT !.at = "request", !.buf = buf]
           /\ answers' = [answers EXCEPT ![c] = 1]
  <2>1. /\ server' \in [at : {"accept", "hello", "request", "ended"}, with : Clients,
                        buf : [1..BufLen -> Byte]]
        /\ server'.at = "request" /\ server'.with = c
    BY <1>0, <1>2, <1>5, <1>6
  <2>2. /\ answers' \in [Clients -> {0, 1, 2}] /\ answers'[c] = 1
        /\ \A d \in Clients \ {c} : answers'[d] = answers[d]
    BY <1>2, <1>5, <1>6
  <2>3. \A d \in Clients : (answers'[d] = 2) <=> (answers[d] = 2)
    BY <1>4, <2>2
  <2>4. SocksTypes' /\ ServerInv'
    BY <1>1, <1>2, <1>3, <2>1, <2>2, <2>3 DEF SocksTypes, ServerInv
  <2>5. s \in Greetings
    <3>1. s \in {<<>>} \cup Greetings
      BY <1>3, <1>4 DEF StreamInv, s
    <3>2. s # <<>>
      BY <1>2, <1>6
    <3> QED BY <3>1, <3>2
  <2>6. Len(s) = s[2] + 2
    BY <2>5, SocksConstants
  <2>7. s[2] \in Nat /\ s[2] <= 1
    <3>1. 2 \in 1..n
      BY <1>2, <1>6
    <3>2. buf[2] = s[2] /\ 2 \in 1..BufLen
      BY <1>2, <3>1
    <3>3. buf[2] \in Byte
      BY <1>2, <3>2
    <3>4. buf[2] \in Nat
      BY <3>3, ByteFacts
    <3> QED BY <1>6, <3>2, <3>4
  <2>8. up'[c] = <<>>
    <3>1. Len(rest) = 0
      <4>1. Len(s) \in Nat /\ n \in Nat /\ n <= Len(s) /\ ~ (n < 3)
        BY <1>2, <1>6
      <4> QED BY <1>2, <2>6, <2>7, <4>1
    <3> QED BY <1>2, <3>1
  <2>9. StreamInv(c)'
    BY <1>1, <1>4, <2>2, <2>8 DEF StreamInv
  <2>10. server'.at # "ended" => server.at # "ended" /\ StreamInv(c)'
    BY <1>1, <2>9
  <2>11. \A d \in Clients \ {c} :
           /\ client'[d] = client[d] /\ up'[d] = up[d] /\ answers'[d] = answers[d]
           /\ echoed'[d] = echoed[d] /\ handles'[d] = handles[d]
    BY <1>1, <1>2, <2>2
  <2> QED BY <1>2, <1>7, <2>4, <2>10, <2>11, OneClient
<1> QED BY <1>1, <1>8, <1>6 DEF buf

\* A request that parse_header accepts has been read whole.
LEMMA RequestKeeps ==
  ASSUME SocksInv, NEW n \in 0..BufLen, Request(n)
  PROVE  SocksInv'
<1>0. PICK c \in Clients : c = server.with
  BY DEF SocksInv, SocksTypes
<1> DEFINE s == up[c]
           rest == SubSeq(s, n + 1, Len(s))
           buf == Buffer(n)
           data == Data(buf, n)
           handle == IF buf[2] # 1 \/ n < 3 THEN <<>> ELSE ParseHeader(data)
           a == client[c].asks
           E == Encoded(a)
<1>1. /\ server.at = "request" /\ Read(n) /\ answers[c] = 1
      /\ \/ /\ server' = [server EXCEPT !.at = "ended"]
            /\ UNCHANGED <<answers, handles, tasks>>
         \/ /\ handle # <<>>
            /\ answers' = [answers EXCEPT ![c] = 2]
            /\ handles' = [handles EXCEPT ![c] = handle]
            /\ tasks' = tasks \cup {c}
            /\ server' = [server EXCEPT !.at = "accept"]
      /\ UNCHANGED <<client, echoed>>
  BY <1>0 DEF Request, AfterHandshake
<1>2. /\ s \in Seq(Byte) /\ n \in 0..Len(s)
      /\ rest \in Seq(Byte) /\ Len(rest) = Len(s) - n
      /\ up'[c] = rest /\ up' \in [Clients -> Seq(Byte)]
      /\ \A d \in Clients \ {c} : up'[d] = up[d]
      /\ buf \in [1..BufLen -> Byte]
      /\ \A i \in 1..n : i \in 1..BufLen /\ buf[i] = s[i]
  BY <1>0, <1>1, ReadFacts
<1>3. SocksTypes /\ ServerInv /\ Ordered(echoed[c], 0) /\ HandleInv(c) /\ StreamInv(c)
  BY <1>1 DEF SocksInv
<1>4. echoed[c] = <<>> /\ s \in {<<>>, Asking(c)}
  BY <1>1, <1>3 DEF StreamInv
<1>5. /\ server \in [at : {"accept", "hello", "request", "ended"}, with : Clients,
                     buf : [1..BufLen -> Byte]]
      /\ answers \in [Clients -> {0, 1, 2}] /\ DOMAIN handles = Clients
      /\ tasks \subseteq Clients
      /\ \A d \in Clients : (handles[d] # <<>>) <=> (answers[d] = 2)
      /\ \A d \in tasks : answers[d] = 2
  BY <1>3 DEF SocksTypes
<1>7. E \in Seq(Byte) /\ IsAddress(a)
  BY <1>3, SocksTypesExpanded
<1>8. Asking(c) = <<5, 1, 0>> \o E
  BY DEF Asking
<1>6. Ordered(echoed[c], 0)'
  BY <1>1, <1>3, Zenon DEF Ordered
<1>9. BufLen \in Nat
  BY SocksConstants
<1> HIDE DEF s, rest, buf, handle, E, a
<1>10. CASE /\ server' = [server EXCEPT !.at = "ended"]
            /\ UNCHANGED <<answers, handles, tasks>>
  <2>1. SocksTypes' /\ ServerInv' /\ server'.at = "ended"
    BY <1>1, <1>2, <1>3, <1>5, <1>10 DEF SocksTypes, ServerInv
  <2>2. HandleInv(c)'
    BY <1>1, <1>3, <1>10, Zenon DEF HandleInv
  <2> QED BY <1>1, <1>2, <1>6, <1>10, <2>1, <2>2, OneClient
<1>11. CASE /\ handle # <<>>
            /\ answers' = [answers EXCEPT ![c] = 2]
            /\ handles' = [handles EXCEPT ![c] = handle]
            /\ tasks' = tasks \cup {c}
            /\ server' = [server EXCEPT !.at = "accept"]
  <2>1. ~ (n < 3) /\ handle = ParseHeader(data) /\ ParseHeader(data) # <<>>
    BY <1>11 DEF handle
  <2>2. /\ n \in Nat /\ n <= Len(s) /\ n <= BufLen /\ Len(s) \in Nat
    BY <1>2, <1>9
  <2>3. s = <<5, 1, 0>> \o E
    <3>1. s # <<>>
      BY <2>1, <2>2
    <3> QED BY <1>4, <1>8, <3>1
  <2>4. Len(s) = 3 + Len(E) /\ \A i \in 1..Len(E) : s[3 + i] = E[i]
    <3> DEFINE head == <<5, 1, 0>>
    <3>1. head \in Seq(Byte) /\ Len(head) = 3
      <4>1. 5 \in Byte /\ 1 \in Byte /\ 0 \in Byte
        BY ByteFacts
      <4> QED BY <4>1
    <3>2. s = head \o E
      BY <2>3
    <3> HIDE DEF head
    <3>3. Len(s) = Len(head) + Len(E) /\ \A i \in 1..Len(E) : s[Len(head) + i] = E[i]
      <4>1. head \in Seq(Byte) /\ E \in Seq(Byte)
        BY <1>7, <3>1
      <4> QED BY <3>2, <4>1, ConcatFacts
    <3> QED BY <3>1, <3>3
  <2>5. /\ data \in Seq(Byte) /\ Len(data) = n - 3
        /\ \A i \in 1..(n - 3) : data[i] = buf[3 + i]
    <3>1. data = SubSeq(buf, 4, n)
      BY DEF Data
    <3>2. data = [i \in 1..(n - 3) |-> buf[3 + i]]
      BY <2>1, <2>2, <3>1
    <3>3. \A i \in 1..(n - 3) : buf[3 + i] \in Byte
      <4> SUFFICES ASSUME NEW i \in 1..(n - 3) PROVE buf[3 + i] \in Byte
        OBVIOUS
      <4>1. 3 + i \in 1..BufLen
        BY <1>9, <2>1, <2>2
      <4> QED BY <1>2, <4>1
    <3>4. n - 3 \in Nat
      BY <2>1, <2>2
    <3> QED BY <3>2, <3>3, <3>4
  <2> HIDE DEF data
  <2>6. Len(E) \in Nat /\ Len(data) <= Len(E)
    BY <1>7, <2>2, <2>4, <2>5
  <2>7. \A i \in 1..Len(data) : data[i] = E[i]
    <3> SUFFICES ASSUME NEW i \in 1..(n - 3) PROVE data[i] = E[i]
      BY <2>5
    <3>1. 3 + i \in 1..n
      BY <2>1, <2>2
    <3>2. i \in 1..Len(E)
      BY <2>5, <2>6
    <3> QED BY <1>2, <2>4, <2>5, <3>1, <3>2
  <2>8. /\ Len(data) = Len(E)
        /\ Meant(handle) =
             [a EXCEPT !.host = IF a.kind = "name" THEN @
                                ELSE <<"">> \o [i \in 1..4 |-> ToString(@[i])]]
    BY <1>7, <2>1, <2>5, <2>6, <2>7, ParsedIsAsked DEF E
  <2>9. up'[c] = <<>>
    <3>1. Len(rest) = 0
      <4>1. n - 3 = Len(E) /\ Len(s) = 3 + Len(E) /\ Len(rest) = Len(s) - n
        BY <1>2, <2>4, <2>5, <2>8
      <4> DEFINE k == Len(E)
      <4>2. k \in Nat
        BY <2>6
      <4> HIDE DEF k
      <4>3. n = 3 + k /\ Len(s) = 3 + k
        BY <2>2, <4>1, <4>2 DEF k
      <4>4. Len(s) - n = 0
        BY <4>2, <4>3
      <4> QED BY <4>1, <4>4, Zenon
    <3> QED BY <1>2, <3>1
  <2>10. /\ answers' \in [Clients -> {0, 1, 2}] /\ answers'[c] = 2
         /\ \A d \in Clients \ {c} : answers'[d] = answers[d]
    BY <1>5, <1>11
  <2>11. /\ DOMAIN handles' = Clients /\ handles'[c] = handle
         /\ \A d \in Clients \ {c} : handles'[d] = handles[d]
    BY <1>5, <1>11
  <2>12. /\ server' \in [at : {"accept", "hello", "request", "ended"}, with : Clients,
                         buf : [1..BufLen -> Byte]]
         /\ server'.at = "accept"
    BY <1>5, <1>11
  <2>13. \A d \in Clients : (handles'[d] # <<>>) <=> (answers'[d] = 2)
    BY <1>5, <1>11, <2>10, <2>11
  <2>14. tasks' \subseteq Clients /\ \A d \in tasks' : answers'[d] = 2
    BY <1>5, <1>11, <2>10
  <2>15. SocksTypes'
    BY <1>1, <1>2, <1>3, <2>10, <2>11, <2>12, <2>13, <2>14 DEF SocksTypes
  <2>16. ServerInv'
    BY <2>12 DEF ServerInv
  <2>17. HandleInv(c)'
    <3>1. client'[c].asks = a /\ handles'[c] = handle
      BY <1>1, <2>11 DEF a
    <3> QED BY <2>8, <3>1, Zenon DEF HandleInv
  <2>18. StreamInv(c)'
    <3>1. echoed'[c] = <<>>
      BY <1>1, <1>4
    <3>2. Ordered(up[c], Len(echoed[c]))'
      <4>1. Len(<<>>) = 0 /\ 1..0 = {}
        OBVIOUS
      <4> QED BY <2>9, <4>1 DEF Ordered
    <3> QED BY <2>9, <2>10, <3>1, <3>2 DEF StreamInv
  <2>19. server'.at # "ended" => server.at # "ended" /\ StreamInv(c)'
    BY <1>1, <2>18
  <2>20. \A d \in Clients \ {c} :
           /\ client'[d] = client[d] /\ up'[d] = up[d] /\ answers'[d] = answers[d]
           /\ echoed'[d] = echoed[d] /\ handles'[d] = handles[d]
    BY <1>1, <1>2, <2>10, <2>11
  <2> QED BY <1>6, <2>15, <2>16, <2>17, <2>19, <2>20, OneClient
<1> QED BY <1>1, <1>10, <1>11

\* What the task writes back follows what it has written.
LEMMA EchoKeeps ==
  ASSUME SocksInv, NEW c \in Clients, NEW n \in 1..DataLen, Echo(c, n)
  PROVE  SocksInv'
<1> DEFINE s == up[c]
           e == echoed[c]
           piece == SubSeq(s, 1, n)
           rest == SubSeq(s, n + 1, Len(s))
           more == e \o piece
<1>1. /\ server.at # "ended" /\ c \in tasks /\ n <= Len(s)
      /\ echoed' = [echoed EXCEPT ![c] = more]
      /\ up' = [up EXCEPT ![c] = rest]
      /\ UNCHANGED <<client, answers, server, handles, tasks>>
  BY DEF Echo, Written
<1>2. SocksTypes /\ ServerInv /\ StreamInv(c) /\ Ordered(e, 0) /\ HandleInv(c)
  BY <1>1 DEF SocksInv
<1>3. answers[c] = 2
  BY <1>1, <1>2 DEF SocksTypes
<1>4. s \in Seq(Byte) /\ e \in Seq(Byte) /\ Len(s) \in Nat /\ Len(e) \in Nat
  BY <1>2, SocksTypesExpanded
<1>5. Ordered(s, Len(e)) /\ client[c].at # "asked"
  <2>1. s # <<>>
    <3>1. n > 0
      BY SocksConstants
    <3> QED BY <1>1, <1>4, <3>1, SocksConstants
  <2> QED BY <1>2, <1>3, <2>1 DEF StreamInv
<1> HIDE DEF s, e
<1>7. n \in 0..Len(s) /\ n \in Nat
  BY <1>1, <1>4, SocksConstants
<1>8. /\ piece \in Seq(Byte) /\ Len(piece) = n /\ rest \in Seq(Byte)
  BY <1>4, <1>7, CutFacts
<1>6. Ordered(piece, Len(e)) /\ Ordered(rest, Len(e) + n)
  BY <1>4, <1>5, <1>7, OrderedCut
<1> HIDE DEF piece, rest
<1>9. Ordered(more, 0) /\ more \in Seq(Byte) /\ Len(more) = Len(e) + n
  <2>1. 0 \in Nat /\ 0 + Len(e) = Len(e)
    BY <1>4
  <2>2. Ordered(piece, 0 + Len(e))
    BY <1>6, <2>1
  <2>3. /\ Ordered(more, 0) /\ more \in Seq(Byte)
        /\ Len(more) = Len(e) + Len(piece)
    BY <1>2, <1>4, <1>8, <2>1, <2>2, OrderedJoin DEF e
  <2> HIDE DEF more
  <2> QED BY <1>8, <2>3
<1> HIDE DEF more
<1>10. up \in [Clients -> Seq(Byte)] /\ echoed \in [Clients -> Seq(Byte)]
  BY <1>2 DEF SocksTypes
<1>11. /\ up' \in [Clients -> Seq(Byte)] /\ echoed' \in [Clients -> Seq(Byte)]
       /\ up'[c] = rest /\ echoed'[c] = more
       /\ \A d \in Clients \ {c} : up'[d] = up[d] /\ echoed'[d] = echoed[d]
  BY <1>1, <1>8, <1>9, <1>10
<1>12. SocksTypes' /\ ServerInv'
  BY <1>1, <1>2, <1>11 DEF SocksTypes, ServerInv
<1>13. Ordered(echoed[c], 0)' /\ HandleInv(c)'
  BY <1>1, <1>2, <1>9, <1>11, Zenon DEF HandleInv, Ordered
<1>14. StreamInv(c)'
  <2>1. Ordered(up[c], Len(echoed[c]))'
    BY <1>6, <1>9, <1>11, Zenon DEF Ordered
  <2>2. answers'[c] = 2 /\ client'[c].at # "asked"
    BY <1>1, <1>3, <1>5
  <2> QED BY <2>1, <2>2 DEF StreamInv
<1> QED BY <1>1, <1>11, <1>12, <1>13, <1>14, OneClient

LEMMA EchoEndsKeeps ==
  ASSUME SocksInv, NEW c \in Clients, EchoEnds(c)
  PROVE  SocksInv'
<1>1. /\ server.at # "ended" /\ tasks' = tasks \ {c}
      /\ UNCHANGED <<client, up, answers, echoed, server, handles>>
  BY DEF EchoEnds
<1>2. SocksTypes /\ ServerInv /\ StreamInv(c) /\ Ordered(echoed[c], 0) /\ HandleInv(c)
  BY <1>1 DEF SocksInv
<1>3. SocksTypes' /\ ServerInv'
  BY <1>1, <1>2 DEF SocksTypes, ServerInv
<1>4. StreamInv(c)' /\ Ordered(echoed[c], 0)' /\ HandleInv(c)'
  BY <1>1, <1>2, Zenon DEF StreamInv, Asking, HandleInv, Ordered
<1> QED BY <1>1, <1>3, <1>4, OneClient

LEMMA StutterSocks ==
  ASSUME SocksInv, UNCHANGED socksVars
  PROVE  SocksInv'
<1>1. UNCHANGED <<client, up, answers, echoed, server, handles, tasks>>
  BY DEF socksVars
<1>2. SocksTypes' /\ ServerInv'
  BY <1>1 DEF SocksInv, SocksTypes, ServerInv
<1>3. ASSUME NEW c \in Clients
      PROVE  /\ server'.at # "ended" => StreamInv(c)'
             /\ Ordered(echoed[c], 0)' /\ HandleInv(c)'
  <2>1. /\ server.at # "ended" => StreamInv(c)
        /\ Ordered(echoed[c], 0) /\ HandleInv(c)
    BY DEF SocksInv
  <2> QED BY <1>1, <2>1, Zenon DEF StreamInv, Asking, HandleInv, Ordered
<1> QED BY <1>2, <1>3 DEF SocksInv

LEMMA NextSocks == SocksInv /\ [SocksNext]_socksVars => SocksInv'
<1> SUFFICES ASSUME SocksInv, [SocksNext]_socksVars
             PROVE  SocksInv'
  OBVIOUS
<1>1. ASSUME NEW c \in Clients, Greet(c) PROVE SocksInv'
  BY <1>1, GreetKeeps
<1>2. ASSUME NEW c \in Clients, Ask(c) PROVE SocksInv'
  BY <1>2, AskKeeps
<1>3. ASSUME NEW c \in Clients, Send(c) PROVE SocksInv'
  BY <1>3, SendKeeps
<1>4. ASSUME NEW c \in Clients, Close(c) PROVE SocksInv'
  BY <1>4, CloseKeeps
<1>5. ASSUME NEW c \in Clients, EchoEnds(c) PROVE SocksInv'
  BY <1>5, EchoEndsKeeps
<1>7. ASSUME NEW c \in Clients, NEW n \in 1..DataLen, Echo(c, n) PROVE SocksInv'
  BY <1>7, EchoKeeps
<1>8. ASSUME NEW c \in Clients, Accept(c) PROVE SocksInv'
  BY <1>8, AcceptKeeps
<1>6. ASSUME NEW n \in 0..BufLen, Hello(n) PROVE SocksInv'
  BY <1>6, HelloKeeps
<1>9. ASSUME NEW n \in 0..BufLen, Request(n) PROVE SocksInv'
  BY <1>9, RequestKeeps
<1>10. CASE UNCHANGED socksVars
  BY <1>10, StutterSocks
<1> QED BY <1>1, <1>2, <1>3, <1>4, <1>5, <1>7, <1>8, <1>6, <1>9, <1>10
        DEF SocksNext, Main

\* The inductive invariant of acceptor, its callers and its clients: nothing is
\* left in the stream by an answer, and the data follows in order.
THEOREM SocksCorrect == SocksSpec => []SocksInv
BY InitSocks, NextSocks, PTL DEF SocksSpec

\* A handle that acceptor returns is of the address its client asked for,
\* however the bytes were cut and whoever came before (HandlesFaithful).
THEOREM HandlesAreFaithful == SocksSpec => []HandlesFaithful
<1>1. SocksInv => HandlesFaithful
  BY DEF SocksInv, HandleInv, HandlesFaithful
<1> QED BY <1>1, SocksCorrect, PTL

\* The echo starts with the first byte of data and has no gap (EchoesInOrder).
THEOREM EchoesAreInOrder == SocksSpec => []EchoesInOrder
<1>1. SocksInv => EchoesInOrder
  <2> SUFFICES ASSUME SocksInv, NEW c \in Clients
               PROVE  echoed[c] = [i \in 1..Len(echoed[c]) |-> i]
    BY DEF EchoesInOrder
  <2> DEFINE s == echoed[c]
  <2>1. s \in Seq(Byte) /\ Len(s) \in Nat
    BY SocksTypesExpanded DEF SocksInv
  <2>2. Ordered(s, 0)
    BY DEF SocksInv
  <2> HIDE DEF s
  <2>3. \A i \in 1..Len(s) : s[i] = i
    BY <2>1, <2>2 DEF Ordered
  <2>4. s = [i \in 1..Len(s) |-> i]
    BY <2>1, <2>3
  <2> QED BY <2>4 DEF s
<1> QED BY <1>1, SocksCorrect, PTL

(***************************************************************************)
(* MCTcp: one of the two, the other over.                                  *)
(***************************************************************************)

LEMMA OverHolds ==
  /\ ConnectorOver => ConnectorInv
  /\ SocksOver => SocksInv
<1>1. ASSUME ConnectorOver PROVE ConnectorInv
  <2>1. /\ asked = Name /\ unsent = <<>> /\ shut = Ways
        /\ reader = [at |-> "failed", kind |-> "", need |-> 1]
        /\ target = <<>> /\ outcome = <<>>
        /\ sent = [w \in Ways |-> 0] /\ wire = [w \in Ways |-> <<>>]
        /\ held = [w \in Ways |-> <<>>] /\ got = [w \in Ways |-> <<>>]
    BY <1>1 DEF ConnectorOver
  <2>2. <<>> \in Seq(Byte) /\ 0 \in 0..RelayLen
    BY RelayLenAssumption, ByteFacts
  <2>3. ConnectorTypes
    <3>1. asked \in Targets /\ target \in {<<>>, asked} /\ shut \subseteq Ways
      BY <2>1, NameAssumption
    <3>2. /\ sent \in [Ways -> 0..RelayLen] /\ wire \in [Ways -> Seq(Byte)]
          /\ held \in [Ways -> Seq(Byte)] /\ got \in [Ways -> Seq(Byte)]
      BY <2>1, <2>2
    <3>3. /\ reader \in [at : {"type", "length", "rest", "connect", "relay", "failed"},
                         kind : {"v4", "name", "v6", ""}, need : Nat]
          /\ reader.need <= 257
      <4>1. reader.need = 1
        BY <2>1
      <4>2. reader.need <= 257
        BY <4>1
      <4> QED BY <2>1, <4>2
    <3> QED BY <2>1, <3>1, <3>2, <3>3 DEF ConnectorTypes
  <2>4. UnsentInv
    <3>1. Len(Encoded(asked)) \in Nat
      BY <2>3, AskedFacts
    <3>2. Len(unsent) = 0
      BY <2>1
    <3>3. Len(unsent) <= Len(Encoded(asked))
      BY <3>1, <3>2
    <3>4. \A i \in 1..Len(unsent) : FALSE
      BY <3>2
    <3> QED BY <2>1, <2>2, <3>3, <3>4 DEF UnsentInv
  <2>5. ~ Reading /\ ~ HasRead
    BY <2>1 DEF Reading, HasRead
  <2>6. CopyInv
    <3>1. Len(<<>>) = 0 /\ 1..0 = {} /\ 0 + 0 = 0 /\ 0 <= 0
      OBVIOUS
    <3>2. ASSUME NEW w \in Ways
          PROVE  /\ Ordered(got[w], 0) /\ Ordered(held[w], Len(got[w])) /\ Copying(w)
                 /\ Len(got[w]) + Len(held[w]) <= sent[w]
      <4>1. got[w] = <<>> /\ held[w] = <<>> /\ wire[w] = <<>> /\ sent[w] = 0
        BY <2>1
      <4>2. Len(got[w]) = 0 /\ Len(held[w]) = 0 /\ Len(wire[w]) = 0
        BY <3>1, <4>1, Zenon
      <4>3. /\ Ordered(got[w], 0) /\ Ordered(held[w], Len(got[w]))
            /\ Ordered(wire[w], Len(got[w]) + Len(held[w]))
        BY <3>1, <4>2 DEF Ordered
      <4> QED BY <3>1, <4>1, <4>2, <4>3, Zenon DEF Copying
    <3> QED BY <3>2 DEF CopyInv, Ways
  <2>7. OutcomeInv
    BY <2>1 DEF OutcomeInv
  <2> QED BY <2>3, <2>4, <2>5, <2>6, <2>7 DEF ConnectorInv
<1>2. ASSUME SocksOver PROVE SocksInv
  <2>1. /\ client = [c \in Clients |-> [at |-> "closed", asks |-> Name]]
        /\ up = [c \in Clients |-> <<>>] /\ answers = [c \in Clients |-> 0]
        /\ echoed = [c \in Clients |-> <<>>] /\ handles = [c \in Clients |-> <<>>]
        /\ server = [at |-> "ended", with |-> AnyClient, buf |-> Zeros]
        /\ tasks = {}
    BY <1>2 DEF SocksOver
  <2>2. SocksTypes
    <3>1. client \in [Clients -> [at : Steps, asks : Requests]]
      BY <2>1, NameAssumption DEF Steps
    <3>2. <<>> \in Seq(Byte)
      OBVIOUS
    <3>3. /\ up \in [Clients -> Seq(Byte)] /\ echoed \in [Clients -> Seq(Byte)]
          /\ answers \in [Clients -> {0, 1, 2}] /\ DOMAIN handles = Clients
      BY <2>1, <3>2
    <3>4. server \in [at : {"accept", "hello", "request", "ended"}, with : Clients,
                      buf : [1..BufLen -> Byte]]
      <4>1. AnyClient \in Clients
        BY ClientsAssumption DEF AnyClient
      <4>2. 0 \in Byte
        BY ByteFacts
      <4>3. Zeros \in [1..BufLen -> Byte]
        BY <4>2 DEF Zeros
      <4> QED BY <2>1, <4>1, <4>3
    <3>5. \A c \in Clients : (handles[c] # <<>>) <=> (answers[c] = 2)
      BY <2>1
    <3> QED BY <2>1, <3>1, <3>3, <3>4, <3>5 DEF SocksTypes
  <2>3. ServerInv /\ server.at = "ended"
    BY <2>1 DEF ServerInv
  <2>4. \A c \in Clients : Ordered(echoed[c], 0)
    <3>1. Len(<<>>) = 0 /\ 1..0 = {}
      OBVIOUS
    <3> QED BY <2>1, <3>1 DEF Ordered
  <2>5. \A c \in Clients : HandleInv(c)
    BY <2>1, Zenon DEF HandleInv
  <2> QED BY <2>2, <2>3, <2>4, <2>5 DEF SocksInv
<1> QED BY <1>1, <1>2

LEMMA InstanceInvariant == FairSpec => [](SocksInv /\ ConnectorInv)
<1>1. Init => SocksInv /\ ConnectorInv
  BY OverHolds, InitSocks, InitConnector DEF Init
<1>2. /\ SocksInv /\ ConnectorInv /\ [Next]_<<socksVars, connectorVars>>
      => SocksInv' /\ ConnectorInv'
  <2>1. ASSUME [Next]_<<socksVars, connectorVars>>
        PROVE  [SocksNext]_socksVars /\ [ConnectorNext]_connectorVars
    BY <2>1 DEF Next
  <2> QED BY <2>1, NextSocks, NextConnector
<1> QED BY <1>1, <1>2, PTL DEF FairSpec

LEMMA TypesOfSocks == SocksInv => SocksTypeOK
<1> SUFFICES ASSUME SocksInv PROVE SocksTypeOK
  OBVIOUS
<1>1. SocksTypes /\ ServerInv
  BY DEF SocksInv
<1>2. ASSUME NEW c \in Clients
      PROVE  /\ client[c].at \in Steps /\ client[c].asks \in Requests
             /\ up[c] \in Seq(Byte) /\ echoed[c] \in Seq(Byte)
             /\ answers[c] \in 0..2
             /\ (handles[c] # <<>>) <=> (answers[c] = 2)
  <2>1. /\ client[c] \in [at : Steps, asks : Requests]
        /\ up[c] \in Seq(Byte) /\ echoed[c] \in Seq(Byte) /\ answers[c] \in {0, 1, 2}
    BY <1>1, SocksTypesExpanded
  <2>2. (handles[c] # <<>>) <=> (answers[c] = 2)
    BY <1>1 DEF SocksTypes
  <2>3. answers[c] \in 0..2
    BY <2>1
  <2> QED BY <2>1, <2>2, <2>3
<1>3. tasks \subseteq {c \in Clients : answers[c] = 2}
  BY <1>1 DEF SocksTypes
<1>4. /\ server.at \in {"accept", "hello", "request", "ended"}
      /\ server.with \in Clients /\ server.buf \in [1..BufLen -> Byte]
  BY <1>1 DEF SocksTypes
<1> QED BY <1>1, <1>2, <1>3, <1>4 DEF SocksTypeOK, ServerInv

LEMMA TypesOfConnector == ConnectorInv => ConnectorTypeOK
<1> SUFFICES ASSUME ConnectorInv PROVE ConnectorTypeOK
  OBVIOUS
<1>1. ConnectorTypes /\ UnsentInv
  BY DEF ConnectorInv
<1> DEFINE E == Encoded(asked)
           e == Len(E)
           u == Len(unsent)
           n == (e - u) + 1
<1>2. E \in Seq(Byte) /\ e \in Nat /\ IsAddress(asked)
  BY <1>1, AskedFacts
<1>3. /\ unsent \in Seq(Byte) /\ u <= e
      /\ \A i \in 1..u : unsent[i] = E[e - u + i]
  BY <1>1 DEF UnsentInv
<1>4. u \in Nat
  BY <1>3
<1>5. n \in 1..(e + 1) /\ unsent = SubSeq(E, n, e)
  <2> DEFINE rest == SubSeq(E, (e - u) + 1, Len(E))
  <2>1. (e - u) \in 0..Len(E) /\ n \in 1..(e + 1) /\ e - (e - u) = u
    <3> HIDE DEF u
    <3>1. e - u \in 0..e /\ n \in 1..(e + 1) /\ e - (e - u) = u
      BY <1>2, <1>3, <1>4
    <3> QED BY <3>1
  <2>2. /\ rest \in Seq(Byte) /\ Len(rest) = Len(E) - (e - u)
        /\ \A i \in 1..(Len(E) - (e - u)) : rest[i] = E[(e - u) + i]
    BY <1>2, <2>1, CutFacts
  <2> HIDE DEF rest
  <2>3. Len(rest) = u /\ \A i \in 1..u : rest[i] = E[e - u + i]
    BY <2>1, <2>2
  <2>4. unsent = rest
    <3>1. \A i \in 1..u : unsent[i] = rest[i]
      BY <1>3, <2>3
    <3> QED BY <1>3, <2>2, <2>3, <3>1, SeqEqual
  <2> QED BY <2>1, <2>4 DEF rest
<1>6. \E m \in 1..(Len(Encoded(asked)) + 1) :
        unsent = SubSeq(Encoded(asked), m, Len(Encoded(asked)))
  <2> HIDE DEF n
  <2> QED BY <1>5
<1>7. ASSUME NEW w \in Ways
      PROVE  /\ sent[w] \in 0..RelayLen
             /\ wire[w] \in Seq(Byte) /\ held[w] \in Seq(Byte) /\ got[w] \in Seq(Byte)
  BY <1>1 DEF ConnectorTypes
<1>8. /\ reader.at \in {"type", "length", "rest", "connect", "relay", "failed"}
      /\ reader.kind \in DOMAIN TypeByte \cup {""}
      /\ reader.need \in 0..257
  <2>1. /\ reader.at \in {"type", "length", "rest", "connect", "relay", "failed"}
        /\ reader.kind \in {"v4", "name", "v6", ""}
        /\ reader.need \in Nat /\ reader.need <= 257
    BY <1>1 DEF ConnectorTypes
  <2> DEFINE need == reader.need
  <2>2. need \in 0..257
    <3>1. need \in Nat /\ need <= 257
      BY <2>1
    <3> HIDE DEF need
    <3> QED BY <3>1
  <2> QED BY <2>1, <2>2, TypeBytes
<1>9. /\ asked \in Targets /\ shut \subseteq Ways
      /\ target = <<>> \/ IsAddress(target)
      /\ outcome = <<>> \/ outcome \in Ways \X {"end", "error"}
  BY <1>1, <1>2 DEF ConnectorTypes
<1> HIDE DEF E, e, u, n
<1> QED BY <1>6, <1>7, <1>8, <1>9 DEF ConnectorTypeOK

\* Every variable of Socks5 and of TcpConnector keeps its type, and what is
\* unsent is an end of the address (TypeOK).
THEOREM InstanceTypes == FairSpec => []TypeOK
<1>1. SocksInv /\ ConnectorInv => TypeOK
  BY TypesOfSocks, TypesOfConnector DEF TypeOK
<1> QED BY <1>1, InstanceInvariant, PTL
=============================================================================
