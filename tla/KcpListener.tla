---------------------------- MODULE KcpListener ----------------------------
(***************************************************************************)
(* KcpListener (src/kcp/mod.rs) and the server loop around it              *)
(* (examples/kcp_l.rs): accept finds the control block of a datagram in a  *)
(* table keyed by address, or makes a new one; one read follows; if it     *)
(* fails, drop_stream takes the control block out of the table.  A client  *)
(* may restart, and be given the same address, with a new conversation.    *)
(*                                                                         *)
(* One iteration of the server's loop is one action: it is the only task   *)
(* at the server and meets the rest of the world only in the datagrams.    *)
(* A client flushes when it writes and, as nothing polls its timer, after  *)
(* input of a datagram it has received, and at no other time.              *)
(*                                                                         *)
(* Abstractions: lengths are those of the code, in bytes, and decide how   *)
(* segments share datagrams and what fits a buffer; time is left out, so   *)
(* that an update flushes or not and any unacknowledged segment may be     *)
(* overdue; windows stay open (MaxMsgs is below the 128 of wndsize); a     *)
(* message has one fragment.  Replies are modelled as far as they carry    *)
(* acknowledgements and ask for one: they are not sent again, and the      *)
(* socket is not busy when the server writes one (poll_write would start   *)
(* over and send it twice), as it may be after recv.  A datagram is        *)
(* repeated when the client sends it again, not by the network.            *)
(***************************************************************************)
EXTENDS Integers, FiniteSets, Sequences, FiniteSetsExt, SequencesExt

CONSTANTS
  Addr,      \* addresses of clients
  Sizes,     \* lengths of messages
  BufLen,    \* length of the buffer of recv_from (1024)
  MaxConv,   \* bound: conversations a client begins at one address
  MaxMsgs,   \* bound: messages written in each conversation
  MaxUp,     \* bound: datagrams in flight to the server
  MaxDown    \* bound: datagrams in flight to the clients

\* KCP_OVERHEAD
Header == 24

ASSUME SizesAssumption == Sizes \subseteq 1..(BufLen - Header) /\ BufLen \in Nat
ASSUME BoundAssumption ==
  MaxConv \in Nat \ {0} /\ MaxMsgs \in [1..MaxConv -> 0..128]

VARIABLES
  conv,         \* the conversation of the client at an address
  snd_nxt,      \* the client's next sequence number
  snd_buf,      \* the client's unacknowledged messages: their lengths
  owes,         \* has the client a reply to acknowledge?
  connections,  \* the listener's table of control blocks
  up, down,     \* datagrams on their way to the server, to the clients
  log,          \* history: what was read from the connection in the table
  read,         \* history: all messages the server has read
  lost          \* history: messages that went with a stream dropped

client == <<conv, snd_nxt, snd_buf, owes>>
vars == <<client, connections, up, down, log, read, lost>>

Conv == 1..MaxConv

\* The receive window that accept sets with wndsize.
RcvWnd == 128
Number == 0..(RcvWnd - 1)

\* A message is known by who sent it, in which conversation, and its number.
Message == [addr : Addr, conv : Conv, sn : Number, size : Sizes]

Segment == [cmd : {"PUSH", "ACK"}, sn : Nat, size : Nat]

TypeOK ==
  /\ conv \in [Addr -> Conv]
  /\ snd_nxt \in [Addr -> 0..128]
  /\ \A a \in Addr : DOMAIN snd_buf[a] \subseteq 0..(snd_nxt[a] - 1)
  /\ owes \in [Addr -> BOOLEAN]
  /\ DOMAIN connections \subseteq Addr
  /\ \A a \in DOMAIN connections :
       /\ connections[a].conv \in Conv
       /\ connections[a].rcv_nxt \in 0..128
       /\ DOMAIN connections[a].rcv_buf \subseteq
            connections[a].rcv_nxt + 1 .. 127
       /\ connections[a].rcv_queue \in Seq(Message)
       /\ connections[a].acklist \subseteq Number

Init ==
  /\ conv = [a \in Addr |-> 1]
  /\ snd_nxt = [a \in Addr |-> 0]
  /\ snd_buf = [a \in Addr |-> <<>>]
  /\ owes = [a \in Addr |-> FALSE]
  /\ connections = <<>>
  /\ up = {} /\ down = {}
  /\ log = [a \in Addr |-> <<>>]
  /\ read = {} /\ lost = {}
----------------------------------------------------------------------------
(* Datagrams *)

Bytes(segs) == FoldLeft(LAMBDA sum, s : sum + Header + s.size, 0, segs)

\* Where the i-th segment begins its datagram, given the cuts before it.
Start(cuts, i) == Max({1} \cup {c \in cuts : c <= i})

\* flush begins a new datagram at a segment that is not longer than what is
\* buffered, and appends a longer one (remaining_mut of a growing buffer is
\* not its fill level).
CutsOf(segs, cuts) ==
  \A i \in 2..Len(segs) :
    i \in cuts <=>
      Header + segs[i].size <= Bytes(SubSeq(segs, Start(cuts, i - 1), i - 1))

\* The datagrams that flush makes of the segments.
Datagrams(segs) ==
  LET cuts == CHOOSE cuts \in SUBSET (2..Len(segs)) : CutsOf(segs, cuts)
      from == IF segs = <<>> THEN {} ELSE {1} \cup cuts
      to(c) == Min({Len(segs) + 1} \cup {e \in cuts : e > c}) - 1
  IN  {SubSeq(segs, c, to(c)) : c \in from}

\* The i-th segment has arrived whole in the buffer of recv_from.
Whole(segs, i) == Bytes(SubSeq(segs, 1, i)) <= BufLen

\* The numbers in their order.
Ascending(numbers) ==
  CHOOSE order \in [1..Cardinality(numbers) -> numbers] :
    \A i, j \in DOMAIN order : i < j => order[i] < order[j]

\* PUSH segments of the messages `sizes', by number.
Pushes(sizes, numbers) ==
  [i \in 1..Cardinality(numbers) |->
     LET n == Ascending(numbers)[i]
     IN  [cmd |-> "PUSH", sn |-> n, size |-> sizes[n]]]

AckSegs(numbers) ==
  [i \in 1..Cardinality(numbers) |->
     [cmd |-> "ACK", sn |-> Ascending(numbers)[i], size |-> 0]]
----------------------------------------------------------------------------
(* The clients *)

\* flush of the client at a: the acknowledgement it owes, then new and
\* overdue messages.  The network may lose any datagram.
ClientFlush(a, owed, sizes, numbers) ==
  LET control == IF owed THEN AckSegs({0}) ELSE <<>>
      out == {[addr |-> a, conv |-> conv[a], segs |-> segs] :
                segs \in Datagrams(control \o Pushes(sizes, numbers))}
  IN  /\ \E kept \in SUBSET out :
           /\ Cardinality(up \cup kept) <= MaxUp
           /\ up' = up \cup kept
      /\ owes' = [owes EXCEPT ![a] = FALSE]

\* A message is written, and sent with those that are overdue.
Write(a, size, overdue) ==
  LET n == snd_nxt[a]
      buf == [i \in DOMAIN snd_buf[a] \cup {n} |->
                IF i = n THEN size ELSE snd_buf[a][i]]
  IN  /\ n < MaxMsgs[conv[a]]
      /\ snd_nxt' = [snd_nxt EXCEPT ![a] = n + 1]
      /\ snd_buf' = [snd_buf EXCEPT ![a] = buf]
      /\ ClientFlush(a, owes[a], buf, overdue \cup {n})
      /\ UNCHANGED <<conv, connections, down, log, read, lost>>

\* Mutant: the client does not compare the conversation.
OfConversationAny(c, d) == TRUE

\* input refuses a datagram of another conversation.
OfConversation(c, d) == d.conv = c

\* The client receives a datagram: acknowledgements, and perhaps a reply.
\* update follows, whether or not input has refused it, and may flush.
ClientReceive(d, flushed, overdue) ==
  LET a == d.addr
      mine == OfConversation(conv[a], d)
      acked == {s.sn : s \in {d.segs[i] : i \in {i \in 1..Len(d.segs) :
                                           d.segs[i].cmd = "ACK"}}}
      left == {n \in DOMAIN snd_buf[a] : mine => n >= d.una /\ n \notin acked}
      buf == [n \in left |-> snd_buf[a][n]]
      owed == owes[a] \/ (mine /\ \E i \in 1..Len(d.segs) :
                                   d.segs[i].cmd = "PUSH" /\ Whole(d.segs, i))
  IN  /\ down' = down \ {d}
      /\ snd_buf' = [snd_buf EXCEPT ![a] = buf]
      /\ IF flushed
         THEN overdue \subseteq left /\ ClientFlush(a, owed, buf, overdue)
         ELSE up' = up /\ owes' = [owes EXCEPT ![a] = owed]
      /\ UNCHANGED <<conv, snd_nxt, connections, log, read, lost>>

\* The client is started again, connects with a new conversation and is given
\* the same address.
Restart(a) ==
  /\ conv[a] < MaxConv
  /\ conv' = [conv EXCEPT ![a] = @ + 1]
  /\ snd_nxt' = [snd_nxt EXCEPT ![a] = 0]
  /\ snd_buf' = [snd_buf EXCEPT ![a] = <<>>]
  /\ owes' = [owes EXCEPT ![a] = FALSE]
  /\ UNCHANGED <<connections, up, down, log, read, lost>>
----------------------------------------------------------------------------
(* The server *)

NewBlock(c) ==
  [conv |-> c, rcv_nxt |-> 0, rcv_buf |-> <<>>, rcv_queue |-> <<>>, acklist |-> {}]

\* The first number from nxt on that is not in `have'.
NextMissing(nxt, have) == Min({n \in nxt..(nxt + Cardinality(have)) : n \notin have})

PushNumbers(segs, k) ==
  {segs[i].sn : i \in {i \in 1..k : segs[i].cmd = "PUSH"}}

\* input gets as far as the i-th segment: all before it are whole, and none
\* of them is a PUSH that it has already received, whose payload input takes
\* for the next header.
Reached(kcb, segs, i) ==
  \A j \in 1..(i - 1) :
    /\ Whole(segs, j)
    /\ segs[j].cmd = "PUSH" =>
         segs[j].sn >= NextMissing(kcb.rcv_nxt,
                          DOMAIN kcb.rcv_buf \cup PushNumbers(segs, j - 1))

\* The numbers of the PUSH segments that input takes.
Taken(kcb, segs) ==
  {segs[i].sn : i \in {i \in 1..Len(segs) : segs[i].cmd = "PUSH"
                         /\ Reached(kcb, segs, i) /\ Whole(segs, i)}}

\* Mutant: a PUSH is acknowledged before it is known to be whole.
AckedEarly(kcb, segs) ==
  {segs[i].sn : i \in {i \in 1..Len(segs) :
                         segs[i].cmd = "PUSH" /\ Reached(kcb, segs, i)}}

\* They are acknowledged, also those received before.
Acked(kcb, segs) == Taken(kcb, segs)

\* Mutant: what has been moved stays in rcv_buf too.
RemainingAll(buf, nxt) == buf

\* What rcv_buf keeps when all before nxt has been moved to rcv_queue.
Remaining(buf, nxt) == [n \in {m \in DOMAIN buf : m > nxt} |-> buf[n]]

\* input: the messages it takes go through rcv_buf to rcv_queue.
Input(kcb, d) ==
  LET window == kcb.rcv_nxt..(kcb.rcv_nxt + RcvWnd - 1)
      new == (Taken(kcb, d.segs) \cap window) \ DOMAIN kcb.rcv_buf
      size(n) == (CHOOSE s \in Range(d.segs) : s.cmd = "PUSH" /\ s.sn = n).size
      buf == [n \in DOMAIN kcb.rcv_buf \cup new |->
                IF n \in new
                THEN [addr |-> d.addr, conv |-> d.conv, sn |-> n, size |-> size(n)]
                ELSE kcb.rcv_buf[n]]
      nxt == NextMissing(kcb.rcv_nxt, DOMAIN buf)
      moved == [i \in 1..(nxt - kcb.rcv_nxt) |-> buf[kcb.rcv_nxt + i - 1]]
  IN  IF ~ OfConversation(kcb.conv, d)
      THEN kcb
      ELSE [conv |-> kcb.conv,
            rcv_nxt |-> nxt,
            rcv_buf |-> Remaining(buf, nxt),
            rcv_queue |-> kcb.rcv_queue \o moved,
            acklist |-> kcb.acklist \cup Acked(kcb, d.segs)]

\* flush of the server, towards a: acknowledgements, and perhaps a reply.
Answers(a, kcb, segs) ==
  {[addr |-> a, conv |-> kcb.conv, una |-> kcb.rcv_nxt, segs |-> out] :
     out \in Datagrams(segs)}

\* A control block after flush has sent its acknowledgements.
Flushed(kcb) == [kcb EXCEPT !.acklist = {}]

ServerSends(out) ==
  \E kept \in SUBSET out :
    /\ Cardinality(down \cup kept) <= MaxDown
    /\ down' = down \cup kept

\* accept has taken d from the socket, and input and update have run: this is
\* the control block it is for.
Block(d) ==
  Input(IF d.addr \in DOMAIN connections THEN connections[d.addr]
        ELSE NewBlock(d.conv), d)

\* The length of the datagram in the buffer of recv_from.
Length(d) == Min({Bytes(d.segs), BufLen})

\* Mutant: a bare header does not make accept return, though the connection
\* be new.
WaitsLonger(d) == Length(d) < 25

\* After a bare header on a connection it knows, accept waits for the next
\* datagram.
Waits(d) == d.addr \in DOMAIN connections /\ Length(d) < 25

\* try_read passes recv a buffer as long as the datagram was.
Readable(kcb, d) == kcb.rcv_queue # <<>> /\ Head(kcb.rcv_queue).size <= Length(d)

Table(a, kcb) == [c \in DOMAIN connections \cup {a} |->
                    IF c = a THEN kcb ELSE connections[c]]

Served(d) == d \in up /\ up' = up \ {d} /\ UNCHANGED client

ServeWaits(d, flushed) ==
  LET kcb == Block(d)
  IN  /\ Served(d)
      /\ Waits(d)
      /\ connections' = Table(d.addr, IF flushed THEN Flushed(kcb) ELSE kcb)
      /\ ServerSends(IF flushed THEN Answers(d.addr, kcb, AckSegs(kcb.acklist)) ELSE {})
      /\ UNCHANGED <<log, read, lost>>

\* The read returns the oldest message and the loop writes it back; the reply
\* is flushed with the acknowledgements, if no update has flushed them.
ServeMessage(d, flushed) ==
  LET a == d.addr
      kcb == Block(d)
      message == Head(kcb.rcv_queue)
      acks == AckSegs(kcb.acklist)
      reply == <<[cmd |-> "PUSH", sn |-> Len(log[a]), size |-> message.size]>>
  IN  /\ Served(d)
      /\ ~ Waits(d)
      /\ Readable(kcb, d)
      /\ connections' = Table(a, [Flushed(kcb) EXCEPT !.rcv_queue = Tail(@)])
      /\ log' = [log EXCEPT ![a] = Append(@, message)]
      /\ read' = read \cup {message}
      /\ ServerSends(IF flushed
                     THEN Answers(a, kcb, acks) \cup Answers(a, kcb, reply)
                     ELSE Answers(a, kcb, acks \o reply))
      /\ lost' = lost

DropStream(a, kcb) == [c \in DOMAIN connections \ {a} |-> connections[c]]

\* The read fails and the loop drops the stream, with all that it holds.
ReadFails(d, flushed) ==
  LET a == d.addr
      kcb == Block(d)
  IN  /\ Served(d)
      /\ ~ Waits(d)
      /\ connections' = DropStream(a, kcb)
      /\ lost' = lost \cup Range(kcb.rcv_buf) \cup Range(kcb.rcv_queue)
      /\ ServerSends(IF flushed THEN Answers(a, kcb, AckSegs(kcb.acklist)) ELSE {})
      /\ log' = [log EXCEPT ![a] = <<>>]
      /\ read' = read

\* recv has no message that fits the buffer.
ServeError(d, flushed) == ~ Readable(Block(d), d) /\ ReadFails(d, flushed)

\* recv has taken a message, and kcp_check, which follows, is pending: the
\* message goes with the future.  The next poll calls recv without a buffer.
ServePending(d, flushed) == Readable(Block(d), d) /\ ReadFails(d, flushed)

Serve(d, flushed) ==
  \/ ServeWaits(d, flushed) \/ ServeMessage(d, flushed)
  \/ ServeError(d, flushed) \/ ServePending(d, flushed)
----------------------------------------------------------------------------
Next ==
  \/ \E a \in Addr :
       \/ \E size \in Sizes, overdue \in SUBSET DOMAIN snd_buf[a] :
            Write(a, size, overdue)
       \/ Restart(a)
  \/ \E d \in down, flushed \in BOOLEAN :
       \E overdue \in SUBSET DOMAIN snd_buf[d.addr] : ClientReceive(d, flushed, overdue)
  \/ \E d \in up, flushed \in BOOLEAN : Serve(d, flushed)

Spec == Init /\ [][Next]_vars
----------------------------------------------------------------------------
\* Whatever is left under way from an earlier conversation at the same
\* address, what is read from a connection is the messages of its own
\* conversation, from the first on, none missing and none twice.
ConversationsApart ==
  \A a \in DOMAIN connections :
    \A i \in 1..Len(log[a]) :
      log[a][i].conv = connections[a].conv /\ log[a][i].sn = i - 1

\* The messages the control block for a holds.
Held(a) ==
  IF a \in DOMAIN connections
  THEN Range(connections[a].rcv_buf) \cup Range(connections[a].rcv_queue)
  ELSE {}

\* A message that its client has seen acknowledged was read, or waits in the
\* control block, or went with a stream that was dropped, be it out of the
\* control block or out of recv's hands: nothing else loses a message,
\* neither a datagram that was cut nor an acknowledgement for an earlier
\* conversation.
LostOnlyByDrop ==
  \A a \in Addr :
    \A n \in 0..(snd_nxt[a] - 1) \ DOMAIN snd_buf[a] :
      \E m \in read \cup lost \cup Held(a) :
        m.addr = a /\ m.conv = conv[a] /\ m.sn = n

\* The table holds no control block whose conversation is dead: from each one
\* a message was read, so that it has begun with the client's first message.
EachServed == \A a \in DOMAIN connections : log[a] # <<>> /\ log[a][1].sn = 0
=============================================================================
