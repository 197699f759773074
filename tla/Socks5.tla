------------------------------- MODULE Socks5 -------------------------------
(***************************************************************************)
(* Socks5::acceptor and parse_header (src/socks5/mod.rs), called by the    *)
(* accept loop of examples/socks5.rs, which spawns an echo task for each   *)
(* connection that acceptor returns.                                       *)
(*                                                                         *)
(* TCP is external: a read returns any nonempty prefix of what has been    *)
(* written, and nothing at the end of the stream.                          *)
(*                                                                         *)
(* Abstractions: acceptor's reads and answers do not fail (an error, of a  *)
(* client that is gone, would end the program as a failed handshake does); *)
(* a name is any bytes (one that is not UTF-8 is an error in the code, and *)
(* no handle is returned).                                                 *)
(***************************************************************************)
EXTENDS Address, FiniteSets, SequencesExt, TLC

CONSTANTS
  Clients,    \* the clients of the server, one connection each
  Greetings,  \* what they may say first
  Requests,   \* the addresses they may ask to be connected to
  BufLen,     \* bound: length of the buffer (4096 in the code)
  DataLen     \* bound: bytes that a client sends after the handshake

ASSUME ClientsAssumption == Clients # {}
ASSUME RequestsAssumption == \A a \in Requests : IsAddress(a)
\* A greeting is a version, the number of methods, and the methods.
ASSUME GreetingsAssumption ==
  \A g \in Greetings : g \in Seq(Byte) /\ Len(g) >= 2 /\ Len(g) = g[2] + 2
\* A byte of data tells its position.
ASSUME DataLenAssumption == DataLen \in Byte
ASSUME BufLenAssumption ==
  /\ BufLen \in Nat
  /\ \A a \in Requests : Len(Encoded(a)) + 3 <= BufLen
  /\ \A g \in Greetings : Len(g) <= BufLen

VARIABLES
  client,    \* what each client has done: `at', and the address it asks for
  up,        \* bytes each client has written that the server has not read
  answers,   \* how many of the two answers of acceptor each has been given
  echoed,    \* the data each client has been sent back
  server,    \* main: `at', the client it is with, acceptor's buffer
  handles,   \* the Socks5 that acceptor returned for a client, or <<>>
  tasks      \* clients whose echo task runs

socksVars == <<client, up, answers, echoed, server, handles, tasks>>

Steps == {"new", "greeted", "asked", "sent", "closed"}

SocksTypeOK ==
  /\ \A c \in Clients :
       /\ client[c].at \in Steps /\ client[c].asks \in Requests
       /\ up[c] \in Seq(Byte) /\ echoed[c] \in Seq(Byte)
       /\ answers[c] \in 0..2
       /\ (handles[c] # <<>>) <=> (answers[c] = 2)
  /\ server.at \in {"accept", "hello", "request", "ended"}
  /\ server.with \in Clients
  /\ server.at = "hello" => answers[server.with] = 0
  /\ server.at = "request" => answers[server.with] = 1
  /\ server.buf \in [1..BufLen -> Byte]
  /\ tasks \subseteq {c \in Clients : answers[c] = 2}

AnyClient == CHOOSE c \in Clients : TRUE
Zeros == [i \in 1..BufLen |-> 0]

SocksInit ==
  /\ client \in [Clients -> [at : {"new"}, asks : Requests]]
  /\ up = [c \in Clients |-> <<>>]
  /\ answers = [c \in Clients |-> 0]
  /\ echoed = [c \in Clients |-> <<>>]
  /\ server = [at |-> "accept", with |-> AnyClient, buf |-> Zeros]
  /\ handles = [c \in Clients |-> <<>>]
  /\ tasks = {}
----------------------------------------------------------------------------
(* The clients: each waits for an answer before it goes on. *)

\* A client's next step, and what it writes.
ClientStep(c, from, after, to, bytes) ==
  /\ client[c].at = from /\ answers[c] = after
  /\ client' = [client EXCEPT ![c].at = to]
  /\ up' = [up EXCEPT ![c] = @ \o bytes]
  /\ UNCHANGED <<answers, echoed, server, handles, tasks>>

Greet(c) == \E g \in Greetings : ClientStep(c, "new", 0, "greeted", g)
Ask(c) == ClientStep(c, "greeted", 1, "asked", <<5, 1, 0>> \o Encoded(client[c].asks))
Send(c) == ClientStep(c, "asked", 2, "sent", [i \in 1..DataLen |-> i])

\* A client may give up at any time.
Close(c) ==
  /\ client[c].at \notin {"new", "closed"}
  /\ client' = [client EXCEPT ![c].at = "closed"]
  /\ UNCHANGED <<up, answers, echoed, server, handles, tasks>>
----------------------------------------------------------------------------
(* Socks5::acceptor *)

\* socket.read(&mut buf) with n bytes: what was in the buffer behind them stays.
Buffer(n) ==
  [i \in 1..BufLen |-> IF i <= n THEN up[server.with][i] ELSE server.buf[i]]

\* A read by main; at the end of the stream it returns nothing.
Read(n) ==
  LET c == server.with
  IN  /\ IF n = 0 THEN up[c] = <<>> /\ client[c].at = "closed" ELSE n <= Len(up[c])
      /\ up' = [up EXCEPT ![c] = SubSeq(@, n + 1, Len(@))]

\* main accepts a connection, whether or not its client has written yet.
Accept(c) ==
  /\ server.at = "accept" /\ answers[c] = 0
  /\ server' = [at |-> "hello", with |-> c, buf |-> Zeros]
  /\ UNCHANGED <<client, up, answers, echoed, handles, tasks>>

\* Step 1, hello: a greeting that is cut, or offers more than one method, is an
\* error.  acceptor's errors are main's: the program ends.
Hello(n) ==
  LET c == server.with
      buf == Buffer(n)
  IN  /\ server.at = "hello" /\ Read(n)
      /\ IF n < 3 \/ buf[1] # 5 \/ buf[2] > 1
         THEN server' = [server EXCEPT !.at = "ended"] /\ UNCHANGED answers
         ELSE /\ server' = [server EXCEPT !.at = "request", !.buf = buf]
              /\ answers' = [answers EXCEPT ![c] = 1]
      /\ UNCHANGED <<client, echoed, handles, tasks>>

\* read_i16: a port from 32768 on is negative.
I16(high, low) ==
  LET port == high * 256 + low IN IF port < 32768 THEN port ELSE port - 65536

\* Mutant: the rest of the buffer too.
DataAll(buf, n) == SubSeq(buf, 4, BufLen)

\* &buf[3..n]
Data(buf, n) == SubSeq(buf, 4, n)

\* parse_header, or <<>> if the type is not supported (an error) or a slice is
\* beyond what was read (a panic).  The text made of an IPv4 address has a dot
\* before each of its numbers: split at the dots, it begins with nothing.
ParseHeader(data) ==
  IF Len(data) >= 7 /\ data[1] = TypeByte.v4
  THEN [addr |-> <<"">> \o [i \in 1..4 |-> ToString(data[i + 1])],
        port |-> I16(data[6], data[7]), use_host |-> FALSE]
  ELSE IF Len(data) >= 2 /\ data[1] = TypeByte.name /\ Len(data) >= data[2] + 4
  THEN [addr |-> SubSeq(data, 3, data[2] + 2),
        port |-> I16(data[data[2] + 3], data[data[2] + 4]), use_host |-> TRUE]
  ELSE <<>>

\* Mutant: the task's loop is run in place.
AfterHandshakeWaits(s) == [s EXCEPT !.at = "request"]

\* main spawns the echo task and goes on to accept.
AfterHandshake(s) == [s EXCEPT !.at = "accept"]

\* Step 2, connect: the command is buf[1], of the greeting if the read was of
\* one byte; a read of less than four bytes ends in a panic.
Request(n) ==
  LET c == server.with
      buf == Buffer(n)
      handle == IF buf[2] # 1 \/ n < 3 THEN <<>> ELSE ParseHeader(Data(buf, n))
  IN  /\ server.at = "request" /\ answers[c] = 1 /\ Read(n)
      /\ IF handle = <<>>
         THEN server' = [server EXCEPT !.at = "ended"]
              /\ UNCHANGED <<answers, handles, tasks>>
         ELSE /\ answers' = [answers EXCEPT ![c] = 2]
              /\ handles' = [handles EXCEPT ![c] = handle]
              /\ tasks' = tasks \cup {c}
              /\ server' = AfterHandshake(server)
      /\ UNCHANGED <<client, echoed>>
----------------------------------------------------------------------------
(* The echo task of examples/socks5.rs *)

\* Mutant: write in the place of write_all.
WrittenSome(bytes) == SubSeq(bytes, 1, 1)

\* write_all
Written(bytes) == bytes

\* The tasks end with the program.
Echo(c, n) ==
  /\ server.at # "ended" /\ c \in tasks
  /\ n <= Len(up[c])
  /\ echoed' = [echoed EXCEPT ![c] = @ \o Written(SubSeq(up[c], 1, n))]
  /\ up' = [up EXCEPT ![c] = SubSeq(@, n + 1, Len(@))]
  /\ UNCHANGED <<client, answers, server, handles, tasks>>

\* A read of nothing, or a write to a client that is gone.
EchoEnds(c) ==
  /\ server.at # "ended" /\ c \in tasks /\ client[c].at = "closed"
  /\ tasks' = tasks \ {c}
  /\ UNCHANGED <<client, up, answers, echoed, server, handles>>

Main ==
  \/ \E c \in Clients : Accept(c)
  \/ \E n \in 0..BufLen : Hello(n) \/ Request(n)

SocksNext ==
  \/ \E c \in Clients : Greet(c) \/ Ask(c) \/ Send(c) \/ Close(c) \/ EchoEnds(c)
  \/ \E c \in Clients, n \in 1..DataLen : Echo(c, n)
  \/ Main

SocksSpec == SocksInit /\ [][SocksNext]_socksVars

\* The runtime polls main and the tasks, and a client goes on when answered; it
\* need not close.
SocksFairness ==
  /\ WF_socksVars(Main)
  /\ \A c \in Clients :
       /\ WF_socksVars(Greet(c)) /\ WF_socksVars(Ask(c)) /\ WF_socksVars(Send(c))
       /\ WF_socksVars(\E n \in 1..DataLen : Echo(c, n))
----------------------------------------------------------------------------
\* Where acceptor's caller is told to connect to, as an address: the port is
\* that of the text modulo 2^16, the host what the text says it is.
Meant(handle) ==
  [kind |-> IF handle.use_host THEN "name" ELSE "v4",
   host |-> handle.addr, port |-> handle.port % 65536]

\* However the client's bytes were cut, a handle that acceptor returns is of the
\* address that this client asked for, never of one made of what an earlier
\* read had left in the buffer.
HandlesFaithful ==
  \A c \in Clients : handles[c] # <<>> =>
    LET a == client[c].asks
    IN  Meant(handles[c]) =
          [a EXCEPT !.host = IF a.kind = "name" THEN @
                             ELSE <<"">> \o [i \in 1..4 |-> ToString(@[i])]]

\* What a client is sent back is what it sent after the handshake, in order and
\* with nothing missing: the handshake has read none of it.
EchoesInOrder ==
  \A c \in Clients : echoed[c] = [i \in 1..Len(echoed[c]) |-> i]

\* As long as no handshake has failed, which ends the program, every client is
\* served, also while others keep their connections open.
EveryoneServed ==
  [](server.at # "ended") =>
    \A c \in Clients : <>(Len(echoed[c]) = DataLen \/ client[c].at = "closed")
=============================================================================
