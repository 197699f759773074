---------------------------- MODULE TcpConnector ----------------------------
(***************************************************************************)
(* TcpConnector::new and TcpConnector::connect (src/connector/mod.rs), and *)
(* Address::read_from (src/socks5/mod.rs): a local peer writes the address *)
(* of a target and then its data; the connector opens a connection to that *)
(* target, and then copies both ways until one of the ways has ended.      *)
(*                                                                         *)
(* TCP is external: what is written arrives in order, in pieces of any     *)
(* size; a connection may be refused or break.                             *)
(*                                                                         *)
(* Abstraction: a name is any bytes (one that is not UTF-8 is an error in  *)
(* the code, after which nothing is connected).                            *)
(***************************************************************************)
EXTENDS Address, FiniteSets, SequencesExt

CONSTANTS
  Targets,   \* the addresses the peer may write
  RelayLen   \* bound: bytes of data that each side sends

ASSUME TargetsAssumption == \A a \in Targets : IsAddress(a)
\* A byte of data tells its position.
ASSUME RelayLenAssumption == RelayLen \in Byte

\* CLIENT -> SERVER and CLIENT <- SERVER
Ways == {"up", "down"}

VARIABLES
  asked,    \* the target the local peer asks for
  unsent,   \* what of the address has still to be written
  sent,     \* data written by the sender of each way
  shut,     \* ways whose sender has ended its stream
  wire,     \* bytes of each way that the connector has not read
  reader,   \* what read_from waits for: `at', and how many bytes it needs
  target,   \* the address read_from returned, or <<>>
  held,     \* buffer of each copy
  got,      \* data that the receiver of each way has been given
  outcome   \* what ended the relay: <<>>, or a way and how its copy ended

connectorVars == <<asked, unsent, sent, shut, wire, reader, target, held, got, outcome>>

Relaying == reader.at = "relay" /\ outcome = <<>>

ConnectorTypeOK ==
  /\ asked \in Targets
  /\ \E n \in 1..(Len(Encoded(asked)) + 1) :
       unsent = SubSeq(Encoded(asked), n, Len(Encoded(asked)))
  /\ \A w \in Ways :
       /\ sent[w] \in 0..RelayLen
       /\ wire[w] \in Seq(Byte) /\ held[w] \in Seq(Byte) /\ got[w] \in Seq(Byte)
  /\ shut \subseteq Ways
  /\ reader.at \in {"type", "length", "rest", "connect", "relay", "failed"}
  /\ reader.kind \in DOMAIN TypeByte \cup {""}
  /\ reader.need \in 0..257
  /\ target = <<>> \/ IsAddress(target)
  /\ outcome = <<>> \/ outcome \in Ways \X {"end", "error"}

ConnectorInit ==
  /\ asked \in Targets
  /\ unsent = Encoded(asked)
  /\ sent = [w \in Ways |-> 0]
  /\ shut = {}
  /\ wire = [w \in Ways |-> <<>>]
  /\ reader = [at |-> "type", kind |-> "", need |-> 1]
  /\ target = <<>>
  /\ held = [w \in Ways |-> <<>>]
  /\ got = [w \in Ways |-> <<>>]
  /\ outcome = <<>>
----------------------------------------------------------------------------
(* The two peers *)

\* A piece of the address arrives.
WriteAddress ==
  \E n \in 1..Len(unsent) :
    /\ "up" \notin shut
    /\ wire' = [wire EXCEPT !.up = @ \o SubSeq(unsent, 1, n)]
    /\ unsent' = SubSeq(unsent, n + 1, Len(unsent))
    /\ UNCHANGED <<asked, sent, shut, reader, target, held, got, outcome>>

\* A byte of data arrives: its value tells its position.
Supply(w) ==
  /\ sent[w] < RelayLen /\ w \notin shut
  /\ IF w = "up" THEN unsent = <<>> ELSE reader.at = "relay"
  /\ wire' = [wire EXCEPT ![w] = Append(@, sent[w] + 1)]
  /\ sent' = [sent EXCEPT ![w] = @ + 1]
  /\ UNCHANGED <<asked, unsent, shut, reader, target, held, got, outcome>>

\* The sender of a way ends its stream, the local peer perhaps too early.
Shut(w) ==
  /\ w \notin shut
  /\ w = "down" => reader.at = "relay"
  /\ shut' = shut \cup {w}
  /\ UNCHANGED <<asked, unsent, sent, wire, reader, target, held, got, outcome>>
----------------------------------------------------------------------------
(* Address::read_from *)

\* Mutant: read in the place of read_exact.
ArrivedSome(n) == wire.up # <<>>

\* read_exact waits for all n bytes.
Arrived(n) == Len(wire.up) >= n

\* What is then in a buffer of n bytes that was all zeros.
Bytes(n) == [i \in 1..n |-> IF i <= Len(wire.up) THEN wire.up[i] ELSE 0]

\* Mutant: the port of a domain name is left in the stream.
RestLengthHost(kind, length) ==
  IF kind = "name" THEN length ELSE HostLength[kind] + 2

\* How long host and port are.
RestLength(kind, length) ==
  (IF kind = "name" THEN length ELSE HostLength[kind]) + 2

\* The next state of read_from, after the bytes it waited for.
AfterType(kind) ==
  IF kind = "name" THEN [at |-> "length", kind |-> kind, need |-> 1]
  ELSE [at |-> "rest", kind |-> kind, need |-> RestLength(kind, 0)]

\* get_u16
Port(bytes) == bytes[Len(bytes) - 1] * 256 + bytes[Len(bytes)]

\* One read_exact of read_from, and what it does with the bytes.
ReadFrom ==
  LET bytes == Bytes(reader.need)
  IN  /\ reader.at \in {"type", "length", "rest"}
      /\ Arrived(reader.need)
      /\ wire' = [wire EXCEPT !.up = SubSeq(@, reader.need + 1, Len(@))]
      /\ \/ /\ reader.at = "type"
            /\ \E kind \in DOMAIN TypeByte :
                 TypeByte[kind] = bytes[1] /\ reader' = AfterType(kind)
            /\ UNCHANGED target
         \/ /\ reader.at = "type"
            /\ bytes[1] \notin {TypeByte[kind] : kind \in DOMAIN TypeByte}
            /\ reader' = [reader EXCEPT !.at = "failed"]
            /\ UNCHANGED target
         \/ /\ reader.at = "length"
            /\ reader' = [reader EXCEPT !.at = "rest",
                                        !.need = RestLength("name", bytes[1])]
            /\ UNCHANGED target
         \/ /\ reader.at = "rest"
            /\ target' = [kind |-> reader.kind,
                          host |-> SubSeq(bytes, 1, Len(bytes) - 2),
                          port |-> Port(bytes)]
            /\ reader' = [reader EXCEPT !.at = "connect"]
      /\ UNCHANGED <<asked, unsent, sent, shut, held, got, outcome>>

\* The stream ends before read_exact has its bytes.
ReadFails ==
  /\ reader.at \in {"type", "length", "rest"}
  /\ "up" \in shut /\ ~Arrived(reader.need)
  /\ reader' = [reader EXCEPT !.at = "failed"]
  /\ UNCHANGED <<asked, unsent, sent, shut, wire, target, held, got, outcome>>

\* TcpStream::connect: opened, or refused (a name may not resolve).
Connect ==
  /\ reader.at = "connect"
  /\ \E at \in {"relay", "failed"} : reader' = [reader EXCEPT !.at = at]
  /\ UNCHANGED <<asked, unsent, sent, shut, wire, target, held, got, outcome>>
----------------------------------------------------------------------------
(* connect: select(copy(cr, sw), copy(sr, cw)) *)

\* A copy reads what has arrived, once it has written what it held.
Fill(w) ==
  /\ Relaying /\ held[w] = <<>>
  /\ \E n \in 1..Len(wire[w]) :
       /\ held' = [held EXCEPT ![w] = SubSeq(wire[w], 1, n)]
       /\ wire' = [wire EXCEPT ![w] = SubSeq(@, n + 1, Len(@))]
  /\ UNCHANGED <<asked, unsent, sent, shut, reader, target, got, outcome>>

\* Where a way's copy writes.
Sink(w) == w

\* A copy writes as much as the socket takes.
Drain(w) ==
  /\ Relaying
  /\ \E n \in 1..Len(held[w]) :
       /\ got' = [got EXCEPT ![Sink(w)] = @ \o SubSeq(held[w], 1, n)]
       /\ held' = [held EXCEPT ![w] = SubSeq(@, n + 1, Len(@))]
  /\ UNCHANGED <<asked, unsent, sent, shut, wire, reader, target, outcome>>

\* Mutant: a copy ends with its stream, whatever it still holds.
CopiedRead(w) == w \in shut /\ wire[w] = <<>>

\* A copy is ready: its stream has ended and it holds nothing.
Copied(w) == w \in shut /\ wire[w] = <<>> /\ held[w] = <<>>

\* The first copy that is ready ends the relay: connect returns, and what the
\* other way has in flight is lost.
Finish(w) ==
  /\ Relaying /\ Copied(w)
  /\ outcome' = <<w, "end">>
  /\ UNCHANGED <<asked, unsent, sent, shut, wire, reader, target, held, got>>

\* So does a read or a write that fails.
Break(w) ==
  /\ Relaying
  /\ outcome' = <<w, "error">>
  /\ UNCHANGED <<asked, unsent, sent, shut, wire, reader, target, held, got>>

ConnectorNext ==
  \/ WriteAddress
  \/ ReadFrom
  \/ ReadFails
  \/ Connect
  \/ \E w \in Ways :
       Supply(w) \/ Shut(w) \/ Fill(w) \/ Drain(w) \/ Finish(w) \/ Break(w)

ConnectorSpec == ConnectorInit /\ [][ConnectorNext]_connectorVars
----------------------------------------------------------------------------
\* However the stream is cut, read_from returns the address that write_address
\* wrote, and no other target is connected to.
NeverMisdirected == target # <<>> => target = asked

\* Each side is given the other's data from its first byte on, nothing of the
\* address among it and nothing missing between.
RelayedInOrder ==
  \A w \in Ways : got[w] = [i \in 1..Len(got[w]) |-> i] /\ Len(got[w]) <= sent[w]

\* When the end of a way has ended the relay, that way has been copied whole.
\* (The other way has not: what it carries is dropped.)
EndedCopied ==
  \A w \in Ways : outcome = <<w, "end">> => Len(got[w]) = sent[w]
=============================================================================
