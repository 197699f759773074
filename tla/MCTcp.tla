-------------------------------- MODULE MCTcp --------------------------------
(***************************************************************************)
(* Small instances of Socks5 and TcpConnector.  The two share no state and *)
(* no step, so their interleavings add nothing: a behaviour has one of     *)
(* them start in a terminal state, where nothing of it is enabled.         *)
(***************************************************************************)
EXTENDS Socks5, TcpConnector

Name == [kind |-> "name", host |-> <<7, 8>>, port |-> 1 * 256 + 2]
IPv4 == [kind |-> "v4", host |-> <<1, 5, 3, 4>>, port |-> 200 * 256 + 80]
IPv6 == [kind |-> "v6", host |-> [i \in 1..16 |-> i], port |-> 3 * 256 + 4]

NameOrIPv4 == {Name, IPv4}
AnyTarget == {Name, IPv4, IPv6}

ASSUME NameAssumption == Name \in Requests \cap Targets

\* Only "no authentication"; or that and passwords.
OneOrTwoMethods == {<<5, 1, 0>>, <<5, 2, 0, 2>>}

\* The server has ended and its clients are gone.
SocksOver ==
  /\ client = [c \in Clients |-> [at |-> "closed", asks |-> Name]]
  /\ up = [c \in Clients |-> <<>>]
  /\ answers = [c \in Clients |-> 0]
  /\ echoed = [c \in Clients |-> <<>>]
  /\ server = [at |-> "ended", with |-> AnyClient, buf |-> Zeros]
  /\ handles = [c \in Clients |-> <<>>]
  /\ tasks = {}

\* read_from has failed, as nothing was written.
ConnectorOver ==
  /\ asked = Name
  /\ unsent = <<>>
  /\ sent = [w \in Ways |-> 0]
  /\ shut = Ways
  /\ wire = [w \in Ways |-> <<>>]
  /\ reader = [at |-> "failed", kind |-> "", need |-> 1]
  /\ target = <<>>
  /\ held = [w \in Ways |-> <<>>]
  /\ got = [w \in Ways |-> <<>>]
  /\ outcome = <<>>

Init ==
  \/ SocksInit /\ ConnectorOver
  \/ SocksOver /\ ConnectorInit

Next ==
  \/ SocksNext /\ UNCHANGED connectorVars
  \/ ConnectorNext /\ UNCHANGED socksVars

FairSpec == Init /\ [][Next]_<<socksVars, connectorVars>> /\ SocksFairness

TypeOK == SocksTypeOK /\ ConnectorTypeOK
=============================================================================
