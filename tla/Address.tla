------------------------------- MODULE Address -------------------------------
(***************************************************************************)
(* SOCKS5 addresses on the wire (src/socks5/mod.rs): a type byte, for a    *)
(* domain name its length, the host, and the port in network order.        *)
(***************************************************************************)
EXTENDS Integers, Sequences

Byte == 0..255

\* A u16.
Port16 == {n \in Nat : n < 65536}

\* The address types of `consts', and the host's bytes where they are fixed.
TypeByte == [v4 |-> 1, name |-> 3, v6 |-> 4]
HostLength == [v4 |-> 4, v6 |-> 16]

\* What write_domain_name_address asserts, and what the types of an address
\* guarantee.
IsAddress(a) ==
  /\ a \in [kind : DOMAIN TypeByte, host : Seq(Byte), port : Port16]
  /\ IF a.kind = "name" THEN Len(a.host) <= 255
                        ELSE Len(a.host) = HostLength[a.kind]

\* write_address
Encoded(a) ==
  <<TypeByte[a.kind]>>
    \o (IF a.kind = "name" THEN <<Len(a.host)>> ELSE <<>>)
    \o a.host
    \o <<a.port \div 256, a.port % 256>>
=============================================================================
