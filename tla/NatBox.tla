------------------------------- MODULE NatBox -------------------------------
(***************************************************************************)
(* The NAT between client and server, which no code in the repository      *)
(* implements: it is what the probes measure, modelled from the behaviours *)
(* src/ distinguishes (RFC 4787, sections 4.1 and 5).                      *)
(*                                                                         *)
(* A behaviour is a partition of the remote endpoints: two remotes in one  *)
(* class are treated alike.  For mapping they share an external port; for  *)
(* filtering a packet from one is let in once the client has sent to the   *)
(* other.  An external port is therefore named by the inside port and the  *)
(* class it serves, and an untranslated port by the empty class.           *)
(***************************************************************************)
EXTENDS StunServer

CONSTANTS
  ClientIp,      \* the client's own address
  AnyIp,         \* the wildcard address, 0.0.0.0
  NatIp,         \* the NAT's external address
  LocalPorts     \* the inside ports the client's sockets may be bound to

ASSUME TwoSides ==
  /\ ClientIp # NatIp /\ AnyIp \notin {ClientIp, NatIp}
  /\ \A p \in LocalPorts : NoEp # [ip |-> ClientIp, port |-> <<p, {}>>]
  /\ \A p \in LocalPorts, S \in SUBSET ServerEp :
        NoEp # [ip |-> NatIp, port |-> <<p, S>>]

Dependence == {"EndpointIndependent", "AddressDependent", "AddressAndPortDependent"}

NatBehavior == [mapping : Dependence \cup {"Direct"}, filtering : Dependence]

Class(dependence, e) ==
  IF dependence = "EndpointIndependent" THEN ServerEp
  ELSE {f \in ServerEp : f.ip = e.ip /\ (dependence = "AddressDependent" \/ f.port = e.port)}

Local(port) == [ip |-> ClientIp, port |-> <<port, {}>>]

\* The source address remote `to` sees for a packet from inside port `port`.
External(behavior, port, to) ==
  IF behavior.mapping = "Direct"
  THEN Local(port)
  ELSE [ip |-> NatIp, port |-> <<port, Class(behavior.mapping, to)>>]

ClientEp == [ip : {ClientIp, NatIp}, port : LocalPorts \X SUBSET ServerEp]

\* One entry of the NAT's table: an outbound packet has left `port` for `to`.
Contact == [port : LocalPorts, to : ServerEp]

\* The NAT passes a packet from `from` to external endpoint `ext` on to the
\* inside port `port`.
Admits(behavior, contacts, port, ext, from) ==
  \E c \in contacts : /\ c.port = port
                      /\ External(behavior, c.port, c.to) = ext
                      /\ from \in Class(behavior.filtering, c.to)
===========================================================================
