---------------------------- MODULE StunServer ----------------------------
(***************************************************************************)
(* The STUN side of the probe server (src_ser/main.cpp).  Four UDP sockets *)
(* ("nodes") are open, one per combination of two public addresses and two *)
(* ports; bit 1 of a node's index selects the address and bit 0 the port.  *)
(* handle_udp_packet answers a Binding request received on node rx from    *)
(* the node whose bits are those of rx flipped by CHANGE-REQUEST.          *)
(*                                                                         *)
(* IPs and ports are unstructured values: the protocol only compares them. *)
(***************************************************************************)
EXTENDS Integers

CONSTANTS
  IP1, IP2,        \* the server's public addresses   (pub-ip1, pub-ip2)
  Port1, Port2,    \* its ports                       (port1, port2)
  NoEp             \* std::nullopt, where an endpoint is optional

Node == 0..3
NodeIp(i)   == IF i \div 2 = 0 THEN IP1 ELSE IP2
NodePort(i) == IF i % 2 = 0 THEN Port1 ELSE Port2
NodeEp(i)   == [ip |-> NodeIp(i), port |-> NodePort(i)]

\* The public endpoints of the server.
ServerEp == [ip : {IP1, IP2}, port : {Port1, Port2}]

\* The client and the server both assume two addresses and two ports; main()
\* does not reject a configuration that repeats one.
ASSUME TwoByTwo ==
  /\ IP1 # IP2
  /\ Port1 # Port2
  /\ NoEp \notin ServerEp

\* The two flags of a CHANGE-REQUEST attribute.
Change == [ip : BOOLEAN, port : BOOLEAN]
NoChange   == [ip |-> FALSE, port |-> FALSE]
ChangeBoth == [ip |-> TRUE,  port |-> TRUE]
ChangePort == [ip |-> FALSE, port |-> TRUE]

Flip(bit, change) == IF change THEN 1 - bit ELSE bit

\* Faulty variant, for mutation: the two flags' bits exchanged.
ReplyNodeSwapped(rx, change) ==
  2 * Flip(rx \div 2, change.port) + Flip(rx % 2, change.ip)

\* reply_idx = (rx & 2 ^ change_ip) | (rx & 1 ^ change_port)
ReplyNode(rx, change) ==
  2 * Flip(rx \div 2, change.ip) + Flip(rx % 2, change.port)

\* other_idx = rx ^ 3
OtherNode(rx) == 3 - rx

(***************************************************************************)
(* What can answer at the --stun_server address.  "own" is this            *)
(* repository's server bound to its two addresses.  "wildcard" is the same *)
(* program with both bind addresses left at their default 0.0.0.0: the     *)
(* sockets of equal port share one SO_REUSEPORT group, so the kernel hands *)
(* a datagram to either of them, and replies leave with the host's         *)
(* preferred source address IP1.  The others are public STUN servers of    *)
(* lesser ability, which the client is built to recognise.                 *)
(***************************************************************************)
Deployment == {"own", "wildcard", "noOther", "noMapped", "sameIp", "ignoresChange"}

ReceivingNodes(dep, to) ==
  {i \in Node : /\ NodePort(i) = to.port
                /\ dep = "wildcard" \/ NodeIp(i) = to.ip}

\* The address the reply is seen to come from, and the OTHER-ADDRESS it names.
ReplySource(dep, rx, change) ==
  LET reply == IF dep = "ignoresChange" THEN rx ELSE ReplyNode(rx, change)
  IN  [ip   |-> IF dep = "wildcard" THEN IP1 ELSE NodeIp(reply),
       port |-> NodePort(reply)]

OtherAddress(dep, rx) ==
  IF dep = "noOther" THEN NoEp
  ELSE [ip   |-> NodeIp(IF dep = "sameIp" THEN rx ELSE OtherNode(rx)),
        port |-> NodePort(OtherNode(rx))]

MappedAddress(dep, peer) == IF dep = "noMapped" THEN NoEp ELSE peer

\* generate_stun_binding_response: the transaction id (which includes the
\* cookie) is echoed, CHANGED-ADDRESS and OTHER-ADDRESS carry the same value,
\* and so do MAPPED-ADDRESS and XOR-MAPPED-ADDRESS where both are present.
BindingResponse(dep, rx, req) ==
  [kind   |-> "response",
   from   |-> ReplySource(dep, rx, req.change),
   to     |-> req.from,
   tid    |-> req.tid,
   mapped |-> MappedAddress(dep, req.from),
   other  |-> OtherAddress(dep, rx)]
===========================================================================
