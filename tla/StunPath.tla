------------------------------ MODULE StunPath ------------------------------
(***************************************************************************)
(* One STUN exchange at a time, as natcli::UdpSession::request performs it *)
(* (src/utils/stun_utils.cpp), over a NAT, a datagram network and the      *)
(* server.  The discovery state machines extend this module: they supply   *)
(* the next request (Ask) and what an answer or its absence means.         *)
(*                                                                         *)
(* Transaction ids are drawn at random by create_binding_request; they are *)
(* modelled as distinct, so the ids of earlier exchanges stay recognisable *)
(* in datagrams that are still in the network.                             *)
(***************************************************************************)
EXTENDS NatBox

CONSTANTS
  NoRequest,       \* no exchange is in progress
  NoResponse,      \* UdpSession::request returned std::nullopt
  Deployments,     \* what servers to explore, a subset of Deployment
  Binds,           \* how the session's socket may be bound, a subset of Bind
  MaxSends,        \* bound: datagrams sent for one request (the RTO doubles
                   \* from 500 ms within a 3000 ms deadline: 3)
  Duplicating,     \* the network may deliver a datagram twice
  Timeliness       \* the values of `timely` to explore, a subset of BOOLEAN

VARIABLES
  behavior,        \* what the NAT does; never changes
  deployment,      \* what server answers; never changes
  bind,            \* whether --local named an address; never changes
  timely,          \* nothing is lost, and what is going to arrive does so before
                   \* the deadline; never changes
  contacts,        \* the NAT's table of outbound contacts
  network,         \* datagrams in flight (unordered)
  port,            \* inside port of the session's socket
  tid,             \* transaction id of the latest request
  request,         \* the StunDiscoveryAction in progress, or NoRequest
  sends            \* how many times it has been sent

pathVars == <<behavior, deployment, bind, timely, contacts, network, port, tid, request, sends>>
rigidVars == <<behavior, deployment, bind, timely>>

Bind == {"address", "wildcard"}

ASSUME ExploredAssumption ==
  Binds \subseteq Bind /\ Deployments \subseteq Deployment /\ Timeliness \subseteq BOOLEAN

Request == [to : ServerEp, change : Change]
RequestMsg == [kind : {"request"}, from : ClientEp, to : ServerEp, tid : Nat, change : Change]
ResponseMsg == [kind : {"response"}, from : ServerEp, to : ClientEp, tid : Nat,
                mapped : ClientEp \cup {NoEp}, other : ServerEp \cup {NoEp}]

\* A StunResponse: the decoded attributes and the address recvfrom reported.
Response == [remote : ServerEp, mapped : ClientEp \cup {NoEp}, other : ServerEp \cup {NoEp}]
ResponseOf(m) == [remote |-> m.from, mapped |-> m.mapped, other |-> m.other]

ASSUME Sentinels == NoRequest \notin Request /\ NoResponse \notin Response
ASSUME SendsAssumption == MaxSends \in Nat \ {0}

PathTypeOK ==
  /\ behavior \in NatBehavior
  /\ deployment \in Deployment
  /\ bind \in Bind
  /\ timely \in BOOLEAN
  /\ contacts \subseteq Contact
  /\ network \subseteq RequestMsg \cup ResponseMsg
  /\ port \in LocalPorts
  /\ tid \in Nat
  /\ request \in Request \cup {NoRequest}
  /\ sends \in 0..MaxSends

\* socket_local_endpoint: getsockname on a socket that is never connected gives
\* the address it was bound to, the wildcard unless --local named one.
SocketLocalEndpoint ==
  IF bind = "address" THEN Local(port) ELSE [Local(port) EXCEPT !.ip = AnyIp]

\* The first exchange of a session on inside port p asks `first`.
PathInit(first) ==
  /\ behavior \in NatBehavior
  /\ deployment \in Deployments
  /\ bind \in Binds
  /\ timely \in Timeliness
  /\ contacts = {}
  /\ network = {}
  /\ port \in LocalPorts
  /\ tid = 1
  /\ request = first
  /\ sends = 0

-----------------------------------------------------------------------------
(* The state machine's side: called by its handlers. *)

Plain(to)        == [to |-> to, change |-> NoChange]
Changed(to, chg) == [to |-> to, change |-> chg]

\* A handler returns a new action: the next exchange begins with a fresh id.
Ask(next) == request' = next /\ tid' = tid + 1 /\ sends' = 0

\* A handler returns std::nullopt: the discovery is over.
AskNothing == request' = NoRequest /\ sends' = 0 /\ UNCHANGED tid

-----------------------------------------------------------------------------
(* The session's side. *)

\* The request as it leaves the NAT.
CurrentRequest == [kind   |-> "request",
                   from   |-> External(behavior, port, request.to),
                   to     |-> request.to,
                   tid    |-> tid,
                   change |-> request.change]

\* sendto, first or repeated: the NAT notes the contact on the way out.
Send ==
  /\ request # NoRequest
  /\ sends < MaxSends
  /\ sends' = sends + 1
  /\ contacts' = contacts \cup {[port |-> port, to |-> request.to]}
  /\ network' = network \cup {CurrentRequest}
  /\ UNCHANGED <<rigidVars, port, tid, request>>

\* What is left in flight once m is handed over.
After(m) == {network \ {m}} \cup (IF Duplicating THEN {network} ELSE {})

\* The NAT lets m through to the session's socket.
Reaches(m) == Admits(behavior, contacts, port, m.to, m.from)

\* Faulty variant, for mutation: any response will do.
MatchesAny(m) == m.kind = "response"

\* The cookie and the transaction id of a received message are the request's.
Matches(m) == m.tid = tid

\* recvfrom returned m and it matches.  The handler that consumes it is the
\* state machine's.
Accept(m) ==
  /\ request # NoRequest
  /\ sends > 0
  /\ m.kind = "response"
  /\ Reaches(m)
  /\ Matches(m)
  /\ network' \in After(m)
  /\ UNCHANGED <<rigidVars, contacts, port>>

\* recvfrom returned a datagram of another exchange: ignored.
Ignore(m) ==
  /\ request # NoRequest
  /\ sends > 0
  /\ m.kind = "response"
  /\ Reaches(m)
  /\ ~ Matches(m)
  /\ network' = network \ {m}
  /\ UNCHANGED <<rigidVars, contacts, port, tid, request, sends>>

\* Faulty variant, for mutation: the deadline is looked at only when nothing is
\* in flight.
ExpireWhenQuiet ==
  /\ request # NoRequest
  /\ sends > 0
  /\ network = {}
  /\ UNCHANGED <<rigidVars, contacts, network, port>>

\* The deadline passes without an answer: request() returns std::nullopt.
Expire ==
  /\ request # NoRequest
  /\ sends > 0
  /\ timely => \A m \in network : m.tid # tid
  /\ UNCHANGED <<rigidVars, contacts, network, port>>

-----------------------------------------------------------------------------
(* The server, the NAT's filter and the network. *)

\* handle_udp_packet answers a Binding request it receives.
Serve(m) ==
  /\ m.kind = "request"
  /\ \E rx \in ReceivingNodes(deployment, m.to), rest \in After(m) :
        network' = rest \cup {BindingResponse(deployment, rx, m)}
  /\ UNCHANGED <<rigidVars, contacts, port, tid, request, sends>>

\* The NAT refuses an inbound packet, or it finds the session's socket closed.
Drop(m) ==
  /\ m.kind = "response"
  /\ ~ Reaches(m) \/ request = NoRequest
  /\ network' = network \ {m}
  /\ UNCHANGED <<rigidVars, contacts, port, tid, request, sends>>

Lose(m) ==
  /\ ~ timely
  /\ network' = network \ {m}
  /\ UNCHANGED <<rigidVars, contacts, port, tid, request, sends>>

PathStep == \/ Send
            \/ \E m \in network : Ignore(m) \/ Serve(m) \/ Drop(m) \/ Lose(m)

-----------------------------------------------------------------------------
(* What is in flight, for the proofs. *)

\* A datagram of the current exchange is the current request or the server's
\* answer to it.
OfCurrentExchange(m) ==
  \/ m = CurrentRequest
  \/ \E rx \in ReceivingNodes(deployment, request.to) :
        m = BindingResponse(deployment, rx, CurrentRequest)

\* Whatever else is in flight belongs to an earlier exchange.
NetworkInv ==
  \A m \in network :
    /\ m.tid <= tid
    /\ m.tid = tid /\ request # NoRequest => OfCurrentExchange(m)

\* The NAT does not let in what the server answers to the current request.
AnswerRefused ==
  \E rx \in ReceivingNodes(deployment, request.to) :
     ~ Reaches(BindingResponse(deployment, rx, CurrentRequest))

\* Where nothing is lost, a request that has been sent is in flight, or its
\* answer is, until the session or the NAT's filter has had the answer.
AnswerComes ==
  timely /\ request # NoRequest /\ sends > 0 =>
    /\ [port |-> port, to |-> request.to] \in contacts
    /\ AnswerRefused \/ \E m \in network : m.tid = tid
=============================================================================
