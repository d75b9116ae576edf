--------------------------- MODULE StunPathProofs ---------------------------
(***************************************************************************)
(* Proofs about StunPath, shared by those of the discoveries that run over *)
(* it: the server's arithmetic, the NAT's classes, and that an answer a    *)
(* handler is given is the server's to the request it made last.           *)
(***************************************************************************)
EXTENDS StunPath, TLAPS

(* The server's node arithmetic. *)

\* The node named as OTHER-ADDRESS differs from the receiving one in both its
\* address and its port (src_ser/main.cpp, handle_udp_packet).
LEMMA OtherNodeDiffers ==
  ASSUME NEW rx \in Node
  PROVE  /\ OtherNode(rx) \in Node
         /\ NodeIp(OtherNode(rx)) # NodeIp(rx)
         /\ NodePort(OtherNode(rx)) # NodePort(rx)
<1>1. rx \in {0, 1, 2, 3}
  BY DEF Node
<1> QED BY <1>1, TwoByTwo, SMT DEF Node, OtherNode, NodeIp, NodePort

\* A CHANGE-REQUEST with both flags is answered from the OTHER-ADDRESS node,
\* one with the port flag from the same address and the other port, and a
\* request without flags from the node that received it.
LEMMA ReplyNodes ==
  ASSUME NEW rx \in Node
  PROVE  /\ ReplyNode(rx, ChangeBoth) = OtherNode(rx)
         /\ ReplyNode(rx, NoChange) = rx
         /\ NodeIp(ReplyNode(rx, ChangePort)) = NodeIp(rx)
         /\ NodePort(ReplyNode(rx, ChangePort)) # NodePort(rx)
<1>1. rx \in {0, 1, 2, 3}
  BY DEF Node
<1> QED
  BY <1>1, TwoByTwo, SMT
  DEF Node, ReplyNode, OtherNode, Flip, NodeIp, NodePort, ChangeBoth, NoChange, ChangePort

LEMMA ReplyNodeType ==
  ASSUME NEW rx \in Node, NEW change \in Change
  PROVE  ReplyNode(rx, change) \in Node
<1>1. rx \in {0, 1, 2, 3}
  BY DEF Node
<1>2. change.ip \in BOOLEAN /\ change.port \in BOOLEAN
  BY DEF Change
<1> QED BY <1>1, <1>2, SMT DEF Node, ReplyNode, Flip

LEMMA NodeEpType ==
  ASSUME NEW i \in Node
  PROVE  NodeEp(i) \in ServerEp
BY DEF NodeEp, NodeIp, NodePort, ServerEp

-----------------------------------------------------------------------------
(* The NAT's classes. *)

LEMMA ClassContains ==
  ASSUME NEW d \in Dependence, NEW e \in ServerEp
  PROVE  e \in Class(d, e) /\ Class(d, e) \subseteq ServerEp
BY DEF Class, Dependence

LEMMA ExternalType ==
  ASSUME NEW b \in NatBehavior, NEW p \in LocalPorts, NEW e \in ServerEp
  PROVE  External(b, p, e) \in ClientEp /\ External(b, p, e) # NoEp
<1>1. Class(b.mapping, e) \in SUBSET ServerEp
  BY DEF Class
<1>2. CASE b.mapping = "Direct"
  BY <1>2, TwoSides DEF External, Local, ClientEp
<1>3. CASE b.mapping # "Direct"
  BY <1>1, <1>3, TwoSides DEF External, ClientEp
<1> QED BY <1>2, <1>3

\* Two remotes see the same external endpoint exactly when the NAT's mapping
\* does not tell them apart.
LEMMA SameExternal ==
  ASSUME NEW b \in NatBehavior, NEW p \in LocalPorts,
         NEW e \in ServerEp, NEW f \in ServerEp,
         External(b, p, e) = External(b, p, f)
  PROVE  b.mapping = "Direct" \/ Class(b.mapping, e) = Class(b.mapping, f)
BY DEF External

-----------------------------------------------------------------------------
(* The requests and the answers. *)

LEMMA PlainType ==
  ASSUME NEW e \in ServerEp
  PROVE  Plain(e) \in Request /\ Plain(e) # NoRequest
<1>1. Plain(e) \in Request
  BY DEF Plain, Request, NoChange, Change
<1> QED BY <1>1, Sentinels

LEMMA ChangedType ==
  ASSUME NEW e \in ServerEp, NEW c \in {ChangeBoth, ChangePort}
  PROVE  Changed(e, c) \in Request /\ Changed(e, c) # NoRequest
<1>0. ChangeBoth \in Change /\ ChangePort \in Change
  BY DEF ChangeBoth, ChangePort, Change
<1>1. c \in Change
  BY <1>0
<1>2. Changed(e, c) \in Request
  BY <1>1 DEF Changed, Request
<1> QED BY <1>2, Sentinels

\* The server's answer to a request is a well-formed response to its sender.
LEMMA BindingResponseType ==
  ASSUME NEW dep \in Deployment, NEW rx \in Node, NEW req \in RequestMsg
  PROVE  BindingResponse(dep, rx, req) \in ResponseMsg
<1>1. ReplyNode(rx, req.change) \in Node /\ OtherNode(rx) \in Node
  BY ReplyNodeType, OtherNodeDiffers DEF RequestMsg
<1>2. ReplySource(dep, rx, req.change) \in ServerEp
  BY <1>1 DEF ReplySource, ServerEp, NodeIp, NodePort
<1>3. OtherAddress(dep, rx) \in ServerEp \cup {NoEp}
  BY <1>1 DEF OtherAddress, ServerEp, NodeIp, NodePort
<1>4. MappedAddress(dep, req.from) \in ClientEp \cup {NoEp}
  BY DEF MappedAddress, RequestMsg
<1> QED BY <1>2, <1>3, <1>4 DEF BindingResponse, ResponseMsg, RequestMsg

LEMMA CurrentRequestType ==
  ASSUME PathTypeOK, request # NoRequest
  PROVE  CurrentRequest \in RequestMsg
<1>1. request \in Request /\ request.to \in ServerEp /\ request.change \in Change
  BY DEF PathTypeOK, Request
<1>2. External(behavior, port, request.to) \in ClientEp
  BY <1>1, ExternalType DEF PathTypeOK
<1> QED BY <1>1, <1>2 DEF CurrentRequest, RequestMsg, PathTypeOK

-----------------------------------------------------------------------------
(* The steps of the session, the server and the network. *)

LEMMA PathStarts ==
  ASSUME NEW first \in Request, PathInit(first)
  PROVE  PathTypeOK /\ NetworkInv /\ contacts = {} /\ request = first
BY SendsAssumption, ExploredAssumption DEF PathInit, PathTypeOK, NetworkInv

\* A step that leaves the exchange alone keeps the path in order if the
\* datagrams it leaves in flight are well-formed and of the right exchange.
LEMMA NetworkStep ==
  ASSUME PathTypeOK, UNCHANGED <<rigidVars, contacts, port, tid, request, sends>>,
         network' \subseteq RequestMsg \cup ResponseMsg,
         \A n \in network' : /\ n.tid <= tid
                             /\ n.tid = tid /\ request # NoRequest => OfCurrentExchange(n)
  PROVE  PathTypeOK' /\ NetworkInv'
<1>1. PathTypeOK'
  BY DEF PathTypeOK, rigidVars
<1>2. NetworkInv'
  BY DEF NetworkInv, OfCurrentExchange, CurrentRequest, rigidVars
<1> QED BY <1>1, <1>2

\* Removing datagrams keeps the rest of the right exchange.
LEMMA Removal ==
  ASSUME PathTypeOK, NetworkInv, network' \subseteq network,
         UNCHANGED <<rigidVars, contacts, port, tid, request, sends>>
  PROVE  PathTypeOK' /\ NetworkInv'
<1>1. network' \subseteq RequestMsg \cup ResponseMsg
  BY DEF PathTypeOK
<1>2. \A n \in network' : /\ n.tid <= tid
                          /\ n.tid = tid /\ request # NoRequest => OfCurrentExchange(n)
  BY DEF NetworkInv
<1> QED BY <1>1, <1>2, NetworkStep

LEMMA ServeKeeps ==
  ASSUME PathTypeOK, NetworkInv, NEW m \in network, Serve(m)
  PROVE  PathTypeOK' /\ NetworkInv'
<1>1. PICK rx \in ReceivingNodes(deployment, m.to), rest \in After(m) :
        network' = rest \cup {BindingResponse(deployment, rx, m)}
  BY DEF Serve
<1>2. m.kind = "request" /\ m \in RequestMsg
  BY DEF Serve, PathTypeOK, ResponseMsg
<1>3. rest \subseteq network
  BY DEF After
<1>4. rx \in Node /\ deployment \in Deployment
  BY DEF ReceivingNodes, PathTypeOK
<1>5. network' \subseteq RequestMsg \cup ResponseMsg
  BY <1>1, <1>2, <1>3, <1>4, BindingResponseType DEF PathTypeOK
<1>6. UNCHANGED <<rigidVars, contacts, port, tid, request, sends>>
  BY DEF Serve
<1>7. ASSUME NEW n \in network'
      PROVE  /\ n.tid <= tid
             /\ n.tid = tid /\ request # NoRequest => OfCurrentExchange(n)
  <2>1. CASE n \in network
    BY <2>1 DEF NetworkInv
  <2>2. CASE n = BindingResponse(deployment, rx, m)
    <3>1. n.tid = m.tid
      BY <2>2 DEF BindingResponse
    <3>2. m.tid <= tid
      BY DEF NetworkInv
    <3>3. ASSUME n.tid = tid, request # NoRequest PROVE OfCurrentExchange(n)
      <4>1. OfCurrentExchange(m)
        BY <3>1, <3>3 DEF NetworkInv
      <4>2. m = CurrentRequest
        BY <4>1, <1>2 DEF OfCurrentExchange, BindingResponse
      <4>3. m.to = request.to
        BY <4>2 DEF CurrentRequest
      <4> QED BY <4>2, <4>3, <2>2 DEF OfCurrentExchange
    <3> QED BY <3>1, <3>2, <3>3
  <2> QED BY <1>1, <1>3, <2>1, <2>2
<1> QED BY <1>5, <1>6, <1>7, NetworkStep

LEMMA SendKeeps ==
  ASSUME PathTypeOK, NetworkInv, Send
  PROVE  PathTypeOK' /\ NetworkInv'
<1>1. request # NoRequest /\ request \in Request
  BY DEF PathTypeOK, Send
<1>2. CurrentRequest \in RequestMsg
  BY <1>1, CurrentRequestType
<1>3. PathTypeOK'
  <2>1. [port |-> port, to |-> request.to] \in Contact
    BY <1>1 DEF PathTypeOK, Request, Contact
  <2>2. sends' \in 0..MaxSends
    BY <1>1, SendsAssumption DEF PathTypeOK, Send
  <2> QED BY <1>1, <1>2, <2>1, <2>2 DEF PathTypeOK, Send, rigidVars
<1>4. NetworkInv'
  <2> SUFFICES ASSUME NEW n \in network'
               PROVE  /\ n.tid <= tid
                      /\ n.tid = tid => OfCurrentExchange(n)
    BY DEF NetworkInv, OfCurrentExchange, CurrentRequest, Send, rigidVars
  <2>1. CASE n \in network
    BY <2>1, <1>1 DEF NetworkInv
  <2>2. CASE n = CurrentRequest
    BY <2>2, <1>1 DEF CurrentRequest, OfCurrentExchange, PathTypeOK
  <2> QED BY <2>1, <2>2 DEF Send
<1> QED BY <1>3, <1>4

\* What the path does by itself: the discovery in progress sees none of it, but
\* the NAT may have noted the remote that the current request goes to.
LEMMA PathKeeps ==
  ASSUME PathTypeOK, NetworkInv, PathStep \/ UNCHANGED pathVars
  PROVE  /\ PathTypeOK' /\ NetworkInv'
         /\ UNCHANGED <<rigidVars, port, request>>
         /\ \A c \in contacts' : c \in contacts \/ (request # NoRequest /\ c.to = request.to)
<1>1. CASE Send
  <2>1. PathTypeOK' /\ NetworkInv'
    BY <1>1, SendKeeps
  <2>2. request # NoRequest /\ UNCHANGED <<rigidVars, port, request>>
    BY <1>1 DEF Send
  <2>3. [port |-> port, to |-> request.to].to = request.to
    OBVIOUS
  <2>4. \A c \in contacts' : c \in contacts \/ c.to = request.to
    BY <1>1, <2>3 DEF Send
  <2> QED BY <2>1, <2>2, <2>4
<1>2. ASSUME NEW m \in network, Serve(m)
      PROVE  PathTypeOK' /\ NetworkInv' /\ UNCHANGED <<rigidVars, contacts, port, request>>
  <2>1. PathTypeOK' /\ NetworkInv'
    BY <1>2, ServeKeeps
  <2> QED BY <1>2, <2>1 DEF Serve
<1>3. ASSUME \/ \E m \in network : Ignore(m) \/ Drop(m) \/ Lose(m)
             \/ UNCHANGED pathVars
      PROVE  PathTypeOK' /\ NetworkInv' /\ UNCHANGED <<rigidVars, contacts, port, request>>
  <2>1. /\ network' \subseteq network
        /\ UNCHANGED <<rigidVars, contacts, port, tid, request, sends>>
    BY <1>3 DEF Ignore, Drop, Lose, pathVars, rigidVars
  <2>2. PathTypeOK' /\ NetworkInv'
    BY <2>1, Removal
  <2> QED BY <2>1, <2>2
<1>4. Send \/ (\E m \in network : Ignore(m) \/ Serve(m) \/ Drop(m) \/ Lose(m)) \/ UNCHANGED pathVars
  BY DEF PathStep
<1>5. CASE UNCHANGED contacts /\ PathTypeOK' /\ NetworkInv' /\ UNCHANGED <<rigidVars, port, request>>
  BY <1>5
<1> QED BY <1>1, <1>2, <1>3, <1>4, <1>5

-----------------------------------------------------------------------------
(* What a handler may rely on. *)

\* An answer got_response is handed: that of a node which received the current
\* request, let in by the NAT because of an earlier contact.
Genuine(r) ==
  /\ r \in Response
  /\ \E rx \in ReceivingNodes(deployment, request.to) :
        /\ r.remote = ReplySource(deployment, rx, request.change)
        /\ r.mapped = MappedAddress(deployment, External(behavior, port, request.to))
        /\ r.other  = OtherAddress(deployment, rx)
  /\ \E c \in contacts : c.port = port /\ r.remote \in Class(behavior.filtering, c.to)

\* The rest of the step in which a handler runs.
HandlerFrame == /\ request # NoRequest
                /\ network' \subseteq network
                /\ UNCHANGED <<rigidVars, contacts, port>>

\* UdpSession::request returns only answers to the request it sent: the
\* transaction ids of earlier exchanges do not match.
LEMMA AcceptedIsGenuine ==
  ASSUME PathTypeOK, NetworkInv, NEW m \in network, Accept(m)
  PROVE  Genuine(ResponseOf(m)) /\ HandlerFrame
<1>1. request # NoRequest /\ m.kind = "response" /\ Reaches(m) /\ m.tid = tid
  BY DEF Accept, Matches
<1>2. m \in ResponseMsg
  BY <1>1 DEF PathTypeOK, RequestMsg
<1>3. m # CurrentRequest
  BY <1>1 DEF CurrentRequest
<1>4. PICK rx \in ReceivingNodes(deployment, request.to) :
        m = BindingResponse(deployment, rx, CurrentRequest)
  BY <1>1, <1>3 DEF NetworkInv, OfCurrentExchange
<1>5. /\ m.from = ReplySource(deployment, rx, request.change)
      /\ m.mapped = MappedAddress(deployment, External(behavior, port, request.to))
      /\ m.other = OtherAddress(deployment, rx)
  BY <1>4 DEF BindingResponse, CurrentRequest
<1>6. PICK c \in contacts : c.port = port /\ m.from \in Class(behavior.filtering, c.to)
  BY <1>1 DEF Reaches, Admits
<1>7. ResponseOf(m) \in Response
  BY <1>2 DEF ResponseMsg, Response, ResponseOf
<1>8. HandlerFrame
  BY <1>1 DEF HandlerFrame, Accept, After
<1> QED BY <1>5, <1>6, <1>7, <1>8 DEF Genuine, ResponseOf

\* Whatever a handler asks next, nothing in flight answers it yet.
LEMMA NextExchange ==
  ASSUME PathTypeOK, NetworkInv, HandlerFrame,
         (\E next \in Request : Ask(next)) \/ AskNothing
  PROVE  PathTypeOK' /\ NetworkInv'
<1>1. tid \in Nat /\ \A m \in network : m.tid \in Nat /\ m.tid <= tid
  BY DEF PathTypeOK, NetworkInv, RequestMsg, ResponseMsg
<1>2. 0 \in 0..MaxSends
  BY SendsAssumption
<1>3. CASE \E next \in Request : Ask(next)
  <2>1. tid' = tid + 1 /\ request' \in Request /\ sends' = 0
    BY <1>3 DEF Ask
  <2> QED BY <1>1, <1>2, <2>1
       DEF PathTypeOK, NetworkInv, HandlerFrame, rigidVars
<1>4. CASE AskNothing
  <2>1. tid' = tid /\ request' = NoRequest /\ sends' = 0
    BY <1>4 DEF AskNothing
  <2> QED BY <1>1, <1>2, <2>1
       DEF PathTypeOK, NetworkInv, HandlerFrame, rigidVars
<1> QED BY <1>3, <1>4

-----------------------------------------------------------------------------
(* What the absence of an answer means, where nothing is lost. *)

LEMMA AnswersStart ==
  ASSUME NEW first \in Request, PathInit(first)
  PROVE  AnswerComes
BY DEF PathInit, AnswerComes

\* A step that loses nothing of the current exchange keeps its answer coming.
LEMMA AnswersKeptInFlight ==
  ASSUME AnswerComes, UNCHANGED <<rigidVars, contacts, port, tid, request, sends>>,
         \A m \in network : m.tid = tid => \E n \in network' : n.tid = tid
  PROVE  AnswerComes'
BY DEF AnswerComes, AnswerRefused, Reaches, CurrentRequest, rigidVars

LEMMA PathKeepsAnswers ==
  ASSUME PathTypeOK, NetworkInv, AnswerComes, PathStep \/ UNCHANGED pathVars
  PROVE  AnswerComes'
<1>1. CASE Send
  <2>1. CurrentRequest \in network' /\ CurrentRequest.tid = tid
    BY <1>1 DEF Send, CurrentRequest
  <2>2. [port |-> port, to |-> request.to] \in contacts'
    BY <1>1 DEF Send
  <2> QED BY <1>1, <2>1, <2>2 DEF Send, AnswerComes
<1>2. ASSUME NEW m \in network, Serve(m) PROVE AnswerComes'
  <2>1. PICK rx \in ReceivingNodes(deployment, m.to), rest \in After(m) :
          network' = rest \cup {BindingResponse(deployment, rx, m)}
    BY <1>2 DEF Serve
  <2>2. BindingResponse(deployment, rx, m).tid = m.tid
    BY DEF BindingResponse
  <2>3. network \ {m} \subseteq rest
    BY DEF After
  <2> QED BY <1>2, <2>1, <2>2, <2>3, AnswersKeptInFlight DEF Serve
<1>3. ASSUME NEW m \in network, Ignore(m) PROVE AnswerComes'
  BY <1>3, AnswersKeptInFlight DEF Ignore, Matches
<1>4. ASSUME NEW m \in network, Drop(m) PROVE AnswerComes'
  <2>1. CASE m.tid # tid
    BY <1>4, <2>1, AnswersKeptInFlight DEF Drop
  <2>2. CASE request = NoRequest
    BY <1>4, <2>2 DEF Drop, AnswerComes
  <2>3. CASE m.tid = tid /\ request # NoRequest
    <3>1. m.kind = "response" /\ ~ Reaches(m)
      BY <1>4, <2>3 DEF Drop
    <3>2. AnswerRefused
      BY <2>3, <3>1 DEF NetworkInv, OfCurrentExchange, AnswerRefused, CurrentRequest
    <3> QED BY <1>4, <3>2
         DEF Drop, AnswerComes, AnswerRefused, Reaches, CurrentRequest, rigidVars
  <2> QED BY <2>1, <2>2, <2>3
<1>5. ASSUME NEW m \in network, Lose(m) PROVE AnswerComes'
  BY <1>5 DEF Lose, AnswerComes, rigidVars
<1>6. CASE UNCHANGED pathVars
  BY <1>6, AnswersKeptInFlight DEF pathVars, rigidVars
<1> QED BY <1>1, <1>2, <1>3, <1>4, <1>5, <1>6 DEF PathStep

\* A handler ends the exchange, and the next one has not been sent yet.
LEMMA AnswersStartAnew ==
  ASSUME sends' = 0
  PROVE  AnswerComes'
BY DEF AnswerComes

\* The filter refuses what comes from where the server is to answer from.
Refused == \E rx \in ReceivingNodes(deployment, request.to) :
             ReplySource(deployment, rx, request.change)
               \notin Class(behavior.filtering, request.to)

\* What a deadline that passes says: where nothing is lost, the filter is why.
Silence == timely => Refused

LEMMA ExpiryIsSilence ==
  ASSUME PathTypeOK, AnswerComes, Expire
  PROVE  Silence
<1> SUFFICES ASSUME timely PROVE Refused
  BY DEF Silence
<1>1. request # NoRequest /\ sends > 0 /\ \A m \in network : m.tid # tid
  BY DEF Expire
<1>2. [port |-> port, to |-> request.to] \in contacts /\ AnswerRefused
  BY <1>1 DEF AnswerComes
<1>3. PICK rx \in ReceivingNodes(deployment, request.to) :
        ~ Reaches(BindingResponse(deployment, rx, CurrentRequest))
  BY <1>2 DEF AnswerRefused
<1>4. /\ BindingResponse(deployment, rx, CurrentRequest).from
            = ReplySource(deployment, rx, request.change)
      /\ BindingResponse(deployment, rx, CurrentRequest).to
            = External(behavior, port, request.to)
  BY DEF BindingResponse, CurrentRequest
<1>5. ReplySource(deployment, rx, request.change) \notin Class(behavior.filtering, request.to)
  BY <1>2, <1>3, <1>4 DEF Reaches, Admits
<1> QED BY <1>5 DEF Refused

\* The node of this repository's server that was asked.
LEMMA OwnNodeAsked ==
  ASSUME NEW to \in ServerEp, NEW rx \in ReceivingNodes("own", to)
  PROVE  rx \in Node /\ NodeEp(rx) = to
BY DEF ReceivingNodes, NodeEp, ServerEp

\* No filter refuses the answer to a plain request: it comes from where the
\* request went.
LEMMA PlainIsAnswered ==
  ASSUME PathTypeOK, deployment = "own", NEW to \in ServerEp, request = Plain(to)
  PROVE  ~ Refused
<1> SUFFICES ASSUME NEW rx \in ReceivingNodes("own", to)
             PROVE  ReplySource("own", rx, NoChange) \in Class(behavior.filtering, to)
  BY DEF Refused, Plain
<1>1. rx \in Node /\ NodeEp(rx) = to
  BY OwnNodeAsked
<1>2. ReplySource("own", rx, NoChange) = to
  BY <1>1, ReplyNodes DEF ReplySource, NodeEp
<1>3. behavior.filtering \in Dependence
  BY DEF PathTypeOK, NatBehavior
<1> QED BY <1>2, <1>3, ClassContains

\* A refused answer to a request with CHANGE-REQUEST shows what the filter
\* tells apart.
LEMMA RefusalTells ==
  ASSUME PathTypeOK, deployment = "own", NEW to \in ServerEp, Refused
  PROVE  /\ request = Changed(to, ChangeBoth) => behavior.filtering # "EndpointIndependent"
         /\ request = Changed(to, ChangePort) => behavior.filtering = "AddressAndPortDependent"
<1>1. ASSUME NEW change \in {ChangeBoth, ChangePort}, request = Changed(to, change)
      PROVE  \E rx \in Node : /\ NodeEp(rx) = to
                             /\ NodeEp(ReplyNode(rx, change)) \in ServerEp
                             /\ NodeEp(ReplyNode(rx, change)) \notin Class(behavior.filtering, to)
  <2>1. PICK rx \in ReceivingNodes("own", to) :
          ReplySource("own", rx, change) \notin Class(behavior.filtering, to)
    BY <1>1 DEF Refused, Changed
  <2>2. rx \in Node /\ NodeEp(rx) = to
    BY OwnNodeAsked
  <2>3. ReplySource("own", rx, change) = NodeEp(ReplyNode(rx, change))
    BY DEF ReplySource, NodeEp
  <2>4. change \in Change
    <3>1. ChangeBoth \in Change /\ ChangePort \in Change
      BY DEF Change, ChangeBoth, ChangePort
    <3> QED BY <3>1
  <2>5. NodeEp(ReplyNode(rx, change)) \in ServerEp
    BY <2>2, <2>4, ReplyNodeType, NodeEpType
  <2> QED BY <2>1, <2>2, <2>3, <2>5
<1>2. behavior.filtering \in Dependence
  BY DEF PathTypeOK, NatBehavior
<1>3. request = Changed(to, ChangeBoth) => behavior.filtering # "EndpointIndependent"
  BY <1>1 DEF Class
<1>4. ASSUME request = Changed(to, ChangePort)
      PROVE  behavior.filtering = "AddressAndPortDependent"
  <2>1. PICK rx \in Node : /\ NodeEp(rx) = to
                          /\ NodeEp(ReplyNode(rx, ChangePort)) \in ServerEp
                          /\ NodeEp(ReplyNode(rx, ChangePort)) \notin Class(behavior.filtering, to)
    BY <1>1, <1>4
  <2>2. NodeEp(ReplyNode(rx, ChangePort)).ip = to.ip
    BY <2>1, ReplyNodes DEF NodeEp
  <2> QED BY <1>2, <2>1, <2>2 DEF Class, Dependence
<1> QED BY <1>3, <1>4
=============================================================================
