--------------------------- MODULE Rfc3489Proofs ---------------------------
(***************************************************************************)
(* Proofs about Rfc3489, for every NAT behaviour, server deployment, way   *)
(* of binding the socket, bound on retransmission and network guarantee.   *)
(***************************************************************************)
EXTENDS Rfc3489, StunPathProofs

-----------------------------------------------------------------------------
(* Why the verdicts are sound: the inductive invariant. *)

\* What each test has asked, and whom the session has sent to by then.
AskedSoFar ==
  /\ phase = "Done" <=> request = NoRequest
  /\ phase = "Test1"   => request = Plain(Server)
  /\ phase = "Test2"   => request = Changed(Server, ChangeBoth)
  /\ phase = "Test1_2" => request = Plain(changed)
  /\ phase = "Test3"   => request = Changed(Server, ChangePort)
  /\ phase \in {"Test1", "Test2"}   => \A c \in contacts : c.to = Server
  /\ phase \in {"Test1_2", "Test3"} => \A c \in contacts : c.to \in {Server, changed}

\* What the tests before have learnt, until the verdict is in.
Learnt ==
  /\ phase # "Done" => natType = "Unknown"
  /\ phase \in {"Test2", "Test1_2", "Test3"} =>
       /\ remote1 = Server
       /\ mapped1 = External(behavior, port, Server)
       /\ changed \in ServerEp /\ changed.ip # Server.ip
  /\ phase \in {"Test1_2", "Test3"} => Translating
  /\ phase = "Test3" => SeenMapping = "EndpointIndependent"

IInv == TypeOK /\ NetworkInv /\ AskedSoFar /\ Learnt /\ PositiveVerdictsSound

\* Where nothing is lost, Test II has shown the filter not to be open before
\* Test I(2) is made.
TimelyInv ==
  /\ timely /\ deployment = "own" /\ phase \in {"Test1_2", "Test3"} =>
       behavior.filtering # "EndpointIndependent"
  /\ TimelyTestIsExact

LEMMA ServerType == Server \in ServerEp
<1>1. 0 \in Node
  BY DEF Node
<1> QED BY <1>1, NodeEpType DEF Server

LEMMA InOrder == IInv => PathTypeOK /\ NetworkInv
BY DEF IInv, TypeOK

LEMMA InitEstablishesIInv == Init => IInv
<1> SUFFICES ASSUME Init PROVE IInv
  OBVIOUS
<1>1. /\ phase = "Test1" /\ natType = "Unknown"
      /\ public = NoEp /\ remote1 = NoEp /\ mapped1 = NoEp /\ changed = NoEp
  BY DEF Init
<1>2. PathTypeOK /\ NetworkInv /\ contacts = {} /\ request = Plain(Server)
  BY PlainType, ServerType, PathStarts DEF Init
<1>3. TypeOK
  BY <1>1, <1>2 DEF TypeOK, Phase, NatType
<1>4. AskedSoFar
  BY <1>1, <1>2, PlainType, ServerType DEF AskedSoFar
<1>5. Learnt /\ PositiveVerdictsSound
  BY <1>1 DEF Learnt, PositiveVerdictsSound
<1> QED BY <1>2, <1>3, <1>4, <1>5 DEF IInv

\* What the path does by itself keeps the invariant.
LEMMA PathKeepsIInv ==
  ASSUME IInv, PathStep \/ UNCHANGED pathVars, UNCHANGED fsmVars
  PROVE  IInv'
<1>1. /\ PathTypeOK' /\ NetworkInv'
      /\ UNCHANGED <<rigidVars, port, request>>
      /\ \A c \in contacts' : c \in contacts \/ (request # NoRequest /\ c.to = request.to)
  BY InOrder, PathKeeps
<1>2. TypeOK'
  BY <1>1 DEF IInv, TypeOK, fsmVars
<1>3. AskedSoFar'
  <2>1. /\ phase \in {"Test1", "Test2", "Test3"} => request.to = Server
        /\ phase = "Test1_2" => request.to = changed
    BY DEF IInv, AskedSoFar, Plain, Changed
  <2> QED BY <1>1, <2>1 DEF IInv, AskedSoFar, Phase, TypeOK, fsmVars
<1>4. (Learnt /\ PositiveVerdictsSound)'
  BY <1>1 DEF IInv, Learnt, PositiveVerdictsSound, fsmVars, rigidVars, SeenMapping, Translating
<1> QED BY <1>1, <1>2, <1>3, <1>4 DEF IInv

-----------------------------------------------------------------------------
(* What an answer tells. *)

\* Whichever node of whichever deployment has received it, a plain request to
\* Server is answered from Server.
LEMMA AnswersAsServer ==
  ASSUME NEW dep \in Deployment, NEW rx \in ReceivingNodes(dep, Server)
  PROVE  ReplySource(dep, rx, NoChange) = Server
<1>1. 0 \div 2 = 0 /\ 0 % 2 = 0
  BY SMT
<1>2. Server = [ip |-> IP1, port |-> Port1]
  BY <1>1 DEF Server, NodeEp, NodeIp, NodePort
<1>3. rx \in Node /\ NodePort(rx) = Port1 /\ (dep = "wildcard" \/ NodeIp(rx) = IP1)
  BY <1>2 DEF ReceivingNodes
<1>4. ReplyNode(rx, NoChange) = rx
  BY <1>3, ReplyNodes
<1> QED BY <1>2, <1>3, <1>4 DEF ReplySource

\* The session sees its own endpoint exactly when the NAT leaves it alone and
\* the session knows its address.
LEMMA OwnEndpoint ==
  ASSUME PathTypeOK
  PROVE  External(behavior, port, Server) = SocketLocalEndpoint <=> ~ Translating
<1>1. behavior \in NatBehavior /\ port \in LocalPorts /\ bind \in Bind
  BY DEF PathTypeOK
<1>2. External(behavior, port, Server).ip \in {ClientIp, NatIp}
  BY <1>1, ServerType, ExternalType DEF ClientEp
<1>3. CASE bind = "wildcard"
  <2>1. SocketLocalEndpoint.ip = AnyIp
    BY <1>3 DEF SocketLocalEndpoint, Local
  <2> QED BY <1>2, <1>3, <2>1, TwoSides DEF Translating
<1>4. CASE bind = "address"
  <2>1. SocketLocalEndpoint = Local(port) /\ Local(port).ip = ClientIp
    BY <1>4 DEF SocketLocalEndpoint, Local
  <2>2. behavior.mapping = "Direct" => External(behavior, port, Server) = Local(port)
    BY DEF External
  <2>3. behavior.mapping # "Direct" => External(behavior, port, Server).ip = NatIp
    BY DEF External
  <2> QED BY <1>4, <2>1, <2>2, <2>3, TwoSides DEF Translating
<1> QED BY <1>1, <1>3, <1>4 DEF Bind

\* An answer from a node the session has not sent to shows the filter to ignore
\* what tells that node from the ones it has sent to.
LEMMA LetIn ==
  ASSUME PathTypeOK, NEW r, Genuine(r), NEW e,
         \A c \in contacts : c.to = Server \/ (c.to = e /\ e.ip # r.remote.ip)
  PROVE  /\ r.remote.ip # Server.ip /\ (\A c \in contacts : c.to = Server)
              => behavior.filtering = "EndpointIndependent"
         /\ r.remote.port # Server.port => behavior.filtering # "AddressAndPortDependent"
<1>1. PICK c \in contacts : r.remote \in Class(behavior.filtering, c.to)
  BY DEF Genuine
<1>2. behavior.filtering \in Dependence
  BY DEF PathTypeOK, NatBehavior
<1> QED BY <1>1, <1>2 DEF Class, Dependence

\* Two addresses of the server see one mapping only if the NAT does not tell
\* remotes apart, and two only if it does.
LEMMA OneMapping ==
  ASSUME PathTypeOK, NEW e \in ServerEp, e.ip # Server.ip
  PROVE  External(behavior, port, e) = External(behavior, port, Server)
           <=> behavior.mapping \in {"Direct", "EndpointIndependent"}
<1>1. behavior \in NatBehavior /\ port \in LocalPorts
  BY DEF PathTypeOK
<1>2. behavior.mapping = "Direct" \/ behavior.mapping \in Dependence
  BY <1>1 DEF NatBehavior
<1>3. CASE behavior.mapping = "Direct"
  BY <1>3 DEF External
<1>4. CASE behavior.mapping \in Dependence
  <2>1. /\ e \in Class(behavior.mapping, e)
        /\ behavior.mapping # "Direct"
    BY <1>4, ClassContains DEF Dependence
  <2>2. CASE behavior.mapping = "EndpointIndependent"
    BY <2>2 DEF External, Class
  <2>3. CASE behavior.mapping # "EndpointIndependent"
    <3>1. e \notin Class(behavior.mapping, Server)
      BY <2>3 DEF Class
    <3>2. External(behavior, port, e) # External(behavior, port, Server)
      BY <1>1, <2>1, <3>1, ServerType, SameExternal
    <3> QED BY <2>1, <2>3, <3>2
  <2> QED BY <2>2, <2>3
<1> QED BY <1>2, <1>3, <1>4

-----------------------------------------------------------------------------
(* The handlers keep the invariant. *)

\* A verdict that the NAT bears out ends the discovery.
LEMMA ConcludeKeepsIInv ==
  ASSUME IInv, HandlerFrame, NEW type \in NatType, NEW e \in ClientEp \cup {NoEp},
         Conclude(type, e),
         remote1' \in ServerEp \cup {NoEp}, mapped1' \in ClientEp \cup {NoEp},
         changed' \in ServerEp \cup {NoEp}, PositiveVerdictsSound'
  PROVE  IInv'
<1>1. phase' = "Done" /\ request' = NoRequest /\ natType' = type /\ public' = e /\ AskNothing
  BY DEF Conclude, AskNothing
<1>2. PathTypeOK' /\ NetworkInv'
  BY <1>1, InOrder, NextExchange
<1>3. TypeOK'
  BY <1>1, <1>2 DEF TypeOK, Phase
<1>4. AskedSoFar' /\ Learnt'
  BY <1>1 DEF AskedSoFar, Learnt
<1> QED BY <1>2, <1>3, <1>4 DEF IInv

\* The next test asks what it is to ask.
LEMMA ProceedKeepsIInv ==
  ASSUME IInv, HandlerFrame, phase # "Done", NEW next \in Request, NEW p \in Phase,
         Proceed(p, next), public' \in ClientEp \cup {NoEp},
         remote1' \in ServerEp \cup {NoEp}, mapped1' \in ClientEp \cup {NoEp},
         changed' \in ServerEp \cup {NoEp}
  PROVE  /\ TypeOK' /\ NetworkInv' /\ PositiveVerdictsSound'
         /\ phase' = p /\ request' = next /\ natType' = "Unknown" /\ next # NoRequest
<1>1. phase' = p /\ request' = next /\ natType' = "Unknown" /\ Ask(next)
  BY DEF Proceed, Ask, IInv, Learnt
<1>2. PathTypeOK' /\ NetworkInv'
  BY <1>1, InOrder, NextExchange
<1>3. TypeOK'
  BY <1>1, <1>2 DEF TypeOK, NatType
<1>4. PositiveVerdictsSound'
  BY <1>1 DEF PositiveVerdictsSound
<1>5. next # NoRequest
  BY Sentinels
<1> QED BY <1>1, <1>2, <1>3, <1>4, <1>5

LEMMA Test1KeepsIInv ==
  ASSUME IInv, HandlerFrame, NEW r, r = NoResponse \/ Genuine(r), HandleTest1(r)
  PROVE  IInv'
<1>1. /\ phase = "Test1" /\ request.to = Server /\ request.change = NoChange
      /\ \A c \in contacts : c.to = Server
      /\ behavior' = behavior /\ port' = port /\ contacts' = contacts
  BY DEF HandleTest1, IInv, AskedSoFar, Plain, HandlerFrame, rigidVars
<1>2. public \in ClientEp \cup {NoEp} /\ deployment \in Deployment
  BY DEF IInv, TypeOK, PathTypeOK
<1>3. CASE r = NoResponse
  <2>1. Conclude("UdpBlocked", public) /\ UNCHANGED <<remote1, mapped1, changed>>
    BY <1>3 DEF HandleTest1
  <2>2. PositiveVerdictsSound'
    BY <2>1 DEF Conclude, PositiveVerdictsSound
  <2> QED BY <1>2, <2>1, <2>2, ConcludeKeepsIInv DEF NatType, IInv, TypeOK
<1>4. CASE r # NoResponse
  <2>1. /\ Genuine(r) /\ r \in Response
        /\ remote1' = r.remote /\ mapped1' = r.mapped /\ changed' = r.other
    BY <1>4 DEF HandleTest1, Genuine
  <2>2. /\ remote1' \in ServerEp \cup {NoEp} /\ mapped1' \in ClientEp \cup {NoEp}
        /\ changed' \in ServerEp \cup {NoEp}
    BY <2>1 DEF Response
  <2>3. CASE Conclude("UnsupportedServer", r.mapped)
    <3>1. PositiveVerdictsSound'
      BY <2>3 DEF Conclude, PositiveVerdictsSound
    <3> QED BY <2>1, <2>2, <2>3, <3>1, ConcludeKeepsIInv DEF NatType
  <2>4. CASE /\ r.mapped # NoEp /\ r.other # NoEp /\ r.other.ip # r.remote.ip
             /\ Proceed("Test2", Changed(Server, ChangeBoth)) /\ public' = r.mapped
    <3>1. Changed(Server, ChangeBoth) \in Request
      BY ServerType, ChangedType
    <3>2. /\ TypeOK' /\ NetworkInv' /\ PositiveVerdictsSound'
          /\ phase' = "Test2" /\ request' = Changed(Server, ChangeBoth)
          /\ natType' = "Unknown" /\ request' # NoRequest
      BY <1>1, <2>1, <2>2, <2>4, <3>1, ProceedKeepsIInv DEF Phase
    <3>3. PICK rx \in ReceivingNodes(deployment, Server) :
            /\ r.remote = ReplySource(deployment, rx, NoChange)
            /\ r.mapped = MappedAddress(deployment, External(behavior, port, Server))
      BY <1>1, <2>1 DEF Genuine
    <3>4. r.remote = Server /\ r.mapped = External(behavior, port, Server)
      BY <1>2, <2>4, <3>3, AnswersAsServer DEF MappedAddress
    <3>5. /\ remote1' = Server /\ mapped1' = External(behavior, port, Server)'
          /\ changed' \in ServerEp /\ changed'.ip # Server.ip
      BY <1>1, <2>1, <2>2, <2>4, <3>4
      DEF External, Class, Local, ServerEp, Server, NodeEp, NodeIp, NodePort
    <3>6. Learnt'
      BY <3>2, <3>5 DEF Learnt, Server, NodeEp, NodeIp, NodePort
    <3>7. AskedSoFar'
      BY <1>1, <3>2
      DEF AskedSoFar, Changed, ChangeBoth, Server, NodeEp, NodeIp, NodePort
    <3> QED BY <3>2, <3>6, <3>7 DEF IInv
  <2> QED BY <1>4, <2>3, <2>4 DEF HandleTest1, SameAddress
<1> QED BY <1>3, <1>4

LEMMA Test2KeepsIInv ==
  ASSUME IInv, HandlerFrame, NEW r, r = NoResponse \/ Genuine(r), HandleTest2(r)
  PROVE  IInv'
<1>1. /\ phase = "Test2" /\ \A c \in contacts : c.to = Server
      /\ remote1 = Server /\ mapped1 = External(behavior, port, Server)
      /\ changed \in ServerEp /\ changed.ip # Server.ip
      /\ UNCHANGED <<remote1, mapped1, changed, behavior, bind, port, contacts>>
  BY DEF HandleTest2, IInv, AskedSoFar, Learnt, HandlerFrame, rigidVars
<1>2. Translating' = Translating
  BY <1>1 DEF Translating
<1>3. mapped1 = SocketLocalEndpoint <=> ~ Translating
  BY <1>1, InOrder, OwnEndpoint
<1>4. r # NoResponse => r.mapped \in ClientEp \cup {NoEp}
  BY DEF Genuine, Response
<1>5. r # NoResponse /\ ~ FromSameSide(r) => behavior.filtering = "EndpointIndependent"
  <2> SUFFICES ASSUME r # NoResponse, r.remote.ip # Server.ip
               PROVE  behavior.filtering = "EndpointIndependent"
    BY <1>1 DEF FromSameSide, SameAddress
  <2> QED BY <1>1, InOrder, LetIn
<1>6. ASSUME NEW type \in {"UnsupportedServer", "SymmetricUdpFirewall", "OpenInternet", "FullCone"},
             NEW e \in ClientEp \cup {NoEp}, Conclude(type, e),
             type = "SymmetricUdpFirewall" => ~ Translating,
             type = "OpenInternet" =>
               ~ Translating /\ behavior.filtering = "EndpointIndependent",
             type = "FullCone" =>
               Translating /\ behavior.filtering = "EndpointIndependent"
      PROVE  IInv'
  <2>1. PositiveVerdictsSound'
    BY <1>1, <1>2, <1>6 DEF Conclude, PositiveVerdictsSound
  <2> QED BY <1>1, <1>6, <2>1, ConcludeKeepsIInv DEF NatType, IInv, TypeOK
<1>7. CASE Proceed("Test1_2", Plain(changed)) /\ UNCHANGED public /\ Translating
  <2>1. Plain(changed) \in Request
    BY <1>1, PlainType
  <2>2. /\ TypeOK' /\ NetworkInv' /\ PositiveVerdictsSound'
        /\ phase' = "Test1_2" /\ request' = Plain(changed)
        /\ natType' = "Unknown" /\ request' # NoRequest
    BY <1>1, <1>7, <2>1, ProceedKeepsIInv DEF Phase, IInv, TypeOK
  <2>3. AskedSoFar'
    BY <1>1, <2>2 DEF AskedSoFar, Plain, Server, NodeEp, NodeIp, NodePort
  <2>4. Learnt'
    BY <1>1, <1>2, <1>7, <2>2
    DEF Learnt, External, Class, Local, ServerEp, Server, NodeEp, NodeIp, NodePort
  <2> QED BY <2>2, <2>3, <2>4 DEF IInv
<1>8. \/ r # NoResponse /\ FromSameSide(r) /\ Conclude("UnsupportedServer", r.mapped)
      \/ ~ Translating /\ Conclude("SymmetricUdpFirewall", mapped1)
      \/ ~ Translating /\ r # NoResponse /\ ~ FromSameSide(r) /\ Conclude("OpenInternet", r.mapped)
      \/ Translating /\ r # NoResponse /\ ~ FromSameSide(r) /\ Conclude("FullCone", r.mapped)
      \/ Translating /\ Proceed("Test1_2", Plain(changed)) /\ UNCHANGED public
  BY <1>3 DEF HandleTest2
<1>9. mapped1 \in ClientEp \cup {NoEp}
  BY DEF IInv, TypeOK
<1> QED BY <1>4, <1>5, <1>6, <1>7, <1>8, <1>9

LEMMA Test1_2KeepsIInv ==
  ASSUME IInv, HandlerFrame, NEW r, r = NoResponse \/ Genuine(r), HandleTest1_2(r)
  PROVE  IInv'
<1>1. /\ phase = "Test1_2" /\ \A c \in contacts : c.to \in {Server, changed}
      /\ request.to = changed /\ Translating
      /\ remote1 = Server /\ mapped1 = External(behavior, port, Server)
      /\ changed \in ServerEp /\ changed.ip # Server.ip
      /\ UNCHANGED <<remote1, mapped1, changed, behavior, bind, port, contacts>>
  BY DEF HandleTest1_2, IInv, AskedSoFar, Learnt, Plain, HandlerFrame, rigidVars
<1>2. Translating' = Translating /\ SeenMapping' = SeenMapping
  BY <1>1 DEF Translating, SeenMapping
<1>3. public \in ClientEp \cup {NoEp} /\ behavior.mapping \in Dependence \cup {"Direct"}
  BY DEF IInv, TypeOK, PathTypeOK, NatBehavior
<1>4. r # NoResponse /\ r.mapped # NoEp => r.mapped = External(behavior, port, changed)
  BY <1>1 DEF Genuine, MappedAddress
<1>5. r # NoResponse => r.mapped \in ClientEp \cup {NoEp}
  BY DEF Genuine, Response
<1>6. ASSUME NEW type \in {"Unknown", "UnsupportedServer", "Symmetric"},
             NEW e \in ClientEp \cup {NoEp}, Conclude(type, e),
             type = "Symmetric" =>
               behavior.mapping \in {"AddressDependent", "AddressAndPortDependent"}
      PROVE  IInv'
  <2>1. PositiveVerdictsSound'
    BY <1>1, <1>6 DEF Conclude, PositiveVerdictsSound
  <2> QED BY <1>1, <1>6, <2>1, ConcludeKeepsIInv DEF NatType, IInv, TypeOK
<1>7. CASE r = NoResponse
  BY <1>3, <1>6, <1>7 DEF HandleTest1_2, MappedIn
<1>8. CASE r # NoResponse /\ r.mapped = NoEp
  BY <1>3, <1>6, <1>8 DEF HandleTest1_2, MappedIn
<1>9. CASE r # NoResponse /\ r.mapped \notin {NoEp, mapped1}
  <2>1. Conclude("Symmetric", r.mapped)
    BY <1>9 DEF HandleTest1_2, MappedIn
  <2>2. behavior.mapping \in {"AddressDependent", "AddressAndPortDependent"}
    BY <1>1, <1>3, <1>4, <1>9, InOrder, OneMapping DEF Dependence
  <2> QED BY <1>5, <1>6, <1>9, <2>1, <2>2
<1>10. CASE r # NoResponse /\ r.mapped # NoEp /\ r.mapped = mapped1
  <2>1. Proceed("Test3", Changed(Server, ChangePort)) /\ UNCHANGED public
    BY <1>10 DEF HandleTest1_2, MappedIn
  <2>2. Changed(Server, ChangePort) \in Request
    BY ServerType, ChangedType
  <2>3. /\ TypeOK' /\ NetworkInv' /\ PositiveVerdictsSound'
        /\ phase' = "Test3" /\ request' = Changed(Server, ChangePort)
        /\ natType' = "Unknown" /\ request' # NoRequest
    BY <1>1, <2>1, <2>2, ProceedKeepsIInv DEF Phase, IInv, TypeOK
  <2>4. AskedSoFar'
    BY <1>1, <2>3 DEF AskedSoFar, Changed, ChangePort, Server, NodeEp, NodeIp, NodePort
  <2>5. SeenMapping = "EndpointIndependent"
    BY <1>1, <1>4, <1>10, InOrder, OneMapping DEF SeenMapping
  <2>6. Learnt'
    BY <1>1, <1>2, <2>3, <2>5
    DEF Learnt, External, Class, Local, ServerEp, Server, NodeEp, NodeIp, NodePort
  <2> QED BY <2>3, <2>4, <2>6 DEF IInv
<1> QED BY <1>7, <1>8, <1>9, <1>10

LEMMA Test3KeepsIInv ==
  ASSUME IInv, HandlerFrame, NEW r, r = NoResponse \/ Genuine(r), HandleTest3(r)
  PROVE  IInv'
<1>1. /\ phase = "Test3" /\ \A c \in contacts : c.to \in {Server, changed}
      /\ SeenMapping = "EndpointIndependent" /\ remote1 = Server
      /\ changed.ip # Server.ip /\ mapped1 \in ClientEp \cup {NoEp}
      /\ UNCHANGED <<remote1, mapped1, changed, behavior, bind>>
  BY DEF HandleTest3, IInv, TypeOK, AskedSoFar, Learnt, HandlerFrame, rigidVars
<1>2. SeenMapping' = SeenMapping
  BY <1>1 DEF Translating, SeenMapping
<1>3. ASSUME NEW type \in {"RestrictedCone", "PortRestrictedCone"},
             NEW e \in ClientEp \cup {NoEp}, Conclude(type, e),
             type = "RestrictedCone" => behavior.filtering # "AddressAndPortDependent"
      PROVE  IInv'
  <2>1. PositiveVerdictsSound'
    BY <1>1, <1>2, <1>3 DEF Conclude, PositiveVerdictsSound
  <2> QED BY <1>1, <1>3, <2>1, ConcludeKeepsIInv DEF NatType, IInv, TypeOK
<1>4. CASE Conclude("PortRestrictedCone", mapped1)
  BY <1>1, <1>3, <1>4
<1>5. CASE /\ MappedIn(r) # NoEp /\ r.remote.ip = Server.ip /\ r.remote.port # Server.port
           /\ Conclude("RestrictedCone", r.mapped)
  <2>1. r # NoResponse /\ Genuine(r) /\ r.mapped \in ClientEp \cup {NoEp}
    BY <1>5 DEF MappedIn, Genuine, Response
  <2>2. behavior.filtering # "AddressAndPortDependent"
    BY <1>1, <1>5, <2>1, InOrder, LetIn
  <2> QED BY <1>3, <1>5, <2>1, <2>2
<1> QED BY <1>1, <1>4, <1>5 DEF HandleTest3, SameAddress

LEMMA HandlerKeepsIInv ==
  ASSUME IInv, HandlerFrame, NEW r, r = NoResponse \/ Genuine(r), GotResponse(r)
  PROVE  IInv'
BY Test1KeepsIInv, Test2KeepsIInv, Test1_2KeepsIInv, Test3KeepsIInv DEF GotResponse

-----------------------------------------------------------------------------
(* The verdict where nothing is lost. *)

\* What the server of this repository answers from, and what it names as its
\* other address, when it is asked at Server.
LEMMA OwnAnswers ==
  ASSUME deployment = "own", NEW r, Genuine(r), request.to = Server
  PROVE  /\ request.change = NoChange => /\ r.remote = Server
                                       /\ r.other # NoEp
                                       /\ r.other.ip # Server.ip /\ r.other.port # Server.port
         /\ request.change = ChangeBoth =>
              r.remote.ip # Server.ip /\ r.remote.port # Server.port
         /\ request.change = ChangePort =>
              r.remote.ip = Server.ip /\ r.remote.port # Server.port
<1>1. PICK rx \in ReceivingNodes("own", Server) :
        /\ r.remote = ReplySource("own", rx, request.change)
        /\ r.other = OtherAddress("own", rx)
  BY DEF Genuine
<1>2. rx \in Node /\ NodeEp(rx) = Server
  BY <1>1, ServerType, OwnNodeAsked
<1>3. NodeIp(rx) = Server.ip /\ NodePort(rx) = Server.port
  BY <1>2 DEF NodeEp
<1>4. /\ OtherNode(rx) \in Node
      /\ NodeIp(OtherNode(rx)) # Server.ip /\ NodePort(OtherNode(rx)) # Server.port
  BY <1>2, <1>3, OtherNodeDiffers
<1>5. r.other = NodeEp(OtherNode(rx)) /\ NodeEp(OtherNode(rx)) # NoEp
  BY <1>1, <1>4, NodeEpType, TwoByTwo DEF OtherAddress, NodeEp
<1>6. r.remote = NodeEp(ReplyNode(rx, request.change))
  BY <1>1 DEF ReplySource, NodeEp
<1> QED BY <1>2, <1>3, <1>4, <1>5, <1>6, ReplyNodes DEF NodeEp

\* This repository's server always tells the mapped address.
LEMMA OwnAnswersMapped ==
  ASSUME PathTypeOK, deployment = "own", request # NoRequest, NEW r, Genuine(r)
  PROVE  r.mapped = External(behavior, port, request.to) /\ r.mapped # NoEp
<1>1. request.to \in ServerEp /\ behavior \in NatBehavior /\ port \in LocalPorts
  BY DEF PathTypeOK, Request
<1> QED BY <1>1, ExternalType DEF Genuine, MappedAddress

\* Silence where a request with CHANGE-REQUEST was due an answer tells what the
\* filter does; a plain request is never met by it.
LEMMA WhatSilenceTells ==
  ASSUME IInv, request # NoRequest, deployment = "own", Refused
  PROVE  /\ phase \in {"Test2", "Test3"}
         /\ phase = "Test2" => behavior.filtering # "EndpointIndependent"
         /\ phase = "Test3" => behavior.filtering = "AddressAndPortDependent"
<1>1. PathTypeOK /\ AskedSoFar /\ Server \in ServerEp /\ phase \in Phase
  BY ServerType DEF IInv, TypeOK
<1>2. phase = "Test1_2" => changed \in ServerEp
  BY DEF IInv, Learnt
<1>3. phase \notin {"Test1", "Test1_2", "Done"}
  BY <1>1, <1>2, PlainIsAnswered DEF AskedSoFar
<1> QED BY <1>1, <1>3, RefusalTells DEF AskedSoFar, Phase

LEMMA HandlerKeepsTimely ==
  ASSUME IInv, IInv', TimelyInv, HandlerFrame, NEW r, GotResponse(r),
         r # NoResponse => Genuine(r), r = NoResponse => Silence
  PROVE  TimelyInv'
<1>1. /\ UNCHANGED rigidVars /\ port' = port /\ request # NoRequest
      /\ Translating' = Translating /\ SeenMapping' = SeenMapping /\ Taxonomy' = Taxonomy
  BY DEF HandlerFrame, rigidVars, Translating, SeenMapping, Taxonomy
<1> SUFFICES ASSUME timely, deployment = "own" PROVE TimelyInv'
  BY <1>1 DEF TimelyInv, TimelyTestIsExact, rigidVars
<1>2. /\ PathTypeOK /\ behavior.filtering \in Dependence
      /\ behavior.mapping \in Dependence \cup {"Direct"}
  BY DEF IInv, TypeOK, PathTypeOK, NatBehavior
<1>3. r = NoResponse =>
        /\ phase \in {"Test2", "Test3"}
        /\ phase = "Test2" => behavior.filtering # "EndpointIndependent"
        /\ phase = "Test3" => behavior.filtering = "AddressAndPortDependent"
  BY <1>1, WhatSilenceTells DEF Silence
<1>4. r # NoResponse => MappedIn(r) = r.mapped /\ r.mapped # NoEp
  BY <1>1, <1>2, OwnAnswersMapped DEF MappedIn
<1>5. ASSUME phase' = "Done", natType' = Taxonomy PROVE TimelyInv'
  BY <1>1, <1>5 DEF TimelyInv, TimelyTestIsExact
<1>6. CASE HandleTest1(r)
  <2>1. /\ r # NoResponse /\ request.to = Server /\ request.change = NoChange
    BY <1>3, <1>6 DEF HandleTest1, IInv, AskedSoFar, Plain
  <2>2. /\ r.remote = Server /\ r.other # NoEp /\ r.mapped # NoEp
        /\ r.other.ip # Server.ip /\ r.other.port # Server.port
    BY <1>4, <2>1, OwnAnswers
  <2>3. phase' = "Test2"
    BY <1>6, <2>1, <2>2 DEF HandleTest1, SameAddress, Proceed
  <2> QED BY <2>3 DEF TimelyInv, TimelyTestIsExact
<1>7. CASE HandleTest2(r)
  <2>1. /\ phase = "Test2" /\ request.to = Server /\ request.change = ChangeBoth
        /\ remote1 = Server /\ mapped1 = External(behavior, port, Server)
        /\ \A c \in contacts : c.to = Server
    BY <1>7 DEF HandleTest2, IInv, AskedSoFar, Learnt, Changed
  <2>2. mapped1 = SocketLocalEndpoint <=> ~ Translating
    BY <1>2, <2>1, OwnEndpoint
  <2>3. CASE r # NoResponse
    <3>1. r.remote.ip # Server.ip /\ r.remote.port # Server.port
      BY <2>1, <2>3, OwnAnswers
    <3>2. behavior.filtering = "EndpointIndependent"
      BY <1>2, <2>1, <2>3, <3>1, LetIn
    <3>3. phase' = "Done" /\ natType' = IF Translating THEN "FullCone" ELSE "OpenInternet"
      BY <1>7, <2>1, <2>2, <2>3, <3>1
      DEF HandleTest2, FromSameSide, SameAddress, Conclude
    <3> QED BY <1>5, <3>2, <3>3 DEF Taxonomy
  <2>4. CASE r = NoResponse /\ ~ Translating
    <3>1. phase' = "Done" /\ natType' = "SymmetricUdpFirewall"
      BY <1>7, <2>2, <2>4 DEF HandleTest2, Conclude
    <3> QED BY <1>3, <1>5, <2>1, <2>4, <3>1 DEF Taxonomy
  <2>5. CASE r = NoResponse /\ Translating
    <3>1. phase' = "Test1_2"
      BY <1>7, <2>2, <2>5 DEF HandleTest2, Proceed
    <3> QED BY <1>1, <1>3, <2>1, <2>5, <3>1 DEF TimelyInv, TimelyTestIsExact, rigidVars
  <2> QED BY <2>3, <2>4, <2>5
<1>8. CASE HandleTest1_2(r)
  <2>1. /\ phase = "Test1_2" /\ request.to = changed /\ Translating
        /\ mapped1 = External(behavior, port, Server)
        /\ changed \in ServerEp /\ changed.ip # Server.ip
        /\ behavior.filtering # "EndpointIndependent"
    BY <1>8 DEF HandleTest1_2, IInv, AskedSoFar, Learnt, Plain, TimelyInv
  <2>2. r # NoResponse /\ r.mapped = External(behavior, port, changed) /\ MappedIn(r) = r.mapped
    BY <1>1, <1>2, <1>3, <1>4, <2>1, OwnAnswersMapped
  <2>3. CASE r.mapped # mapped1
    <3>1. phase' = "Done" /\ natType' = "Symmetric"
      BY <1>4, <1>8, <2>2, <2>3 DEF HandleTest1_2, Conclude
    <3>2. behavior.mapping \notin {"Direct", "EndpointIndependent"}
      BY <1>2, <2>1, <2>2, <2>3, OneMapping
    <3>3. SeenMapping # "EndpointIndependent"
      BY <3>2 DEF SeenMapping
    <3> QED BY <1>5, <2>1, <3>1, <3>3 DEF Taxonomy
  <2>4. CASE r.mapped = mapped1
    <3>1. phase' = "Test3"
      BY <1>4, <1>8, <2>2, <2>4 DEF HandleTest1_2, Proceed
    <3> QED BY <1>1, <2>1, <3>1 DEF TimelyInv, TimelyTestIsExact, rigidVars
  <2> QED BY <2>3, <2>4
<1>9. CASE HandleTest3(r)
  <2>1. /\ phase = "Test3" /\ request.to = Server /\ request.change = ChangePort
        /\ Translating /\ SeenMapping = "EndpointIndependent"
        /\ remote1 = Server /\ changed.ip # Server.ip
        /\ \A c \in contacts : c.to \in {Server, changed}
        /\ behavior.filtering # "EndpointIndependent"
    BY <1>9 DEF HandleTest3, IInv, AskedSoFar, Learnt, Changed, TimelyInv
  <2>2. CASE r = NoResponse
    <3>1. phase' = "Done" /\ natType' = "PortRestrictedCone"
      BY <1>9, <2>2 DEF HandleTest3, MappedIn, Conclude
    <3> QED BY <1>3, <1>5, <2>1, <2>2, <3>1 DEF Taxonomy
  <2>3. CASE r # NoResponse
    <3>1. r.remote.ip = Server.ip /\ r.remote.port # Server.port
      BY <2>1, <2>3, OwnAnswers
    <3>2. behavior.filtering # "AddressAndPortDependent"
      BY <1>2, <2>1, <2>3, <3>1, LetIn
    <3>3. phase' = "Done" /\ natType' = "RestrictedCone"
      BY <1>4, <1>9, <2>1, <2>3, <3>1 DEF HandleTest3, SameAddress, Conclude
    <3>4. behavior.filtering = "AddressDependent"
      BY <1>2, <2>1, <3>2 DEF Dependence
    <3> QED BY <1>5, <2>1, <3>3, <3>4 DEF Taxonomy
  <2> QED BY <2>2, <2>3
<1> QED BY <1>6, <1>7, <1>8, <1>9 DEF GotResponse

-----------------------------------------------------------------------------
(* Every step. *)

LEMMA HandlerAsksAnew == ASSUME NEW r, GotResponse(r) PROVE sends' = 0
BY DEF GotResponse, HandleTest1, HandleTest2, HandleTest1_2, HandleTest3, Conclude, Proceed,
       Ask, AskNothing

\* Every step keeps the invariant, and what is learnt in time.
LEMMA StepKeepsIInv ==
  ASSUME IInv, [Next]_vars
  PROVE  IInv' /\ (AnswerComes => AnswerComes') /\ (AnswerComes /\ TimelyInv => TimelyInv')
<1>1. ASSUME NEW r, r = NoResponse \/ Genuine(r), HandlerFrame, GotResponse(r),
             AnswerComes /\ r = NoResponse => Silence
      PROVE  IInv' /\ AnswerComes' /\ (AnswerComes /\ TimelyInv => TimelyInv')
  <2>1. IInv' /\ AnswerComes'
    BY <1>1, HandlerKeepsIInv, HandlerAsksAnew, AnswersStartAnew
  <2> QED BY <1>1, <2>1, HandlerKeepsTimely
<1>2. CASE Answered
  <2>1. PICK m \in network : Accept(m) /\ GotResponse(ResponseOf(m))
    BY <1>2 DEF Answered
  <2>2. Genuine(ResponseOf(m)) /\ HandlerFrame
    BY <2>1, InOrder, AcceptedIsGenuine
  <2>3. ResponseOf(m) # NoResponse
    BY <2>2, Sentinels DEF Genuine
  <2> QED BY <1>1, <2>1, <2>2, <2>3
<1>3. CASE Unanswered
  <2>1. HandlerFrame
    BY <1>3 DEF Unanswered, Expire, HandlerFrame
  <2>2. AnswerComes => Silence
    BY <1>3, InOrder, ExpiryIsSilence DEF Unanswered
  <2> QED BY <1>1, <1>3, <2>1, <2>2 DEF Unanswered
<1>4. CASE Path \/ UNCHANGED vars
  <2>1. (PathStep \/ UNCHANGED pathVars) /\ UNCHANGED fsmVars
    BY <1>4 DEF Path, vars
  <2>2. IInv' /\ (AnswerComes => AnswerComes')
    BY <2>1, PathKeepsIInv, InOrder, PathKeepsAnswers
  <2>3. UNCHANGED rigidVars
    BY <2>1, InOrder, PathKeeps
  <2>4. TimelyInv => TimelyInv'
    BY <2>1, <2>3
    DEF TimelyInv, TimelyTestIsExact, Taxonomy, SeenMapping, Translating, fsmVars, rigidVars
  <2> QED BY <2>2, <2>4
<1> QED BY <1>2, <1>3, <1>4 DEF Next, Over

-----------------------------------------------------------------------------
(* The theorems. *)

\* Every test of run_rfc3489_test asks what it is meant to, and has learnt what
\* the next one builds on, whatever answers and whatever does not.
THEOREM Invariance == Spec => []IInv
<1>1. IInv /\ [Next]_vars => IInv'
  BY StepKeepsIInv
<1> QED BY <1>1, InitEstablishesIInv, PTL DEF Spec

\* A NAT type that rests on an answer is true of the NAT.
THEOREM VerdictsSoundness == Spec => []PositiveVerdictsSound
<1>1. IInv => PositiveVerdictsSound
  BY DEF IInv
<1> QED BY <1>1, Invariance, PTL

\* Where nothing is lost, the finished discovery has found the type that the
\* classic taxonomy gives the NAT: whatever is not answered was refused by the
\* filter.
THEOREM TimelyExactness == Spec => []TimelyTestIsExact
<1> DEFINE Inv == IInv /\ AnswerComes /\ TimelyInv
<1>1. Init => Inv
  <2>1. Init => AnswerComes
    BY PlainType, ServerType, AnswersStart DEF Init
  <2>2. Init => TimelyInv
    BY DEF Init, TimelyInv, TimelyTestIsExact
  <2> QED BY <2>1, <2>2, InitEstablishesIInv
<1>2. Inv /\ [Next]_vars => Inv'
  BY StepKeepsIInv
<1>3. Inv => TimelyTestIsExact
  BY DEF TimelyInv
<1> QED BY <1>1, <1>2, <1>3, PTL DEF Spec
=============================================================================
