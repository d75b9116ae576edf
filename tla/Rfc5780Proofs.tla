--------------------------- MODULE Rfc5780Proofs ---------------------------
(***************************************************************************)
(* Proofs about Rfc5780, Rfc5780Transports and Rfc4787, for every NAT      *)
(* behaviour, server deployment, bound on retransmission, network          *)
(* guarantee, length of a message and sequence of runs.                    *)
(***************************************************************************)
EXTENDS Rfc5780Transports, Rfc4787, StunPathProofs

-----------------------------------------------------------------------------
(* The initial states, and the steps of the path. *)

LEMMA ServerType == Server \in ServerEp
<1>1. 0 \in Node
  BY DEF Node
<1> QED BY <1>1, NodeEpType DEF Server

LEMMA InOrder == RunInv => PathTypeOK /\ NetworkInv
BY DEF RunInv, TypeOK

LEMMA InitEstablishesIInv == Init => IInv
<1> SUFFICES ASSUME Init PROVE IInv
  OBVIOUS
<1>1. PathInit(Plain(Server)) /\ phase = "BindingTest" /\ scope \in Scope
      /\ binding = "Unknown" /\ filtering = "Unknown" /\ mapping = "Unknown"
      /\ public = NoEp /\ other = NoEp /\ public2 = NoEp
  BY ScopesAssumption DEF Init, Begin
<1>2. PathTypeOK /\ NetworkInv
  BY <1>1, PlainType, ServerType, PathStarts
<1>3. TypeOK
  BY <1>1, <1>2 DEF TypeOK, Phase, BindingTestResult, FilteringBehavior, MappingBehavior
<1>4. PhaseInv
  BY <1>1, PlainType, ServerType DEF PathInit, PhaseInv
<1>5. FilterUndisturbed
  BY <1>1 DEF PathInit, FilterUndisturbed
<1>6. FilteringSound /\ MappingExact /\ OwnServerNeverBlamed
  BY <1>1 DEF FilteringSound, MappingExact, OwnServerNeverBlamed, MoreOpen, Misnamed, Dependence
<1> QED BY <1>2, <1>3, <1>4, <1>5, <1>6 DEF IInv, RunInv

LEMMA InitLearns == Init => AnswerComes /\ TimelyInv
<1>1. Init => AnswerComes
  BY PlainType, ServerType, AnswersStart DEF Init
<1>2. Init => TimelyInv
  BY DEF Init, Begin, TimelyInv, LearntInTime, TimelyTestIsExact
<1> QED BY <1>1, <1>2

\* What the path does by itself keeps the invariant: what it sends goes where
\* the phase's request does.
LEMMA PathKeepsRunInv ==
  ASSUME RunInv, PathStep \/ UNCHANGED pathVars, UNCHANGED fsmVars
  PROVE  RunInv'
<1>1. PathTypeOK' /\ NetworkInv' /\ UNCHANGED <<rigidVars, port, request>>
  BY PathKeeps, InOrder
<1>2. TypeOK'
  BY <1>1 DEF RunInv, TypeOK, fsmVars
<1>3. PhaseInv'
  BY <1>1 DEF RunInv, PhaseInv, fsmVars, rigidVars, AltTarget, SocketLocalEndpoint
<1>4. (MappingExact /\ OwnServerNeverBlamed)'
  BY <1>1 DEF RunInv, MappingExact, OwnServerNeverBlamed, fsmVars, rigidVars, Seen
<1> QED BY <1>1, <1>2, <1>3, <1>4 DEF RunInv

LEMMA PathKeepsFilter ==
  ASSUME RunInv, PathStep \/ UNCHANGED pathVars, UNCHANGED fsmVars
  PROVE  /\ FilterUndisturbed => FilterUndisturbed'
         /\ PortUndisturbed => PortUndisturbed'
         /\ FilteringSound => FilteringSound'
<1>1. /\ UNCHANGED <<rigidVars, port, request>>
      /\ \A c \in contacts' : c \in contacts \/ (request # NoRequest /\ c.to = request.to)
  BY PathKeeps, InOrder
<1>2. phase \in {"BindingTest", "FilteringTest2", "FilteringTest3"} => request.to = Server
  BY DEF RunInv, PhaseInv, Plain, Changed
<1>3. FilterUndisturbed => FilterUndisturbed'
  BY <1>1, <1>2 DEF FilterUndisturbed, fsmVars
<1>4. PortUndisturbed => PortUndisturbed'
  BY <1>1, <1>2 DEF PortUndisturbed, fsmVars
<1>5. FilteringSound => FilteringSound'
  BY <1>1 DEF FilteringSound, fsmVars, rigidVars
<1> QED BY <1>3, <1>4, <1>5

-----------------------------------------------------------------------------
(* The endpoints the test asks at. *)

LEMMA OtherTypes ==
  ASSUME NEW o \in ServerEp
  PROVE  /\ o \in [ip : {IP1, IP2}, port : {Port1, Port2}]
         /\ [ip |-> o.ip, port |-> Server.port] \in ServerEp
         /\ o # NoEp
<1>1. Server.port \in {Port1, Port2}
  BY ServerType DEF ServerEp
<1> QED BY <1>1, TwoByTwo DEF ServerEp

\* The second mapping request goes to the other address, so the two mappings it
\* and the first one show agree only if the NAT's mapping ignores the address
\* (or there is no NAT).
LEMMA AltTargetDiffers ==
  ASSUME NEW d \in Dependence, NEW o \in ServerEp, HasValidOtherAddress(o),
         Class(d, Server) = Class(d, [ip |-> o.ip, port |-> Server.port])
  PROVE  d = "EndpointIndependent"
<1>1. [ip |-> o.ip, port |-> Server.port] \in Class(d, [ip |-> o.ip, port |-> Server.port])
  BY OtherTypes, ClassContains
<1>2. o.ip # Server.ip
  BY DEF HasValidOtherAddress
<1> QED BY <1>1, <1>2 DEF Class, Dependence

\* The third differs from the second in the port alone.
LEMMA PortsTellApart ==
  ASSUME NEW d \in Dependence, NEW o \in ServerEp, HasValidOtherAddress(o)
  PROVE  LET alt == [ip |-> o.ip, port |-> Server.port]
         IN  /\ Class(d, alt) = Class(d, o) => d # "AddressAndPortDependent"
             /\ d # "AddressAndPortDependent" => Class(d, alt) = Class(d, o)
<1> DEFINE alt == [ip |-> o.ip, port |-> Server.port]
<1>1. o \in Class(d, o)
  BY ClassContains
<1>2. o.port # alt.port
  BY DEF HasValidOtherAddress
<1>3. Class(d, alt) = Class(d, o) => d # "AddressAndPortDependent"
  BY <1>1, <1>2 DEF Class
<1>4. d # "AddressAndPortDependent" => Class(d, alt) = Class(d, o)
  BY DEF Class, Dependence
<1> QED BY <1>3, <1>4

\* The server of this repository receives on the node it was asked at.
LEMMA OwnNode ==
  ASSUME NEW rx \in ReceivingNodes("own", Server)
  PROVE  rx = 0
<1>1. rx \in {0, 1, 2, 3}
  BY DEF ReceivingNodes, Node
<1> QED BY <1>1, TwoByTwo, SMT DEF ReceivingNodes, Server, NodeEp, NodeIp, NodePort

-----------------------------------------------------------------------------
(* The handlers keep the invariant. *)

\* Once the filtering verdict is in (or was not asked for), the mapping test
\* starts, or is over at once because there is no NAT.
LEMMA MappingOrDoneKeeps ==
  ASSUME RunInv, HandlerFrame, MappingOrDone(public', other'),
         phase # "Done", other' \in ServerEp, HasValidOtherAddress(other'),
         deployment = "own" => other' = NodeEp(3),
         public' = External(behavior, port, Server)
  PROVE  /\ PathTypeOK' /\ NetworkInv' /\ MappingExact'
         /\ mapping' \in {"Unknown", "Direct"}
         /\ \/ phase' = "Done" /\ request' = NoRequest
            \/ /\ phase' = "MappingTest2" /\ request' = Plain(AltTarget)'
               /\ request' # NoRequest /\ mapping' = "Unknown"
               /\ public' # SocketLocalEndpoint'
<1> DEFINE alt == [ip |-> other'.ip, port |-> Server.port]
<1>1. alt \in ServerEp
  BY OtherTypes
<1>2. Plain(alt) \in Request /\ Plain(alt) # NoRequest
  BY <1>1, PlainType
<1>3. mapping = "Unknown"
  BY DEF RunInv, PhaseInv
<1>4. behavior' = behavior /\ bind' = bind /\ port' = port
  BY DEF HandlerFrame, rigidVars
<1>5. SocketLocalEndpoint' = SocketLocalEndpoint
  BY <1>4 DEF SocketLocalEndpoint
<1>6. behavior \in NatBehavior /\ port \in LocalPorts /\ bind \in Bind
  BY DEF RunInv, TypeOK, PathTypeOK
<1>7. CASE public' = SocketLocalEndpoint
  <2>1. mapping' = "Direct" /\ phase' = "Done" /\ AskNothing
    BY <1>7 DEF MappingOrDone, Finish
  <2>2. External(behavior, port, Server).ip \in {ClientIp, NatIp}
    BY <1>6, ServerType, ExternalType DEF ClientEp
  <2>3. bind = "address"
    BY <1>6, <1>7, <2>2, TwoSides DEF SocketLocalEndpoint, Local, Bind
  <2>4. behavior.mapping = "Direct"
    BY <1>7, <2>3, TwoSides DEF SocketLocalEndpoint, Local, External
  <2>5. MappingExact'
    BY <1>4, <2>1, <2>3, <2>4 DEF MappingExact, Misnamed, Seen
  <2> QED BY <2>1, <2>5, InOrder, NextExchange DEF AskNothing
<1>8. CASE public' # SocketLocalEndpoint
  <2>1. phase' = "MappingTest2" /\ Ask(Plain(alt)) /\ mapping' = mapping
    BY <1>8 DEF MappingOrDone
  <2>2. request' = Plain(AltTarget)'
    BY <2>1 DEF Ask, AltTarget, Server, Plain, NodeEp, NodeIp, NodePort
  <2>3. MappingExact'
    BY <1>3, <2>1 DEF MappingExact, Misnamed, Dependence
  <2>4. PathTypeOK' /\ NetworkInv'
    BY <1>2, <2>1, InOrder, NextExchange
  <2> QED BY <1>2, <1>3, <1>5, <1>8, <2>1, <2>2, <2>3, <2>4 DEF Ask
<1> QED BY <1>7, <1>8

\* When the test is over only the verdicts remain to be true.
LEMMA OverKeeps ==
  ASSUME TypeOK', NetworkInv', phase' = "Done", request' = NoRequest,
         MappingExact', OwnServerNeverBlamed'
  PROVE  RunInv'
BY DEF RunInv, PhaseInv

\* What an answer says, whatever it has come by.  The handlers that compare
\* mappings look at nothing else.
Tells(r) ==
  /\ r \in Response
  /\ \E rx \in ReceivingNodes(deployment, request.to) :
        /\ r.mapped = MappedAddress(deployment, External(behavior, port, request.to))
        /\ r.other  = OtherAddress(deployment, rx)

LEMMA GenuineTells == ASSUME NEW r, Genuine(r) PROVE Tells(r)
BY DEF Genuine, Tells

LEMMA BindingKeepsRunInv ==
  ASSUME RunInv, HandlerFrame, NEW r, r = NoResponse \/ Tells(r), HandleBindingTest(r)
  PROVE  RunInv'
<1>1. /\ phase = "BindingTest" /\ request = Plain(Server) /\ request.to = Server
      /\ filtering = "Unknown" /\ mapping = "Unknown" /\ scope' = scope /\ public2' = public2
      /\ behavior' = behavior /\ deployment' = deployment /\ bind' = bind
      /\ port' = port /\ contacts' = contacts
  BY DEF HandleBindingTest, RunInv, PhaseInv, Plain, HandlerFrame, rigidVars
<1>2. behavior \in NatBehavior /\ port \in LocalPorts /\ deployment \in Deployment
  BY DEF RunInv, TypeOK, PathTypeOK
<1>3. public' \in ClientEp \cup {NoEp} /\ other' \in ServerEp \cup {NoEp}
  BY Sentinels DEF HandleBindingTest, MappedIn, OtherIn, Tells, Response
<1>4. binding' \in BindingTestResult
  BY DEF HandleBindingTest, BindingTestResult
<1>5. r # NoResponse => \E rx \in ReceivingNodes(deployment, Server) :
         /\ r.mapped = MappedAddress(deployment, External(behavior, port, Server))
         /\ r.other = OtherAddress(deployment, rx)
  BY <1>1 DEF Tells
<1>6. binding' = "Success" => public' = External(behavior, port, Server)
  BY <1>5 DEF HandleBindingTest, MappedIn, MappedAddress
<1>7. deployment = "own" => binding' # "UnsupportedServer"
  BY <1>2, <1>5, ServerType, ExternalType DEF HandleBindingTest, MappedAddress
<1>8. deployment = "own" /\ binding' = "Success" =>
         other' = NodeEp(3) /\ HasValidOtherAddress(other')
  <2> SUFFICES ASSUME deployment = "own", binding' = "Success"
               PROVE  other' = NodeEp(3) /\ HasValidOtherAddress(other')
    OBVIOUS
  <2>1. r # NoResponse /\ other' = r.other
    BY DEF HandleBindingTest, OtherIn
  <2>2. r.other = OtherAddress("own", 0)
    BY <1>5, <2>1, OwnNode
  <2>3. OtherNode(0) = 3
    BY SMT DEF OtherNode
  <2>4. other' = NodeEp(3)
    BY <2>1, <2>2, <2>3 DEF OtherAddress, NodeEp
  <2>5. 0 \in Node /\ 3 \in Node
    BY DEF Node
  <2>6. NodeIp(3) # NodeIp(0) /\ NodePort(3) # NodePort(0)
    BY <2>3, <2>5, OtherNodeDiffers
  <2>7. NodeEp(3) # NoEp
    BY <2>5, NodeEpType, TwoByTwo
  <2> QED BY <2>4, <2>6, <2>7 DEF HasValidOtherAddress, Server, NodeEp
<1>9. CASE /\ scope = "BindingOnly" \/ binding' # "Success"
           /\ Finish
           /\ UNCHANGED <<filtering, mapping>>
  <2>1. PathTypeOK' /\ NetworkInv' /\ phase' = "Done" /\ request' = NoRequest
    BY <1>9, InOrder, NextExchange DEF Finish, AskNothing
  <2>2. TypeOK'
    BY <1>1, <1>3, <1>4, <1>9, <2>1 DEF TypeOK, RunInv, Phase
  <2>3. MappingExact'
    BY <1>1, <1>9 DEF MappingExact, Misnamed, Dependence
  <2>4. OwnServerNeverBlamed'
    BY <1>1, <1>7, <1>9 DEF OwnServerNeverBlamed
  <2> QED BY <2>1, <2>2, <2>3, <2>4, OverKeeps
<1>10. CASE /\ binding' = "Success" /\ ~ HasValidOtherAddress(other')
            /\ filtering' = IF scope = "Mapping" THEN filtering ELSE "UnsupportedServer"
            /\ mapping' = IF scope = "Mapping" THEN "UnsupportedServer" ELSE mapping
            /\ Finish
  <2>1. PathTypeOK' /\ NetworkInv' /\ phase' = "Done" /\ request' = NoRequest
    BY <1>10, InOrder, NextExchange DEF Finish, AskNothing
  <2>2. filtering' \in {"Unknown", "UnsupportedServer"} /\ mapping' \in {"Unknown", "UnsupportedServer"}
    BY <1>1, <1>10
  <2>3. TypeOK'
    BY <1>1, <1>3, <1>4, <2>1, <2>2
    DEF TypeOK, RunInv, Phase, FilteringBehavior, MappingBehavior
  <2>4. MappingExact'
    BY <2>2 DEF MappingExact, Misnamed, Dependence
  <2>5. OwnServerNeverBlamed'
    BY <1>1, <1>8, <1>10 DEF OwnServerNeverBlamed
  <2> QED BY <2>1, <2>3, <2>4, <2>5, OverKeeps
<1>11. CASE /\ binding' = "Success" /\ HasValidOtherAddress(other')
            /\ AskFilteringTest2 /\ UNCHANGED <<filtering, mapping>>
  <2>1. phase' = "FilteringTest2" /\ request' = Changed(Server, ChangeBoth)
    BY <1>11 DEF AskFilteringTest2, Ask
  <2>2. Changed(Server, ChangeBoth) \in Request /\ Changed(Server, ChangeBoth) # NoRequest
    BY ServerType, ChangedType
  <2>3. PathTypeOK' /\ NetworkInv'
    BY <1>11, <2>2, InOrder, NextExchange DEF AskFilteringTest2
  <2>4. TypeOK'
    BY <1>1, <1>3, <1>4, <1>11, <2>1, <2>3 DEF TypeOK, RunInv, Phase
  <2>5. PhaseInv'
    BY <1>1, <1>6, <1>8, <1>11, <2>1, <2>2
    DEF PhaseInv, HasValidOtherAddress, Server, NodeEp, NodeIp, NodePort,
        External, Class, Local, ServerEp, Changed, ChangeBoth
  <2>6. MappingExact'
    BY <1>1, <1>11 DEF MappingExact, Misnamed, Dependence
  <2>7. OwnServerNeverBlamed'
    BY <1>1, <1>11 DEF OwnServerNeverBlamed
  <2> QED BY <2>3, <2>4, <2>5, <2>6, <2>7 DEF RunInv
<1>12. CASE /\ binding' = "Success" /\ HasValidOtherAddress(other')
            /\ MappingOrDone(public', other') /\ UNCHANGED filtering
  <2>1. other' \in ServerEp
    BY <1>3, <1>12 DEF HasValidOtherAddress
  <2>2. /\ PathTypeOK' /\ NetworkInv' /\ MappingExact'
        /\ mapping' \in {"Unknown", "Direct"}
        /\ \/ phase' = "Done" /\ request' = NoRequest
           \/ /\ phase' = "MappingTest2" /\ request' = Plain(AltTarget)'
              /\ request' # NoRequest /\ mapping' = "Unknown"
              /\ public' # SocketLocalEndpoint'
    BY <1>1, <1>6, <1>8, <1>12, <2>1, MappingOrDoneKeeps
  <2>3. TypeOK'
    BY <1>1, <1>3, <1>4, <1>12, <2>2
    DEF TypeOK, RunInv, Phase, FilteringBehavior, MappingBehavior
  <2>4. PhaseInv'
    BY <1>1, <1>6, <1>8, <1>12, <2>2
    DEF PhaseInv, HasValidOtherAddress, Server, NodeEp, NodeIp, NodePort,
        External, Class, Local, ServerEp
  <2>5. OwnServerNeverBlamed'
    BY <1>1, <1>12, <2>2 DEF OwnServerNeverBlamed
  <2> QED BY <2>2, <2>3, <2>4, <2>5 DEF RunInv
<1> QED BY <1>9, <1>10, <1>11, <1>12 DEF HandleBindingTest

\* What AfterFiltering does once a filtering verdict is in: the three handlers'
\* common tail.  It is given a verdict the server bears out.
LEMMA AfterFilteringKeepsRunInv ==
  ASSUME RunInv, HandlerFrame, AfterFiltering,
         phase \in {"FilteringTest2", "FilteringTest3"},
         UNCHANGED <<scope, binding, public, other, public2>>,
         filtering' \in FilteringBehavior,
         deployment = "own" => filtering' # "UnsupportedServer"
  PROVE  RunInv'
<1>1. /\ phase # "Done" /\ mapping = "Unknown"
      /\ public' = External(behavior, port, Server)
      /\ other' \in ServerEp /\ HasValidOtherAddress(other')
      /\ (deployment = "own" => other' = NodeEp(3))
      /\ behavior' = behavior /\ deployment' = deployment /\ bind' = bind
      /\ port' = port /\ contacts' = contacts
  BY DEF RunInv, PhaseInv, TypeOK, HandlerFrame, rigidVars, HasValidOtherAddress
<1>2. CASE MappingOrDone(public, other)
  <2>0. MappingOrDone(public', other')
    BY <1>2
  <2>1. /\ PathTypeOK' /\ NetworkInv' /\ MappingExact'
        /\ mapping' \in {"Unknown", "Direct"}
        /\ \/ phase' = "Done" /\ request' = NoRequest
           \/ /\ phase' = "MappingTest2" /\ request' = Plain(AltTarget)'
              /\ request' # NoRequest /\ mapping' = "Unknown"
              /\ public' # SocketLocalEndpoint'
    BY <1>1, <2>0, MappingOrDoneKeeps
  <2>2. TypeOK'
    BY <1>1, <2>1 DEF TypeOK, RunInv, Phase, MappingBehavior
  <2>3. PhaseInv'
    BY <1>1, <2>1
    DEF PhaseInv, HasValidOtherAddress, Server, NodeEp, NodeIp, NodePort,
        External, Class, Local, ServerEp
  <2>4. OwnServerNeverBlamed'
    BY <1>1, <2>1 DEF RunInv, OwnServerNeverBlamed
  <2> QED BY <2>1, <2>2, <2>3, <2>4 DEF RunInv
<1>3. CASE Finish /\ UNCHANGED mapping
  <2>1. PathTypeOK' /\ NetworkInv' /\ phase' = "Done" /\ request' = NoRequest
    BY <1>3, InOrder, NextExchange DEF Finish, AskNothing
  <2>2. TypeOK'
    BY <1>1, <1>3, <2>1 DEF TypeOK, RunInv, Phase
  <2>3. MappingExact'
    BY <1>1, <1>3 DEF MappingExact, Misnamed, Dependence
  <2>4. OwnServerNeverBlamed'
    BY <1>1, <1>3 DEF RunInv, OwnServerNeverBlamed
  <2> QED BY <2>1, <2>2, <2>3, <2>4, OverKeeps
<1> QED BY <1>2, <1>3 DEF AfterFiltering

LEMMA FilteringTest2KeepsRunInv ==
  ASSUME RunInv, HandlerFrame, NEW r, r = NoResponse \/ Genuine(r), HandleFilteringTest2(r)
  PROVE  RunInv'
<1>1. /\ phase = "FilteringTest2" /\ mapping = "Unknown" /\ filtering = "Unknown"
      /\ request.to = Server /\ request.change = ChangeBoth
      /\ public = External(behavior, port, Server)
      /\ HasValidOtherAddress(other)
      /\ deployment = "own" => other = NodeEp(3)
      /\ UNCHANGED <<scope, binding, public, other, public2>>
      /\ behavior' = behavior /\ deployment' = deployment /\ bind' = bind
      /\ port' = port /\ contacts' = contacts
  BY DEF HandleFilteringTest2, RunInv, PhaseInv, Changed, HandlerFrame, rigidVars
<1>2. CASE r = NoResponse
  <2>1. /\ phase' = "FilteringTest3" /\ Ask(Changed(Server, ChangePort))
        /\ filtering' = "Unknown" /\ mapping' = "Unknown"
    BY <1>1, <1>2 DEF HandleFilteringTest2
  <2>2. Changed(Server, ChangePort) \in Request /\ Changed(Server, ChangePort) # NoRequest
    BY ServerType, ChangedType
  <2>3. PathTypeOK' /\ NetworkInv' /\ request' = Changed(Server, ChangePort)
    BY <2>1, <2>2, InOrder, NextExchange DEF Ask
  <2>4. TypeOK'
    BY <1>1, <2>1, <2>3 DEF TypeOK, RunInv, Phase, FilteringBehavior, MappingBehavior
  <2>5. PhaseInv'
    BY <1>1, <2>1, <2>2, <2>3
    DEF PhaseInv, HasValidOtherAddress, Server, NodeEp, NodeIp, NodePort,
        External, Class, Local, ServerEp, Changed, ChangePort
  <2>6. MappingExact'
    BY <2>1 DEF MappingExact, Misnamed, Dependence
  <2>7. OwnServerNeverBlamed'
    BY <1>1, <2>1 DEF RunInv, OwnServerNeverBlamed
  <2> QED BY <2>3, <2>4, <2>5, <2>6, <2>7 DEF RunInv
<1>3. CASE r # NoResponse
  <2>1. /\ Genuine(r) /\ AfterFiltering
        /\ filtering' = IF r.remote = other THEN "EndpointIndependent"
                                            ELSE "UnsupportedServer"
    BY <1>3 DEF HandleFilteringTest2
  <2>2. filtering' \in FilteringBehavior
    BY <2>1 DEF FilteringBehavior, Dependence
  <2>3. deployment = "own" => filtering' # "UnsupportedServer"
    <3> SUFFICES ASSUME deployment = "own" PROVE r.remote = other
      BY <2>1
    <3>1. r.remote = ReplySource("own", 0, ChangeBoth)
      BY <1>1, <2>1, OwnNode DEF Genuine
    <3>2. 0 \in Node
      BY DEF Node
    <3>3. ReplyNode(0, ChangeBoth) = 3
      BY <3>2, ReplyNodes, SMT DEF OtherNode
    <3> QED BY <1>1, <3>1, <3>3 DEF ReplySource, NodeEp
  <2> QED BY <1>1, <2>1, <2>2, <2>3, AfterFilteringKeepsRunInv
<1> QED BY <1>2, <1>3

LEMMA FilteringTest3KeepsRunInv ==
  ASSUME RunInv, HandlerFrame, NEW r, r = NoResponse \/ Genuine(r), HandleFilteringTest3(r)
  PROVE  RunInv'
<1>1. /\ phase = "FilteringTest3" /\ AfterFiltering
      /\ request.to = Server /\ request.change = ChangePort
      /\ UNCHANGED <<scope, binding, public, other, public2>>
      /\ filtering' = IF r = NoResponse THEN "AddressAndPortDependent"
                      ELSE IF r.remote.ip = Server.ip /\ r.remote.port # Server.port
                           THEN "AddressDependent" ELSE "UnsupportedServer"
      /\ behavior' = behavior
  BY DEF HandleFilteringTest3, RunInv, PhaseInv, Changed, HandlerFrame, rigidVars
<1>2. filtering' \in FilteringBehavior
  BY <1>1 DEF FilteringBehavior, Dependence
<1>3. deployment = "own" => filtering' # "UnsupportedServer"
  <2> SUFFICES ASSUME deployment = "own", r # NoResponse
               PROVE  r.remote.ip = Server.ip /\ r.remote.port # Server.port
    BY <1>1
  <2>1. r.remote = ReplySource("own", 0, ChangePort)
    BY <1>1, OwnNode DEF Genuine
  <2>2. 0 \in Node
    BY DEF Node
  <2> QED BY <2>1, <2>2, ReplyNodes DEF ReplySource, Server, NodeEp
<1> QED BY <1>1, <1>2, <1>3, AfterFilteringKeepsRunInv

LEMMA MappingTest2KeepsRunInv ==
  ASSUME RunInv, HandlerFrame, NEW r, r = NoResponse \/ Tells(r), HandleMappingTest2(r)
  PROVE  RunInv'
<1>1. /\ phase = "MappingTest2" /\ mapping = "Unknown" /\ request.to = AltTarget
      /\ public = External(behavior, port, Server) /\ public # SocketLocalEndpoint
      /\ HasValidOtherAddress(other) /\ other \in ServerEp
      /\ deployment = "own" => other = NodeEp(3)
      /\ UNCHANGED <<scope, binding, filtering, public, other>>
      /\ behavior' = behavior /\ deployment' = deployment /\ bind' = bind
      /\ port' = port /\ contacts' = contacts
  BY DEF HandleMappingTest2, RunInv, TypeOK, PhaseInv, Plain, HandlerFrame, rigidVars,
         HasValidOtherAddress
<1>2. /\ behavior \in NatBehavior /\ behavior.mapping \in Dependence \cup {"Direct"}
      /\ port \in LocalPorts /\ bind \in Bind /\ deployment \in Deployment
  BY DEF RunInv, TypeOK, PathTypeOK, NatBehavior
<1>3. AltTarget \in ServerEp
  BY <1>1, OtherTypes DEF AltTarget
<1>4. MappedIn(r) # NoEp => MappedIn(r) = External(behavior, port, AltTarget)
  BY <1>1 DEF MappedIn, Tells, MappedAddress
<1>5. MappedIn(r) \in ClientEp \cup {NoEp}
  BY <1>2, <1>3, <1>4, ExternalType
<1>6. deployment = "own" => MappedIn(r) # NoEp \/ r = NoResponse
  BY <1>1, <1>2, <1>3, ExternalType DEF MappedIn, Tells, MappedAddress
<1>7. CASE MappedIn(r) = NoEp /\ mapping' = "Fail" /\ Finish /\ UNCHANGED public2
  <2>1. PathTypeOK' /\ NetworkInv' /\ phase' = "Done" /\ request' = NoRequest
    BY <1>7, InOrder, NextExchange DEF Finish, AskNothing
  <2>2. TypeOK'
    BY <1>1, <1>7, <2>1 DEF TypeOK, RunInv, Phase, MappingBehavior
  <2>3. MappingExact' /\ OwnServerNeverBlamed'
    BY <1>1, <1>7 DEF RunInv, MappingExact, Misnamed, Dependence, OwnServerNeverBlamed
  <2> QED BY <2>1, <2>2, <2>3, OverKeeps
<1>8. CASE /\ MappedIn(r) # NoEp /\ MappedIn(r) = public
           /\ mapping' = "EndpointIndependent" /\ Finish /\ UNCHANGED public2
  <2>1. PathTypeOK' /\ NetworkInv' /\ phase' = "Done" /\ request' = NoRequest
    BY <1>8, InOrder, NextExchange DEF Finish, AskNothing
  <2>2. TypeOK'
    BY <1>1, <1>8, <2>1 DEF TypeOK, RunInv, Phase, MappingBehavior, Dependence
  <2>3. Seen.mapping = "EndpointIndependent"
    <3>1. CASE behavior.mapping = "Direct"
      <4>1. bind = "wildcard"
        BY <1>1, <1>2, <3>1 DEF External, SocketLocalEndpoint, Bind
      <4> QED BY <3>1, <4>1, <1>2 DEF Seen, NatBehavior
    <3>2. CASE behavior.mapping # "Direct"
      <4>1. External(behavior, port, Server) = External(behavior, port, AltTarget)
        BY <1>1, <1>4, <1>8
      <4>2. Class(behavior.mapping, Server) = Class(behavior.mapping, AltTarget)
        BY <1>2, <1>3, <3>2, <4>1, ServerType, SameExternal
      <4>3. behavior.mapping = "EndpointIndependent"
        BY <1>1, <1>2, <3>2, <4>2, AltTargetDiffers DEF AltTarget
      <4> QED BY <4>3 DEF Seen
    <3> QED BY <3>1, <3>2
  <2>4. MappingExact'
    BY <1>1, <1>8, <2>3 DEF MappingExact, Misnamed, Seen
  <2>5. OwnServerNeverBlamed'
    BY <1>1, <1>8 DEF RunInv, OwnServerNeverBlamed
  <2> QED BY <2>1, <2>2, <2>4, <2>5, OverKeeps
<1>9. CASE /\ MappedIn(r) \notin {NoEp, public} /\ public2' = MappedIn(r)
            /\ phase' = "MappingTest3" /\ Ask(Plain(other)) /\ UNCHANGED mapping
  <2>1. Plain(other) \in Request /\ Plain(other) # NoRequest
    BY <1>1, PlainType
  <2>2. PathTypeOK' /\ NetworkInv' /\ request' = Plain(other)
    BY <1>9, <2>1, InOrder, NextExchange DEF Ask
  <2>3. TypeOK'
    BY <1>1, <1>5, <1>9, <2>2 DEF TypeOK, RunInv, Phase
  <2>4. AltTarget' = AltTarget /\ SocketLocalEndpoint' = SocketLocalEndpoint
    BY <1>1 DEF AltTarget, Server, NodeEp, NodeIp, NodePort, SocketLocalEndpoint
  <2>5. public2' = External(behavior, port, AltTarget) /\ public2' # public
    BY <1>4, <1>9
  <2>6. PhaseInv'
    BY <1>1, <1>9, <2>1, <2>2, <2>4, <2>5
    DEF PhaseInv, HasValidOtherAddress, Server, NodeEp, NodeIp, NodePort,
        External, Class, Local, ServerEp, Plain, NoChange
  <2>7. MappingExact' /\ OwnServerNeverBlamed'
    BY <1>1, <1>9 DEF RunInv, MappingExact, Misnamed, Dependence, OwnServerNeverBlamed
  <2> QED BY <2>2, <2>3, <2>6, <2>7 DEF RunInv
<1> QED BY <1>7, <1>8, <1>9 DEF HandleMappingTest2

LEMMA MappingTest3KeepsRunInv ==
  ASSUME RunInv, HandlerFrame, NEW r, r = NoResponse \/ Tells(r), HandleMappingTest3(r)
  PROVE  RunInv'
<1>1. /\ phase = "MappingTest3" /\ request.to = other /\ Finish
      /\ mapping' = IF MappedIn(r) = NoEp THEN "Fail"
                    ELSE IF MappedIn(r) = public2 THEN "AddressDependent"
                    ELSE "AddressAndPortDependent"
      /\ public = External(behavior, port, Server)
      /\ public2 = External(behavior, port, AltTarget) /\ public2 # public
      /\ HasValidOtherAddress(other) /\ other \in ServerEp
      /\ UNCHANGED <<scope, binding, filtering, public, other, public2>>
      /\ behavior' = behavior /\ deployment' = deployment /\ bind' = bind
  BY DEF HandleMappingTest3, RunInv, TypeOK, PhaseInv, Plain, HandlerFrame, rigidVars,
         HasValidOtherAddress
<1>2. /\ behavior \in NatBehavior /\ behavior.mapping \in Dependence \cup {"Direct"}
      /\ port \in LocalPorts
  BY DEF RunInv, TypeOK, PathTypeOK, NatBehavior
<1>3. AltTarget \in ServerEp /\ AltTarget = [ip |-> other.ip, port |-> Server.port]
  BY <1>1, OtherTypes DEF AltTarget
<1>4. MappedIn(r) # NoEp => MappedIn(r) = External(behavior, port, other)
  BY <1>1 DEF MappedIn, Tells, MappedAddress
<1>5. behavior.mapping \in Dependence \ {"EndpointIndependent"}
  BY <1>1, <1>2 DEF External, Class
<1>6. Seen = behavior
  BY <1>5 DEF Seen, Dependence
<1>7. MappingExact'
  <2>1. mapping' = "AddressDependent" => behavior.mapping = "AddressDependent"
    <3> SUFFICES ASSUME mapping' = "AddressDependent"
                 PROVE  behavior.mapping = "AddressDependent"
      OBVIOUS
    <3>1. External(behavior, port, other) = External(behavior, port, AltTarget)
      BY <1>1, <1>4
    <3>2. Class(behavior.mapping, other) = Class(behavior.mapping, AltTarget)
      BY <1>1, <1>2, <1>3, <1>5, <3>1, SameExternal DEF Dependence
    <3>3. behavior.mapping # "AddressAndPortDependent"
      BY <1>1, <1>3, <1>5, <3>2, PortsTellApart
    <3> QED BY <1>5, <3>3 DEF Dependence
  <2>2. mapping' = "AddressAndPortDependent" => behavior.mapping = "AddressAndPortDependent"
    <3> SUFFICES ASSUME mapping' = "AddressAndPortDependent",
                        behavior.mapping # "AddressAndPortDependent"
                 PROVE  FALSE
      OBVIOUS
    <3>1. Class(behavior.mapping, AltTarget) = Class(behavior.mapping, other)
      BY <1>1, <1>3, <1>5, PortsTellApart
    <3>2. External(behavior, port, AltTarget) = External(behavior, port, other)
      BY <1>5, <3>1 DEF External
    <3> QED BY <1>1, <1>4, <3>2
  <2>3. Seen' = Seen
    BY <1>1 DEF Seen
  <2>4. mapping' \in {"Fail", "AddressDependent", "AddressAndPortDependent"}
    BY <1>1
  <2> QED BY <1>6, <2>1, <2>2, <2>3, <2>4 DEF MappingExact, Misnamed, Dependence
<1>8. PathTypeOK' /\ NetworkInv' /\ phase' = "Done" /\ request' = NoRequest
  BY <1>1, InOrder, NextExchange DEF Finish, AskNothing
<1>9. TypeOK'
  BY <1>1, <1>8 DEF TypeOK, RunInv, Phase, MappingBehavior, Dependence
<1>10. OwnServerNeverBlamed'
  BY <1>1 DEF RunInv, OwnServerNeverBlamed
<1> QED BY <1>7, <1>8, <1>9, <1>10, OverKeeps

LEMMA HandlerKeepsRunInv ==
  ASSUME RunInv, HandlerFrame, NEW r, r = NoResponse \/ Genuine(r), GotResponse(r)
  PROVE  RunInv'
BY GenuineTells, BindingKeepsRunInv, FilteringTest2KeepsRunInv, FilteringTest3KeepsRunInv,
   MappingTest2KeepsRunInv, MappingTest3KeepsRunInv DEF GotResponse

-----------------------------------------------------------------------------
(* The handlers and the filter. *)

\* No handler sends anything, and none goes back to the filtering test.
LEMMA HandlerKeepsUndisturbed ==
  ASSUME RunInv, HandlerFrame, NEW r, GotResponse(r)
  PROVE  /\ FilterUndisturbed => FilterUndisturbed'
         /\ PortUndisturbed => PortUndisturbed'
<1>1. contacts' = contacts /\ port' = port
  BY DEF HandlerFrame
<1>2. \/ phase \in {"BindingTest", "FilteringTest2", "FilteringTest3"}
      \/ phase' \notin {"BindingTest", "FilteringTest2", "FilteringTest3"}
  BY DEF GotResponse, HandleBindingTest, HandleFilteringTest2, HandleFilteringTest3,
         HandleMappingTest2, HandleMappingTest3, Finish
<1>3. Server' = Server
  BY DEF Server, NodeEp, NodeIp, NodePort
<1> QED BY <1>1, <1>2, <1>3 DEF FilterUndisturbed, PortUndisturbed

\* An answer from a node the session's port has not sent to shows the NAT's
\* filter to ignore whatever tells that node from Server.
LEMMA HeardFrom ==
  ASSUME RunInv, PortUndisturbed, NEW r, Genuine(r),
         phase \in {"BindingTest", "FilteringTest2", "FilteringTest3"}
  PROVE  /\ r.remote.ip # Server.ip => behavior.filtering = "EndpointIndependent"
         /\ r.remote.port # Server.port => behavior.filtering # "AddressAndPortDependent"
<1>1. PICK c \in contacts : c.port = port /\ r.remote \in Class(behavior.filtering, c.to)
  BY DEF Genuine
<1>2. c.to = Server
  BY <1>1 DEF PortUndisturbed
<1>3. behavior.filtering \in Dependence
  BY DEF RunInv, TypeOK, PathTypeOK, NatBehavior
<1> QED BY <1>1, <1>2, <1>3 DEF Class, Dependence

\* The filtering verdict rests on what the filter let in.
LEMMA HandlerKeepsSound ==
  ASSUME RunInv, PortUndisturbed, FilteringSound, HandlerFrame,
         NEW r, r = NoResponse \/ Genuine(r), GotResponse(r)
  PROVE  FilteringSound'
<1>1. behavior' = behavior /\ behavior.filtering \in Dependence
  BY DEF HandlerFrame, rigidVars, RunInv, TypeOK, PathTypeOK, NatBehavior
<1>2. CASE filtering' \notin Dependence \/ filtering' = filtering
  BY <1>1, <1>2 DEF FilteringSound, MoreOpen
<1>3. CASE HandleFilteringTest2(r) /\ r # NoResponse
  <2>1. HasValidOtherAddress(other) /\ phase = "FilteringTest2"
    BY <1>3 DEF HandleFilteringTest2, RunInv, PhaseInv
  <2>2. filtering' = "EndpointIndependent" => behavior.filtering = "EndpointIndependent"
    BY <1>3, <2>1, HeardFrom DEF HandleFilteringTest2, HasValidOtherAddress
  <2>3. filtering' \in {"EndpointIndependent", "UnsupportedServer"}
    BY <1>3 DEF HandleFilteringTest2
  <2> QED BY <1>1, <2>2, <2>3 DEF FilteringSound, MoreOpen, Rank, Dependence
<1>4. CASE HandleFilteringTest3(r)
  <2>1. filtering' = "AddressDependent" => behavior.filtering # "AddressAndPortDependent"
    BY <1>4, HeardFrom DEF HandleFilteringTest3
  <2>2. filtering' \in {"AddressAndPortDependent", "AddressDependent", "UnsupportedServer"}
    BY <1>4 DEF HandleFilteringTest3
  <2> QED BY <1>1, <2>1, <2>2, SMT DEF FilteringSound, MoreOpen, Rank, Dependence
<1>5. \/ filtering' \notin Dependence \/ filtering' = filtering
      \/ HandleFilteringTest2(r) /\ r # NoResponse
      \/ HandleFilteringTest3(r)
  BY DEF GotResponse, HandleBindingTest, HandleFilteringTest2, HandleMappingTest2,
         HandleMappingTest3, Dependence
<1> QED BY <1>2, <1>3, <1>4, <1>5

-----------------------------------------------------------------------------
(* The verdicts where nothing is lost. *)

\* Silence where a request with CHANGE-REQUEST was due an answer tells what the
\* filter does; a plain request is never met by it.
LEMMA WhatSilenceTells ==
  ASSUME RunInv, request # NoRequest, deployment = "own", Refused
  PROVE  /\ phase \in {"FilteringTest2", "FilteringTest3"}
         /\ phase = "FilteringTest2" => behavior.filtering # "EndpointIndependent"
         /\ phase = "FilteringTest3" => behavior.filtering = "AddressAndPortDependent"
<1>1. PathTypeOK /\ PhaseInv /\ Server \in ServerEp /\ phase \in Phase
  BY ServerType DEF RunInv, TypeOK
<1>2. phase \in {"MappingTest2", "MappingTest3"} => other \in ServerEp /\ AltTarget \in ServerEp
  <2>1. phase \in {"MappingTest2", "MappingTest3"} => other \in ServerEp
    BY DEF RunInv, PhaseInv, TypeOK, HasValidOtherAddress
  <2> QED BY <2>1, OtherTypes DEF AltTarget
<1>3. phase \notin {"BindingTest", "MappingTest2", "MappingTest3"}
  BY <1>1, <1>2, PlainIsAnswered DEF PhaseInv
<1>4. phase # "Done"
  BY <1>1 DEF PhaseInv
<1> QED BY <1>1, <1>3, <1>4, RefusalTells DEF PhaseInv, Phase

\* A filtering verdict that is the NAT's filtering carries the test on to the
\* mapping, or ends it.
LEMMA AfterFilteringKeepsTimely ==
  ASSUME RunInv', TimelyInv, HandlerFrame, AfterFiltering, timely, deployment = "own",
         phase \in {"FilteringTest2", "FilteringTest3"},
         UNCHANGED <<scope, binding>>, filtering' = behavior.filtering, mapping = "Unknown",
         behavior.filtering \in Dependence
  PROVE  TimelyInv'
<1>1. /\ binding = "Success" /\ scope \in {"Filtering", "Full"}
      /\ filtering' # "UnsupportedServer" /\ behavior' = behavior
  BY DEF TimelyInv, LearntInTime, Dependence, HandlerFrame, rigidVars
<1>2. mapping' = "Direct" => Seen'.mapping = "Direct"
  BY DEF RunInv, MappingExact, Misnamed
<1>3. CASE scope = "Full" /\ MappingOrDone(public, other)
  BY <1>1, <1>2, <1>3
  DEF TimelyInv, LearntInTime, TimelyTestIsExact, MappingOrDone, Finish
<1>4. CASE scope = "Filtering" /\ Finish /\ UNCHANGED mapping
  BY <1>1, <1>4 DEF TimelyInv, LearntInTime, TimelyTestIsExact, Finish
<1> QED BY <1>1, <1>3, <1>4 DEF AfterFiltering

LEMMA HandlerKeepsTimely ==
  ASSUME RunInv, RunInv', FilteringSound', TimelyInv, HandlerFrame, NEW r, GotResponse(r),
         r # NoResponse => Tells(r), r = NoResponse => Silence
  PROVE  TimelyInv'
<1>0. behavior' = behavior /\ deployment' = deployment /\ timely' = timely
  BY DEF HandlerFrame, rigidVars
<1> SUFFICES ASSUME timely, deployment = "own" PROVE TimelyInv'
  BY <1>0 DEF TimelyInv, LearntInTime, TimelyTestIsExact
<1>1. /\ behavior.filtering \in Dependence /\ request # NoRequest /\ mapping = "Unknown"
      /\ phase \in {"BindingTest", "FilteringTest2", "FilteringTest3"} => filtering = "Unknown"
  BY DEF HandlerFrame, RunInv, TypeOK, PathTypeOK, NatBehavior, PhaseInv
<1>2. "UnsupportedServer" \notin {binding', filtering', mapping'}
  BY <1>0 DEF RunInv, OwnServerNeverBlamed
<1>3. mapping' \in Dependence \cup {"Direct"} => mapping' = Seen'.mapping
  BY DEF RunInv, MappingExact, Misnamed
<1>4. ~ MoreOpen(filtering', behavior)
  BY <1>0 DEF FilteringSound
<1>5. r = NoResponse =>
        /\ phase \in {"FilteringTest2", "FilteringTest3"}
        /\ phase = "FilteringTest2" => behavior.filtering # "EndpointIndependent"
        /\ phase = "FilteringTest3" => behavior.filtering = "AddressAndPortDependent"
  BY <1>1, WhatSilenceTells DEF Silence
<1>6. phase \in {"MappingTest2", "MappingTest3"} => MappedIn(r) # NoEp
  <2> SUFFICES ASSUME phase \in {"MappingTest2", "MappingTest3"} PROVE MappedIn(r) # NoEp
    OBVIOUS
  <2>1. r # NoResponse /\ Tells(r)
    BY <1>5
  <2>2. r.mapped = External(behavior, port, request.to)
    BY <2>1 DEF Tells, MappedAddress
  <2>3. request.to \in ServerEp /\ behavior \in NatBehavior /\ port \in LocalPorts
    BY <1>1 DEF RunInv, TypeOK, PathTypeOK, Request
  <2> QED BY <2>1, <2>2, <2>3, ExternalType DEF MappedIn
<1>7. CASE HandleBindingTest(r)
  <2>1. r # NoResponse /\ phase = "BindingTest" /\ binding' = "Success" /\ scope' = scope
    BY <1>2, <1>5, <1>7 DEF HandleBindingTest
  <2>2. CASE scope = "BindingOnly" /\ Finish /\ UNCHANGED <<filtering, mapping>>
    BY <1>1, <2>1, <2>2 DEF TimelyInv, LearntInTime, TimelyTestIsExact, Finish
  <2>3. CASE scope \in {"Filtering", "Full"} /\ AskFilteringTest2
    BY <2>1, <2>3 DEF TimelyInv, LearntInTime, TimelyTestIsExact, AskFilteringTest2
  <2>4. CASE scope = "Mapping" /\ MappingOrDone(public', other') /\ UNCHANGED filtering
    BY <1>1, <1>3, <2>1, <2>4
    DEF TimelyInv, LearntInTime, TimelyTestIsExact, MappingOrDone, Finish
  <2>5. HasValidOtherAddress(other') \/ scope = "BindingOnly"
    BY <1>2, <1>7, <2>1 DEF HandleBindingTest
  <2> QED BY <1>7, <2>1, <2>2, <2>3, <2>4, <2>5 DEF HandleBindingTest
<1>8. CASE HandleFilteringTest2(r)
  <2>1. phase = "FilteringTest2" /\ UNCHANGED <<scope, binding>>
    BY <1>8 DEF HandleFilteringTest2
  <2>2. CASE r = NoResponse
    <3>1. phase' = "FilteringTest3" /\ behavior.filtering # "EndpointIndependent"
      BY <1>5, <1>8, <2>1, <2>2 DEF HandleFilteringTest2
    <3> QED BY <1>0, <2>1, <3>1 DEF TimelyInv, LearntInTime, TimelyTestIsExact
  <2>3. CASE r # NoResponse
    <3>1. AfterFiltering /\ filtering' = "EndpointIndependent"
      BY <1>2, <1>8, <2>3 DEF HandleFilteringTest2
    <3>2. filtering' = behavior.filtering
      BY <1>1, <1>4, <3>1, SMT DEF MoreOpen, Rank, Dependence
    <3> QED BY <1>1, <2>1, <3>1, <3>2, AfterFilteringKeepsTimely
  <2> QED BY <2>2, <2>3
<1>9. CASE HandleFilteringTest3(r)
  <2>1. phase = "FilteringTest3" /\ UNCHANGED <<scope, binding>> /\ AfterFiltering
    BY <1>9 DEF HandleFilteringTest3
  <2>2. filtering' = behavior.filtering
    <3>1. CASE r = NoResponse
      BY <1>5, <1>9, <2>1, <3>1 DEF HandleFilteringTest3
    <3>2. CASE r # NoResponse
      <4>1. filtering' = "AddressDependent"
        BY <1>2, <1>9, <3>2 DEF HandleFilteringTest3
      <4>2. behavior.filtering # "EndpointIndependent"
        BY <2>1 DEF TimelyInv, LearntInTime
      <4> QED BY <1>1, <1>4, <4>1, <4>2, SMT DEF MoreOpen, Rank, Dependence
    <3> QED BY <3>1, <3>2
  <2> QED BY <1>1, <2>1, <2>2, AfterFilteringKeepsTimely
<1>10. CASE HandleMappingTest2(r) \/ HandleMappingTest3(r)
  <2>1. /\ phase \in {"MappingTest2", "MappingTest3"} /\ UNCHANGED <<scope, binding, filtering>>
        /\ \/ phase' = "MappingTest3"
           \/ phase' = "Done" /\ mapping' \in Dependence
    BY <1>6, <1>10 DEF HandleMappingTest2, HandleMappingTest3, Finish, Dependence
  <2> QED BY <1>0, <1>3, <2>1 DEF TimelyInv, LearntInTime, TimelyTestIsExact
<1> QED BY <1>7, <1>8, <1>9, <1>10 DEF GotResponse

LEMMA PathKeepsTimely ==
  ASSUME RunInv, TimelyInv, PathStep \/ UNCHANGED pathVars, UNCHANGED fsmVars
  PROVE  TimelyInv'
<1>1. UNCHANGED rigidVars
  BY PathKeeps, InOrder
<1> QED BY <1>1 DEF TimelyInv, LearntInTime, TimelyTestIsExact, fsmVars, rigidVars, Seen

-----------------------------------------------------------------------------
(* A step of a test over UDP. *)

LEMMA HandlerAsksAnew == ASSUME NEW r, GotResponse(r) PROVE sends' = 0
BY DEF GotResponse, HandleBindingTest, HandleFilteringTest2, HandleFilteringTest3,
       HandleMappingTest2, HandleMappingTest3, AfterFiltering, MappingOrDone,
       AskFilteringTest2, Finish, Ask, AskNothing

\* What a handler, or the path, keeps, whatever the NAT's table held before.
LEMMA RunStepKeeps ==
  ASSUME RunInv, Answered \/ Unanswered \/ Path \/ UNCHANGED vars
  PROVE  /\ RunInv'
         /\ FilterUndisturbed => FilterUndisturbed'
         /\ PortUndisturbed => PortUndisturbed'
         /\ PortUndisturbed /\ FilteringSound => FilteringSound'
         /\ AnswerComes => AnswerComes'
         /\ AnswerComes /\ PortUndisturbed /\ FilteringSound /\ TimelyInv => TimelyInv'
<1> DEFINE Kept == /\ RunInv'
                   /\ FilterUndisturbed => FilterUndisturbed'
                   /\ PortUndisturbed => PortUndisturbed'
                   /\ PortUndisturbed /\ FilteringSound => FilteringSound'
                   /\ AnswerComes => AnswerComes'
                   /\ AnswerComes /\ PortUndisturbed /\ FilteringSound /\ TimelyInv
                        => TimelyInv'
<1>1. ASSUME NEW r, r = NoResponse \/ Genuine(r), HandlerFrame, GotResponse(r),
             AnswerComes /\ r = NoResponse => Silence
      PROVE  Kept
  <2>1. RunInv' /\ AnswerComes'
    BY <1>1, HandlerKeepsRunInv, HandlerAsksAnew, AnswersStartAnew
  <2>2. /\ FilterUndisturbed => FilterUndisturbed'
        /\ PortUndisturbed => PortUndisturbed'
    BY <1>1, HandlerKeepsUndisturbed
  <2>3. PortUndisturbed /\ FilteringSound => FilteringSound'
    BY <1>1, HandlerKeepsSound
  <2>4. AnswerComes /\ FilteringSound' /\ TimelyInv => TimelyInv'
    BY <1>1, <2>1, GenuineTells, HandlerKeepsTimely
  <2> QED BY <2>1, <2>2, <2>3, <2>4
<1>2. CASE Answered
  <2>1. PICK m \in network : Accept(m) /\ GotResponse(ResponseOf(m))
    BY <1>2 DEF Answered
  <2>2. Genuine(ResponseOf(m)) /\ HandlerFrame
    BY <2>1, InOrder, AcceptedIsGenuine
  <2>3. ResponseOf(m) # NoResponse
    BY <2>2, Sentinels DEF Genuine
  <2> QED BY <1>1, <2>1, <2>2, <2>3
<1>3. CASE Unanswered
  <2>1. HandlerFrame
    BY <1>3 DEF Unanswered, Expire, HandlerFrame
  <2>2. AnswerComes => Silence
    BY <1>3, InOrder, ExpiryIsSilence DEF Unanswered
  <2> QED BY <1>1, <1>3, <2>1, <2>2 DEF Unanswered
<1>4. CASE Path \/ UNCHANGED vars
  <2>1. (PathStep \/ UNCHANGED pathVars) /\ UNCHANGED fsmVars
    BY <1>4 DEF Path, vars
  <2>2. RunInv'
    BY <2>1, PathKeepsRunInv
  <2>3. AnswerComes => AnswerComes'
    BY <2>1, InOrder, PathKeepsAnswers
  <2>4. /\ FilterUndisturbed => FilterUndisturbed'
        /\ PortUndisturbed => PortUndisturbed'
        /\ FilteringSound => FilteringSound'
    BY <2>1, PathKeepsFilter
  <2>5. TimelyInv => TimelyInv'
    BY <2>1, PathKeepsTimely
  <2> QED BY <2>2, <2>3, <2>4, <2>5
<1> QED BY <1>2, <1>3, <1>4

LEMMA FilterIsPorts == FilterUndisturbed => PortUndisturbed
BY DEF FilterUndisturbed, PortUndisturbed

\* Every step keeps the invariant, and what is learnt in time.
LEMMA StepKeepsIInv ==
  ASSUME IInv, [Next]_vars
  PROVE  IInv' /\ (AnswerComes => AnswerComes') /\ (AnswerComes /\ TimelyInv => TimelyInv')
<1>1. Answered \/ Unanswered \/ Path \/ UNCHANGED vars
  BY DEF Next, Over
<1> QED BY <1>1, RunStepKeeps, FilterIsPorts DEF IInv

-----------------------------------------------------------------------------
(* The theorems. *)

\* IInv holds throughout.
THEOREM Invariance == Spec => []IInv
<1>1. IInv /\ [Next]_vars => IInv'
  BY StepKeepsIInv
<1> QED BY <1>1, InitEstablishesIInv, PTL DEF Spec

\* Every variable of the test and of the path it runs over keeps its type.
THEOREM TypeCorrect == Spec => []TypeOK
<1>1. IInv => TypeOK
  BY DEF IInv, RunInv
<1> QED BY <1>1, Invariance, PTL

\* The filtering verdict never calls the NAT more open than it is.
THEOREM FilteringSoundness == Spec => []FilteringSound
<1>1. IInv => FilteringSound
  BY DEF IInv, RunInv
<1> QED BY <1>1, Invariance, PTL

\* A mapping verdict names the NAT's mapping.
THEOREM MappingExactness == Spec => []MappingExact
<1>1. IInv => MappingExact
  BY DEF IInv, RunInv
<1> QED BY <1>1, Invariance, PTL

\* The verdict UnsupportedServer is never given of this repository's server.
THEOREM OwnServerNotBlamed == Spec => []OwnServerNeverBlamed
<1>1. IInv => OwnServerNeverBlamed
  BY DEF IInv, RunInv
<1> QED BY <1>1, Invariance, PTL

\* Nothing is sent to another address before the filtering verdict is in.
THEOREM FilterStaysUndisturbed == Spec => []FilterUndisturbed
<1>1. IInv => FilterUndisturbed
  BY DEF IInv, RunInv
<1> QED BY <1>1, Invariance, PTL

\* Where nothing is lost, the finished test has found what the NAT does: a
\* request that is not answered then was refused by the filter, which tells what
\* the filter is.
THEOREM TimelyExactness == Spec => []TimelyTestIsExact
<1> DEFINE Inv == IInv /\ AnswerComes /\ TimelyInv
<1>1. Init => Inv
  BY InitEstablishesIInv, InitLearns
<1>2. Inv /\ [Next]_vars => Inv'
  BY StepKeepsIInv
<1>3. Inv => TimelyTestIsExact
  BY DEF TimelyInv
<1> QED BY <1>1, <1>2, <1>3, PTL DEF Spec

-----------------------------------------------------------------------------
(* The test implements Discovery. *)

\* A handler decides each verdict at most once, and a mapping verdict with its
\* last answer.
LEMMA HandlerDecides ==
  ASSUME IInv, HandlerFrame, NEW r, GotResponse(r)
  PROVE  /\ phase # "Done" /\ mapping = "Unknown"
         /\ filtering' # filtering => filtering = "Unknown" /\ filtering' # "Unknown"
         /\ mapping' # mapping => mapping' # "Unknown" /\ phase' = "Done"
<1>1. phase # "Done" /\ mapping = "Unknown"
  BY DEF IInv, RunInv, PhaseInv, HandlerFrame
<1>2. CASE HandleBindingTest(r)
  BY <1>1, <1>2 DEF HandleBindingTest, AskFilteringTest2, MappingOrDone, Finish, IInv, RunInv, PhaseInv
<1>3. CASE HandleFilteringTest2(r)
  BY <1>1, <1>3 DEF HandleFilteringTest2, AfterFiltering, MappingOrDone, Finish, IInv, RunInv, PhaseInv
<1>4. CASE HandleFilteringTest3(r)
  BY <1>1, <1>4 DEF HandleFilteringTest3, AfterFiltering, MappingOrDone, Finish, IInv, RunInv, PhaseInv
<1>5. CASE HandleMappingTest2(r)
  BY <1>1, <1>5 DEF HandleMappingTest2, Finish
<1>6. CASE HandleMappingTest3(r)
  BY <1>1, <1>6 DEF HandleMappingTest3, Finish
<1> QED BY <1>1, <1>2, <1>3, <1>4, <1>5, <1>6 DEF GotResponse

LEMMA InitRefines == Init => Abstract!Init
BY DEF Init, Begin, Abstract!Init

LEMMA HandlerRefines ==
  ASSUME IInv, IInv', HandlerFrame, NEW r, GotResponse(r)
  PROVE  Abstract!Next
<1>0. Seen' = Seen
  BY DEF HandlerFrame, rigidVars, Seen
<1>1. /\ phase # "Done" /\ mapping = "Unknown"
      /\ filtering' # filtering => filtering = "Unknown" /\ filtering' # "Unknown"
      /\ mapping' # mapping => mapping' # "Unknown" /\ phase' = "Done"
  BY HandlerDecides
<1>2. filtering' \in FilteringBehavior /\ mapping' \in MappingBehavior
  BY DEF IInv, RunInv, TypeOK
<1>3. ~ MoreOpen(filtering', Seen)
  <2>1. ~ MoreOpen(filtering', behavior')
    BY DEF IInv, RunInv, FilteringSound
  <2>2. behavior' = behavior /\ behavior \in NatBehavior
    BY DEF HandlerFrame, rigidVars, IInv, RunInv, TypeOK, PathTypeOK
  <2>3. Seen.filtering = behavior.filtering
    BY <2>2 DEF Seen, NatBehavior
  <2> QED BY <2>1, <2>2, <2>3 DEF MoreOpen
<1>4. ~ Misnamed(mapping', Seen)
  BY <1>0 DEF IInv, RunInv, MappingExact
<1>5. filtering' # filtering => Abstract!DecideFiltering
  BY <1>1, <1>2, <1>3 DEF Abstract!DecideFiltering
<1>6. mapping' # mapping => Abstract!DecideMapping
  BY <1>1, <1>2, <1>4 DEF Abstract!DecideMapping
<1> QED BY <1>0, <1>1, <1>5, <1>6 DEF Abstract!Next, Abstract!Step

LEMMA StepRefines ==
  ASSUME IInv, IInv', [Next]_vars
  PROVE  [Abstract!Next]_(Abstract!vars)
<1>1. Seen' = Seen
  <2>1. behavior' = behavior /\ bind' = bind
    BY DEF Next, Answered, Unanswered, Path, Over, PathStep, Accept, Expire, Send, Ignore,
           Serve, Drop, Lose, rigidVars, vars, pathVars
  <2> QED BY <2>1 DEF Seen
<1>2. ASSUME NEW r, HandlerFrame, GotResponse(r) PROVE Abstract!Next
  BY <1>2, HandlerRefines
<1>3. CASE Answered
  BY <1>2, <1>3, InOrder, AcceptedIsGenuine DEF Answered, IInv
<1>4. CASE Unanswered
  BY <1>2, <1>4 DEF Unanswered, Expire, HandlerFrame
<1>5. CASE UNCHANGED fsmVars
  BY <1>1, <1>5 DEF fsmVars, Abstract!vars
<1> QED BY <1>3, <1>4, <1>5 DEF Next, Path, Over, vars

\* run_rfc5780_test behaves as its caller expects: verdicts appear once, in
\* order, and never flatter the NAT.
THEOREM Refinement == Spec => RefinesDiscovery
<1>1. IInv /\ IInv' /\ [Next]_vars => [Abstract!Next]_(Abstract!vars)
  BY StepRefines
<1> QED BY <1>1, InitRefines, Invariance, PTL DEF Spec, RefinesDiscovery, Abstract!Spec

-----------------------------------------------------------------------------
(* The test over any transport. *)

LEMMA VarsUnchanged ==
  ASSUME IInv, TimelyInv, UNCHANGED vars
  PROVE  IInv' /\ TimelyInv' /\ (AnswerComes => AnswerComes')
<1>1. UNCHANGED pathVars /\ UNCHANGED fsmVars
  BY DEF vars
<1>2. IInv' /\ (AnswerComes => AnswerComes')
  BY StepKeepsIInv
<1> QED BY <1>1, <1>2, PathKeepsTimely DEF IInv

LEMMA TestStarts == TestInit => TestInv
<1> SUFFICES ASSUME TestInit PROVE TestInv
  OBVIOUS
<1>1. Init /\ connection = NoConnection /\ transport \in {"udp", "stream"}
      /\ (transport = "stream" => scope \in {"BindingOnly", "Mapping"})
  BY DEF TestInit
<1>2. phase = "BindingTest" /\ network = {}
  BY <1>1 DEF Init, Begin, PathInit
<1> QED BY <1>1, <1>2, InitEstablishesIInv, InitLearns DEF TestInv, StreamInv

\* The next connection of a session comes from the port of the one before, if
\* there was one.
LEMMA OpenKeeps ==
  ASSUME TestInv, Open, stuck'
  PROVE  TestInv'
<1>1. PICK p \in IF stuck THEN {port} ELSE LocalPorts,
           rx \in ReceivingNodes(deployment, request.to) :
        /\ port' = p
        /\ connection' = [outside |-> External(behavior, p, request.to), rx |-> rx,
                          up |-> Units, tcpBuffer |-> 0, down |-> 0, buffer |-> 0]
  BY DEF Open
<1>2. /\ transport = "stream" /\ request # NoRequest /\ network = {}
      /\ UNCHANGED <<rigidVars, contacts, network, tid, request, sends, fsmVars, transport>>
  BY DEF Open, Requesting, TestInv, StreamInv
<1>3. /\ PathTypeOK /\ port \in LocalPorts /\ behavior \in NatBehavior
      /\ request \in Request /\ request.to \in ServerEp
  BY <1>2 DEF TestInv, IInv, RunInv, TypeOK, PathTypeOK, Request
<1>4. port' \in LocalPorts /\ (port' = port \/ phase = "BindingTest")
  BY <1>1, <1>2, <1>3 DEF TestInv, StreamInv
<1>5. PathTypeOK'
  BY <1>2, <1>3, <1>4 DEF PathTypeOK, rigidVars
<1>6. IInv'
  <2>1. TypeOK' /\ NetworkInv'
    BY <1>2, <1>5 DEF TestInv, IInv, RunInv, TypeOK, NetworkInv, fsmVars
  <2>2. PhaseInv'
    <3>1. CASE port' = port
      BY <1>2, <3>1
      DEF TestInv, IInv, RunInv, PhaseInv, fsmVars, rigidVars, AltTarget, SocketLocalEndpoint
    <3>2. CASE phase = "BindingTest"
      BY <1>2, <3>2 DEF TestInv, IInv, RunInv, PhaseInv, fsmVars, rigidVars
    <3> QED BY <1>4, <3>1, <3>2
  <2>3. (FilterUndisturbed /\ FilteringSound /\ MappingExact /\ OwnServerNeverBlamed)'
    BY <1>2 DEF TestInv, IInv, RunInv, FilterUndisturbed, FilteringSound, MappingExact,
                OwnServerNeverBlamed, fsmVars, rigidVars, Seen
  <2> QED BY <2>1, <2>2, <2>3 DEF IInv, RunInv
<1>7. connection' \in Connection
  <2>1. External(behavior, port', request.to) \in ClientEp
    BY <1>3, <1>4, ExternalType
  <2>2. rx \in Node
    BY DEF ReceivingNodes
  <2> QED BY <1>1, <2>1, <2>2, UnitsAssumption DEF Connection
<1>8. StreamInv'
  BY <1>1, <1>2, <1>7 DEF TestInv, StreamInv, fsmVars, rigidVars
<1>9. TimelyInv'
  BY <1>2 DEF TestInv, TimelyInv, LearntInTime, TimelyTestIsExact, fsmVars, rigidVars, Seen
<1> QED BY <1>2, <1>6, <1>8, <1>9 DEF TestInv

\* What a read leaves behind of a message.
LEMMA ConnectionKeeps ==
  ASSUME TestInv, connection # NoConnection, UNCHANGED <<vars, transport, stuck>>,
         connection' \in Connection,
         connection'.outside = connection.outside, connection'.rx = connection.rx
  PROVE  TestInv'
<1>1. IInv' /\ TimelyInv' /\ (AnswerComes => AnswerComes')
  BY VarsUnchanged DEF TestInv
<1>2. StreamInv'
  BY DEF TestInv, StreamInv, vars, pathVars, fsmVars
<1> QED BY <1>1, <1>2 DEF TestInv

\* The answer on a connection tells what the NAT does with its request.
LEMMA AnswerTells ==
  ASSUME TestInv, connection # NoConnection
  PROVE  Tells(Answer)
<1>1. /\ request \in Request /\ request.to \in ServerEp
      /\ deployment \in Deployment
      /\ connection.outside = External(behavior, port, request.to)
      /\ connection.outside \in ClientEp
      /\ connection.rx \in ReceivingNodes(deployment, request.to)
  BY DEF TestInv, StreamInv, Connection, IInv, RunInv, TypeOK, PathTypeOK, Request
<1>2. OtherAddress(deployment, connection.rx) \in ServerEp \cup {NoEp}
  <2>1. connection.rx \in Node
    BY <1>1 DEF ReceivingNodes
  <2> QED BY <2>1, OtherNodeDiffers DEF OtherAddress, ServerEp, NodeIp, NodePort
<1>3. MappedAddress(deployment, connection.outside) \in ClientEp \cup {NoEp}
  BY <1>1 DEF MappedAddress
<1>4. Answer \in Response
  BY <1>1, <1>2, <1>3 DEF Answer, Response
<1> QED BY <1>1, <1>4 DEF Tells, Answer

\* Of the handlers only those of the mapping test run over a stream.
LEMMA ClosedKeeps ==
  ASSUME TestInv, connection # NoConnection, Closed,
         NEW r, (r = NoResponse /\ ~ timely) \/ Tells(r), GotResponse(r)
  PROVE  TestInv'
<1>1. /\ transport = "stream" /\ stuck /\ network = {}
      /\ phase \notin {"FilteringTest2", "FilteringTest3"}
      /\ scope \in {"BindingOnly", "Mapping"} /\ request # NoRequest
  BY DEF TestInv, StreamInv
<1>2. HandlerFrame
  BY <1>1 DEF Closed, HandlerFrame
<1>3. \/ HandleBindingTest(r) \/ HandleMappingTest2(r) \/ HandleMappingTest3(r)
  BY <1>1 DEF GotResponse, HandleFilteringTest2, HandleFilteringTest3
<1>4. IInv'
  <2>1. RunInv'
    BY <1>2, <1>3, BindingKeepsRunInv, MappingTest2KeepsRunInv, MappingTest3KeepsRunInv
    DEF TestInv, IInv
  <2>2. FilterUndisturbed'
    BY <1>2, HandlerKeepsUndisturbed DEF TestInv, IInv
  <2>3. FilteringSound'
    BY <1>2, <1>3
    DEF TestInv, IInv, FilteringSound, MoreOpen, Dependence, HandlerFrame, rigidVars,
        HandleBindingTest, HandleMappingTest2, HandleMappingTest3
  <2> QED BY <2>1, <2>2, <2>3 DEF IInv
<1>5. phase' \notin {"FilteringTest2", "FilteringTest3"} /\ scope' = scope
  BY <1>1, <1>3
  DEF HandleBindingTest, HandleMappingTest2, HandleMappingTest3, MappingOrDone, Finish
<1>6. StreamInv'
  BY <1>1, <1>5 DEF Closed, StreamInv
<1>7. TimelyInv'
  <2>1. CASE timely
    <3>1. r # NoResponse /\ Tells(r)
      BY <2>1, Sentinels DEF Tells
    <3> QED BY <1>2, <1>4, <3>1, HandlerKeepsTimely DEF TestInv, IInv
  <2>2. CASE ~ timely
    BY <1>2, <2>2 DEF HandlerFrame, rigidVars, TimelyInv, LearntInTime, TimelyTestIsExact
  <2> QED BY <2>1, <2>2
<1>8. transport' = "stream"
  BY <1>1 DEF Closed
<1> QED BY <1>4, <1>6, <1>7, <1>8 DEF TestInv

LEMMA TestStepKeeps == TestInv /\ [TestNext]_allVars => TestInv'
<1> SUFFICES ASSUME TestInv, [TestNext]_allVars PROVE TestInv'
  OBVIOUS
<1>1. CASE Next /\ Datagrams
  <2>1. IInv' /\ TimelyInv' /\ AnswerComes'
    BY <1>1, StepKeepsIInv DEF TestInv, Datagrams
  <2>2. transport' = "udp" /\ connection' = NoConnection
    BY <1>1 DEF Datagrams, streamVars, TestInv, StreamInv
  <2> QED BY <2>1, <2>2 DEF TestInv, StreamInv
<1>2. CASE Connect
  BY <1>2, OpenKeeps DEF Connect
<1>3. CASE BreakOff
  <2>1. IInv' /\ TimelyInv' /\ (AnswerComes => AnswerComes')
    BY <1>3, VarsUnchanged DEF BreakOff, TestInv
  <2> QED BY <1>3, <2>1 DEF BreakOff, TestInv, StreamInv, vars, pathVars, fsmVars
<1>4. CASE ClientReads
  <2>1. PICK n \in 1..connection.down :
          IF connection.buffer + n = Units
          THEN GotResponse(Answer) /\ Closed
          ELSE /\ connection' = [connection EXCEPT !.down = @ - n, !.buffer = @ + n]
               /\ UNCHANGED <<vars, transport, stuck, broken>>
    BY <1>4 DEF ClientReads
  <2>2. connection # NoConnection /\ connection \in Connection
    BY <1>4 DEF ClientReads, TestInv, StreamInv
  <2>3. CASE GotResponse(Answer) /\ Closed
    BY <2>2, <2>3, AnswerTells, ClosedKeeps
  <2>4. CASE /\ connection' = [connection EXCEPT !.down = @ - n, !.buffer = @ + n]
             /\ UNCHANGED <<vars, transport, stuck, broken>>
    <3>1. connection.down - n \in Nat /\ connection.buffer + n \in Nat
      BY <2>1, <2>2 DEF Connection
    <3> QED BY <2>2, <2>4, <3>1, ConnectionKeeps DEF Connection
  <2> QED BY <2>1, <2>3, <2>4
<1>5. CASE NoAnswer
  BY <1>5, ClosedKeeps DEF NoAnswer
<1>6. CASE ServerReads
  <2>1. PICK n \in 1..connection.up :
          connection' =
            IF connection.tcpBuffer + n = Units
            THEN [connection EXCEPT !.up = 0, !.tcpBuffer = 0, !.down = Units]
            ELSE [connection EXCEPT !.up = @ - n, !.tcpBuffer = @ + n]
    BY <1>6 DEF ServerReads
  <2>2. /\ connection # NoConnection /\ connection \in Connection
        /\ UNCHANGED <<vars, transport, stuck>>
    BY <1>6 DEF ServerReads, TestInv, StreamInv
  <2>3. connection.up - n \in Nat /\ connection.tcpBuffer + n \in Nat
    BY <2>1, <2>2 DEF Connection
  <2> QED BY <2>1, <2>2, <2>3, ConnectionKeeps, UnitsAssumption DEF Connection
<1>7. CASE UNCHANGED allVars
  <2>1. IInv' /\ TimelyInv' /\ (AnswerComes => AnswerComes')
    BY <1>7, VarsUnchanged DEF allVars, TestInv
  <2> QED BY <1>7, <2>1
       DEF TestInv, StreamInv, allVars, vars, pathVars, fsmVars, streamVars
<1> QED BY <1>1, <1>2, <1>3, <1>4, <1>5, <1>6, <1>7 DEF TestNext, StreamOver

\* TestInv holds throughout, over UDP and over a stream.
THEOREM TransportInvariance == TestSpec => []TestInv
<1> QED BY TestStarts, TestStepKeeps, PTL DEF TestSpec

\* Over a stream as over UDP a mapping verdict names the NAT's mapping, however
\* long the messages are and however they are cut; in particular all connections
\* of a test come from one inside port.
THEOREM MappingExactOverAny == TestSpec => []MappingExact
<1>1. TestInv => MappingExact
  BY DEF TestInv, IInv, RunInv
<1> QED BY <1>1, TransportInvariance, PTL

\* The other promises of the verdicts, over any transport.
THEOREM SoundOverAny ==
  TestSpec => [](FilteringSound /\ OwnServerNeverBlamed /\ FilterUndisturbed)
<1>1. TestInv => FilteringSound /\ OwnServerNeverBlamed /\ FilterUndisturbed
  BY DEF TestInv, IInv, RunInv
<1> QED BY <1>1, TransportInvariance, PTL

\* Where no connection fails and nothing is lost, the finished test has found
\* what the NAT does, over any transport.
THEOREM TimelyExactOverAny == TestSpec => []TimelyTestIsExact
<1>1. TestInv => TimelyTestIsExact
  BY DEF TestInv, TimelyInv
<1> QED BY <1>1, TransportInvariance, PTL

LEMMA TestStepRefines ==
  ASSUME TestInv, TestInv', [TestNext]_allVars
  PROVE  [Abstract!Next]_(Abstract!vars)
<1>1. CASE Next /\ Datagrams
  BY <1>1, StepRefines DEF TestInv
<1>2. ASSUME UNCHANGED <<rigidVars, fsmVars>> PROVE UNCHANGED Abstract!vars
  BY <1>2 DEF fsmVars, rigidVars, Seen, Abstract!vars
<1>3. ASSUME NEW r, connection # NoConnection, Closed, GotResponse(r)
      PROVE  Abstract!Next
  <2>1. HandlerFrame
    BY <1>3 DEF Closed, HandlerFrame, TestInv, StreamInv
  <2> QED BY <1>3, <2>1, HandlerRefines DEF TestInv
<1>4. CASE ClientReads
  BY <1>2, <1>3, <1>4 DEF ClientReads, vars, pathVars, rigidVars
<1>5. CASE NoAnswer
  BY <1>3, <1>5 DEF NoAnswer
<1>6. CASE Connect \/ BreakOff \/ ServerReads \/ UNCHANGED allVars
  BY <1>2, <1>6 DEF Connect, Open, BreakOff, ServerReads, allVars, vars, pathVars, rigidVars
<1> QED BY <1>1, <1>4, <1>5, <1>6 DEF TestNext, StreamOver

\* Over any transport the test keeps what its caller is promised.
THEOREM RefinementOverAny == TestSpec => RefinesDiscovery
<1>1. TestInit => Init
  BY DEF TestInit
<1>2. TestInv /\ TestInv' /\ [TestNext]_allVars => [Abstract!Next]_(Abstract!vars)
  BY TestStepRefines
<1> QED BY <1>1, <1>2, InitRefines, TransportInvariance, PTL
     DEF TestSpec, RefinesDiscovery, Abstract!Spec

-----------------------------------------------------------------------------
(* A sequence of tests, each with a session of its own. *)

LEMMA CampaignStarts == CampaignInit => CampaignInv
<1> SUFFICES ASSUME CampaignInit PROVE CampaignInv
  OBVIOUS
<1>1. PICK c \in Campaigns :
        /\ plan = c.plan /\ fixedPort = c.fixedPort
        /\ Begin(c.plan[1]) /\ PathInit(Plain(Server)) /\ timely = c.timely
        /\ verdicts = <<>>
  BY DEF CampaignInit
<1>2. plan \in Seq(Scope) /\ Len(plan) > 0 /\ scope = plan[1]
  BY <1>1, CampaignsAssumption DEF Begin
<1>3. PlanInv
  BY <1>1, <1>2 DEF PlanInv
<1>4. scope \in Scope
  BY <1>2
<1>5. /\ phase = "BindingTest" /\ binding = "Unknown" /\ filtering = "Unknown"
      /\ mapping = "Unknown" /\ public = NoEp /\ other = NoEp /\ public2 = NoEp
  BY <1>1 DEF Begin
<1>6. PathTypeOK /\ NetworkInv /\ contacts = {} /\ request = Plain(Server) /\ AnswerComes
  BY <1>1, PlainType, ServerType, PathStarts, AnswersStart
<1>7. RunInv
  <2>1. TypeOK
    BY <1>4, <1>5, <1>6 DEF TypeOK, Phase, BindingTestResult, FilteringBehavior, MappingBehavior
  <2>2. PhaseInv
    BY <1>5, <1>6, PlainType, ServerType DEF PhaseInv
  <2>3. MappingExact /\ OwnServerNeverBlamed
    BY <1>5 DEF MappingExact, OwnServerNeverBlamed, Misnamed, Dependence
  <2> QED BY <1>6, <2>1, <2>2, <2>3 DEF RunInv
<1>8. FreshRunInv
  BY <1>5, <1>6
  DEF FreshRunInv, PortUndisturbed, FilteringSound, MoreOpen, Dependence, TimelyInv,
      LearntInTime, TimelyTestIsExact
<1>9. SoundOnFreshPorts /\ RunsDoNotMix /\ FullReportsExact
  BY <1>1 DEF SoundOnFreshPorts, ReportedFilteringSound, RunsDoNotMix, FullReportsExact
<1> QED BY <1>3, <1>6, <1>7, <1>8, <1>9 DEF CampaignInv

\* What was reported stays true: it is of the NAT, which does not change.
LEMMA ReportsStand ==
  ASSUME CampaignInv, UNCHANGED <<rigidVars, plan, fixedPort, verdicts>>
  PROVE  SoundOnFreshPorts' /\ RunsDoNotMix' /\ FullReportsExact'
BY DEF CampaignInv, SoundOnFreshPorts, ReportedFilteringSound, RunsDoNotMix,
       FullReportsExact, rigidVars, Seen

\* A step of the run in progress.
LEMMA RunKeepsCampaign ==
  ASSUME CampaignInv, Answered \/ Unanswered \/ Path \/ UNCHANGED vars,
         UNCHANGED <<plan, fixedPort, verdicts>>
  PROVE  CampaignInv'
<1>1. /\ RunInv' /\ AnswerComes'
      /\ PortUndisturbed => PortUndisturbed'
      /\ PortUndisturbed /\ FilteringSound => FilteringSound'
      /\ PortUndisturbed /\ FilteringSound /\ TimelyInv => TimelyInv'
  BY RunStepKeeps DEF CampaignInv
<1>2. UNCHANGED rigidVars /\ scope' = scope
  BY DEF Answered, Unanswered, Path, PathStep, Accept, Expire, Send, Ignore, Serve, Drop, Lose,
         GotResponse, HandleBindingTest, HandleFilteringTest2, HandleFilteringTest3,
         HandleMappingTest2, HandleMappingTest3, vars, pathVars, fsmVars, rigidVars
<1>3. PlanInv'
  BY <1>2 DEF CampaignInv, PlanInv
<1>4. FreshRunInv'
  BY <1>1 DEF CampaignInv, FreshRunInv
<1> QED BY <1>1, <1>2, <1>3, <1>4, ReportsStand DEF CampaignInv

\* What a finished run reports.
LEMMA ReportKeeps ==
  ASSUME CampaignInv, RunEnds, UNCHANGED rigidVars
  PROVE  SoundOnFreshPorts' /\ RunsDoNotMix' /\ FullReportsExact'
<1> DEFINE v == [mapping |-> mapping, filtering |-> filtering]
<1>1. /\ verdicts' = Append(verdicts, v) /\ plan' = plan /\ fixedPort' = fixedPort
      /\ phase = "Done" /\ Len(verdicts) < Len(plan)
      /\ behavior' = behavior /\ deployment' = deployment /\ timely' = timely /\ Seen' = Seen
  BY DEF RunEnds, rigidVars, Seen
<1>2. verdicts \in Seq(Verdict) /\ scope = plan[Len(verdicts) + 1]
  BY <1>1 DEF CampaignInv, PlanInv
<1>3. \A i \in DOMAIN verdicts' :
        \/ i \in DOMAIN verdicts /\ verdicts'[i] = verdicts[i]
        \/ i = Len(verdicts) + 1 /\ verdicts'[i] = v
  BY <1>1, <1>2
<1>4. v.mapping = mapping /\ v.filtering = filtering
  OBVIOUS
<1>5. SoundOnFreshPorts'
  <2>1. ~ fixedPort => ~ MoreOpen(v.filtering, behavior)
    BY <1>4 DEF CampaignInv, FreshRunInv, FilteringSound
  <2> QED BY <1>1, <1>3, <2>1 DEF CampaignInv, SoundOnFreshPorts, ReportedFilteringSound
<1>6. RunsDoNotMix'
  <2>1. /\ ~ Misnamed(v.mapping, Seen)
        /\ deployment = "own" => v.mapping # "UnsupportedServer" /\ v.filtering # "UnsupportedServer"
    BY <1>4 DEF CampaignInv, RunInv, MappingExact, OwnServerNeverBlamed
  <2> QED BY <1>1, <1>3, <2>1 DEF CampaignInv, RunsDoNotMix
<1>7. FullReportsExact'
  <2> SUFFICES ASSUME timely, ~ fixedPort, deployment = "own",
                      NEW i \in DOMAIN verdicts', plan[i] = "Full"
               PROVE  verdicts'[i] = [mapping |-> Seen.mapping, filtering |-> behavior.filtering]
    BY <1>1 DEF FullReportsExact
  <2>1. CASE i \in DOMAIN verdicts /\ verdicts'[i] = verdicts[i]
    BY <2>1 DEF CampaignInv, FullReportsExact
  <2>2. CASE i = Len(verdicts) + 1 /\ verdicts'[i] = v
    BY <1>1, <1>2, <2>2 DEF CampaignInv, FreshRunInv, TimelyInv, TimelyTestIsExact
  <2> QED BY <1>3, <2>1, <2>2
<1> QED BY <1>5, <1>6, <1>7

\* The next run begins on a port that the NAT's table knows nothing about (or
\* on the fixed one), with an id no datagram in flight has.
LEMMA NextRunStarts ==
  ASSUME CampaignInv, RunEnds, Len(verdicts') < Len(plan)
  PROVE  CampaignInv'
<1>1. /\ phase = "Done" /\ Len(verdicts) < Len(plan)
      /\ verdicts' = Append(verdicts, [mapping |-> mapping, filtering |-> filtering])
      /\ BeginNext(plan[Len(verdicts') + 1]) /\ Ask(Plain(Server))
      /\ \E p \in LocalPorts : NextPort(p) /\ port' = p
      /\ UNCHANGED <<rigidVars, contacts, network, plan, fixedPort>>
  BY DEF RunEnds
<1>2. /\ plan \in Seq(Scope) /\ verdicts \in Seq(Verdict)
      /\ mapping \in MappingBehavior /\ filtering \in FilteringBehavior
  BY DEF CampaignInv, PlanInv, RunInv, TypeOK
<1>3. verdicts' \in Seq(Verdict) /\ Len(verdicts') = Len(verdicts) + 1
  BY <1>1, <1>2 DEF Verdict
<1>4. PlanInv' /\ scope' \in Scope
  BY <1>1, <1>2, <1>3 DEF PlanInv, BeginNext
<1>5. /\ phase' = "BindingTest" /\ binding' = "Unknown" /\ filtering' = "Unknown"
      /\ mapping' = "Unknown" /\ public' = NoEp /\ other' = NoEp /\ public2' = NoEp
  BY <1>1 DEF BeginNext
<1>6. /\ request' = Plain(Server) /\ tid' = tid + 1 /\ sends' = 0
      /\ Plain(Server) \in Request /\ Plain(Server) # NoRequest
  BY <1>1, PlainType, ServerType DEF Ask
<1>7. PathTypeOK' /\ NetworkInv'
  <2>1. PathTypeOK /\ NetworkInv
    BY InOrder DEF CampaignInv
  <2>2. tid \in Nat /\ \A m \in network : m.tid \in Nat /\ m.tid <= tid
    BY <2>1 DEF PathTypeOK, NetworkInv, RequestMsg, ResponseMsg
  <2>3. PathTypeOK'
    BY <1>1, <1>6, <2>1, <2>2, SendsAssumption DEF PathTypeOK, rigidVars
  <2>4. NetworkInv'
    BY <1>1, <1>6, <2>2 DEF NetworkInv
  <2> QED BY <2>3, <2>4
<1>8. RunInv'
  <2>1. TypeOK'
    BY <1>4, <1>5, <1>7
    DEF TypeOK, Phase, BindingTestResult, FilteringBehavior, MappingBehavior
  <2>2. PhaseInv'
    BY <1>5, <1>6 DEF PhaseInv, Plain, NoChange, Server, NodeEp, NodeIp, NodePort
  <2>3. MappingExact' /\ OwnServerNeverBlamed'
    BY <1>5 DEF MappingExact, OwnServerNeverBlamed, Misnamed, Dependence
  <2> QED BY <1>7, <2>1, <2>2, <2>3 DEF RunInv
<1>9. AnswerComes'
  BY <1>6, AnswersStartAnew
<1>10. FreshRunInv'
  <2>1. ~ fixedPort => \A c \in contacts' : c.port # port'
    BY <1>1 DEF NextPort
  <2> QED BY <1>1, <1>5, <2>1
       DEF FreshRunInv, PortUndisturbed, FilteringSound, MoreOpen, Dependence, TimelyInv,
           LearntInTime, TimelyTestIsExact
<1> QED BY <1>1, <1>4, <1>8, <1>9, <1>10, ReportKeeps DEF CampaignInv

LEMMA LastRunEnds ==
  ASSUME CampaignInv, RunEnds, ~ Len(verdicts') < Len(plan)
  PROVE  CampaignInv'
<1>1. /\ Len(verdicts) < Len(plan)
      /\ verdicts' = Append(verdicts, [mapping |-> mapping, filtering |-> filtering])
      /\ UNCHANGED <<vars, plan, fixedPort>>
  BY DEF RunEnds
<1>2. /\ plan \in Seq(Scope) /\ verdicts \in Seq(Verdict)
      /\ mapping \in MappingBehavior /\ filtering \in FilteringBehavior
  BY DEF CampaignInv, PlanInv, RunInv, TypeOK
<1>3. PlanInv'
  BY <1>1, <1>2 DEF PlanInv, Verdict
<1>4. UNCHANGED rigidVars
  BY <1>1 DEF vars, pathVars, rigidVars
<1>5. /\ RunInv' /\ AnswerComes'
      /\ PortUndisturbed => PortUndisturbed'
      /\ PortUndisturbed /\ FilteringSound => FilteringSound'
      /\ PortUndisturbed /\ FilteringSound /\ TimelyInv => TimelyInv'
  BY <1>1, RunStepKeeps DEF CampaignInv
<1>6. FreshRunInv'
  BY <1>1, <1>5 DEF CampaignInv, FreshRunInv
<1> QED BY <1>3, <1>4, <1>5, <1>6, ReportKeeps DEF CampaignInv

\* CampaignInv holds throughout a sequence of runs of any length.
THEOREM CampaignInvariance == CampaignSpec => []CampaignInv
<1>1. ASSUME CampaignInv, [CampaignNext]_campaignVars PROVE CampaignInv'
  <2>1. CASE RunEnds
    BY <1>1, <2>1, NextRunStarts, LastRunEnds
  <2>2. CASE ~ RunEnds
    BY <1>1, <2>2, RunKeepsCampaign DEF CampaignNext, CampaignOver, campaignVars
  <2> QED BY <2>1, <2>2
<1> QED BY <1>1, CampaignStarts, PTL DEF CampaignSpec

\* On ports of their own no run's filtering report calls the NAT more open than
\* it is, although the runs before have sent to both server addresses.
THEOREM ReportsSoundOnFreshPorts == CampaignSpec => []SoundOnFreshPorts
<1>1. CampaignInv => SoundOnFreshPorts
  BY DEF CampaignInv
<1> QED BY <1>1, CampaignInvariance, PTL

\* No run takes an answer to an earlier run's request for its own.
THEOREM ReportsDoNotMix == CampaignSpec => []RunsDoNotMix
<1>1. CampaignInv => RunsDoNotMix
  BY DEF CampaignInv
<1> QED BY <1>1, CampaignInvariance, PTL

\* A NAT that keeps its behaviour passes the determinism check: every round
\* reports exactly what the NAT does.
THEOREM DeterminismCheckPasses == CampaignSpec => []DeterministicNatPasses
<1>1. ASSUME CampaignInv PROVE DeterministicNatPasses
  <2> SUFFICES ASSUME timely, ~ fixedPort, deployment = "own",
                      \A i \in DOMAIN plan : plan[i] = "Full",
                      NEW i \in DOMAIN verdicts
               PROVE  verdicts[i] = verdicts[1]
    BY DEF DeterministicNatPasses, MappingConsistent, FilteringConsistent
  <2>1. verdicts \in Seq(Verdict) /\ plan \in Seq(Scope) /\ Len(verdicts) <= Len(plan)
    BY <1>1 DEF CampaignInv, PlanInv
  <2>2. i \in DOMAIN plan /\ 1 \in DOMAIN plan /\ 1 \in DOMAIN verdicts
    BY <2>1
  <2> QED BY <1>1, <2>2 DEF CampaignInv, FullReportsExact
<1> QED BY <1>1, CampaignInvariance, PTL
=============================================================================
