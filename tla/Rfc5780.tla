------------------------------ MODULE Rfc5780 ------------------------------
(***************************************************************************)
(* Stun5389NatBehaviorDiscovery (src/tests/rfc5780_test.cpp): the state    *)
(* machine that finds a NAT's mapping and filtering behaviour by asking a  *)
(* STUN server to answer from its other address and by asking the server   *)
(* at that address.  One action per handler; each consumes either the      *)
(* answer to the current request or the news that there is none.           *)
(***************************************************************************)
EXTENDS StunPath

CONSTANT Scopes       \* the scopes to explore, a subset of Scope

VARIABLES
  scope,       \* BindingOnly, Mapping, Filtering or Full
  phase,       \* which handler got_response dispatches to
  binding,     \* result.binding_test_result
  filtering,   \* result.filtering_behavior
  mapping,     \* result.mapping_behavior
  public,      \* result.public_endpoint
  other,       \* result.other_endpoint
  public2      \* mapping_test2_public_endpoint_

fsmVars == <<scope, phase, binding, filtering, mapping, public, other, public2>>
vars == <<pathVars, fsmVars>>

Scope == {"BindingOnly", "Mapping", "Filtering", "Full"}
Phase == {"BindingTest", "FilteringTest2", "FilteringTest3",
          "MappingTest2", "MappingTest3", "Done"}
BindingTestResult == {"Unknown", "Fail", "UnsupportedServer", "Success"}
FilteringBehavior == {"Unknown", "UnsupportedServer"} \cup Dependence
MappingBehavior   == {"Unknown", "Fail", "UnsupportedServer", "Direct"} \cup Dependence

ASSUME ScopesAssumption == Scopes \subseteq Scope

\* server_, the --stun_server endpoint: the server's first node.
Server == NodeEp(0)

TypeOK ==
  /\ PathTypeOK
  /\ scope \in Scope
  /\ phase \in Phase
  /\ binding \in BindingTestResult
  /\ filtering \in FilteringBehavior
  /\ mapping \in MappingBehavior
  /\ public \in ClientEp \cup {NoEp}
  /\ other \in ServerEp \cup {NoEp}
  /\ public2 \in ClientEp \cup {NoEp}

\* create_query, create_binding_test, create_mapping_behavior_test and
\* create_filtering_behavior_test differ in the scope they set.
Begin(s) ==
  /\ scope = s
  /\ phase = "BindingTest"
  /\ binding = "Unknown" /\ filtering = "Unknown" /\ mapping = "Unknown"
  /\ public = NoEp /\ other = NoEp /\ public2 = NoEp

Init == \E s \in Scopes : Begin(s) /\ PathInit(Plain(Server))

-----------------------------------------------------------------------------
(* Attributes of an answer that may be missing, as may the answer. *)

MappedIn(r) == IF r = NoResponse THEN NoEp ELSE r.mapped
OtherIn(r)  == IF r = NoResponse THEN NoEp ELSE r.other

HasValidOtherAddress(o) == o # NoEp /\ o.ip # Server.ip /\ o.port # Server.port

Finish == phase' = "Done" /\ AskNothing

\* Faulty variant, for mutation: the other address is asked to answer.
AskFilteringTest2AtOther ==
  phase' = "FilteringTest2" /\ Ask(Changed(other', ChangeBoth))

\* transition_to_filtering_test2
AskFilteringTest2 == phase' = "FilteringTest2" /\ Ask(Changed(Server, ChangeBoth))

\* Faulty variants, for mutation: the second mapping request goes to the other
\* port of the same address; the test goes on after it has found no NAT.
MappingOrDoneOtherPort(pub, oth) ==
  IF pub = SocketLocalEndpoint
  THEN mapping' = "Direct" /\ Finish
  ELSE /\ phase' = "MappingTest2"
       /\ Ask(Plain([ip |-> Server.ip, port |-> oth.port]))
       /\ UNCHANGED mapping

MappingAndNotDone(pub, oth) ==
  /\ mapping' = IF pub = SocketLocalEndpoint THEN "Direct" ELSE mapping
  /\ phase' = "MappingTest2"
  /\ Ask(Plain([ip |-> oth.ip, port |-> Server.port]))

\* transition_to_mapping_or_done, given the public and other endpoints
MappingOrDone(pub, oth) ==
  IF pub = SocketLocalEndpoint
  THEN mapping' = "Direct" /\ Finish
  ELSE /\ phase' = "MappingTest2"
       /\ Ask(Plain([ip |-> oth.ip, port |-> Server.port]))
       /\ UNCHANGED mapping

\* transition_after_filtering
AfterFiltering ==
  IF scope = "Full" /\ filtering' # "UnsupportedServer"
  THEN MappingOrDone(public, other)
  ELSE Finish /\ UNCHANGED mapping

-----------------------------------------------------------------------------
(* The handlers; r is the response, or NoResponse. *)

HandleBindingTest(r) ==
  /\ phase = "BindingTest"
  /\ binding' = IF r = NoResponse THEN "Fail"
                ELSE IF r.mapped = NoEp THEN "UnsupportedServer" ELSE "Success"
  /\ public' = MappedIn(r)
  /\ other' = OtherIn(r)
  /\ \/ /\ scope = "BindingOnly" \/ binding' # "Success"
        /\ Finish
        /\ UNCHANGED <<filtering, mapping>>
     \/ /\ scope # "BindingOnly" /\ binding' = "Success"
        /\ ~ HasValidOtherAddress(other')
        /\ filtering' = IF scope = "Mapping" THEN filtering ELSE "UnsupportedServer"
        /\ mapping' = IF scope = "Mapping" THEN "UnsupportedServer" ELSE mapping
        /\ Finish
     \/ /\ scope \in {"Filtering", "Full"} /\ binding' = "Success"
        /\ HasValidOtherAddress(other')
        /\ AskFilteringTest2
        /\ UNCHANGED <<filtering, mapping>>
     \/ /\ scope = "Mapping" /\ binding' = "Success"
        /\ HasValidOtherAddress(other')
        /\ MappingOrDone(public', other')
        /\ UNCHANGED filtering
  /\ UNCHANGED <<scope, public2>>

\* Faulty variant, for mutation: the answer's source is not looked at.
FilteringTest2AnySource(r) ==
  /\ phase = "FilteringTest2"
  /\ IF r = NoResponse
     THEN /\ phase' = "FilteringTest3"
          /\ Ask(Changed(Server, ChangePort))
          /\ UNCHANGED <<filtering, mapping>>
     ELSE /\ filtering' = "EndpointIndependent"
          /\ AfterFiltering
  /\ UNCHANGED <<scope, binding, public, other, public2>>

HandleFilteringTest2(r) ==
  /\ phase = "FilteringTest2"
  /\ IF r = NoResponse
     THEN /\ phase' = "FilteringTest3"
          /\ Ask(Changed(Server, ChangePort))
          /\ UNCHANGED <<filtering, mapping>>
     ELSE /\ filtering' = IF r.remote = other THEN "EndpointIndependent"
                                              ELSE "UnsupportedServer"
          /\ AfterFiltering
  /\ UNCHANGED <<scope, binding, public, other, public2>>

HandleFilteringTest3(r) ==
  /\ phase = "FilteringTest3"
  /\ filtering' = IF r = NoResponse THEN "AddressAndPortDependent"
                  ELSE IF r.remote.ip = Server.ip /\ r.remote.port # Server.port
                       THEN "AddressDependent" ELSE "UnsupportedServer"
  /\ AfterFiltering
  /\ UNCHANGED <<scope, binding, public, other, public2>>

HandleMappingTest2(r) ==
  /\ phase = "MappingTest2"
  /\ \/ /\ MappedIn(r) = NoEp
        /\ mapping' = "Fail" /\ Finish /\ UNCHANGED public2
     \/ /\ MappedIn(r) # NoEp /\ MappedIn(r) = public
        /\ mapping' = "EndpointIndependent" /\ Finish /\ UNCHANGED public2
     \/ /\ MappedIn(r) \notin {NoEp, public}
        /\ public2' = MappedIn(r)
        /\ phase' = "MappingTest3" /\ Ask(Plain(other)) /\ UNCHANGED mapping
  /\ UNCHANGED <<scope, binding, filtering, public, other>>

HandleMappingTest3(r) ==
  /\ phase = "MappingTest3"
  /\ mapping' = IF MappedIn(r) = NoEp THEN "Fail"
                ELSE IF MappedIn(r) = public2 THEN "AddressDependent"
                ELSE "AddressAndPortDependent"
  /\ Finish
  /\ UNCHANGED <<scope, binding, filtering, public, other, public2>>

\* got_response
GotResponse(r) == \/ HandleBindingTest(r)
                  \/ HandleFilteringTest2(r)
                  \/ HandleFilteringTest3(r)
                  \/ HandleMappingTest2(r)
                  \/ HandleMappingTest3(r)

\* The loop of run_rfc5780_test: action = got_response(session.request(action)).
Answered == \E m \in network : Accept(m) /\ GotResponse(ResponseOf(m))
Unanswered == Expire /\ GotResponse(NoResponse)
Path == PathStep /\ UNCHANGED fsmVars

\* The discovery is over; nothing more happens.
Over == phase = "Done" /\ network = {} /\ UNCHANGED vars

Next == Answered \/ Unanswered \/ Path \/ Over

Spec == Init /\ [][Next]_vars

-----------------------------------------------------------------------------
(* Properties. *)

Rank(d) == IF d = "EndpointIndependent" THEN 0
           ELSE IF d = "AddressDependent" THEN 1 ELSE 2

\* The NAT as the session can know it: an untranslated port differs from the
\* local endpoint of a socket bound to the wildcard address, and never varies.
Seen == IF behavior.mapping = "Direct" /\ bind = "wildcard"
        THEN [behavior EXCEPT !.mapping = "EndpointIndependent"] ELSE behavior

MoreOpen(verdict, b) == verdict \in Dependence /\ Rank(verdict) < Rank(b.filtering)
Misnamed(verdict, b) == verdict \in Dependence \cup {"Direct"} /\ verdict # b.mapping

\* No verdict of run_rfc5780_test calls the NAT's filter more open than it is,
\* whatever the network loses, delays, repeats or reorders.  A lost packet may
\* only make the NAT look stricter.
FilteringSound == ~ MoreOpen(filtering, behavior)

\* A mapping verdict other than Fail or UnsupportedServer is the NAT's mapping
\* behaviour as far as the session's socket lets it be known: it rests on the
\* addresses in answers, which cannot be of an earlier exchange.
MappingExact == ~ Misnamed(mapping, Seen)

\* README, section 5.2: Direct is the verdict where there is no NAT (the
\* external mapping equals the local address), so no other verdict describes
\* such a host.
NoNatIsDirect == behavior.mapping = "Direct" => mapping \notin Dependence

\* The client never calls this repository's server, on two addresses, unable
\* to serve the test, even when answers arrive late or twice.
OwnServerNeverBlamed ==
  deployment = "own" => "UnsupportedServer" \notin {binding, filtering, mapping}

\* With nothing lost and every answer in time, the finished test has found
\* exactly what the NAT does.
TimelyTestIsExact ==
  timely /\ phase = "Done" /\ deployment = "own" =>
    /\ binding = "Success"
    /\ filtering = IF scope \in {"Filtering", "Full"} THEN behavior.filtering ELSE "Unknown"
    /\ mapping   = IF scope \in {"Mapping", "Full"} THEN Seen.mapping ELSE "Unknown"

\* Until the filtering verdict is in, the test has sent to no address but the
\* one it was given: a packet to the other address would open the very filter
\* being measured.
FilterUndisturbed ==
  phase \in {"BindingTest", "FilteringTest2", "FilteringTest3"} =>
    \A c \in contacts : c.to = Server

(* Why the verdicts are sound: the inductive invariant. *)

\* What each phase has asked, and what it has learnt.
AltTarget == [ip |-> other.ip, port |-> Server.port]

PhaseInv ==
  /\ phase = "Done" <=> request = NoRequest
  /\ phase = "BindingTest"    => request = Plain(Server)
  /\ phase = "FilteringTest2" => request = Changed(Server, ChangeBoth)
  /\ phase = "FilteringTest3" => request = Changed(Server, ChangePort)
  /\ phase = "MappingTest2"   => request = Plain(AltTarget)
  /\ phase = "MappingTest3"   => request = Plain(other)
  /\ phase \notin {"BindingTest", "Done"} =>
        /\ HasValidOtherAddress(other)
        /\ public = External(behavior, port, Server)
        /\ deployment = "own" => other = NodeEp(3)
  /\ phase # "Done" => mapping = "Unknown"
  /\ phase \in {"BindingTest", "FilteringTest2", "FilteringTest3"} => filtering = "Unknown"
  /\ phase \in {"MappingTest2", "MappingTest3"} => public # SocketLocalEndpoint
  /\ phase = "MappingTest3" =>
        public2 = External(behavior, port, AltTarget) /\ public2 # public

\* What a run keeps to whatever the NAT's table held before it began.
RunInv == TypeOK /\ NetworkInv /\ PhaseInv /\ MappingExact /\ OwnServerNeverBlamed

IInv == RunInv /\ FilterUndisturbed /\ FilteringSound

\* No session that was bound to this one's port has disturbed the filter.
PortUndisturbed ==
  phase \in {"BindingTest", "FilteringTest2", "FilteringTest3"} =>
    \A c \in contacts : c.port = port => c.to = Server

\* What each phase goes by, where nothing is lost: the tests before have told
\* all that they can.
LearntInTime ==
  timely /\ deployment = "own" =>
    /\ phase # "BindingTest" => binding = "Success"
    /\ phase \in {"FilteringTest2", "FilteringTest3"} => scope \in {"Filtering", "Full"}
    /\ phase = "FilteringTest3" => behavior.filtering # "EndpointIndependent"
    /\ phase \in {"MappingTest2", "MappingTest3"} =>
         /\ scope \in {"Mapping", "Full"}
         /\ filtering = IF scope = "Full" THEN behavior.filtering ELSE "Unknown"

TimelyInv == LearntInTime /\ TimelyTestIsExact

\* What the test promises, step by step, is the abstract specification
\* Discovery.
Abstract == INSTANCE Discovery WITH
  behavior          <- Seen,
  done              <- phase = "Done",
  FilteringVerdicts <- FilteringBehavior \ {"Unknown"},
  MappingVerdicts   <- MappingBehavior \ {"Unknown"},
  FlattersFilter    <- MoreOpen,
  FlattersMapping   <- Misnamed
RefinesDiscovery == Abstract!Spec
=============================================================================
