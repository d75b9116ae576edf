------------------------------ MODULE Rfc3489 ------------------------------
(***************************************************************************)
(* Stun3489NatTypeDiscovery (src/tests/rfc3489_test.cpp): the classic      *)
(* Test I / II / I(2) / III state machine.  It shares the UDP session, the *)
(* network and the server with Rfc5780 through StunPath.                   *)
(***************************************************************************)
EXTENDS StunPath

VARIABLES
  phase,       \* Phase
  natType,     \* result.nat_type
  public,      \* result.public_endpoint
  remote1,     \* test1_remote_
  mapped1,     \* mapped_address1_
  changed      \* changed_address_

fsmVars == <<phase, natType, public, remote1, mapped1, changed>>
vars == <<pathVars, fsmVars>>

Phase == {"Test1", "Test2", "Test1_2", "Test3", "Done"}
NatType == {"Unknown", "UdpBlocked", "UnsupportedServer", "OpenInternet",
            "SymmetricUdpFirewall", "FullCone", "RestrictedCone",
            "PortRestrictedCone", "Symmetric"}

Server == NodeEp(0)

TypeOK ==
  /\ PathTypeOK
  /\ phase \in Phase
  /\ natType \in NatType
  /\ public \in ClientEp \cup {NoEp}
  /\ mapped1 \in ClientEp \cup {NoEp}
  /\ remote1 \in ServerEp \cup {NoEp}
  /\ changed \in ServerEp \cup {NoEp}

\* create_query
Init == /\ PathInit(Plain(Server))
        /\ phase = "Test1"
        /\ natType = "Unknown"
        /\ public = NoEp /\ remote1 = NoEp /\ mapped1 = NoEp /\ changed = NoEp

-----------------------------------------------------------------------------
Conclude(type, endpoint) ==
  /\ natType' = type
  /\ public' = endpoint
  /\ phase' = "Done"
  /\ AskNothing

Proceed(next, action) ==
  /\ phase' = next
  /\ Ask(action)
  /\ UNCHANGED natType

MappedIn(r) == IF r = NoResponse THEN NoEp ELSE r.mapped

SameAddress(a, b) == a.ip = b.ip

HandleTest1(r) ==
  /\ phase = "Test1"
  /\ IF r = NoResponse
     THEN Conclude("UdpBlocked", public) /\ UNCHANGED <<remote1, mapped1, changed>>
     ELSE /\ remote1' = r.remote
          /\ mapped1' = r.mapped
          /\ changed' = r.other
          /\ IF \/ r.mapped = NoEp \/ r.other = NoEp
                \/ SameAddress(r.other, r.remote) \/ r.other.port = r.remote.port
             THEN Conclude("UnsupportedServer", r.mapped)
             ELSE Proceed("Test2", Changed(Server, ChangeBoth)) /\ public' = r.mapped

\* Test I's answer and this one came from the same address or the same port.
\* Faulty variant, for mutation: the answer's source is not looked at.
FromSameSideNever(r) == r = NoResponse

FromSameSide(r) == SameAddress(remote1, r.remote) \/ remote1.port = r.remote.port

HandleTest2(r) ==
  /\ phase = "Test2"
  /\ IF r # NoResponse /\ FromSameSide(r)
     THEN Conclude("UnsupportedServer", r.mapped)
     ELSE CASE mapped1 = SocketLocalEndpoint /\ r = NoResponse ->
                 Conclude("SymmetricUdpFirewall", mapped1)
            [] mapped1 = SocketLocalEndpoint /\ r # NoResponse ->
                 Conclude("OpenInternet", r.mapped)
            [] mapped1 # SocketLocalEndpoint /\ r # NoResponse ->
                 Conclude("FullCone", r.mapped)
            [] OTHER ->
                 Proceed("Test1_2", Plain(changed)) /\ UNCHANGED public
  /\ UNCHANGED <<remote1, mapped1, changed>>

HandleTest1_2(r) ==
  /\ phase = "Test1_2"
  /\ CASE r = NoResponse         -> Conclude("Unknown", public)
       [] MappedIn(r) = NoEp /\ r # NoResponse -> Conclude("UnsupportedServer", public)
       [] MappedIn(r) \notin {NoEp, mapped1}   -> Conclude("Symmetric", r.mapped)
       [] OTHER                  -> Proceed("Test3", Changed(Server, ChangePort))
                                    /\ UNCHANGED public
  /\ UNCHANGED <<remote1, mapped1, changed>>

HandleTest3(r) ==
  /\ phase = "Test3"
  /\ IF /\ MappedIn(r) # NoEp
        /\ SameAddress(r.remote, remote1) /\ r.remote.port # remote1.port
     THEN Conclude("RestrictedCone", r.mapped)
     ELSE Conclude("PortRestrictedCone", mapped1)
  /\ UNCHANGED <<remote1, mapped1, changed>>

\* got_response
GotResponse(r) ==
  HandleTest1(r) \/ HandleTest2(r) \/ HandleTest1_2(r) \/ HandleTest3(r)

\* The loop of run_rfc3489_test.
Answered == \E m \in network : Accept(m) /\ GotResponse(ResponseOf(m))
Unanswered == Expire /\ GotResponse(NoResponse)
Path == PathStep /\ UNCHANGED fsmVars
Over == phase = "Done" /\ network = {} /\ UNCHANGED vars

Next == Answered \/ Unanswered \/ Path \/ Over

Spec == Init /\ [][Next]_vars

-----------------------------------------------------------------------------
(* Properties. *)

\* The mapping is not the session's own local endpoint, as the session knows it:
\* an untranslated port looks translated to a socket bound to the wildcard.
Translating == behavior.mapping # "Direct" \/ bind = "wildcard"

SeenMapping == IF behavior.mapping = "Direct" /\ Translating
               THEN "EndpointIndependent" ELSE behavior.mapping

\* The verdicts that rest on an answer are true of the NAT whatever the network
\* loses, delays, repeats or reorders: the cone types other than the strictest
\* need a packet the filter let in, Symmetric needs two different mappings, and
\* the two untranslated types an address that is the client's own.
PositiveVerdictsSound ==
  /\ natType = "OpenInternet" =>
       ~ Translating /\ behavior.filtering = "EndpointIndependent"
  /\ natType = "SymmetricUdpFirewall" => ~ Translating
  /\ natType = "FullCone" =>
       Translating /\ behavior.filtering = "EndpointIndependent"
  /\ natType = "RestrictedCone" =>
       /\ SeenMapping = "EndpointIndependent"
       /\ behavior.filtering # "AddressAndPortDependent"
  /\ natType = "PortRestrictedCone" => SeenMapping = "EndpointIndependent"
  /\ natType = "Symmetric" =>
       behavior.mapping \in {"AddressDependent", "AddressAndPortDependent"}

\* The classic taxonomy: what the four tests are meant to find.
Taxonomy ==
  LET open == behavior.filtering = "EndpointIndependent"
      byIp == behavior.filtering = "AddressDependent"
      cone == SeenMapping = "EndpointIndependent"
  IN  CASE ~ Translating /\ open          -> "OpenInternet"
        [] ~ Translating /\ ~ open        -> "SymmetricUdpFirewall"
        [] Translating /\ open            -> "FullCone"
        [] Translating /\ ~ open /\ ~ cone -> "Symmetric"
        [] Translating /\ byIp /\ cone    -> "RestrictedCone"
        [] OTHER                          -> "PortRestrictedCone"

\* With nothing lost and every answer in time, the verdict is the taxonomy's.
TimelyTestIsExact ==
  timely /\ phase = "Done" /\ deployment = "own" => natType = Taxonomy
=============================================================================
