------------------------------- MODULE Rfc5597 -------------------------------
(***************************************************************************)
(* The RFC 5597 DCCP test (Rfc5597Test::runTest,                           *)
(* src/tests/rfc5597_test.cpp) with the server's DCCP registry             *)
(* (src_ser/main.cpp).  The client sends DCCP-Requests from a port X with  *)
(* raw sockets, each with a random service code.  The server's poll thread *)
(* records where they came from.  Over TCP commands, served by threads of  *)
(* their own, the client asks for a record by its code, or has the server  *)
(* send a packet or an ICMP error back.                                    *)
(*                                                                         *)
(* A service code is named here by the test and the operation that drew    *)
(* it.  No verdict of a test is read by another, so only the last one is   *)
(* kept.  All requests go to one port per address: what depends on the     *)
(* remote's address and what depends on its port too look alike.           *)
(***************************************************************************)
EXTENDS Integers, Sequences, FiniteSets

CONSTANTS
  None,          \* no endpoint
  Plans,         \* the plans to explore, a subset of Plan
  MaxInFlight    \* bound: packets on their way at one time

VARIABLES
  nat, plan, timely,  \* never change; timely: nothing is lost, late or refused
  contacts,      \* the remotes the NAT has seen X send to
  network,       \* packets on their way
  packetsByEp,   \* dccp_ctx.packets_by_ep: the outside endpoints recorded
  requestsBySc,  \* dccp_ctx.requests_by_sc, for the codes of the present test
  test, op,      \* where the client is: its test, and the operation in that
  mapped,        \* mapped_ep: X's outside endpoint as the integrity test found it
  noted,         \* the first of two endpoints a test compares
  forwarded,     \* icmp_forwarded
  outcome        \* the test that ended last, and its verdict

rigidVars == <<nat, plan, timely>>
pathVars == <<contacts, network>>
serverVars == <<packetsByEp, requestsBySc>>
clientVars == <<test, op, mapped, noted, forwarded, outcome>>
vars == <<rigidVars, pathVars, serverVars, clientVars>>

Remote == {"primary", "secondary"}
Tests == <<"integrity", "mapping", "filtering", "simOpen", "sync", "overloading", "hairpin", "icmp">>
Test == {Tests[i] : i \in DOMAIN Tests}
Plan == Test \cup {"all"}        \* "integrity" is --test-type service-code

ASSUME Parameters == Plans \subseteq Plan /\ MaxInFlight \in Nat \ {0}

-----------------------------------------------------------------------------
(* The NAT: outside endpoints of inside ports, and what gets in. *)

NatBehavior ==
  [mapping : {"independent", "dependent"}, filtering : {"independent", "dependent"},
   dropsSync : BOOLEAN, hairpins : BOOLEAN, forwardsIcmp : BOOLEAN, icmpKills : BOOLEAN]

Endpoint == [port : {"X", "Y", "other"}, remotes : (SUBSET Remote) \ {{}}]
ASSUME NoneIsNone == None \notin Endpoint

Outside(port, r) ==
  [port |-> port, remotes |-> IF nat.mapping = "independent" THEN Remote ELSE {r}]

\* Another host behind this NAT, whose packets the server may have recorded.
Stranger == [port |-> "other", remotes |-> Remote]

Code == Test \X (1..4)
Packet ==
  [kind : {"request"}, from : Endpoint, code : Code] \cup
  [kind : {"probe"}, from : Remote \cup {"inside"}, to : Endpoint, type : {0, 8}, code : Code] \cup
  [kind : {"icmp"}, about : Endpoint]

Admits(m) ==
  /\ m.type = 8 => ~ nat.dropsSync
  /\ IF m.from = "inside" THEN nat.hairpins
     ELSE \E r \in contacts \cap m.to.remotes : nat.filtering = "independent" \/ r = m.from

-----------------------------------------------------------------------------
(* The tests as sequences of operations. *)

Request(port, to)   == [kind |-> "request", port |-> port, to |-> to]
Ask(i)              == [kind |-> "ask", of |-> i]           \* DCCP_GET_REQ
SendBack(from, typ) == [kind |-> "send", from |-> from, type |-> typ]
Inject              == [kind |-> "inject"]                  \* DCCP_I
Await(what)         == [kind |-> "await", what |-> what]

Script(t) ==
  CASE t = "integrity"   -> <<Request("X", "primary"), Ask(1)>>
    [] t = "mapping"     -> <<Request("X", "primary"), Ask(1), Request("X", "secondary"), Ask(3)>>
    [] t = "filtering"   -> <<SendBack("secondary", 0), Await("probe")>>
    [] t = "simOpen"     -> <<Request("X", "primary"), SendBack("primary", 0), Await("probe")>>
    [] t = "sync"        -> <<SendBack("primary", 8), Await("probe")>>
    [] t = "overloading" -> <<Request("X", "primary"), Request("Y", "primary"), Ask(1), Ask(2)>>
    [] t = "hairpin"     -> <<Request("X", "primary"), Request("B", "mapped"), Await("probe")>>
    [] t = "icmp"        -> <<Inject, Await("icmp"), SendBack("primary", 0), Await("probe")>>

Running == test # "done"
Op == Script(test)[op]
Doing(kind) == Running /\ Op.kind = kind
Awaiting(what) == Doing("await") /\ Op.what = what

Verdict == {"Pass", "Fail", "Inconclusive", "Unknown", "EndpointIndependent", "AddressAndPortDependent"}

TypeOK ==
  /\ nat \in NatBehavior /\ plan \in Plan /\ timely \in BOOLEAN
  /\ contacts \subseteq Remote
  /\ \A m \in network : m \in Packet
  /\ packetsByEp \subseteq Endpoint
  /\ requestsBySc \in [1..4 -> Endpoint \cup {None}]
  /\ test \in Test \cup {"done"} /\ op \in 1..4
  /\ mapped \in Endpoint \cup {None}
  /\ test \notin {"integrity", "done"} => mapped # None    \* they are sent to it
  /\ noted \in Endpoint \cup {None}
  /\ forwarded \in {"Unknown", "Pass", "Fail", "Inconclusive"}
  /\ outcome \in [test : Test \cup {"none"}, verdict : Verdict]

NoRequests == [i \in 1..4 |-> None]

Init ==
  /\ nat \in NatBehavior /\ plan \in Plans /\ timely \in BOOLEAN
  /\ contacts = {} /\ network = {}
  /\ packetsByEp \in {{}, {Stranger}} /\ requestsBySc = NoRequests
  /\ test = "integrity" /\ op = 1
  /\ mapped = None /\ noted = None /\ forwarded = "Unknown"
  /\ outcome = [test |-> "none", verdict |-> "Unknown"]

-----------------------------------------------------------------------------
(* The client: from one operation and one test to the next. *)

\* runTest: the other tests need the endpoint found by the first.
NextTest(v) ==
  IF test = "integrity" /\ v # "Pass" THEN "done"
  ELSE IF plan = "all" /\ test # "icmp" THEN Tests[1 + CHOOSE i \in DOMAIN Tests : Tests[i] = test]
  ELSE IF test = "integrity" /\ plan \notin {"integrity", "all"} THEN plan
  ELSE "done"

Continue == op' = op + 1 /\ UNCHANGED <<test, noted, outcome, requestsBySc>>
Note(e) == op' = op + 1 /\ noted' = e /\ UNCHANGED <<test, outcome, requestsBySc>>

End(v) ==
  /\ outcome' = [test |-> test, verdict |-> v]
  /\ test' = NextTest(v) /\ op' = 1
  /\ noted' = None
  /\ requestsBySc' = NoRequests      \* the codes of this test are not asked for again

\* send_dccp_request.
SendRequest ==
  /\ Doing("request") /\ Cardinality(network) < MaxInFlight
  /\ IF Op.to = "mapped"
     THEN /\ network' = network \cup {[kind |-> "probe", from |-> "inside", to |-> mapped,
                                       type |-> 0, code |-> <<test, op>>]}
          /\ UNCHANGED contacts
     ELSE /\ network' = network \cup {[kind |-> "request", from |-> Outside(Op.port, Op.to),
                                       code |-> <<test, op>>]}
          /\ contacts' = IF Op.port = "X" THEN contacts \cup {Op.to} ELSE contacts
  /\ Continue
  /\ UNCHANGED <<rigidVars, packetsByEp, mapped, forwarded>>

\* DCCP_GET_REQ, 300 ms after the request, and what the test makes of the answer.
AskForRecord ==
  /\ Doing("ask")
  /\ timely => ~ \E m \in network : m.kind = "request"
  /\ LET e == requestsBySc[Op.of]
     IN  \/ /\ test = "integrity"
            /\ mapped' = e
            /\ End(IF e = None THEN "Fail" ELSE "Pass")
         \/ /\ test = "mapping" /\ Op.of = 1
            /\ IF e = None THEN End("Fail") ELSE Note(e)
            /\ UNCHANGED mapped
         \/ /\ test = "mapping" /\ Op.of = 3
            /\ End(IF e = noted THEN "EndpointIndependent" ELSE "AddressAndPortDependent")
            /\ UNCHANGED mapped
         \/ /\ test = "overloading" /\ Op.of = 1
            /\ Note(e) /\ UNCHANGED mapped
         \/ /\ test = "overloading" /\ Op.of = 2
            /\ End(CASE None \in {noted, e} -> "Inconclusive"
                     [] e = noted           -> "Fail"
                     [] OTHER               -> "Pass")
            /\ UNCHANGED mapped
  /\ UNCHANGED <<rigidVars, pathVars, packetsByEp, forwarded>>

\* An exception: a raw socket refuses, or the command's connection fails.
OpFailsVerdict ==
  CASE test = "integrity" /\ op = 1  -> "Fail"
    [] test = "mapping"              -> IF op = 3 THEN "AddressAndPortDependent" ELSE "Fail"
    [] test = "filtering"            -> "Unknown"
    [] OTHER                         -> "Inconclusive"

\* Faulty variant, for mutation: it is tried again.
OpRetries ==
  /\ Running /\ Op.kind # "await" /\ ~ timely
  /\ op' = 1
  /\ UNCHANGED <<rigidVars, pathVars, serverVars, test, mapped, noted, forwarded, outcome>>

OpFails ==
  /\ Running /\ Op.kind # "await" /\ ~ timely
  /\ End(OpFailsVerdict)
  /\ forwarded' = IF test = "icmp" /\ op = 1 THEN "Inconclusive" ELSE forwarded
  /\ UNCHANGED <<rigidVars, pathVars, packetsByEp, mapped>>

\* Faulty variant, for mutation: any packet is taken for the Sync.
DecideUnread(m) ==
  LET mine == m.code[1] = test
  IN  CASE test = "filtering" -> IF mine THEN "EndpointIndependent" ELSE "AddressAndPortDependent"
        [] test = "sync"      -> "Fail"
        [] test = "hairpin"   -> "Pass"
        [] OTHER              -> IF mine THEN "Pass" ELSE "Fail"

\* What a test makes of the first DCCP packet that comes to X.  The Sync has no
\* service code, and the hairpin test does not look at the code.
Decide(m) ==
  LET mine == m.code[1] = test
  IN  CASE test = "filtering" -> IF mine THEN "EndpointIndependent" ELSE "AddressAndPortDependent"
        [] test = "sync"      -> IF m.type = 8 THEN "Fail" ELSE "Pass"
        [] test = "hairpin"   -> "Pass"
        [] OTHER              -> IF mine THEN "Pass" ELSE "Fail"

\* recv_dccp_packet.
Receive(m) ==
  /\ Awaiting("probe") /\ m.kind = "probe" /\ Admits(m)
  /\ network' = network \ {m}
  /\ End(Decide(m))
  /\ UNCHANGED <<rigidVars, contacts, packetsByEp, mapped, forwarded>>

\* The time of recv_dccp_packet or recv_icmp_dccp_error is over.
WaitEnds ==
  /\ Doing("await")
  /\ timely => network = {}
  /\ IF Op.what = "icmp"
     THEN forwarded' = "Fail" /\ Continue
     ELSE /\ End(CASE test = "filtering" -> "AddressAndPortDependent"
                   [] test = "sync"      -> "Pass"
                   [] OTHER              -> "Fail")
          /\ UNCHANGED forwarded
  /\ UNCHANGED <<rigidVars, pathVars, packetsByEp, mapped>>

-----------------------------------------------------------------------------
(* The server. *)

\* Faulty variant, for mutation: there is one record for all codes.
RecordAnyCode(m) ==
  /\ m.kind = "request"
  /\ network' = network \ {m}
  /\ packetsByEp' = packetsByEp \cup {m.from}
  /\ requestsBySc' = [i \in 1..4 |-> m.from]
  /\ UNCHANGED <<rigidVars, contacts, clientVars>>

\* handle_dccp_packet, in the poll thread.
Record(m) ==
  /\ m.kind = "request"
  /\ network' = network \ {m}
  /\ packetsByEp' = packetsByEp \cup {m.from}
  /\ requestsBySc' = IF m.code[1] = test THEN [requestsBySc EXCEPT ![m.code[2]] = m.from]
                     ELSE requestsBySc
  /\ UNCHANGED <<rigidVars, contacts, clientVars>>

\* Faulty variant, for mutation: the role of DCCP_SEND is not looked at.
SourceIgnored(role) == "primary"

\* n_idx: the server's address a role of DCCP_SEND stands for.
Source(role) == role

\* DCCP_SEND.  The client does not look at the answer.
SendProbe ==
  /\ Doing("send") /\ Cardinality(network) < MaxInFlight
  /\ network' = network \cup {[kind |-> "probe", from |-> Source(Op.from), to |-> mapped,
                               type |-> Op.type, code |-> <<test, op>>]}
  /\ Continue
  /\ UNCHANGED <<rigidVars, contacts, packetsByEp, mapped, forwarded>>

\* Faulty variant, for mutation: the error names the port of the TCP command,
\* which is no DCCP port.
InjectControlPort ==
  /\ Doing("inject")
  /\ Continue
  /\ UNCHANGED <<rigidVars, pathVars, packetsByEp, mapped, forwarded>>

\* DCCP_I: an ICMP error about the recorded endpoint of the client's outside
\* address that comes first in hash order.  (There is one: the client's own.)
InjectIcmp ==
  /\ Doing("inject") /\ Cardinality(network) < MaxInFlight
  /\ \E e \in packetsByEp : network' = network \cup {[kind |-> "icmp", about |-> e]}
  /\ Continue
  /\ UNCHANGED <<rigidVars, contacts, packetsByEp, mapped, forwarded>>

-----------------------------------------------------------------------------
(* The network and the NAT. *)

\* The error comes to the NAT, which finds out whose mapping it names, if its
\* quoted remote fits: it may remove the mapping, and may let the error in.
TranslateIcmp(m) ==
  /\ m.kind = "icmp"
  /\ network' = network \ {m}
  /\ LET ofX == m.about.port = "X" /\ "primary" \in m.about.remotes
     IN  /\ contacts' = IF ofX /\ nat.icmpKills THEN contacts \ m.about.remotes ELSE contacts
         /\ IF ofX /\ nat.forwardsIcmp /\ Awaiting("icmp")
            THEN forwarded' = "Pass" /\ Continue
            ELSE UNCHANGED <<forwarded, test, op, noted, outcome, requestsBySc>>
  /\ UNCHANGED <<rigidVars, packetsByEp, mapped>>

\* The NAT refuses m, or no socket listens.
Drop(m) ==
  /\ m.kind = "probe" /\ (Awaiting("probe") => ~ Admits(m))
  /\ network' = network \ {m}
  /\ UNCHANGED <<rigidVars, contacts, serverVars, clientVars>>

Lose(m) ==
  /\ ~ timely
  /\ network' = network \ {m}
  /\ UNCHANGED <<rigidVars, contacts, serverVars, clientVars>>

Over == test = "done" /\ network = {} /\ UNCHANGED vars

Client == SendRequest \/ AskForRecord \/ SendProbe \/ InjectIcmp \/ OpFails \/ WaitEnds
Transit == \E m \in network : Record(m) \/ Receive(m) \/ TranslateIcmp(m) \/ Drop(m)

Next == Client \/ Transit \/ Over \/ \E m \in network : Lose(m)

Spec == Init /\ [][Next]_vars

\* The client and the server's threads run, each wait has a limit, and no packet
\* stays on its way for ever.
FairSpec == Spec /\ WF_vars(Client) /\ WF_vars(Transit)

-----------------------------------------------------------------------------
(* Properties. *)

Ended(t, v) == outcome = [test |-> t, verdict |-> v]

\* A mapping called endpoint-independent is so: its two requests are recorded
\* under codes of their own, and an answer never comes from an earlier record.
MappingSound == Ended("mapping", "EndpointIndependent") => nat.mapping = "independent"

\* What a test run by itself says to be open is open: the filter for a remote
\* that X has not sent to, and the way from inside to inside.
SoundWhenTestedAlone ==
  plan # "all" =>
    /\ Ended("filtering", "EndpointIndependent") => nat.filtering = "independent"
    /\ Ended("hairpin", "Pass") => nat.hairpins

\* A Sync that is said to come through has come through: the probes of earlier
\* tests, which come to the same port, are not taken for it.
SyncSound == Ended("sync", "Fail") => ~ nat.dropsSync

\* The mapping test has contacted the secondary through the mapping that the
\* filtering test probes; other endpoints of the client's address are recorded.
Disturbed ==
  \/ outcome.test = "filtering" /\ plan = "all" /\ nat.mapping = "independent"
  \/ outcome.test = "icmp" /\ packetsByEp # {mapped}

Exact(t) ==
  CASE t = "mapping"   -> IF nat.mapping = "independent"
                          THEN "EndpointIndependent" ELSE "AddressAndPortDependent"
    [] t = "filtering" -> IF nat.filtering = "independent"
                          THEN "EndpointIndependent" ELSE "AddressAndPortDependent"
    [] t = "sync"      -> IF nat.dropsSync THEN "Pass" ELSE "Fail"
    [] t = "hairpin"   -> IF nat.hairpins THEN "Pass" ELSE "Fail"
    [] t = "icmp"      -> IF nat.icmpKills THEN "Fail" ELSE "Pass"
    [] OTHER           -> "Pass"

\* With nothing lost or late, each test finds what the NAT does, unless an
\* earlier test or another client has left its traces.
TimelyTestIsExact ==
  timely /\ outcome.test # "none" /\ ~ Disturbed =>
    /\ outcome.verdict = Exact(outcome.test)
    /\ outcome.test = "icmp" => forwarded = IF nat.forwardsIcmp THEN "Pass" ELSE "Fail"

\* The test ends, whatever is lost.
Terminates == <>(test = "done")
=============================================================================
