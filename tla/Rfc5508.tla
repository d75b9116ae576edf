------------------------------ MODULE Rfc5508 ------------------------------
(***************************************************************************)
(* The mapping, filtering and error phases of the RFC 5508 ICMP test       *)
(* (src/tests/rfc5508_test.cpp) with the server's side of it               *)
(* (src_ser/main.cpp).  The client pings the server with a token; the      *)
(* server's poll thread records the query id it sees for the token and     *)
(* echoes the ping.  Over a TCP connection per command, served by a thread *)
(* of its own, the client then asks for that record (IM), or has the       *)
(* server ping it back through the recorded query id (IF).                 *)
(*                                                                         *)
(* The test takes the sequence number of an echo for the remote end's      *)
(* port: a remote is an address and a sequence number.  All probes use     *)
(* one inside query id.  Tokens are random, here the name of the probe.    *)
(*                                                                         *)
(* The error phase follows the others in the default test but reads        *)
(* nothing of theirs: it is a plan of its own here.  Marked ICMP errors go *)
(* through a UDP mapping both ways.  The poll thread records the markers   *)
(* it sees, in a set that all clients of the server share.                 *)
(***************************************************************************)
EXTENDS Integers

CONSTANTS
  Primary, Secondary,    \* the server's two addresses
  NoQuery,               \* no query id: a probe that failed, a token not recorded
  NoEcho,                \* the poll thread is not handling an echo
  Tests,                 \* the plans to explore, each with a value of `timely`
  Deployments,           \* the servers to explore, a subset of Deployment
  Duplicating            \* the network may deliver a packet twice

VARIABLES
  behavior, deployment, plan,   \* never change
  passes,        \* the ICMP errors the NAT lets pass; never changes
  alone,         \* no other client uses the server; never changes
  timely,        \* nothing is lost, what is going to arrive does so before the
                 \* deadline, and no command fails; never changes
  contacts,      \* the remotes the NAT has seen the client ping
  network,       \* packets in flight
  registry,      \* icmp_ctx.mappings: what was recorded for each token
  replying,      \* the echo the poll thread has recorded but not yet answered
  markers,       \* icmp_ctx.observed_error_markers, those of this client
  step,          \* where the test is: a probe, "done" or "aborted"
  stage,         \* what that probe does next
  samples,       \* public_query of the finished mapping probes
  mapping,       \* result.mapping_behavior
  filtering,     \* result.filtering_behavior
  inbound,       \* the server's marked error has come
  payload,       \* result.icmp_error_payload_validation
  outbound       \* result.outbound_icmp_error

rigidVars == <<behavior, deployment, plan, passes, alone, timely>>
pathVars == <<contacts, network>>
serverVars == <<registry, replying, markers>>
echoVars == <<samples, mapping, filtering>>
errorVars == <<inbound, payload, outbound>>
clientVars == <<step, stage, echoVars, errorVars>>
vars == <<rigidVars, pathVars, serverVars, clientVars>>

Dependence == {"EndpointIndependent", "AddressDependent", "AddressAndPortDependent"}
Plan == {"mapping", "filtering", "all", "errors"}
\* "wildcard": both raw sockets are bound to 0.0.0.0, so what either sends
\* leaves from Primary, the host's preferred source address.
Deployment == {"own", "wildcard"}
MappingBehavior   == {"Unknown", "Fail"} \cup Dependence
FilteringBehavior == {"Unknown", "None"} \cup Dependence

ASSUME Parameters ==
  /\ Primary # Secondary
  /\ Tests \subseteq [plan : Plan, timely : BOOLEAN]
  /\ Deployments \subseteq Deployment
  /\ Duplicating \in BOOLEAN

Probe == {"primary", "secondary", "primaryAgain", "base"}
FilterProbe == {"filterP", "filterS", "filterPAgain"}
ErrorProbe == {"payload", "outbound"}

\* The errors that are judged: the server's and the client's with a bad UDP
\* checksum inside, and the client's valid one.  (Those with a bad outer or inner
\* IP checksum are only reported.)
Error == {"inBad", "outBad", "outValid"}
Mine(s) == IF s = "payload" THEN "outBad" ELSE "outValid"

Remote == [ip : {Primary, Secondary}, query : {100, 200, 300, 4100, 4200}]

\* Faulty variant, for mutation: the third ping repeats the first.
PeerSameQuery(s) ==
  [ip    |-> IF s \in {"secondary", "filterS"} THEN Secondary ELSE Primary,
   query |-> CASE s \in Probe \ {"base"}       -> 100
               [] s = "base"                     -> 300
               [] s \in {"filterP", "filterS"}   -> 4100
               [] s = "filterPAgain"             -> 4200]

\* The remote each probe is sent to, or is expected to come from.
Peer(s) ==
  [ip    |-> IF s \in {"secondary", "filterS"} THEN Secondary ELSE Primary,
   query |-> CASE s \in {"primary", "secondary"} -> 100
               [] s = "primaryAgain"             -> 200
               [] s = "base"                     -> 300
               [] s \in {"filterP", "filterS"}   -> 4100
               [] s = "filterPAgain"             -> 4200]

-----------------------------------------------------------------------------
(* The NAT, as in NatBox: remotes of one class share an outside query id,  *)
(* which is named by the class, and the filter admits a class once one of  *)
(* its remotes has been pinged.                                            *)

Class(dependence, r) ==
  IF dependence = "EndpointIndependent" THEN Remote
  ELSE {s \in Remote : s.ip = r.ip /\ (dependence = "AddressDependent" \/ s.query = r.query)}

MappedQuery(r) ==
  IF behavior.mapping = "Direct" THEN {} ELSE Class(behavior.mapping, r)

Query == SUBSET Remote

Echo        == [kind : {"echo"}, to : Remote, id : Query, token : Probe]
EchoReply   == [kind : {"reply"}, from : Remote, id : Query, token : Probe]
FilterEcho  == [kind : {"probe"}, from : Remote, id : Query, token : Probe]
MarkedError == [kind : {"error"}, marker : Error]

\* A token that is not recorded has no query id, and a poll thread at rest no echo.
ASSUME NoQueryIsNone == \A q \in Query : q # NoQuery
ASSUME NoEchoIsNone == NoEcho \notin Echo

Admits(m) == \E r \in contacts : /\ MappedQuery(r) = m.id
                                 /\ m.from \in Class(behavior.filtering, r)

After(m) == {network \ {m}} \cup (IF Duplicating THEN {network} ELSE {})

\* The address a packet sent by the raw socket of `ip` leaves from.
SourceOf(ip) == IF deployment = "wildcard" THEN Primary ELSE ip

-----------------------------------------------------------------------------
TypeOK ==
  /\ behavior \in [mapping : Dependence \cup {"Direct"}, filtering : Dependence]
  /\ deployment \in Deployment /\ plan \in Plan /\ timely \in BOOLEAN
  /\ contacts \subseteq Remote
  /\ passes \subseteq Error /\ alone \in BOOLEAN
  /\ \A m \in network : m \in Echo \/ m \in EchoReply \/ m \in FilterEcho \/ m \in MarkedError
  /\ registry \in [Probe -> Query \cup {NoQuery}]
  /\ replying = NoEcho \/ replying \in Echo
  /\ markers \subseteq {"outBad", "outValid"}
  /\ step \in Probe \cup FilterProbe \cup ErrorProbe \cup {"done", "aborted"}
  /\ stage \in {"send", "echo", "control", "listen", "inject", "check"}
  /\ inbound \in BOOLEAN
  /\ {payload, outbound} \subseteq {"Unset", "Pass", "Fail", "Inconclusive"}
  /\ samples \in [Probe -> Query \cup {NoQuery}]
  /\ mapping \in MappingBehavior /\ filtering \in FilteringBehavior

Init ==
  /\ plan \in Plan /\ timely \in BOOLEAN
  /\ [plan |-> plan, timely |-> timely] \in Tests
  /\ behavior \in [mapping : Dependence \cup {"Direct"}, filtering : Dependence]
  /\ deployment \in Deployments
  /\ contacts = {} /\ network = {}
  /\ IF plan = "errors" THEN passes \in SUBSET Error /\ alone \in BOOLEAN
     ELSE passes = {} /\ alone = TRUE
  /\ registry = [t \in Probe |-> NoQuery] /\ replying = NoEcho /\ markers = {}
  /\ step = CASE plan = "filtering" -> "base" [] plan = "errors" -> "payload"
              [] OTHER -> "primary"
  /\ stage = IF plan = "errors" THEN "control" ELSE "send"
  /\ samples = [p \in Probe |-> NoQuery]
  /\ mapping = "Unknown" /\ filtering = "Unknown"
  /\ inbound = FALSE /\ payload = "Unset" /\ outbound = "Unset"

-----------------------------------------------------------------------------
(* The client: run_rfc5508_tests, one probe after the other. *)

GoTo(s) == step' = s /\ stage' = IF s \in Probe THEN "send" ELSE "control"

AfterMapping == GoTo(IF plan = "all" THEN "base" ELSE "done")

\* The filtering phase goes on only if its base probe has a public_query.
BaseEnds(q) ==
  IF q = NoQuery THEN filtering' = "None" /\ GoTo("done")
                 ELSE GoTo("filterP") /\ UNCHANGED filtering

\* run_mapping_probe returned, with public_query q if it has one.
ProbeEnds(q) ==
  /\ samples' = [samples EXCEPT ![step] = q]
  /\ \/ step = "primary" /\ GoTo("secondary") /\ UNCHANGED <<mapping, filtering>>
     \/ /\ step = "secondary"
        /\ CASE NoQuery \in {samples["primary"], q} -> mapping' = "Fail" /\ AfterMapping
             [] q # NoQuery /\ samples["primary"] = q ->
                  mapping' = "EndpointIndependent" /\ AfterMapping
             [] OTHER -> GoTo("primaryAgain") /\ UNCHANGED mapping
        /\ UNCHANGED filtering
     \/ /\ step = "primaryAgain"
        /\ mapping' = IF q = NoQuery THEN "Fail"
                      ELSE IF q = samples["primary"] THEN "AddressDependent"
                      ELSE "AddressAndPortDependent"
        /\ AfterMapping
        /\ UNCHANGED filtering
     \/ step = "base" /\ BaseEnds(q) /\ UNCHANGED mapping

\* run_filter_probe returned ok.
FilterEnds(ok) ==
  /\ \/ /\ step = "filterP"
        /\ IF ok THEN GoTo("filterS") /\ UNCHANGED filtering
                 ELSE filtering' = "AddressAndPortDependent" /\ GoTo("done")
     \/ /\ step = "filterS"
        /\ IF ok THEN filtering' = "EndpointIndependent" /\ GoTo("done")
                 ELSE GoTo("filterPAgain") /\ UNCHANGED filtering
     \/ /\ step = "filterPAgain"
        /\ filtering' = IF ok THEN "AddressDependent" ELSE "AddressAndPortDependent"
        /\ GoTo("done")
  /\ UNCHANGED <<samples, mapping>>

\* run_mapping_probe sends its ping; the NAT notes the contact.
SendEcho ==
  /\ step \in Probe /\ stage = "send"
  /\ contacts' = contacts \cup {Peer(step)}
  /\ network' = network \cup {[kind |-> "echo", to |-> Peer(step),
                               id |-> MappedQuery(Peer(step)), token |-> step]}
  /\ stage' = "echo"
  /\ UNCHANGED <<rigidVars, serverVars, step, echoVars, errorVars>>

\* The raw socket refuses to send.
SendFails ==
  /\ step \in Probe /\ stage = "send" /\ ~ timely
  /\ ProbeEnds(NoQuery)
  /\ UNCHANGED <<rigidVars, pathVars, serverVars, errorVars>>

\* Faulty variant, for mutation: the source of the packet is not looked at.
ExpectedAnySource(m) ==
  \/ stage = "echo" /\ m.kind = "reply" /\ m.token = step
  \/ stage = "listen" /\ m.kind = "probe" /\ m.from.query = Peer(step).query

\* The received packet is the one waited for: the payload (a token, and the
\* sequence number in a filter probe) and the source address agree.
Expected(m) ==
  /\ m.from.ip = Peer(step).ip
  /\ \/ stage = "echo" /\ m.kind = "reply" /\ m.token = step
     \/ stage = "listen" /\ m.kind = "probe" /\ m.from.query = Peer(step).query

Listening == stage \in {"echo", "listen"} /\ step \notin ErrorProbe

\* receive_icmp_packet, in the loops of run_mapping_probe and run_filter_probe.
Receive(m) ==
  /\ m.kind \in {"reply", "probe"} /\ Listening /\ Admits(m)
  /\ network' \in After(m)
  /\ IF ~ Expected(m) THEN UNCHANGED clientVars
     ELSE IF stage = "echo"
     THEN stage' = "control" /\ UNCHANGED <<step, echoVars, errorVars>>
     ELSE FilterEnds(TRUE) /\ UNCHANGED errorVars
  /\ UNCHANGED <<rigidVars, contacts, serverVars>>

\* Faulty variant, for mutation: the wait only ends when nothing is in flight.
WaitEndsWhenQuiet ==
  /\ Listening
  /\ network = {} /\ replying = NoEcho
  /\ IF stage = "echo" THEN ProbeEnds(NoQuery) ELSE FilterEnds(FALSE)
  /\ UNCHANGED <<rigidVars, pathVars, serverVars, errorVars>>

\* The deadline passes; or the loop ends early, since receive_icmp_packet also
\* returns nothing for a packet without payload, whoever sent it.
WaitEnds ==
  /\ Listening
  /\ timely => network = {} /\ replying = NoEcho
  /\ IF stage = "echo" THEN ProbeEnds(NoQuery) ELSE FilterEnds(FALSE)
  /\ UNCHANGED <<rigidVars, pathVars, serverVars, errorVars>>

\* request_control_command throws: no connection, or no answer in time.  The
\* error phase catches that, and has its verdicts overwritten; without a UDP
\* mapping to begin with, they come out the same.
ControlFails ==
  /\ ~ timely
  /\ \/ /\ stage = "control" /\ step \in Probe \cup FilterProbe
        /\ GoTo("aborted") /\ UNCHANGED errorVars
     \/ /\ stage \in {"control", "inject", "check"} /\ step \in ErrorProbe
        /\ GoTo("done") /\ UNCHANGED inbound
        /\ payload' = "Inconclusive" /\ outbound' = "Inconclusive"
  /\ UNCHANGED <<rigidVars, pathVars, serverVars, echoVars>>

-----------------------------------------------------------------------------
(* The client's error phase. *)

Decided(s, v) ==
  IF s = "payload" THEN payload' = v /\ UNCHANGED outbound /\ GoTo("outbound")
                   ELSE outbound' = v /\ UNCHANGED payload /\ GoTo("done")

\* The server's error comes, or the time of receive_icmp_errors_by_markers is over.
HearError(m) ==
  /\ step = "payload" /\ stage = "listen" /\ m.kind = "error" /\ m.marker = "inBad"
  /\ "inBad" \in passes
  /\ network' \in After(m)
  /\ inbound' = TRUE /\ stage' = "send"
  /\ UNCHANGED <<rigidVars, contacts, serverVars, step, echoVars, payload, outbound>>

HearNothing ==
  /\ step = "payload" /\ stage = "listen"
  /\ timely => network = {}
  /\ stage' = "send"
  /\ UNCHANGED <<rigidVars, pathVars, serverVars, step, echoVars, errorVars>>

\* The client's own error.  One that cannot be sent ends only the outbound probe.
SendError ==
  /\ step \in ErrorProbe /\ stage = "send"
  /\ \/ /\ network' = network \cup {[kind |-> "error", marker |-> Mine(step)]}
        /\ stage' = "check" /\ UNCHANGED <<step, errorVars>>
     \/ /\ ~ timely /\ UNCHANGED network
        /\ IF step = "payload" THEN stage' = "check" /\ UNCHANGED <<step, errorVars>>
           ELSE Decided(step, "Fail") /\ UNCHANGED inbound
  /\ UNCHANGED <<rigidVars, contacts, serverVars, echoVars>>

\* Faulty variant, for mutation: any marker of the client's counts.
JudgeAny(s) == IF markers # {} /\ (s = "payload" => inbound) THEN "Pass" ELSE "Fail"

Judge(s) == IF Mine(s) \in markers /\ (s = "payload" => inbound) THEN "Pass" ELSE "Fail"

\* IR, 120 ms later: has the server seen the marker?
IR ==
  /\ step \in ErrorProbe /\ stage = "check"
  /\ timely => network = {}
  /\ Decided(step, Judge(step))
  /\ UNCHANGED <<rigidVars, pathVars, serverVars, echoVars, inbound>>

-----------------------------------------------------------------------------
(* The server. *)

\* IM: the stream thread looks the token up under the lock.  The client does
\* nothing until it has the answer.
IM ==
  /\ step \in Probe /\ stage = "control"
  /\ ProbeEnds(registry[step])
  /\ UNCHANGED <<rigidVars, pathVars, serverVars, errorVars>>

\* IF: it looks up the base probe's token and pings the recorded query id.
IF_Command ==
  /\ step \in FilterProbe /\ stage = "control"
  /\ IF registry["base"] = NoQuery
     THEN FilterEnds(FALSE) /\ UNCHANGED network
     ELSE /\ network' = network \cup
               {[kind |-> "probe", id |-> registry["base"], token |-> "base",
                 from |-> [Peer(step) EXCEPT !.ip = SourceOf(Peer(step).ip)]]}
          /\ stage' = "listen"
          /\ UNCHANGED <<step, echoVars>>
  /\ UNCHANGED <<rigidVars, contacts, serverVars, errorVars>>

\* IRR: every client's markers are cleared.
IRR ==
  /\ step \in ErrorProbe /\ stage = "control"
  /\ markers' = {}
  /\ stage' = IF step = "payload" THEN "inject" ELSE "send"
  /\ UNCHANGED <<rigidVars, pathVars, registry, replying, step, echoVars, errorVars>>

\* IRR of another client.
OthersReset ==
  /\ ~ alone /\ step \in ErrorProbe /\ markers' = {}
  /\ UNCHANGED <<rigidVars, pathVars, registry, replying, clientVars>>

\* IE: the server sends its errors to the mapped UDP endpoint, if its raw socket
\* lets it.
IE ==
  /\ step = "payload" /\ stage = "inject"
  /\ \/ /\ network' = network \cup {[kind |-> "error", marker |-> "inBad"]}
        /\ stage' = "listen" /\ UNCHANGED <<step, errorVars>>
     \/ ~ timely /\ Decided(step, "Fail") /\ UNCHANGED <<network, inbound>>
  /\ UNCHANGED <<rigidVars, contacts, serverVars, echoVars>>

ReplyTo(m) == [kind |-> "reply", id |-> m.id, token |-> m.token,
               from |-> [m.to EXCEPT !.ip = SourceOf(m.to.ip)]]

\* Faulty variants, for mutation: the reply leaves before the record is made;
\* the registry is keyed by the pinging host, all of whose tokens share an entry.
RecordAfterReply(m) ==
  /\ m.kind = "echo" /\ replying = NoEcho
  /\ replying' = m
  /\ \E rest \in After(m) : network' = rest \cup {ReplyTo(m)}
  /\ UNCHANGED <<rigidVars, contacts, registry, markers, clientVars>>

RecordByHost(m) ==
  /\ m.kind = "echo" /\ replying = NoEcho
  /\ registry' = [t \in Probe |-> m.id]
  /\ replying' = m
  /\ network' \in After(m)
  /\ UNCHANGED <<rigidVars, contacts, markers, clientVars>>

\* handle_icmp_packet: the poll thread takes an echo and records it ...
Record(m) ==
  /\ m.kind = "echo" /\ replying = NoEcho
  /\ registry' = [registry EXCEPT ![m.token] = m.id]
  /\ replying' = m
  /\ network' \in After(m)
  /\ UNCHANGED <<rigidVars, contacts, markers, clientVars>>

\* ... and, the lock released, replies.
Reply ==
  /\ replying # NoEcho
  /\ network' = network \cup {ReplyTo(replying)}
  /\ replying' = NoEcho
  /\ UNCHANGED <<rigidVars, contacts, registry, markers, clientVars>>

\* handle_icmp_packet: the poll thread records the marker of an error.
RecordMarker(m) ==
  /\ m.kind = "error" /\ m.marker # "inBad" /\ m.marker \in passes /\ replying = NoEcho
  /\ markers' = markers \cup {m.marker}
  /\ network' \in After(m)
  /\ UNCHANGED <<rigidVars, contacts, registry, replying, clientVars>>

-----------------------------------------------------------------------------
\* The NAT refuses m, or the client has closed its socket.
Drop(m) ==
  /\ \/ m.kind \in {"reply", "probe"} /\ (~ Admits(m) \/ step \in {"done", "aborted"})
     \/ m.kind = "error" /\ (m.marker \notin passes \/ (m.marker = "inBad" /\ stage # "listen"))
  /\ network' = network \ {m}
  /\ UNCHANGED <<rigidVars, contacts, serverVars, clientVars>>

Lose(m) ==
  /\ ~ timely
  /\ network' = network \ {m}
  /\ UNCHANGED <<rigidVars, contacts, serverVars, clientVars>>

Over == /\ step \in {"done", "aborted"} /\ network = {} /\ replying = NoEcho
        /\ UNCHANGED vars

Client == \/ SendEcho \/ SendFails \/ WaitEnds \/ ControlFails \/ IM \/ IF_Command
          \/ IRR \/ IE \/ HearNothing \/ SendError \/ IR

Next == \/ Client \/ Reply \/ Over \/ OthersReset
        \/ \E m \in network : \/ Receive(m) \/ Record(m) \/ Drop(m) \/ Lose(m)
                              \/ HearError(m) \/ RecordMarker(m)

Spec == Init /\ [][Next]_vars

\* The client's own loops run, each wait has a deadline, and a command returns
\* or throws.
FairSpec == Spec /\ WF_vars(Client)

-----------------------------------------------------------------------------
(* Properties. *)

Rank(d) == CASE d = "EndpointIndependent" -> 0 [] d = "AddressDependent" -> 1
             [] d = "AddressAndPortDependent" -> 2

\* The mapping verdict compares query ids, so it calls a host without a NAT
\* EndpointIndependent.
SeenMapping == IF behavior.mapping = "Direct" THEN "EndpointIndependent" ELSE behavior.mapping

\* A mapping verdict that names a behaviour names the NAT's, although three
\* pings, their copies and two server threads race for the records it rests on.
MappingExact == mapping \in Dependence => mapping = SeenMapping

\* No filtering verdict is more open than the NAT's filter (README, section on
\* the meaning of the verdicts: EndpointIndependent is the most permissive).
FilteringSound ==
  filtering \in Dependence => Rank(filtering) >= Rank(behavior.filtering)

\* It is so when the filter is all that is tested: the base probe has then gone
\* to the primary server only, and a probe is told from a copy of another, or
\* from one that left from the wrong address, by its source and number.
SoundWhenTestedAlone == plan # "all" => FilteringSound

\* A client that has the echo reply finds the record: the poll thread has made
\* it before the reply left, and so before another thread serves IM or IF.
RecordFound ==
  stage = "control" =>
    /\ step \in Probe => registry[step] # NoQuery
    /\ step \in FilterProbe => registry["base"] # NoQuery

\* An ICMP error that is said to pass does: a verdict rests on the client's own
\* marker, recorded after the last reset, whoever resets and records meanwhile.
MarkersSound ==
  /\ payload = "Pass" => {"inBad", "outBad"} \subseteq passes
  /\ outbound = "Pass" => "outValid" \in passes

\* With nothing lost or late, the finished test has found what the NAT does.
\* Another client's reset can make it miss an error.
TimelyTestIsExact ==
  timely /\ step = "done" =>
    /\ deployment = "own" /\ plan \in {"mapping", "all"} => mapping = SeenMapping
    /\ deployment = "own" /\ plan = "filtering" => filtering = behavior.filtering
    /\ plan = "errors" /\ alone =>
         /\ payload = IF {"inBad", "outBad"} \subseteq passes THEN "Pass" ELSE "Fail"
         /\ outbound = IF "outValid" \in passes THEN "Pass" ELSE "Fail"

\* The test ends, with verdicts or with an exception.  (Where `timely` holds
\* the deadline itself waits for the network, of which nothing is assumed.)
Terminates == timely \/ <>(step \in {"done", "aborted"})
=============================================================================
