---------------------------- MODULE Rfc5508Proofs ----------------------------
(***************************************************************************)
(* Proofs about Rfc5508, for any plans, servers and stand-ins.             *)
(***************************************************************************)
EXTENDS Rfc5508, TLAPS

USE Parameters, NoQueryIsNone

-----------------------------------------------------------------------------
(* The inductive invariant. *)

\* The query id that the ping of probe t leaves the NAT with.
OwnId(t) == MappedQuery(Peer(t))

\* An echo carries the id of its own probe, in flight and in the poll thread's
\* hands; what is in those hands, or has been answered, is recorded.
EchoesIdentified ==
  /\ \A m \in network : m.kind = "echo" => m.id = OwnId(m.token)
  /\ \A m \in network : m.kind = "reply" => registry[m.token] # NoQuery
  /\ replying # NoEcho => /\ replying.id = OwnId(replying.token)
                          /\ registry[replying.token] # NoQuery

\* A record, and so a sample taken from it, is of the token's own ping.
RecordsExact ==
  \A t \in Probe : /\ registry[t] \in {NoQuery, OwnId(t)}
                   /\ samples[t] \in {NoQuery, OwnId(t)}

\* What is known of the NAT before the third ping.
ThirdPingNeeded ==
  step = "primaryAgain" => /\ NoQuery \notin {samples["primary"], samples["secondary"]}
                           /\ samples["primary"] # samples["secondary"]

\* RecordFound, kept while a filter probe is listened for.
BaseRecorded == step \in FilterProbe => registry["base"] # NoQuery

\* A plan runs its own probes; the filtering test alone pings nobody else.
PlanKept ==
  /\ plan \in {"mapping", "errors"} => step \notin {"base"} \cup FilterProbe /\ filtering = "Unknown"
  /\ plan = "filtering" => /\ step \in {"base", "done", "aborted"} \cup FilterProbe
                           /\ contacts \subseteq {Peer("base")}

\* What was seen of an error came through the NAT.
SeenErrorsPass == markers \subseteq passes /\ (inbound => "inBad" \in passes)

EInv == EchoesIdentified /\ RecordsExact /\ ThirdPingNeeded /\ BaseRecorded
        /\ PlanKept /\ SeenErrorsPass

IInv == /\ TypeOK /\ EInv
        /\ MappingExact /\ SoundWhenTestedAlone /\ RecordFound /\ MarkersSound

-----------------------------------------------------------------------------
(* Lemmas about the operators. *)

LEMMA Remotes ==
  /\ Peer("primary") = [ip |-> Primary, query |-> 100]
  /\ Peer("secondary") = [ip |-> Secondary, query |-> 100]
  /\ Peer("primaryAgain") = [ip |-> Primary, query |-> 200]
  /\ Peer("base") = [ip |-> Primary, query |-> 300]
  /\ Peer("filterP") = [ip |-> Primary, query |-> 4100]
  /\ Peer("filterS") = [ip |-> Secondary, query |-> 4100]
  /\ Peer("filterPAgain") = [ip |-> Primary, query |-> 4200]
  /\ \A t \in Probe \cup FilterProbe : Peer(t) \in Remote
<1>1. /\ Peer("primary") = [ip |-> Primary, query |-> 100]
      /\ Peer("secondary") = [ip |-> Secondary, query |-> 100]
      /\ Peer("primaryAgain") = [ip |-> Primary, query |-> 200]
      /\ Peer("base") = [ip |-> Primary, query |-> 300]
  BY DEF Peer
<1>2. /\ Peer("filterP") = [ip |-> Primary, query |-> 4100]
      /\ Peer("filterS") = [ip |-> Secondary, query |-> 4100]
      /\ Peer("filterPAgain") = [ip |-> Primary, query |-> 4200]
  BY DEF Peer
<1> QED BY <1>1, <1>2 DEF Probe, FilterProbe, Remote

\* A query id is a set of remotes, and never the stand-in.
LEMMA QueryIds ==
  /\ \A t \in Probe : OwnId(t) \in Query /\ OwnId(t) # NoQuery
  /\ {} \in Query
<1>1. \A r \in Remote : MappedQuery(r) \in Query
  BY DEF MappedQuery, Class, Query
<1> QED BY <1>1, Remotes DEF OwnId, Query

\* Two remotes share an outside id exactly if their class is the same.
LEMMA SharedId ==
  ASSUME TypeOK, behavior.mapping # "Direct", NEW r \in Remote, NEW s \in Remote
  PROVE  MappedQuery(r) = MappedQuery(s) <=>
           \/ behavior.mapping = "EndpointIndependent"
           \/ r.ip = s.ip /\ (behavior.mapping = "AddressDependent" \/ r.query = s.query)
<1>1. CASE behavior.mapping = "EndpointIndependent"
  BY <1>1 DEF MappedQuery, Class
<1>2. CASE behavior.mapping # "EndpointIndependent"
  <2>1. MappedQuery(r) = MappedQuery(s) => s \in MappedQuery(r)
    BY <1>2 DEF MappedQuery, Class
  <2>2. s \in MappedQuery(r) <=>
          r.ip = s.ip /\ (behavior.mapping = "AddressDependent" \/ r.query = s.query)
    BY <1>2 DEF MappedQuery, Class
  <2>3. r.ip = s.ip /\ (behavior.mapping = "AddressDependent" \/ r.query = s.query)
          => MappedQuery(r) = MappedQuery(s)
    BY <1>2 DEF MappedQuery, Class
  <2> QED BY <1>2, <2>1, <2>2, <2>3
<1> QED BY <1>1, <1>2

LEMMA RankValues ==
  /\ Rank("EndpointIndependent") = 0 /\ Rank("AddressDependent") = 1
  /\ Rank("AddressAndPortDependent") = 2
BY DEF Rank

LEMMA Steps ==
  ASSUME NEW s \in Probe \cup FilterProbe \cup ErrorProbe \cup {"done", "aborted"}, GoTo(s)
  PROVE  /\ step' = s /\ stage' \in {"send", "control"}
         /\ stage' = "control" => s \notin Probe
BY DEF GoTo

-----------------------------------------------------------------------------
(* The client's verdicts, one lemma for each way a probe ends. *)

ClientTypeOK ==
  /\ step \in Probe \cup FilterProbe \cup ErrorProbe \cup {"done", "aborted"}
  /\ stage \in {"send", "echo", "control", "listen", "inject", "check"}
  /\ samples \in [Probe -> Query \cup {NoQuery}]
  /\ mapping \in MappingBehavior /\ filtering \in FilteringBehavior

LEMMA ProbeEndsType ==
  ASSUME TypeOK, step \in Probe, NEW q \in Query \cup {NoQuery}, ProbeEnds(q)
  PROVE  ClientTypeOK'
<1>1. samples' \in [Probe -> Query \cup {NoQuery}]
  BY DEF ProbeEnds, TypeOK
<1>2. mapping' \in MappingBehavior /\ filtering' \in FilteringBehavior
  BY DEF ProbeEnds, TypeOK, BaseEnds, MappingBehavior, FilteringBehavior, Dependence
<1>3. /\ step' \in Probe \cup FilterProbe \cup {"done"}
      /\ stage' \in {"send", "control"}
  BY DEF ProbeEnds, AfterMapping, BaseEnds, GoTo, Probe, FilterProbe
<1> QED BY <1>1, <1>2, <1>3 DEF ClientTypeOK

LEMMA FilterEndsType ==
  ASSUME TypeOK, NEW ok \in BOOLEAN, FilterEnds(ok)
  PROVE  ClientTypeOK'
<1>1. samples' = samples /\ mapping' = mapping /\ filtering' \in FilteringBehavior
  BY DEF FilterEnds, TypeOK, FilteringBehavior, Dependence
<1>2. /\ step' \in FilterProbe \cup {"done"}
      /\ stage' \in {"send", "control"}
  BY DEF FilterEnds, GoTo, Probe, FilterProbe
<1> QED BY <1>1, <1>2 DEF ClientTypeOK, TypeOK

\* What a mapping probe records, and the verdicts drawn from it.
LEMMA ProbeEndsInv ==
  ASSUME IInv, step \in Probe, NEW q \in {NoQuery, registry[step]}, ProbeEnds(q),
         UNCHANGED <<rigidVars, pathVars, serverVars, errorVars>>
  PROVE  IInv'
<1> USE DEF IInv, EInv
<1>q. q \in Query \cup {NoQuery} /\ q \in {NoQuery, OwnId(step)}
  BY QueryIds DEF RecordsExact, TypeOK
<1>own. \A t : OwnId(t)' = OwnId(t)
  BY DEF OwnId, MappedQuery, Class, Peer, rigidVars
<1>1. TypeOK'
  <2>1. ClientTypeOK'
    BY <1>q, ProbeEndsType
  <2> QED BY <2>1 DEF TypeOK, ClientTypeOK, rigidVars, pathVars, serverVars, errorVars, Echo,
       EchoReply, FilterEcho, MarkedError
<1>2. EchoesIdentified'
  BY <1>own DEF EchoesIdentified, pathVars, serverVars
<1>3. RecordsExact'
  <2>1. samples' = [samples EXCEPT ![step] = q]
    BY DEF ProbeEnds
  <2>2. \A t \in Probe : samples'[t] = IF t = step THEN q ELSE samples[t]
    BY <2>1 DEF TypeOK
  <2> QED BY <1>own, <1>q, <2>2 DEF RecordsExact, serverVars
<1>samples. /\ samples \in [Probe -> Query \cup {NoQuery}]
            /\ samples' = [samples EXCEPT ![step] = q]
  BY DEF TypeOK, ProbeEnds
<1>shared. /\ behavior.mapping \in Dependence \cup {"Direct"}
           /\ OwnId("primary") = OwnId("secondary") <=>
                behavior.mapping \in {"Direct", "EndpointIndependent"}
           /\ OwnId("primary") = OwnId("primaryAgain") <=>
                behavior.mapping \in {"Direct", "EndpointIndependent", "AddressDependent"}
  <2>1. behavior.mapping \in Dependence \cup {"Direct"}
    BY DEF TypeOK
  <2>2. CASE behavior.mapping = "Direct"
    BY <2>2 DEF OwnId, MappedQuery
  <2>3. CASE behavior.mapping # "Direct"
    <3>1. /\ Peer("primary") \in Remote /\ Peer("secondary") \in Remote
          /\ Peer("primaryAgain") \in Remote
      BY Remotes DEF Probe
    <3>2. OwnId("primary") = OwnId("secondary") <=> behavior.mapping = "EndpointIndependent"
      BY <3>1, <2>3, SharedId, Remotes DEF OwnId
    <3>3. OwnId("primary") = OwnId("primaryAgain") <=>
            behavior.mapping \in {"EndpointIndependent", "AddressDependent"}
      BY <3>1, <2>3, SharedId, Remotes DEF OwnId
    <3> QED BY <2>1, <2>3, <3>2, <3>3
  <2> QED BY <2>1, <2>2, <2>3
<1>rest. SeenErrorsPass' /\ MarkersSound'
  BY DEF SeenErrorsPass, MarkersSound, rigidVars, serverVars, errorVars
<1>stage. step' \in Probe => stage' = "send"
  BY DEF ProbeEnds, GoTo, AfterMapping, BaseEnds, Probe
<1>primary. CASE step = "primary"
  <2>1. step' = "secondary" /\ UNCHANGED <<mapping, filtering>>
    BY <1>primary DEF ProbeEnds, GoTo, Probe
  <2>2. ThirdPingNeeded' /\ BaseRecorded' /\ PlanKept' /\ RecordFound'
    BY <2>1, <1>primary, <1>stage DEF ThirdPingNeeded, BaseRecorded, PlanKept, RecordFound,
       FilterProbe, Probe, rigidVars, pathVars
  <2>3. MappingExact' /\ SoundWhenTestedAlone'
    BY <2>1 DEF MappingExact, SeenMapping, SoundWhenTestedAlone, FilteringSound, rigidVars
  <2> QED BY <1>1, <1>2, <1>3, <1>rest, <2>2, <2>3
<1>secondary. CASE step = "secondary"
  <2>1. samples'["primary"] = samples["primary"] /\ samples'["secondary"] = q
    BY <1>secondary, <1>samples DEF Probe
  <2>2. filtering' = filtering
    BY <1>secondary DEF ProbeEnds
  <2>3. \/ /\ mapping' = "Fail" /\ step' = IF plan = "all" THEN "base" ELSE "done"
        \/ /\ q # NoQuery /\ samples["primary"] = q
           /\ mapping' = "EndpointIndependent" /\ step' = IF plan = "all" THEN "base" ELSE "done"
        \/ /\ NoQuery \notin {samples["primary"], q} /\ samples["primary"] # q
           /\ mapping' = mapping /\ step' = "primaryAgain"
    BY <1>secondary DEF ProbeEnds, AfterMapping, GoTo
  <2>4. ThirdPingNeeded' /\ BaseRecorded' /\ PlanKept' /\ RecordFound'
    BY <2>1, <2>2, <2>3, <1>secondary, <1>stage DEF ThirdPingNeeded, BaseRecorded, PlanKept, RecordFound,
       FilterProbe, Probe, rigidVars, pathVars
  <2>5. MappingExact'
    <3>1. q # NoQuery /\ samples["primary"] = q => OwnId("primary") = OwnId("secondary")
      BY <1>q, <1>secondary DEF RecordsExact, Probe
    <3> QED BY <3>1, <2>3, <1>shared DEF MappingExact, SeenMapping, Dependence, rigidVars
  <2>6. SoundWhenTestedAlone'
    BY <2>2 DEF SoundWhenTestedAlone, FilteringSound, rigidVars
  <2> QED BY <1>1, <1>2, <1>3, <1>rest, <2>4, <2>5, <2>6
<1>again. CASE step = "primaryAgain"
  <2>1. /\ filtering' = filtering
        /\ mapping' = IF q = NoQuery THEN "Fail"
                      ELSE IF q = samples["primary"] THEN "AddressDependent"
                      ELSE "AddressAndPortDependent"
        /\ step' = IF plan = "all" THEN "base" ELSE "done"
    BY <1>again DEF ProbeEnds, AfterMapping, GoTo
  <2>2. ThirdPingNeeded' /\ BaseRecorded' /\ PlanKept' /\ RecordFound'
    BY <2>1, <1>again, <1>stage DEF ThirdPingNeeded, BaseRecorded, PlanKept, RecordFound,
       FilterProbe, Probe, rigidVars, pathVars
  <2>3. MappingExact'
    <3>1. samples["primary"] = OwnId("primary") /\ samples["secondary"] = OwnId("secondary")
          /\ OwnId("primary") # OwnId("secondary")
      BY <1>again DEF RecordsExact, Probe, ThirdPingNeeded
    <3>2. behavior.mapping \in {"AddressDependent", "AddressAndPortDependent"}
      BY <3>1, <1>shared DEF Dependence
    <3>3. q # NoQuery => (q = samples["primary"] <=> behavior.mapping = "AddressDependent")
      BY <3>1, <3>2, <1>q, <1>shared, <1>again
    <3> QED BY <2>1, <3>2, <3>3 DEF MappingExact, SeenMapping, Dependence, rigidVars
  <2>4. SoundWhenTestedAlone'
    BY <2>1 DEF SoundWhenTestedAlone, FilteringSound, rigidVars
  <2> QED BY <1>1, <1>2, <1>3, <1>rest, <2>2, <2>3, <2>4
<1>base. CASE step = "base"
  <2>1. /\ mapping' = mapping
        /\ \/ q = NoQuery /\ filtering' = "None" /\ step' = "done"
           \/ q # NoQuery /\ filtering' = filtering /\ step' = "filterP"
    BY <1>base DEF ProbeEnds, BaseEnds, GoTo
  <2>2. ThirdPingNeeded' /\ BaseRecorded' /\ PlanKept' /\ RecordFound'
    BY <2>1, <1>base DEF ThirdPingNeeded, BaseRecorded, PlanKept, RecordFound,
       FilterProbe, Probe, rigidVars, pathVars, serverVars
  <2>3. MappingExact' /\ SoundWhenTestedAlone'
    BY <2>1 DEF MappingExact, SeenMapping, SoundWhenTestedAlone, FilteringSound, Dependence, rigidVars
  <2> QED BY <1>1, <1>2, <1>3, <1>rest, <2>2, <2>3
<1> QED BY <1>primary, <1>secondary, <1>again, <1>base DEF Probe

\* What a filter probe concludes: an answer that was let in shows the filter.
LEMMA FilterEndsInv ==
  ASSUME IInv, step \in FilterProbe, NEW ok \in BOOLEAN, FilterEnds(ok),
         UNCHANGED <<rigidVars, contacts, serverVars, errorVars>>,
         network' \subseteq network,
         ok /\ step = "filterS" /\ plan = "filtering" => behavior.filtering = "EndpointIndependent",
         ok /\ step = "filterPAgain" /\ plan = "filtering" =>
           behavior.filtering # "AddressAndPortDependent"
  PROVE  IInv'
<1> USE DEF IInv, EInv
<1>1. TypeOK'
  <2>1. ClientTypeOK'
    BY FilterEndsType
  <2> QED BY <2>1 DEF TypeOK, ClientTypeOK, rigidVars, serverVars, errorVars, Echo,
       EchoReply, FilterEcho, MarkedError
<1>2. EchoesIdentified' /\ RecordsExact'
  <2>1. \A t : OwnId(t)' = OwnId(t)
    BY DEF OwnId, MappedQuery, Class, Peer, rigidVars
  <2>2. samples' = samples
    BY DEF FilterEnds
  <2> QED BY <2>1, <2>2 DEF EchoesIdentified, RecordsExact, serverVars
<1>3. /\ mapping' = mapping
      /\ \/ step' \in FilterProbe /\ filtering' = filtering
         \/ step' = "done" /\ filtering' = "AddressAndPortDependent"
         \/ step = "filterS" /\ ok /\ step' = "done" /\ filtering' = "EndpointIndependent"
         \/ step = "filterPAgain" /\ ok /\ step' = "done" /\ filtering' = "AddressDependent"
  BY DEF FilterEnds, GoTo, FilterProbe
<1>4. /\ ThirdPingNeeded' /\ BaseRecorded' /\ PlanKept' /\ RecordFound'
      /\ SeenErrorsPass' /\ MarkersSound' /\ MappingExact'
  BY <1>3 DEF ThirdPingNeeded, BaseRecorded, PlanKept, RecordFound, SeenErrorsPass, MarkersSound,
     MappingExact, SeenMapping, FilterProbe, Probe, rigidVars, serverVars, errorVars
<1>5. SoundWhenTestedAlone'
  <2>1. plan # "all" => plan = "filtering"
    BY DEF PlanKept, TypeOK, Plan
  <2>2. behavior.filtering \in Dependence
    BY DEF TypeOK
  <2> QED BY <1>3, <2>1, <2>2, RankValues DEF SoundWhenTestedAlone, FilteringSound, Dependence, rigidVars
<1> QED BY <1>1, <1>2, <1>4, <1>5

\* A step of the error phase, whose verdicts the others do not read.
LEMMA ErrorStepInv ==
  ASSUME IInv, step \in ErrorProbe, UNCHANGED <<rigidVars, contacts, registry, replying, echoVars>>,
         step' \in ErrorProbe \cup {"done"},
         stage' \in {"send", "control", "listen", "inject", "check"},
         inbound' \in BOOLEAN,
         {payload', outbound'} \subseteq {"Unset", "Pass", "Fail", "Inconclusive"},
         markers' \subseteq markers,
         \A m \in network' : m \in network \/ m \in MarkedError,
         SeenErrorsPass', MarkersSound'
  PROVE  IInv'
<1> USE DEF IInv, EInv
<1>1. step' \notin Probe \cup FilterProbe
  BY DEF ErrorProbe, Probe, FilterProbe
<1>2. TypeOK'
  BY DEF TypeOK, rigidVars, echoVars, Echo, EchoReply, FilterEcho, MarkedError
<1>3. EchoesIdentified' /\ RecordsExact'
  <2>1. \A t : OwnId(t)' = OwnId(t)
    BY DEF OwnId, MappedQuery, Class, Peer, rigidVars
  <2>2. \A m \in MarkedError : m.kind = "error"
    BY DEF MarkedError
  <2> QED BY <2>1, <2>2 DEF EchoesIdentified, RecordsExact, echoVars
<1>4. ThirdPingNeeded' /\ BaseRecorded' /\ RecordFound'
  BY <1>1 DEF ThirdPingNeeded, BaseRecorded, RecordFound, Probe
<1>5. PlanKept'
  BY <1>1 DEF PlanKept, ErrorProbe, FilterProbe, Probe, rigidVars, echoVars
<1>6. MappingExact' /\ SoundWhenTestedAlone'
  BY DEF MappingExact, SeenMapping, SoundWhenTestedAlone, FilteringSound, rigidVars, echoVars
<1> QED BY <1>2, <1>3, <1>4, <1>5, <1>6

\* A step of the network or the poll thread, of which the client sees nothing.
LEMMA OthersStepInv ==
  ASSUME IInv, UNCHANGED <<rigidVars, contacts, clientVars>>,
         TypeOK', EchoesIdentified', markers' \subseteq passes,
         \A t \in Probe : registry'[t] = registry[t] \/ registry'[t] = OwnId(t)
  PROVE  IInv'
<1> USE DEF IInv, EInv
<1>own. \A t : OwnId(t)' = OwnId(t)
  BY DEF OwnId, MappedQuery, Class, Peer, rigidVars
<1>kept. \A t \in Probe : registry[t] # NoQuery => registry'[t] # NoQuery
  BY QueryIds
<1>1. RecordsExact' /\ ThirdPingNeeded' /\ PlanKept' /\ SeenErrorsPass'
  BY <1>own DEF RecordsExact, ThirdPingNeeded, PlanKept, SeenErrorsPass, rigidVars, clientVars,
     echoVars, errorVars, Peer
<1>2. BaseRecorded' /\ RecordFound'
  BY <1>kept DEF BaseRecorded, RecordFound, Probe, clientVars
<1>3. MappingExact' /\ SoundWhenTestedAlone' /\ MarkersSound'
  BY DEF MappingExact, SeenMapping, SoundWhenTestedAlone, FilteringSound, MarkersSound, rigidVars,
     clientVars, echoVars, errorVars
<1> QED BY <1>1, <1>2, <1>3

LEMMA Initially == Init => IInv
<1> SUFFICES ASSUME Init PROVE IInv
  OBVIOUS
<1>1. TypeOK
  BY DEF Init, TypeOK, Probe, FilterProbe, ErrorProbe, MappingBehavior, FilteringBehavior
<1>2. EInv
  BY DEF Init, EInv, EchoesIdentified, RecordsExact, ThirdPingNeeded, BaseRecorded, PlanKept,
     SeenErrorsPass, FilterProbe, ErrorProbe
<1>3. MappingExact /\ SoundWhenTestedAlone /\ RecordFound /\ MarkersSound
  BY DEF Init, MappingExact, SoundWhenTestedAlone, FilteringSound, RecordFound, MarkersSound, Probe,
     FilterProbe, Dependence
<1> QED BY <1>1, <1>2, <1>3 DEF IInv

LEMMA ClientStep == IInv /\ Client => IInv'
<1> SUFFICES ASSUME IInv, Client PROVE IInv'
  OBVIOUS
<1> USE DEF IInv, EInv
<1>own. rigidVars' = rigidVars => \A t : OwnId(t)' = OwnId(t)
  BY DEF OwnId, MappedQuery, Class, Peer, rigidVars
<1>distinct. /\ Probe \cap FilterProbe = {} /\ Probe \cap ErrorProbe = {} /\ FilterProbe \cap ErrorProbe = {}
             /\ step \in Probe \cup FilterProbe \cup ErrorProbe \cup {"done", "aborted"}
  BY DEF Probe, FilterProbe, ErrorProbe, TypeOK
<1>1. CASE SendEcho
  <2>1. TypeOK'
    <3>1. Peer(step) \in Remote /\ MappedQuery(Peer(step)) \in Query
      BY <1>1, Remotes, QueryIds DEF SendEcho, OwnId
    <3>2. [kind |-> "echo", to |-> Peer(step), id |-> MappedQuery(Peer(step)), token |-> step] \in Echo
      BY <3>1, <1>1 DEF SendEcho, Echo
    <3> QED BY <3>1, <3>2, <1>1 DEF SendEcho, TypeOK, rigidVars, serverVars, echoVars, errorVars,
         Echo, EchoReply, FilterEcho, MarkedError
  <2>2. EchoesIdentified' /\ RecordsExact'
    BY <1>1, <1>own DEF SendEcho, EchoesIdentified, RecordsExact, OwnId, serverVars, echoVars
  <2>3. ThirdPingNeeded' /\ BaseRecorded' /\ SeenErrorsPass' /\ RecordFound' /\ MarkersSound'
    BY <1>1, <1>distinct DEF SendEcho, ThirdPingNeeded, BaseRecorded, SeenErrorsPass, RecordFound,
       MarkersSound, rigidVars, serverVars, echoVars, errorVars
  <2>4. PlanKept'
    BY <1>1, <1>distinct DEF SendEcho, PlanKept, Probe, FilterProbe, Peer, rigidVars, echoVars
  <2>5. MappingExact' /\ SoundWhenTestedAlone'
    BY <1>1 DEF SendEcho, MappingExact, SeenMapping, SoundWhenTestedAlone, FilteringSound, rigidVars, echoVars
  <2> QED BY <2>1, <2>2, <2>3, <2>4, <2>5
<1>2. CASE SendFails
  BY <1>2, ProbeEndsInv DEF SendFails
<1>3. CASE WaitEnds
  <2>1. CASE stage = "echo"
    <3>1. step \in Probe
      BY <1>3, <2>1 DEF WaitEnds, ProbeEnds, Probe
    <3> QED BY <1>3, <2>1, <3>1, ProbeEndsInv DEF WaitEnds
  <2>2. CASE stage # "echo"
    <3>1. step \in FilterProbe /\ FilterEnds(FALSE)
      BY <1>3, <2>2 DEF WaitEnds, FilterEnds, FilterProbe
    <3> QED BY <1>3, <3>1, FilterEndsInv DEF WaitEnds, pathVars
  <2> QED BY <2>1, <2>2
<1>4. CASE ControlFails
  <2>1. CASE step \in ErrorProbe
    <3>1. /\ step' = "done" /\ stage' = "control" /\ inbound' = inbound
          /\ payload' = "Inconclusive" /\ outbound' = "Inconclusive"
      BY <1>4, <2>1, <1>distinct DEF ControlFails, GoTo, Probe
    <3>2. UNCHANGED <<rigidVars, pathVars, serverVars, echoVars>>
      BY <1>4 DEF ControlFails
    <3>3. inbound \in BOOLEAN /\ SeenErrorsPass' /\ MarkersSound'
      BY <3>1, <3>2 DEF TypeOK, SeenErrorsPass, MarkersSound, rigidVars, serverVars
    <3> QED BY <2>1, <3>1, <3>2, <3>3, ErrorStepInv DEF pathVars, serverVars
  <2>2. CASE step \notin ErrorProbe
    <3>1. step' = "aborted" /\ stage' = "control"
      BY <1>4, <2>2 DEF ControlFails, GoTo, Probe
    <3>2. UNCHANGED <<rigidVars, pathVars, serverVars, echoVars, errorVars>>
      BY <1>4, <2>2 DEF ControlFails
    <3>3. TypeOK'
      BY <3>1, <3>2 DEF TypeOK, rigidVars, pathVars, serverVars, echoVars, errorVars, Echo,
         EchoReply, FilterEcho, MarkedError
    <3>4. EInv'
      BY <3>1, <3>2, <1>own DEF EchoesIdentified, RecordsExact, ThirdPingNeeded, BaseRecorded, PlanKept,
         SeenErrorsPass, FilterProbe, Peer, rigidVars, pathVars, serverVars, echoVars, errorVars
    <3>5. MappingExact' /\ SoundWhenTestedAlone' /\ RecordFound' /\ MarkersSound'
      BY <3>1, <3>2 DEF MappingExact, SeenMapping, SoundWhenTestedAlone, FilteringSound, RecordFound,
         MarkersSound, Probe, FilterProbe, rigidVars, echoVars, errorVars
    <3> QED BY <3>3, <3>4, <3>5
  <2> QED BY <2>1, <2>2
<1>5. CASE IM
  BY <1>5, ProbeEndsInv DEF IM
<1>6. CASE IF_Command
  <2>1. registry["base"] # NoQuery /\ registry["base"] \in Query
    BY <1>6 DEF IF_Command, BaseRecorded, TypeOK, Probe
  <2> DEFINE probe == [kind |-> "probe", id |-> registry["base"], token |-> "base",
                       from |-> [Peer(step) EXCEPT !.ip = SourceOf(Peer(step).ip)]]
  <2>2. /\ step \in FilterProbe /\ network' = network \cup {probe} /\ stage' = "listen"
        /\ UNCHANGED <<step, echoVars, rigidVars, contacts, serverVars, errorVars>>
    BY <1>6, <2>1 DEF IF_Command
  <2>3. probe \in FilterEcho
    <3>1. Peer(step) \in Remote
      BY <2>2, Remotes
    <3>2. [Peer(step) EXCEPT !.ip = SourceOf(Peer(step).ip)] \in Remote
      BY <3>1 DEF Remote, SourceOf
    <3> QED BY <3>2, <2>1 DEF FilterEcho, Probe
  <2>4. probe.kind = "probe"
    OBVIOUS
  <2> HIDE DEF probe
  <2>5. TypeOK'
    BY <2>2, <2>3 DEF TypeOK, rigidVars, serverVars, echoVars, errorVars, Echo,
       EchoReply, FilterEcho, MarkedError
  <2>6. EchoesIdentified' /\ RecordsExact'
    BY <2>2, <2>4, <1>own DEF EchoesIdentified, RecordsExact, serverVars, echoVars
  <2>7. /\ ThirdPingNeeded' /\ BaseRecorded' /\ SeenErrorsPass' /\ PlanKept'
        /\ RecordFound' /\ MarkersSound'
    BY <2>2 DEF ThirdPingNeeded, BaseRecorded, SeenErrorsPass, PlanKept, RecordFound, MarkersSound,
       Peer, rigidVars, serverVars, echoVars, errorVars
  <2>8. MappingExact' /\ SoundWhenTestedAlone'
    BY <2>2 DEF MappingExact, SeenMapping, SoundWhenTestedAlone, FilteringSound, rigidVars, echoVars
  <2> QED BY <2>5, <2>6, <2>7, <2>8
<1>7. CASE IRR
  <2>1. /\ step \in ErrorProbe /\ step' = step /\ stage' \in {"inject", "send"}
        /\ markers' = {} /\ UNCHANGED <<rigidVars, pathVars, registry, replying, echoVars, errorVars>>
    BY <1>7 DEF IRR
  <2>2. SeenErrorsPass' /\ MarkersSound'
    BY <2>1 DEF SeenErrorsPass, MarkersSound, rigidVars, errorVars
  <2>3. inbound \in BOOLEAN /\ {payload, outbound} \subseteq {"Unset", "Pass", "Fail", "Inconclusive"}
    BY DEF TypeOK
  <2> QED BY <2>1, <2>2, <2>3, ErrorStepInv DEF pathVars, errorVars
<1>8. CASE IE
  <2>1. step = "payload" /\ UNCHANGED <<rigidVars, contacts, serverVars, echoVars>> /\ inbound' = inbound
    BY <1>8 DEF IE, errorVars
  <2>2. /\ \A m \in network' : m \in network \/ m \in MarkedError
        /\ step' \in ErrorProbe /\ stage' \in {"listen", "control"}
        /\ outbound' = outbound /\ payload' \in {payload, "Fail"}
    BY <1>8 DEF IE, MarkedError, Error, Decided, GoTo, Probe, ErrorProbe, errorVars
  <2>3. SeenErrorsPass' /\ MarkersSound'
    BY <2>1, <2>2 DEF SeenErrorsPass, MarkersSound, rigidVars, serverVars
  <2>4. inbound \in BOOLEAN /\ {payload, outbound} \subseteq {"Unset", "Pass", "Fail", "Inconclusive"}
    BY DEF TypeOK
  <2>5. step \in ErrorProbe
    BY <2>1 DEF ErrorProbe
  <2> QED BY <2>1, <2>2, <2>3, <2>4, <2>5, ErrorStepInv DEF serverVars
<1>9. CASE HearNothing
  <2>1. /\ step = "payload" /\ step' = step /\ stage' = "send"
        /\ UNCHANGED <<rigidVars, pathVars, serverVars, echoVars, errorVars>>
    BY <1>9 DEF HearNothing
  <2>2. SeenErrorsPass' /\ MarkersSound'
    BY <2>1 DEF SeenErrorsPass, MarkersSound, rigidVars, serverVars, errorVars
  <2>3. inbound \in BOOLEAN /\ {payload, outbound} \subseteq {"Unset", "Pass", "Fail", "Inconclusive"}
    BY DEF TypeOK
  <2>4. step \in ErrorProbe
    BY <2>1 DEF ErrorProbe
  <2> QED BY <2>1, <2>2, <2>3, <2>4, ErrorStepInv DEF pathVars, serverVars, errorVars
<1>10. CASE SendError
  <2>1. step \in ErrorProbe /\ UNCHANGED <<rigidVars, contacts, serverVars, echoVars>> /\ inbound' = inbound
    BY <1>10 DEF SendError, errorVars
  <2>2. /\ \A m \in network' : m \in network \/ m \in MarkedError
        /\ step' \in ErrorProbe \cup {"done"} /\ stage' \in {"check", "control"}
        /\ payload' \in {payload, "Fail"} /\ outbound' \in {outbound, "Fail"}
    BY <1>10 DEF SendError, MarkedError, Mine, Error, Decided, GoTo, Probe, ErrorProbe, errorVars
  <2>3. SeenErrorsPass' /\ MarkersSound'
    BY <2>1, <2>2 DEF SeenErrorsPass, MarkersSound, rigidVars, serverVars
  <2>4. inbound \in BOOLEAN /\ {payload, outbound} \subseteq {"Unset", "Pass", "Fail", "Inconclusive"}
    BY DEF TypeOK
  <2> QED BY <2>1, <2>2, <2>3, <2>4, ErrorStepInv DEF serverVars
<1>11. CASE IR
  <2>1. /\ step \in ErrorProbe /\ UNCHANGED <<rigidVars, pathVars, serverVars, echoVars, inbound>>
        /\ Decided(step, Judge(step))
    BY <1>11 DEF IR
  <2>2. /\ step' \in ErrorProbe \cup {"done"} /\ stage' = "control"
        /\ \/ step = "payload" /\ payload' = Judge("payload") /\ outbound' = outbound
           \/ step = "outbound" /\ outbound' = Judge("outbound") /\ payload' = payload
    BY <2>1 DEF Decided, GoTo, Probe, ErrorProbe
  <2>3. /\ Judge("payload") \in {"Pass", "Fail"} /\ Judge("outbound") \in {"Pass", "Fail"}
        /\ Judge("payload") = "Pass" => "outBad" \in markers /\ inbound
        /\ Judge("outbound") = "Pass" => "outValid" \in markers
    BY DEF Judge, Mine
  <2>4. SeenErrorsPass' /\ MarkersSound'
    BY <2>1, <2>2, <2>3 DEF SeenErrorsPass, MarkersSound, rigidVars, serverVars
  <2>5. inbound \in BOOLEAN /\ {payload, outbound} \subseteq {"Unset", "Pass", "Fail", "Inconclusive"}
    BY DEF TypeOK
  <2> QED BY <2>1, <2>2, <2>3, <2>4, <2>5, ErrorStepInv DEF pathVars, serverVars
<1> QED BY <1>1, <1>2, <1>3, <1>4, <1>5, <1>6, <1>7, <1>8, <1>9, <1>10, <1>11 DEF Client

\* The client takes a packet the NAT has let in.
LEMMA ReceiveStep == IInv /\ (\E m \in network : Receive(m)) => IInv'
<1> SUFFICES ASSUME IInv, NEW m \in network, Receive(m) PROVE IInv'
  OBVIOUS
<1> USE DEF IInv, EInv
<1>own. rigidVars' = rigidVars => \A t : OwnId(t)' = OwnId(t)
  BY DEF OwnId, MappedQuery, Class, Peer, rigidVars
<1>1. /\ Listening /\ Admits(m) /\ network' \subseteq network
      /\ UNCHANGED <<rigidVars, contacts, serverVars>>
  BY DEF Receive, After
<1>2. CASE ~ Expected(m)
  <2>1. UNCHANGED clientVars
    BY <1>2 DEF Receive
  <2>2. TypeOK'
    BY <1>1, <2>1 DEF TypeOK, rigidVars, serverVars, clientVars, echoVars, errorVars, Echo,
       EchoReply, FilterEcho, MarkedError
  <2>3. EchoesIdentified'
    BY <1>1, <1>own DEF EchoesIdentified, serverVars
  <2> QED BY <1>1, <2>1, <2>2, <2>3, OthersStepInv DEF SeenErrorsPass, serverVars
<1>3. CASE Expected(m) /\ stage = "echo"
  <2>1. stage' = "control" /\ UNCHANGED <<step, echoVars, errorVars>>
    BY <1>3 DEF Receive
  <2>2. m.kind = "reply" /\ m.token = step
    BY <1>3 DEF Expected
  <2>3. TypeOK'
    BY <1>1, <2>1 DEF TypeOK, rigidVars, serverVars, echoVars, errorVars, Echo,
       EchoReply, FilterEcho, MarkedError
  <2>4. EchoesIdentified' /\ RecordsExact'
    BY <1>1, <1>own, <2>1 DEF EchoesIdentified, RecordsExact, serverVars, echoVars
  <2>5. ThirdPingNeeded' /\ BaseRecorded' /\ SeenErrorsPass' /\ PlanKept' /\ MarkersSound'
    BY <1>1, <2>1 DEF ThirdPingNeeded, BaseRecorded, SeenErrorsPass, PlanKept, MarkersSound, Peer,
       rigidVars, serverVars, echoVars, errorVars
  <2>6. RecordFound'
    <3>1. registry[step] # NoQuery
      BY <2>2 DEF EchoesIdentified
    <3> QED BY <3>1, <1>1, <2>1 DEF RecordFound, BaseRecorded, serverVars
  <2>7. MappingExact' /\ SoundWhenTestedAlone'
    BY <1>1, <2>1 DEF MappingExact, SeenMapping, SoundWhenTestedAlone, FilteringSound, rigidVars, echoVars
  <2> QED BY <2>3, <2>4, <2>5, <2>6, <2>7
<1>4. CASE Expected(m) /\ stage # "echo"
  <2>1. /\ FilterEnds(TRUE) /\ UNCHANGED errorVars /\ step \in FilterProbe
        /\ m.kind \in {"reply", "probe"}
    BY <1>4 DEF Receive, FilterEnds, FilterProbe
  <2>2. m.from.ip = Peer(step).ip /\ m.from.query = Peer(step).query
    BY <1>4 DEF Expected
  <2>3. m.from \in Remote
    BY <2>1 DEF TypeOK, Echo, EchoReply, FilterEcho, MarkedError
  <2>4. ASSUME plan = "filtering" PROVE m.from \in Class(behavior.filtering, Peer("base"))
    BY <2>4, <1>1 DEF Admits, PlanKept
  <2>5. ASSUME plan = "filtering", behavior.filtering # "EndpointIndependent"
        PROVE  /\ m.from.ip = Primary
               /\ behavior.filtering = "AddressDependent" \/ m.from.query = 300
    BY <2>4, <2>5, Remotes DEF Class
  <2>6. step = "filterS" /\ plan = "filtering" => behavior.filtering = "EndpointIndependent"
    BY <2>2, <2>5, Remotes
  <2>7. step = "filterPAgain" /\ plan = "filtering" => behavior.filtering # "AddressAndPortDependent"
    BY <2>2, <2>5, Remotes
  <2> QED BY <1>1, <2>1, <2>6, <2>7, FilterEndsInv
<1> QED BY <1>2, <1>3, <1>4

LEMMA Stepwise == IInv /\ [Next]_vars => IInv'
<1> SUFFICES ASSUME IInv, [Next]_vars PROVE IInv'
  OBVIOUS
<1> USE DEF IInv, EInv
<1>own. rigidVars' = rigidVars => \A t : OwnId(t)' = OwnId(t)
  BY DEF OwnId, MappedQuery, Class, Peer, rigidVars
<1>seen. markers \subseteq passes
  BY DEF SeenErrorsPass
<1>1. CASE UNCHANGED vars \/ Over
  <2>1. UNCHANGED <<rigidVars, pathVars, serverVars, clientVars>>
    BY <1>1 DEF vars, Over
  <2>2. TypeOK' /\ EchoesIdentified'
    BY <2>1, <1>own DEF TypeOK, EchoesIdentified, rigidVars, pathVars, serverVars, clientVars,
       echoVars, errorVars, Echo, EchoReply, FilterEcho, MarkedError
  <2> QED BY <2>1, <2>2, <1>seen, OthersStepInv DEF pathVars, serverVars
<1>2. CASE Client
  BY <1>2, ClientStep
<1>3. CASE \E m \in network : Receive(m)
  BY <1>3, ReceiveStep
<1>4. CASE \E m \in network : Drop(m) \/ Lose(m)
  <2>1. network' \subseteq network /\ UNCHANGED <<rigidVars, contacts, serverVars, clientVars>>
    BY <1>4 DEF Drop, Lose
  <2>2. TypeOK' /\ EchoesIdentified'
    BY <2>1, <1>own DEF TypeOK, EchoesIdentified, rigidVars, serverVars, clientVars,
       echoVars, errorVars, Echo, EchoReply, FilterEcho, MarkedError
  <2> QED BY <2>1, <2>2, <1>seen, OthersStepInv DEF serverVars
<1>5. CASE \E m \in network : Record(m)
  <2>1. PICK m \in network : Record(m)
    BY <1>5
  <2>2. m \in Echo /\ m.id = OwnId(m.token)
    BY <2>1 DEF Record, TypeOK, EchoReply, FilterEcho, MarkedError, EchoesIdentified
  <2>3. /\ registry' = [registry EXCEPT ![m.token] = m.id] /\ replying' = m
        /\ network' \subseteq network /\ UNCHANGED <<rigidVars, contacts, markers, clientVars>>
    BY <2>1 DEF Record, After
  <2>4. /\ m.token \in Probe /\ m.id \in Query /\ m.id # NoQuery
        /\ \A t \in Probe : registry'[t] = IF t = m.token THEN m.id ELSE registry[t]
    BY <2>2, <2>3 DEF Echo, TypeOK
  <2>5. TypeOK'
    BY <2>2, <2>3, <2>4 DEF TypeOK, rigidVars, clientVars, echoVars, errorVars, Echo, EchoReply,
       FilterEcho, MarkedError
  <2>6. EchoesIdentified'
    <3>1. \A n \in network : n.kind = "reply" => n.token \in Probe
      BY DEF TypeOK, Echo, EchoReply, FilterEcho, MarkedError
    <3> QED BY <3>1, <2>2, <2>3, <2>4, <1>own DEF EchoesIdentified
  <2> QED BY <2>2, <2>3, <2>4, <2>5, <2>6, <1>seen, OthersStepInv
<1>6. CASE Reply
  <2>1. /\ replying # NoEcho /\ network' = network \cup {ReplyTo(replying)} /\ replying' = NoEcho
        /\ UNCHANGED <<rigidVars, contacts, registry, markers, clientVars>>
    BY <1>6 DEF Reply
  <2>2. ReplyTo(replying) \in EchoReply /\ ReplyTo(replying).token = replying.token
    <3>1. replying \in Echo
      BY <2>1 DEF TypeOK
    <3>2. [replying.to EXCEPT !.ip = SourceOf(replying.to.ip)] \in Remote
      BY <3>1 DEF Echo, Remote, SourceOf
    <3> QED BY <3>1, <3>2 DEF ReplyTo, Echo, EchoReply
  <2>3. TypeOK'
    BY <2>1, <2>2 DEF TypeOK, rigidVars, clientVars, echoVars, errorVars, Echo, EchoReply,
       FilterEcho, MarkedError
  <2>4. EchoesIdentified'
    <3>1. ReplyTo(replying).kind = "reply"
      BY DEF ReplyTo
    <3> QED BY <3>1, <2>1, <2>2, <1>own DEF EchoesIdentified
  <2> QED BY <2>1, <2>3, <2>4, <1>seen, OthersStepInv
<1>7. CASE OthersReset
  <2>1. markers' = {} /\ UNCHANGED <<rigidVars, pathVars, registry, replying, clientVars>>
    BY <1>7 DEF OthersReset
  <2>2. TypeOK' /\ EchoesIdentified'
    BY <2>1, <1>own DEF TypeOK, EchoesIdentified, rigidVars, pathVars, clientVars,
       echoVars, errorVars, Echo, EchoReply, FilterEcho, MarkedError
  <2> QED BY <2>1, <2>2, OthersStepInv DEF pathVars
<1>8. CASE \E m \in network : RecordMarker(m)
  <2>1. PICK m \in network : RecordMarker(m)
    BY <1>8
  <2>2. m.marker \in {"outBad", "outValid"} /\ m.marker \in passes
    BY <2>1 DEF RecordMarker, TypeOK, Echo, EchoReply, FilterEcho, MarkedError, Error
  <2>3. /\ markers' = markers \cup {m.marker} /\ network' \subseteq network
        /\ UNCHANGED <<rigidVars, contacts, registry, replying, clientVars>>
    BY <2>1 DEF RecordMarker, After
  <2>4. TypeOK'
    BY <2>2, <2>3 DEF TypeOK, rigidVars, clientVars, echoVars, errorVars, Echo, EchoReply,
       FilterEcho, MarkedError
  <2>5. EchoesIdentified'
    BY <2>3, <1>own DEF EchoesIdentified
  <2> QED BY <2>2, <2>3, <2>4, <2>5, <1>seen, OthersStepInv
<1>9. CASE \E m \in network : HearError(m)
  <2>1. PICK m \in network : HearError(m)
    BY <1>9
  <2>2. /\ step = "payload" /\ step' = step /\ stage' = "send" /\ inbound' = TRUE
        /\ "inBad" \in passes /\ network' \subseteq network
        /\ UNCHANGED <<rigidVars, contacts, serverVars, echoVars, payload, outbound>>
    BY <2>1 DEF HearError, After
  <2>3. SeenErrorsPass' /\ MarkersSound'
    BY <2>2, <1>seen DEF SeenErrorsPass, MarkersSound, rigidVars, serverVars
  <2>4. step \in ErrorProbe /\ {payload, outbound} \subseteq {"Unset", "Pass", "Fail", "Inconclusive"}
    BY <2>2 DEF ErrorProbe, TypeOK
  <2> QED BY <2>2, <2>3, <2>4, ErrorStepInv DEF serverVars
<1> QED BY <1>1, <1>2, <1>3, <1>4, <1>5, <1>6, <1>7, <1>8, <1>9 DEF Next

-----------------------------------------------------------------------------
(* The theorems. *)

\* The state keeps its types, packets are of probes the client has sent, and
\* the invariant that the verdicts rest on is kept.
THEOREM Invariance == Spec => []IInv
<1> QED BY Initially, Stepwise, PTL DEF Spec

\* The mapping verdict of run_rfc5508_tests names the NAT's own behaviour,
\* whatever is lost, repeated or late, with both threads of the server at work.
THEOREM MappingExactness == Spec => []MappingExact
<1>1. IInv => MappingExact
  BY DEF IInv
<1> QED BY <1>1, Invariance, PTL

\* The filtering test alone never calls the filter more open than it is.
THEOREM FilteringSoundAlone == Spec => []SoundWhenTestedAlone
<1>1. IInv => SoundWhenTestedAlone
  BY DEF IInv
<1> QED BY <1>1, Invariance, PTL

\* handle_icmp_packet has made the record before IM or IF looks for it.
THEOREM RecordPrecedesReply == Spec => []RecordFound
<1>1. IInv => RecordFound
  BY DEF IInv
<1> QED BY <1>1, Invariance, PTL

\* The error phase passes only errors the NAT lets through, although every
\* client of the server resets and records markers in one set.
THEOREM ErrorVerdictsSound == Spec => []MarkersSound
<1>1. IInv => MarkersSound
  BY DEF IInv
<1> QED BY <1>1, Invariance, PTL

-----------------------------------------------------------------------------
(* The verdicts where nothing is lost: the invariants this takes beyond     *)
(* IInv.  The first part is kept whatever is lost.                          *)

\* Where a packet of a ping goes or comes from, and which mapping it uses.
Routed(m) ==
  /\ m.kind = "echo" => m.to = Peer(m.token)
  /\ m.kind = "reply" => m.id = OwnId(m.token) /\ (deployment = "own" => m.from = Peer(m.token))
  /\ m.kind = "probe" => m.id = OwnId("base")

PacketsRouted ==
  /\ \A m \in network : Routed(m)
  /\ replying # NoEcho => replying.to = Peer(replying.token)

\* A ping that is waited for, or was answered, is in the NAT's table.
PingNoted ==
  /\ step \in Probe /\ stage \in {"echo", "control"} => Peer(step) \in contacts
  /\ step \in FilterProbe => Peer("base") \in contacts

\* The error phase is a plan of its own.
ErrorsApart ==
  IF plan = "errors" THEN step \in ErrorProbe \cup {"done", "aborted"}
                     ELSE step \notin ErrorProbe

\* Only a mapping probe waits for its echo, and only the others listen.
StageFits ==
  /\ stage = "echo" => step \in Probe
  /\ stage = "listen" => step \in FilterProbe \cup {"payload"}

RouteInv == PacketsRouted /\ PingNoted /\ ErrorsApart /\ StageFits

\* The filter admits the server's packet for filter probe s.
Open(s) == Peer(s) \in Class(behavior.filtering, Peer("base"))

\* Where nothing is lost, what is waited for comes unless the NAT refuses it.
AnswersCome ==
  timely =>
    /\ deployment = "own" /\ stage = "echo" =>
         \/ \E m \in network : m.kind \in {"echo", "reply"} /\ m.token = step
         \/ replying # NoEcho /\ replying.token = step
    /\ deployment = "own" /\ plan = "filtering" /\ stage = "listen" /\ Open(step) =>
         \E m \in network : m.kind = "probe" /\ m.from = Peer(step)
    /\ plan = "errors" /\ stage = "listen" /\ "inBad" \in passes =>
         \E m \in network : m.kind = "error" /\ m.marker = "inBad"
    /\ alone /\ stage = "check" /\ Mine(step) \in passes =>
         \/ Mine(step) \in markers
         \/ \E m \in network : m.kind = "error" /\ m.marker = Mine(step)

\* And what the finished probes have told is all there is to know.
LearntInTime ==
  timely =>
    /\ deployment = "own" /\ plan \in {"mapping", "all"} =>
         /\ step = "secondary" => samples["primary"] # NoQuery
         /\ step \notin {"primary", "secondary", "primaryAgain", "aborted"} =>
              mapping \in Dependence
    /\ deployment = "own" /\ plan = "filtering" =>
         /\ step \in {"filterS", "filterPAgain"} =>
              behavior.filtering # "AddressAndPortDependent"
         /\ step = "filterPAgain" => behavior.filtering # "EndpointIndependent"
    /\ plan = "errors" /\ step = "payload" /\ stage \in {"send", "check"} =>
         ("inBad" \in passes => inbound)
    /\ plan = "errors" /\ alone /\ step \in {"outbound", "done"} =>
         payload = IF {"inBad", "outBad"} \subseteq passes THEN "Pass" ELSE "Fail"

TimelyInv == AnswersCome /\ LearntInTime /\ TimelyTestIsExact

-----------------------------------------------------------------------------
(* Lemmas. *)

LEMMA ClassOfOwn == \A d, r : r \in Remote => r \in Class(d, r)
BY DEF Class

\* Which filter probes the filter lets through.
LEMMA OpenValues ==
  ASSUME TypeOK
  PROVE  /\ Open("filterP") <=> behavior.filtering # "AddressAndPortDependent"
         /\ Open("filterS") <=> behavior.filtering = "EndpointIndependent"
         /\ Open("filterPAgain") <=> behavior.filtering # "AddressAndPortDependent"
<1>1. behavior.filtering \in Dependence
  BY DEF TypeOK
<1>2. /\ Peer("filterP") \in Remote /\ Peer("filterS") \in Remote
      /\ Peer("filterPAgain") \in Remote
  BY Remotes DEF FilterProbe
<1>3. Open("filterP") <=> behavior.filtering # "AddressAndPortDependent"
  BY <1>1, <1>2, Remotes DEF Open, Class, Dependence
<1>4. Open("filterS") <=> behavior.filtering = "EndpointIndependent"
  BY <1>1, <1>2, Remotes DEF Open, Class, Dependence
<1>5. Open("filterPAgain") <=> behavior.filtering # "AddressAndPortDependent"
  BY <1>1, <1>2, Remotes DEF Open, Class, Dependence
<1> QED BY <1>3, <1>4, <1>5

\* What keeps RouteInv: packets only come that are routed, contacts only grow,
\* and the test goes on within its phase.
LEMMA RouteKept ==
  ASSUME RouteInv, StageFits', UNCHANGED rigidVars, contacts \subseteq contacts',
         \A m \in network' : m \in network \/ Routed(m),
         replying' \in {replying, NoEcho} \/ replying'.to = Peer(replying'.token),
         step' \in Probe /\ stage' \in {"echo", "control"} =>
           step' = step /\ (stage \in {"echo", "control"} \/ Peer(step) \in contacts'),
         step' \in FilterProbe => step \in FilterProbe \/ Peer("base") \in contacts,
         \/ step' \in {"done", "aborted"}
         \/ step \notin {"done", "aborted"} /\ (step' \in ErrorProbe <=> step \in ErrorProbe)
  PROVE  RouteInv'
<1>1. \A m : Routed(m)' = Routed(m)
  BY DEF Routed, OwnId, MappedQuery, Class, Peer, rigidVars
<1>2. PacketsRouted'
  <2>1. \A m \in network' : Routed(m)'
    BY <1>1 DEF RouteInv, PacketsRouted
  <2>2. \A s : Peer(s)' = Peer(s)
    BY DEF Peer
  <2>3. replying' # NoEcho => replying'.to = Peer(replying'.token)
    BY DEF RouteInv, PacketsRouted
  <2> QED BY <2>1, <2>2, <2>3 DEF PacketsRouted
<1>3. PingNoted'
  <2>1. \A s : Peer(s)' = Peer(s)
    BY DEF Peer
  <2>2. step' \in Probe /\ stage' \in {"echo", "control"} => Peer(step') \in contacts'
    BY DEF RouteInv, PingNoted
  <2>3. step' \in FilterProbe => Peer("base") \in contacts'
    BY DEF RouteInv, PingNoted
  <2> QED BY <2>1, <2>2, <2>3 DEF PingNoted
<1>4. ErrorsApart'
  BY DEF RouteInv, ErrorsApart, rigidVars, ErrorProbe
<1> QED BY <1>2, <1>3, <1>4 DEF RouteInv

\* Where the test is after a probe.
LEMMA ProbeEndsStep ==
  ASSUME NEW q, step \in Probe, ProbeEnds(q)
  PROVE  /\ step' \in Probe \cup FilterProbe \cup {"done"}
         /\ step' \in Probe => stage' = "send"
         /\ stage' \in {"send", "control"}
         /\ step' \in FilterProbe => step = "base" /\ q # NoQuery
<1>1. /\ step' \in Probe \cup {"filterP", "done"}
      /\ stage' = IF step' \in Probe THEN "send" ELSE "control"
      /\ step' = "filterP" => step = "base" /\ q # NoQuery
  <2>1. CASE step = "primary"
    BY <2>1 DEF ProbeEnds, GoTo, Probe
  <2>2. CASE step = "secondary"
    BY <2>2 DEF ProbeEnds, GoTo, AfterMapping, Probe
  <2>3. CASE step = "primaryAgain"
    BY <2>3 DEF ProbeEnds, GoTo, AfterMapping, Probe
  <2>4. CASE step = "base"
    BY <2>4 DEF ProbeEnds, GoTo, BaseEnds, Probe
  <2> QED BY <2>1, <2>2, <2>3, <2>4 DEF Probe
<1> QED BY <1>1 DEF FilterProbe, Probe

LEMMA FilterEndsStep ==
  ASSUME NEW ok \in BOOLEAN, FilterEnds(ok)
  PROVE  /\ step \in FilterProbe /\ step' \in FilterProbe \cup {"done"}
         /\ stage' = "control" /\ samples' = samples /\ mapping' = mapping
BY DEF FilterEnds, GoTo, FilterProbe, Probe

LEMMA RouteInitially == Init => RouteInv
BY DEF Init, RouteInv, PacketsRouted, PingNoted, ErrorsApart, StageFits, Probe, FilterProbe, ErrorProbe

LEMMA RouteStep == IInv /\ RouteInv /\ [Next]_vars => RouteInv'
<1> SUFFICES ASSUME IInv, RouteInv, [Next]_vars PROVE RouteInv'
  OBVIOUS
<1>distinct. /\ Probe \cap FilterProbe = {} /\ Probe \cap ErrorProbe = {} /\ FilterProbe \cap ErrorProbe = {}
             /\ \A s \in {"done", "aborted"} : s \notin Probe \cup FilterProbe \cup ErrorProbe
             /\ step \in Probe \cup FilterProbe \cup ErrorProbe \cup {"done", "aborted"}
  BY DEF Probe, FilterProbe, ErrorProbe, IInv, TypeOK
<1>fits. StageFits'
  <2>1. \/ stage' \notin {"echo", "listen"} \/ UNCHANGED <<step, stage>>
        \/ SendEcho \/ IF_Command \/ IE
    <3>1. ASSUME NEW q, ProbeEnds(q) PROVE stage' \in {"send", "control"}
      <4>1. step \in Probe
        BY <3>1 DEF ProbeEnds, Probe
      <4> QED BY <3>1, <4>1, ProbeEndsStep
    <3>2. ASSUME NEW ok \in BOOLEAN, FilterEnds(ok) PROVE stage' = "control"
      BY <3>2, FilterEndsStep
    <3>3. CASE Client
      BY <3>1, <3>2, <3>3 DEF Client, SendFails, WaitEnds, ControlFails, IM, IRR, HearNothing, SendError, IR,
         Decided, GoTo
    <3>4. CASE \E m \in network : Receive(m)
      BY <3>2, <3>4 DEF Receive, clientVars
    <3>5. CASE ~ Client /\ ~ \E m \in network : Receive(m)
      BY <3>5 DEF Next, vars, clientVars, Over, Reply, OthersReset, Record, Drop, Lose, HearError, RecordMarker
    <3> QED BY <3>3, <3>4, <3>5
  <2>2. CASE SendEcho \/ IF_Command \/ IE
    BY <2>2, FilterEndsStep DEF SendEcho, IF_Command, IE, Decided, GoTo, StageFits, FilterProbe
  <2> QED BY <2>1, <2>2 DEF StageFits, RouteInv
<1>1. CASE UNCHANGED vars \/ Over
  <2>1. UNCHANGED <<rigidVars, pathVars, serverVars, clientVars>>
    BY <1>1 DEF vars, Over
  <2> QED BY <2>1, <1>distinct, <1>fits, RouteKept DEF pathVars, serverVars, clientVars
<1>2. CASE SendEcho
  <2> DEFINE e == [kind |-> "echo", to |-> Peer(step), id |-> MappedQuery(Peer(step)), token |-> step]
  <2>1. /\ step \in Probe /\ contacts' = contacts \cup {Peer(step)} /\ network' = network \cup {e}
        /\ UNCHANGED <<rigidVars, serverVars, step>>
    BY <1>2 DEF SendEcho
  <2>2. Routed(e)
    BY DEF Routed
  <2> QED BY <2>1, <2>2, <1>distinct, <1>fits, RouteKept DEF serverVars
<1>3. CASE SendFails
  <2>1. step \in Probe /\ ProbeEnds(NoQuery) /\ UNCHANGED <<rigidVars, pathVars, serverVars>>
    BY <1>3 DEF SendFails
  <2>2. step' \in Probe \cup {"done"} /\ (step' \in Probe => stage' = "send")
    BY <2>1, <1>distinct, ProbeEndsStep
  <2> QED BY <2>1, <2>2, <1>distinct, <1>fits, RouteKept DEF pathVars, serverVars
<1>4. CASE IM
  <2>1. /\ step \in Probe /\ stage = "control" /\ ProbeEnds(registry[step])
        /\ UNCHANGED <<rigidVars, pathVars, serverVars>>
    BY <1>4 DEF IM
  <2>2. /\ step' \in Probe \cup FilterProbe \cup {"done"} /\ (step' \in Probe => stage' = "send")
        /\ step' \in FilterProbe => step = "base"
    BY <2>1, <1>distinct, ProbeEndsStep
  <2>3. Peer(step) \in contacts
    BY <2>1 DEF RouteInv, PingNoted
  <2> QED BY <2>1, <2>2, <2>3, <1>distinct, <1>fits, RouteKept DEF pathVars, serverVars
<1>5. CASE WaitEnds
  <2>1. Listening /\ UNCHANGED <<rigidVars, pathVars, serverVars>>
    BY <1>5 DEF WaitEnds
  <2>2. CASE stage = "echo"
    <3>1. step \in Probe /\ ProbeEnds(NoQuery)
      BY <1>5, <2>2 DEF WaitEnds, ProbeEnds, Probe
    <3>2. step' \in Probe \cup {"done"} /\ (step' \in Probe => stage' = "send")
      BY <3>1, <1>distinct, ProbeEndsStep
    <3> QED BY <2>1, <3>1, <3>2, <1>distinct, <1>fits, RouteKept DEF pathVars, serverVars
  <2>3. CASE stage # "echo"
    <3>1. FilterEnds(FALSE)
      BY <1>5, <2>3 DEF WaitEnds
    <3>2. step \in FilterProbe /\ step' \in FilterProbe \cup {"done"}
      BY <3>1, FilterEndsStep
    <3> QED BY <2>1, <3>2, <1>distinct, <1>fits, RouteKept DEF pathVars, serverVars
  <2> QED BY <2>2, <2>3
<1>6. CASE IF_Command
  <2>1. step \in FilterProbe /\ UNCHANGED <<rigidVars, contacts, serverVars>>
    BY <1>6 DEF IF_Command
  <2>2. CASE registry["base"] = NoQuery
    <3>1. step' \in FilterProbe \cup {"done"} /\ network' = network
      BY <1>6, <2>2, FilterEndsStep DEF IF_Command
    <3> QED BY <2>1, <3>1, <1>distinct, <1>fits, RouteKept DEF serverVars
  <2>3. CASE registry["base"] # NoQuery
    <3> DEFINE p == [kind |-> "probe", id |-> registry["base"], token |-> "base",
                     from |-> [Peer(step) EXCEPT !.ip = SourceOf(Peer(step).ip)]]
    <3>1. network' = network \cup {p} /\ UNCHANGED step
      BY <1>6, <2>3 DEF IF_Command
    <3>2. registry["base"] = OwnId("base")
      BY <2>3 DEF IInv, EInv, RecordsExact, Probe
    <3>3. Routed(p)
      BY <3>2 DEF Routed
    <3> QED BY <2>1, <3>1, <3>3, <1>distinct, <1>fits, RouteKept DEF serverVars
  <2> QED BY <2>2, <2>3
<1>7. CASE ControlFails
  <2>1. step' \in {"done", "aborted"} /\ UNCHANGED <<rigidVars, pathVars, serverVars>>
    BY <1>7 DEF ControlFails, GoTo
  <2> QED BY <2>1, <1>distinct, <1>fits, RouteKept DEF pathVars, serverVars
<1>8. CASE IRR \/ IE \/ HearNothing \/ SendError \/ IR \/ \E m \in network : HearError(m)
  <2>1. step \in ErrorProbe /\ step' \in ErrorProbe \cup {"done"}
    BY <1>8, <1>distinct DEF IRR, IE, HearNothing, SendError, IR, HearError, Decided, GoTo, ErrorProbe
  <2>2. UNCHANGED <<rigidVars, contacts, replying>>
    BY <1>8 DEF IRR, IE, HearNothing, SendError, IR, HearError, pathVars, serverVars
  <2>3. \A m \in network' : m \in network \/ m.kind = "error"
    BY <1>8 DEF IRR, IE, HearNothing, SendError, IR, HearError, pathVars, After
  <2> QED BY <2>1, <2>2, <2>3, <1>distinct, <1>fits, RouteKept DEF Routed
<1>9. CASE \E m \in network : Receive(m)
  <2>1. PICK m \in network : Receive(m)
    BY <1>9
  <2>2. Listening /\ network' \subseteq network /\ UNCHANGED <<rigidVars, contacts, serverVars>>
    BY <2>1 DEF Receive, After
  <2>3. CASE ~ Expected(m)
    <3>1. UNCHANGED <<step, stage>>
      BY <2>1, <2>3 DEF Receive, clientVars
    <3> QED BY <2>2, <3>1, <1>distinct, <1>fits, RouteKept DEF serverVars
  <2>4. CASE Expected(m) /\ stage = "echo"
    <3>1. UNCHANGED step
      BY <2>1, <2>4 DEF Receive
    <3> QED BY <2>2, <2>4, <3>1, <1>distinct, <1>fits, RouteKept DEF serverVars
  <2>5. CASE Expected(m) /\ stage # "echo"
    <3>1. step \in FilterProbe /\ step' \in FilterProbe \cup {"done"}
      BY <2>1, <2>5, FilterEndsStep DEF Receive
    <3> QED BY <2>2, <3>1, <1>distinct, <1>fits, RouteKept DEF serverVars
  <2> QED BY <2>3, <2>4, <2>5
<1>10. CASE \E m \in network : Drop(m) \/ Lose(m) \/ RecordMarker(m)
  <2>1. /\ network' \subseteq network
        /\ UNCHANGED <<rigidVars, contacts, replying, step, stage>>
    BY <1>10 DEF Drop, Lose, RecordMarker, After, serverVars, clientVars
  <2> QED BY <2>1, <1>distinct, <1>fits, RouteKept
<1>11. CASE \E m \in network : Record(m)
  <2>1. PICK m \in network : Record(m)
    BY <1>11
  <2>2. /\ m.kind = "echo" /\ replying' = m /\ network' \subseteq network
        /\ UNCHANGED <<rigidVars, contacts, step, stage>>
    BY <2>1 DEF Record, After, clientVars
  <2>3. m.to = Peer(m.token)
    BY <2>2 DEF RouteInv, PacketsRouted, Routed
  <2> QED BY <2>2, <2>3, <1>distinct, <1>fits, RouteKept
<1>12. CASE Reply
  <2>1. /\ replying # NoEcho /\ network' = network \cup {ReplyTo(replying)} /\ replying' = NoEcho
        /\ UNCHANGED <<rigidVars, contacts, step, stage>>
    BY <1>12 DEF Reply, clientVars
  <2>2. Routed(ReplyTo(replying))
    <3>1. replying \in Echo /\ replying.id = OwnId(replying.token) /\ replying.to = Peer(replying.token)
      BY <2>1 DEF IInv, TypeOK, EInv, EchoesIdentified, RouteInv, PacketsRouted
    <3>2. deployment = "own" => [replying.to EXCEPT !.ip = SourceOf(replying.to.ip)] = replying.to
      BY <3>1 DEF Echo, Remote, SourceOf
    <3> QED BY <3>1, <3>2 DEF ReplyTo, Routed
  <2> QED BY <2>1, <2>2, <1>distinct, <1>fits, RouteKept
<1>13. CASE OthersReset
  <2>1. UNCHANGED <<rigidVars, pathVars, replying, step, stage>>
    BY <1>13 DEF OthersReset, clientVars
  <2> QED BY <2>1, <1>distinct, <1>fits, RouteKept DEF pathVars
<1> QED BY <1>1, <1>2, <1>3, <1>4, <1>5, <1>6, <1>7, <1>8, <1>9, <1>10, <1>11, <1>12, <1>13
     DEF Next, Client

LEMMA TimelyInitially == Init => TimelyInv
BY DEF Init, TimelyInv, AnswersCome, LearntInTime, TimelyTestIsExact, Plan

\* A mapping probe that has its query id leaves nothing open but the next probe.
LEMMA ProbeEndsTimely ==
  ASSUME IInv, IInv', TimelyInv, timely, step \in Probe, plan # "errors",
         NEW q, q # NoQuery \/ deployment # "own", ProbeEnds(q), UNCHANGED rigidVars
  PROVE  TimelyInv'
<1>1. /\ step' \in Probe \cup FilterProbe \cup {"done"} /\ stage' \in {"send", "control"}
      /\ UNCHANGED <<timely, plan, deployment, behavior>>
  BY ProbeEndsStep DEF rigidVars
<1>2. AnswersCome'
  BY <1>1 DEF AnswersCome
<1>3. CASE step = "primary"
  <2>1. step' = "secondary" /\ samples'["primary"] = q /\ filtering' = filtering
    BY <1>3 DEF ProbeEnds, GoTo, Probe, IInv, TypeOK
  <2>2. LearntInTime' /\ TimelyTestIsExact'
    BY <1>1, <2>1 DEF LearntInTime, TimelyTestIsExact
  <2> QED BY <1>2, <2>2 DEF TimelyInv
<1>4. CASE step = "secondary"
  <2>1. /\ deployment = "own" /\ plan \in {"mapping", "all"} => samples["primary"] # NoQuery
        /\ plan # "filtering"
    BY <1>4 DEF TimelyInv, LearntInTime, IInv, EInv, PlanKept, FilterProbe
  <2>2. deployment = "own" => \/ mapping' = "EndpointIndependent" /\ step' \in {"base", "done"}
                              \/ step' = "primaryAgain"
    BY <1>4, <2>1 DEF ProbeEnds, AfterMapping, GoTo, IInv, TypeOK, Plan
  <2>3. MappingExact' /\ (SeenMapping' = SeenMapping)
    BY <1>1 DEF IInv, SeenMapping
  <2>4. LearntInTime'
    BY <1>1, <2>1, <2>2 DEF LearntInTime, Dependence
  <2>5. TimelyTestIsExact'
    BY <1>1, <2>1, <2>2, <2>3 DEF TimelyTestIsExact, MappingExact, Dependence
  <2> QED BY <1>2, <2>4, <2>5 DEF TimelyInv
<1>5. CASE step = "primaryAgain"
  <2>1. plan # "filtering"
    BY <1>5 DEF IInv, EInv, PlanKept, FilterProbe
  <2>2. deployment = "own" => mapping' \in Dependence
    BY <1>5 DEF ProbeEnds, Dependence
  <2>3. step' \in {"base", "done"}
    BY <1>5 DEF ProbeEnds, AfterMapping, GoTo
  <2>4. LearntInTime'
    BY <1>1, <2>1, <2>2, <2>3 DEF LearntInTime
  <2>5. TimelyTestIsExact'
    BY <1>1, <2>1, <2>2, <2>3 DEF TimelyTestIsExact, MappingExact, IInv
  <2> QED BY <1>2, <2>4, <2>5 DEF TimelyInv
<1>6. CASE step = "base"
  <2>1. /\ deployment = "own" => step' = "filterP" /\ stage' = "control"
        /\ mapping' = mapping /\ step' \in {"filterP", "done"}
    BY <1>6 DEF ProbeEnds, BaseEnds, GoTo, Probe
  <2>2. deployment = "own" /\ plan \in {"mapping", "all"} => mapping \in Dependence
    BY <1>6 DEF TimelyInv, LearntInTime
  <2>3. LearntInTime' /\ TimelyTestIsExact'
    BY <1>1, <2>1, <2>2 DEF LearntInTime, TimelyTestIsExact
  <2> QED BY <1>2, <2>3 DEF TimelyInv
<1> QED BY <1>3, <1>4, <1>5, <1>6 DEF Probe

\* So does a filter probe that is answered exactly if the filter lets it.
LEMMA FilterEndsTimely ==
  ASSUME IInv, IInv', TimelyInv, timely, plan # "errors", NEW ok \in BOOLEAN, FilterEnds(ok),
         deployment = "own" /\ plan = "filtering" => (ok <=> Open(step)), UNCHANGED rigidVars
  PROVE  TimelyInv'
<1>1. /\ step \in FilterProbe /\ step' \in FilterProbe \cup {"done"} /\ stage' = "control"
      /\ samples' = samples /\ mapping' = mapping
      /\ UNCHANGED <<timely, plan, deployment, behavior>>
  BY FilterEndsStep DEF rigidVars
<1>2. AnswersCome'
  BY <1>1 DEF AnswersCome
<1>3. deployment = "own" /\ plan \in {"mapping", "all"} => mapping' \in Dependence /\ mapping' = SeenMapping'
  <2>1. deployment = "own" /\ plan \in {"mapping", "all"} => mapping \in Dependence
    BY <1>1 DEF TimelyInv, LearntInTime, FilterProbe
  <2> QED BY <1>1, <2>1 DEF IInv, MappingExact
<1>4. deployment = "own" /\ plan = "filtering" =>
        /\ step' \in {"filterS", "filterPAgain"} => behavior.filtering # "AddressAndPortDependent"
        /\ step' = "filterPAgain" => behavior.filtering # "EndpointIndependent"
        /\ step' = "done" => filtering' = behavior.filtering
  <2> SUFFICES ASSUME deployment = "own", plan = "filtering"
               PROVE  /\ step' \in {"filterS", "filterPAgain"} =>
                           behavior.filtering # "AddressAndPortDependent"
                      /\ step' = "filterPAgain" => behavior.filtering # "EndpointIndependent"
                      /\ step' = "done" => filtering' = behavior.filtering
    OBVIOUS
  <2>1. /\ behavior.filtering \in Dependence /\ (ok <=> Open(step))
        /\ step \in {"filterS", "filterPAgain"} => behavior.filtering # "AddressAndPortDependent"
        /\ step = "filterPAgain" => behavior.filtering # "EndpointIndependent"
    BY DEF IInv, TypeOK, TimelyInv, LearntInTime
  <2>2. CASE step = "filterP"
    BY <2>1, <2>2, OpenValues DEF FilterEnds, GoTo, IInv
  <2>3. CASE step = "filterS"
    BY <2>1, <2>3, OpenValues DEF FilterEnds, GoTo, IInv
  <2>4. CASE step = "filterPAgain"
    BY <2>1, <2>4, OpenValues DEF FilterEnds, GoTo, IInv, Dependence
  <2> QED BY <1>1, <2>2, <2>3, <2>4 DEF FilterProbe
<1>5. LearntInTime' /\ TimelyTestIsExact'
  BY <1>1, <1>3, <1>4 DEF LearntInTime, TimelyTestIsExact, FilterProbe
<1> QED BY <1>2, <1>5 DEF TimelyInv

\* A step that leaves the client where it is keeps what it has learnt.
LEMMA OthersTimely ==
  ASSUME TimelyInv, UNCHANGED <<rigidVars, clientVars>>, timely => AnswersCome'
  PROVE  TimelyInv'
<1>1. UNCHANGED <<behavior, deployment, plan, passes, alone, timely, step, stage, samples, mapping,
                  filtering, inbound, payload, outbound>>
  BY DEF rigidVars, clientVars, echoVars, errorVars
<1>2. AnswersCome'
  BY <1>1 DEF AnswersCome
<1>3. LearntInTime' /\ TimelyTestIsExact'
  BY <1>1 DEF TimelyInv, LearntInTime, TimelyTestIsExact, SeenMapping
<1> QED BY <1>2, <1>3 DEF TimelyInv

\* What is waited for is let in.
LEMMA AwaitedIsAdmitted ==
  ASSUME IInv, RouteInv, deployment = "own", NEW m \in network
  PROVE  /\ stage = "echo" /\ step \in Probe /\ m.kind = "reply" /\ m.token = step
              => Admits(m) /\ Expected(m)
         /\ stage = "listen" /\ step \in FilterProbe /\ Open(step) /\ m.kind = "probe" /\ m.from = Peer(step)
              => Admits(m) /\ Expected(m)
<1>1. ASSUME stage = "echo", step \in Probe, m.kind = "reply", m.token = step
      PROVE  Admits(m) /\ Expected(m)
  <2>1. m.id = OwnId(step) /\ m.from = Peer(step) /\ Peer(step) \in contacts
    BY <1>1 DEF RouteInv, PacketsRouted, Routed, PingNoted
  <2>2. m.from \in Class(behavior.filtering, Peer(step))
    BY <1>1, <2>1, ClassOfOwn, Remotes
  <2> QED BY <1>1, <2>1, <2>2 DEF Admits, Expected, OwnId
<1>2. ASSUME stage = "listen", step \in FilterProbe, Open(step), m.kind = "probe", m.from = Peer(step)
      PROVE  Admits(m) /\ Expected(m)
  <2>1. m.id = OwnId("base") /\ Peer("base") \in contacts
    BY <1>2 DEF RouteInv, PacketsRouted, Routed, PingNoted
  <2> QED BY <1>2, <2>1 DEF Admits, Expected, OwnId, Open
<1> QED BY <1>1, <1>2

\* The packets that something waits for.
Awaited(m) ==
  \/ deployment = "own" /\ stage = "echo" /\ m.kind \in {"echo", "reply"} /\ m.token = step
  \/ /\ deployment = "own" /\ plan = "filtering" /\ stage = "listen" /\ Open(step)
     /\ m.kind = "probe" /\ m.from = Peer(step)
  \/ stage = "listen" /\ m.kind = "error" /\ m.marker = "inBad" /\ "inBad" \in passes
  \/ stage = "check" /\ m.kind = "error" /\ m.marker = Mine(step) /\ Mine(step) \in passes

\* A step that loses none of these, or takes one a step further, keeps TimelyInv.
LEMMA AwaitedKept ==
  ASSUME IInv, TimelyInv, UNCHANGED <<rigidVars, clientVars>>,
         \A m \in network : \/ m \in network'
                            \/ ~ Awaited(m)
                            \/ m.kind = "echo" /\ replying' = m
                            \/ m.kind = "error" /\ m.marker # "inBad" /\ m.marker \in markers',
         replying # NoEcho => \/ replying' = replying
                              \/ \E m \in network' : m.kind = "reply" /\ m.token = replying.token,
         alone => markers \subseteq markers'
  PROVE  TimelyInv'
<1>1. UNCHANGED <<behavior, deployment, plan, passes, alone, timely, step, stage>>
  BY DEF rigidVars, clientVars
<1>2. Open(step)' = Open(step) /\ Mine(step)' = Mine(step) /\ Peer(step)' = Peer(step)
  BY <1>1 DEF Open, Class, Peer, Mine
<1>3. Mine(step) # "inBad"
  BY DEF Mine
<1> SUFFICES ASSUME timely PROVE AnswersCome'
  BY OthersTimely
<1>4. AnswersCome
  BY DEF TimelyInv
<1>5. ASSUME deployment = "own", stage = "echo"
      PROVE  \/ \E m \in network' : m.kind \in {"echo", "reply"} /\ m.token = step
             \/ replying' # NoEcho /\ replying'.token = step
  <2>1. CASE replying # NoEcho /\ replying.token = step
    BY <2>1
  <2>2. CASE \E m \in network : m.kind \in {"echo", "reply"} /\ m.token = step
    <3>1. PICK m \in network : m.kind \in {"echo", "reply"} /\ m.token = step
      BY <2>2
    <3>2. Awaited(m) /\ m.kind # "error"
      BY <1>5, <3>1 DEF Awaited
    <3>3. m.kind = "echo" => m # NoEcho
      BY NoEchoIsNone DEF IInv, TypeOK, EchoReply, FilterEcho, MarkedError
    <3> QED BY <3>1, <3>2, <3>3
  <2> QED BY <2>1, <2>2, <1>4, <1>5 DEF AnswersCome
<1>6. ASSUME deployment = "own", plan = "filtering", stage = "listen", Open(step)
      PROVE  \E m \in network' : m.kind = "probe" /\ m.from = Peer(step)
  <2>1. PICK m \in network : m.kind = "probe" /\ m.from = Peer(step)
    BY <1>4, <1>6 DEF AnswersCome
  <2> QED BY <2>1, <1>6 DEF Awaited
<1>7. ASSUME plan = "errors", stage = "listen", "inBad" \in passes
      PROVE  \E m \in network' : m.kind = "error" /\ m.marker = "inBad"
  <2>1. PICK m \in network : m.kind = "error" /\ m.marker = "inBad"
    BY <1>4, <1>7 DEF AnswersCome
  <2> QED BY <2>1, <1>7 DEF Awaited
<1>8. ASSUME alone, stage = "check", Mine(step) \in passes
      PROVE  \/ Mine(step) \in markers'
             \/ \E m \in network' : m.kind = "error" /\ m.marker = Mine(step)
  <2>1. CASE Mine(step) \in markers
    BY <2>1, <1>8
  <2>2. CASE \E m \in network : m.kind = "error" /\ m.marker = Mine(step)
    <3>1. PICK m \in network : m.kind = "error" /\ m.marker = Mine(step)
      BY <2>2
    <3> QED BY <3>1, <1>8 DEF Awaited
  <2> QED BY <2>1, <2>2, <1>4, <1>8 DEF AnswersCome
<1> QED BY <1>1, <1>2, <1>5, <1>6, <1>7, <1>8 DEF AnswersCome

LEMMA TimelyStep == IInv /\ IInv' /\ RouteInv /\ TimelyInv /\ [Next]_vars => TimelyInv'
<1> SUFFICES ASSUME IInv, IInv', RouteInv, TimelyInv, [Next]_vars PROVE TimelyInv'
  OBVIOUS
<1>rigid. UNCHANGED <<behavior, deployment, plan, passes, alone, timely>>
  BY DEF Next, Client, vars, rigidVars, Over, SendEcho, SendFails, WaitEnds, ControlFails, IM,
     IF_Command, IRR, IE, HearNothing, SendError, IR, Reply, OthersReset, Receive, Record, Drop, Lose,
     HearError, RecordMarker
<1> SUFFICES ASSUME timely PROVE TimelyInv'
  BY <1>rigid DEF TimelyInv, AnswersCome, LearntInTime, TimelyTestIsExact
<1>come. AnswersCome /\ LearntInTime
  BY DEF TimelyInv
<1>kinds. /\ Probe \cap FilterProbe = {} /\ Probe \cap ErrorProbe = {} /\ FilterProbe \cap ErrorProbe = {}
          /\ step \in Probe \cup FilterProbe \cup ErrorProbe \cup {"done", "aborted"}
          /\ step \in Probe \cup FilterProbe => plan # "errors"
          /\ step \in ErrorProbe => plan = "errors"
  BY DEF Probe, FilterProbe, ErrorProbe, IInv, TypeOK, RouteInv, ErrorsApart
<1>1. CASE UNCHANGED vars \/ Over
  <2>1. UNCHANGED <<rigidVars, pathVars, serverVars, clientVars>>
    BY <1>1 DEF vars, Over
  <2> QED BY <2>1, AwaitedKept DEF pathVars, serverVars
<1>2. CASE SendEcho
  <2> DEFINE e == [kind |-> "echo", to |-> Peer(step), id |-> MappedQuery(Peer(step)), token |-> step]
  <2>1. /\ step \in Probe /\ e \in network' /\ stage' = "echo" /\ step' = step
        /\ UNCHANGED <<samples, mapping, filtering, inbound, payload, outbound>>
    BY <1>2 DEF SendEcho, echoVars, errorVars
  <2>2. e.kind = "echo" /\ e.token = step
    OBVIOUS
  <2>3. AnswersCome'
    BY <2>1, <2>2 DEF AnswersCome
  <2>4. LearntInTime' /\ TimelyTestIsExact'
    BY <2>1, <1>rigid, <1>kinds, <1>come DEF LearntInTime, TimelyTestIsExact, Probe
  <2> QED BY <2>3, <2>4 DEF TimelyInv
<1>3. CASE SendFails \/ ControlFails \/ \E m \in network : Lose(m)
  BY <1>3 DEF SendFails, ControlFails, Lose
<1>4. CASE WaitEnds
  <2>1. /\ Listening /\ network = {} /\ replying = NoEcho /\ UNCHANGED rigidVars
    BY <1>4 DEF WaitEnds
  <2>2. CASE stage = "echo"
    <3>1. step \in Probe /\ ProbeEnds(NoQuery)
      BY <1>4, <2>2 DEF WaitEnds, ProbeEnds, Probe
    <3>2. deployment # "own"
      BY <2>1, <2>2, <1>come DEF AnswersCome
    <3> QED BY <2>1, <3>1, <3>2, <1>kinds, ProbeEndsTimely
  <2>3. CASE stage # "echo"
    <3>1. FilterEnds(FALSE) /\ step \in FilterProbe
      BY <1>4, <2>3, FilterEndsStep DEF WaitEnds
    <3>2. deployment = "own" /\ plan = "filtering" => ~ Open(step)
      BY <2>1, <2>3, <1>come DEF AnswersCome, Listening
    <3> QED BY <2>1, <3>1, <3>2, <1>kinds, FilterEndsTimely
  <2> QED BY <2>2, <2>3
<1>5. CASE IM
  <2>1. step \in Probe /\ stage = "control" /\ ProbeEnds(registry[step]) /\ UNCHANGED rigidVars
    BY <1>5 DEF IM
  <2>2. registry[step] # NoQuery
    BY <2>1 DEF IInv, RecordFound
  <2> QED BY <2>1, <2>2, <1>kinds, ProbeEndsTimely
<1>6. CASE IF_Command
  <2> DEFINE p == [kind |-> "probe", id |-> registry["base"], token |-> "base",
                   from |-> [Peer(step) EXCEPT !.ip = SourceOf(Peer(step).ip)]]
  <2>1. step \in FilterProbe /\ registry["base"] # NoQuery
    BY <1>6 DEF IF_Command, IInv, EInv, BaseRecorded
  <2>2. /\ p \in network' /\ stage' = "listen" /\ step' = step
        /\ UNCHANGED <<samples, mapping, filtering, inbound, payload, outbound>>
    BY <1>6, <2>1 DEF IF_Command, echoVars, errorVars
  <2>3. deployment = "own" => p.kind = "probe" /\ p.from = Peer(step)
    <3>1. Peer(step) \in Remote
      BY <2>1, Remotes
    <3> QED BY <3>1 DEF SourceOf, Remote
  <2>4. AnswersCome'
    <3>1. deployment = "own" => \E m \in network' : m.kind = "probe" /\ m.from = Peer(step')
      BY <2>2, <2>3
    <3>2. Peer(step)' = Peer(step')
      BY DEF Peer
    <3> QED BY <3>1, <3>2, <2>1, <2>2, <1>rigid, <1>kinds DEF AnswersCome
  <2>5. LearntInTime' /\ TimelyTestIsExact'
    BY <2>1, <2>2, <1>rigid, <1>kinds, <1>come DEF LearntInTime, TimelyTestIsExact, FilterProbe
  <2> QED BY <2>4, <2>5 DEF TimelyInv
<1>7. CASE IRR
  <2>1. /\ step \in ErrorProbe /\ step' = step /\ stage' = IF step = "payload" THEN "inject" ELSE "send"
        /\ UNCHANGED <<samples, mapping, filtering, inbound, payload, outbound>>
    BY <1>7 DEF IRR, echoVars, errorVars
  <2>2. AnswersCome'
    BY <2>1 DEF AnswersCome
  <2>3. LearntInTime' /\ TimelyTestIsExact'
    BY <2>1, <1>rigid, <1>kinds, <1>come DEF LearntInTime, TimelyTestIsExact, ErrorProbe
  <2> QED BY <2>2, <2>3 DEF TimelyInv
<1>8. CASE IE
  <2> DEFINE e == [kind |-> "error", marker |-> "inBad"]
  <2>1. /\ step = "payload" /\ step' = step /\ stage' = "listen" /\ e \in network'
        /\ UNCHANGED <<samples, mapping, filtering, inbound, payload, outbound>>
    BY <1>8 DEF IE, echoVars, errorVars
  <2>2. e.kind = "error" /\ e.marker = "inBad"
    OBVIOUS
  <2>3. AnswersCome'
    BY <2>1, <2>2, <1>rigid, <1>kinds DEF AnswersCome, ErrorProbe
  <2>4. LearntInTime' /\ TimelyTestIsExact'
    BY <2>1, <1>rigid, <1>kinds, <1>come DEF LearntInTime, TimelyTestIsExact, ErrorProbe
  <2> QED BY <2>3, <2>4 DEF TimelyInv
<1>9. CASE HearNothing \/ \E m \in network : HearError(m)
  <2>1. /\ step = "payload" /\ stage = "listen" /\ step' = step /\ stage' = "send"
        /\ UNCHANGED <<samples, mapping, filtering, payload, outbound>>
    BY <1>9 DEF HearNothing, HearError, echoVars, errorVars
  <2>2. "inBad" \in passes => inbound'
    <3>1. CASE HearNothing
      <4>1. network = {}
        BY <3>1 DEF HearNothing
      <4> QED BY <4>1, <2>1, <1>kinds, <1>come DEF AnswersCome, ErrorProbe
    <3>2. CASE \E m \in network : HearError(m)
      BY <3>2 DEF HearError
    <3> QED BY <1>9, <3>1, <3>2
  <2>3. AnswersCome'
    BY <2>1 DEF AnswersCome
  <2>4. LearntInTime' /\ TimelyTestIsExact'
    BY <2>1, <2>2, <1>rigid, <1>kinds DEF LearntInTime, TimelyTestIsExact, ErrorProbe
  <2> QED BY <2>3, <2>4 DEF TimelyInv
<1>10. CASE SendError
  <2> DEFINE e == [kind |-> "error", marker |-> Mine(step)]
  <2>1. /\ step \in ErrorProbe /\ stage = "send" /\ step' = step /\ stage' = "check" /\ e \in network'
        /\ UNCHANGED <<samples, mapping, filtering, inbound, payload, outbound>>
    BY <1>10 DEF SendError, echoVars, errorVars
  <2>2. e.kind = "error" /\ e.marker = Mine(step) /\ Mine(step)' = Mine(step)
    BY <2>1 DEF Mine
  <2>3. AnswersCome'
    BY <2>1, <2>2 DEF AnswersCome
  <2>4. LearntInTime' /\ TimelyTestIsExact'
    BY <2>1, <1>rigid, <1>kinds, <1>come DEF LearntInTime, TimelyTestIsExact, ErrorProbe
  <2> QED BY <2>3, <2>4 DEF TimelyInv
<1>11. CASE IR
  <2>1. /\ step \in ErrorProbe /\ stage = "check" /\ network = {} /\ Decided(step, Judge(step))
        /\ UNCHANGED <<samples, mapping, filtering, inbound>>
    BY <1>11 DEF IR, echoVars
  <2>2. alone => (Mine(step) \in markers <=> Mine(step) \in passes)
    BY <2>1, <1>come DEF AnswersCome, IInv, EInv, SeenErrorsPass
  <2>3. /\ step = "payload" => (inbound <=> "inBad" \in passes)
        /\ alone /\ step = "outbound" =>
             payload = IF {"inBad", "outBad"} \subseteq passes THEN "Pass" ELSE "Fail"
    BY <2>1, <1>kinds, <1>come DEF LearntInTime, IInv, EInv, SeenErrorsPass
  <2>4. /\ stage' = "control"
        /\ \/ step = "payload" /\ step' = "outbound" /\ payload' = Judge(step)
           \/ step = "outbound" /\ step' = "done" /\ outbound' = Judge(step) /\ payload' = payload
    BY <2>1 DEF Decided, GoTo, ErrorProbe, Probe
  <2>5. AnswersCome'
    BY <2>4 DEF AnswersCome
  <2>6. alone => /\ payload' = IF {"inBad", "outBad"} \subseteq passes THEN "Pass" ELSE "Fail"
                 /\ step = "outbound" => outbound' = IF "outValid" \in passes THEN "Pass" ELSE "Fail"
    BY <2>2, <2>3, <2>4 DEF Judge, Mine
  <2>7. LearntInTime' /\ TimelyTestIsExact'
    BY <2>1, <2>4, <2>6, <1>rigid, <1>kinds DEF LearntInTime, TimelyTestIsExact
  <2> QED BY <2>5, <2>7 DEF TimelyInv
<1>12. CASE \E m \in network : Receive(m)
  <2>1. PICK m \in network : Receive(m)
    BY <1>12
  <2>2. /\ m.kind \in {"reply", "probe"} /\ Listening /\ Admits(m) /\ network' \in After(m)
        /\ UNCHANGED <<rigidVars, contacts, serverVars>>
    BY <2>1 DEF Receive
  <2>3. CASE ~ Expected(m)
    <3>1. UNCHANGED clientVars
      BY <2>1, <2>3 DEF Receive
    <3>2. \A n \in network : n # m => n \in network'
      BY <2>2 DEF After
    <3>3. ~ Awaited(m)
      BY <2>2, <2>3, AwaitedIsAdmitted DEF Awaited, Listening, RouteInv, StageFits, ErrorProbe
    <3> QED BY <2>2, <3>1, <3>2, <3>3, AwaitedKept DEF serverVars
  <2>4. CASE Expected(m) /\ stage = "echo"
    <3>1. /\ step \in Probe /\ stage' = "control" /\ step' = step
          /\ UNCHANGED <<samples, mapping, filtering, inbound, payload, outbound>>
      BY <2>1, <2>4 DEF Receive, echoVars, errorVars, RouteInv, StageFits
    <3>2. AnswersCome'
      BY <3>1 DEF AnswersCome
    <3>3. LearntInTime' /\ TimelyTestIsExact'
      BY <3>1, <1>rigid, <1>kinds, <1>come DEF LearntInTime, TimelyTestIsExact, Probe
    <3> QED BY <3>2, <3>3 DEF TimelyInv
  <2>5. CASE Expected(m) /\ stage # "echo"
    <3>1. FilterEnds(TRUE) /\ step \in FilterProbe
      BY <2>1, <2>5, FilterEndsStep DEF Receive
    <3>2. m.kind = "probe" /\ m.from.ip = Peer(step).ip /\ m.from.query = Peer(step).query /\ m.from \in Remote
      BY <2>5 DEF Expected, IInv, TypeOK, Echo, EchoReply, FilterEcho, MarkedError
    <3>3. m.from = Peer(step)
      BY <3>1, <3>2, Remotes DEF Remote
    <3>4. plan = "filtering" => Open(step)
      BY <2>2, <3>3 DEF Admits, Open, IInv, EInv, PlanKept
    <3> QED BY <2>2, <3>1, <3>4, <1>kinds, FilterEndsTimely
  <2> QED BY <2>3, <2>4, <2>5
<1>13. CASE \E m \in network : Drop(m)
  <2>1. PICK m \in network : Drop(m)
    BY <1>13
  <2>2. network' = network \ {m} /\ UNCHANGED <<rigidVars, contacts, serverVars, clientVars>>
    BY <2>1 DEF Drop
  <2>3. ~ Awaited(m)
    <3>1. stage \in {"echo", "listen"} => step \notin {"done", "aborted"}
      BY DEF RouteInv, StageFits, Probe, FilterProbe
    <3>2. stage = "listen" /\ plan = "filtering" => step \in FilterProbe
      BY DEF RouteInv, StageFits, ErrorsApart, ErrorProbe
    <3>3. Mine(step) # "inBad"
      BY DEF Mine
    <3> QED BY <2>1, <3>1, <3>2, <3>3, AwaitedIsAdmitted DEF Drop, Awaited, RouteInv, StageFits
  <2> QED BY <2>2, <2>3, AwaitedKept DEF serverVars
<1>14. CASE \E m \in network : Record(m)
  <2>1. PICK m \in network : Record(m)
    BY <1>14
  <2>2. /\ replying = NoEcho /\ m.kind = "echo" /\ replying' = m
        /\ \A n \in network : n # m => n \in network'
        /\ UNCHANGED <<rigidVars, markers, clientVars>>
    BY <2>1 DEF Record, After
  <2> QED BY <2>2, AwaitedKept
<1>15. CASE Reply
  <2>1. /\ ReplyTo(replying) \in network' /\ network \subseteq network'
        /\ UNCHANGED <<rigidVars, markers, clientVars>>
    BY <1>15 DEF Reply
  <2>2. ReplyTo(replying).kind = "reply" /\ ReplyTo(replying).token = replying.token
    BY DEF ReplyTo
  <2> QED BY <2>1, <2>2, AwaitedKept
<1>16. CASE OthersReset
  <2>1. ~ alone /\ UNCHANGED <<rigidVars, network, replying, clientVars>>
    BY <1>16 DEF OthersReset, pathVars
  <2> QED BY <2>1, AwaitedKept
<1>17. CASE \E m \in network : RecordMarker(m)
  <2>1. PICK m \in network : RecordMarker(m)
    BY <1>17
  <2>2. /\ m.kind = "error" /\ m.marker # "inBad" /\ markers' = markers \cup {m.marker}
        /\ \A n \in network : n # m => n \in network'
        /\ UNCHANGED <<rigidVars, replying, clientVars>>
    BY <2>1 DEF RecordMarker, After
  <2> QED BY <2>2, AwaitedKept
<1> QED BY <1>1, <1>2, <1>3, <1>4, <1>5, <1>6, <1>7, <1>8, <1>9, <1>10, <1>11, <1>12, <1>13, <1>14,
           <1>15, <1>16, <1>17 DEF Next, Client

\* In a finished test of which nothing was lost or late and no command failed,
\* the mapping verdict of run_rfc5508_tests is the NAT's behaviour, and so is
\* the filtering verdict if filtering is all that is tested, whatever the NAT
\* and though packets overtake and repeat one another, if the server has two
\* addresses.  And the error phase tells which errors pass, unless another
\* client resets the markers.
THEOREM TimelyExactness == Spec => []TimelyTestIsExact
<1>1. Init => RouteInv /\ TimelyInv
  BY RouteInitially, TimelyInitially
<1>2. IInv /\ IInv' /\ RouteInv /\ TimelyInv /\ [Next]_vars => RouteInv' /\ TimelyInv'
  BY RouteStep, TimelyStep
<1>3. TimelyInv => TimelyTestIsExact
  BY DEF TimelyInv
<1> QED BY <1>1, <1>2, <1>3, Invariance, PTL DEF Spec
=============================================================================
