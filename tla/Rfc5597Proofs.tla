---------------------------- MODULE Rfc5597Proofs ----------------------------
(***************************************************************************)
(* Proofs about Rfc5597, for any plans and number of packets in flight.    *)
(***************************************************************************)
EXTENDS Rfc5597, TLAPS

-----------------------------------------------------------------------------
(* The inductive invariant. *)

InScript == Running => op \in DOMAIN Script(test)

\* A plan runs its own test after the integrity test; only two plans have X send
\* to the secondary.
PlanKept ==
  /\ plan # "all" => test \in {"integrity", plan, "done"}
  /\ plan \notin {"mapping", "all"} => contacts \subseteq {"primary"}

\* A packet on its way is of a test of the plan, and from where that test has it
\* sent.
PacketsOfPlan ==
  \A m \in network : m.kind \in {"request", "probe"} =>
    /\ plan # "all" => m.code[1] \in {"integrity", plan}
    /\ m.kind = "request" /\ m.code = <<"mapping", 1>> => m.from = Outside("X", "primary")
    /\ m.kind = "request" /\ m.code = <<"mapping", 3>> => m.from = Outside("X", "secondary")
    /\ m.kind = "probe" => m.code[1] # "integrity"
    /\ m.kind = "probe" /\ m.code[1] = "filtering" => m.from = "secondary"
    /\ m.kind = "probe" /\ m.code[1] = "hairpin" => m.from = "inside"

\* What the mapping test compares is what its two requests left the NAT as.
RecordsOfMapping ==
  test = "mapping" =>
    /\ requestsBySc[1] \in {None, Outside("X", "primary")}
    /\ requestsBySc[3] \in {None, Outside("X", "secondary")}
    /\ op \in {3, 4} => noted = Outside("X", "primary") /\ noted # None

IInv == /\ TypeOK /\ InScript /\ PlanKept /\ PacketsOfPlan /\ RecordsOfMapping
        /\ MappingSound /\ SoundWhenTestedAlone /\ SyncSound

-----------------------------------------------------------------------------
(* Lemmas about the scripts. *)

LEMMA Scripts ==
  /\ Script("integrity") = <<Request("X", "primary"), Ask(1)>>
  /\ Script("mapping") = <<Request("X", "primary"), Ask(1), Request("X", "secondary"), Ask(3)>>
  /\ Script("filtering") = <<SendBack("secondary", 0), Await("probe")>>
  /\ Script("simOpen") = <<Request("X", "primary"), SendBack("primary", 0), Await("probe")>>
  /\ Script("sync") = <<SendBack("primary", 8), Await("probe")>>
  /\ Script("overloading") = <<Request("X", "primary"), Request("Y", "primary"), Ask(1), Ask(2)>>
  /\ Script("hairpin") = <<Request("X", "primary"), Request("B", "mapped"), Await("probe")>>
  /\ Script("icmp") = <<Inject, Await("icmp"), SendBack("primary", 0), Await("probe")>>
BY DEF Script

LEMMA TestsAre ==
  /\ DOMAIN Tests = 1..8
  /\ Test = {"integrity", "mapping", "filtering", "simOpen", "sync", "overloading", "hairpin", "icmp"}
<1>1. DOMAIN Tests = 1..8
  BY DEF Tests
<1>2. 1..8 = {1, 2, 3, 4, 5, 6, 7, 8}
  OBVIOUS
<1> QED BY <1>1, <1>2 DEF Test, Tests

\* What each kind of operation is, in the tests that have it.
LEMMA WhenRequest ==
  ASSUME TypeOK, InScript, Doing("request")
  PROVE  \/ Op = Request("X", "primary") /\ op = 1
              /\ test \in {"integrity", "mapping", "simOpen", "overloading", "hairpin"}
         \/ Op = Request("X", "secondary") /\ op = 3 /\ test = "mapping"
         \/ Op = Request("Y", "primary") /\ op = 2 /\ test = "overloading"
         \/ Op = Request("B", "mapped") /\ op = 2 /\ test = "hairpin"
<1>1. test \in Test /\ op \in {1, 2, 3, 4} /\ op \in DOMAIN Script(test)
  BY DEF TypeOK, Doing, Running, InScript
<1>2. Op = Script(test)[op] /\ Op.kind = "request"
  BY DEF Doing, Op
<1> QED BY <1>1, <1>2, Scripts, TestsAre DEF Request, Ask, SendBack, Await, Inject

LEMMA WhenAsk ==
  ASSUME TypeOK, InScript, Doing("ask")
  PROVE  \/ test = "integrity" /\ op = 2 /\ Op = Ask(1)
         \/ test = "mapping" /\ op = 2 /\ Op = Ask(1)
         \/ test = "mapping" /\ op = 4 /\ Op = Ask(3)
         \/ test = "overloading" /\ op = 3 /\ Op = Ask(1)
         \/ test = "overloading" /\ op = 4 /\ Op = Ask(2)
<1>1. test \in Test /\ op \in {1, 2, 3, 4} /\ op \in DOMAIN Script(test)
  BY DEF TypeOK, Doing, Running, InScript
<1>2. Op = Script(test)[op] /\ Op.kind = "ask"
  BY DEF Doing, Op
<1> QED BY <1>1, <1>2, Scripts, TestsAre DEF Request, Ask, SendBack, Await, Inject

LEMMA WhenSend ==
  ASSUME TypeOK, InScript, Doing("send")
  PROVE  \/ test = "filtering" /\ op = 1 /\ Op = SendBack("secondary", 0)
         \/ test = "simOpen" /\ op = 2 /\ Op = SendBack("primary", 0)
         \/ test = "sync" /\ op = 1 /\ Op = SendBack("primary", 8)
         \/ test = "icmp" /\ op = 3 /\ Op = SendBack("primary", 0)
<1>1. test \in Test /\ op \in {1, 2, 3, 4} /\ op \in DOMAIN Script(test)
  BY DEF TypeOK, Doing, Running, InScript
<1>2. Op = Script(test)[op] /\ Op.kind = "send"
  BY DEF Doing, Op
<1> QED BY <1>1, <1>2, Scripts, TestsAre DEF Request, Ask, SendBack, Await, Inject

LEMMA WhenAwait ==
  ASSUME TypeOK, InScript, Doing("await")
  PROVE  \/ Op = Await("probe") /\ test \in {"filtering", "simOpen", "sync", "hairpin", "icmp"}
         \/ Op = Await("icmp") /\ test = "icmp" /\ op = 2
<1>1. test \in Test /\ op \in {1, 2, 3, 4} /\ op \in DOMAIN Script(test)
  BY DEF TypeOK, Doing, Running, InScript
<1>2. Op = Script(test)[op] /\ Op.kind = "await"
  BY DEF Doing, Op
<1> QED BY <1>1, <1>2, Scripts, TestsAre DEF Request, Ask, SendBack, Await, Inject

LEMMA WhenInject ==
  ASSUME TypeOK, InScript, Doing("inject")
  PROVE  test = "icmp" /\ op = 1
<1>1. test \in Test /\ op \in {1, 2, 3, 4} /\ op \in DOMAIN Script(test)
  BY DEF TypeOK, Doing, Running, InScript
<1>2. Op = Script(test)[op] /\ Op.kind = "inject"
  BY DEF Doing, Op
<1> QED BY <1>1, <1>2, Scripts, TestsAre DEF Request, Ask, SendBack, Await, Inject

\* A script that has more to come, goes on.
LEMMA ScriptGoesOn ==
  /\ \A t \in Test : 1 \in DOMAIN Script(t)
  /\ \A t \in Test : 2 \in DOMAIN Script(t)
  /\ \A t \in {"mapping", "simOpen", "overloading", "hairpin", "icmp"} : 3 \in DOMAIN Script(t)
  /\ \A t \in {"mapping", "overloading", "icmp"} : 4 \in DOMAIN Script(t)
BY Scripts, TestsAre

\* runTest's order of tests: from "all" to the next one, else one of the plan.
LEMMA NextTestIs ==
  ASSUME TypeOK, test \in Test, NEW v
  PROVE  /\ NextTest(v) \in Test \cup {"done"}
         /\ NextTest(v) # "integrity"
         /\ plan # "all" => NextTest(v) \in {plan, "done"}
         /\ test = "integrity" /\ v # "Pass" => NextTest(v) = "done"
         /\ plan # "all" /\ test # "integrity" => NextTest(v) = "done"
<1>1. CASE plan = "all" /\ test # "icmp"
  <2> DEFINE i == CHOOSE k \in DOMAIN Tests : Tests[k] = test
  <2>1. i \in 1..8 /\ Tests[i] = test
    BY TestsAre DEF Test
  <2> HIDE DEF i
  <2>2. i # 8
    <3>1. Tests[8] = "icmp"
      BY DEF Tests
    <3> QED BY <2>1, <3>1, <1>1
  <2>3. 1 + i \in 2..8
    BY <2>1, <2>2
  <2>4. Tests[1 + i] \in Test /\ Tests[1 + i] # "integrity"
    <3>1. \A k \in 2..8 : Tests[k] \in Test /\ Tests[k] # "integrity"
      <4>1. 2..8 = {2, 3, 4, 5, 6, 7, 8}
        OBVIOUS
      <4> QED BY <4>1, TestsAre DEF Tests
    <3> QED BY <2>3, <3>1
  <2> QED BY <2>4, <1>1 DEF NextTest, i
<1>2. CASE ~ (plan = "all" /\ test # "icmp")
  BY <1>2, TestsAre DEF NextTest, TypeOK, Plan
<1> QED BY <1>1, <1>2

\* A packet is a record of one of the three kinds.
LEMMA Packets ==
  ASSUME NEW m \in Packet
  PROVE  /\ m.kind \in {"request", "probe", "icmp"}
         /\ m.kind = "request" => m.from \in Endpoint /\ m.code \in Code
         /\ m.kind = "probe" => /\ m.from \in Remote \cup {"inside"} /\ m.to \in Endpoint
                                /\ m.code \in Code
         /\ m.kind = "icmp" => m.about \in Endpoint
         /\ m.kind \in {"request", "probe"} => m.code[1] \in Test /\ m.code[2] \in 1..4
BY DEF Packet, Code

LEMMA OutsideType ==
  ASSUME NEW p \in {"X", "Y"}, NEW r \in Remote
  PROVE  Outside(p, r) \in Endpoint
BY DEF Outside, Endpoint, Remote

\* Which two requests of X leave the NAT alike.
LEMMA OutsideAlike ==
  ASSUME TypeOK, Outside("X", "primary") = Outside("X", "secondary")
  PROVE  nat.mapping = "independent"
<1>1. Outside("X", "primary").remotes = Outside("X", "secondary").remotes
  OBVIOUS
<1>2. nat.mapping # "independent" =>
        /\ Outside("X", "primary").remotes = {"primary"}
        /\ Outside("X", "secondary").remotes = {"secondary"}
  BY DEF Outside
<1> QED BY <1>1, <1>2

-----------------------------------------------------------------------------
(* One test ends, or an operation. *)

\* The end of a test: what has to be seen is that its verdict is sound.
LEMMA TestEnds ==
  ASSUME IInv, Running, NEW v \in Verdict, End(v),
         UNCHANGED <<rigidVars, contacts, packetsByEp>>, network' \subseteq network,
         mapped' \in Endpoint \cup {None}, test # "integrity" => mapped' = mapped,
         test = "integrity" /\ v = "Pass" => mapped' # None,
         forwarded' \in {"Unknown", "Pass", "Fail", "Inconclusive"},
         test = "mapping" /\ v = "EndpointIndependent" => nat.mapping = "independent",
         plan # "all" /\ test = "filtering" /\ v = "EndpointIndependent" => nat.filtering = "independent",
         plan # "all" /\ test = "hairpin" /\ v = "Pass" => nat.hairpins,
         test = "sync" /\ v = "Fail" => ~ nat.dropsSync
  PROVE  IInv'
<1> USE DEF IInv
<1>1. /\ test \in Test /\ test' = NextTest(v) /\ op' = 1 /\ noted' = None
      /\ outcome' = [test |-> test, verdict |-> v] /\ requestsBySc' = NoRequests
  BY DEF End, Running, TypeOK
<1>2. TypeOK'
  <2>1. test' \in Test \cup {"done"} /\ (test' # "done" => mapped' # None)
    <3>1. NextTest(v) \in Test \cup {"done"}
      BY <1>1, NextTestIs
    <3>2. test = "integrity" /\ v # "Pass" => NextTest(v) = "done"
      BY <1>1, NextTestIs
    <3>3. test # "integrity" => mapped # None
      BY <1>1 DEF TypeOK, Running
    <3> QED BY <1>1, <3>1, <3>2, <3>3
  <2>2. outcome' \in [test : Test \cup {"none"}, verdict : Verdict]
    BY <1>1
  <2>3. requestsBySc' \in [1..4 -> Endpoint \cup {None}]
    BY <1>1 DEF NoRequests
  <2> QED BY <1>1, <2>1, <2>2, <2>3 DEF TypeOK, rigidVars
<1>3. InScript'
  BY <1>1, NextTestIs, ScriptGoesOn DEF InScript, Running
<1>4. PlanKept'
  BY <1>1, NextTestIs DEF PlanKept, rigidVars, TypeOK
<1>5. PacketsOfPlan'
  <2>1. nat' = nat /\ plan' = plan
    BY DEF rigidVars
  <2> QED BY <2>1 DEF PacketsOfPlan, Outside
<1>6. RecordsOfMapping'
  BY <1>1 DEF RecordsOfMapping, NoRequests
<1>7. MappingSound' /\ SoundWhenTestedAlone' /\ SyncSound'
  BY <1>1 DEF MappingSound, SoundWhenTestedAlone, SyncSound, Ended, rigidVars
<1> QED BY <1>2, <1>3, <1>4, <1>5, <1>6, <1>7

\* A step that ends no test: the verdicts stay.
LEMMA NoTestEnds ==
  ASSUME IInv, UNCHANGED <<rigidVars, test, outcome>>,
         TypeOK', InScript', PlanKept', PacketsOfPlan', RecordsOfMapping'
  PROVE  IInv'
BY DEF IInv, MappingSound, SoundWhenTestedAlone, SyncSound, Ended, rigidVars

LEMMA Initially == Init => IInv
<1> SUFFICES ASSUME Init PROVE IInv
  OBVIOUS
<1>1. TypeOK
  <2>1. plan \in Plan
    BY Parameters DEF Init
  <2>2. Stranger \in Endpoint
    BY DEF Stranger, Endpoint, Remote
  <2>3. packetsByEp \subseteq Endpoint
    BY <2>2 DEF Init
  <2>4. requestsBySc \in [1..4 -> Endpoint \cup {None}]
    BY DEF Init, NoRequests
  <2> QED BY <2>1, <2>3, <2>4, TestsAre DEF Init, TypeOK, Verdict
<1>2. InScript /\ PlanKept /\ PacketsOfPlan /\ RecordsOfMapping
  BY ScriptGoesOn, TestsAre DEF Init, InScript, PlanKept, PacketsOfPlan, RecordsOfMapping
<1>3. MappingSound /\ SoundWhenTestedAlone /\ SyncSound
  BY DEF Init, MappingSound, SoundWhenTestedAlone, SyncSound, Ended
<1> QED BY <1>1, <1>2, <1>3 DEF IInv

-----------------------------------------------------------------------------
(* The steps. *)

LEMMA SendRequestStep == IInv /\ SendRequest => IInv'
<1> SUFFICES ASSUME IInv, SendRequest PROVE IInv'
  OBVIOUS
<1> USE DEF IInv
<1>1. \/ /\ Op = Request("X", "primary") /\ op = 1
         /\ test \in {"integrity", "mapping", "simOpen", "overloading", "hairpin"}
      \/ Op = Request("X", "secondary") /\ op = 3 /\ test = "mapping"
      \/ Op = Request("Y", "primary") /\ op = 2 /\ test = "overloading"
      \/ Op = Request("B", "mapped") /\ op = 2 /\ test = "hairpin"
  BY WhenRequest DEF SendRequest
<1>2. /\ op' = op + 1 /\ UNCHANGED <<test, noted, outcome, requestsBySc>>
      /\ UNCHANGED <<rigidVars, packetsByEp, mapped, forwarded>>
      /\ test \in Test /\ op \in {1, 2, 3} /\ op \in 1..4
  BY <1>1, TestsAre DEF SendRequest, Continue
<1>same. /\ nat' = nat /\ plan' = plan
         /\ \A p, r : Outside(p, r)' = Outside(p, r)
  BY <1>2 DEF rigidVars, Outside
<1>3. InScript'
  BY <1>1, <1>2, ScriptGoesOn DEF InScript
<1>4. RecordsOfMapping'
  <2>1. op = 1 \/ op = 3 \/ test # "mapping"
    BY <1>1
  <2>2. op = 3 /\ test = "mapping" => noted = Outside("X", "primary") /\ noted # None
    BY DEF RecordsOfMapping
  <2> QED BY <2>1, <2>2, <1>2, <1>same DEF RecordsOfMapping
<1>5. CASE Op.to = "mapped"
  <2> DEFINE p == [kind |-> "probe", from |-> "inside", to |-> mapped, type |-> 0, code |-> <<test, op>>]
  <2>1. test = "hairpin" /\ op = 2
    BY <1>1, <1>5 DEF Request
  <2>2. network' = network \cup {p} /\ contacts' = contacts
    BY <1>5 DEF SendRequest
  <2>3. p \in Packet
    <3>1. mapped \in Endpoint
      BY <2>1 DEF TypeOK
    <3>2. <<test, op>> \in Code
      BY <1>2 DEF Code
    <3> QED BY <3>1, <3>2 DEF Packet
  <2>4. p.kind = "probe" /\ p.code[1] = "hairpin" /\ p.from = "inside"
    BY <2>1
  <2> HIDE DEF p
  <2>5. TypeOK'
    BY <1>2, <2>2, <2>3 DEF TypeOK, rigidVars
  <2>6. PlanKept' /\ PacketsOfPlan'
    <3>1. plan # "all" => plan = "hairpin"
      BY <2>1 DEF PlanKept
    <3> QED BY <1>2, <1>same, <2>1, <2>2, <2>4, <3>1 DEF PlanKept, PacketsOfPlan
  <2> QED BY <1>2, <1>3, <1>4, <2>5, <2>6, NoTestEnds
<1>6. CASE Op.to # "mapped"
  <2> DEFINE p == [kind |-> "request", from |-> Outside(Op.port, Op.to), code |-> <<test, op>>]
  <2>1. /\ network' = network \cup {p}
        /\ contacts' = IF Op.port = "X" THEN contacts \cup {Op.to} ELSE contacts
    BY <1>6 DEF SendRequest
  <2>2. Op.port \in {"X", "Y"} /\ Op.to \in Remote
    BY <1>1, <1>6 DEF Request, Remote
  <2>3. p \in Packet
    <3>1. <<test, op>> \in Code /\ Outside(Op.port, Op.to) \in Endpoint
      BY <1>2, <2>2, OutsideType DEF Code
    <3> QED BY <3>1 DEF Packet
  <2>4. /\ p.kind = "request" /\ p.code[1] = test
        /\ p.code = <<"mapping", 1>> => p.from = Outside("X", "primary")
        /\ p.code = <<"mapping", 3>> => p.from = Outside("X", "secondary")
    BY <1>1 DEF Request
  <2> HIDE DEF p
  <2>5. TypeOK'
    BY <1>2, <2>1, <2>2, <2>3 DEF TypeOK, rigidVars
  <2>6. PlanKept'
    <3>1. test = "mapping" \/ Op.to = "primary"
      BY <1>1, <1>6 DEF Request
    <3>2. test = "mapping" => plan \in {"mapping", "all"}
      BY DEF PlanKept
    <3> QED BY <1>2, <1>same, <2>1, <3>1, <3>2 DEF PlanKept
  <2>7. PacketsOfPlan'
    <3>1. plan # "all" => test \in {"integrity", plan}
      BY <1>2, TestsAre DEF PlanKept
    <3> QED BY <1>same, <2>1, <2>4, <3>1 DEF PacketsOfPlan
  <2> QED BY <1>2, <1>3, <1>4, <2>5, <2>6, <2>7, NoTestEnds
<1> QED BY <1>5, <1>6

LEMMA AskStep == IInv /\ AskForRecord => IInv'
<1> SUFFICES ASSUME IInv, AskForRecord PROVE IInv'
  OBVIOUS
<1> USE DEF IInv
<1> DEFINE e == requestsBySc[Op.of]
<1>1. /\ Doing("ask") /\ Running /\ test \in Test
      /\ UNCHANGED <<rigidVars, pathVars, packetsByEp, forwarded>>
  BY DEF AskForRecord, Doing, Running, TypeOK
<1>2. Op.of \in {1, 2, 3} /\ e \in Endpoint \cup {None}
  BY <1>1, WhenAsk DEF TypeOK, Ask
<1>same. /\ nat' = nat /\ plan' = plan /\ network' = network /\ contacts' = contacts
         /\ \A p, r : Outside(p, r)' = Outside(p, r)
  BY <1>1 DEF rigidVars, pathVars, Outside
<1>types. forwarded \in {"Unknown", "Pass", "Fail", "Inconclusive"} /\ mapped \in Endpoint \cup {None}
  BY DEF TypeOK
<1>note. ASSUME test \in {"mapping", "overloading"}, Note(e), mapped' = mapped, op \in {2, 3},
                test = "mapping" => op = 2 /\ Op.of = 1 /\ e # None,
                test = "overloading" => op = 3
         PROVE  IInv'
  <2>1. op' = op + 1 /\ noted' = e /\ UNCHANGED <<test, outcome, requestsBySc>>
    BY <1>note DEF Note
  <2>2. TypeOK'
    BY <1>1, <1>2, <1>note, <2>1 DEF TypeOK, rigidVars, pathVars
  <2>3. InScript'
    BY <1>note, <2>1, ScriptGoesOn DEF InScript
  <2>4. PlanKept' /\ PacketsOfPlan'
    BY <1>same, <2>1 DEF PlanKept, PacketsOfPlan
  <2>5. RecordsOfMapping'
    <3>1. test = "mapping" => e = Outside("X", "primary")
      BY <1>note DEF RecordsOfMapping
    <3> QED BY <1>same, <1>note, <2>1, <3>1 DEF RecordsOfMapping
  <2> QED BY <1>1, <2>1, <2>2, <2>3, <2>4, <2>5, NoTestEnds
<1>end. ASSUME NEW v \in {"Pass", "Fail", "Inconclusive"}, End(v), test # "filtering", test # "hairpin", test # "sync",
               mapped' \in Endpoint \cup {None}, test # "integrity" => mapped' = mapped,
               test = "integrity" /\ v = "Pass" => mapped' # None
        PROVE  IInv'
  BY <1>1, <1>types, <1>end, TestEnds DEF Verdict, pathVars
<1>3. CASE test = "integrity"
  <2>1. mapped' = e /\ End(IF e = None THEN "Fail" ELSE "Pass")
    BY <1>3 DEF AskForRecord
  <2>2. mapped' \in Endpoint \cup {None} /\ (e # None => mapped' # None)
    BY <1>2, <2>1
  <2>3. CASE e = None
    BY <1>3, <1>end, <2>1, <2>2, <2>3
  <2>4. CASE e # None
    BY <1>3, <1>end, <2>1, <2>2, <2>4
  <2> QED BY <2>3, <2>4
<1>4. CASE test = "mapping" /\ Op.of = 1
  <2>1. mapped' = mapped /\ IF e = None THEN End("Fail") ELSE Note(e)
    BY <1>4 DEF AskForRecord
  <2>2. op = 2
    BY <1>1, <1>4, WhenAsk DEF Ask
  <2>3. CASE e = None
    BY <1>4, <1>types, <1>end, <2>1, <2>3
  <2>4. CASE e # None
    BY <1>4, <1>note, <2>1, <2>2, <2>4
  <2> QED BY <2>3, <2>4
<1>5. CASE test = "mapping" /\ Op.of = 3
  <2> DEFINE v == IF e = noted THEN "EndpointIndependent" ELSE "AddressAndPortDependent"
  <2>1. mapped' = mapped /\ End(v) /\ v \in Verdict
    BY <1>5 DEF AskForRecord, Verdict
  <2>2. op = 4
    BY <1>1, <1>5, WhenAsk DEF Ask
  <2>3. v = "EndpointIndependent" => nat.mapping = "independent"
    BY <1>5, <2>2, OutsideAlike DEF RecordsOfMapping
  <2> HIDE DEF v
  <2>4. network' \subseteq network /\ contacts' = contacts
    BY <1>same
  <2> QED BY <1>1, <1>5, <1>types, <2>1, <2>3, <2>4, TestEnds
<1>6. CASE test = "overloading" /\ Op.of = 1
  <2>1. mapped' = mapped /\ Note(e) /\ op = 3
    BY <1>1, <1>6, WhenAsk DEF AskForRecord, Ask
  <2> QED BY <1>6, <1>note, <2>1
<1>7. CASE test = "overloading" /\ Op.of = 2
  <2>1. mapped' = mapped /\ \E v \in {"Pass", "Fail", "Inconclusive"} : End(v)
    <3>1. End(CASE None \in {noted, e} -> "Inconclusive" [] e = noted -> "Fail" [] OTHER -> "Pass")
          /\ mapped' = mapped
      BY <1>7 DEF AskForRecord
    <3>2. (CASE None \in {noted, e} -> "Inconclusive" [] e = noted -> "Fail" [] OTHER -> "Pass")
            \in {"Pass", "Fail", "Inconclusive"}
      OBVIOUS
    <3> QED BY <3>1, <3>2
  <2> QED BY <1>7, <1>types, <1>end, <2>1
<1> QED BY <1>1, <1>3, <1>4, <1>5, <1>6, <1>7, WhenAsk DEF Ask

LEMMA FailStep == IInv /\ OpFails => IInv'
<1> SUFFICES ASSUME IInv, OpFails PROVE IInv'
  OBVIOUS
<1> USE DEF IInv
<1>1. /\ Running /\ End(OpFailsVerdict) /\ UNCHANGED <<rigidVars, pathVars, packetsByEp, mapped>>
      /\ forwarded' \in {forwarded, "Inconclusive"}
  BY DEF OpFails
<1>2. /\ OpFailsVerdict \in {"Fail", "Unknown", "Inconclusive", "AddressAndPortDependent"}
      /\ OpFailsVerdict = "Fail" => test \in {"integrity", "mapping"}
  BY DEF OpFailsVerdict
<1>3. OpFailsVerdict \in Verdict
  BY <1>2 DEF Verdict
<1>4. /\ network' \subseteq network /\ contacts' = contacts
      /\ mapped' \in Endpoint \cup {None} /\ mapped' = mapped
      /\ forwarded' \in {"Unknown", "Pass", "Fail", "Inconclusive"}
  BY <1>1 DEF pathVars, TypeOK
<1>5. /\ OpFailsVerdict # "Pass" /\ OpFailsVerdict # "EndpointIndependent"
      /\ test = "sync" => OpFailsVerdict # "Fail"
  BY <1>2
<1> HIDE DEF IInv
<1> QED BY <1>1, <1>3, <1>4, <1>5, TestEnds

LEMMA ReceiveStep == IInv /\ (\E m \in network : Receive(m)) => IInv'
<1> SUFFICES ASSUME IInv, NEW m \in network, Receive(m) PROVE IInv'
  OBVIOUS
<1> USE DEF IInv
<1>1. /\ Awaiting("probe") /\ m.kind = "probe" /\ Admits(m) /\ network' \subseteq network /\ End(Decide(m))
      /\ UNCHANGED <<rigidVars, contacts, packetsByEp, mapped, forwarded>>
  BY DEF Receive
<1>2. Running /\ test \in {"filtering", "simOpen", "sync", "hairpin", "icmp"}
  BY <1>1, WhenAwait DEF Awaiting, Doing, Await
<1>3. /\ test = "filtering" =>
           /\ Decide(m) \in {"EndpointIndependent", "AddressAndPortDependent"}
           /\ Decide(m) = "EndpointIndependent" => m.code[1] = "filtering"
      /\ test = "sync" => Decide(m) \in {"Pass", "Fail"} /\ (Decide(m) = "Fail" => m.type = 8)
      /\ test \in {"simOpen", "hairpin", "icmp"} => Decide(m) \in {"Pass", "Fail"}
  BY DEF Decide
<1>4. Decide(m) \in Verdict
  BY <1>2, <1>3 DEF Verdict
<1>5. plan # "all" => plan = test /\ m.code[1] = plan
  BY <1>1, <1>2 DEF PlanKept, PacketsOfPlan
<1>6. plan # "all" /\ test = "filtering" /\ Decide(m) = "EndpointIndependent" =>
        nat.filtering = "independent"
  <2>1. m.code[1] = "filtering" => m.from = "secondary"
    BY <1>1 DEF PacketsOfPlan
  <2>2. plan = "filtering" => contacts \subseteq {"primary"}
    BY DEF PlanKept
  <2> QED BY <1>1, <1>3, <1>5, <2>1, <2>2 DEF Admits
<1>7. plan # "all" /\ test = "hairpin" => nat.hairpins
  BY <1>1, <1>5 DEF PacketsOfPlan, Admits
<1>8. test = "sync" /\ Decide(m) = "Fail" => ~ nat.dropsSync
  BY <1>1, <1>3 DEF Admits
<1>9. /\ mapped' \in Endpoint \cup {None} /\ mapped' = mapped /\ contacts' = contacts
      /\ forwarded' \in {"Unknown", "Pass", "Fail", "Inconclusive"}
      /\ test # "integrity" /\ test # "mapping"
  BY <1>1, <1>2 DEF TypeOK
<1> HIDE DEF IInv
<1> QED BY <1>1, <1>2, <1>4, <1>6, <1>7, <1>8, <1>9, TestEnds

LEMMA WaitStep == IInv /\ WaitEnds => IInv'
<1> SUFFICES ASSUME IInv, WaitEnds PROVE IInv'
  OBVIOUS
<1> USE DEF IInv
<1>1. /\ Doing("await") /\ Running /\ UNCHANGED <<rigidVars, pathVars, packetsByEp, mapped>>
  BY DEF WaitEnds, Doing
<1>2. CASE Op.what = "icmp"
  <2>1. test = "icmp" /\ op = 2
    BY <1>1, <1>2, WhenAwait DEF Await
  <2>2. /\ forwarded' = "Fail" /\ op' = 3 /\ UNCHANGED <<test, noted, outcome, requestsBySc>>
    BY <1>2, <2>1 DEF WaitEnds, Continue
  <2>3. TypeOK'
    BY <1>1, <2>2 DEF TypeOK, rigidVars, pathVars
  <2>4. InScript' /\ PlanKept' /\ PacketsOfPlan' /\ RecordsOfMapping'
    BY <1>1, <2>1, <2>2, ScriptGoesOn DEF InScript, PlanKept, PacketsOfPlan, RecordsOfMapping,
       Outside, rigidVars, pathVars
  <2> QED BY <1>1, <2>2, <2>3, <2>4, NoTestEnds
<1>3. CASE Op.what # "icmp"
  <2> DEFINE v == CASE test = "filtering" -> "AddressAndPortDependent"
                    [] test = "sync"      -> "Pass"
                    [] OTHER              -> "Fail"
  <2>1. End(v) /\ forwarded' = forwarded
    BY <1>3 DEF WaitEnds
  <2>2. /\ v \in {"AddressAndPortDependent", "Pass", "Fail"}
        /\ v = "Pass" <=> test = "sync"
    OBVIOUS
  <2> HIDE DEF v
  <2>3. test \in {"filtering", "simOpen", "sync", "hairpin", "icmp"}
    BY <1>1, <1>3, WhenAwait DEF Await
  <2>4. /\ v \in Verdict /\ v # "EndpointIndependent"
        /\ test = "integrity" => FALSE
        /\ test = "hairpin" => v # "Pass"
        /\ test = "sync" => v # "Fail"
    BY <2>2, <2>3 DEF Verdict
  <2>5. /\ network' \subseteq network /\ contacts' = contacts
        /\ mapped' \in Endpoint \cup {None} /\ mapped' = mapped
        /\ forwarded' \in {"Unknown", "Pass", "Fail", "Inconclusive"}
    BY <1>1, <2>1 DEF pathVars, TypeOK
  <2> HIDE DEF IInv
  <2> QED BY <1>1, <2>1, <2>4, <2>5, TestEnds
<1> QED BY <1>2, <1>3

LEMMA SendProbeStep == IInv /\ SendProbe => IInv'
<1> SUFFICES ASSUME IInv, SendProbe PROVE IInv'
  OBVIOUS
<1> USE DEF IInv
<1> DEFINE p == [kind |-> "probe", from |-> Source(Op.from), to |-> mapped, type |-> Op.type,
                 code |-> <<test, op>>]
<1>1. /\ network' = network \cup {p} /\ op' = op + 1
      /\ UNCHANGED <<test, noted, outcome, requestsBySc>>
      /\ UNCHANGED <<rigidVars, contacts, packetsByEp, mapped, forwarded>>
  BY DEF SendProbe, Continue
<1>2. \/ test = "filtering" /\ op = 1 /\ Op = SendBack("secondary", 0)
      \/ test = "simOpen" /\ op = 2 /\ Op = SendBack("primary", 0)
      \/ test = "sync" /\ op = 1 /\ Op = SendBack("primary", 8)
      \/ test = "icmp" /\ op = 3 /\ Op = SendBack("primary", 0)
  BY WhenSend DEF SendProbe
<1>3. p \in Packet
  <2>1. mapped \in Endpoint /\ <<test, op>> \in Code
    BY <1>2, TestsAre DEF TypeOK, Code
  <2>2. Source(Op.from) \in Remote /\ Op.type \in {0, 8}
    BY <1>2 DEF SendBack, Source, Remote
  <2> QED BY <2>1, <2>2 DEF Packet
<1>4. p.kind = "probe" /\ p.code[1] = test /\ (test = "filtering" => p.from = "secondary")
  BY <1>2 DEF SendBack, Source
<1> HIDE DEF p
<1>5. op' \in 1..4
  BY <1>1, <1>2
<1>6. TypeOK'
  BY <1>1, <1>3, <1>5 DEF TypeOK, rigidVars
<1>7. InScript'
  BY <1>1, <1>2, ScriptGoesOn, TestsAre DEF InScript
<1>8. PlanKept' /\ RecordsOfMapping'
  BY <1>1, <1>2 DEF PlanKept, RecordsOfMapping, rigidVars
<1>9. PacketsOfPlan'
  <2>1. plan # "all" => test = plan
    BY <1>2 DEF PlanKept
  <2> QED BY <1>1, <1>2, <1>4, <2>1 DEF PacketsOfPlan, Outside, rigidVars
<1> QED BY <1>1, <1>6, <1>7, <1>8, <1>9, NoTestEnds

LEMMA InjectStep == IInv /\ InjectIcmp => IInv'
<1> SUFFICES ASSUME IInv, InjectIcmp PROVE IInv'
  OBVIOUS
<1> USE DEF IInv
<1>1. test = "icmp" /\ op = 1
  BY WhenInject DEF InjectIcmp
<1>2. PICK e \in packetsByEp : network' = network \cup {[kind |-> "icmp", about |-> e]}
  BY DEF InjectIcmp
<1>3. /\ op' = 2 /\ UNCHANGED <<test, noted, outcome, requestsBySc>>
      /\ UNCHANGED <<rigidVars, contacts, packetsByEp, mapped, forwarded>>
  BY <1>1 DEF InjectIcmp, Continue
<1>4. [kind |-> "icmp", about |-> e] \in Packet
  BY DEF TypeOK, Packet
<1>5. TypeOK'
  BY <1>2, <1>3, <1>4 DEF TypeOK, rigidVars
<1>6. InScript' /\ PlanKept' /\ RecordsOfMapping'
  BY <1>1, <1>3, ScriptGoesOn, TestsAre DEF InScript, PlanKept, RecordsOfMapping, rigidVars
<1>7. PacketsOfPlan'
  <2>1. \A p, r : Outside(p, r)' = Outside(p, r)
    BY <1>3 DEF Outside, rigidVars
  <2>2. [kind |-> "icmp", about |-> e].kind = "icmp"
    OBVIOUS
  <2>3. \A m \in network' : m.kind # "icmp" => m \in network
    BY <1>2, <2>2
  <2> QED BY <1>3, <2>1, <2>3 DEF PacketsOfPlan, rigidVars
<1> QED BY <1>3, <1>5, <1>6, <1>7, NoTestEnds

LEMMA RecordStep == IInv /\ (\E m \in network : Record(m)) => IInv'
<1> SUFFICES ASSUME IInv, NEW m \in network, Record(m) PROVE IInv'
  OBVIOUS
<1> USE DEF IInv
<1>1. /\ m.kind = "request" /\ network' \subseteq network /\ packetsByEp' = packetsByEp \cup {m.from}
      /\ requestsBySc' = IF m.code[1] = test THEN [requestsBySc EXCEPT ![m.code[2]] = m.from]
                         ELSE requestsBySc
      /\ UNCHANGED <<rigidVars, contacts, test, op, mapped, noted, forwarded, outcome>>
  BY DEF Record, clientVars
<1>2. m \in Packet
  BY DEF TypeOK
<1>3. m.from \in Endpoint /\ m.code[2] \in 1..4 /\ m.code \in Code
  BY <1>1, <1>2, Packets
<1>4. requestsBySc' \in [1..4 -> Endpoint \cup {None}]
  BY <1>1, <1>3 DEF TypeOK
<1>5. TypeOK'
  BY <1>1, <1>3, <1>4 DEF TypeOK, rigidVars
<1>6. InScript' /\ PlanKept' /\ PacketsOfPlan'
  BY <1>1 DEF InScript, Running, PlanKept, PacketsOfPlan, Outside, rigidVars
<1>7. RecordsOfMapping'
  <2>1. \A p, r : Outside(p, r)' = Outside(p, r)
    BY <1>1 DEF Outside, rigidVars
  <2>2. \A i \in {1, 3} : \/ requestsBySc'[i] = requestsBySc[i]
                          \/ m.code[1] = test /\ m.code[2] = i /\ requestsBySc'[i] = m.from
    BY <1>1, <1>3 DEF TypeOK
  <2>3. m.code = <<m.code[1], m.code[2]>>
    BY <1>3 DEF Code
  <2>4. /\ m.code[1] = "mapping" /\ m.code[2] = 1 => m.from = Outside("X", "primary")
        /\ m.code[1] = "mapping" /\ m.code[2] = 3 => m.from = Outside("X", "secondary")
    BY <1>1, <2>3 DEF PacketsOfPlan
  <2> QED BY <1>1, <2>1, <2>2, <2>4 DEF RecordsOfMapping
<1> QED BY <1>1, <1>5, <1>6, <1>7, NoTestEnds

LEMMA TranslateStep == IInv /\ (\E m \in network : TranslateIcmp(m)) => IInv'
<1> SUFFICES ASSUME IInv, NEW m \in network, TranslateIcmp(m) PROVE IInv'
  OBVIOUS
<1> USE DEF IInv
<1>1. /\ network' \subseteq network /\ contacts' \subseteq contacts
      /\ UNCHANGED <<rigidVars, packetsByEp, mapped, test, noted, outcome, requestsBySc>>
      /\ \/ forwarded' = forwarded /\ op' = op
         \/ Awaiting("icmp") /\ forwarded' = "Pass" /\ op' = op + 1
  BY DEF TranslateIcmp, Continue
<1>2. Awaiting("icmp") => test = "icmp" /\ op = 2
  BY WhenAwait DEF Awaiting, Await
<1>3. TypeOK'
  BY <1>1, <1>2 DEF TypeOK, rigidVars
<1>4. InScript' /\ PlanKept' /\ PacketsOfPlan'
  <2>1. InScript' /\ PlanKept'
    BY <1>1, <1>2, ScriptGoesOn DEF InScript, Running, PlanKept, rigidVars
  <2>2. \A p, r : Outside(p, r)' = Outside(p, r)
    BY <1>1 DEF Outside, rigidVars
  <2>3. PacketsOfPlan'
    BY <1>1, <2>2 DEF PacketsOfPlan, rigidVars
  <2> QED BY <2>1, <2>3
<1>5. RecordsOfMapping'
  <2>1. \A p, r : Outside(p, r)' = Outside(p, r)
    BY <1>1 DEF Outside, rigidVars
  <2> QED BY <1>1, <1>2, <2>1 DEF RecordsOfMapping
<1> QED BY <1>1, <1>3, <1>4, <1>5, NoTestEnds

LEMMA Stepwise == IInv /\ [Next]_vars => IInv'
<1> SUFFICES ASSUME IInv, [Next]_vars PROVE IInv'
  OBVIOUS
<1>1. CASE UNCHANGED vars \/ Over \/ \E m \in network : Drop(m) \/ Lose(m)
  <2> USE DEF IInv
  <2>1. network' \subseteq network /\ UNCHANGED <<rigidVars, contacts, serverVars, clientVars>>
    BY <1>1 DEF vars, pathVars, Over, Drop, Lose
  <2>2. TypeOK'
    BY <2>1 DEF TypeOK, rigidVars, serverVars, clientVars
  <2>3. \A p, r : Outside(p, r)' = Outside(p, r)
    BY <2>1 DEF Outside, rigidVars
  <2>4. InScript' /\ PlanKept' /\ PacketsOfPlan' /\ RecordsOfMapping'
    BY <2>1, <2>3 DEF InScript, Running, PlanKept, PacketsOfPlan, RecordsOfMapping, rigidVars,
       serverVars, clientVars
  <2> QED BY <2>1, <2>2, <2>4, NoTestEnds DEF clientVars
<1>2. CASE Client
  BY <1>2, SendRequestStep, AskStep, SendProbeStep, InjectStep, FailStep, WaitStep DEF Client
<1>3. CASE \E m \in network : Record(m) \/ Receive(m) \/ TranslateIcmp(m)
  BY <1>3, RecordStep, ReceiveStep, TranslateStep
<1> QED BY <1>1, <1>2, <1>3 DEF Next, Transit

-----------------------------------------------------------------------------
(* The theorems. *)

\* The state keeps its types (a test that sends to the mapped endpoint has one),
\* and records are those of the present test's own requests.
THEOREM Invariance == Spec => []IInv
<1> QED BY Initially, Stepwise, PTL DEF Spec

\* The mapping test calls only a mapping that is so endpoint-independent,
\* whatever is lost or late between the client, the poll thread and DCCP_GET_REQ.
THEOREM MappingSoundness == Spec => []MappingSound
<1>1. IInv => MappingSound
  BY DEF IInv
<1> QED BY <1>1, Invariance, PTL

\* The filtering and hairpin tests, each run by itself, only report a way in
\* that the NAT leaves open.
THEOREM SoundAlone == Spec => []SoundWhenTestedAlone
<1>1. IInv => SoundWhenTestedAlone
  BY DEF IInv
<1> QED BY <1>1, Invariance, PTL

\* A probe of another test is not taken for the Sync.
THEOREM SyncSoundness == Spec => []SyncSound
<1>1. IInv => SyncSound
  BY DEF IInv
<1> QED BY <1>1, Invariance, PTL

-----------------------------------------------------------------------------
(* The verdicts where nothing is lost or late: what this takes beyond IInv. *)

\* The operations in which the first probe to come is judged, and the only one
\* that can come then.
AwaitsProbe ==
  \/ test \in {"filtering", "sync"} /\ op = 2
  \/ test \in {"simOpen", "hairpin"} /\ op = 3
  \/ test = "icmp" /\ op = 4

ProbeNow ==
  [kind |-> "probe",
   from |-> IF test = "filtering" THEN "secondary" ELSE IF test = "hairpin" THEN "inside" ELSE "primary",
   to   |-> mapped,
   type |-> IF test = "sync" THEN 8 ELSE 0,
   code |-> <<test, op - 1>>]

\* From where the request with code c comes to the server.
FromOf(c) ==
  IF c = <<"mapping", 3>> THEN Outside("X", "secondary")
  ELSE IF c = <<"overloading", 2>> THEN Outside("Y", "primary") ELSE Outside("X", "primary")

\* The requests of the present test that it asks for after this.
Asked(i) ==
  \/ i = 1 /\ test \in {"integrity", "mapping", "overloading"} /\ op \in {2, 3, 4}
  \/ i = 2 /\ test = "overloading" /\ op \in {3, 4}
  \/ i = 3 /\ test = "mapping" /\ op = 4

\* Requests may be recorded long after their test; those that are asked for are
\* on their way or recorded, and what is recorded stays in packets_by_ep.
RequestsArrive ==
  /\ \A m \in network : m.kind = "request" => m.from = FromOf(m.code)
  /\ \A i \in 1..4 : requestsBySc[i] # None => requestsBySc[i] \in packetsByEp
  /\ \A i \in 1..4 : Asked(i) => \/ requestsBySc[i] = FromOf(<<test, i>>)
                                 \/ \E m \in network : m.kind = "request" /\ m.code = <<test, i>>
  /\ test = "overloading" /\ op = 4 => noted = Outside("X", "primary")

\* The first test finds X's outside endpoint, which only an ICMP error closes.
EndpointFound ==
  /\ IF test = "integrity" THEN outcome.test = "none"
     ELSE mapped = Outside("X", "primary") /\ mapped \in packetsByEp
  /\ \/ ~ Running
     \/ test = "integrity" /\ op = 1
     \/ test = "icmp" /\ op # 1 /\ nat.icmpKills
     \/ "primary" \in contacts

\* No probe is left over from an earlier test, and none that gets in is missing.
ProbesTimely ==
  /\ \A m \in network : m.kind = "probe" => AwaitsProbe /\ m = ProbeNow
  /\ AwaitsProbe /\ Admits(ProbeNow) => ProbeNow \in network

\* What the ICMP error does to the mapping of X, if it names that.
ErrorTaken == nat.icmpKills => contacts \cap mapped.remotes = {}

ErrorsTimely ==
  /\ \A m \in network : m.kind = "icmp" => test = "icmp" /\ op = 2 /\ m.about \in packetsByEp
  /\ \A m, n \in network : m.kind = "icmp" /\ n.kind = "icmp" => m = n
  /\ test = "icmp" /\ packetsByEp = {mapped} =>
       /\ op = 2 => \/ \E m \in network : m.kind = "icmp"
                    \/ ErrorTaken /\ ~ nat.forwardsIcmp
       /\ op \in {3, 4} => ErrorTaken /\ forwarded = IF nat.forwardsIcmp THEN "Pass" ELSE "Fail"
  /\ outcome.test = "icmp" => test = "done"

TimelyInv ==
  timely => RequestsArrive /\ EndpointFound /\ ProbesTimely /\ ErrorsTimely /\ TimelyTestIsExact

-----------------------------------------------------------------------------
(* Lemmas. *)

LEMMA Endpoints ==
  /\ Outside("X", "primary") \in Endpoint /\ Outside("X", "primary") # None
  /\ Outside("X", "secondary") \in Endpoint /\ Outside("X", "secondary") # None
  /\ Outside("Y", "primary") \in Endpoint /\ Outside("Y", "primary") # None
  /\ Outside("X", "primary") # Outside("Y", "primary")
  /\ Outside("X", "primary").port = "X"
  /\ Outside("X", "primary").remotes = IF nat.mapping = "independent" THEN Remote ELSE {"primary"}
  /\ nat.mapping = "independent" => Outside("X", "primary") = Outside("X", "secondary")
<1>1. /\ Outside("X", "primary") \in Endpoint /\ Outside("X", "secondary") \in Endpoint
      /\ Outside("Y", "primary") \in Endpoint
  BY OutsideType DEF Remote
<1>2. /\ Outside("X", "primary").port = "X" /\ Outside("Y", "primary").port = "Y"
      /\ Outside("X", "primary").remotes = IF nat.mapping = "independent" THEN Remote ELSE {"primary"}
  BY DEF Outside
<1>3. nat.mapping = "independent" => Outside("X", "primary") = Outside("X", "secondary")
  BY DEF Outside
<1> QED BY <1>1, <1>2, <1>3, NoneIsNone

LEMMA AwaitingIs ==
  ASSUME TypeOK, InScript
  PROVE  /\ Awaiting("probe") <=> AwaitsProbe
         /\ Awaiting("icmp") <=> test = "icmp" /\ op = 2
<1>1. CASE ~ Running
  BY <1>1 DEF Awaiting, Doing, Running, AwaitsProbe
<1>2. CASE Running
  <2>1. test \in Test /\ op \in {1, 2, 3, 4} /\ op \in DOMAIN Script(test)
    BY <1>2 DEF TypeOK, Running, InScript
  <2>2. Awaiting("probe") <=> Script(test)[op].kind = "await" /\ Script(test)[op].what = "probe"
    BY <1>2 DEF Awaiting, Doing, Op
  <2>3. Awaiting("icmp") <=> Script(test)[op].kind = "await" /\ Script(test)[op].what = "icmp"
    BY <1>2 DEF Awaiting, Doing, Op
  <2>4. CASE test \in {"integrity", "mapping", "overloading"}
    BY <2>1, <2>2, <2>3, <2>4, Scripts DEF AwaitsProbe, Request, Ask, SendBack, Await, Inject
  <2>5. CASE test \in {"filtering", "sync"}
    BY <2>1, <2>2, <2>3, <2>5, Scripts DEF AwaitsProbe, Request, Ask, SendBack, Await, Inject
  <2>6. CASE test \in {"simOpen", "hairpin"}
    BY <2>1, <2>2, <2>3, <2>6, Scripts DEF AwaitsProbe, Request, Ask, SendBack, Await, Inject
  <2>7. CASE test = "icmp"
    BY <2>1, <2>2, <2>3, <2>7, Scripts DEF AwaitsProbe, Request, Ask, SendBack, Await, Inject
  <2> QED BY <2>1, <2>4, <2>5, <2>6, <2>7, TestsAre
<1> QED BY <1>1, <1>2

\* Which probes the NAT lets in, from what X has sent before.
LEMMA AdmitsNow ==
  ASSUME IInv, EndpointFound, AwaitsProbe
  PROVE  /\ test = "filtering" /\ (plan # "all" \/ nat.mapping # "independent")
              => (Admits(ProbeNow) <=> nat.filtering = "independent")
         /\ test = "simOpen" => Admits(ProbeNow)
         /\ test = "sync" => (Admits(ProbeNow) <=> ~ nat.dropsSync)
         /\ test = "hairpin" => (Admits(ProbeNow) <=> nat.hairpins)
         /\ test = "icmp" /\ ErrorTaken => (Admits(ProbeNow) <=> ~ nat.icmpKills)
<1>1. /\ ProbeNow.to = mapped /\ ProbeNow.type = IF test = "sync" THEN 8 ELSE 0
      /\ ProbeNow.from = IF test = "filtering" THEN "secondary"
                         ELSE IF test = "hairpin" THEN "inside" ELSE "primary"
  BY DEF ProbeNow
<1>2. /\ mapped.remotes = IF nat.mapping = "independent" THEN Remote ELSE {"primary"}
      /\ "primary" \in mapped.remotes
      /\ "primary" \in contacts \/ (test = "icmp" /\ nat.icmpKills)
  BY Endpoints DEF EndpointFound, AwaitsProbe, Running, Remote
<1>3. Admits(ProbeNow) <=>
        /\ test = "sync" => ~ nat.dropsSync
        /\ IF test = "hairpin" THEN nat.hairpins
           ELSE \E r \in contacts \cap mapped.remotes : nat.filtering = "independent" \/ r = ProbeNow.from
  BY <1>1 DEF Admits
<1> HIDE DEF ProbeNow
<1>4. ASSUME test = "filtering", plan # "all" \/ nat.mapping # "independent"
      PROVE  Admits(ProbeNow) <=> nat.filtering = "independent"
  <2>1. contacts \cap mapped.remotes = {"primary"}
    <3>1. plan # "all" => contacts \subseteq {"primary"}
      BY <1>4, TestsAre DEF IInv, PlanKept
    <3> QED BY <1>2, <1>4, <3>1
  <2> QED BY <1>1, <1>3, <1>4, <2>1
<1>5. test = "simOpen" => Admits(ProbeNow)
  BY <1>1, <1>2, <1>3
<1>6. test = "sync" => (Admits(ProbeNow) <=> ~ nat.dropsSync)
  BY <1>1, <1>2, <1>3
<1>7. test = "hairpin" => (Admits(ProbeNow) <=> nat.hairpins)
  BY <1>3
<1>8. test = "icmp" /\ ErrorTaken => (Admits(ProbeNow) <=> ~ nat.icmpKills)
  BY <1>1, <1>2, <1>3 DEF ErrorTaken
<1> QED BY <1>4, <1>5, <1>6, <1>7, <1>8

\* A step that ends no test: the verdicts stay exact.
LEMMA ExactStays ==
  ASSUME TimelyInv, timely, UNCHANGED <<rigidVars, outcome, mapped>>,
         packetsByEp \subseteq packetsByEp',
         forwarded' = forwarded \/ test = "icmp"
  PROVE  TimelyTestIsExact'
<1>1. UNCHANGED <<nat, plan, timely>>
  BY DEF rigidVars
<1>2. /\ outcome.test # "none" => mapped \in packetsByEp
      /\ outcome.test = "icmp" => test = "done"
      /\ TimelyTestIsExact
  BY DEF TimelyInv, EndpointFound, ErrorsTimely
<1>3. outcome.test # "none" /\ Disturbed => Disturbed'
  BY <1>1, <1>2 DEF Disturbed
<1>4. \A t : Exact(t)' = Exact(t)
  BY <1>1 DEF Exact
<1> QED BY <1>1, <1>2, <1>3, <1>4 DEF TimelyTestIsExact

\* A test ends with nothing but old requests on their way.
LEMMA TimelyEnds ==
  ASSUME IInv, TimelyInv, timely, Running, NEW v, End(v),
         UNCHANGED <<rigidVars, contacts, packetsByEp>>,
         \A m \in network' : m \in network /\ m.kind = "request",
         mapped' = Outside("X", "primary"), mapped' \in packetsByEp,
         test = "integrity" => v = "Pass" /\ op = 2,
         ~ Disturbed' => /\ v = Exact(test)
                         /\ test = "icmp" => forwarded' = IF nat.forwardsIcmp THEN "Pass" ELSE "Fail"
  PROVE  TimelyInv'
<1>1. /\ UNCHANGED <<nat, plan, timely>> /\ test \in Test /\ test' = NextTest(v) /\ op' = 1
      /\ outcome' = [test |-> test, verdict |-> v] /\ requestsBySc' = NoRequests
      /\ \A p, r : Outside(p, r)' = Outside(p, r)
  BY DEF End, Running, IInv, TypeOK, rigidVars, Outside
<1>2. test' # "integrity" /\ (test = "icmp" => test' = "done")
  BY <1>1, NextTestIs DEF IInv, NextTest
<1>3. RequestsArrive'
  <2>1. \A c : FromOf(c)' = FromOf(c)
    BY <1>1 DEF FromOf
  <2>2. \A m \in network' : m.kind = "request" => m.from = FromOf(m.code)
    BY DEF TimelyInv, RequestsArrive
  <2> QED BY <1>1, <2>1, <2>2 DEF RequestsArrive, Asked, NoRequests
<1>4. EndpointFound'
  <2>1. "primary" \in contacts \/ test = "icmp"
    BY DEF TimelyInv, EndpointFound
  <2> QED BY <1>1, <1>2, <2>1 DEF EndpointFound, Running
<1>5. ProbesTimely'
  <2>1. \A m \in network' : m.kind # "probe"
    OBVIOUS
  <2> QED BY <1>1, <2>1 DEF ProbesTimely, AwaitsProbe
<1>6. ErrorsTimely'
  <2>1. \A m \in network' : m.kind # "icmp"
    OBVIOUS
  <2> QED BY <1>1, <1>2, <2>1 DEF ErrorsTimely
<1>7. TimelyTestIsExact'
  <2>1. Exact(test)' = Exact(test')
    BY <1>1 DEF Exact
  <2>2. Exact(outcome.test)' = Exact(test)
    BY <1>1 DEF Exact
  <2> QED BY <1>1, <2>2 DEF TimelyTestIsExact
<1> QED BY <1>3, <1>4, <1>5, <1>6, <1>7 DEF TimelyInv

LEMMA TimelyInitially == Init => TimelyInv
BY DEF Init, TimelyInv, RequestsArrive, Asked, NoRequests, EndpointFound, ProbesTimely, AwaitsProbe,
   ErrorsTimely, TimelyTestIsExact

\* What the state functions read, if it stays.
LEMMA SameTest ==
  ASSUME UNCHANGED <<rigidVars, test, op, mapped>>
  PROVE  /\ UNCHANGED <<nat, plan, timely>>
         /\ \A p, r : Outside(p, r)' = Outside(p, r)
         /\ \A c : FromOf(c)' = FromOf(c)
         /\ \A i : Asked(i)' = Asked(i)
         /\ AwaitsProbe' = AwaitsProbe /\ ProbeNow' = ProbeNow
<1>1. UNCHANGED <<nat, plan, timely>>
  BY DEF rigidVars
<1>2. \A p, r : Outside(p, r)' = Outside(p, r)
  BY <1>1 DEF Outside
<1> QED BY <1>1, <1>2 DEF FromOf, Asked, AwaitsProbe, ProbeNow

-----------------------------------------------------------------------------
(* The steps, where nothing is lost or late. *)

LEMMA TimelySendRequest ==
  ASSUME IInv, TimelyInv, timely, SendRequest
  PROVE  TimelyInv'
<1> USE DEF IInv, TimelyInv
<1>1. \/ /\ Op = Request("X", "primary") /\ op = 1
         /\ test \in {"integrity", "mapping", "simOpen", "overloading", "hairpin"}
      \/ Op = Request("X", "secondary") /\ op = 3 /\ test = "mapping"
      \/ Op = Request("Y", "primary") /\ op = 2 /\ test = "overloading"
      \/ Op = Request("B", "mapped") /\ op = 2 /\ test = "hairpin"
  BY WhenRequest DEF SendRequest
<1>2. /\ op' = op + 1 /\ UNCHANGED <<test, noted, outcome, requestsBySc>>
      /\ UNCHANGED <<rigidVars, packetsByEp, mapped, forwarded>>
      /\ UNCHANGED <<nat, plan, timely>>
      /\ ~ AwaitsProbe
  BY <1>1 DEF SendRequest, Continue, rigidVars, AwaitsProbe
<1>3. /\ \A p, r : Outside(p, r)' = Outside(p, r)
      /\ \A c : FromOf(c)' = FromOf(c)
  BY <1>2 DEF Outside, FromOf
<1>4. TimelyTestIsExact'
  BY <1>2, ExactStays
<1>5. ErrorsTimely'
  <2>1. \A m \in network' : m.kind = "icmp" => m \in network
    BY DEF SendRequest
  <2>2. test # "icmp"
    BY <1>1
  <2>3. /\ \A m \in network : m.kind # "icmp"
        /\ outcome.test = "icmp" => test = "done"
    BY <2>2 DEF ErrorsTimely
  <2> QED BY <1>2, <2>1, <2>2, <2>3 DEF ErrorsTimely
<1>6. CASE Op.to = "mapped"
  <2> DEFINE p == [kind |-> "probe", from |-> "inside", to |-> mapped, type |-> 0, code |-> <<test, op>>]
  <2>1. test = "hairpin" /\ op = 2 /\ op' = 3
    BY <1>1, <1>2, <1>6 DEF Request
  <2>2. network' = network \cup {p} /\ contacts' = contacts
    BY <1>6 DEF SendRequest
  <2>3. p = ProbeNow' /\ p.kind = "probe" /\ AwaitsProbe'
    BY <1>2, <2>1 DEF ProbeNow, AwaitsProbe
  <2> HIDE DEF p
  <2>4. RequestsArrive'
    <3>1. \A m \in network' : m.kind = "request" => m \in network
      BY <2>2, <2>3
    <3>2. \A i \in 1..4 : ~ Asked(i)'
      BY <1>2, <2>1 DEF Asked
    <3> QED BY <1>2, <1>3, <2>1, <3>1, <3>2 DEF RequestsArrive
  <2>5. EndpointFound'
    BY <1>2, <1>3, <2>1, <2>2 DEF EndpointFound, Running
  <2>6. ProbesTimely'
    BY <1>2, <2>2, <2>3 DEF ProbesTimely
  <2> QED BY <1>4, <1>5, <2>4, <2>5, <2>6
<1>7. CASE Op.to # "mapped"
  <2> DEFINE p == [kind |-> "request", from |-> Outside(Op.port, Op.to), code |-> <<test, op>>]
  <2>1. /\ network' = network \cup {p}
        /\ contacts' = IF Op.port = "X" THEN contacts \cup {Op.to} ELSE contacts
    BY <1>7 DEF SendRequest
  <2>2. p.kind = "request" /\ p.code = <<test, op>> /\ p.from = FromOf(p.code)
    BY <1>1, <1>7 DEF Request, FromOf
  <2> HIDE DEF p
  <2>3. RequestsArrive'
    <3>1. \A m \in network' : m.kind = "request" => m.from = FromOf(m.code)'
      BY <1>3, <2>1, <2>2 DEF RequestsArrive
    <3>2. ASSUME NEW i \in 1..4, Asked(i)'
          PROVE  i = op \/ Asked(i)
      BY <1>1, <1>2, <3>2 DEF Asked
    <3>3. \A i \in 1..4 : Asked(i)' =>
             \/ requestsBySc[i] = FromOf(<<test, i>>)
             \/ \E m \in network' : m.kind = "request" /\ m.code = <<test, i>>
      BY <2>1, <2>2, <3>2 DEF RequestsArrive
    <3>4. (test = "overloading" /\ op = 4)' => FALSE
      BY <1>1, <1>2
    <3> QED BY <1>2, <1>3, <3>1, <3>3, <3>4 DEF RequestsArrive
  <2>4. EndpointFound'
    <3>1. \/ Op.port = "X" /\ Op.to = "primary"
          \/ "primary" \in contacts
      BY <1>1, <1>7 DEF Request, EndpointFound, Running
    <3>2. contacts \subseteq contacts'
      BY <2>1
    <3> QED BY <1>1, <1>2, <1>3, <2>1, <3>1, <3>2 DEF EndpointFound, Running
  <2>5. ProbesTimely'
    <3>1. \A m \in network' : m.kind # "probe"
      BY <1>2, <2>1, <2>2 DEF ProbesTimely
    <3>2. ~ AwaitsProbe'
      BY <1>1, <1>2, <1>7 DEF AwaitsProbe, Request
    <3> QED BY <3>1, <3>2 DEF ProbesTimely
  <2> QED BY <1>4, <1>5, <2>3, <2>4, <2>5
<1> QED BY <1>6, <1>7

LEMMA TimelyAsk ==
  ASSUME IInv, TimelyInv, timely, AskForRecord
  PROVE  TimelyInv'
<1> USE DEF IInv, TimelyInv
<1> DEFINE e == requestsBySc[Op.of]
<1>1. \/ test = "integrity" /\ op = 2 /\ Op.of = 1
      \/ test = "mapping" /\ op = 2 /\ Op.of = 1
      \/ test = "mapping" /\ op = 4 /\ Op.of = 3
      \/ test = "overloading" /\ op = 3 /\ Op.of = 1
      \/ test = "overloading" /\ op = 4 /\ Op.of = 2
  BY WhenAsk DEF AskForRecord, Ask
<1>2. /\ UNCHANGED <<rigidVars, contacts, network, packetsByEp, forwarded, nat, plan, timely>>
      /\ Running
      /\ \A p, r : Outside(p, r)' = Outside(p, r)
      /\ \A c : FromOf(c)' = FromOf(c)
  BY DEF AskForRecord, pathVars, rigidVars, Doing, Outside, FromOf
<1>3. network = {}
  <2>1. \A m \in network : m.kind # "request"
    BY DEF AskForRecord
  <2>2. \A m \in network : m.kind # "probe"
    BY <1>1 DEF ProbesTimely, AwaitsProbe
  <2>3. \A m \in network : m.kind # "icmp"
    BY <1>1 DEF ErrorsTimely
  <2>4. \A m \in network : m.kind \in {"request", "probe", "icmp"}
    BY Packets DEF TypeOK
  <2> QED BY <2>1, <2>2, <2>3, <2>4
\* What the test asks for is recorded.
<1>4. e = FromOf(<<test, Op.of>>) /\ e # None /\ e \in packetsByEp
  <2>1. Asked(Op.of) /\ Op.of \in 1..4
    BY <1>1 DEF Asked
  <2>2. e = FromOf(<<test, Op.of>>)
    BY <1>3, <2>1 DEF RequestsArrive
  <2>3. e # None
    BY <2>2, Endpoints DEF FromOf
  <2> QED BY <2>1, <2>2, <2>3 DEF RequestsArrive
<1> HIDE DEF e
\* A test that notes the endpoint goes on.
<1>5. ASSUME Note(e), mapped' = mapped, test \in {"mapping", "overloading"}, op \in {2, 3},
             test = "overloading" => e = Outside("X", "primary")
      PROVE  TimelyInv'
  <2>1. /\ op' = op + 1 /\ noted' = e
        /\ UNCHANGED <<test, outcome, requestsBySc>>
    BY <1>5 DEF Note
  <2>2. RequestsArrive'
    <3>1. \/ test = "mapping" /\ op = 2
          \/ test = "overloading" /\ op = 3
      BY <1>1, <1>5
    <3>2. \A i \in 1..4 : Asked(i)' => Asked(i)
      BY <3>1, <2>1 DEF Asked
    <3>3. (test = "overloading")' => noted' = Outside("X", "primary")'
      BY <1>2, <1>5, <2>1
    <3>4. \A m \in network : m.kind = "request" => m.from = FromOf(m.code)
      BY DEF RequestsArrive
    <3>5. \A i \in 1..4 : requestsBySc[i] # None => requestsBySc[i] \in packetsByEp
      BY DEF RequestsArrive
    <3>6. \A i \in 1..4 : Asked(i)' => requestsBySc[i] = FromOf(<<test, i>>)
      BY <1>3, <3>2 DEF RequestsArrive
    <3> QED BY <1>2, <2>1, <3>3, <3>4, <3>5, <3>6 DEF RequestsArrive
  <2>3. EndpointFound'
    BY <1>2, <1>5, <2>1 DEF EndpointFound, Running
  <2>4. ProbesTimely'
    BY <1>2, <1>3, <1>5, <2>1 DEF ProbesTimely, AwaitsProbe
  <2>5. ErrorsTimely'
    BY <1>2, <1>3, <1>5, <2>1 DEF ErrorsTimely
  <2>6. TimelyTestIsExact'
    BY <1>2, <1>5, <2>1, ExactStays
  <2> QED BY <2>2, <2>3, <2>4, <2>5, <2>6
<1>6. ASSUME NEW v, End(v), mapped' = Outside("X", "primary"), mapped' \in packetsByEp,
             test = "integrity" => v = "Pass", v = Exact(test)
      PROVE  TimelyInv'
  <2>1. test = "integrity" => op = 2
    BY <1>1
  <2>2. test # "icmp"
    BY <1>1
  <2>3. \A m \in network' : m \in network /\ m.kind = "request"
    BY <1>2, <1>3
  <2> QED BY <1>2, <1>6, <2>1, <2>2, <2>3, TimelyEnds
<1>7. CASE test = "integrity"
  <2>1. mapped' = e /\ End("Pass")
    BY <1>4, <1>7 DEF AskForRecord, e
  <2>2. e = Outside("X", "primary") /\ "Pass" = Exact(test)
    BY <1>1, <1>4, <1>7 DEF FromOf, Exact
  <2> QED BY <1>4, <1>6, <2>1, <2>2
<1>8. CASE test # "integrity"
  <2>1. mapped = Outside("X", "primary") /\ mapped \in packetsByEp
    BY <1>8 DEF EndpointFound
  <2>2. mapped' = mapped
    BY <1>8 DEF AskForRecord
  <2>3. CASE test = "mapping" /\ op = 2
    <3>1. Note(e)
      BY <1>1, <1>4, <2>3 DEF AskForRecord, e
    <3> QED BY <1>5, <2>2, <2>3, <3>1
  <2>4. CASE test = "mapping" /\ op = 4
    <3>1. e = Outside("X", "secondary") /\ noted = Outside("X", "primary")
      BY <1>1, <1>4, <2>4 DEF FromOf, RecordsOfMapping
    <3>2. End(IF e = noted THEN "EndpointIndependent" ELSE "AddressAndPortDependent")
      BY <1>1, <2>4 DEF AskForRecord, e
    <3>3. e = noted <=> nat.mapping = "independent"
      BY <3>1, OutsideAlike, Endpoints
    <3>4. End(Exact(test))
      BY <2>4, <3>2, <3>3 DEF Exact
    <3> QED BY <1>6, <1>8, <2>1, <2>2, <3>4
  <2>5. CASE test = "overloading" /\ op = 3
    <3>1. Note(e) /\ e = Outside("X", "primary")
      BY <1>1, <1>4, <2>5 DEF AskForRecord, e, FromOf
    <3> QED BY <1>5, <2>2, <2>5, <3>1
  <2>6. CASE test = "overloading" /\ op = 4
    <3>1. e = Outside("Y", "primary") /\ noted = Outside("X", "primary")
      BY <1>1, <1>4, <2>6 DEF FromOf, RequestsArrive
    <3>2. End(CASE None \in {noted, e} -> "Inconclusive"
                [] e = noted           -> "Fail"
                [] OTHER               -> "Pass")
      BY <1>1, <2>6 DEF AskForRecord, e
    <3>3. None \notin {noted, e} /\ e # noted
      BY <3>1, Endpoints
    <3>4. End(Exact(test))
      BY <2>6, <3>2, <3>3 DEF Exact
    <3> QED BY <1>6, <1>8, <2>1, <2>2, <3>4
  <2> QED BY <1>1, <1>8, <2>3, <2>4, <2>5, <2>6
<1> QED BY <1>7, <1>8

LEMMA TimelySendProbe ==
  ASSUME IInv, TimelyInv, timely, SendProbe
  PROVE  TimelyInv'
<1> USE DEF IInv, TimelyInv
<1> DEFINE p == [kind |-> "probe", from |-> Source(Op.from), to |-> mapped,
                 type |-> Op.type, code |-> <<test, op>>]
<1>1. \/ test = "filtering" /\ op = 1 /\ Op.from = "secondary" /\ Op.type = 0
      \/ test = "simOpen" /\ op = 2 /\ Op.from = "primary" /\ Op.type = 0
      \/ test = "sync" /\ op = 1 /\ Op.from = "primary" /\ Op.type = 8
      \/ test = "icmp" /\ op = 3 /\ Op.from = "primary" /\ Op.type = 0
  BY WhenSend DEF SendProbe, SendBack
<1>2. /\ op' = op + 1 /\ network' = network \cup {p}
      /\ UNCHANGED <<rigidVars, contacts, packetsByEp, mapped, forwarded>>
      /\ UNCHANGED <<test, noted, outcome, requestsBySc, nat, plan, timely>>
      /\ \A q, r : Outside(q, r)' = Outside(q, r)
      /\ \A c : FromOf(c)' = FromOf(c)
  BY DEF SendProbe, Continue, rigidVars, Outside, FromOf
<1>3. p = ProbeNow' /\ p.kind = "probe" /\ AwaitsProbe' /\ ~ AwaitsProbe
  BY <1>1, <1>2 DEF ProbeNow, AwaitsProbe, Source
<1> HIDE DEF p
<1>4. RequestsArrive'
  <2>1. \A m \in network' : m.kind = "request" => m \in network
    BY <1>2, <1>3
  <2>2. \A i \in 1..4 : ~ Asked(i)'
    BY <1>1, <1>2 DEF Asked
  <2> QED BY <1>1, <1>2, <2>1, <2>2 DEF RequestsArrive
<1>5. EndpointFound'
  BY <1>1, <1>2 DEF EndpointFound, Running
<1>6. ProbesTimely'
  <2>1. \A m \in network : m.kind # "probe"
    BY <1>3 DEF ProbesTimely
  <2> QED BY <1>2, <1>3, <2>1 DEF ProbesTimely
<1>7. ErrorsTimely'
  <2>1. \A m \in network' : m.kind # "icmp"
    BY <1>1, <1>2, <1>3 DEF ErrorsTimely
  <2>2. ErrorTaken' = ErrorTaken
    BY <1>2 DEF ErrorTaken
  <2> QED BY <1>1, <1>2, <2>1, <2>2 DEF ErrorsTimely
<1>8. TimelyTestIsExact'
  BY <1>2, ExactStays
<1> QED BY <1>4, <1>5, <1>6, <1>7, <1>8

LEMMA TimelyInject ==
  ASSUME IInv, TimelyInv, timely, InjectIcmp
  PROVE  TimelyInv'
<1> USE DEF IInv, TimelyInv
<1>1. test = "icmp" /\ op = 1
  BY WhenInject DEF InjectIcmp
<1>2. PICK e \in packetsByEp : network' = network \cup {[kind |-> "icmp", about |-> e]}
  BY DEF InjectIcmp
<1> DEFINE p == [kind |-> "icmp", about |-> e]
<1>3. /\ op' = 2
      /\ UNCHANGED <<rigidVars, contacts, packetsByEp, mapped, forwarded>>
      /\ UNCHANGED <<test, noted, outcome, requestsBySc, nat, plan, timely>>
      /\ \A q, r : Outside(q, r)' = Outside(q, r)
      /\ \A c : FromOf(c)' = FromOf(c)
  BY <1>1 DEF InjectIcmp, Continue, rigidVars, Outside, FromOf
<1>4. network' = network \cup {p} /\ p.kind = "icmp" /\ p.about \in packetsByEp
  BY <1>2
<1> HIDE DEF p
<1>5. RequestsArrive'
  <2>1. \A m \in network' : m.kind = "request" => m \in network
    BY <1>4
  <2>2. \A i \in 1..4 : ~ Asked(i)'
    BY <1>1, <1>3 DEF Asked
  <2> QED BY <1>1, <1>3, <2>1, <2>2 DEF RequestsArrive
<1>6. EndpointFound'
  BY <1>1, <1>3 DEF EndpointFound, Running
<1>7. ProbesTimely'
  <2>1. ~ AwaitsProbe /\ ~ AwaitsProbe'
    BY <1>1, <1>3 DEF AwaitsProbe
  <2> QED BY <1>4, <2>1 DEF ProbesTimely
<1>8. ErrorsTimely'
  <2>1. \A m \in network : m.kind # "icmp"
    BY <1>1 DEF ErrorsTimely
  <2> QED BY <1>1, <1>3, <1>4, <2>1 DEF ErrorsTimely
<1>9. TimelyTestIsExact'
  BY <1>3, ExactStays
<1> QED BY <1>5, <1>6, <1>7, <1>8, <1>9

\* The time is over with nothing on its way: the probe was refused.
LEMMA TimelyWait ==
  ASSUME IInv, TimelyInv, timely, WaitEnds
  PROVE  TimelyInv'
<1> USE DEF IInv, TimelyInv
<1>1. /\ Running /\ network = {} /\ network' = {}
      /\ UNCHANGED <<rigidVars, contacts, packetsByEp, mapped, nat, plan, timely>>
      /\ \A q, r : Outside(q, r)' = Outside(q, r)
      /\ \A c : FromOf(c)' = FromOf(c)
  BY DEF WaitEnds, Doing, pathVars, rigidVars, Outside, FromOf
<1>2. CASE Op.what = "icmp"
  <2>1. test = "icmp" /\ op = 2
    BY <1>2, WhenAwait DEF WaitEnds, Await
  <2>2. op' = 3 /\ forwarded' = "Fail" /\ UNCHANGED <<test, noted, outcome, requestsBySc>>
    BY <1>2, <2>1 DEF WaitEnds, Continue
  <2>3. RequestsArrive'
    <3>1. \A i \in 1..4 : ~ Asked(i)'
      BY <2>1, <2>2 DEF Asked
    <3> QED BY <1>1, <2>1, <2>2, <3>1 DEF RequestsArrive
  <2>4. EndpointFound'
    BY <1>1, <2>1, <2>2 DEF EndpointFound, Running
  <2>5. ProbesTimely'
    <3>1. ~ AwaitsProbe'
      BY <2>1, <2>2 DEF AwaitsProbe
    <3> QED BY <1>1, <3>1 DEF ProbesTimely
  <2>6. ErrorsTimely'
    <3>1. ErrorTaken' = ErrorTaken
      BY <1>1 DEF ErrorTaken
    <3>2. packetsByEp = {mapped} => ErrorTaken /\ ~ nat.forwardsIcmp
      BY <1>1, <2>1 DEF ErrorsTimely
    <3> QED BY <1>1, <2>1, <2>2, <3>1, <3>2 DEF ErrorsTimely
  <2>7. TimelyTestIsExact'
    BY <1>1, <2>1, <2>2, ExactStays
  <2> QED BY <2>3, <2>4, <2>5, <2>6, <2>7
<1>3. CASE Op.what # "icmp"
  <2> DEFINE v == CASE test = "filtering" -> "AddressAndPortDependent"
                    [] test = "sync"      -> "Pass"
                    [] OTHER              -> "Fail"
  <2>1. End(v) /\ forwarded' = forwarded
    BY <1>3 DEF WaitEnds
  <2>2. Awaiting("probe") /\ test \in {"filtering", "simOpen", "sync", "hairpin", "icmp"}
    BY <1>3, WhenAwait DEF WaitEnds, Await, Awaiting
  <2>3. AwaitsProbe /\ ~ Admits(ProbeNow)
    <3>1. AwaitsProbe
      BY <2>2, AwaitingIs
    <3> QED BY <1>1, <3>1 DEF ProbesTimely
  <2>4. outcome'.test = test
    BY <2>1 DEF End
  <2>5. ASSUME ~ Disturbed'
        PROVE  /\ v = Exact(test)
               /\ test = "icmp" => forwarded' = IF nat.forwardsIcmp THEN "Pass" ELSE "Fail"
    <3>1. CASE test = "icmp"
      <4>1. packetsByEp = {mapped}
        BY <1>1, <2>4, <2>5, <3>1 DEF Disturbed
      <4>2. op = 4
        BY <2>3, <3>1 DEF AwaitsProbe
      <4>3. ErrorTaken /\ forwarded = IF nat.forwardsIcmp THEN "Pass" ELSE "Fail"
        BY <3>1, <4>1, <4>2 DEF ErrorsTimely
      <4>4. nat.icmpKills
        BY <2>3, <3>1, <4>3, AdmitsNow
      <4> QED BY <2>1, <3>1, <4>3, <4>4 DEF Exact
    <3>2. CASE test = "filtering"
      <4>1. plan # "all" \/ nat.mapping # "independent"
        BY <1>1, <2>4, <2>5, <3>2 DEF Disturbed
      <4>2. nat.filtering # "independent"
        BY <2>3, <3>2, <4>1, AdmitsNow
      <4> QED BY <3>2, <4>2 DEF Exact
    <3>3. CASE test \in {"simOpen", "sync", "hairpin"}
      BY <2>3, <3>3, AdmitsNow DEF Exact
    <3> QED BY <2>2, <3>1, <3>2, <3>3
  <2>6. mapped' = Outside("X", "primary") /\ mapped' \in packetsByEp
    BY <1>1, <2>2 DEF EndpointFound
  <2>7. test # "integrity"
    BY <2>2
  <2> HIDE DEF v
  <2>8. \A m \in network' : m \in network /\ m.kind = "request"
    BY <1>1
  <2> QED BY <1>1, <2>1, <2>5, <2>6, <2>7, <2>8, TimelyEnds
<1> QED BY <1>2, <1>3

\* The one probe that can come is that of the test.
LEMMA TimelyReceive ==
  ASSUME IInv, TimelyInv, timely, NEW m \in network, Receive(m)
  PROVE  TimelyInv'
<1> USE DEF IInv, TimelyInv
<1>1. /\ Running /\ m.kind = "probe" /\ Admits(m) /\ network' = network \ {m} /\ End(Decide(m))
      /\ UNCHANGED <<rigidVars, contacts, packetsByEp, mapped, forwarded, nat, plan, timely>>
  BY DEF Receive, Awaiting, Doing, rigidVars
<1>2. AwaitsProbe /\ m = ProbeNow
  BY <1>1 DEF ProbesTimely
<1>3. test \in {"filtering", "simOpen", "sync", "hairpin", "icmp"}
  BY <1>2 DEF AwaitsProbe
<1>4. m.code[1] = test /\ m.type = IF test = "sync" THEN 8 ELSE 0
  BY <1>2 DEF ProbeNow
<1>5. \A n \in network' : n \in network /\ n.kind = "request"
  <2>1. \A n \in network' : n \in network /\ n.kind # "probe"
    BY <1>1, <1>2 DEF ProbesTimely
  <2>2. \A n \in network : n.kind # "icmp"
    BY <1>2 DEF ErrorsTimely, AwaitsProbe
  <2>3. \A n \in network : n.kind \in {"request", "probe", "icmp"}
    BY Packets DEF TypeOK
  <2> QED BY <2>1, <2>2, <2>3
<1>6. outcome'.test = test
  BY <1>1 DEF End
<1>7. ASSUME ~ Disturbed'
      PROVE  /\ Decide(m) = Exact(test)
             /\ test = "icmp" => forwarded' = IF nat.forwardsIcmp THEN "Pass" ELSE "Fail"
  <2>1. Admits(ProbeNow)
    BY <1>1, <1>2
  <2>2. CASE test = "icmp"
    <3>1. packetsByEp = {mapped}
      BY <1>1, <1>6, <1>7, <2>2 DEF Disturbed
    <3>2. op = 4
      BY <1>2, <2>2 DEF AwaitsProbe
    <3>3. ErrorTaken /\ forwarded = IF nat.forwardsIcmp THEN "Pass" ELSE "Fail"
      BY <2>2, <3>1, <3>2 DEF ErrorsTimely
    <3>4. ~ nat.icmpKills
      BY <1>2, <2>1, <2>2, <3>3, AdmitsNow
    <3> QED BY <1>1, <1>4, <2>2, <3>3, <3>4 DEF Exact, Decide
  <2>3. CASE test = "filtering"
    <3>1. plan # "all" \/ nat.mapping # "independent"
      BY <1>1, <1>6, <1>7, <2>3 DEF Disturbed
    <3>2. nat.filtering = "independent"
      BY <1>2, <2>1, <2>3, <3>1, AdmitsNow
    <3> QED BY <1>4, <2>3, <3>2 DEF Exact, Decide
  <2>4. CASE test = "sync"
    <3>1. ~ nat.dropsSync
      BY <1>2, <2>1, <2>4, AdmitsNow
    <3> QED BY <1>4, <2>4, <3>1 DEF Exact, Decide
  <2>5. CASE test = "hairpin"
    <3>1. nat.hairpins
      BY <1>2, <2>1, <2>5, AdmitsNow
    <3> QED BY <2>5, <3>1 DEF Exact, Decide
  <2>6. CASE test = "simOpen"
    BY <1>4, <2>6 DEF Exact, Decide
  <2> QED BY <1>3, <2>2, <2>3, <2>4, <2>5, <2>6
<1>8. mapped' = Outside("X", "primary") /\ mapped' \in packetsByEp
  BY <1>1, <1>3 DEF EndpointFound
<1>9. test # "integrity"
  BY <1>3
<1> QED BY <1>1, <1>5, <1>7, <1>8, <1>9, TimelyEnds

LEMMA TimelyRecord ==
  ASSUME IInv, TimelyInv, timely, NEW m \in network, Record(m)
  PROVE  TimelyInv'
<1> USE DEF IInv, TimelyInv
<1>1. /\ m.kind = "request" /\ network' = network \ {m} /\ packetsByEp' = packetsByEp \cup {m.from}
      /\ requestsBySc' = IF m.code[1] = test THEN [requestsBySc EXCEPT ![m.code[2]] = m.from]
                         ELSE requestsBySc
      /\ UNCHANGED <<rigidVars, contacts, test, op, mapped, noted, forwarded, outcome>>
  BY DEF Record, clientVars
<1>2. /\ UNCHANGED <<nat, plan, timely>>
      /\ \A p, r : Outside(p, r)' = Outside(p, r)
      /\ \A c : FromOf(c)' = FromOf(c)
      /\ \A i : Asked(i)' = Asked(i)
      /\ AwaitsProbe' = AwaitsProbe /\ ProbeNow' = ProbeNow
  BY <1>1, SameTest
<1>3. RequestsArrive'
  <2>1. m.code \in Code /\ m.code[2] \in 1..4 /\ m.code = <<m.code[1], m.code[2]>>
    <3>1. m.code \in Code /\ m.code[2] \in 1..4
      BY <1>1, Packets DEF TypeOK
    <3> QED BY <3>1 DEF Code
  <2>2. \A i \in 1..4 : \/ requestsBySc'[i] = requestsBySc[i] /\ m.code # <<test, i>>
                        \/ requestsBySc'[i] = m.from /\ m.code = <<test, i>>
    BY <1>1, <2>1 DEF TypeOK
  <2>3. m.from = FromOf(m.code)
    BY <1>1 DEF RequestsArrive
  <2>4. \A n \in network' : n.kind = "request" => n.from = FromOf(n.code)
    BY <1>1 DEF RequestsArrive
  <2>5. \A i \in 1..4 : requestsBySc'[i] # None => requestsBySc'[i] \in packetsByEp'
    BY <1>1, <2>2 DEF RequestsArrive
  <2>6. ASSUME NEW i \in 1..4, Asked(i)
        PROVE  \/ requestsBySc'[i] = FromOf(<<test, i>>)
               \/ \E n \in network' : n.kind = "request" /\ n.code = <<test, i>>
    <3>1. CASE m.code = <<test, i>>
      BY <2>2, <2>3, <3>1
    <3>2. CASE m.code # <<test, i>>
      BY <1>1, <2>2, <2>6, <3>2 DEF RequestsArrive
    <3> QED BY <3>1, <3>2
  <2>7. test = "overloading" /\ op = 4 => noted = Outside("X", "primary")
    BY DEF RequestsArrive
  <2> QED BY <1>1, <1>2, <2>4, <2>5, <2>6, <2>7 DEF RequestsArrive
<1>4. EndpointFound'
  BY <1>1, <1>2 DEF EndpointFound, Running
<1>5. ProbesTimely'
  <2>1. Admits(ProbeNow)' = Admits(ProbeNow)
    BY <1>1, <1>2 DEF Admits
  <2>2. ProbeNow.kind = "probe"
    BY DEF ProbeNow
  <2> QED BY <1>1, <1>2, <2>1, <2>2 DEF ProbesTimely
<1>6. ErrorsTimely'
  <2>1. test = "icmp" /\ packetsByEp' = {mapped} => packetsByEp = {mapped}
    BY <1>1 DEF EndpointFound
  <2>2. ErrorTaken' = ErrorTaken
    BY <1>1, <1>2 DEF ErrorTaken
  <2> QED BY <1>1, <1>2, <2>1, <2>2 DEF ErrorsTimely
<1>7. TimelyTestIsExact'
  BY <1>1, ExactStays
<1> QED BY <1>3, <1>4, <1>5, <1>6, <1>7

\* The error that was injected comes to the NAT.
LEMMA TimelyTranslate ==
  ASSUME IInv, TimelyInv, timely, NEW m \in network, TranslateIcmp(m)
  PROVE  TimelyInv'
<1> USE DEF IInv, TimelyInv
<1> DEFINE ofX == m.about.port = "X" /\ "primary" \in m.about.remotes
<1>1. test = "icmp" /\ op = 2 /\ m.kind = "icmp" /\ m.about \in packetsByEp
  BY DEF TranslateIcmp, ErrorsTimely
<1>2. /\ network' = network \ {m} /\ \A n \in network' : n.kind # "icmp"
      /\ UNCHANGED <<rigidVars, packetsByEp, mapped, test, noted, outcome, requestsBySc>>
      /\ contacts' = IF ofX /\ nat.icmpKills THEN contacts \ m.about.remotes ELSE contacts
      /\ IF ofX /\ nat.forwardsIcmp THEN forwarded' = "Pass" /\ op' = 3
         ELSE UNCHANGED <<forwarded, op>>
  <2>1. \A n \in network \ {m} : n.kind # "icmp"
    BY <1>1 DEF ErrorsTimely
  <2>2. Awaiting("icmp")
    BY <1>1, AwaitingIs
  <2> QED BY <1>1, <2>1, <2>2 DEF TranslateIcmp, Continue
<1>3. /\ UNCHANGED <<nat, plan, timely>>
      /\ \A p, r : Outside(p, r)' = Outside(p, r)
      /\ \A c : FromOf(c)' = FromOf(c)
      /\ op' \in {2, 3}
  BY <1>1, <1>2 DEF rigidVars, Outside, FromOf
<1>4. RequestsArrive'
  <2>1. \A i \in 1..4 : ~ Asked(i)'
    BY <1>1, <1>2 DEF Asked
  <2> QED BY <1>1, <1>2, <1>3, <2>1 DEF RequestsArrive
<1>5. EndpointFound'
  BY <1>1, <1>2, <1>3 DEF EndpointFound, Running
<1>6. ProbesTimely'
  <2>1. ~ AwaitsProbe /\ ~ AwaitsProbe'
    BY <1>1, <1>2, <1>3 DEF AwaitsProbe
  <2> QED BY <1>2, <2>1 DEF ProbesTimely
<1>7. ErrorsTimely'
  <2>1. ASSUME packetsByEp = {mapped}
        PROVE  /\ ErrorTaken'
               /\ IF nat.forwardsIcmp THEN forwarded' = "Pass" /\ op' = 3 ELSE op' = 2
    <3>1. m.about = mapped /\ ofX
      BY <1>1, <2>1, Endpoints DEF EndpointFound, Remote
    <3> QED BY <1>1, <1>2, <1>3, <3>1 DEF ErrorTaken
  <2>2. outcome'.test # "icmp"
    BY <1>1, <1>2 DEF ErrorsTimely
  <2> QED BY <1>1, <1>2, <1>3, <2>1, <2>2 DEF ErrorsTimely
<1>8. TimelyTestIsExact'
  BY <1>1, <1>2, ExactStays
<1> QED BY <1>4, <1>5, <1>6, <1>7, <1>8

LEMMA TimelyDrop ==
  ASSUME IInv, TimelyInv, timely, NEW m \in network, Drop(m)
  PROVE  TimelyInv'
<1> USE DEF IInv, TimelyInv
<1>1. /\ m.kind = "probe" /\ (Awaiting("probe") => ~ Admits(m)) /\ network' = network \ {m}
      /\ UNCHANGED <<rigidVars, contacts, packetsByEp, requestsBySc, test, op, mapped, noted,
                     forwarded, outcome>>
  BY DEF Drop, serverVars, clientVars
<1>2. /\ UNCHANGED <<nat, plan, timely>>
      /\ \A p, r : Outside(p, r)' = Outside(p, r)
      /\ \A c : FromOf(c)' = FromOf(c)
      /\ \A i : Asked(i)' = Asked(i)
      /\ AwaitsProbe' = AwaitsProbe /\ ProbeNow' = ProbeNow
  BY <1>1, SameTest
<1>3. m = ProbeNow /\ ~ Admits(ProbeNow)
  BY <1>1, AwaitingIs DEF ProbesTimely
<1>4. RequestsArrive'
  <2>1. ASSUME NEW i \in 1..4, Asked(i)
        PROVE  \/ requestsBySc[i] = FromOf(<<test, i>>)
               \/ \E n \in network' : n.kind = "request" /\ n.code = <<test, i>>
    BY <1>1, <2>1 DEF RequestsArrive
  <2> QED BY <1>1, <1>2, <2>1 DEF RequestsArrive
<1>5. EndpointFound'
  BY <1>1, <1>2 DEF EndpointFound, Running
<1>6. ProbesTimely'
  <2>1. Admits(ProbeNow)' = Admits(ProbeNow)
    BY <1>1, <1>2 DEF Admits
  <2> QED BY <1>1, <1>2, <1>3, <2>1 DEF ProbesTimely
<1>7. ErrorsTimely'
  <2>1. ErrorTaken' = ErrorTaken
    BY <1>1, <1>2 DEF ErrorTaken
  <2>2. \A n \in network' : n \in network
    BY <1>1
  <2>3. ASSUME NEW n \in network, n.kind = "icmp"
        PROVE  n \in network'
    BY <1>1, <2>3
  <2> QED BY <1>1, <1>2, <2>1, <2>2, <2>3 DEF ErrorsTimely
<1>8. TimelyTestIsExact'
  BY <1>1, ExactStays
<1> QED BY <1>4, <1>5, <1>6, <1>7, <1>8

LEMMA TimelyStutter ==
  ASSUME TimelyInv, UNCHANGED vars
  PROVE  TimelyInv'
<1>1. UNCHANGED <<rigidVars, contacts, network, packetsByEp, requestsBySc, test, op, mapped, noted,
                  forwarded, outcome>>
  BY DEF vars, pathVars, serverVars, clientVars
<1>2. /\ UNCHANGED <<nat, plan, timely>>
      /\ \A p, r : Outside(p, r)' = Outside(p, r)
      /\ \A c : FromOf(c)' = FromOf(c)
      /\ \A i : Asked(i)' = Asked(i)
      /\ AwaitsProbe' = AwaitsProbe /\ ProbeNow' = ProbeNow
  BY <1>1, SameTest
<1>3. Admits(ProbeNow)' = Admits(ProbeNow) /\ ErrorTaken' = ErrorTaken /\ Disturbed' = Disturbed
  BY <1>1, <1>2 DEF Admits, ErrorTaken, Disturbed
<1>4. \A t : Exact(t)' = Exact(t)
  BY <1>2 DEF Exact
<1>5. RequestsArrive' = RequestsArrive
  BY <1>1, <1>2 DEF RequestsArrive
<1>6. EndpointFound' = EndpointFound
  BY <1>1, <1>2 DEF EndpointFound, Running
<1>7. ProbesTimely' = ProbesTimely
  BY <1>1, <1>2, <1>3 DEF ProbesTimely
<1>8. ErrorsTimely' = ErrorsTimely
  BY <1>1, <1>2, <1>3 DEF ErrorsTimely
<1>9. TimelyTestIsExact' = TimelyTestIsExact
  BY <1>1, <1>2, <1>3, <1>4 DEF TimelyTestIsExact
<1> QED BY <1>2, <1>5, <1>6, <1>7, <1>8, <1>9 DEF TimelyInv

LEMMA TimelyStep == IInv /\ TimelyInv /\ [Next]_vars => TimelyInv'
<1> SUFFICES ASSUME IInv, TimelyInv, [Next]_vars PROVE TimelyInv'
  OBVIOUS
<1>1. CASE ~ timely
  <2>1. timely' = timely
    BY DEF Next, Client, Transit, SendRequest, AskForRecord, SendProbe, InjectIcmp, OpFails,
       WaitEnds, Record, Receive, TranslateIcmp, Drop, Lose, Over, vars, rigidVars
  <2> QED BY <1>1, <2>1 DEF TimelyInv
<1>2. CASE timely /\ (UNCHANGED vars \/ Over)
  BY <1>2, TimelyStutter DEF Over
<1>3. CASE timely /\ Client
  BY <1>3, TimelySendRequest, TimelyAsk, TimelySendProbe, TimelyInject, TimelyWait DEF Client, OpFails
<1>4. CASE timely /\ Transit
  BY <1>4, TimelyRecord, TimelyReceive, TimelyTranslate, TimelyDrop DEF Transit
<1>5. CASE timely /\ \E m \in network : Lose(m)
  BY <1>5 DEF Lose
<1> QED BY <1>1, <1>2, <1>3, <1>4, <1>5 DEF Next

-----------------------------------------------------------------------------
\* With nothing lost or late, every DCCP test reports what the NAT does, unless
\* an earlier test or another client of the server has left its traces.
THEOREM TimelyExactness == Spec => []TimelyTestIsExact
<1>1. IInv /\ [Next]_vars /\ TimelyInv => TimelyInv'
  BY TimelyStep
<1>2. TimelyInv => TimelyTestIsExact
  BY DEF TimelyInv, TimelyTestIsExact
<1> QED BY <1>1, <1>2, TimelyInitially, Invariance, PTL DEF Spec
=============================================================================
