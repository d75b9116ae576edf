---------------------------- MODULE Rfc5382Proofs ----------------------------
(***************************************************************************)
(* Proofs about Rfc5382, for every timing of the client and the server.    *)
(***************************************************************************)
EXTENDS Rfc5382, TLAPS

USE Timing

-----------------------------------------------------------------------------
(* The inductive invariant. *)

\* Results are there only while a command is served.
IdleHasNoResults == ~ serving \/ step \notin Command => results = <<>>

\* S sleeps once, and each probe takes its timeout at most.
ElapsedByProbe ==
  /\ Len(results) = 0 => elapsed = 0
  /\ Len(results) = 1 => elapsed <= ProbeTimeout + SynDelay
  /\ Len(results) = 2 => elapsed <= 2 * ProbeTimeout + SynDelay

\* A connection that came through was let in by what the NAT still remembers.
ResultsExplained ==
  \A i \in 1..Len(results) : results[i] => Admits("tcp", Target, Probes(step)[i])

\* No TCP connection is ever made to the secondary.
PrimaryOnly == <<"tcp", "secondary">> \notin contacts

InboxExplained == "probe" \in inbox => CrossesPorts("udp")

LingersOnlyIfFixed == lingering => fixedPort

IInv == /\ TypeOK /\ IdleHasNoResults /\ ElapsedByProbe /\ ResultsExplained
        /\ PrimaryOnly /\ InboxExplained /\ LingersOnlyIfFixed
        /\ FilteringSound /\ CrossProbesExplained

-----------------------------------------------------------------------------
(* Lemmas about the operators. *)

LEMMA Numbers ==
  /\ ProbeTimeout \in Nat /\ SynDelay \in Nat /\ ClientTimeout \in Nat
  /\ 2 * ProbeTimeout + SynDelay \in Nat
  /\ 1 \in 1..MaxRetries /\ 0 \in 0 .. 2 * ProbeTimeout + SynDelay
<1>1. ProbeTimeout \in Nat /\ SynDelay \in Nat /\ ClientTimeout \in Nat /\ MaxRetries \in Nat \ {0}
  OBVIOUS
<1> QED BY <1>1

LEMMA ProbesLength ==
  /\ Len(Probes("F")) = 2 /\ Len(Probes("S")) = 2 /\ Len(Probes("C")) = 1
  /\ Probes("F")[1] = "primary" /\ Probes("F")[2] = "secondary" /\ Probes("C")[1] = "primary"
  /\ \A s : s \notin {"F", "S", "C"} => Probes(s) = <<>>
  /\ \A s : Len(Probes(s)) \in {0, 1, 2}
<1>1. \A s : s \notin {"F", "S", "C"} => Probes(s) = <<>>
  BY DEF Probes
<1>2. Probes("F") = <<"primary", "secondary">> /\ Probes("S") = <<"secondary", "primary">>
      /\ Probes("C") = <<"primary">>
  BY DEF Probes
<1> QED BY <1>1, <1>2

LEMMA RankValues ==
  /\ Rank("EndpointIndependent") = 0 /\ Rank("AddressDependent") = 1
  /\ Rank("AddressAndPortDependent") = 2
BY DEF Rank

\* What comes in to the other protocol's port from the primary shows that the
\* ports have the same number, and the filter's kind.
LEMMA AdmittedAcross ==
  ASSUME TypeOK, NEW proto \in {"tcp", "udp"}, NEW outside \in {"tcp", "udp"},
         proto # outside, Admits(proto, outside, "primary")
  PROVE  CrossesPorts(proto)
<1>1. nat.crossing \in Crossing /\ nat[proto] \in Dependence
  BY DEF TypeOK, NatBehavior
<1> QED BY <1>1 DEF Admits, CrossesPorts, Crossing, Dependence

\* Only a filter that is open, or that the mapping test has opened, lets the
\* secondary in.
LEMMA AdmittedSecondary ==
  ASSUME TypeOK, PrimaryOnly, Admits("tcp", "tcp", "secondary")
  PROVE  nat.tcp = "EndpointIndependent" \/ Disturbed
<1>1. PICK c \in contacts : /\ c[1] = "tcp" \/ nat.crossing = "shared"
                            /\ \/ nat.tcp = "EndpointIndependent"
                               \/ c[2] = "secondary"
  BY DEF Admits
<1>2. c = <<c[1], c[2]>> /\ c[1] \in {"tcp", "udp"}
  BY DEF TypeOK, Contact
<1> QED BY <1>1, <1>2 DEF PrimaryOnly, Disturbed

LEMMA AdmittedPrimary ==
  ASSUME TypeOK, Admits("tcp", "tcp", "primary")
  PROVE  nat.tcp \in {"EndpointIndependent", "AddressDependent"}
BY DEF Admits

-----------------------------------------------------------------------------
LEMMA Initially == Init => IInv
<1> SUFFICES ASSUME Init PROVE IInv
  OBVIOUS
<1>1. TypeOK
  <2>1. contacts \subseteq Contact
    BY DEF Init, Contact
  <2>2. verdict \in Verdict
    BY DEF Init, Verdict
  <2>3. /\ results \in Seq(BOOLEAN) /\ Len(results) <= Len(Probes(step))
        /\ elapsed \in 0 .. 2 * ProbeTimeout + SynDelay /\ attempt \in 1..MaxRetries
    BY ProbesLength, Numbers DEF Init
  <2> QED BY <2>1, <2>2, <2>3 DEF Init, TypeOK, Step
<1>2. PrimaryOnly /\ InboxExplained /\ LingersOnlyIfFixed
  <2>1. contacts \subseteq {<<"udp", "primary">>, <<"udp", "secondary">>}
    BY DEF Init
  <2> QED BY <2>1 DEF Init, PrimaryOnly, InboxExplained, LingersOnlyIfFixed
<1>3. FilteringSound /\ CrossProbesExplained
  BY DEF Init, FilteringSound, CrossProbesExplained, Unset
<1>4. IdleHasNoResults /\ ElapsedByProbe /\ ResultsExplained
  BY DEF Init, IdleHasNoResults, ElapsedByProbe, ResultsExplained
<1> QED BY <1>1, <1>2, <1>3, <1>4 DEF IInv

\* A step that leaves no results, keeps the verdict and at most adds contacts of
\* the primary or forgets some of TCP, keeps the invariant.
LEMMA QuietStep ==
  ASSUME IInv, UNCHANGED <<rigidVars, verdict>>,
         results' = <<>>, elapsed' = 0,
         contacts' \subseteq contacts \cup {<<"tcp", "primary">>, <<"udp", "primary">>},
         <<"udp", "secondary">> \in contacts => <<"udp", "secondary">> \in contacts',
         inbox' \subseteq inbox \cup {"mapped"},
         lingering' \in BOOLEAN, LingersOnlyIfFixed',
         step' \in Step, serving' \in BOOLEAN, attempt' \in 1..MaxRetries
  PROVE  IInv'
<1>1. TypeOK'
  <2>1. Len(Probes(step')) \in {0, 1, 2}
    BY ProbesLength
  <2> QED BY <2>1 DEF IInv, TypeOK, rigidVars, Contact
<1>2. PrimaryOnly' /\ InboxExplained'
  BY DEF IInv, PrimaryOnly, InboxExplained, rigidVars, CrossesPorts
<1>3. FilteringSound' /\ CrossProbesExplained'
  BY DEF IInv, FilteringSound, CrossProbesExplained, CrossesPorts, Disturbed, rigidVars
<1>4. IdleHasNoResults' /\ ElapsedByProbe' /\ ResultsExplained'
  BY DEF IdleHasNoResults, ElapsedByProbe, ResultsExplained
<1> QED BY <1>1, <1>2, <1>3, <1>4 DEF IInv

LEMMA Stepwise == IInv /\ [Next]_vars => IInv'
<1> SUFFICES ASSUME IInv, [Next]_vars PROVE IInv'
  OBVIOUS
<1> USE DEF IInv
<1>idle. ~ serving \/ step \notin Command => results = <<>> /\ elapsed = 0
  BY DEF IdleHasNoResults, ElapsedByProbe
<1>steps. /\ Command \subseteq Step /\ UdpStep \subseteq Step
          /\ {"icmp", "hairpin", "awaitProbe", "done", "aborted"} \subseteq Step
          /\ Command \cap UdpStep = {}
          /\ \A s \in {"discover", "awaitProbe", "icmp", "hairpin"} : s \notin Command
  BY DEF Step, Command, UdpStep
<1>stutter. CASE UNCHANGED vars
  <2>1. UNCHANGED <<nat, fixedPort, timely, contacts, lingering, inbox, step,
                    serving, results, elapsed, attempt, verdict>>
    BY <1>stutter DEF vars, rigidVars, commandVars
  <2>2. TypeOK' /\ IdleHasNoResults' /\ ElapsedByProbe'
    BY <2>1 DEF TypeOK, IdleHasNoResults, ElapsedByProbe
  <2>3. ResultsExplained'
    BY <2>1 DEF ResultsExplained, Admits, Target
  <2>4. /\ PrimaryOnly' /\ InboxExplained' /\ LingersOnlyIfFixed'
        /\ FilteringSound' /\ CrossProbesExplained'
    BY <2>1 DEF PrimaryOnly, InboxExplained, LingersOnlyIfFixed, FilteringSound,
                CrossProbesExplained, Disturbed, CrossesPorts
  <2> QED BY <2>2, <2>3, <2>4
<1>gone. /\ ConnectionGone => contacts' \subseteq contacts
         /\ ConnectionGone /\ <<"udp", "secondary">> \in contacts
              => <<"udp", "secondary">> \in contacts'
  BY DEF ConnectionGone
<1>1. CASE Discover
  BY <1>1, <1>idle, <1>steps, QuietStep
     DEF Discover, commandVars, TypeOK, LingersOnlyIfFixed, rigidVars, Command
<1>2. CASE Send
  BY <1>2, <1>idle, <1>steps, <1>gone, QuietStep
     DEF Send, Abort, TypeOK, LingersOnlyIfFixed, rigidVars
<1>3. CASE ProbeBack
  <2> DEFINE n == Len(results)
  <2>1. /\ UNCHANGED <<rigidVars, contacts, lingering, inbox, step, serving, attempt, verdict>>
        /\ step \in Command /\ serving /\ n < Len(Probes(step))
    BY <1>3 DEF ProbeBack
  <2>2. PICK ok \in BOOLEAN, took \in {0, ProbeTimeout} :
          /\ ok => Admits("tcp", Target, Probes(step)[n + 1])
          /\ results' = Append(results, ok)
          /\ elapsed' = elapsed + took + (IF step = "S" /\ results = <<>> THEN SynDelay ELSE 0)
    BY <1>3 DEF ProbeBack
  <2>3. /\ results \in Seq(BOOLEAN) /\ n \in Nat /\ n < 2 /\ elapsed \in Nat
        /\ ProbeTimeout \in Nat /\ SynDelay \in Nat
    <3>1. results \in Seq(BOOLEAN) /\ elapsed \in 0 .. 2 * ProbeTimeout + SynDelay
      BY DEF TypeOK
    <3>2. n \in Nat /\ Len(Probes(step)) \in {0, 1, 2}
      BY <3>1, ProbesLength
    <3>3. elapsed \in Nat
      BY <3>1, Numbers
    <3>4. n < Len(Probes(step))
      BY <2>1
    <3>5. n < 2
      <4>1. \A k \in {0, 1, 2}, i \in Nat : i < k => i < 2
        OBVIOUS
      <4> QED BY <3>2, <3>4, <4>1, Zenon
    <3> QED BY <3>1, <3>2, <3>3, <3>5, Numbers
  <2>4. /\ results' \in Seq(BOOLEAN) /\ Len(results') = n + 1
        /\ \A i \in 1..n : results'[i] = results[i]
        /\ results'[n + 1] = ok
    BY <2>2, <2>3
  <2>5. /\ elapsed' \in Nat
        /\ n = 0 => elapsed' <= elapsed + ProbeTimeout + SynDelay
        /\ n # 0 => elapsed' <= elapsed + ProbeTimeout
    <3>1. results = <<>> => n = 0
      OBVIOUS
    <3> QED BY <2>2, <2>3, <3>1
  <2>6. ElapsedByProbe'
    <3>1. CASE n = 0
      <4>1. elapsed = 0 /\ Len(results') = 1
        BY <2>4, <3>1 DEF ElapsedByProbe
      <4> QED BY <2>3, <2>5, <3>1, <4>1 DEF ElapsedByProbe
    <3>2. CASE n = 1
      <4>1. elapsed <= ProbeTimeout + SynDelay /\ Len(results') = 2
        BY <2>4, <3>2 DEF ElapsedByProbe
      <4>2. elapsed' <= elapsed + ProbeTimeout
        BY <2>5, <3>2
      <4>3. elapsed' <= 2 * ProbeTimeout + SynDelay
        BY <2>3, <2>5, <4>1, <4>2
      <4> QED BY <4>1, <4>3 DEF ElapsedByProbe
    <3>3. n = 0 \/ n = 1
      <4> HIDE DEF n
      <4> QED BY <2>3
    <3> QED BY <3>1, <3>2, <3>3
  <2>7. TypeOK'
    <3>1. elapsed' \in 0 .. 2 * ProbeTimeout + SynDelay
      BY <2>3, <2>4, <2>5, <2>6 DEF ElapsedByProbe
    <3>2. Len(results') <= Len(Probes(step'))
      BY <2>1, <2>3, <2>4, ProbesLength
    <3> QED BY <2>1, <2>4, <3>1, <3>2 DEF TypeOK, rigidVars
  <2>8. ResultsExplained'
    <3> SUFFICES ASSUME NEW i \in 1..Len(results'), results'[i]
                 PROVE  Admits("tcp", Target, Probes(step)[i])'
      BY DEF ResultsExplained
    <3>1. Admits("tcp", Target, Probes(step)[i])
      <4>1. CASE i = n + 1
        BY <2>2, <2>4, <4>1
      <4>2. CASE i \in 1..n
        BY <2>4, <4>2 DEF ResultsExplained
      <4> QED BY <2>3, <2>4, <4>1, <4>2
    <3>2. (Admits("tcp", Target, Probes(step)[i])') <=> Admits("tcp", Target, Probes(step)[i])
      BY <2>1 DEF Admits, Target, rigidVars
    <3> QED BY <3>1, <3>2
  <2>9. /\ IdleHasNoResults' /\ PrimaryOnly' /\ InboxExplained' /\ LingersOnlyIfFixed'
        /\ FilteringSound' /\ CrossProbesExplained'
    BY <2>1 DEF IdleHasNoResults, PrimaryOnly, InboxExplained, LingersOnlyIfFixed,
                FilteringSound, CrossProbesExplained, Disturbed, CrossesPorts, rigidVars
  <2> QED BY <2>6, <2>7, <2>8, <2>9
<1>4. CASE Answer
  <2>1. /\ step \in Command /\ Len(results) = Len(Probes(step))
        /\ results' = <<>> /\ elapsed' = 0 /\ serving' = FALSE
        /\ ConnectionGone /\ UNCHANGED <<rigidVars, lingering, attempt>>
    BY <1>4 DEF Answer
  <2>2. /\ step' \in Step /\ TypeOK' /\ PrimaryOnly' /\ IdleHasNoResults' /\ ElapsedByProbe'
        /\ ResultsExplained' /\ LingersOnlyIfFixed' /\ Disturbed' = Disturbed
    <3>1. step' \in Step
      BY <1>4 DEF Answer, Step, Command, UdpStep
    <3>2. inbox' \subseteq {"mapped", "probe"}
      BY <1>4 DEF Answer, TypeOK
    <3>3. verdict' \in Verdict
      <4>1. step = "F" => results[1] \in BOOLEAN /\ results[2] \in BOOLEAN
        BY <2>1, ProbesLength DEF TypeOK
      <4>2. \A p, s \in BOOLEAN : Filtering(p, s) \in Dependence
        BY DEF Filtering, Dependence
      <4>3. \A p : Status(p) \in {"Pass", "Fail"} /\ Flag(p) \in {"yes", "no"}
        BY DEF Status, Flag
      <4>4. CASE step = "F"
        BY <1>4, <4>1, <4>2, <4>4 DEF Answer, TypeOK, Verdict
      <4>5. CASE step = "S"
        BY <1>4, <4>3, <4>5 DEF Answer, TypeOK, Verdict
      <4>6. CASE step = "C"
        BY <1>4, <4>3, <4>6 DEF Answer, TypeOK, Verdict
      <4>7. CASE step \notin {"F", "S", "C"}
        BY <1>4, <4>7 DEF Answer, TypeOK
      <4> QED BY <4>4, <4>5, <4>6, <4>7
    <3>4. Len(Probes(step')) \in {0, 1, 2}
      BY ProbesLength
    <3>5. TypeOK'
      <4>1. contacts' \subseteq Contact
        BY <2>1, <1>gone DEF TypeOK
      <4>2. results' \in Seq(BOOLEAN) /\ Len(results') <= Len(Probes(step'))
            /\ elapsed' \in 0 .. 2 * ProbeTimeout + SynDelay
        BY <2>1, <3>4, Numbers
      <4> QED BY <2>1, <3>1, <3>2, <3>3, <4>1, <4>2 DEF TypeOK, rigidVars
    <3>6. PrimaryOnly' /\ LingersOnlyIfFixed' /\ Disturbed' = Disturbed
      BY <2>1, <1>gone DEF PrimaryOnly, LingersOnlyIfFixed, Disturbed, rigidVars
    <3>7. IdleHasNoResults' /\ ElapsedByProbe' /\ ResultsExplained'
      BY <2>1 DEF IdleHasNoResults, ElapsedByProbe, ResultsExplained
    <3> QED BY <3>1, <3>5, <3>6, <3>7
  <2>3. InboxExplained'
    <3>1. CASE inbox' = inbox
      BY <2>1, <3>1 DEF InboxExplained, CrossesPorts, rigidVars
    <3>2. CASE inbox' = inbox \cup IF Admits("udp", "tcp", "primary") THEN {"probe"} ELSE {}
      BY <2>1, <3>2, AdmittedAcross DEF InboxExplained, CrossesPorts, rigidVars
    <3> QED BY <1>4, <3>1, <3>2 DEF Answer
  <2>4. FilteringSound'
    <3>1. CASE step = "F"
      <4>1. /\ verdict'.filtering = Filtering(results[1], results[2])
            /\ results[1] \in BOOLEAN /\ results[2] \in BOOLEAN
        BY <1>4, <2>1, <3>1, ProbesLength DEF Answer, TypeOK, Verdict
      <4>2. results[2] => nat.tcp = "EndpointIndependent" \/ Disturbed
        BY <2>1, <3>1, ProbesLength, AdmittedSecondary DEF ResultsExplained, Target
      <4>3. results[1] => nat.tcp \in {"EndpointIndependent", "AddressDependent"}
        BY <2>1, <3>1, ProbesLength, AdmittedPrimary DEF ResultsExplained, Target
      <4>4. nat.tcp \in Dependence /\ nat'.tcp = nat.tcp
        BY <2>1 DEF TypeOK, NatBehavior, rigidVars
      <4> QED BY <2>2, <4>1, <4>2, <4>3, <4>4, RankValues
              DEF FilteringSound, Filtering, Dependence
    <3>2. CASE step # "F"
      <4>1. verdict'.filtering = verdict.filtering
        BY <1>4, <3>2 DEF Answer, TypeOK, Verdict
      <4> QED BY <2>1, <2>2, <4>1 DEF FilteringSound, rigidVars
    <3> QED BY <3>1, <3>2
  <2>5. CrossProbesExplained'
    <3>1. verdict'.tcpAllowsUdp = verdict.tcpAllowsUdp
      BY <1>4 DEF Answer, TypeOK, Verdict
    <3>2. verdict'.udpAllowsTcp = "yes" => CrossesPorts("tcp")
      <4>1. CASE step = "C"
        <5>1. verdict'.udpAllowsTcp = Flag(results[1])
          BY <1>4, <4>1 DEF Answer, TypeOK, Verdict
        <5>2. results[1] => Admits("tcp", "udp", "primary")
          BY <2>1, <4>1, ProbesLength DEF ResultsExplained, Target
        <5> QED BY <5>1, <5>2, AdmittedAcross DEF Flag
      <4>2. CASE step # "C"
        <5>1. verdict'.udpAllowsTcp = verdict.udpAllowsTcp
          BY <1>4, <4>2 DEF Answer, TypeOK, Verdict
        <5> QED BY <5>1 DEF CrossProbesExplained
      <4> QED BY <4>1, <4>2
    <3> QED BY <2>1, <3>1, <3>2 DEF CrossProbesExplained, CrossesPorts, rigidVars
  <2> QED BY <2>2, <2>3, <2>4, <2>5
<1>5. CASE CommandFails
  BY <1>5, <1>steps, <1>gone, QuietStep DEF CommandFails, Abort, TypeOK, LingersOnlyIfFixed, rigidVars
<1>6. CASE SendUdpMapping
  BY <1>6, <1>idle, <1>steps, QuietStep DEF SendUdpMapping, TypeOK, LingersOnlyIfFixed, rigidVars
<1>7. ASSUME NEW m \in inbox, ReceiveUdpMapping(m) PROVE IInv'
  <2>1. step' \in Step
    BY <1>7 DEF ReceiveUdpMapping, Continue, Step, Command, UdpStep
  <2> QED BY <1>7, <2>1, <1>idle, <1>steps, QuietStep
          DEF ReceiveUdpMapping, Continue, TypeOK, LingersOnlyIfFixed, rigidVars
<1>8. ASSUME step \in {"awaitProbe", "icmp", "hairpin"},
             Continue(step'), step' \in Step, verdict' \in Verdict,
             inbox' \subseteq inbox, lingering' \in BOOLEAN, LingersOnlyIfFixed',
             UNCHANGED contacts \/ ConnectionGone,
             verdict'.filtering = verdict.filtering,
             verdict'.udpAllowsTcp = verdict.udpAllowsTcp,
             verdict'.tcpAllowsUdp = "yes" => CrossesPorts("udp")
      PROVE  IInv'
  <2>1. /\ results' = <<>> /\ elapsed' = 0 /\ serving' = FALSE
        /\ contacts' \subseteq contacts /\ Disturbed' = Disturbed
        /\ UNCHANGED <<rigidVars, attempt>>
    BY <1>8, <1>idle, <1>steps, <1>gone DEF Continue, Disturbed, rigidVars
  <2>2. TypeOK'
    <3>1. Len(Probes(step')) \in {0, 1, 2}
      BY ProbesLength
    <3>2. contacts' \subseteq Contact /\ inbox' \subseteq {"mapped", "probe"}
      BY <1>8, <2>1 DEF TypeOK
    <3>3. results' \in Seq(BOOLEAN) /\ Len(results') <= Len(Probes(step'))
          /\ elapsed' \in 0 .. 2 * ProbeTimeout + SynDelay
      BY <2>1, <3>1, Numbers
    <3> QED BY <1>8, <2>1, <3>2, <3>3 DEF TypeOK, rigidVars
  <2>3. PrimaryOnly' /\ InboxExplained' /\ LingersOnlyIfFixed'
    BY <1>8, <2>1 DEF PrimaryOnly, InboxExplained, CrossesPorts, rigidVars
  <2>4. IdleHasNoResults' /\ ElapsedByProbe' /\ ResultsExplained'
    BY <2>1 DEF IdleHasNoResults, ElapsedByProbe, ResultsExplained
  <2>5. FilteringSound' /\ CrossProbesExplained'
    BY <1>8, <2>1 DEF FilteringSound, CrossProbesExplained, CrossesPorts, rigidVars
  <2> QED BY <2>2, <2>3, <2>4, <2>5
<1>9. ASSUME NEW m \in inbox, ReceiveProbe(m) PROVE IInv'
  <2>1. m = "probe" => CrossesPorts("udp")
    BY DEF InboxExplained
  <2>2. /\ verdict' \in Verdict /\ verdict'.filtering = verdict.filtering
        /\ verdict'.udpAllowsTcp = verdict.udpAllowsTcp
        /\ verdict'.tcpAllowsUdp = Flag(m = "probe")
    BY <1>9 DEF ReceiveProbe, TypeOK, Verdict, Flag
  <2>3. verdict'.tcpAllowsUdp = "yes" => CrossesPorts("udp")
    BY <2>1, <2>2 DEF Flag
  <2>4. Continue(step') /\ step' \in Step
    BY <1>9, <1>steps DEF ReceiveProbe, Continue, UdpStep
  <2>5. /\ step = "awaitProbe" /\ inbox' \subseteq inbox /\ UNCHANGED contacts
        /\ lingering' \in BOOLEAN /\ LingersOnlyIfFixed'
    BY <1>9, <2>4 DEF ReceiveProbe, TypeOK, LingersOnlyIfFixed, Continue, rigidVars
  <2> QED BY <1>8, <2>2, <2>3, <2>4, <2>5
<1>10. CASE UdpTimeout
  <2>1. CASE step = "awaitProbe"
    <3>1. /\ verdict' = [verdict EXCEPT !.tcpAllowsUdp = "no"] /\ Continue("udpMapping2")
          /\ UNCHANGED <<contacts, lingering, inbox>>
      BY <1>10, <2>1 DEF UdpTimeout
    <3>2. /\ verdict' \in Verdict /\ verdict'.filtering = verdict.filtering
          /\ verdict'.udpAllowsTcp = verdict.udpAllowsTcp /\ verdict'.tcpAllowsUdp = "no"
      BY <3>1 DEF TypeOK, Verdict
    <3>3. Continue(step') /\ step' \in Step
      BY <3>1, <1>steps DEF Continue, UdpStep
    <3>4. /\ inbox' \subseteq inbox /\ UNCHANGED contacts
          /\ lingering' \in BOOLEAN /\ LingersOnlyIfFixed'
      BY <3>1, <3>3 DEF TypeOK, LingersOnlyIfFixed, Continue, rigidVars
    <3> QED BY <1>8, <2>1, <3>2, <3>3, <3>4
  <2>2. CASE step \in UdpStep
    <3>1. /\ UNCHANGED <<verdict, contacts, lingering, inbox, rigidVars, results, elapsed, attempt>>
          /\ serving' = FALSE /\ step' \in {"F", "done"}
      BY <1>10, <2>2 DEF UdpTimeout, Continue, UdpStep
    <3>2. step' \in Step
      BY <3>1, <1>steps DEF Command
    <3> QED BY <2>2, <3>1, <3>2, <1>idle, <1>steps, QuietStep
            DEF TypeOK, LingersOnlyIfFixed, rigidVars
  <2> QED BY <1>10, <2>1, <2>2 DEF UdpTimeout
<1>11. CASE IcmpTest
  <2>1. PICK status \in {"Pass", "Fail", "Inconclusive"} :
          verdict' = [verdict EXCEPT !.icmp = status]
    BY <1>11 DEF IcmpTest
  <2>2. /\ step = "icmp" /\ Continue("hairpin") /\ UNCHANGED inbox
        /\ lingering' \in BOOLEAN /\ (lingering' => fixedPort)
        /\ UNCHANGED contacts \/ ConnectionGone
    BY <1>11 DEF IcmpTest, TypeOK
  <2>3. /\ verdict' \in Verdict /\ verdict'.filtering = verdict.filtering
        /\ verdict'.udpAllowsTcp = verdict.udpAllowsTcp
        /\ verdict'.tcpAllowsUdp = verdict.tcpAllowsUdp
    BY <2>1 DEF TypeOK, Verdict
  <2>4. Continue(step') /\ step' \in Step /\ LingersOnlyIfFixed'
    BY <2>2, <1>steps DEF Continue, LingersOnlyIfFixed, rigidVars
  <2> QED BY <1>8, <2>2, <2>3, <2>4 DEF CrossProbesExplained
<1>12. CASE Hairpin
  <2>1. PICK status \in {"Pass", "Fail", "Inconclusive"} :
          verdict' = [verdict EXCEPT !.hairpin = status]
    BY <1>12 DEF Hairpin
  <2>2. step = "hairpin" /\ Continue("U") /\ UNCHANGED <<contacts, lingering, inbox>>
    BY <1>12 DEF Hairpin
  <2>3. /\ verdict' \in Verdict /\ verdict'.filtering = verdict.filtering
        /\ verdict'.udpAllowsTcp = verdict.udpAllowsTcp
        /\ verdict'.tcpAllowsUdp = verdict.tcpAllowsUdp
    BY <2>1 DEF TypeOK, Verdict
  <2>4. Continue(step') /\ step' \in Step /\ LingersOnlyIfFixed' /\ lingering' \in BOOLEAN
    BY <2>2, <1>steps DEF Continue, LingersOnlyIfFixed, rigidVars, Command, TypeOK
  <2> QED BY <1>8, <2>2, <2>3, <2>4 DEF CrossProbesExplained
<1>13. ASSUME NEW m \in inbox, Lose(m) PROVE IInv'
  BY <1>13 DEF Lose, commandVars, rigidVars, TypeOK, IdleHasNoResults, ElapsedByProbe,
               ResultsExplained, PrimaryOnly, InboxExplained, LingersOnlyIfFixed,
               FilteringSound, CrossProbesExplained, Disturbed, CrossesPorts, Admits, Target
<1> QED BY <1>stutter, <1>1, <1>2, <1>3, <1>4, <1>5, <1>6, <1>7, <1>9, <1>10, <1>11, <1>12, <1>13
        DEF Next, Test, Over

LEMMA Invariance == Spec => []IInv
BY Initially, Stepwise, PTL DEF Spec

-----------------------------------------------------------------------------
(* The theorems. *)

\* run_rfc5382_tests: no timing and no loss makes the TCP filter look more open
\* than it is.
THEOREM FilterNeverLooksOpener == Spec => []FilteringSound
BY Invariance, PTL DEF IInv

\* probe_tcp_mapping_allows_udp, probe_udp_mapping_allows_tcp: a packet that is
\* said to cross over has done so.
THEOREM CrossingIsReal == Spec => []CrossProbesExplained
BY Invariance, PTL DEF IInv

\* The network, the NAT and the client's port stay what they are.
LEMMA StepRigid == [Next]_vars => UNCHANGED <<nat, fixedPort, timely>>
<1> SUFFICES ASSUME [Next]_vars PROVE UNCHANGED rigidVars
  BY DEF rigidVars
<1>1. CASE Discover \/ Send \/ ProbeBack \/ SendUdpMapping
  BY <1>1 DEF Discover, Send, ProbeBack, SendUdpMapping
<1>2. CASE Answer \/ CommandFails
  BY <1>2 DEF Answer, CommandFails
<1>3. CASE UdpTimeout \/ IcmpTest \/ Hairpin
  BY <1>3 DEF UdpTimeout, IcmpTest, Hairpin, Continue
<1>4. ASSUME NEW m, ReceiveUdpMapping(m) \/ ReceiveProbe(m) \/ Lose(m) PROVE UNCHANGED rigidVars
  BY <1>4 DEF ReceiveUdpMapping, ReceiveProbe, Lose, Continue
<1>5. CASE UNCHANGED vars
  BY <1>5 DEF vars
<1> QED BY <1>1, <1>2, <1>3, <1>4, <1>5 DEF Next, Test, Over

\* In a timely run only a command that cannot be sent or is not answered in time
\* breaks the test off.
LEMMA OnlyCommandsAbort ==
  ASSUME [Next]_vars, timely, step' = "aborted"
  PROVE  Send \/ CommandFails \/ (step = "aborted" /\ UNCHANGED lingering)
<1>1. CASE Discover \/ ProbeBack \/ SendUdpMapping
  BY <1>1 DEF Discover, ProbeBack, SendUdpMapping
<1>2. CASE Answer
  BY <1>2 DEF Answer
<1>3. CASE UdpTimeout \/ IcmpTest \/ Hairpin
  BY <1>3 DEF UdpTimeout, IcmpTest, Hairpin, Continue
<1>4. ASSUME NEW m, ReceiveUdpMapping(m) \/ ReceiveProbe(m) PROVE FALSE
  BY <1>4 DEF ReceiveUdpMapping, ReceiveProbe, Continue
<1>5. CASE \E m \in inbox : Lose(m)
  BY <1>5 DEF Lose
<1>6. CASE UNCHANGED vars
  BY <1>6 DEF vars
<1> QED BY <1>1, <1>2, <1>3, <1>4, <1>5, <1>6 DEF Next, Test, Over

\* handle_stream_client's F and S: with a client timeout that covers two probes
\* and the delay, a good network breaks the test off only on a fixed local port.
THEOREM EnoughTimeForTwoProbes ==
  ASSUME 2 * ProbeTimeout + SynDelay <= ClientTimeout
  PROVE  Spec => []BreaksOffOnlyOnOwnConnection
<1>1. Init => BreaksOffOnlyOnOwnConnection
  BY DEF Init, BreaksOffOnlyOnOwnConnection
<1>2. IInv /\ BreaksOffOnlyOnOwnConnection /\ [Next]_vars => BreaksOffOnlyOnOwnConnection'
  <2> SUFFICES ASSUME IInv, BreaksOffOnlyOnOwnConnection, [Next]_vars,
                      timely', step' = "aborted"
               PROVE  fixedPort' /\ lingering'
    BY DEF BreaksOffOnlyOnOwnConnection
  <2>1. timely /\ fixedPort' = fixedPort
    BY StepRigid
  <2>2. elapsed <= ClientTimeout
    BY DEF IInv, TypeOK
  <2>3. CASE Send
    BY <2>1, <2>3 DEF Send, IInv, LingersOnlyIfFixed, Command
  <2>4. CASE CommandFails
    <3>1. elapsed > ClientTimeout /\ elapsed \in Int
      BY <2>1, <2>4 DEF CommandFails, IInv, TypeOK
    <3> QED BY <2>2, <3>1, Numbers
  <2>5. CASE step = "aborted" /\ UNCHANGED lingering
    BY <2>1, <2>5 DEF BreaksOffOnlyOnOwnConnection
  <2> QED BY <2>1, <2>3, <2>4, <2>5, OnlyCommandsAbort
<1> QED BY <1>1, <1>2, Invariance, PTL DEF Spec

-----------------------------------------------------------------------------
(* The verdicts where nothing is lost or late: what this takes beyond IInv. *)

\* The steps that come after a command or probe, in the order of the test.
AfterC == {"done"}
AfterProbe == {"udpMapping2", "C"} \cup AfterC
AfterHairpin == {"U", "awaitProbe"} \cup AfterProbe
AfterIcmp == {"hairpin"} \cup AfterHairpin
AfterS == {"icmp"} \cup AfterIcmp
AfterF == {"S"} \cup AfterS
AfterUdp == {"F"} \cup AfterF

\* The NAT knows what has been sent from X to the primary.
ContactsMade ==
  /\ serving => step \in Command \cup UdpStep
  /\ serving /\ step \in Command => <<"tcp", "primary">> \in contacts
  /\ step \in AfterUdp \/ (step \in UdpStep /\ serving) => <<"udp", "primary">> \in contacts

\* A connection back fails only if it is not admitted.
ResultsComplete ==
  \A i \in 1..Len(results) : results[i] <=> Admits("tcp", Target, Probes(step)[i])

\* At X there is what the step waits for, and nothing of an earlier one.
InboxTimely ==
  step # "aborted" =>
    inbox = IF step \in UdpStep /\ serving THEN {"mapped"}
            ELSE IF step = "awaitProbe" /\ CrossesPorts("udp") THEN {"probe"} ELSE {}

LearntInTime ==
  /\ step \in AfterF => verdict.filtering = nat.tcp
  /\ step \in AfterS => /\ verdict.simultaneousOpen = Status(nat.tcp = "EndpointIndependent")
                        /\ verdict.unexpectedSyn = Status(nat.tcp # "AddressAndPortDependent")
  /\ step \in AfterIcmp => verdict.icmp = Status(~ nat.icmpKills)
  /\ step \in AfterHairpin => verdict.hairpin = Status(nat.hairpins /\ nat.keeps)
  /\ step \in AfterProbe => verdict.tcpAllowsUdp = Flag(CrossesPorts("udp"))
  /\ step \in AfterC => verdict.udpAllowsTcp = Flag(CrossesPorts("tcp"))

TimelyInv ==
  timely /\ ~ Disturbed => ContactsMade /\ ResultsComplete /\ InboxTimely /\ LearntInTime

\* What a timely run can still find out is not disturbed on the way.
LEMMA DisturbedStays == IInv /\ [Next]_vars => Disturbed' = Disturbed
<1> SUFFICES ASSUME IInv, [Next]_vars PROVE Disturbed' = Disturbed
  OBVIOUS
<1>1. nat' = nat
  BY StepRigid
<1>2. <<"udp", "secondary">> \in contacts' <=> <<"udp", "secondary">> \in contacts
  <2>1. CASE ConnectionGone \/ UNCHANGED contacts
    BY <2>1 DEF ConnectionGone
  <2>2. CASE Send \/ SendUdpMapping
    BY <2>2 DEF Send, SendUdpMapping, Abort, ConnectionGone
  <2>3. CASE ~ Send /\ ~ SendUdpMapping
    BY <2>1, <2>3 DEF Next, Test, vars, Over, Discover, ProbeBack, Answer, CommandFails, Abort, UdpTimeout,
       IcmpTest, Hairpin, ReceiveUdpMapping, ReceiveProbe, Lose
  <2> QED BY <2>2, <2>3
<1> QED BY <1>1, <1>2 DEF Disturbed

\* Where the contacts are made, the filter admits what its kind says.
LEMMA AdmittedInTime ==
  ASSUME IInv, ~ Disturbed
  PROVE  /\ <<"tcp", "primary">> \in contacts =>
              /\ Admits("tcp", "tcp", "primary") <=> nat.tcp # "AddressAndPortDependent"
              /\ Admits("tcp", "tcp", "secondary") <=> nat.tcp = "EndpointIndependent"
              /\ Admits("tcp", "udp", "primary") <=> CrossesPorts("tcp")
         /\ <<"udp", "primary">> \in contacts =>
              (CrossesPorts("udp") <=> Admits("udp", "tcp", "primary"))
<1>0. TypeOK /\ PrimaryOnly /\ nat.tcp \in Dependence /\ nat.udp \in Dependence
  BY DEF IInv, TypeOK, NatBehavior
<1>1. ASSUME <<"tcp", "primary">> \in contacts
      PROVE  Admits("tcp", "tcp", "primary") <=> nat.tcp # "AddressAndPortDependent"
  <2> DEFINE c == <<"tcp", "primary">>
  <2>1. c \in contacts /\ c[1] = "tcp" /\ c[2] = "primary"
    BY <1>1
  <2>2. nat.tcp # "AddressAndPortDependent" => Admits("tcp", "tcp", "primary")
    BY <2>1, <1>0 DEF Admits, Dependence
  <2> QED BY <2>2, <1>0, AdmittedPrimary
<1>2. ASSUME <<"tcp", "primary">> \in contacts
      PROVE  Admits("tcp", "tcp", "secondary") <=> nat.tcp = "EndpointIndependent"
  <2> DEFINE c == <<"tcp", "primary">>
  <2>1. c \in contacts /\ c[1] = "tcp" /\ c[2] = "primary"
    BY <1>2
  <2>2. nat.tcp = "EndpointIndependent" => Admits("tcp", "tcp", "secondary")
    BY <2>1 DEF Admits
  <2> QED BY <2>2, <1>0, AdmittedSecondary
<1>3. ASSUME <<"tcp", "primary">> \in contacts
      PROVE  Admits("tcp", "udp", "primary") <=> CrossesPorts("tcp")
  <2> DEFINE c == <<"tcp", "primary">>
  <2>1. c \in contacts /\ c[1] = "tcp" /\ c[2] = "primary"
    BY <1>3
  <2>2. CrossesPorts("tcp") => Admits("tcp", "udp", "primary")
    BY <2>1, <1>0 DEF Admits, Dependence, CrossesPorts
  <2> QED BY <2>2, <1>0, AdmittedAcross
<1>4. ASSUME <<"udp", "primary">> \in contacts
      PROVE  Admits("udp", "tcp", "primary") <=> CrossesPorts("udp")
  <2> DEFINE c == <<"udp", "primary">>
  <2>1. c \in contacts /\ c[1] = "udp" /\ c[2] = "primary"
    BY <1>4
  <2>2. CrossesPorts("udp") => Admits("udp", "tcp", "primary")
    BY <2>1, <1>0 DEF Admits, Dependence, CrossesPorts
  <2> QED BY <2>2, <1>0, AdmittedAcross
<1> QED BY <1>1, <1>2, <1>3, <1>4

LEMMA TimelyStep == IInv /\ IInv' /\ TimelyInv /\ [Next]_vars => TimelyInv'
<1> SUFFICES ASSUME IInv, IInv', TimelyInv, [Next]_vars, timely, ~ Disturbed
             PROVE  (ContactsMade /\ ResultsComplete /\ InboxTimely /\ LearntInTime)'
  BY StepRigid, DisturbedStays DEF TimelyInv
<1>had. ContactsMade /\ ResultsComplete /\ InboxTimely /\ LearntInTime
  BY DEF TimelyInv
<1>rigid. UNCHANGED <<nat, fixedPort, timely>> /\ \A p : CrossesPorts(p)' = CrossesPorts(p)
  BY StepRigid DEF CrossesPorts
<1>steps. /\ \A s \in Command : s \notin UdpStep
          /\ \A s \in UdpStep \cup Command : s \notin {"icmp", "hairpin", "awaitProbe", "done", "aborted", "discover"}
  BY DEF Command, UdpStep
<1>order. /\ AfterC = {"done"} /\ AfterProbe = {"udpMapping2", "C", "done"}
          /\ AfterHairpin = {"U", "awaitProbe", "udpMapping2", "C", "done"}
          /\ AfterIcmp = {"hairpin", "U", "awaitProbe", "udpMapping2", "C", "done"}
          /\ AfterS = {"icmp", "hairpin", "U", "awaitProbe", "udpMapping2", "C", "done"}
          /\ AfterF = {"S", "icmp", "hairpin", "U", "awaitProbe", "udpMapping2", "C", "done"}
          /\ AfterUdp = {"F", "S", "icmp", "hairpin", "U", "awaitProbe", "udpMapping2", "C", "done"}
  BY DEF AfterC, AfterProbe, AfterHairpin, AfterIcmp, AfterS, AfterF, AfterUdp
<1>idle. ~ serving \/ step \notin Command => results = <<>>
  BY DEF IInv, IdleHasNoResults
<1>gone. ConnectionGone => \A c \in contacts : c[1] # "tcp" => c \in contacts'
  BY DEF ConnectionGone
<1>none. results' = <<>> => ResultsComplete'
  BY DEF ResultsComplete
<1>abort. ASSUME step' = "aborted", serving' = FALSE, results' = <<>>
          PROVE  (ContactsMade /\ ResultsComplete /\ InboxTimely /\ LearntInTime)'
  BY <1>abort, <1>none, <1>order DEF ContactsMade, InboxTimely, LearntInTime, UdpStep
<1>1. CASE UNCHANGED vars \/ Over
  <2>1. UNCHANGED <<nat, contacts, inbox, step, serving, results, verdict>>
    BY <1>1 DEF vars, Over, rigidVars, commandVars
  <2>2. ResultsComplete'
    BY <2>1, <1>had DEF ResultsComplete, Admits, Target
  <2> QED BY <2>1, <2>2, <1>had DEF ContactsMade, InboxTimely, LearntInTime, CrossesPorts
<1>2. CASE Discover
  <2>1. step = "discover" /\ step' = "M" /\ UNCHANGED <<contacts, inbox, serving, results, verdict>>
    BY <1>2 DEF Discover, commandVars
  <2>2. results' = <<>> /\ inbox = {}
    BY <2>1, <1>idle, <1>had, <1>steps DEF InboxTimely, Command, UdpStep
  <2>3. ~ serving
    BY <2>1, <1>had, <1>steps DEF ContactsMade
  <2>4. ContactsMade' /\ LearntInTime'
    BY <2>1, <2>3, <1>order DEF ContactsMade, LearntInTime, UdpStep
  <2>5. InboxTimely'
    BY <2>1, <2>2, <2>3 DEF InboxTimely
  <2> QED BY <2>2, <2>4, <2>5, <1>none
<1>3. CASE Send
  <2>1. CASE Abort
    BY <2>1, <1>abort DEF Abort
  <2>2. CASE ~ Abort
    <3>1. /\ step \in Command /\ ~ serving /\ step' = step /\ serving' = TRUE
          /\ contacts' = contacts \cup {<<"tcp", "primary">>} /\ UNCHANGED <<inbox, results, verdict>>
      BY <1>3, <2>2 DEF Send
    <3>2. results' = <<>>
      BY <3>1, <1>idle
    <3>3. ContactsMade' /\ LearntInTime'
      BY <3>1, <1>had, <1>rigid, <1>steps DEF ContactsMade, LearntInTime
    <3>4. InboxTimely'
      BY <3>1, <1>had, <1>rigid, <1>steps DEF InboxTimely
    <3> QED BY <3>2, <3>3, <3>4, <1>none
  <2> QED BY <2>1, <2>2
<1>4. CASE ProbeBack
  <2> DEFINE n == Len(results)
  <2>1. /\ UNCHANGED <<contacts, inbox, step, serving, verdict>> /\ step \in Command
    BY <1>4 DEF ProbeBack
  <2>2. PICK ok \in BOOLEAN : /\ ok <=> Admits("tcp", Target, Probes(step)[n + 1])
                              /\ results' = Append(results, ok)
    BY <1>4 DEF ProbeBack
  <2>3. /\ results \in Seq(BOOLEAN) /\ n \in Nat /\ Len(results') = n + 1
        /\ \A i \in 1..n : results'[i] = results[i]
        /\ results'[n + 1] = ok
    BY <2>2 DEF IInv, TypeOK
  <2>4. ResultsComplete'
    <3> SUFFICES ASSUME NEW i \in 1..Len(results')
                 PROVE  results'[i] <=> Admits("tcp", Target, Probes(step)[i])'
      BY DEF ResultsComplete
    <3>1. results'[i] <=> Admits("tcp", Target, Probes(step)[i])
      <4>1. CASE i = n + 1
        BY <2>2, <2>3, <4>1
      <4>2. CASE i \in 1..n
        BY <2>3, <4>2, <1>had DEF ResultsComplete
      <4> QED BY <2>3, <4>1, <4>2
    <3>2. (Admits("tcp", Target, Probes(step)[i])') <=> Admits("tcp", Target, Probes(step)[i])
      BY <2>1, <1>rigid DEF Admits, Target
    <3> QED BY <3>1, <3>2
  <2>5. ContactsMade' /\ LearntInTime' /\ InboxTimely'
    BY <2>1, <1>had, <1>rigid DEF ContactsMade, LearntInTime, InboxTimely
  <2> QED BY <2>4, <2>5
<1>5. CASE Answer
  <2>1. /\ step \in Command /\ serving /\ Len(results) = Len(Probes(step))
        /\ serving' = FALSE /\ results' = <<>> /\ ConnectionGone
    BY <1>5 DEF Answer
  <2>2. /\ step = "M" => step' = "udpMapping" /\ UNCHANGED <<inbox, verdict>>
        /\ step = "F" => /\ step' = "S" /\ inbox' = inbox
                         /\ verdict' = [verdict EXCEPT !.filtering = Filtering(results[1], results[2])]
        /\ step = "S" => /\ step' = "icmp" /\ inbox' = inbox
                         /\ verdict' = [verdict EXCEPT !.simultaneousOpen = Status(results[1]),
                                                       !.unexpectedSyn    = Status(results[2])]
        /\ step = "U" => /\ step' = "awaitProbe" /\ verdict' = verdict
                         /\ inbox' = inbox \cup IF Admits("udp", "tcp", "primary") THEN {"probe"} ELSE {}
        /\ step = "C" => /\ step' = "done" /\ inbox' = inbox
                         /\ verdict' = [verdict EXCEPT !.udpAllowsTcp = Flag(results[1])]
    BY <1>5 DEF Answer
  <2>3. inbox = {} /\ <<"tcp", "primary">> \in contacts
    BY <2>1, <1>had, <1>steps DEF InboxTimely, ContactsMade
  <2>4. ContactsMade'
    BY <2>1, <2>2, <1>had, <1>gone, <1>order DEF ContactsMade, Command, UdpStep
  <2>5. InboxTimely'
    <3>1. step = "U" => (Admits("udp", "tcp", "primary") <=> CrossesPorts("udp"))
      BY <1>had, <1>order, AdmittedInTime DEF ContactsMade
    <3> QED BY <2>1, <2>2, <2>3, <3>1, <1>rigid DEF InboxTimely, Command, UdpStep
  <2>6. LearntInTime'
    <3>0. verdict \in Verdict
      BY DEF IInv, TypeOK
    <3>1. CASE step = "M"
      BY <2>2, <3>1, <1>order DEF LearntInTime
    <3>2. CASE step = "F"
      <4>1. /\ results[1] <=> nat.tcp # "AddressAndPortDependent"
            /\ results[2] <=> nat.tcp = "EndpointIndependent"
        BY <2>1, <2>3, <3>2, <1>had, ProbesLength, AdmittedInTime DEF ResultsComplete, Target
      <4>2. Filtering(results[1], results[2]) = nat.tcp
        BY <4>1 DEF Filtering, IInv, TypeOK, NatBehavior, Dependence
      <4>3. verdict'.filtering = nat.tcp /\ step' = "S"
        BY <2>2, <3>0, <3>2, <4>2 DEF Verdict
      <4> QED BY <4>3, <1>rigid, <1>order DEF LearntInTime
    <3>3. CASE step = "S"
      <4>1. /\ results[2] <=> nat.tcp # "AddressAndPortDependent"
            /\ results[1] <=> nat.tcp = "EndpointIndependent"
        BY <2>1, <2>3, <3>3, <1>had, ProbesLength, AdmittedInTime DEF ResultsComplete, Target, Probes
      <4>2. /\ step' = "icmp" /\ verdict'.filtering = verdict.filtering
            /\ verdict'.simultaneousOpen = Status(results[1]) /\ verdict'.unexpectedSyn = Status(results[2])
        BY <2>2, <3>0, <3>3 DEF Verdict
      <4> QED BY <3>3, <4>1, <4>2, <1>had, <1>rigid, <1>order DEF LearntInTime, Status
    <3>4. CASE step = "U"
      BY <2>2, <3>4, <1>had, <1>rigid, <1>order DEF LearntInTime
    <3>5. CASE step = "C"
      <4>1. results[1] <=> CrossesPorts("tcp")
        BY <2>1, <2>3, <3>5, <1>had, ProbesLength, AdmittedInTime DEF ResultsComplete, Target
      <4>2. /\ step' = "done" /\ verdict'.udpAllowsTcp = Flag(results[1])
            /\ verdict'.filtering = verdict.filtering
            /\ verdict'.simultaneousOpen = verdict.simultaneousOpen
            /\ verdict'.unexpectedSyn = verdict.unexpectedSyn /\ verdict'.icmp = verdict.icmp
            /\ verdict'.hairpin = verdict.hairpin /\ verdict'.tcpAllowsUdp = verdict.tcpAllowsUdp
        BY <2>2, <3>0, <3>5 DEF Verdict
      <4> QED BY <3>5, <4>1, <4>2, <1>had, <1>rigid, <1>order DEF LearntInTime, Flag
    <3> QED BY <2>1, <3>1, <3>2, <3>3, <3>4, <3>5 DEF Command
  <2> QED BY <2>1, <2>4, <2>5, <2>6, <1>none
<1>6. CASE CommandFails
  BY <1>6, <1>abort DEF CommandFails, Abort
<1>7. CASE SendUdpMapping
  <2>1. /\ step \in UdpStep /\ ~ serving /\ serving' = TRUE /\ step' = step
        /\ contacts' = contacts \cup {<<"udp", "primary">>} /\ inbox' = inbox \cup {"mapped"}
        /\ UNCHANGED <<results, verdict>>
    BY <1>7 DEF SendUdpMapping
  <2>2. inbox = {}
    BY <2>1, <1>had, <1>steps DEF InboxTimely
  <2>3. InboxTimely' /\ ContactsMade'
    BY <2>1, <2>2, <1>had, <1>steps DEF InboxTimely, ContactsMade
  <2>4. LearntInTime' /\ ResultsComplete'
    BY <2>1, <1>had, <1>idle, <1>none, <1>rigid DEF LearntInTime
  <2> QED BY <2>3, <2>4
<1>8. ASSUME NEW m \in inbox, ReceiveUdpMapping(m)
      PROVE  (ContactsMade /\ ResultsComplete /\ InboxTimely /\ LearntInTime)'
  <2>1. /\ step \in UdpStep /\ serving /\ inbox' = inbox \ {m} /\ UNCHANGED <<contacts, verdict, results>>
        /\ step' = IF step = "udpMapping" THEN "F" ELSE IF m = "mapped" THEN "C" ELSE "done"
        /\ serving' = FALSE
    BY <1>8 DEF ReceiveUdpMapping, Continue
  <2>2. inbox = {"mapped"}
    BY <2>1, <1>had, <1>steps DEF InboxTimely
  <2>3. m = "mapped" /\ inbox' = {} /\ step' = IF step = "udpMapping" THEN "F" ELSE "C"
    BY <1>8, <2>1, <2>2
  <2>4. InboxTimely' /\ ContactsMade'
    BY <2>1, <2>3, <1>had DEF InboxTimely, ContactsMade
  <2>5. LearntInTime'
    BY <2>1, <2>3, <1>had, <1>rigid, <1>order DEF LearntInTime, UdpStep
  <2> QED BY <2>1, <2>4, <2>5, <1>idle, <1>none, <1>steps
<1>9. ASSUME NEW m \in inbox, ReceiveProbe(m)
      PROVE  (ContactsMade /\ ResultsComplete /\ InboxTimely /\ LearntInTime)'
  <2>1. /\ step = "awaitProbe" /\ inbox' = inbox \ {m} /\ UNCHANGED <<contacts, results>>
        /\ verdict' = [verdict EXCEPT !.tcpAllowsUdp = Flag(m = "probe")]
        /\ step' = "udpMapping2" /\ serving' = FALSE
    BY <1>9 DEF ReceiveProbe, Continue
  <2>2. m = "probe" /\ CrossesPorts("udp") /\ inbox' = {}
    BY <1>9, <2>1, <1>had, <1>steps DEF InboxTimely, UdpStep
  <2>3. InboxTimely' /\ ContactsMade'
    BY <2>1, <2>2, <1>had, <1>order DEF InboxTimely, ContactsMade, Command
  <2>4. LearntInTime'
    <3>1. /\ verdict'.tcpAllowsUdp = Flag(CrossesPorts("udp"))
          /\ verdict'.filtering = verdict.filtering
          /\ verdict'.simultaneousOpen = verdict.simultaneousOpen
          /\ verdict'.unexpectedSyn = verdict.unexpectedSyn /\ verdict'.icmp = verdict.icmp
          /\ verdict'.hairpin = verdict.hairpin
      BY <2>1, <2>2 DEF IInv, TypeOK, Verdict, Flag
    <3> QED BY <2>1, <3>1, <1>had, <1>rigid, <1>order DEF LearntInTime
  <2> QED BY <2>1, <2>3, <2>4, <1>idle, <1>none, <1>steps
<1>10. CASE UdpTimeout
  <2>1. inbox = {} /\ step = "awaitProbe"
    BY <1>10, <1>had, <1>steps DEF UdpTimeout, InboxTimely
  <2>2. /\ inbox' = inbox /\ UNCHANGED <<contacts, results>>
        /\ verdict' = [verdict EXCEPT !.tcpAllowsUdp = "no"]
        /\ step' = "udpMapping2" /\ serving' = FALSE
    BY <1>10, <2>1 DEF UdpTimeout, Continue
  <2>3. ~ CrossesPorts("udp")
    BY <2>1, <1>had, <1>steps DEF InboxTimely, UdpStep
  <2>4. InboxTimely' /\ ContactsMade'
    BY <2>1, <2>2, <1>had, <1>order DEF InboxTimely, ContactsMade, Command
  <2>5. LearntInTime'
    <3>1. /\ verdict'.tcpAllowsUdp = Flag(CrossesPorts("udp"))
          /\ verdict'.filtering = verdict.filtering
          /\ verdict'.simultaneousOpen = verdict.simultaneousOpen
          /\ verdict'.unexpectedSyn = verdict.unexpectedSyn /\ verdict'.icmp = verdict.icmp
          /\ verdict'.hairpin = verdict.hairpin
      BY <2>2, <2>3 DEF IInv, TypeOK, Verdict, Flag
    <3> QED BY <2>1, <2>2, <3>1, <1>had, <1>rigid, <1>order DEF LearntInTime
  <2> QED BY <2>1, <2>2, <2>4, <2>5, <1>idle, <1>none, <1>steps
<1>11. CASE IcmpTest
  <2>1. /\ step = "icmp" /\ step' = "hairpin" /\ serving' = FALSE /\ UNCHANGED <<inbox, results>>
        /\ verdict' = [verdict EXCEPT !.icmp = Status(~ nat.icmpKills)]
        /\ UNCHANGED contacts \/ ConnectionGone
    BY <1>11 DEF IcmpTest, Continue
  <2>2. InboxTimely' /\ ContactsMade'
    BY <2>1, <1>had, <1>gone, <1>order, <1>steps DEF InboxTimely, ContactsMade, UdpStep
  <2>3. LearntInTime'
    <3>1. /\ verdict'.icmp = Status(~ nat.icmpKills) /\ verdict'.filtering = verdict.filtering
          /\ verdict'.simultaneousOpen = verdict.simultaneousOpen
          /\ verdict'.unexpectedSyn = verdict.unexpectedSyn
      BY <2>1 DEF IInv, TypeOK, Verdict
    <3> QED BY <2>1, <3>1, <1>had, <1>rigid, <1>order DEF LearntInTime
  <2> QED BY <2>1, <2>2, <2>3, <1>idle, <1>none, <1>steps
<1>12. CASE Hairpin
  <2>1. /\ step = "hairpin" /\ step' = "U" /\ serving' = FALSE /\ UNCHANGED <<contacts, inbox, results>>
        /\ verdict' = [verdict EXCEPT !.hairpin = Status(nat.hairpins /\ nat.keeps)]
    BY <1>12 DEF Hairpin, Continue
  <2>2. InboxTimely' /\ ContactsMade'
    BY <2>1, <1>had, <1>order, <1>steps DEF InboxTimely, ContactsMade, UdpStep
  <2>3. LearntInTime'
    <3>1. /\ verdict'.icmp = verdict.icmp /\ verdict'.filtering = verdict.filtering
          /\ verdict'.simultaneousOpen = verdict.simultaneousOpen
          /\ verdict'.unexpectedSyn = verdict.unexpectedSyn
          /\ verdict'.hairpin = Status(nat.hairpins /\ nat.keeps)
      BY <2>1 DEF IInv, TypeOK, Verdict
    <3> QED BY <2>1, <3>1, <1>had, <1>rigid, <1>order DEF LearntInTime
  <2> QED BY <2>1, <2>2, <2>3, <1>idle, <1>none, <1>steps
<1>13. ASSUME NEW m \in inbox, Lose(m) PROVE FALSE
  BY <1>13 DEF Lose
<1> QED BY <1>1, <1>2, <1>3, <1>4, <1>5, <1>6, <1>7, <1>8, <1>9, <1>10, <1>11, <1>12, <1>13 DEF Next, Test

\* In a finished test of run_rfc5382_tests on a network that loses and delays
\* nothing, every verdict is what the NAT does, for each of the NATs and each
\* timing, unless the mapping test before it has opened the NAT to the secondary.
THEOREM TimelyExactness == Spec => []TimelyTestIsExact
<1>1. Init => TimelyInv
  BY DEF Init, TimelyInv, ContactsMade, ResultsComplete, InboxTimely, LearntInTime, UdpStep,
     AfterC, AfterProbe, AfterHairpin, AfterIcmp, AfterS, AfterF, AfterUdp
<1>2. IInv /\ TimelyInv => TimelyTestIsExact
  <2> SUFFICES ASSUME IInv, TimelyInv, timely, step = "done", ~ Disturbed
               PROVE  verdict = [filtering        |-> nat.tcp,
                                 simultaneousOpen |-> Status(nat.tcp = "EndpointIndependent"),
                                 unexpectedSyn    |-> Status(nat.tcp # "AddressAndPortDependent"),
                                 icmp             |-> Status(~ nat.icmpKills),
                                 hairpin          |-> Status(nat.hairpins /\ nat.keeps),
                                 tcpAllowsUdp     |-> Flag(CrossesPorts("udp")),
                                 udpAllowsTcp     |-> Flag(CrossesPorts("tcp"))]
    BY DEF TimelyTestIsExact
  <2>1. LearntInTime
    BY DEF TimelyInv
  <2>2. verdict \in Verdict
    BY DEF IInv, TypeOK
  <2>3. /\ verdict.filtering = nat.tcp
        /\ verdict.simultaneousOpen = Status(nat.tcp = "EndpointIndependent")
        /\ verdict.unexpectedSyn = Status(nat.tcp # "AddressAndPortDependent")
        /\ verdict.icmp = Status(~ nat.icmpKills)
        /\ verdict.hairpin = Status(nat.hairpins /\ nat.keeps)
        /\ verdict.tcpAllowsUdp = Flag(CrossesPorts("udp"))
        /\ verdict.udpAllowsTcp = Flag(CrossesPorts("tcp"))
    BY <2>1 DEF LearntInTime, AfterC, AfterProbe, AfterHairpin, AfterIcmp, AfterS, AfterF
  <2> QED BY <2>2, <2>3 DEF Verdict
<1>3. IInv /\ IInv' /\ TimelyInv /\ [Next]_vars => TimelyInv'
  BY TimelyStep
<1> QED BY <1>1, <1>2, <1>3, Invariance, PTL DEF Spec
=============================================================================
