------------------------------- MODULE Rfc5382 -------------------------------
(***************************************************************************)
(* The RFC 5382 TCP test (run_rfc5382_tests, src/tests/rfc5382_test.cpp)   *)
(* with the server threads that serve its commands (handle_stream_client,  *)
(* src_ser/main.cpp).  The client listens on a TCP port X.  Each command   *)
(* goes over a connection of its own, from X to the primary server, whose  *)
(* thread then connects or sends back to the client's outside endpoint.    *)
(*                                                                         *)
(* Every connection back leaves from a fresh port, so of a filter only     *)
(* its dependence on the remote's address shows.  Time is counted within a *)
(* command, from its sending, in ms.  In a timely run nothing is lost or   *)
(* late, and the server can send its ICMP errors.                          *)
(***************************************************************************)
EXTENDS Integers, Sequences

CONSTANTS
  ClientTimeout,   \* --timeout-ms, 3000 by default
  ProbeTimeout,    \* the server's probe-timeout-ms
  SynDelay,        \* the server's syn-delay-ms
  MaxRetries       \* of discover_custom_servers, 3

ASSUME Timing ==
  /\ {ClientTimeout, ProbeTimeout, SynDelay} \subseteq Nat
  /\ MaxRetries \in Nat \ {0}

VARIABLES
  nat, fixedPort, timely,  \* never change
  contacts,      \* what keeps the NAT's mappings of X: in which protocol, to which host
  lingering,     \* the client's kernel holds X's last connection to the primary
  inbox,         \* datagrams on their way to, or waiting at, UDP port X
  step,          \* where the test is
  serving,       \* a command or a datagram has been sent and is not yet answered
  results,       \* what the server's probes for it have found
  elapsed,       \* how long it has been served
  attempt,       \* of discover_custom_servers
  verdict        \* the fields of Rfc5382TcpResult

rigidVars == <<nat, fixedPort, timely>>
commandVars == <<serving, results, elapsed>>
vars == <<rigidVars, contacts, lingering, inbox, step, commandVars, attempt, verdict>>

Dependence == {"EndpointIndependent", "AddressDependent", "AddressAndPortDependent"}

\* How the outside ports X has in TCP and in UDP relate: they differ; they have
\* the same number but filters of their own; or one mapping serves both.
Crossing == {"separate", "samePort", "shared"}

\* `keeps`: a TCP mapping survives the end of its connection.  `icmpKills`: an
\* ICMP error removes it.  `hairpins`: inside hosts reach outside endpoints.
NatBehavior == [tcp : Dependence, udp : Dependence, crossing : Crossing,
                keeps : BOOLEAN, icmpKills : BOOLEAN, hairpins : BOOLEAN]

\* Faulty variant, for mutation: S begins with the primary, like F.
ProbesInOrder(cmd) == CASE cmd \in {"F", "S"} -> <<"primary", "secondary">>
                        [] cmd = "C" -> <<"primary">>
                        [] OTHER -> <<>>

\* The server's addresses that connect back for a command, in order.
Probes(cmd) == CASE cmd = "F" -> <<"primary", "secondary">>
                 [] cmd = "S" -> <<"secondary", "primary">>
                 [] cmd = "C" -> <<"primary">>
                 [] OTHER -> <<>>

Contact == {"tcp", "udp"} \X {"primary", "secondary"}

Command == {"M", "F", "S", "U", "C"}
UdpStep == {"udpMapping", "udpMapping2"}
Step == Command \cup {"discover", "udpMapping", "icmp", "hairpin", "awaitProbe",
                      "udpMapping2", "done", "aborted"}

\* filtering_behavior and the two optional<bool> start unset.
Unset == "unset"
Verdict ==
  [filtering : Dependence \cup {Unset},
   simultaneousOpen : {"Pass", "Fail", Unset}, unexpectedSyn : {"Pass", "Fail", Unset},
   icmp : {"Pass", "Fail", "Inconclusive", Unset},
   hairpin : {"Pass", "Fail", "Inconclusive", Unset},
   tcpAllowsUdp : {"yes", "no", Unset}, udpAllowsTcp : {"yes", "no", Unset}]

TypeOK ==
  /\ nat \in NatBehavior /\ fixedPort \in BOOLEAN /\ timely \in BOOLEAN
  /\ contacts \subseteq Contact /\ lingering \in BOOLEAN
  /\ inbox \subseteq {"mapped", "probe"}
  /\ step \in Step /\ serving \in BOOLEAN
  /\ results \in Seq(BOOLEAN) /\ Len(results) <= Len(Probes(step))
  /\ elapsed \in 0 .. 2 * ProbeTimeout + SynDelay
  /\ attempt \in 1..MaxRetries
  /\ verdict \in Verdict

\* runTest has run the RFC 5780 mapping test before: with --local from this same
\* port, and then perhaps to both hosts.
Init ==
  /\ nat \in NatBehavior /\ fixedPort \in BOOLEAN /\ timely \in BOOLEAN
  /\ contacts \in {{}} \cup IF fixedPort THEN {{"udp"} \X {"primary", "secondary"}} ELSE {}
  /\ lingering = FALSE /\ inbox = {}
  /\ step = "discover" /\ attempt = 1
  /\ serving = FALSE /\ results = <<>> /\ elapsed = 0
  /\ verdict = [filtering |-> Unset, simultaneousOpen |-> Unset, unexpectedSyn |-> Unset,
                icmp |-> Unset, hairpin |-> Unset, tcpAllowsUdp |-> Unset, udpAllowsTcp |-> Unset]

-----------------------------------------------------------------------------
\* The NAT passes a packet of protocol proto, that `from` sends to the outside
\* endpoint X has in protocol `outside`, on to X.
Admits(proto, outside, from) ==
  \E c \in contacts :
    /\ c[1] = outside \/ nat.crossing # "separate"
    /\ c[1] = proto   \/ nat.crossing = "shared"
    /\ \/ nat[proto] = "EndpointIndependent"
       \/ nat[proto] = "AddressDependent" /\ from = c[2]

\* Faulty variant, for mutation: the retries are not counted.
DiscoverForever ==
  /\ step = "discover"
  /\ \/ step' = "M" /\ attempt' = 1
     \/ ~ timely /\ attempt' = (attempt % MaxRetries) + 1 /\ UNCHANGED step
  /\ UNCHANGED <<rigidVars, contacts, lingering, inbox, commandVars, verdict>>

\* discover_custom_servers: command C over UDP, without an id.  An answer that
\* is late or cannot be parsed costs an attempt.
Discover ==
  /\ step = "discover"
  /\ \/ step' = "M" /\ attempt' = 1
     \/ /\ ~ timely
        /\ IF attempt = MaxRetries THEN step' = "aborted" /\ attempt' = 1
           ELSE attempt' = attempt + 1 /\ UNCHANGED step
  /\ UNCHANGED <<rigidVars, contacts, lingering, inbox, commandVars, verdict>>

-----------------------------------------------------------------------------
(* Commands: request_tcp_command, and the thread that serves it. *)

\* What goes with the end of a connection from X: it is reset (SO_LINGER), and
\* so leaves no TIME_WAIT, but perhaps takes the NAT's mapping with it.
ConnectionGone == contacts' = IF nat.keeps THEN contacts ELSE {c \in contacts : c[1] # "tcp"}

Abort == /\ step' = "aborted" /\ serving' = FALSE /\ results' = <<>> /\ elapsed' = 0
         /\ ConnectionGone

\* socket, bind to X, connect, send.  While the kernel holds the last connection
\* of the same pair of endpoints it may refuse to connect them again: it depends
\* on the timestamps the two hosts have agreed on.
Send ==
  /\ step \in Command /\ ~ serving
  /\ \/ /\ serving' = TRUE /\ contacts' = contacts \cup {<<"tcp", "primary">>}
        /\ lingering' = FALSE
        /\ UNCHANGED <<step, results, elapsed>>
     \/ lingering /\ Abort /\ UNCHANGED lingering
  /\ UNCHANGED <<rigidVars, inbox, attempt, verdict>>

\* The endpoint the connections back are made to: the control connection's own,
\* or the UDP endpoint named by C.
Target == IF step = "C" THEN "udp" ELSE "tcp"

\* Faulty variant, for mutation: a probe waits twice the timeout.
ProbeBackPatient ==
  /\ step \in Command /\ serving /\ Len(results) < Len(Probes(step))
  /\ LET admitted == Admits("tcp", Target, Probes(step)[Len(results) + 1])
     IN  \E ok \in BOOLEAN, took \in {0, 2 * ProbeTimeout} :
           /\ ok => admitted /\ took = 0
           /\ timely /\ admitted => ok
           /\ results' = Append(results, ok)
           /\ elapsed' = elapsed + took + (IF step = "S" /\ results = <<>> THEN SynDelay ELSE 0)
  /\ UNCHANGED <<rigidVars, contacts, lingering, inbox, step, serving, attempt, verdict>>

\* try_connect_from_source: a connection the NAT drops without a word takes the
\* whole timeout.  S sleeps after its first.
ProbeBack ==
  /\ step \in Command /\ serving /\ Len(results) < Len(Probes(step))
  /\ LET admitted == Admits("tcp", Target, Probes(step)[Len(results) + 1])
     IN  \E ok \in BOOLEAN, took \in {0, ProbeTimeout} :
           /\ ok => admitted /\ took = 0
           /\ timely /\ admitted => ok
           /\ results' = Append(results, ok)
           /\ elapsed' = elapsed + took + (IF step = "S" /\ results = <<>> THEN SynDelay ELSE 0)
  /\ UNCHANGED <<rigidVars, contacts, lingering, inbox, step, serving, attempt, verdict>>

\* Faulty variant, for mutation: the primary's connection is asked first.
FilteringFromPrimary(p, s) ==
  IF p THEN "EndpointIndependent" ELSE IF s THEN "AddressDependent" ELSE "AddressAndPortDependent"

Filtering(p, s) ==
  IF s THEN "EndpointIndependent" ELSE IF p THEN "AddressDependent" ELSE "AddressAndPortDependent"

Status(ok) == IF ok THEN "Pass" ELSE "Fail"
Flag(ok) == IF ok THEN "yes" ELSE "no"

\* The answer arrives, and the client goes on to the next command.
Answer ==
  /\ step \in Command /\ serving /\ Len(results) = Len(Probes(step))
  /\ elapsed <= ClientTimeout
  /\ \/ step = "M" /\ step' = "udpMapping" /\ UNCHANGED <<inbox, verdict>>
     \/ /\ step = "F" /\ step' = "S"
        /\ verdict' = [verdict EXCEPT !.filtering = Filtering(results[1], results[2])]
        /\ UNCHANGED inbox
     \/ /\ step = "S" /\ step' = "icmp"
        /\ verdict' = [verdict EXCEPT !.simultaneousOpen = Status(results[1]),
                                      !.unexpectedSyn    = Status(results[2])]
        /\ UNCHANGED inbox
     \/ \* The datagram was sent before the answer.
        /\ step = "U" /\ step' = "awaitProbe"
        /\ inbox' = inbox \cup IF Admits("udp", "tcp", "primary") THEN {"probe"} ELSE {}
        /\ UNCHANGED verdict
     \/ /\ step = "U" /\ ~ timely /\ step' = "udpMapping2"   \* R=0: sendto failed
        /\ UNCHANGED <<inbox, verdict>>
     \/ /\ step = "C" /\ step' = "done"
        /\ verdict' = [verdict EXCEPT !.udpAllowsTcp = Flag(results[1])]
        /\ UNCHANGED inbox
  /\ serving' = FALSE /\ results' = <<>> /\ elapsed' = 0
  /\ ConnectionGone
  /\ UNCHANGED <<rigidVars, lingering, attempt>>

\* No connection, no answer in time, or no sending: the exception ends the test.
CommandFails ==
  /\ step \in Command \cup UdpStep
  /\ timely => elapsed > ClientTimeout
  /\ Abort
  /\ UNCHANGED <<rigidVars, lingering, inbox, attempt, verdict>>

-----------------------------------------------------------------------------
(* The steps between the commands. *)

Continue(s) == /\ step' = s /\ serving' = FALSE
               /\ UNCHANGED <<rigidVars, results, elapsed, attempt>>

\* request_udp_mapping, and the first half of probe_udp_mapping_allows_tcp:
\* M over UDP, from a new socket on port X.
SendUdpMapping ==
  /\ step \in UdpStep /\ ~ serving
  /\ serving' = TRUE
  /\ contacts' = contacts \cup {<<"udp", "primary">>} /\ inbox' = inbox \cup {"mapped"}
  /\ UNCHANGED <<rigidVars, lingering, step, results, elapsed, attempt, verdict>>

\* The first datagram at X is taken for the answer; a mapping that cannot be
\* read from it costs the second probe, but not the first step.
ReceiveUdpMapping(m) ==
  /\ step \in UdpStep /\ serving
  /\ inbox' = inbox \ {m}
  /\ Continue(IF step = "udpMapping" THEN "F" ELSE IF m = "mapped" THEN "C" ELSE "done")
  /\ UNCHANGED <<contacts, lingering, verdict>>

\* Faulty variant, for mutation: any datagram is taken for the probe.
ReceiveProbeUnread(m) ==
  /\ step = "awaitProbe"
  /\ inbox' = inbox \ {m}
  /\ verdict' = [verdict EXCEPT !.tcpAllowsUdp = "yes"]
  /\ Continue("udpMapping2")
  /\ UNCHANGED <<contacts, lingering>>

\* probe_tcp_mapping_allows_udp judges by the first datagram at X.
ReceiveProbe(m) ==
  /\ step = "awaitProbe"
  /\ inbox' = inbox \ {m}
  /\ verdict' = [verdict EXCEPT !.tcpAllowsUdp = Flag(m = "probe")]
  /\ Continue("udpMapping2")
  /\ UNCHANGED <<contacts, lingering>>

\* wait_for_readable times out.
UdpTimeout ==
  /\ step = "awaitProbe" \/ (step \in UdpStep /\ serving)
  /\ timely => inbox = {}
  /\ \/ step = "udpMapping"  /\ Continue("F") /\ UNCHANGED verdict
     \/ step = "udpMapping2" /\ Continue("done") /\ UNCHANGED verdict
     \/ /\ step = "awaitProbe" /\ Continue("udpMapping2")
        /\ verdict' = [verdict EXCEPT !.tcpAllowsUdp = "no"]
  /\ UNCHANGED <<contacts, lingering, inbox>>

\* run_server_assisted_tcp_icmp_test: M, I and M over one connection, which is
\* bound to --local and closed in the ordinary way.
IcmpTest ==
  /\ step = "icmp"
  /\ \E connected \in BOOLEAN, status \in {"Pass", "Fail", "Inconclusive"} :
       /\ status = "Pass" => connected /\ ~ nat.icmpKills
       /\ timely => connected /\ status = Status(~ nat.icmpKills)
       /\ verdict' = [verdict EXCEPT !.icmp = status]
       /\ lingering' = (connected /\ fixedPort)
       /\ IF connected /\ fixedPort THEN ConnectionGone ELSE UNCHANGED contacts
  /\ Continue("hairpin")
  /\ UNCHANGED inbox

\* run_tcp_hairpin_probe learns an outside endpoint over a connection from a
\* fresh port, closes that, and connects to the endpoint.
Hairpin ==
  /\ step = "hairpin"
  /\ \E status \in {"Pass", "Fail", "Inconclusive"} :
       /\ status = "Pass" => nat.hairpins /\ nat.keeps
       /\ timely => status = Status(nat.hairpins /\ nat.keeps)
       /\ verdict' = [verdict EXCEPT !.hairpin = status]
  /\ Continue("U")
  /\ UNCHANGED <<contacts, lingering, inbox>>

\* A datagram is lost, or comes when no socket is bound to X.
Lose(m) ==
  /\ ~ timely
  /\ inbox' = inbox \ {m}
  /\ UNCHANGED <<rigidVars, contacts, lingering, step, commandVars, attempt, verdict>>

Over == step \in {"done", "aborted"} /\ UNCHANGED vars

Test == \/ Discover \/ Send \/ ProbeBack \/ Answer \/ CommandFails
        \/ SendUdpMapping \/ UdpTimeout \/ IcmpTest \/ Hairpin
        \/ \E m \in inbox : ReceiveUdpMapping(m) \/ ReceiveProbe(m)

Next == Test \/ Over \/ \E m \in inbox : Lose(m)

Spec == Init /\ [][Next]_vars

\* The client and the server thread run, and all their waits have a limit.
FairSpec == Spec /\ WF_vars(Test)

-----------------------------------------------------------------------------
(* Properties. *)

Rank(d) == CASE d = "EndpointIndependent" -> 0 [] d = "AddressDependent" -> 1
             [] d = "AddressAndPortDependent" -> 2

\* The mapping test has opened the filter that TCP shares for the secondary.
Disturbed == nat.crossing = "shared" /\ <<"udp", "secondary">> \in contacts

\* A lost connection attempt can make the filter look stricter than it is,
\* never more open: of all that was sent from X before, only the mapping test
\* spoils the measurement, and only for a NAT whose mappings serve both protocols.
FilteringSound ==
  verdict.filtering # Unset /\ ~ Disturbed => Rank(verdict.filtering) >= Rank(nat.tcp)

\* The NAT lets `proto` in through a port that the other protocol has opened
\* too, for remotes the client has not sent to but on the same host.
CrossesPorts(proto) == nat.crossing # "separate" /\ nat[proto] # "AddressAndPortDependent"

\* A packet that crossed over is never imagined, in spite of late datagrams of
\* earlier steps at the same port.  It is less than the README's "TCP mapping,
\* then UDP straight in" says: a mapping of its own for UDP, which the test has
\* made itself, may have let it in.
CrossProbesExplained ==
  /\ verdict.tcpAllowsUdp = "yes" => CrossesPorts("udp")
  /\ verdict.udpAllowsTcp = "yes" => CrossesPorts("tcp")

\* With nothing lost or late, the finished test has found what the NAT does.
TimelyTestIsExact ==
  timely /\ step = "done" /\ ~ Disturbed =>
    verdict = [filtering        |-> nat.tcp,
               simultaneousOpen |-> Status(nat.tcp = "EndpointIndependent"),
               unexpectedSyn    |-> Status(nat.tcp # "AddressAndPortDependent"),
               icmp             |-> Status(~ nat.icmpKills),
               hairpin          |-> Status(nat.hairpins /\ nat.keeps),
               tcpAllowsUdp     |-> Flag(CrossesPorts("udp")),
               udpAllowsTcp     |-> Flag(CrossesPorts("tcp"))]

\* The client waits long enough for two probes of the server's that time out,
\* and its commands do not get into each other's way: on a good network the test
\* only breaks off with a fixed local port, which the ICMP test's connection,
\* the one that is not reset, still holds.
BreaksOffOnlyOnOwnConnection == timely /\ step = "aborted" => fixedPort /\ lingering

\* The test ends, with verdicts or with an exception.
Terminates == <>(step \in {"done", "aborted"})
=============================================================================
