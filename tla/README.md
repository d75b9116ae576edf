# TLA+ model of NatTypeTester_CLI

NatTypeTester_CLI finds out what a NAT does by sending it traffic: a client
(`src/src`) runs the tests of RFC 3489, 5780, 4787, 5382, 5508, 5597 and 7857
against a probe server (`src/src_ser`). Every test turns answers, and the
absence of answers, into a verdict. This directory states what those verdicts
are worth, checks it with TLC on small instances, and proves every safety
property of the runs with TLAPS for all of them.

The question behind nearly every property is the same: *when the client prints
a verdict, is it true of the NAT, whatever the network, the server and the
earlier tests did?*

## 1. The system

### Client

| Component | Source | State | Operations | What makes it correct |
|---|---|---|---|---|
| RFC 5780 discovery | `tests/rfc5780_test.*` | scope, phase, the three results, public and other endpoint, second public endpoint | `create_query` and its three variants, `got_response` and one handler per phase | no verdict more open than the filter; a named mapping behaviour is the NAT's; the server is not blamed for late packets; the measurement does not disturb what it measures; it ends |
| RFC 3489 discovery | `tests/rfc3489_test.*` | phase, NAT type, Test I's addresses | `create_query`, `got_response`, Test I, II, I(2), III | verdicts that rest on an answer are sound; without loss the verdict is the classic taxonomy's |
| UDP session | `utils/stun_utils.cpp` | socket, and per request the deadline, the RTO and the next resend | `request` | returns, at the right time, only with an answer to this request; retransmits with back-off |
| TCP, TLS, DTLS sessions | `utils/stun_utils.cpp` | socket or SSL, the sticky local port | `request` | the port is kept over the connections of one session |
| STUN codec, socket helpers | `utils/stun_utils.cpp`, `utils/net_utils.cpp` | none | serialize, parse, getters, bind, poll | |
| RFC 4787 test | `tests/rfc4787_test.*` | a list of results | three discovery runs, port parity, overloading, hairpinning, determinism | the runs do not spoil each other's measurement |
| RFC 5508 test | `tests/rfc5508_test.*` | raw sockets, one query id, samples, results | mapping probes, filter probes, control commands, ICMP error and hairpin probes | as RFC 5780, over ICMP |
| RFC 5382 test | `tests/rfc5382_test.*` | one local port X, a listener, the result | commands `M F S U C` over connections from X, UDP mapping requests, ICMP and hairpin tests | no filter looks more open than it is; a cross-protocol pass is real; it outlasts the server's probes |
| RFC 5597 test | `tests/rfc5597_test.*` | raw sockets, the mapped endpoint, the result | eight tests out of requests, registry queries, commanded probes and waits | packets of earlier tests do not decide later ones; it ends |
| RFC 7857 test | `tests/rfc7857_test.*` | samples | port allocation, IPv4 ids, fragments | |
| Dispatcher, `main`, `nat_evaluator.py` | | none | option parsing, table lookup, report layout | |

### Server (`src_ser/main.cpp`)

| Component | State | Operations | What makes it correct |
|---|---|---|---|
| UDP nodes | four sockets, two addresses by two ports | Binding (with CHANGE-REQUEST), `M`, `C`, `I`, `O` | answers leave from the node that was asked for |
| Stream clients | a buffer per connection, one thread each | Binding, `M F S U C I V IE IRR IR IM IF DCCP_*` | framing; one answer per command |
| ICMP registry | token -> mapping, set of error markers, a mutex each | written by the poll thread, read and cleared by the stream threads | a record is there when its echo reply is seen |
| DCCP registry | last packet per endpoint, per service code | as above | a record belongs to the asking client |
| Engine | a thread per family: listeners, raw sockets, the poll loop | bind, accept, dispatch, throw | each socket gets its own poll result; a fault of one engine ends the process |
| Deployment | configuration, conntrack rules in the kernel, systemd unit | set up, clean up, restart | no rule piles up over restarts; a clean-up is complete; service comes back |

### Interactions

A discovery machine yields an action, the session sends it until it is answered
or its deadline passes, and the answer (or `nullopt`) goes back into the
machine. Requests cross the NAT, which remembers whom the client has contacted;
the server answers from the node that CHANGE-REQUEST selects; the NAT admits the
answer or not. Tests run one after the other through the *same* NAT. The ICMP
and DCCP tests use two channels: raw packets, which the server's poll thread
records in a registry, and TCP commands, which a thread per connection serves
from that registry.

### What is hard

Late, lost and repeated answers; absence of an answer as evidence; the NAT's
memory of earlier probes; the deadline against the retransmission timer;
the poll thread against the stream threads; one port used by two protocols and by
one connection after another; the server's time limits against the client's;
firewall rules that outlive the process that has set them; servers that are not
this one or are bound differently. `PROJECT.json` lists these hazards line by line with the
properties that cover them.

## 2. The modules

| Module | Models | State and actions |
|---|---|---|
| `StunServer` | the four nodes and `handle_udp_packet` for Binding requests | no variables; `ReplyNode`, `OtherNode`, `BindingResponse`, and the six kinds of server (`Deployment`) the client may meet |
| `NatBox` | the NAT, which is outside the repository | a behaviour is a partition of the remotes; `Admits` is the filter over the table of contacts |
| `StunPath` | one exchange of `UdpSession::request` over NAT, network and server | `Send`, `Accept`, `Ignore`, `Expire` (session); `Serve` (server); `Drop` (NAT); `Lose` (network) |
| `Rfc5780` | `Stun5389NatBehaviorDiscovery` | one action per handler, `HandleBindingTest` .. `HandleMappingTest3`; variables are the class's members |
| `Rfc5780Transports` | `run_rfc5780_test`: the same class over the `UdpSession`, or over a `TcpSession` (plain or TLS) and `handle_stream_client` for Binding requests | over UDP the steps of `Rfc5780`; over a stream `Connect`, `BreakOff`, `ClientReads`, `NoAnswer` (client) and `ServerReads` (server thread); a handler runs in the step that ends its request |
| `Discovery` | what a caller of `run_rfc5780_test` is promised | each verdict is given once, filtering before mapping, none flatters the NAT |
| `StunPathProofs` | lemmas about `StunPath`: an answer that is taken is genuine, silence is a refusal where nothing is lost; shared by the proofs of the two tests over it | |
| `Rfc5780Proofs` | theorems about `Rfc5780`, `Rfc5780Transports` and `Rfc4787` | |
| `Rfc3489` | `Stun3489NatTypeDiscovery` | `HandleTest1`, `HandleTest2`, `HandleTest1_2`, `HandleTest3` |
| `Rfc3489Proofs` | theorems about `Rfc3489` | |
| `UdpSession` | `UdpSession::request` with its clock | `Transmit`, `Window`, `PollReadable`, `PollTimeout`, `GiveUp` |
| `UdpSessionProofs` | theorems about `UdpSession` | |
| `Rfc4787`, `MCRfc4787` | the discovery runs inside `run_rfc4787_tests` and `run_determinism_check` | the actions of `Rfc5780` and `RunEnds` |
| `Rfc5508`, `MCRfc5508` | the mapping, filtering and error phases of `run_rfc5508_tests`, `handle_icmp_packet`, the commands `IM`, `IF`, `IE`, `IRR`, `IR` | client: `SendEcho`, `Receive`, `WaitEnds`, `IM`, `IF_Command`, `IRR`, `IE`, `HearError`, `HearNothing`, `SendError`, `IR`, `ControlFails`; poll thread: `Record`, `Reply`, `RecordMarker`; another client: `OthersReset` |
| `Rfc5508Proofs` | theorems about `Rfc5508` | |
| `Rfc5382` | `run_rfc5382_tests`, `discover_custom_servers`, and `handle_stream_client` for `M F S U C` | client: `Discover`, `Send`, `CommandFails`, `SendUdpMapping`, `ReceiveUdpMapping`, `ReceiveProbe`, `UdpTimeout`, `IcmpTest`, `Hairpin`; server thread: `ProbeBack`, `Answer` |
| `Rfc5382Proofs` | theorems about `Rfc5382` | |
| `Rfc5597` | `Rfc5597Test::runTest`, `handle_dccp_packet`, the commands `DCCP_GET_REQ`, `DCCP_SEND`, `DCCP_I` | a test is a `Script` of operations; one action per kind of operation, and `Record` for the poll thread |
| `Rfc5597Proofs` | theorems about `Rfc5597` | |
| `ServerProcess` | `main`, `ensure_*_conntrack_bypass`, `cleanup_fragment_conntrack_bypass`, the start of `run_server_engine` and its walk over the poll results, `Restart=always` | `Start`, `EnsureStep`, `ToolDone`, `LoadTls`, `StartEngine`, `EngineReady`; `MainThrows`, `EngineThrows`, `Killed`; `CleanupStep`, `CleanupDone` |
| `ServerProcessProofs` | theorems about `ServerProcess` | |

Conventions. Operators whose comment begins "Faulty variant" are not part of the
model: each is a definition with a plausible bug, kept to show that a property
notices it. Some variables never change and stand for the environment:
`behavior` or `nat` (the NAT), `deployment` (the server), `installed` (the
firewall tools), and `timely`, under which nothing is lost and an answer that is
going to arrive does so before the deadline.

How the data is abstracted:

- IPs and ports are unstructured; the code only compares them. An outside port
  is named by the inside port and the class of remotes it serves, so two
  classes never share one; a NAT that hands out the same outside port to two
  classes would look more uniform than it is to any client.
- Transaction ids and tokens are random in the code and distinct in the model.
- The network is a set: unordered, delaying without bound, and (where
  `Duplicating`) delivering again. Retransmitting a request that is still in
  flight adds nothing to it, one that was delivered puts it back.
- `Expire` may happen at any time after the first send unless `timely`, so loss
  needs no action of its own for safety; `Lose` is there for liveness, where
  packets may also vanish.
- Attributes of a message are the ones the machines read. MAPPED-ADDRESS and
  XOR-MAPPED-ADDRESS hold the same value, and so do CHANGED-ADDRESS and
  OTHER-ADDRESS, since the server builds both from one endpoint.
- In `Rfc5508` a command and its answer are one step: each command has a
  connection of its own, during which the client does nothing else, and packets
  that arrive meanwhile wait in the raw socket. `ControlFails` covers the
  exception. The reception of an echo is two steps, `Record` and `Reply`,
  because other threads read the registry in between. Of the markers the client
  makes up, the three that decide a verdict are kept (`Error`).
- In `Rfc5382` every connection back leaves from a fresh port, so a filter on
  addresses and one on ports differ only in what they refuse; the NAT's table is
  the set of (protocol, host) the client has contacted from X. Time is counted
  within a command only: each probe back takes nothing or the whole
  `probe-timeout-ms`. A TCP connection from X is reset at its end, except in the
  ICMP test, whose TIME_WAIT is `lingering`.
- In `Rfc5597` a service code is the pair (test, operation): the code draws a
  random one per operation. `packetsByEp` is kept as a set of endpoints, as
  `DCCP_I` takes whichever comes first in hash order.
- In `ServerProcess` one step is one check-or-add of a shell script. A command
  may fail, or a check deny, for no reason of the rules' own, `MaxGlitches`
  times in all. A chain stands for itself and its table.

## 3. What TLC checks

| Run | Instance | What it shows |
|---|---|---|
| `rfc5780` | every scope, all six servers, all twelve NATs, socket bound to an address or the wildcard, `timely` or not; UDP with two sends, TCP or TLS with two ports to choose from and messages of three parts | Over any transport and network: no filtering verdict is more open than the filter (`FilteringSound`), a named mapping behaviour is the NAT's (`MappingExact`), this repository's server is never found unsupported (`OwnServerNeverBlamed`), nothing is sent to a second address before the filter is measured (`FilterUndisturbed`), the abstract promise is kept (`RefinesDiscovery`), and the test ends, with a result or an exception (`Terminates`). When `timely`, the verdicts are exact (`TimelyTestIsExact`), in whatever pieces a stream is read. `TestInv` is the proofs' invariant |
| `rfc3489` | as above, three sends, duplication | `PositiveVerdictsSound`: verdicts that rest on an answer are sound, whichever server gives them; on a timely network this repository's server leads to the classic taxonomy's verdict (`TimelyTestIsExact`) |
| `udp_session` | 7 ms deadline, RTO 1 ms, four ticks a millisecond, poll up to two ticks late, receiving takes one | The session gives up no earlier than its deadline, and gives up (`GivesUpOnTime`) or answers (`AnswersInTime`) no later after it than poll may be late and a datagram takes to receive; a resend is early only at the deadline (`EarlyResendOnlyAtDeadline`); stray datagrams never keep it from returning (`Returns`) |
| `rfc4787` | Binding, Mapping, Filtering on fixed and fresh ports, `timely` or not; three Combining rounds when `timely` | `SoundOnFreshPorts`, `RunsDoNotMix` (also on one fixed port with answers of earlier runs in flight), `DeterministicNatPasses`. The last, and what the others say of the server, speak of this repository's server |
| `rfc5508` | mapping-only and filtering-only tests and the error phase, `timely` or not, with duplication; the default test when `timely`; both deployments; alone on the server or not | `MappingExact`, `SoundWhenTestedAlone`, `RecordFound` (the record precedes the reply), `MarkersSound` (a Pass of an error probe is backed by errors that came through, whatever other clients reset), `TimelyTestIsExact`, `Terminates` |
| `rfc5382` | every NAT of `NatBehavior`, fixed or fresh local port, `timely` or not; 3000 ms of client timeout, 1200 ms per probe, 350 ms of delay, three attempts of discovery | `FilteringSound`, `CrossProbesExplained` (a packet that crossed protocols did so), `TimelyTestIsExact`, `BreaksOffOnlyOnOwnConnection` (the server's two probes end before the client gives up), `Terminates` |
| `rfc5597` | each of the eight tests after the integrity test, and all in sequence; `timely` or not; another host behind the NAT or not; two packets in flight | `MappingSound`, `SoundWhenTestedAlone`, `SyncSound` (probes of earlier tests are not taken for a Sync), `TimelyTestIsExact`, `Terminates` |
| `server_process` | three lives, two wrong failures, either, both or no tool, either kind of iptables match per life | `NoPileUp`, `BypassActive`, `CleanExit`, `RulesOutliveEngines`, `WalkFindsSocket`, `Recovers` |
| `rfc5780_no_nat`, `udp_session_backoff`, `rfc4787_fixed_port`, `rfc5508_all` | one disagreement each | section 5 |

Type correctness is a conjunct of the inductive invariants of section 4, so most
runs do not check it again.

The bounds, and why they are enough. Two sends per request in `rfc5780` give
every number of copies of a request and its answer that the protocol can tell
apart: the first can be answered late, after the second, or after the exchange;
the code's defaults (500 ms doubling within 3000 ms) give three, which `rfc3489`
uses. The proofs have no such bound. Three runs per RFC 4787 test are what the
code does; one send each is enough for answers of one run to be in flight in the
next. The clock of `udp_session` has windows of 1, 2 and 4 ms within 7 ms, so
both a window that ends before the deadline and one that is cut by it occur,
with every fraction of a millisecond left over. The ports of `rfc4787` are
symmetric (`PortSymmetry`): they are only compared. `rfc5382` uses the code's own
defaults, which the proof replaces by their relation. Three parts of a message
let a read return the beginning, the middle, the end or all of it, and two ports
let a connection leave from another one than the last. Two packets in flight in
`rfc5597` are the probe of one test and the late one of a test before. Three
lives of the server are one that leaves rules, one that starts among them and
fails, and one that meets no fault (`FaultsRemain`); two wrong failures are
enough for a check and an insertion, or both hooks, to fail.

Fairness. `FairSpec` (`TestSpec` for RFC 5780) asks for what the client's own
thread does: it sends, and its deadline passes whatever the network does (`WF` of
`Send` and `Unanswered`, over a stream of `Connect \/ BreakOff` and `NoAnswer`,
or of the client's steps in `Rfc5508`, or of the only thread in `UdpSession`).
`Rfc5382` asks it of the client and the thread that serves it, each of whose
waits has a limit in the code. `Rfc5597` adds that no packet stays on its way
for ever. `ServerProcess` asks it of the process and of systemd: with
`RestartSec=3` a service never reaches systemd's limit of five starts in ten
seconds, so it is always started again. Otherwise nothing is assumed of the
network, the NAT or the server. `timely` is itself an
assumption on all three, under which the model's deadline waits for packets in
flight, so `Terminates` says nothing there.

## 4. What is proved

### The RFC 5780 test

`Rfc5780Proofs` proves, for all values of the constants (any set of local ports,
any number of sends, any selection of servers, duplication or not, messages of
any length):

| Theorem | Statement |
|---|---|
| `Invariance` | `Spec => []IInv` |
| `TypeCorrect` | `Spec => []TypeOK` |
| `FilteringSoundness` | `Spec => []FilteringSound` |
| `MappingExactness` | `Spec => []MappingExact` |
| `OwnServerNotBlamed` | `Spec => []OwnServerNeverBlamed` |
| `FilterStaysUndisturbed` | `Spec => []FilterUndisturbed` |
| `Refinement` | `Spec => RefinesDiscovery` |
| `TransportInvariance` | `TestSpec => []TestInv` |
| `MappingExactOverAny` | `TestSpec => []MappingExact` |
| `SoundOverAny` | `TestSpec => [](FilteringSound /\ OwnServerNeverBlamed /\ FilterUndisturbed)` |
| `RefinementOverAny` | `TestSpec => RefinesDiscovery` |
| `TimelyExactness` | `Spec => []TimelyTestIsExact` |
| `TimelyExactOverAny` | `TestSpec => []TimelyTestIsExact` |

`Spec` is the test over UDP, `TestSpec` the test over any transport.

The argument. `FilteringSound` is not inductive: why should an answer to the
CHANGE-REQUEST have passed the filter because of this exchange? `IInv` adds
three facts. `NetworkInv`: a datagram that carries the current transaction id is
the current request or a node's answer to it, and everything else carries an
older id, so an answer that is accepted is genuine. `PhaseInv`: what each phase
has asked and learnt; in particular the public endpoint is the NAT's mapping for
the server and, with this repository's server, the other endpoint is node 3.
`FilterUndisturbed`: while the filter is measured, the NAT's table holds no
remote but the server. Then an answer from the other address (or port) was
admitted because the filter's class of the server contains it, which is what
the verdict says. The mapping verdicts compare endpoints that `PhaseInv` ties to
the NAT's mapping. The proof has one lemma per handler, and one for the steps of
the session, the server and the network; the assumptions used are the ones the
modules name (two different addresses and ports, sentinels that are no values).

Over a stream (`TestSpec`) `TestInv` adds that the answer on a connection tells
what the NAT makes of the session's inside port (`StreamInv`), which changes no
more once a request has been answered. The handlers' lemmas serve both: those of
the mapping test rely only on what an answer says (`Tells`), those of the filter
test, which has no stream variant, on how it has come in as well (`Genuine`).

Exactness. Soundness rests on the answers that came; that a timely test is exact
rests on those that did not. `AnswerComes` of `StunPath` is the invariant behind
it: where nothing is lost, a request that was sent is in flight, or its answer
is, until the session has had the answer or the NAT has refused it
(`AnswerRefused`). A timely session gives up only when nothing of its request is
in flight any more, so its silence means that the filter refuses the node that
was asked to answer (`ExpiryIsSilence`, `OwnNodeAsked`, `RefusalTells`), and a
plain request, which is answered from where it was sent to, is never met with
silence (`PlainIsAnswered`). `LearntInTime` keeps what the phases have
concluded so far.

### The RFC 4787 test

`Rfc5780Proofs` also proves, for any plan of runs and for fixed and fresh ports:

| Theorem | Statement |
|---|---|
| `CampaignInvariance` | `CampaignSpec => []CampaignInv` |
| `ReportsSoundOnFreshPorts` | `CampaignSpec => []SoundOnFreshPorts` |
| `ReportsDoNotMix` | `CampaignSpec => []RunsDoNotMix` |
| `DeterminismCheckPasses` | `CampaignSpec => []DeterministicNatPasses` |

The runs take the steps of `Rfc5780` over a table of contacts that earlier runs
have filled, so `FilterUndisturbed` does not hold. The invariant of the single
test is therefore made of two parts: `RunInv` (types, network, phases and the
mapping verdict), which needs nothing of the table, and what a run concludes
from the filter, which needs only the contacts of the run's own port to be the
server's (`PortUndisturbed`). The second holds on fresh ports and not on a fixed
one, where section 5 has the counterexample. A late answer to an earlier run
carries an older transaction id (`NetworkInv`). The determinism check passes
because each finished full run has reported what the NAT does
(`FullReportsExact`), which is `TimelyTestIsExact` of the run that ended.

### The server's process

`ServerProcessProofs` proves, for any number of lives and of wrong failures:

| Theorem | Statement |
|---|---|
| `Invariance` | `Spec => []IInv` |
| `RulesDoNotPileUp` | `Spec => []NoPileUp` |
| `FragmentBypassActive` | `Spec => []BypassActive` |
| `CleanupIsComplete` | `Spec => []CleanExit` |
| `RulesKeptWhileServing` | `Spec => RulesOutliveEngines` |
| `WalkReadsOwnResults` | `Spec => []WalkFindsSocket` |

The argument. A rule is inserted only after a check that missed it: if it was
there, the check failed wrongly and was counted. `BypassActive` needs to know
why a script without a failed command leaves its rules on both hooks: the
invariant says that while `ok` holds, every object of the script before `next`
is in the kernel, so at its end all are. `CleanExit` needs the same of the
clean-up: what its commands before `next` delete is gone but for wrong failures,
and the five of them together name every fragment object (`CleanupComplete`). An
engine runs only after the last set-up step, and the clean-up only starts when
none does, since a throw under a running engine aborts the process. The walk
over the results of `poll` is advanced by the length of what each of the four
conditional `push_back`s has appended (`WalkAdvances`), so it stands at a
socket's own entry whenever the socket is open.

### The RFC 5382 test

`Rfc5382Proofs` proves, for all timeouts, delays and numbers of attempts:

| Theorem | Statement |
|---|---|
| `FilterNeverLooksOpener` | `Spec => []FilteringSound` |
| `CrossingIsReal` | `Spec => []CrossProbesExplained` |
| `EnoughTimeForTwoProbes` | `2 * ProbeTimeout + SynDelay <= ClientTimeout` and `Spec` imply `[]BreaksOffOnlyOnOwnConnection` |
| `TimelyExactness` | `Spec => []TimelyTestIsExact` |

`EnoughTimeForTwoProbes` needs the relation between two configurations that nothing in the code
checks: `--timeout-ms` of the client, `probe-timeout-ms` and `syn-delay-ms` of
the server. The invariant: a probe that succeeded was admitted by the NAT
(`ResultsExplained`); TCP from X has only ever gone to the primary
(`PrimaryOnly`), so admission of the secondary means an open filter, or a
contact of the mapping test; the datagrams at X are answers of the server or
probes the NAT has let cross (`InboxExplained`); each finished probe has cost at
most `ProbeTimeout` (`ElapsedByProbe`); the kernel holds a connection of X only
under `--local host:port` (`LingersOnlyIfFixed`). For exactness `TimelyInv` adds
the converse: the NAT knows what has been sent to the primary (`ContactsMade`), a
probe fails only if it is not admitted (`ResultsComplete`), and at X there is
exactly what the step waits for, never a datagram of an earlier one
(`InboxTimely`). A step that leaves `Disturbed` false was not disturbed before
either (`DisturbedStays`). Nothing is assumed of the times here: a test that
breaks off is not done.

### The RFC 3489 test

`Rfc3489Proofs` proves `PositiveVerdictsSound` (`VerdictsSoundness`) and
`TimelyTestIsExact` (`TimelyExactness`) for all values of the constants. It
shares with `Rfc5780Proofs` the facts about the path, which `StunPathProofs`
states once: what the path does by itself keeps
`NetworkInv`, and an answer a handler is given is genuine. The invariant adds
what each test has asked and whom the session has sent to by then
(`AskedSoFar`): to nobody but `Server` before Test I(2), and to `Server` and the
changed address from there. And it adds what the tests have learnt (`Learnt`):
Test I is answered from `Server` in every deployment, the wildcard one included,
so "from the same side" means what it says; Test III is reached only when one
mapping serves two addresses. A packet from a port that nobody was sent to then
shows the filter not to look at ports, although Test I(2) has contacted the other
address meanwhile. The timely verdict rests on `AnswerComes`, as for RFC 5780:
that Test I(2) is made at all shows that the filter is not open.

### The UDP session

`UdpSessionProofs` proves, for every deadline, RTO, resolution of the clock and
lateness of `poll`:

| Theorem | Statement |
|---|---|
| `GivingUpIsTimely` | `Spec => []GivesUpOnTime` |
| `AnswersAreTimely` | `Spec => []AnswersInTime` |
| `EarlyResendIsLast` | `Spec => EarlyResendOnlyAtDeadline` |

The code looks at the clock before `poll` and not again before it returns an
answer (`stun_utils.cpp:433`), so a call may end past its deadline with an answer
as well as without one; both theorems bound that by `poll`'s lateness, which is
the same whether it times out or finds a datagram, and the tick in which a
datagram is received. They need that no window outlasts the deadline, however
often the RTO was doubled.

The invariant says how far the clock may be ahead of the deadline
(`ClockBounds`), when the RTO that is running was started (`WindowStarted`), that
`poll` was told to wait to within a millisecond of the window's end
(`PollEndsLate`), and why the next transmission is due (`ResendDue`): its window
is over, or what was left of the deadline was less than a millisecond and was cut
to zero.

### The RFC 5508 test

`Rfc5508Proofs` proves, for any network, both deployments and any interference of
other clients:

| Theorem | Statement |
|---|---|
| `MappingExactness` | `Spec => []MappingExact` |
| `FilteringSoundAlone` | `Spec => []SoundWhenTestedAlone` |
| `RecordPrecedesReply` | `Spec => []RecordFound` |
| `ErrorVerdictsSound` | `Spec => []MarkersSound` |
| `TimelyExactness` | `Spec => []TimelyTestIsExact` |

The invariant follows a ping through both programs. A packet or record with a
token is that of the client's own ping with this token (`EchoesIdentified`), and
the record holds the mapping the ping has left by (`RecordsExact`); a reply is
only in flight when the record is there, and that of the filtering phase's own
ping stays (`BaseRecorded`); the third ping is sent only if the first two are
recorded and differ (`ThirdPingNeeded`); while one phase is tested alone, nothing
of the other is in the NAT's table (`PlanKept`); and a marker that is seen is of
an error that came through (`SeenErrorsPass`): other clients can remove a marker
but not make one up. For the exact verdicts, `RouteInv` says which way each packet
and the reply in hand go and that the NAT has noted the ping, and `AnswersCome`
that what the client waits for is in flight or refused: the echo on its way there
or back, or held by the thread that replies; the server's packet, if the filter
admits it; the error, or its marker once it is recorded and nobody else resets
markers. The assumptions are that the sentinels `NoQuery` and `NoEcho` are no
queries and no echoes.

### The RFC 5597 test

`Rfc5597Proofs` proves, for any network and with or without another host behind
the NAT:

| Theorem | Statement |
|---|---|
| `MappingSoundness` | `Spec => []MappingSound` |
| `SoundAlone` | `Spec => []SoundWhenTestedAlone` |
| `SyncSoundness` | `Spec => []SyncSound` |
| `TimelyExactness` | `Spec => []TimelyTestIsExact` |

The invariant: the test and the operation are ones of the script (`InScript`), a
test that is run alone follows only the integrity test (`PlanKept`), every
packet in flight was made by an operation of the plan and a request of the
mapping test carries the mapping it left by (`PacketsOfPlan`), and so do the
records the mapping test compares (`RecordsOfMapping`): service codes keep the
records of the tests apart.
`MappingSound` speaks of the verdict EndpointIndependent alone, since
AddressAndPortDependent is also given when an answer is lost
(`rfc5597_test.cpp:625`), and `SoundWhenTestedAlone` of the filtering and hairpin
tests; what is said of the Sync test is `SyncSound`.

For exactness `TimelyInv` follows what is on its way. Requests may be recorded
long after their test, but one whose code is asked for is recorded or in flight,
and what was ever recorded stays in `packets_by_ep` (`RequestsArrive`). X's
mapping is known and open to the primary until an ICMP error closes it
(`EndpointFound`). A probe is in flight only while its own test waits for it, and
one that the NAT would admit is not missing (`ProbesTimely`), so neither a late
probe nor a premature end can decide a test. The injected error is in flight or
has done to the mapping what the NAT does, provided it names X's mapping
(`ErrorsTimely`); if another host's endpoint was recorded it may not, which is
the second case of `Disturbed`.

### Only model-checked

Liveness (`Terminates`, `Returns`, `Recovers`), which the prover does not reach.
The runs with a counterexample (section 5) have nothing to prove.

## 5. Where the code disagrees with its documentation

- `rfc5508_all`. In the default RFC 5508 test the mapping phase pings the
  secondary server with the query id that the filtering phase then uses. A NAT
  with endpoint-independent mapping and an address-dependent filter is reported
  `EndpointIndependent`. The filtering-only test is right
  (`SoundWhenTestedAlone`).
- `rfc4787_fixed_port`. The same with `--local host:port`: the mapping run has
  sent to the server's other address before the filtering run measures the
  filter, on the same port. (For the same reason a NAT that never changes can
  fail the determinism check; `DeterministicNatPasses` therefore assumes fresh
  ports.)
- `rfc5780_no_nat`. Without `--local` the UDP socket is bound to the wildcard and
  never connected, so its local endpoint is `0.0.0.0:port`, which no public
  endpoint equals: a host without a NAT is reported `EndpointIndependent`
  instead of `Direct`, and `OpenInternet` cannot be found by RFC 3489. The
  properties speak of the mapping *as the session can know it* (`Seen`).
- `udp_session_backoff`. The remaining wait is cut to whole milliseconds. In the
  last millisecond before the deadline it is zero, the window ends at once, and
  the session sends again without waiting. `EarlyResendOnlyAtDeadline` states
  what does hold.

The following is what the new models say of the code where a comment or the
repository's README says something else or more, without a run of its own:

- RFC 5382 with `--local host:port`. A comment says SO_LINGER skips TIME_WAIT
  (`rfc5382_test.cpp:587`); the ICMP test's control connection
  (`rfc5382_test.cpp:529`) does not set it and shares the port, so the next
  command's connect may be refused (the kernel decides by the TCP timestamps of
  the two hosts) and the test ends with an exception.
  `BreaksOffOnlyOnOwnConnection` allows for exactly this.
- RFC 5780 over TCP. Each connection is closed before the next one is opened
  (`stun_utils.cpp:525`), and their mappings are compared. A NAT that frees the
  mapping with its connection may give the next one another port and so look
  port dependent; the model's NAT remembers it, as RFC 5382 asks. And a connection
  that is refused is an exception, not a request without an answer: the binding
  result found before it is lost.
- `udp_mapping_allows_tcp` and `tcp_mapping_allows_udp` are called protocol
  independence (`README.md:234`), but the test has made the mapping of the other
  protocol itself; a NAT with one port number and two filters passes.
  `CrossProbesExplained` states what a pass does show.
- What is printed as simultaneous open is an unsolicited SYN of the secondary
  server; the TCP hairpin probe closes the connection it learnt its endpoint
  from, so a NAT that drops mappings with their connection fails it.
- The RFC 5780 mapping test that runs first can open a filter that TCP shares
  with UDP (`Disturbed` of `Rfc5382`).
- RFC 5597. In the full sequence an endpoint-independent mapping always yields an
  endpoint-independent filter (`Disturbed` of `Rfc5597`). The overloading test
  sends both requests to one server and cannot fail. The hairpin test takes any
  DCCP packet. A request to the secondary that is lost reads as an address and
  port dependent mapping. The answer of `DCCP_SEND` is not looked at. `DCCP_I`
  takes any recorded endpoint of the client's outside address, another host's
  included.

## 6. What is not modelled

Left out because there is nothing to check: option parsing, resolution, report
layout and `nat_evaluator.py` (no state), byte layout of packets and checksums,
OpenSSL, service installation, build files. In `Rfc5508`, a client host whose
kernel still answers pings by itself (the test turns that off) and the pairing
of outside addresses (one NAT address). In `Rfc5597`, duplicated packets.

Left out although it could be modelled:

- The DTLS session, which has its own socket loop over OpenSSL's datagrams, and
  certificates. The framing of text commands, which the client sends in one
  piece on a connection of their own. That a Combining test over a stream
  reports `None` for the filter, which it does not measure.
- The RFC 7857 test and command `V`: pure functions of a sample of ports, and
  one race that the kernel decides.
- Port parity, overloading and hairpinning of RFC 4787, and the hairpin probes
  of RFC 5508: single probes without memory of what was before.
- The commands `O` and `I` of the UDP handler, which send one packet, and
  `DCCP_GET_EP`, which no client sends.

Worth proving next: that a run of RFC 4787 on a fixed port which measures the
filter before any run has sent to the other address is sound as well, and
abstract specifications of the RFC 5382 and RFC 5597 tests that they implement.
