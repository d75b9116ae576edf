------------------------------ MODULE Rfc4787 ------------------------------
(***************************************************************************)
(* The part of the RFC 4787 test that is a sequence of RFC 5780 tests      *)
(* (src/tests/rfc4787_test.cpp): run_rfc4787_tests runs Binding, Mapping   *)
(* and Filtering, and run_determinism_check runs Combining three times.    *)
(* Every run has a UdpSession of its own, but they all go through the same *)
(* NAT, whose table outlives them, and past the datagrams the earlier runs *)
(* left in the network.                                                    *)
(***************************************************************************)
EXTENDS Rfc5780, Sequences

CONSTANT
  Campaigns      \* the plans to explore (the scopes of the runs, in order),
                 \* each with the values of `fixedPort` and `timely`

ASSUME CampaignsAssumption ==
  \A c \in Campaigns : /\ c.plan \in Seq(Scope) /\ c.plan # <<>>
                       /\ c.fixedPort \in BOOLEAN /\ c.timely \in BOOLEAN

VARIABLES
  plan,          \* the scopes of the runs; never changes
  fixedPort,     \* --local names a port, so every session is bound to it;
                 \* never changes
  verdicts       \* what the finished runs returned, in order

campaignVars == <<vars, plan, fixedPort, verdicts>>

\* A new Stun5389NatBehaviorDiscovery.
BeginNext(s) ==
  /\ scope' = s
  /\ phase' = "BindingTest"
  /\ binding' = "Unknown" /\ filtering' = "Unknown" /\ mapping' = "Unknown"
  /\ public' = NoEp /\ other' = NoEp /\ public2' = NoEp

CampaignInit ==
  \E c \in Campaigns :
    /\ plan = c.plan /\ fixedPort = c.fixedPort
    /\ Begin(c.plan[1]) /\ PathInit(Plain(Server)) /\ timely = c.timely
    /\ verdicts = <<>>

\* Faulty variant, for mutation: the sessions share a port.
NextPortShared(p) == p = port

\* The port of the next session's socket: the one --local names, or one the
\* kernel picks, which no session has used yet.
NextPort(p) ==
  IF fixedPort THEN p = port ELSE \A c \in contacts : c.port # p

\* run_rfc5780_test returned; its verdicts are kept and the next run begins.
RunEnds ==
  /\ phase = "Done" /\ Len(verdicts) < Len(plan)
  /\ verdicts' = Append(verdicts, [mapping |-> mapping, filtering |-> filtering])
  /\ IF Len(verdicts') < Len(plan)
     THEN /\ BeginNext(plan[Len(verdicts') + 1])
          /\ \E p \in LocalPorts : NextPort(p) /\ port' = p
          /\ Ask(Plain(Server))
          /\ UNCHANGED <<rigidVars, contacts, network>>
     ELSE UNCHANGED vars
  /\ UNCHANGED <<plan, fixedPort>>

CampaignOver == /\ Len(verdicts) = Len(plan) /\ network = {}
                /\ UNCHANGED campaignVars

CampaignNext == \/ (Answered \/ Unanswered \/ Path) /\ UNCHANGED <<plan, fixedPort, verdicts>>
                \/ RunEnds
                \/ CampaignOver

CampaignSpec == CampaignInit /\ [][CampaignNext]_campaignVars

-----------------------------------------------------------------------------
\* The filtering verdict that run_rfc4787_tests reports is of the NAT, not of
\* what the runs before it did to the NAT: EndpointIndependent is the NAT that
\* admits packets regardless of where they come from.
ReportedFilteringSound ==
  \A i \in DOMAIN verdicts : ~ MoreOpen(verdicts[i].filtering, behavior)

\* It is so when every run has a port of its own, which the NAT's table knows
\* nothing about, although the runs before have sent to both server addresses.
SoundOnFreshPorts == ~ fixedPort => ReportedFilteringSound

\* No run takes an answer to an earlier run's request for its own, even on the
\* same port: mapping verdicts stay exact and this repository's server is
\* never found unsupported.
RunsDoNotMix ==
  \A i \in DOMAIN verdicts :
     /\ ~ Misnamed(verdicts[i].mapping, Seen)
     /\ deployment = "own" => /\ verdicts[i].mapping # "UnsupportedServer"
                              /\ verdicts[i].filtering # "UnsupportedServer"

\* run_determinism_check compares every round with the first.
MappingConsistent ==
  \A i \in DOMAIN verdicts : verdicts[i].mapping = verdicts[1].mapping
FilteringConsistent ==
  \A i \in DOMAIN verdicts : verdicts[i].filtering = verdicts[1].filtering

\* A NAT whose behaviour never changes passes the determinism check (RFC 4787,
\* REQ-11) when nothing is lost or late and every round has a port of its own.
DeterministicNatPasses ==
  /\ timely /\ ~ fixedPort /\ deployment = "own"
  /\ \A i \in DOMAIN plan : plan[i] = "Full"
  => MappingConsistent /\ FilteringConsistent

(* Why the reports are sound: the inductive invariant. *)

Verdict == [mapping : MappingBehavior, filtering : FilteringBehavior]

PlanInv ==
  /\ plan \in Seq(Scope)
  /\ verdicts \in Seq(Verdict)
  /\ Len(verdicts) <= Len(plan)
  /\ Len(verdicts) < Len(plan) => scope = plan[Len(verdicts) + 1]

\* A run whose port is its own finds what it would find alone.
FreshRunInv == ~ fixedPort => PortUndisturbed /\ FilteringSound /\ TimelyInv

\* What the finished runs of a full test have reported, where nothing is lost.
FullReportsExact ==
  timely /\ ~ fixedPort /\ deployment = "own" =>
    \A i \in DOMAIN verdicts : plan[i] = "Full" =>
      verdicts[i] = [mapping |-> Seen.mapping, filtering |-> behavior.filtering]

CampaignInv == /\ RunInv /\ AnswerComes /\ PlanInv /\ FreshRunInv
               /\ SoundOnFreshPorts /\ RunsDoNotMix /\ FullReportsExact
=============================================================================
