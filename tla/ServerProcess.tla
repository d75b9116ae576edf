---------------------------- MODULE ServerProcess ----------------------------
(***************************************************************************)
(* The life of the probe server's process (main and run_server_engine in   *)
(* src_ser/main.cpp) and what it leaves in the kernel.  A start reads the  *)
(* configuration, makes the kernel bypass connection tracking for ICMP and *)
(* for fragments, loads the certificate and starts one engine thread per   *)
(* address family.  systemd starts the process again whenever it ends.     *)
(*                                                                         *)
(* The firewall rules outlive the process.  They are added by shell        *)
(* commands that first check whether the rule is there, and removed by an  *)
(* atexit handler, which a signal or std::terminate does not run.          *)
(***************************************************************************)
EXTENDS Integers, Sequences, FiniteSets

CONSTANTS
  MaxStarts,     \* bound: lives of the process; the last meets no fault
  MaxGlitches    \* bound: commands that fail without a cause in the rules

ASSUME Bounds == MaxStarts \in Nat \ {0} /\ MaxGlitches \in Nat

VARIABLES
  installed,     \* the firewall tools that work for the process; never changes
  kernel,        \* how many copies of each object the firewall holds
  glitches,      \* commands that failed wrongly so far
  starts,        \* lives of the process so far
  pc,            \* where main() is
  has,           \* has_ipv4, has_ipv6: the families configured
  match,         \* how iptables can match fragments: has_u32, or -f
  attempt,       \* which of the two tools is tried
  next,          \* the next command of its script
  ok,            \* no command of the script has failed
  rulesAdded,    \* s_fragment_rules_added
  engine,        \* the engine thread of each family
  lastExit       \* how the previous life ended

scriptVars == <<attempt, next, ok>>
hostVars == <<kernel, glitches>>
vars == <<installed, hostVars, starts, pc, has, match, scriptVars, rulesAdded,
          engine, lastExit>>

Family == {"v4", "v6"}
Topic == {"icmp", "frag"}
Hook == {"OUTPUT", "PREROUTING"}

-----------------------------------------------------------------------------
(* The scripts. *)

\* What a command adds: an iptables rule, or an nft chain (with its table) or rule.
Object ==
  [tool : {"iptables"}, topic : {"icmp"}, kind : {"p icmp"}, hook : Hook] \cup
  [tool : {"iptables"}, topic : {"frag"}, kind : {"u32", "f"}, hook : Hook] \cup
  [tool : {"nft"}, topic : Topic, kind : {"chain", "rule"}, hook : Hook]

Obj(tool, topic, kind, hook) ==
  [tool |-> tool, topic |-> topic, kind |-> kind, hook |-> hook]

Script(topic, tool, how) ==
  IF tool = "nft"
  THEN << Obj("nft", topic, "chain", "PREROUTING"), Obj("nft", topic, "chain", "OUTPUT"),
          Obj("nft", topic, "rule", "OUTPUT"),      Obj("nft", topic, "rule", "PREROUTING") >>
  ELSE LET kind == IF topic = "icmp" THEN "p icmp" ELSE how
       IN  << Obj("iptables", topic, kind, "OUTPUT"), Obj("iptables", topic, kind, "PREROUTING") >>

ToolOrder(topic) == IF topic = "icmp" THEN <<"iptables", "nft">> ELSE <<"nft", "iptables">>

FragObjects == {o \in Object : o.topic = "frag"}

\* Faulty variant, for mutation: only the rules this life would add itself.
CleanupScriptOwn ==
  << {Obj("iptables", "frag", match, "OUTPUT")}, {Obj("iptables", "frag", match, "PREROUTING")},
     {o \in FragObjects : o.tool = "nft"} >>

\* cleanup_fragment_conntrack_bypass: what each of its commands deletes.
CleanupScript ==
  << {Obj("iptables", "frag", "u32", "OUTPUT")}, {Obj("iptables", "frag", "u32", "PREROUTING")},
     {Obj("iptables", "frag", "f", "OUTPUT")},   {Obj("iptables", "frag", "f", "PREROUTING")},
     {o \in FragObjects : o.tool = "nft"} >>

-----------------------------------------------------------------------------
TypeOK ==
  /\ installed \subseteq {"iptables", "nft"}
  /\ kernel \in [Object -> Nat] /\ glitches \in 0..MaxGlitches
  /\ starts \in 0..MaxStarts
  /\ pc \in {"down", "icmp", "frag", "tls", "v4", "v6", "join", "cleanup"}
  /\ has \subseteq Family /\ match \in {"u32", "f"}
  /\ attempt \in {1, 2} /\ next \in 1..6 /\ ok \in BOOLEAN /\ rulesAdded \in BOOLEAN
  /\ engine \in [Family -> {"none", "binding", "polling"}]
  /\ lastExit \in {"none", "failed", "cleaned", "aborted"}

NoEngine == [f \in Family |-> "none"]

Init ==
  /\ installed \in SUBSET {"iptables", "nft"}
  /\ kernel = [o \in Object |-> 0] /\ glitches = 0 /\ starts = 0
  /\ pc = "down" /\ has = {} /\ match = "u32"
  /\ attempt = 1 /\ next = 1 /\ ok = TRUE /\ rulesAdded = FALSE
  /\ engine = NoEngine /\ lastExit = "none"

-----------------------------------------------------------------------------
(* Start: the configuration. *)

\* What one source of the configuration says of a family's two addresses.
Setting == {"absent", "empty", "given"}

\* cfg: the command line over the file over the defaults, key by key.
Configured(file, cli, f) ==
  IF cli[f] # "absent" THEN cli[f] = "given" ELSE file[f] = "given"

\* main() up to its first command.  It ends at once when the configuration
\* cannot be read or configures neither family.
Start ==
  /\ pc = "down" /\ starts < MaxStarts
  /\ starts' = starts + 1
  /\ \E file, cli \in [Family -> Setting] : has' = {f \in Family : Configured(file, cli, f)}
  /\ match' \in {"u32", "f"}
  /\ IF has' = {}
     THEN starts' < MaxStarts /\ lastExit' = "failed" /\ UNCHANGED pc
     ELSE pc' = (IF "v4" \in has' THEN "icmp" ELSE "tls") /\ UNCHANGED lastExit
  /\ UNCHANGED <<installed, hostVars, scriptVars, rulesAdded, engine>>

-----------------------------------------------------------------------------
(* ensure_icmp_conntrack_bypass, ensure_fragment_conntrack_bypass. *)

Tool == ToolOrder(pc)[attempt]
CurrentScript == Script(pc, Tool, match)

\* A command that fails, or says no, for no reason of the rules' own.
Glitch == glitches < MaxGlitches /\ glitches' = glitches + 1

\* The check says the object is missing: rightly, or not.
CheckMisses(o) == IF kernel[o] = 0 THEN UNCHANGED glitches ELSE Glitch

\* nft needs the chain for a rule, and does not add a chain twice.
CanAdd(o)    == o.tool = "nft" /\ o.kind = "rule" => kernel[[o EXCEPT !.kind = "chain"]] > 0
WithAdded(o) == [kernel EXCEPT ![o] = IF o.kind = "chain" /\ @ > 0 THEN @ ELSE @ + 1]

\* Faulty variants, for mutation: the rule is added unchecked; a failure to add
\* it is not remembered.
AddCommandUnchecked(o) ==
  \/ ok' = FALSE /\ Glitch /\ UNCHANGED kernel
  \/ CanAdd(o) /\ kernel' = WithAdded(o) /\ UNCHANGED <<ok, glitches>>
  \/ ~ CanAdd(o) /\ ok' = FALSE /\ UNCHANGED hostVars

AddCommandForgetful(o) ==
  \/ kernel[o] > 0 /\ UNCHANGED <<hostVars, ok>>
  \/ kernel[o] = 0 /\ Glitch /\ UNCHANGED <<kernel, ok>>
  \/ CheckMisses(o) /\ CanAdd(o) /\ kernel' = WithAdded(o) /\ UNCHANGED ok
  \/ kernel[o] = 0 /\ ~ CanAdd(o) /\ UNCHANGED <<hostVars, ok>>

\* The check finds the object; or the object cannot be added; or it is added.
AddCommand(o) ==
  \/ kernel[o] > 0 /\ UNCHANGED <<hostVars, ok>>
  \/ kernel[o] = 0 /\ Glitch /\ ok' = FALSE /\ UNCHANGED kernel
  \/ kernel[o] = 0 /\ ~ CanAdd(o) /\ ok' = FALSE /\ UNCHANGED hostVars
  \/ CheckMisses(o) /\ CanAdd(o) /\ kernel' = WithAdded(o) /\ UNCHANGED ok

\* Faulty variant, for mutation: a failed command is tried until it works.
EnsureStepRetries ==
  /\ pc \in Topic /\ Tool \in installed
  /\ next \in DOMAIN CurrentScript
  /\ AddCommand(CurrentScript[next])
  /\ next' = IF ok' THEN next + 1 ELSE next
  /\ UNCHANGED <<installed, starts, pc, has, match, attempt, rulesAdded, engine, lastExit>>

\* One check-or-add of the tool's script; a failed one does not end it.
EnsureStep ==
  /\ pc \in Topic /\ Tool \in installed
  /\ next \in DOMAIN CurrentScript
  /\ AddCommand(CurrentScript[next])
  /\ next' = next + 1
  /\ UNCHANGED <<installed, starts, pc, has, match, attempt, rulesAdded, engine, lastExit>>

\* The script is over (or the tool missing): try the other one, or go on.
\* For fragments, success registers the clean-up with atexit.
ToolDone ==
  /\ pc \in Topic
  /\ Tool \in installed => next \notin DOMAIN CurrentScript
  /\ LET configured == Tool \in installed /\ ok
     IN  IF configured \/ attempt = 2
         THEN /\ pc' = IF pc = "icmp" THEN "frag" ELSE "tls"
              /\ attempt' = 1
              /\ rulesAdded' = (pc = "frag" /\ configured)
         ELSE attempt' = 2 /\ UNCHANGED <<pc, rulesAdded>>
  /\ next' = 1 /\ ok' = TRUE
  /\ UNCHANGED <<installed, hostVars, starts, has, match, engine, lastExit>>

-----------------------------------------------------------------------------
(* main() from init_openssl on, and the engines. *)

LoadTls ==
  /\ pc = "tls" /\ pc' = "v4"
  /\ UNCHANGED <<installed, hostVars, starts, has, match, scriptVars, rulesAdded, engine, lastExit>>

\* The addresses of family f resolve and its thread starts, if it is configured.
StartEngine(f) ==
  /\ pc = f
  /\ pc' = IF f = "v4" THEN "v6" ELSE "join"
  /\ engine' = IF f \in has THEN [engine EXCEPT ![f] = "binding"] ELSE engine
  /\ UNCHANGED <<installed, hostVars, starts, has, match, scriptVars, rulesAdded, lastExit>>

\* run_server_engine has bound its listeners.  Raw sockets it may do without.
EngineReady(f) ==
  /\ engine[f] = "binding"
  /\ engine' = [engine EXCEPT ![f] = "polling"]
  /\ UNCHANGED <<installed, hostVars, starts, pc, has, match, scriptVars, rulesAdded, lastExit>>

FaultsRemain == starts < MaxStarts

\* The process ends without running its atexit handlers.
Abort ==
  /\ pc' = "down" /\ lastExit' = "aborted"
  /\ rulesAdded' = FALSE /\ engine' = NoEngine
  /\ attempt' = 1 /\ next' = 1 /\ ok' = TRUE
  /\ UNCHANGED <<installed, hostVars, starts, has, match>>

\* main() returns 1, and exit() runs the clean-up if it is registered.
ReturnFailure ==
  /\ IF rulesAdded THEN pc' = "cleanup" /\ UNCHANGED lastExit
                   ELSE pc' = "down" /\ lastExit' = "failed"
  /\ rulesAdded' = FALSE
  /\ UNCHANGED <<installed, hostVars, starts, has, match, scriptVars, engine>>

\* Faulty variant, for mutation: the engines are detached, not destroyed.
MainThrowsDetached ==
  /\ FaultsRemain
  /\ pc = "tls" \/ pc \in Family \cap has
  /\ ReturnFailure

\* init_openssl or resolve_endpoint throws.  While an engine runs, unwinding
\* destroys its joinable std::thread: std::terminate.
MainThrows ==
  /\ FaultsRemain
  /\ pc = "tls" \/ pc \in Family \cap has
  /\ IF engine = NoEngine THEN ReturnFailure ELSE Abort

\* A listener cannot be bound, or poll fails: an exception leaves the thread.
EngineThrows(f) == FaultsRemain /\ engine[f] # "none" /\ Abort

\* A signal, SIGTERM of "systemctl stop" included: no handler is installed.
Killed == FaultsRemain /\ pc # "down" /\ Abort

\* Deleting removes one copy of an iptables rule, and an nft table whole.
WithDeleted(objs) ==
  [o \in Object |-> IF o \notin objs THEN kernel[o]
                    ELSE IF o.tool = "nft" \/ kernel[o] = 0 THEN 0 ELSE kernel[o] - 1]

CleanupStep ==
  /\ pc = "cleanup" /\ next \in DOMAIN CleanupScript
  /\ LET objs == {o \in CleanupScript[next] : o.tool \in installed}
     IN  \/ kernel' = WithDeleted(objs) /\ UNCHANGED glitches
         \/ Glitch /\ UNCHANGED kernel
  /\ next' = next + 1
  /\ UNCHANGED <<installed, starts, pc, has, match, attempt, ok, rulesAdded, engine, lastExit>>

CleanupDone ==
  /\ pc = "cleanup" /\ next \notin DOMAIN CleanupScript
  /\ pc' = "down" /\ lastExit' = "cleaned" /\ next' = 1
  /\ UNCHANGED <<installed, hostVars, starts, has, match, attempt, ok, rulesAdded, engine>>

\* The process's own steps, and systemd's Restart=always.
Progress == \/ Start \/ EnsureStep \/ ToolDone \/ LoadTls \/ CleanupStep \/ CleanupDone
            \/ \E f \in Family : StartEngine(f) \/ EngineReady(f)

Next == \/ Progress \/ MainThrows \/ Killed
        \/ \E f \in Family : EngineThrows(f)

Spec == Init /\ [][Next]_vars

\* The process runs and systemd restarts it.  With RestartSec=3 it stays below
\* systemd's limit of five starts in ten seconds.
FairSpec == Spec /\ WF_vars(Progress)

-----------------------------------------------------------------------------
(* The poll loop's descriptors: sixteen listeners, then the raw sockets    *)
(* that could be opened.                                                   *)

RawSockets == <<"icmp1", "icmp2", "dccp1", "dccp2">>
Listeners == [i \in 1..16 |-> <<"listener", i>>]
Pushed(k, open) == IF RawSockets[k] \in open THEN <<RawSockets[k]>> ELSE <<>>
Descriptors(open) ==
  Listeners \o Pushed(1, open) \o Pushed(2, open) \o Pushed(3, open) \o Pushed(4, open)

\* Faulty variant, for mutation: idx++ whether or not the socket is open.
WalkIndexAlways(open) == [k \in 1..4 |-> 16 + k]

\* idx at each raw socket of the walk over the results of poll: it is
\* advanced past those that are open.
WalkIndex(open) ==
  [k \in 1..4 |-> 17 + Cardinality({j \in 1 .. k - 1 : RawSockets[j] \in open})]

-----------------------------------------------------------------------------
(* Properties. *)

\* However often the process is killed and started again, no rule piles up: an
\* extra copy of one is owed to a command that failed wrongly.
NoPileUp == \A o \in Object : kernel[o] <= 1 + glitches

\* When the code believes the fragment bypass is set up, one mechanism is there
\* on both hooks, which the scripts' early failures, and rules left over from
\* earlier lives, do not make obvious.
BypassActive ==
  rulesAdded => \E t \in {<<"nft", "rule">>, <<"iptables", "u32">>, <<"iptables", "f">>} :
                  \A h \in Hook : kernel[Obj(t[1], "frag", t[2], h)] > 0

\* The clean-up of a failed start removes every fragment rule, those of killed
\* lives and of the other kind of match included.
CleanExit ==
  pc = "down" /\ lastExit = "cleaned" => \A o \in FragObjects : kernel[o] <= glitches

\* No rule is taken from under an engine that runs.
RulesOutliveEngines ==
  [][(\E o \in Object : kernel'[o] < kernel[o]) => engine = NoEngine]_vars

\* The walk of an engine's loop reads each raw socket's own result, whichever of
\* them could not be opened.
WalkFindsSocket ==
  (\E f \in Family : engine[f] = "polling") =>
    \A open \in SUBSET {RawSockets[k] : k \in 1..4}, k \in 1..4 :
      RawSockets[k] \in open =>
        LET i == WalkIndex(open)[k]
        IN  i \in DOMAIN Descriptors(open) /\ Descriptors(open)[i] = RawSockets[k]

\* When the faults end, every configured family is served, and stays so.
Recovers == <>[](has # {} /\ \A f \in has : engine[f] = "polling")
=============================================================================
