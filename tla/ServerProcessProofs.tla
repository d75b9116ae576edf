------------------------- MODULE ServerProcessProofs -------------------------
(***************************************************************************)
(* Proofs about ServerProcess, for every number of restarts and of failing *)
(* commands.                                                               *)
(***************************************************************************)
EXTENDS ServerProcess, FiniteSetTheorems, SequenceTheorems, TLAPS

-----------------------------------------------------------------------------
(* The scripts. *)

Tools == {"iptables", "nft"}
Matches == {"u32", "f"}

LEMMA ObjType ==
  ASSUME NEW topic \in Topic, NEW hook \in Hook, NEW how \in Matches
  PROVE  /\ Obj("nft", topic, "chain", hook) \in Object
         /\ Obj("nft", topic, "rule", hook) \in Object
         /\ Obj("iptables", "icmp", "p icmp", hook) \in Object
         /\ Obj("iptables", "frag", how, hook) \in Object
BY DEF Obj, Object, Matches

\* A tool's script holds objects of that tool only.
LEMMA ScriptType ==
  ASSUME NEW topic \in Topic, NEW tool \in Tools, NEW how \in Matches,
         NEW i \in DOMAIN Script(topic, tool, how)
  PROVE  /\ Script(topic, tool, how)[i] \in Object
         /\ Script(topic, tool, how)[i].tool = tool
         /\ i \in 1..4
<1> DEFINE O == Script(topic, tool, how)[i]
<1>1. "OUTPUT" \in Hook /\ "PREROUTING" \in Hook
  BY DEF Hook
<1>3. CASE tool = "nft"
  <2>1. i \in {1, 2, 3, 4}
    BY <1>3 DEF Script
  <2>2. \E kind \in {"chain", "rule"}, hook \in Hook : O = Obj("nft", topic, kind, hook)
    BY <1>1, <1>3, <2>1 DEF Script
  <2>3. PICK kind \in {"chain", "rule"}, hook \in Hook : O = Obj("nft", topic, kind, hook)
    BY <2>2
  <2>4. O \in Object
    BY <2>3, ObjType DEF Matches
  <2>5. O.tool = "nft"
    BY <2>3 DEF Obj
  <2> QED BY <1>3, <2>1, <2>4, <2>5
<1>4. CASE tool = "iptables"
  <2> DEFINE kind == IF topic = "icmp" THEN "p icmp" ELSE how
  <2>0. Script(topic, tool, how) =
          << Obj("iptables", topic, kind, "OUTPUT"), Obj("iptables", topic, kind, "PREROUTING") >>
    BY <1>4 DEF Script
  <2> HIDE DEF kind
  <2>1. i \in {1, 2}
    BY <2>0
  <2>2. \E hook \in Hook : O = Obj("iptables", topic, kind, hook)
    BY <1>1, <2>0, <2>1
  <2>3. PICK hook \in Hook : O = Obj("iptables", topic, kind, hook)
    BY <2>2
  <2>4. O \in Object
    BY <2>3, ObjType DEF Topic, kind
  <2>5. O.tool = "iptables"
    BY <2>3 DEF Obj
  <2> QED BY <1>4, <2>1, <2>4, <2>5
<1> QED BY <1>3, <1>4 DEF Tools

\* The clean-up's script lists every fragment object.
LEMMA CleanupComplete ==
  \A o \in FragObjects : \E i \in 1..5 : o \in CleanupScript[i]
<1> SUFFICES ASSUME NEW o \in FragObjects
             PROVE  \E i \in 1..5 : o \in CleanupScript[i]
  OBVIOUS
<1>1. CASE o.tool = "nft"
  <2>1. o \in CleanupScript[5]
    BY <1>1 DEF CleanupScript
  <2> QED BY <2>1
<1>2. CASE o.tool = "iptables"
  <2>1. \E kind \in Matches, hook \in Hook : o = Obj("iptables", "frag", kind, hook)
    BY <1>2 DEF FragObjects, Object, Obj, Matches
  <2>2. \/ o \in CleanupScript[1] \/ o \in CleanupScript[2]
        \/ o \in CleanupScript[3] \/ o \in CleanupScript[4]
    BY <2>1 DEF CleanupScript, Matches, Hook
  <2> QED BY <2>2
<1> QED BY <1>1, <1>2 DEF FragObjects, Object

LEMMA CleanupType ==
  ASSUME NEW i \in 1..5, NEW o \in CleanupScript[i]
  PROVE  o \in Object
<1>1. i = 1 \/ i = 2 \/ i = 3 \/ i = 4 \/ i = 5
  OBVIOUS
<1>2. "OUTPUT" \in Hook /\ "PREROUTING" \in Hook
  BY DEF Hook
<1>3. CASE i = 5
  BY <1>3 DEF CleanupScript, FragObjects
<1>4. CASE i \in 1..4
  <2>1. \E kind \in Matches, hook \in Hook : o = Obj("iptables", "frag", kind, hook)
    BY <1>1, <1>2, <1>4 DEF CleanupScript, Matches
  <2> QED BY <2>1, ObjType DEF Topic
<1> QED BY <1>1, <1>3, <1>4

LEMMA CleanupLength == DOMAIN CleanupScript = 1..5
BY DEF CleanupScript

-----------------------------------------------------------------------------
(* The inductive invariant. *)

\* What the firewall holds was put there by a tool of the host.
OfInstalledTool == \A o \in Object : kernel[o] > 0 => o.tool \in installed

\* While no command of a script has failed, all it has been through is there.
SoFarAdded ==
  pc \in Topic /\ Tool \in installed /\ ok =>
    \A i \in 1 .. next - 1 : i \in DOMAIN CurrentScript => kernel[CurrentScript[i]] > 0

\* Scripts are entered at their first command.
ScriptAtStart == pc \notin Topic \cup {"cleanup"} => next = 1

\* What the clean-up has been through is gone.
SoFarCleaned ==
  pc = "cleanup" =>
    \A i \in 1 .. next - 1 : i <= 5 => \A o \in CleanupScript[i] : kernel[o] <= glitches

\* The clean-up runs in a process without engines, and only once.
CleanupAlone == pc = "cleanup" => engine = NoEngine /\ ~ rulesAdded

IInv == /\ TypeOK /\ NoPileUp /\ BypassActive /\ CleanExit
        /\ OfInstalledTool /\ SoFarAdded /\ ScriptAtStart /\ SoFarCleaned /\ CleanupAlone

LEMMA ToolType ==
  ASSUME TypeOK, pc \in Topic
  PROVE  Tool \in Tools
BY DEF TypeOK, Tool, Tools, ToolOrder

LEMMA InitEstablishesIInv == Init => IInv
<1> SUFFICES ASSUME Init PROVE IInv
  OBVIOUS
<1> USE Bounds DEF Init
<1>1. TypeOK
  <2>1. kernel \in [Object -> Nat] /\ engine \in [Family -> {"none", "binding", "polling"}]
    BY DEF NoEngine
  <2>2. ok \in BOOLEAN /\ rulesAdded \in BOOLEAN
    OBVIOUS
  <2>3. installed \subseteq {"iptables", "nft"} /\ has \subseteq Family
    OBVIOUS
  <2>4. glitches \in 0..MaxGlitches /\ starts \in 0..MaxStarts
    OBVIOUS
  <2> QED BY <2>1, <2>2, <2>3, <2>4 DEF TypeOK
<1>2. NoPileUp /\ OfInstalledTool
  BY DEF NoPileUp, OfInstalledTool
<1>3. BypassActive /\ CleanExit /\ SoFarAdded /\ ScriptAtStart /\ SoFarCleaned /\ CleanupAlone
  BY DEF BypassActive, CleanExit, SoFarAdded, ScriptAtStart, SoFarCleaned, CleanupAlone, Topic
<1> QED BY <1>1, <1>2, <1>3 DEF IInv

\* A step that leaves the firewall alone keeps what is said of it.
LEMMA HostUnchanged ==
  ASSUME IInv, UNCHANGED <<installed, hostVars>>
  PROVE  NoPileUp' /\ OfInstalledTool'
BY DEF IInv, hostVars, NoPileUp, OfInstalledTool

LEMMA StartKeeps ==
  ASSUME IInv, Start
  PROVE  IInv'
<1> USE DEF IInv, Start, hostVars, scriptVars
<1>1. NoPileUp' /\ OfInstalledTool'
  BY HostUnchanged
<1>2. next = 1
  BY DEF ScriptAtStart, Topic
<1>3. has' \subseteq Family
  OBVIOUS
<1>4. TypeOK'
  BY <1>3, Bounds DEF TypeOK
<1>5. BypassActive' /\ CleanExit'
  BY DEF BypassActive, CleanExit
<1>6. SoFarAdded' /\ SoFarCleaned'
  BY <1>2, CleanupLength DEF SoFarAdded, SoFarCleaned
<1>7. ScriptAtStart' /\ CleanupAlone'
  BY <1>2 DEF ScriptAtStart, CleanupAlone, Topic
<1> QED BY <1>1, <1>4, <1>5, <1>6, <1>7

\* What one check-or-add does to the firewall.
LEMMA AddCommandEffect ==
  ASSUME TypeOK, NEW o \in Object, AddCommand(o), NoPileUp
  PROVE  /\ kernel' \in [Object -> Nat]
         /\ glitches' \in 0..MaxGlitches /\ glitches' >= glitches
         /\ ok' \in BOOLEAN /\ (ok' => ok /\ kernel'[o] > 0)
         /\ \A p \in Object : kernel'[p] >= kernel[p] /\ kernel'[p] <= 1 + glitches'
         /\ \A p \in Object \ {o} : kernel'[p] = kernel[p]
<1> USE DEF TypeOK, NoPileUp, hostVars
<1>1. CASE kernel[o] > 0 /\ UNCHANGED <<hostVars, ok>>
  BY <1>1
<1>2. CASE kernel[o] = 0 /\ Glitch /\ ok' = FALSE /\ UNCHANGED kernel
  <2>1. ok' \in BOOLEAN /\ ~ ok'
    BY <1>2
  <2> QED BY <1>2, <2>1, Bounds DEF Glitch
<1>3. CASE kernel[o] = 0 /\ ~ CanAdd(o) /\ ok' = FALSE /\ UNCHANGED hostVars
  <2>1. ok' \in BOOLEAN /\ ~ ok'
    BY <1>3
  <2> QED BY <1>3, <2>1
<1>4. CASE CheckMisses(o) /\ CanAdd(o) /\ kernel' = WithAdded(o) /\ UNCHANGED ok
  <2>1. /\ glitches' \in 0..MaxGlitches /\ glitches' >= glitches
        /\ kernel[o] > 0 => glitches' = glitches + 1
    BY <1>4, Bounds DEF CheckMisses, Glitch
  <2>2. \A p \in Object : p # o => kernel'[p] = kernel[p]
    BY <1>4 DEF WithAdded
  <2>3. kernel'[o] = IF o.kind = "chain" /\ kernel[o] > 0 THEN kernel[o] ELSE kernel[o] + 1
    BY <1>4 DEF WithAdded
  <2>4. kernel' \in [Object -> Nat]
    BY <1>4 DEF WithAdded
  <2>5. kernel'[o] > 0 /\ kernel'[o] <= 1 + glitches'
    BY <2>1, <2>3
  <2>6. kernel'[o] >= kernel[o]
    BY <2>3
  <2> QED BY <1>4, <2>1, <2>2, <2>4, <2>5, <2>6
<1> QED BY <1>1, <1>2, <1>3, <1>4 DEF AddCommand

\* An object of a script is one that follows it.
LEMMA ObjectsOf ==
  ASSUME TypeOK, pc \in Topic, next \in DOMAIN CurrentScript
  PROVE  CurrentScript[next] \in Object /\ CurrentScript[next].tool = Tool /\ next \in 1..4
BY ToolType, ScriptType DEF CurrentScript, TypeOK, Matches

LEMMA EnsureStepKeeps ==
  ASSUME IInv, EnsureStep
  PROVE  IInv'
<1> DEFINE o == CurrentScript[next]
<1> USE DEF IInv
<1>0. /\ pc \in Topic /\ Tool \in installed /\ next \in DOMAIN CurrentScript
      /\ AddCommand(o) /\ next' = next + 1
      /\ UNCHANGED <<installed, starts, pc, has, match, attempt, rulesAdded, engine, lastExit>>
  BY DEF EnsureStep
<1>1. o \in Object /\ o.tool = Tool /\ next \in 1..4
  BY <1>0, ObjectsOf
<1>2. /\ kernel' \in [Object -> Nat]
      /\ glitches' \in 0..MaxGlitches /\ glitches' >= glitches
      /\ ok' \in BOOLEAN /\ (ok' => ok /\ kernel'[o] > 0)
      /\ \A p \in Object : kernel'[p] >= kernel[p] /\ kernel'[p] <= 1 + glitches'
      /\ \A p \in Object \ {o} : kernel'[p] = kernel[p]
  BY <1>0, <1>1, AddCommandEffect
<1> HIDE DEF o
<1>4. TypeOK'
  BY <1>0, <1>1, <1>2 DEF TypeOK
<1>5. NoPileUp'
  BY <1>2 DEF NoPileUp
<1>6. OfInstalledTool'
  BY <1>0, <1>1, <1>2 DEF OfInstalledTool
<1>7. BypassActive' /\ CleanExit'
  <2>1. pc # "down"
    BY <1>0 DEF Topic
  <2>2. ~ rulesAdded' \/ rulesAdded
    BY <1>0
  <2>3. \A t \in {<<"nft", "rule">>, <<"iptables", "u32">>, <<"iptables", "f">>}, h \in Hook :
          Obj(t[1], "frag", t[2], h) \in Object
    <3> SUFFICES ASSUME NEW t \in {<<"nft", "rule">>, <<"iptables", "u32">>, <<"iptables", "f">>},
                        NEW h \in Hook
                 PROVE  Obj(t[1], "frag", t[2], h) \in Object
      OBVIOUS
    <3>1. CASE t = <<"nft", "rule">>
      BY <3>1, ObjType DEF Topic, Matches
    <3>2. CASE t = <<"iptables", "u32">>
      BY <3>2, ObjType DEF Topic, Matches
    <3>3. CASE t = <<"iptables", "f">>
      BY <3>3, ObjType DEF Topic, Matches
    <3> QED BY <3>1, <3>2, <3>3
  <2> QED BY <1>0, <1>2, <2>1, <2>2, <2>3 DEF BypassActive, CleanExit, TypeOK
<1>8. SoFarAdded'
  <2>0. CurrentScript' = CurrentScript /\ Tool' = Tool /\ next' - 1 = next
    BY <1>0, <1>1 DEF Tool, CurrentScript
  <2> SUFFICES ASSUME ok', NEW i \in 1 .. next, i \in DOMAIN CurrentScript
               PROVE  kernel'[CurrentScript[i]] > 0
    BY <2>0 DEF SoFarAdded
  <2>1. CASE i = next
    BY <1>2, <2>1 DEF o
  <2>2. CASE i # next
    <3>1. i \in 1 .. next - 1
      BY <1>1, <2>2
    <3>2. kernel[CurrentScript[i]] > 0
      BY <1>0, <1>2, <3>1 DEF SoFarAdded
    <3>3. CurrentScript[i] \in Object
      BY <1>0, ToolType, ScriptType DEF CurrentScript, TypeOK, Matches
    <3> QED BY <1>2, <3>2, <3>3 DEF TypeOK
  <2> QED BY <2>1, <2>2
<1>9. ScriptAtStart' /\ SoFarCleaned' /\ CleanupAlone'
  BY <1>0 DEF ScriptAtStart, SoFarCleaned, CleanupAlone, Topic
<1> QED BY <1>4, <1>5, <1>6, <1>7, <1>8, <1>9

\* A script without a failed command has set its tool's mechanism up.
LEMMA ScriptDoneMeansActive ==
  ASSUME IInv, pc = "frag", Tool \in installed, ok, next \notin DOMAIN CurrentScript
  PROVE  \E t \in {<<"nft", "rule">>, <<"iptables", "u32">>, <<"iptables", "f">>} :
           \A h \in Hook : kernel[Obj(t[1], "frag", t[2], h)] > 0
<1> USE DEF IInv
<1>1. Tool \in Tools
  BY ToolType DEF Topic
<1>2. \A i \in 1 .. next - 1 : i \in DOMAIN CurrentScript => kernel[CurrentScript[i]] > 0
  BY DEF SoFarAdded, Topic
<1>3. next \in 1..6
  BY DEF TypeOK
<1>4. CASE Tool = "nft"
  <2>1. CurrentScript = << Obj("nft", "frag", "chain", "PREROUTING"), Obj("nft", "frag", "chain", "OUTPUT"),
          Obj("nft", "frag", "rule", "OUTPUT"),      Obj("nft", "frag", "rule", "PREROUTING") >>
    BY <1>4 DEF CurrentScript, Script
  <2>2. next \in 5..6
    BY <1>3, <2>1
  <2>3. kernel[Obj("nft", "frag", "rule", "OUTPUT")] > 0 /\ kernel[Obj("nft", "frag", "rule", "PREROUTING")] > 0
    <3>1. kernel[CurrentScript[3]] > 0 /\ kernel[CurrentScript[4]] > 0
      BY <1>2, <2>1, <2>2
    <3> QED BY <2>1, <3>1
  <2>4. <<"nft", "rule">>[1] = "nft" /\ <<"nft", "rule">>[2] = "rule"
    OBVIOUS
  <2> QED BY <2>3, <2>4 DEF Hook
<1>5. CASE Tool = "iptables"
  <2>1. CurrentScript = << Obj("iptables", "frag", match, "OUTPUT"), Obj("iptables", "frag", match, "PREROUTING") >>
    BY <1>5 DEF CurrentScript, Script
  <2>2. next \in 3..6
    BY <1>3, <2>1
  <2>3. kernel[Obj("iptables", "frag", match, "OUTPUT")] > 0 /\ kernel[Obj("iptables", "frag", match, "PREROUTING")] > 0
    <3>1. kernel[CurrentScript[1]] > 0 /\ kernel[CurrentScript[2]] > 0
      BY <1>2, <2>1, <2>2
    <3> QED BY <2>1, <3>1
  <2>4. /\ match \in {"u32", "f"}
        /\ <<"iptables", match>>[1] = "iptables" /\ <<"iptables", match>>[2] = match
    BY DEF TypeOK
  <2> QED BY <2>3, <2>4 DEF Hook
<1> QED BY <1>1, <1>4, <1>5 DEF Tools

LEMMA ToolDoneKeeps ==
  ASSUME IInv, ToolDone
  PROVE  IInv'
<1> USE DEF IInv, ToolDone, hostVars
<1>1. NoPileUp' /\ OfInstalledTool'
  BY HostUnchanged
<1>2. rulesAdded' \in BOOLEAN /\ pc' \in Topic \cup {"tls"} /\ attempt' \in {1, 2}
  BY DEF TypeOK, Topic
<1>3. TypeOK'
  BY <1>2, Bounds DEF TypeOK, Topic
<1>4. BypassActive'
  <2>1. CASE rulesAdded' = rulesAdded
    BY <2>1 DEF BypassActive
  <2>2. CASE rulesAdded' # rulesAdded /\ ~ rulesAdded'
    BY <2>2 DEF BypassActive
  <2>3. CASE rulesAdded' # rulesAdded /\ rulesAdded'
    <3>1. pc = "frag" /\ Tool \in installed /\ ok /\ next \notin DOMAIN CurrentScript
      BY <1>2, <2>3
    <3> QED BY <3>1, ScriptDoneMeansActive DEF BypassActive
  <2> QED BY <2>1, <2>2, <2>3
<1>5. CleanExit' /\ SoFarCleaned' /\ CleanupAlone' /\ ScriptAtStart'
  BY <1>2 DEF CleanExit, SoFarCleaned, CleanupAlone, ScriptAtStart, Topic
<1>6. SoFarAdded'
  BY DEF SoFarAdded
<1> QED BY <1>1, <1>3, <1>4, <1>5, <1>6

\* Steps of main() past the scripts, and of the engines' start.
LEMMA ServingKeeps ==
  ASSUME IInv, \/ LoadTls \/ \E f \in Family : StartEngine(f) \/ EngineReady(f)
  PROVE  IInv'
<1> USE DEF IInv, hostVars, scriptVars
<1>1. /\ UNCHANGED <<installed, hostVars, starts, has, match, scriptVars, rulesAdded, lastExit>>
      /\ pc' = pc \/ (pc \in {"tls", "v4", "v6"} /\ pc' \in {"v4", "v6", "join"})
      /\ engine' \in [Family -> {"none", "binding", "polling"}]
      /\ pc = "cleanup" => UNCHANGED engine
  <2>1. CASE LoadTls
    BY <2>1 DEF LoadTls, TypeOK
  <2>2. CASE \E f \in Family : StartEngine(f)
    BY <2>2 DEF StartEngine, TypeOK, Family
  <2>3. CASE \E f \in Family : EngineReady(f)
    BY <2>3 DEF EngineReady, TypeOK, CleanupAlone, NoEngine
  <2> QED BY <2>1, <2>2, <2>3
<1>2. NoPileUp' /\ OfInstalledTool'
  BY <1>1, HostUnchanged
<1>3. TypeOK'
  BY <1>1 DEF TypeOK
<1>4. BypassActive' /\ CleanExit' /\ SoFarCleaned' /\ CleanupAlone'
  BY <1>1 DEF BypassActive, CleanExit, SoFarCleaned, CleanupAlone
<1>5. ScriptAtStart'
  BY <1>1 DEF ScriptAtStart, Topic
<1>6. SoFarAdded'
  BY <1>1 DEF SoFarAdded, Topic, Tool, CurrentScript
<1> QED BY <1>2, <1>3, <1>4, <1>5, <1>6

LEMMA AbortKeeps ==
  ASSUME IInv, Abort
  PROVE  IInv'
<1> USE DEF IInv, Abort, hostVars
<1>1. NoPileUp' /\ OfInstalledTool'
  BY HostUnchanged
<1>2. TypeOK'
  <2>1. rulesAdded' \in BOOLEAN /\ ok' \in BOOLEAN
    OBVIOUS
  <2>2. engine' \in [Family -> {"none", "binding", "polling"}]
    BY DEF NoEngine
  <2> QED BY <2>1, <2>2 DEF TypeOK
<1>3. BypassActive' /\ CleanExit' /\ SoFarCleaned' /\ CleanupAlone'
  BY DEF BypassActive, CleanExit, SoFarCleaned, CleanupAlone
<1>4. SoFarAdded' /\ ScriptAtStart'
  BY DEF SoFarAdded, ScriptAtStart, Topic
<1> QED BY <1>1, <1>2, <1>3, <1>4

LEMMA ReturnFailureKeeps ==
  ASSUME IInv, ReturnFailure, engine = NoEngine, pc \notin Topic \cup {"cleanup"}
  PROVE  IInv'
<1> USE DEF IInv, ReturnFailure, hostVars, scriptVars
<1>1. NoPileUp' /\ OfInstalledTool'
  BY HostUnchanged
<1>2. next = 1
  BY DEF ScriptAtStart
<1>3. TypeOK'
  <2>1. /\ rulesAdded' \in BOOLEAN
        /\ pc' \in {"down", "cleanup"} /\ lastExit' \in {lastExit, "failed"}
    OBVIOUS
  <2> QED BY <2>1 DEF TypeOK
<1>4. BypassActive' /\ CleanExit' /\ SoFarCleaned' /\ CleanupAlone'
  BY <1>2 DEF BypassActive, CleanExit, SoFarCleaned, CleanupAlone
<1>5. SoFarAdded' /\ ScriptAtStart'
  BY <1>2 DEF SoFarAdded, ScriptAtStart, Topic
<1> QED BY <1>1, <1>3, <1>4, <1>5

LEMMA FaultKeeps ==
  ASSUME IInv, MainThrows \/ Killed \/ \E f \in Family : EngineThrows(f)
  PROVE  IInv'
<1>1. CASE Killed
  BY <1>1, AbortKeeps DEF Killed
<1>2. CASE \E f \in Family : EngineThrows(f)
  BY <1>2, AbortKeeps DEF EngineThrows
<1>3. CASE MainThrows
  <2>1. pc \notin Topic \cup {"cleanup"}
    BY <1>3 DEF MainThrows, Topic, Family
  <2>2. CASE engine = NoEngine
    BY <1>3, <2>1, <2>2, ReturnFailureKeeps DEF MainThrows
  <2>3. CASE engine # NoEngine
    BY <1>3, <2>3, AbortKeeps DEF MainThrows
  <2> QED BY <2>2, <2>3
<1> QED BY <1>1, <1>2, <1>3

\* One command of the clean-up brings what it names below the bound, and adds
\* nothing.  A command that fails raises the bound instead.
LEMMA CleanupStepEffect ==
  ASSUME IInv, CleanupStep
  PROVE  /\ kernel' \in [Object -> Nat]
         /\ glitches' \in 0..MaxGlitches /\ glitches' >= glitches
         /\ \A o \in Object : kernel'[o] <= kernel[o]
         /\ \A o \in Object \cap CleanupScript[next] : kernel'[o] <= glitches'
<1> DEFINE objs == {o \in CleanupScript[next] : o.tool \in installed}
<1> USE DEF IInv
<1>1. CASE kernel' = WithDeleted(objs) /\ UNCHANGED glitches
  <2>1. \A o \in Object : /\ kernel'[o] \in Nat
                          /\ kernel'[o] <= kernel[o]
                          /\ o \in objs => kernel'[o] = 0 \/ kernel'[o] = kernel[o] - 1
    BY <1>1 DEF WithDeleted, TypeOK
  <2>2. kernel' \in [Object -> Nat]
    BY <1>1, <2>1 DEF WithDeleted
  <2>3. ASSUME NEW o \in Object \cap CleanupScript[next]
        PROVE  kernel'[o] <= glitches'
    <3>1. CASE o \in objs
      <4>1. kernel[o] \in Nat /\ kernel[o] <= 1 + glitches /\ glitches \in Nat
        BY DEF TypeOK, NoPileUp
      <4> QED BY <1>1, <2>1, <3>1, <4>1
    <3>2. CASE o \notin objs
      <4>1. kernel[o] = 0
        BY <3>2 DEF OfInstalledTool, TypeOK
      <4> QED BY <1>1, <2>1, <4>1 DEF TypeOK
    <3> QED BY <3>1, <3>2
  <2> QED BY <1>1, <2>1, <2>2, <2>3 DEF TypeOK
<1>2. CASE Glitch /\ UNCHANGED kernel
  BY <1>2, Bounds DEF Glitch, TypeOK, NoPileUp
<1> QED BY <1>1, <1>2 DEF CleanupStep

LEMMA CleanupStepKeeps ==
  ASSUME IInv, CleanupStep
  PROVE  IInv'
<1> USE DEF IInv
<1>1. /\ pc = "cleanup" /\ next \in 1..5 /\ next' = next + 1
      /\ UNCHANGED <<installed, starts, pc, has, match, attempt, ok, rulesAdded, engine, lastExit>>
  BY CleanupLength DEF CleanupStep
<1>2. /\ kernel' \in [Object -> Nat]
      /\ glitches' \in 0..MaxGlitches /\ glitches' >= glitches
      /\ \A o \in Object : kernel'[o] <= kernel[o]
      /\ \A o \in Object \cap CleanupScript[next] : kernel'[o] <= glitches'
  BY CleanupStepEffect
<1>3. TypeOK'
  BY <1>1, <1>2 DEF TypeOK
<1>4. NoPileUp' /\ OfInstalledTool'
  BY <1>1, <1>2 DEF NoPileUp, OfInstalledTool, TypeOK
<1>5. BypassActive' /\ CleanExit' /\ SoFarAdded' /\ ScriptAtStart' /\ CleanupAlone'
  BY <1>1 DEF BypassActive, CleanExit, SoFarAdded, ScriptAtStart, CleanupAlone, Topic
<1>6. SoFarCleaned'
  <2> SUFFICES ASSUME NEW i \in 1 .. next, i <= 5, NEW o \in CleanupScript[i]
               PROVE  kernel'[o] <= glitches'
    BY <1>1 DEF SoFarCleaned
  <2>1. o \in Object
    BY CleanupType
  <2>2. CASE i = next
    BY <1>2, <2>1, <2>2
  <2>3. CASE i # next
    <3>1. i \in 1 .. next - 1
      BY <1>1, <2>3
    <3>2. kernel[o] <= glitches
      BY <1>1, <3>1 DEF SoFarCleaned
    <3> QED BY <1>2, <2>1, <3>2 DEF TypeOK
  <2> QED BY <2>2, <2>3
<1> QED BY <1>3, <1>4, <1>5, <1>6

LEMMA CleanupDoneKeeps ==
  ASSUME IInv, CleanupDone
  PROVE  IInv'
<1> USE DEF IInv, CleanupDone, hostVars
<1>1. NoPileUp' /\ OfInstalledTool'
  BY HostUnchanged
<1>2. next = 6
  BY CleanupLength DEF TypeOK
<1>3. TypeOK'
  BY DEF TypeOK
<1>4. CleanExit'
  <2> SUFFICES ASSUME NEW o \in FragObjects PROVE kernel[o] <= glitches
    BY DEF CleanExit
  <2>1. PICK i \in 1..5 : o \in CleanupScript[i]
    BY CleanupComplete
  <2> QED BY <1>2, <2>1 DEF SoFarCleaned
<1>5. BypassActive' /\ SoFarCleaned' /\ CleanupAlone' /\ SoFarAdded' /\ ScriptAtStart'
  BY DEF BypassActive, SoFarCleaned, CleanupAlone, SoFarAdded, ScriptAtStart, Topic
<1> QED BY <1>1, <1>3, <1>4, <1>5

LEMMA StutterKeeps ==
  ASSUME IInv, UNCHANGED vars
  PROVE  IInv'
<1> USE DEF IInv, vars, hostVars, scriptVars
<1>1. NoPileUp' /\ OfInstalledTool'
  BY HostUnchanged
<1>2. TypeOK' /\ BypassActive' /\ CleanExit'
  BY DEF TypeOK, BypassActive, CleanExit
<1>3. SoFarAdded' /\ ScriptAtStart' /\ SoFarCleaned' /\ CleanupAlone'
  BY DEF SoFarAdded, ScriptAtStart, SoFarCleaned, CleanupAlone, Tool, CurrentScript
<1> QED BY <1>1, <1>2, <1>3

LEMMA StepKeepsIInv == IInv /\ [Next]_vars => IInv'
<1> SUFFICES ASSUME IInv, [Next]_vars PROVE IInv'
  OBVIOUS
<1>1. CASE Start                                    BY <1>1, StartKeeps
<1>2. CASE EnsureStep                               BY <1>2, EnsureStepKeeps
<1>3. CASE ToolDone                                 BY <1>3, ToolDoneKeeps
<1>4. CASE LoadTls \/ \E f \in Family : StartEngine(f) \/ EngineReady(f)
  BY <1>4, ServingKeeps
<1>5. CASE CleanupStep                              BY <1>5, CleanupStepKeeps
<1>6. CASE CleanupDone                              BY <1>6, CleanupDoneKeeps
<1>7. CASE MainThrows \/ Killed \/ \E f \in Family : EngineThrows(f)
  BY <1>7, FaultKeeps
<1>8. CASE UNCHANGED vars                           BY <1>8, StutterKeeps
<1> QED BY <1>1, <1>2, <1>3, <1>4, <1>5, <1>6, <1>7, <1>8 DEF Next, Progress

-----------------------------------------------------------------------------
(* The walk over the descriptors. *)

\* The walk's index is advanced by one past an open socket, and by nothing past
\* one that could not be opened.
LEMMA WalkAdvances ==
  ASSUME NEW open
  PROVE  /\ WalkIndex(open)[1] = 17
         /\ \A k \in 1..3 : WalkIndex(open)[k + 1] = WalkIndex(open)[k] + Len(Pushed(k, open))
<1> DEFINE Before(k) == {j \in 1 .. k - 1 : RawSockets[j] \in open}
<1>1. \A k \in 1..4 : WalkIndex(open)[k] = 17 + Cardinality(Before(k))
  BY DEF WalkIndex
<1>2. Before(1) = {}
  OBVIOUS
<1>3. ASSUME NEW k \in 1..3
      PROVE  WalkIndex(open)[k + 1] = WalkIndex(open)[k] + Len(Pushed(k, open))
  <2>1. IsFiniteSet(Before(k)) /\ Cardinality(Before(k)) \in Nat
    <3>1. IsFiniteSet(1 .. k - 1)
      BY FS_Interval
    <3>2. IsFiniteSet(Before(k))
      BY <3>1, FS_Subset
    <3> QED BY <3>2, FS_CardinalityType
  <2>2. k \notin Before(k)
    OBVIOUS
  <2>3. CASE RawSockets[k] \in open
    <3>1. Before(k + 1) = Before(k) \cup {k}
      BY <2>3
    <3>2. Cardinality(Before(k + 1)) = Cardinality(Before(k)) + 1
      BY <2>1, <2>2, <3>1, FS_AddElement
    <3>3. Len(Pushed(k, open)) = 1
      BY <2>3 DEF Pushed
    <3> HIDE DEF Before
    <3> QED BY <1>1, <2>1, <3>2, <3>3
  <2>4. CASE RawSockets[k] \notin open
    <3>1. Before(k + 1) = Before(k)
      BY <2>4
    <3>2. Len(Pushed(k, open)) = 0
      BY <2>4 DEF Pushed
    <3> HIDE DEF Before
    <3> QED BY <1>1, <2>1, <3>1, <3>2
  <2> QED BY <2>3, <2>4
<1> QED BY <1>1, <1>2, <1>3, FS_EmptySet

\* A piece appended to a sequence: what was there stays, and the piece follows.
FollowedBy(B, p, C) ==
  /\ Len(C) = Len(B) + Len(p) /\ DOMAIN C = 1 .. Len(C)
  /\ \A i \in 1 .. Len(B) : C[i] = B[i]
  /\ Len(p) > 0 => C[Len(B) + 1] = p[1]

LEMMA Appended ==
  ASSUME NEW A, NEW B \in Seq(A), NEW p \in Seq(A)
  PROVE  /\ B \o p \in Seq(A) /\ Len(B) \in Nat /\ Len(p) \in Nat
         /\ FollowedBy(B, p, B \o p)
<1> DEFINE C == B \o p
<1>1. Len(B) \in Nat /\ Len(p) \in Nat
  BY LenProperties
<1>2. /\ C \in Seq(A) /\ Len(C) = Len(B) + Len(p)
      /\ \A i \in 1 .. Len(B) + Len(p) : C[i] = IF i <= Len(B) THEN B[i] ELSE p[i - Len(B)]
  BY ConcatProperties
<1>3. DOMAIN C = 1 .. Len(C)
  BY <1>2, LenProperties
<1>4. \A i \in 1 .. Len(B) : C[i] = B[i]
  BY <1>1, <1>2
<1>5. ASSUME Len(p) > 0 PROVE C[Len(B) + 1] = p[1]
  <2>1. /\ Len(B) + 1 \in 1 .. Len(B) + Len(p) /\ ~ (Len(B) + 1 <= Len(B))
        /\ (Len(B) + 1) - Len(B) = 1
    BY <1>1, <1>5
  <2> QED BY <1>2, <2>1
<1> QED BY <1>1, <1>2, <1>3, <1>4, <1>5 DEF FollowedBy

\* Four pieces one after another: where the first element of each is.
LEMMA PiecesInOrder ==
  ASSUME NEW L, NEW p, NEW q, NEW r, NEW s, NEW B, NEW C, NEW D, NEW E,
         Len(L) = 16, Len(p) \in {0, 1}, Len(q) \in {0, 1}, Len(r) \in {0, 1}, Len(s) \in {0, 1},
         FollowedBy(L, p, B), FollowedBy(B, q, C), FollowedBy(C, r, D), FollowedBy(D, s, E)
  PROVE  /\ DOMAIN E = 1 .. 16 + Len(p) + Len(q) + Len(r) + Len(s)
         /\ Len(p) > 0 => E[17] = p[1]
         /\ Len(q) > 0 => E[17 + Len(p)] = q[1]
         /\ Len(r) > 0 => E[17 + Len(p) + Len(q)] = r[1]
         /\ Len(s) > 0 => E[17 + Len(p) + Len(q) + Len(r)] = s[1]
<1>1. Len(B) = 16 + Len(p) /\ (Len(p) > 0 => B[17] = p[1])
  BY DEF FollowedBy
<1>2. /\ Len(C) = 16 + Len(p) + Len(q)
      /\ Len(p) > 0 => C[17] = p[1]
      /\ Len(q) > 0 => C[17 + Len(p)] = q[1]
  BY <1>1 DEF FollowedBy
<1>3. /\ Len(D) = 16 + Len(p) + Len(q) + Len(r)
      /\ Len(p) > 0 => D[17] = p[1]
      /\ Len(q) > 0 => D[17 + Len(p)] = q[1]
      /\ Len(r) > 0 => D[17 + Len(p) + Len(q)] = r[1]
  BY <1>2 DEF FollowedBy
<1>4. /\ Len(E) = 16 + Len(p) + Len(q) + Len(r) + Len(s) /\ DOMAIN E = 1 .. Len(E)
      /\ \A i \in 1 .. Len(D) : E[i] = D[i]
      /\ Len(s) > 0 => E[Len(D) + 1] = s[1]
  BY <1>3 DEF FollowedBy
<1>5. Len(p) > 0 => E[17] = p[1]
  BY <1>3, <1>4
<1>6. Len(q) > 0 => E[17 + Len(p)] = q[1]
  BY <1>3, <1>4
<1>7. Len(r) > 0 => E[17 + Len(p) + Len(q)] = r[1]
  BY <1>3, <1>4
<1>8. Len(s) > 0 => E[17 + Len(p) + Len(q) + Len(r)] = s[1]
  BY <1>3, <1>4
<1> QED BY <1>4, <1>5, <1>6, <1>7, <1>8

LEMMA WalkReadsOwn ==
  ASSUME NEW open, NEW k \in 1..4, RawSockets[k] \in open
  PROVE  /\ WalkIndex(open)[k] \in DOMAIN Descriptors(open)
         /\ Descriptors(open)[WalkIndex(open)[k]] = RawSockets[k]
<1> DEFINE A == {Listeners[i] : i \in 1..16} \cup {RawSockets[i] : i \in 1..4}
<1> DEFINE n(i) == Len(Pushed(i, open))
<1>1. Listeners \in Seq(A) /\ Len(Listeners) = 16
  BY DEF Listeners
<1>2. ASSUME NEW i \in 1..4
      PROVE  /\ Pushed(i, open) \in Seq(A) /\ n(i) \in {0, 1}
             /\ i = k => n(i) > 0 /\ Pushed(i, open)[1] = RawSockets[k]
  <2>1. CASE RawSockets[i] \in open
    <3>1. Pushed(i, open) = <<RawSockets[i]>> /\ RawSockets[i] \in A
      BY <2>1 DEF Pushed
    <3> HIDE DEF A
    <3> QED BY <3>1
  <2>2. CASE RawSockets[i] \notin open
    <3>1. Pushed(i, open) = << >> /\ i # k
      BY <2>2 DEF Pushed
    <3> HIDE DEF A
    <3> QED BY <3>1
  <2> QED BY <2>1, <2>2
<1> HIDE DEF A
<1>3. /\ DOMAIN Descriptors(open) = 1 .. 16 + n(1) + n(2) + n(3) + n(4)
      /\ n(1) > 0 => Descriptors(open)[17] = Pushed(1, open)[1]
      /\ n(2) > 0 => Descriptors(open)[17 + n(1)] = Pushed(2, open)[1]
      /\ n(3) > 0 => Descriptors(open)[17 + n(1) + n(2)] = Pushed(3, open)[1]
      /\ n(4) > 0 => Descriptors(open)[17 + n(1) + n(2) + n(3)] = Pushed(4, open)[1]
  <2> DEFINE B == Listeners \o Pushed(1, open)
             C == B \o Pushed(2, open)
             D == C \o Pushed(3, open)
             E == D \o Pushed(4, open)
  <2>1. B \in Seq(A) /\ FollowedBy(Listeners, Pushed(1, open), B)
    <3>1. Pushed(1, open) \in Seq(A)
      BY <1>2
    <3> QED BY <1>1, <3>1, Appended
  <2>2. C \in Seq(A) /\ FollowedBy(B, Pushed(2, open), C)
    <3>1. Pushed(2, open) \in Seq(A)
      BY <1>2
    <3> HIDE DEF B
    <3> QED BY <2>1, <3>1, Appended
  <2>3. D \in Seq(A) /\ FollowedBy(C, Pushed(3, open), D)
    <3>1. Pushed(3, open) \in Seq(A)
      BY <1>2
    <3> HIDE DEF C
    <3> QED BY <2>2, <3>1, Appended
  <2>4. FollowedBy(D, Pushed(4, open), E)
    <3>1. Pushed(4, open) \in Seq(A)
      BY <1>2
    <3> HIDE DEF D
    <3> QED BY <2>3, <3>1, Appended
  <2>5. Descriptors(open) = E
    BY DEF Descriptors
  <2>6. n(1) \in {0, 1} /\ n(2) \in {0, 1} /\ n(3) \in {0, 1} /\ n(4) \in {0, 1}
    BY <1>2
  <2> HIDE DEF B, C, D, E
  <2> QED BY <1>1, <2>1, <2>2, <2>3, <2>4, <2>5, <2>6, PiecesInOrder
<1>4. /\ WalkIndex(open)[1] = 17 /\ WalkIndex(open)[2] = 17 + n(1)
      /\ WalkIndex(open)[3] = 17 + n(1) + n(2) /\ WalkIndex(open)[4] = 17 + n(1) + n(2) + n(3)
  <2>1. /\ WalkIndex(open)[1 + 1] = WalkIndex(open)[1] + n(1)
        /\ WalkIndex(open)[2 + 1] = WalkIndex(open)[2] + n(2)
        /\ WalkIndex(open)[3 + 1] = WalkIndex(open)[3] + n(3)
    BY WalkAdvances
  <2> QED BY <2>1, WalkAdvances
<1>5. /\ n(1) \in {0, 1} /\ n(2) \in {0, 1} /\ n(3) \in {0, 1} /\ n(4) \in {0, 1}
      /\ n(k) > 0 /\ Pushed(k, open)[1] = RawSockets[k]
  BY <1>2
<1>6. k \in {1, 2, 3, 4}
  OBVIOUS
<1> HIDE DEF n
<1> QED BY <1>3, <1>4, <1>5, <1>6

-----------------------------------------------------------------------------
(* The theorems. *)

\* IInv holds throughout.
THEOREM Invariance == Spec => []IInv
<1> QED BY InitEstablishesIInv, StepKeepsIInv, PTL DEF Spec

\* Restarts do not pile rules up: a copy too many is owed to a command that
\* failed wrongly (the check-then-insert of try_add_rule and its likes).
THEOREM RulesDoNotPileUp == Spec => []NoPileUp
<1>1. IInv => NoPileUp
  BY DEF IInv
<1> QED BY <1>1, Invariance, PTL

\* s_fragment_rules_added tells the truth: the bypass is in place on both hooks.
THEOREM FragmentBypassActive == Spec => []BypassActive
<1>1. IInv => BypassActive
  BY DEF IInv
<1> QED BY <1>1, Invariance, PTL

\* The atexit handler removes every fragment rule of this and earlier lives.
THEOREM CleanupIsComplete == Spec => []CleanExit
<1>1. IInv => CleanExit
  BY DEF IInv
<1> QED BY <1>1, Invariance, PTL

\* No step takes a rule away while an engine thread runs.
THEOREM RulesKeptWhileServing == Spec => RulesOutliveEngines
<1>1. IInv /\ [Next]_vars => [(\E o \in Object : kernel'[o] < kernel[o]) => engine = NoEngine]_vars
  <2> SUFFICES ASSUME IInv, Next, NEW o \in Object, kernel'[o] < kernel[o]
               PROVE  engine = NoEngine
    BY DEF vars
  <2> USE DEF IInv
  <2>1. kernel[o] \in Nat
    BY DEF TypeOK
  <2>2. CASE CleanupStep
    BY <2>2 DEF CleanupStep, CleanupAlone
  <2>3. CASE EnsureStep
    <3>1. kernel'[o] >= kernel[o]
      BY <2>3, ObjectsOf, AddCommandEffect DEF EnsureStep
    <3>2. kernel'[o] \in Nat
      BY <2>3, ObjectsOf, AddCommandEffect DEF EnsureStep
    <3> QED BY <2>1, <3>1, <3>2
  <2>4. CASE UNCHANGED kernel
    BY <2>1, <2>4
  <2> QED
    BY <2>2, <2>3, <2>4
    DEF Next, Progress, Start, ToolDone, LoadTls, CleanupDone, StartEngine, EngineReady,
        MainThrows, ReturnFailure, Killed, EngineThrows, Abort, hostVars
<1> QED BY <1>1, Invariance, PTL DEF Spec, RulesOutliveEngines

\* An engine's loop reads each raw socket's own result of poll, whichever of the
\* four sockets could not be opened.
THEOREM WalkReadsOwnResults == Spec => []WalkFindsSocket
<1>1. WalkFindsSocket
  BY WalkReadsOwn DEF WalkFindsSocket
<1> QED BY <1>1, PTL
=============================================================================
