----------------------------- MODULE Discovery -----------------------------
(***************************************************************************)
(* What a NAT behaviour test promises its caller, without exchanges,       *)
(* datagrams or servers (the StunResult5389 of src/tests/rfc5780_test.cpp, *)
(* seen from outside): verdicts appear once, in order, they never flatter  *)
(* the NAT, and a mapping verdict ends the test.                           *)
(***************************************************************************)
CONSTANTS FilteringVerdicts, MappingVerdicts,
          FlattersFilter(_, _),    \* a verdict more open than the NAT's filter
          FlattersMapping(_, _)    \* a verdict other than the NAT's mapping

VARIABLES behavior, filtering, mapping, done

vars == <<behavior, filtering, mapping, done>>

Init == filtering = "Unknown" /\ mapping = "Unknown" /\ ~ done

DecideFiltering ==
  /\ filtering = "Unknown" /\ mapping = "Unknown"
  /\ filtering' \in {v \in FilteringVerdicts : ~ FlattersFilter(v, behavior)}

DecideMapping ==
  /\ mapping = "Unknown"
  /\ mapping' \in {v \in MappingVerdicts : ~ FlattersMapping(v, behavior)}
  /\ done'

Step ==
  /\ ~ done
  /\ DecideFiltering \/ UNCHANGED filtering
  /\ DecideMapping \/ UNCHANGED mapping
  /\ UNCHANGED behavior

Next == Step

Spec == Init /\ [][Next]_vars
=============================================================================
