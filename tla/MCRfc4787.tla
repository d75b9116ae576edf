----------------------------- MODULE MCRfc4787 -----------------------------
(* The plans of the RFC 4787 test, for TLC. *)
EXTENDS Rfc4787, TLC

\* run_rfc4787_tests, and run_determinism_check.
AllPlan == <<"BindingOnly", "Mapping", "Filtering">>
DeterminismPlan == <<"Full", "Full", "Full">>

\* The determinism check is about a network that loses nothing.
EveryCampaign ==
  [plan : {AllPlan}, fixedPort : BOOLEAN, timely : BOOLEAN] \cup
  [plan : {DeterminismPlan}, fixedPort : {FALSE}, timely : {TRUE}]

OneFixedPort == [plan : {AllPlan}, fixedPort : {TRUE}, timely : {TRUE}]

\* Ports are only compared with each other.
PortSymmetry == Permutations(LocalPorts)
=============================================================================
