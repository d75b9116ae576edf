----------------------------- MODULE MCRfc5508 -----------------------------
(* The tests of the RFC 5508 module, for TLC. *)
EXTENDS Rfc5508

\* The two tests of one behaviour, and the error phase, on any network; the
\* default test, which does both tests, on one that loses nothing.
EveryTest ==
  [plan : {"mapping", "filtering", "errors"}, timely : BOOLEAN] \cup
  [plan : {"all"}, timely : {TRUE}]

DefaultTest == [plan : {"all"}, timely : {TRUE}]
=============================================================================
