----------------------------- MODULE UdpSession -----------------------------
(***************************************************************************)
(* natcli::UdpSession::request (src/utils/stun_utils.cpp) with its clock:  *)
(* send, wait one retransmission timeout (RTO) for a matching answer, send *)
(* again with the RTO doubled, until the deadline.  StunPath keeps only    *)
(* the order of these events; here is when they happen.                    *)
(*                                                                         *)
(* The clock ticks TicksPerMs times per millisecond, since the code reads  *)
(* a nanosecond clock but waits with poll, whose timeout is in whole       *)
(* milliseconds.                                                           *)
(***************************************************************************)
EXTENDS Integers, FiniteSetsExt

CONSTANTS
  Timeout,        \* --timeout-ms, in ms
  InitialRto,     \* 500 in the code, in ms
  TicksPerMs,     \* clock resolution
  Slack           \* bound: ticks by which poll may return late

ASSUME TimingAssumption ==
  /\ Timeout \in Nat
  /\ InitialRto \in Nat \ {0}
  /\ TicksPerMs \in Nat \ {0}
  /\ Slack \in Nat

VARIABLES
  pc,          \* "outer" loop test, "window" (inner loop test), "poll", "done"
  now,         \* the clock, in ticks since request() was called
  rto,         \* current RTO, in ms
  nextResend,  \* next_resend_time
  pollUntil,   \* when the current poll times out
  sends,       \* datagrams sent
  lastSend,    \* when the latest was sent
  outcome      \* "none", "answered", "gaveUp"

vars == <<pc, now, rto, nextResend, pollUntil, sends, lastSend, outcome>>

Deadline == Timeout * TicksPerMs

\* Bound on the clock: the deadline plus the longest overshoot.
Horizon == Deadline + Slack + TicksPerMs

TypeOK ==
  /\ pc \in {"outer", "window", "poll", "done"}
  /\ now \in 0..Horizon
  /\ rto \in Nat \ {0}
  /\ nextResend \in Nat
  /\ pollUntil \in 0..Deadline
  /\ sends \in 0..Horizon
  /\ lastSend \in 0..Horizon
  /\ outcome \in {"none", "answered", "gaveUp"}

Init == /\ pc = "outer" /\ now = 0 /\ rto = InitialRto
        /\ nextResend = 0 /\ pollUntil = 0
        /\ sends = 0 /\ lastSend = 0 /\ outcome = "none"

\* The outer loop's body up to the window: sendto takes a tick.
Transmit ==
  /\ pc = "outer" /\ now < Deadline
  /\ sends' = sends + 1
  /\ lastSend' = now
  /\ now' = now + 1
  /\ nextResend' = now' + rto * TicksPerMs
  /\ pc' = "window"
  /\ UNCHANGED <<rto, pollUntil, outcome>>

\* Leaving the inner loop, by its condition or by one of its breaks.
EndWindow == pc' = "outer" /\ rto' = 2 * rto

\* Faulty variant, for mutation: the deadline does not cut the window short.
WindowEndUncut == nextResend

WindowEnd == Min({nextResend, Deadline})

\* Faulty variant, for mutation: waits are cut into slices, and the end of a
\* slice is taken for the end of the window.
WaitMsSliced == Min({1, (WindowEnd - now) \div TicksPerMs})

\* duration_cast<milliseconds> drops the fraction.
WaitMs == (WindowEnd - now) \div TicksPerMs

\* The inner loop's test and its wait_time check.
Window ==
  /\ pc = "window"
  /\ \/ /\ now < WindowEnd /\ WaitMs > 0
        /\ pollUntil' = now + WaitMs * TicksPerMs
        /\ pc' = "poll"
        /\ UNCHANGED rto
     \/ /\ now >= WindowEnd \/ WaitMs = 0
        /\ EndWindow
        /\ UNCHANGED pollUntil
  /\ UNCHANGED <<now, nextResend, sends, lastSend, outcome>>

\* poll timed out: never before pollUntil, and up to Slack ticks later.
PollTimeout ==
  /\ pc = "poll"
  /\ \E late \in 0..Slack : now' = pollUntil + late
  /\ EndWindow
  /\ UNCHANGED <<nextResend, pollUntil, sends, lastSend, outcome>>

\* Faulty variant, for mutation: the remaining wait is not computed anew.
PollReadableStaleClock(matches) ==
  /\ pc = "poll"
  /\ UNCHANGED now
  /\ IF matches
     THEN pc' = "done" /\ outcome' = "answered"
     ELSE pc' = "window" /\ UNCHANGED outcome
  /\ UNCHANGED <<rto, nextResend, pollUntil, sends, lastSend>>

\* A datagram is there: the answer, or noise that is ignored.  poll may be as
\* late as in PollTimeout, receiving and parsing take a tick, and an answer is
\* returned without another look at the clock.
PollReadable(matches) ==
  /\ pc = "poll"
  /\ \E t \in now + 1 .. pollUntil + Slack + 1 : now' = t
  /\ IF matches
     THEN pc' = "done" /\ outcome' = "answered"
     ELSE pc' = "window" /\ UNCHANGED outcome
  /\ UNCHANGED <<rto, nextResend, pollUntil, sends, lastSend>>

\* The outer loop's test fails: std::nullopt.
GiveUp ==
  /\ pc = "outer" /\ now >= Deadline
  /\ pc' = "done" /\ outcome' = "gaveUp"
  /\ UNCHANGED <<now, rto, nextResend, pollUntil, sends, lastSend>>

Over == pc = "done" /\ UNCHANGED vars

Next == \/ Transmit \/ Window \/ PollTimeout \/ GiveUp \/ Over
        \/ \E matches \in BOOLEAN : PollReadable(matches)

Spec == Init /\ [][Next]_vars

\* The thread runs; every step takes it nearer to the deadline.
FairSpec == Spec /\ WF_vars(Next)

-----------------------------------------------------------------------------
\* request() says "no answer" neither before the deadline nor, however the
\* waits were interrupted by stray datagrams, later after it than poll may be
\* late and one more datagram takes to receive.
GivesUpOnTime == outcome = "gaveUp" => now \in Deadline .. Deadline + Slack + 1

\* The clock is not read between poll and the return of an answer, so an answer
\* may be returned past the deadline, but again by no more than poll's lateness
\* and the time to receive it: no retransmission window, however often the RTO
\* was doubled, outlasts the deadline.
AnswersInTime == outcome = "answered" => now <= Deadline + Slack + 1

\* The wait a resend ends is at least the RTO it was started with, less the
\* millisecond the truncation may drop.  (rto is already doubled.)
Backoff == now + TicksPerMs >= lastSend + (rto \div 2) * TicksPerMs

\* "3. Exponential backoff: if no response received, double the wait time":
\* every resend waits for that long.
EveryResendBacksOff == [][Transmit => sends = 0 \/ Backoff]_vars

\* What does hold: a resend comes early only in the deadline's last
\* millisecond, where the remaining wait rounds to zero.
EarlyResendOnlyAtDeadline ==
  [][Transmit => sends = 0 \/ Backoff \/ now > Deadline - TicksPerMs]_vars

\* request() always returns, even if stray datagrams never stop coming.
Returns == <>(pc = "done")
=============================================================================
