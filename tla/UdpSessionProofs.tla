-------------------------- MODULE UdpSessionProofs --------------------------
(***************************************************************************)
(* Proofs about UdpSession, for every timeout, RTO, clock and lateness.    *)
(***************************************************************************)
EXTENDS UdpSession, TLAPS

-----------------------------------------------------------------------------
(* The inductive invariant. *)

\* Every send takes a tick; nothing but a late poll and the datagram received
\* after it takes the clock past the deadline.
ClockBounds == sends <= now /\ lastSend <= now /\ now <= Deadline + Slack + 1

\* The RTO that is running started with the latest send.
WindowStarted ==
  pc \in {"window", "poll"} =>
    sends > 0 /\ nextResend = lastSend + 1 + rto * TicksPerMs

\* poll is told to wait until less than a millisecond before the window ends.
PollEndsLate == pc = "poll" => now <= pollUntil /\ pollUntil + TicksPerMs > WindowEnd

\* What EarlyResendOnlyAtDeadline says of a resend, when it is due.
ResendDue == pc = "outer" => sends = 0 \/ Backoff \/ now > Deadline - TicksPerMs

NoOutcomeYet == pc # "done" => outcome = "none"

IInv == /\ TypeOK /\ ClockBounds /\ WindowStarted /\ PollEndsLate /\ ResendDue
        /\ NoOutcomeYet /\ GivesUpOnTime /\ AnswersInTime

-----------------------------------------------------------------------------
(* Lemmas about the arithmetic. *)

LEMMA Constants ==
  /\ Timeout \in Nat /\ InitialRto \in Nat /\ InitialRto > 0
  /\ Deadline \in Nat /\ TicksPerMs \in Nat /\ TicksPerMs > 0 /\ Slack \in Nat
  /\ Horizon \in Nat /\ Horizon = Deadline + Slack + TicksPerMs
<1>1. /\ Timeout \in Nat /\ InitialRto \in Nat /\ InitialRto > 0
      /\ TicksPerMs \in Nat /\ TicksPerMs > 0 /\ Slack \in Nat
  BY TimingAssumption
<1>2. Deadline \in Nat
  BY <1>1 DEF Deadline
<1> QED BY <1>1, <1>2 DEF Horizon

LEMMA MinOfTwo ==
  ASSUME NEW a \in Int, NEW b \in Int
  PROVE  Min({a, b}) = IF a <= b THEN a ELSE b
<1> DEFINE m == IF a <= b THEN a ELSE b
<1>1. m \in {a, b} /\ \A y \in {a, b} : m <= y
  OBVIOUS
<1>2. \A x \in {a, b} : (\A y \in {a, b} : x <= y) => x = m
  OBVIOUS
<1> QED BY <1>1, <1>2 DEF Min

\* The truncation to whole milliseconds drops less than one.
LEMMA Truncation ==
  ASSUME NEW a \in Nat
  PROVE  /\ a \div TicksPerMs \in Nat
         /\ (a \div TicksPerMs) * TicksPerMs <= a
         /\ a < (a \div TicksPerMs) * TicksPerMs + TicksPerMs
BY Constants

LEMMA Doubling ==
  ASSUME NEW r \in Nat
  PROVE  (2 * r) \div 2 = r
OBVIOUS

LEMMA Inequalities == \A n, d, t \in Nat : n + t > d => n > d - t
OBVIOUS

LEMMA WindowEndIs ==
  ASSUME nextResend \in Nat
  PROVE  /\ WindowEnd = IF nextResend <= Deadline THEN nextResend ELSE Deadline
         /\ WindowEnd \in Nat /\ WindowEnd <= Deadline
<1>1. WindowEnd = IF nextResend <= Deadline THEN nextResend ELSE Deadline
  BY MinOfTwo, Constants DEF WindowEnd
<1> QED BY <1>1, Constants

-----------------------------------------------------------------------------
LEMMA Initially == Init => IInv
<1> SUFFICES ASSUME Init PROVE IInv
  OBVIOUS
<1>1. TypeOK
  BY Constants DEF Init, TypeOK
<1> QED BY <1>1, Constants DEF Init, IInv, ClockBounds, WindowStarted, PollEndsLate, ResendDue,
     NoOutcomeYet, GivesUpOnTime, AnswersInTime

\* A window that ends does so at its end, or in the millisecond before.
LEMMA WindowOver ==
  ASSUME IInv, WindowStarted, pc \in {"window", "poll"}, EndWindow,
         UNCHANGED <<nextResend, sends, lastSend, outcome>>,
         now' \in Nat, now <= now', now' <= Deadline + Slack + 1, now' + TicksPerMs > WindowEnd,
         pollUntil' \in 0..Deadline
  PROVE  IInv'
<1> USE DEF IInv
<1>types. /\ rto \in Nat /\ rto > 0 /\ nextResend \in Nat /\ lastSend \in Nat /\ sends \in Nat /\ now \in Nat
          /\ lastSend \in 0..Horizon
  BY Constants DEF TypeOK
<1>1. rto' = 2 * rto /\ pc' = "outer" /\ rto' \div 2 = rto
  BY <1>types, Doubling DEF EndWindow
<1>2. TypeOK'
  <2>1. now' \in 0..Horizon /\ sends' \in 0..Horizon
    BY <1>types, Constants DEF ClockBounds, TypeOK
  <2> QED BY <1>1, <1>types, <2>1 DEF TypeOK
<1>3. ClockBounds'
  BY <1>types DEF ClockBounds, Deadline
<1>4. ResendDue'
  <2>1. CASE WindowEnd = Deadline
    <3>1. Deadline' = Deadline
      BY DEF Deadline
    <3>2. now' + TicksPerMs > Deadline
      BY <2>1
    <3>3. now' > Deadline' - TicksPerMs
      BY <3>1, <3>2, Constants, Inequalities
    <3> QED BY <3>3 DEF ResendDue
  <2>2. CASE WindowEnd = nextResend
    <3> DEFINE due == lastSend + rto * TicksPerMs
    <3>1. due \in Nat /\ nextResend = due + 1
      BY <1>types, Constants DEF WindowStarted
    <3>2. now' + TicksPerMs > due + 1
      BY <2>2, <3>1
    <3>3. now' + TicksPerMs >= due
      <4> HIDE DEF due
      <4>1. \A n, d, t \in Nat : n + t > d + 1 => n + t >= d
        OBVIOUS
      <4> QED BY <4>1, <3>1, <3>2, Constants
    <3>4. Backoff'
      BY <3>3, <1>1 DEF Backoff
    <3> QED BY <3>4 DEF ResendDue
  <2> QED BY <2>1, <2>2, <1>types, WindowEndIs
<1>5. WindowStarted' /\ PollEndsLate' /\ NoOutcomeYet' /\ GivesUpOnTime' /\ AnswersInTime'
  BY <1>1 DEF WindowStarted, PollEndsLate, NoOutcomeYet, GivesUpOnTime, AnswersInTime
<1> QED BY <1>2, <1>3, <1>4, <1>5

LEMMA Stepwise == IInv /\ [Next]_vars => IInv'
<1> SUFFICES ASSUME IInv, [Next]_vars PROVE IInv'
  OBVIOUS
<1> USE DEF IInv
<1>types. /\ rto \in Nat /\ rto > 0 /\ nextResend \in Nat /\ lastSend \in Nat /\ sends \in Nat /\ now \in Nat
          /\ pollUntil \in 0..Deadline /\ rto * TicksPerMs \in Nat
  BY Constants DEF TypeOK
<1>const. Deadline' = Deadline /\ Horizon' = Horizon
  BY DEF Deadline, Horizon
<1>1. CASE Transmit
  <2>1. /\ pc = "outer" /\ now < Deadline /\ sends' = sends + 1 /\ lastSend' = now /\ now' = now + 1
        /\ nextResend' = lastSend' + 1 + rto * TicksPerMs /\ pc' = "window"
        /\ UNCHANGED <<rto, pollUntil, outcome>>
    BY <1>1, <1>types DEF Transmit
  <2>2. TypeOK' /\ ClockBounds'
    BY <2>1, <1>types, <1>const, Constants DEF TypeOK, ClockBounds
  <2>3. WindowStarted'
    BY <2>1, <1>types DEF WindowStarted
  <2>4. PollEndsLate' /\ ResendDue' /\ NoOutcomeYet' /\ GivesUpOnTime' /\ AnswersInTime'
    BY <2>1 DEF PollEndsLate, ResendDue, NoOutcomeYet, GivesUpOnTime, AnswersInTime
  <2> QED BY <2>2, <2>3, <2>4
<1>2. CASE Window /\ pc' = "poll"
  <2>1. /\ pc = "window" /\ now < WindowEnd /\ pollUntil' = now + WaitMs * TicksPerMs
        /\ UNCHANGED <<now, rto, nextResend, sends, lastSend, outcome>>
    BY <1>2 DEF Window, EndWindow
  <2>2. WindowEnd \in Nat /\ WindowEnd <= Deadline /\ WindowEnd' = WindowEnd
    BY <2>1, <1>types, <1>const, WindowEndIs DEF WindowEnd
  <2>3. /\ WaitMs * TicksPerMs \in Nat /\ WaitMs * TicksPerMs <= WindowEnd - now
        /\ WindowEnd - now < WaitMs * TicksPerMs + TicksPerMs
    <3>1. WindowEnd - now \in Nat
      BY <2>1, <2>2, <1>types
    <3>2. WaitMs = (WindowEnd - now) \div TicksPerMs
      BY DEF WaitMs
    <3>3. WaitMs \in Nat
      BY <3>1, <3>2, Truncation
    <3> QED BY <3>1, <3>2, <3>3, Truncation, Constants
  <2>4. /\ pollUntil' \in 0..Deadline /\ now' <= pollUntil' /\ pollUntil' + TicksPerMs > WindowEnd'
    BY <2>1, <2>2, <2>3, <1>types, Constants
  <2>5. TypeOK' /\ ClockBounds'
    BY <2>1, <2>4, <1>2, <1>const DEF TypeOK, ClockBounds
  <2>6. WindowStarted' /\ PollEndsLate' /\ ResendDue' /\ NoOutcomeYet' /\ GivesUpOnTime' /\ AnswersInTime'
    BY <2>1, <2>4, <1>2 DEF WindowStarted, PollEndsLate, ResendDue, NoOutcomeYet, GivesUpOnTime,
       AnswersInTime
  <2> QED BY <2>5, <2>6
<1>3. CASE Window /\ pc' # "poll"
  <2>1. /\ pc = "window" /\ EndWindow /\ (now >= WindowEnd \/ WaitMs = 0)
        /\ UNCHANGED <<now, pollUntil, nextResend, sends, lastSend, outcome>>
    BY <1>3 DEF Window
  <2>2. now + TicksPerMs > WindowEnd
    <3>1. WindowEnd \in Nat
      BY <1>types, WindowEndIs
    <3>2. ASSUME now < WindowEnd, WaitMs = 0 PROVE WindowEnd - now < TicksPerMs
      BY <3>1, <3>2, <1>types, Truncation, Constants DEF WaitMs
    <3> QED BY <3>1, <3>2, <2>1, <1>types, Constants
  <2>3. pc \in {"window", "poll"} /\ now <= Deadline + Slack + 1 /\ now <= now /\ WindowStarted
    BY <2>1, <1>types DEF ClockBounds
  <2> QED BY <2>1, <2>2, <2>3, <1>types, WindowOver
<1>4. CASE PollTimeout
  <2>1. PICK late \in 0..Slack : now' = pollUntil + late
    BY <1>4 DEF PollTimeout
  <2>2. /\ pc = "poll" /\ EndWindow
        /\ UNCHANGED <<nextResend, pollUntil, sends, lastSend, outcome>>
    BY <1>4 DEF PollTimeout
  <2>3. WindowEnd \in Nat /\ now <= pollUntil /\ pollUntil + TicksPerMs > WindowEnd
    BY <2>2, <1>types, WindowEndIs DEF PollEndsLate
  <2>4. now' \in Nat /\ now <= now' /\ now' <= Deadline + Slack + 1 /\ now' + TicksPerMs > WindowEnd
    BY <2>1, <2>3, <1>types, Constants
  <2> QED BY <2>2, <2>4, <1>types, WindowOver
<1>5. CASE \E matches \in BOOLEAN : PollReadable(matches)
  <2>1. PICK t \in now + 1 .. pollUntil + Slack + 1 : now' = t
    BY <1>5 DEF PollReadable
  <2>2. /\ pc = "poll" /\ UNCHANGED <<rto, nextResend, pollUntil, sends, lastSend>>
        /\ \/ pc' = "done" /\ outcome' = "answered"
           \/ pc' = "window" /\ outcome' = outcome
    BY <1>5 DEF PollReadable
  <2>3. now' \in Nat /\ now < now' /\ now' <= Deadline + Slack + 1
    BY <2>1, <1>types, Constants
  <2>4. TypeOK' /\ ClockBounds'
    BY <2>2, <2>3, <1>types, <1>const, Constants DEF TypeOK, ClockBounds
  <2>5. outcome = "none"
    BY <2>2 DEF NoOutcomeYet
  <2>6. WindowStarted' /\ PollEndsLate' /\ ResendDue'
    BY <2>2 DEF WindowStarted, PollEndsLate, ResendDue
  <2>7. NoOutcomeYet' /\ GivesUpOnTime' /\ AnswersInTime'
    BY <2>2, <2>3, <2>5, <1>const DEF NoOutcomeYet, GivesUpOnTime, AnswersInTime
  <2> QED BY <2>4, <2>6, <2>7
<1>6. CASE GiveUp
  <2>1. /\ pc = "outer" /\ now >= Deadline /\ pc' = "done" /\ outcome' = "gaveUp"
        /\ UNCHANGED <<now, rto, nextResend, pollUntil, sends, lastSend>>
    BY <1>6 DEF GiveUp
  <2>2. TypeOK' /\ ClockBounds'
    BY <2>1, <1>const DEF TypeOK, ClockBounds
  <2>3. GivesUpOnTime'
    BY <2>1, <1>types, <1>const, Constants DEF ClockBounds, GivesUpOnTime
  <2>4. WindowStarted' /\ PollEndsLate' /\ ResendDue' /\ NoOutcomeYet' /\ AnswersInTime'
    BY <2>1 DEF WindowStarted, PollEndsLate, ResendDue, NoOutcomeYet, AnswersInTime
  <2> QED BY <2>2, <2>3, <2>4
<1>7. CASE UNCHANGED vars \/ Over
  <2>1. UNCHANGED <<pc, now, rto, nextResend, pollUntil, sends, lastSend, outcome>>
    BY <1>7 DEF vars, Over
  <2>2. WindowEnd' = WindowEnd /\ Backoff' = Backoff
    BY <2>1, <1>const DEF WindowEnd, Backoff
  <2>3. TypeOK' /\ ClockBounds' /\ WindowStarted' /\ PollEndsLate' /\ ResendDue'
    BY <2>1, <2>2, <1>const DEF TypeOK, ClockBounds, WindowStarted, PollEndsLate, ResendDue
  <2>4. NoOutcomeYet' /\ GivesUpOnTime' /\ AnswersInTime'
    BY <2>1, <1>const DEF NoOutcomeYet, GivesUpOnTime, AnswersInTime
  <2> QED BY <2>3, <2>4
<1> QED BY <1>1, <1>2, <1>3, <1>4, <1>5, <1>6, <1>7 DEF Next

-----------------------------------------------------------------------------
(* The theorems. *)

\* The state keeps its types, and the clock, the window and the wait agree.
THEOREM Invariance == Spec => []IInv
<1> QED BY Initially, Stepwise, PTL DEF Spec

\* request() gives up no earlier than the deadline, and no later after it than
\* poll may be late and one more datagram takes to receive, for any deadline and
\* any number of resends and stray datagrams.
THEOREM GivingUpIsTimely == Spec => []GivesUpOnTime
<1>1. IInv => GivesUpOnTime
  BY DEF IInv
<1> QED BY <1>1, Invariance, PTL

\* It may return an answer after the deadline, since it does not look at the
\* clock after poll, but by no more than poll's lateness and that receive.
THEOREM AnswersAreTimely == Spec => []AnswersInTime
<1>1. IInv => AnswersInTime
  BY DEF IInv
<1> QED BY <1>1, Invariance, PTL

\* It cuts a wait short only in the deadline's last millisecond.
THEOREM EarlyResendIsLast == Spec => EarlyResendOnlyAtDeadline
<1>1. IInv => (Transmit => sends = 0 \/ Backoff \/ now > Deadline - TicksPerMs)
  BY DEF IInv, ResendDue, Transmit
<1> QED BY <1>1, Invariance, PTL DEF EarlyResendOnlyAtDeadline
=============================================================================
