----------------------------- MODULE RtcProofs -----------------------------
(***************************************************************************)
(* Proofs about Rtc: a read never waits longer than the slowest period,    *)
(* and undisturbed wakes are a division rate apart, for every period,      *)
(* every set of terminals and every set of accepted frequencies whose      *)
(* division rates divide the slowest one.                                  *)
(***************************************************************************)
EXTENDS Rtc, TLAPS

\* How far the counter is into the current half of its period.
Phase == IF rtc_virtualization_counter < SlowestRate
         THEN rtc_virtualization_counter
         ELSE rtc_virtualization_counter - SlowestRate

\* While no interrupt has woken the reader, it has waited no longer than
\* since the counter was last 0 or SlowestRate: those counts wake it under
\* every rate.
WaitInv ==
  /\ \A t \in Terminals : SlowestRate % frequency_division_rate[t] = 0
  /\ pc = "wait" => IF rtc_interrupt_flag THEN waited <= SlowestRate
                                         ELSE waited <= Phase

IInv == TypeOK /\ WaitInv

\* Half of Period is a positive whole number.
LEMMA Halves == SlowestRate \in Nat \ {0} /\ Period = 2 * SlowestRate
  BY RtcAssumption DEF SlowestRate

\* Every terminal at the slowest rate.
LEMMA SlowestRates == [t \in Terminals |-> SlowestRate] \in [Terminals -> 1 .. SlowestRate]
<1>1. SlowestRate \in 1 .. SlowestRate
  BY Halves
<1> QED BY <1>1

\* A multiple of the slowest rate wakes the reader of any terminal.
LEMMA WakesAtHalves ==
  ASSUME TypeOK, WaitInv, NEW count \in {0, SlowestRate}
  PROVE  Wakes(count)
<1> DEFINE r == frequency_division_rate[terminal_on_display]
<1>1. r \in Nat /\ r > 0 /\ SlowestRate % r = 0
  BY Halves DEF TypeOK, WaitInv
<1>2. 0 % r = 0
  BY <1>1
<1> QED BY <1>1, <1>2 DEF Wakes

\* The counter stays in its range and moves on by one, or starts again.
LEMMA Counts ==
  ASSUME TypeOK
  PROVE  /\ NextCount \in 0 .. Period - 1
         /\ IF rtc_virtualization_counter = Period - 1 THEN NextCount = 0
            ELSE NextCount = rtc_virtualization_counter + 1
  BY Halves DEF TypeOK, NextCount

LEMMA RtcInit == Init => IInv
<1> SUFFICES ASSUME Init PROVE IInv OBVIOUS
<1>1. SlowestRate % SlowestRate = 0
  BY RtcAssumption DEF SlowestRate
<1>2. TypeOK
  <2>1. frequency_division_rate \in [Terminals -> 1 .. SlowestRate]
    BY SlowestRates DEF Init
  <2>2. rtc_virtualization_counter \in 0 .. Period - 1
    BY Halves DEF Init
  <2>3. frequency \in {2, Period} /\ rtc_interrupt_flag \in BOOLEAN
    BY DEF Init
  <2>4. waited \in Nat /\ lapse \in Nat \cup {Unsettled}
    BY DEF Init
  <2>5. /\ terminal_on_display \in Terminals
        /\ last_call \in {"none", "open", "close"}
        /\ pc \in {"user", "clear", "wait"}
    BY DEF Init
  <2> QED BY <2>1, <2>2, <2>3, <2>4, <2>5 DEF TypeOK
<1>3. WaitInv
  BY <1>1 DEF Init, WaitInv
<1> QED BY <1>2, <1>3 DEF IInv

LEMMA InterruptStep == ASSUME IInv, Interrupt PROVE IInv'
<1> USE DEF IInv
<1>1. TypeOK'
  BY Counts, Halves DEF TypeOK, Interrupt, FlagAfter, Wakes, Unsettled
<1>2. \A t \in Terminals : (SlowestRate % frequency_division_rate[t] = 0)'
  BY DEF WaitInv, Interrupt
<1>3. ASSUME pc' = "wait", ~rtc_interrupt_flag'
      PROVE  waited' <= Phase'
  <2>1. pc = "wait" /\ ~rtc_interrupt_flag /\ ~Wakes(NextCount)
    <3>1. rtc_interrupt_flag' = FlagAfter(NextCount) /\ pc' = pc
      BY DEF Interrupt
    <3> QED BY <1>3, <3>1 DEF FlagAfter
  <2>2. Phase < SlowestRate /\ Phase \in Nat /\ SlowestRate \in Nat /\ waited \in Nat
    BY Halves DEF Phase, TypeOK
  <2>3. waited <= Phase
    BY <2>1 DEF WaitInv
  <2>4. waited' = waited + 1
    BY <2>1, <2>2, <2>3 DEF Interrupt
  <2>5. NextCount # 0 /\ NextCount # SlowestRate
    BY <2>1, WakesAtHalves
  <2>6. rtc_virtualization_counter' = NextCount
    BY DEF Interrupt
  <2> QED BY <2>5, <2>6, <2>3, <2>4, Counts, Halves DEF Phase, TypeOK
<1>4. ASSUME pc' = "wait", rtc_interrupt_flag'
      PROVE  waited' <= SlowestRate
  <2>1. pc = "wait"
    BY <1>4 DEF Interrupt
  <2>2. CASE rtc_interrupt_flag
    BY <2>1, <2>2 DEF Interrupt, WaitInv
  <2>3. CASE ~rtc_interrupt_flag
    <3>1. Phase < SlowestRate /\ Phase \in Nat /\ SlowestRate \in Nat /\ waited \in Nat
      BY Halves DEF Phase, TypeOK
    <3>2. waited <= Phase /\ waited' = waited + 1
      BY <2>1, <2>3, <3>1 DEF Interrupt, WaitInv
    <3> QED BY <3>1, <3>2
  <2> QED BY <2>2, <2>3
<1> QED BY <1>1, <1>2, <1>3, <1>4 DEF WaitInv

\* Opening and writing leave every rate a divisor of the slowest.
LEMMA RateStep ==
  ASSUME IInv, Open \/ \E freq \in Requests : Write(freq)
  PROVE  IInv'
<1> USE DEF IInv
<1>1. CASE Open
  <2>1. SlowestRate % SlowestRate = 0
    BY RtcAssumption DEF SlowestRate
  <2>2. frequency_division_rate' \in [Terminals -> 1 .. SlowestRate]
    BY <1>1, SlowestRates DEF Open, Reset
  <2>3. rtc_virtualization_counter' \in 0 .. Period - 1
    BY <1>1, Halves DEF Open, Reset
  <2>4. /\ frequency' \in {2, Period} /\ rtc_interrupt_flag' \in BOOLEAN
        /\ last_call' \in {"none", "open", "close"}
        /\ lapse' \in Nat \cup {Unsettled}
    BY <1>1 DEF Open, Reset, SetFreq
  <2>5. /\ terminal_on_display' \in Terminals
        /\ pc' \in {"user", "clear", "wait"} /\ waited' \in Nat
    BY <1>1 DEF Open, TypeOK
  <2>6. TypeOK'
    BY <2>2, <2>3, <2>4, <2>5 DEF TypeOK
  <2> QED BY <1>1, <2>1, <2>6 DEF Open, Reset, WaitInv
<1>2. CASE \E freq \in Requests : Write(freq)
  <2> PICK freq \in Requests : Write(freq)
    BY <1>2
  <2>1. /\ Period \div freq \in 1 .. SlowestRate
        /\ SlowestRate % (Period \div freq) = 0
    BY RtcAssumption DEF Write, Accepts
  <2>2. TypeOK'
    BY <2>1 DEF Write, TypeOK, Unsettled
  <2>3. \A t \in Terminals : (SlowestRate % frequency_division_rate[t] = 0)'
    BY <2>1 DEF Write, WaitInv, TypeOK
  <2> QED BY <2>2, <2>3 DEF Write, WaitInv
<1> QED BY <1>1, <1>2

\* The steps that touch neither the counter nor a rate.
LEMMA OtherStep ==
  ASSUME IInv,
         \/ Close \/ ReadCall \/ ClearFlag \/ ReadReturn
         \/ \E t \in Terminals : SwitchTerminal(t)
         \/ UNCHANGED vars
  PROVE  IInv'
<1> USE DEF IInv
<1>1. CASE Close
  BY <1>1 DEF Close, SetFreq, TypeOK, WaitInv, Phase
<1>2. CASE ReadCall
  BY <1>2 DEF ReadCall, TypeOK, WaitInv
<1>3. CASE ClearFlag
  <2>1. TypeOK'
    BY <1>3 DEF ClearFlag, TypeOK
  <2>2. Phase' >= 0
    BY <1>3, Halves DEF ClearFlag, TypeOK, Phase
  <2> QED BY <1>3, <2>1, <2>2 DEF ClearFlag, WaitInv
<1>4. CASE ReadReturn
  BY <1>4 DEF ReadReturn, TypeOK, WaitInv
<1>5. CASE \E t \in Terminals : SwitchTerminal(t)
  BY <1>5 DEF SwitchTerminal, TypeOK, WaitInv, Phase, Unsettled
<1>6. CASE UNCHANGED vars
  BY <1>6 DEF vars, TypeOK, WaitInv, Phase
<1> QED BY <1>1, <1>2, <1>3, <1>4, <1>5, <1>6

\* The counter, the rates and the wait are in step in every reachable state:
\* rtc_handler, rtc_open and rtc_write keep each rate a divisor of the slowest.
THEOREM Invariance == Spec => []IInv
<1>1. IInv /\ [Next]_vars => IInv'
  BY InterruptStep, RateStep, OtherStep DEF Next
<1> QED BY RtcInit, <1>1, PTL DEF Spec

\* rtc_read waits for at most SlowestRate interrupts, whatever rates were
\* written, wherever the counter stands and however the user switches.
THEOREM BoundedWait == Spec => []WaitIsBounded
<1>1. IInv => WaitIsBounded
  BY Halves DEF IInv, TypeOK, WaitInv, WaitIsBounded, Phase
<1> QED BY Invariance, <1>1, PTL

\* The counter stays within its period and every division rate within the slowest one.
THEOREM TypeCorrect == Spec => []TypeOK
<1>1. IInv => TypeOK
  BY DEF IInv
<1> QED BY <1>1, Invariance, PTL
-----------------------------------------------------------------------------
\* Division with remainder.
LEMMA Division ==
  ASSUME NEW a \in Nat, NEW r \in Nat, r > 0
  PROVE  \E q \in Int, m \in 0 .. r - 1 : m = a % r /\ a = r * q + m
<1>1. a \div r \in Int /\ a % r \in 0 .. r - 1
  OBVIOUS
<1>2. a % r = a - r * (a \div r)
  OBVIOUS
<1>3. PICK q \in Int, m \in 0 .. r - 1 : q = a \div r /\ m = a % r /\ m = a - r * q
  BY <1>1, <1>2
<1>4. a = r * q + m
  BY <1>3
<1> QED BY <1>3, <1>4

\* The remainder is unique.
LEMMA Remainder ==
  ASSUME NEW q \in Int, NEW r \in Nat, r > 0, NEW m \in 0 .. r - 1
  PROVE  (r * q + m) % r = m
OBVIOUS

\* The remainder goes up by one, or starts again.
LEMMA NextRemainder ==
  ASSUME NEW c \in Nat, NEW r \in Nat, r > 0
  PROVE  /\ c % r \in 0 .. r - 1
         /\ (c + 1) % r = IF c % r = r - 1 THEN 0 ELSE (c % r) + 1
<1>1. PICK q \in Int, m \in 0 .. r - 1 : c = r * q + m /\ c % r = m
  BY Division
<1>2. CASE m = r - 1
  <2>1. c + 1 = r * (q + 1) + 0 /\ q + 1 \in Int /\ 0 \in 0 .. r - 1
    BY <1>1, <1>2
  <2> QED BY <1>1, <1>2, <2>1, Remainder
<1>3. CASE m # r - 1
  <2>1. c + 1 = r * q + (m + 1) /\ m + 1 \in 0 .. r - 1
    BY <1>1, <1>3
  <2>2. (c + 1) % r = m + 1
    BY <2>1, Remainder
  <2> QED BY <1>1, <1>3, <2>2
<1> QED BY <1>2, <1>3

\* A divisor of the slowest rate divides Period.
LEMMA RatesDividePeriod ==
  ASSUME NEW r \in Nat, r > 0, SlowestRate % r = 0
  PROVE  Period % r = 0
<1>1. PICK q \in Int, m \in 0 .. r - 1 : m = 0 /\ SlowestRate = r * q + m
  BY Halves, Division
<1>2. Period = r * (2 * q) + 0 /\ 2 * q \in Int /\ 0 \in 0 .. r - 1
  BY <1>1, Halves
<1> QED BY <1>2, Remainder

\* A lapse that is counted is how far the counter is beyond a multiple of the
\* rate that is displayed.
LapseInv ==
  lapse # Unsettled =>
    lapse = rtc_virtualization_counter % frequency_division_rate[terminal_on_display]

\* The handler's count, seen from the rate that is displayed.
LEMMA NextOfRate ==
  ASSUME IInv, NEW r, r = frequency_division_rate[terminal_on_display]
  PROVE  /\ r \in Nat /\ r > 0
         /\ rtc_virtualization_counter % r \in 0 .. r - 1
         /\ NextCount % r = IF rtc_virtualization_counter % r = r - 1
                            THEN 0 ELSE (rtc_virtualization_counter % r) + 1
<1> DEFINE c == rtc_virtualization_counter
<1>1. r \in Nat /\ r > 0 /\ SlowestRate % r = 0
  BY Halves DEF IInv, TypeOK, WaitInv
<1>2. c \in Nat /\ Period \in Nat /\ NextCount = IF c = Period - 1 THEN 0 ELSE c + 1
  BY Counts, Halves DEF IInv, TypeOK
<1>3. c % r \in 0 .. r - 1 /\ (c + 1) % r = IF c % r = r - 1 THEN 0 ELSE (c % r) + 1
  BY <1>1, <1>2, NextRemainder
<1>4. CASE c = Period - 1
  <2>1. c + 1 = Period /\ (c + 1) % r = 0 /\ 0 % r = 0
    BY <1>1, <1>2, <1>4, RatesDividePeriod
  <2> QED BY <1>1, <1>2, <1>3, <1>4, <2>1
<1>5. CASE c # Period - 1
  BY <1>1, <1>2, <1>3, <1>5
<1> QED BY <1>4, <1>5

\* Every step keeps it, or starts anew.
LEMMA LapseStep == ASSUME IInv, LapseInv, [Next]_vars PROVE LapseInv'
<1> USE DEF LapseInv
<1>1. CASE Interrupt
  <2>1. PICK r : r = frequency_division_rate[terminal_on_display]
    OBVIOUS
  <2>2. /\ rtc_virtualization_counter' = NextCount
        /\ frequency_division_rate'[terminal_on_display'] = r
        /\ lapse' = IF NextCount % r = 0 THEN 0
                    ELSE IF lapse = Unsettled THEN Unsettled ELSE lapse + 1
    BY <1>1, <2>1 DEF Interrupt, Wakes
  <2> QED BY <2>1, <2>2, NextOfRate
<1>2. CASE Open \/ \E freq \in Requests : Write(freq)
  BY <1>2 DEF Open, Reset, Write
<1>3. CASE \E t \in Terminals : SwitchTerminal(t)
  BY <1>3 DEF SwitchTerminal
<1>4. CASE Close \/ ReadCall \/ ClearFlag \/ ReadReturn \/ UNCHANGED vars
  BY <1>4 DEF Close, ReadCall, ClearFlag, ReadReturn, vars
<1> QED BY <1>1, <1>2, <1>3, <1>4 DEF Next

\* Undisturbed wakes are one division rate apart, also where the counter wraps.
THEOREM PeriodIsSteady == Spec => SteadyPeriod
<1>1. Init => LapseInv
  BY DEF Init, LapseInv
<1>2. IInv /\ LapseInv =>
        (Interrupt /\ lapse # Unsettled =>
           (Wakes(NextCount) <=>
              lapse + 1 = frequency_division_rate[terminal_on_display]))
  <2> SUFFICES ASSUME IInv, LapseInv, Interrupt, lapse # Unsettled
               PROVE  Wakes(NextCount) <=>
                        lapse + 1 = frequency_division_rate[terminal_on_display]
    OBVIOUS
  <2>1. PICK r : r = frequency_division_rate[terminal_on_display]
    OBVIOUS
  <2> QED BY <2>1, NextOfRate DEF Wakes, LapseInv
<1> QED BY <1>1, <1>2, LapseStep, Invariance, PTL DEF Spec, SteadyPeriod
=============================================================================
