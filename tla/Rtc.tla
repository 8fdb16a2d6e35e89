-------------------------------- MODULE Rtc --------------------------------
(***************************************************************************)
(* The virtualized real-time clock of rtc.c.  The chip interrupts at       *)
(* 1024 Hz; rtc_virtualization_counter counts the interrupts around        *)
(* Period, and an interrupt wakes a reader when the counter is a multiple  *)
(* of the division rate of the displayed terminal.  One program runs, on   *)
(* whichever terminal is displayed, and the user may display another at    *)
(* any time.                                                               *)
(***************************************************************************)
EXTENDS Integers

CONSTANTS
  Terminals,    \* 0..2
  Period,       \* 1024
  Frequencies,  \* that rtc_set_virtualized_freq accepts: 2, 4, ..., 512
  Requests      \* that programs write

SlowestRate == Period \div 2

\* The accepted frequencies are such that every division rate divides the
\* slowest one.
ASSUME RtcAssumption ==
  /\ Period \in Nat /\ Period >= 4 /\ Period % 2 = 0
  /\ 2 \in Frequencies
  /\ \A f \in Frequencies : /\ f \in Nat \ {0}
                            /\ Period \div f \in 1 .. SlowestRate
                            /\ SlowestRate % (Period \div f) = 0

VARIABLES
  frequency,                   \* of the chip
  rtc_virtualization_counter,
  frequency_division_rate,
  rtc_interrupt_flag,
  terminal_on_display,
  last_call, \* none, open or close; the descriptor outlives rtc_close
  pc,     \* user, or in rtc_read: clear (before the flag is reset), wait
  waited, \* history: interrupts since rtc_read reset the flag, counted
          \* as far as one more than SlowestRate
  lapse   \* history: interrupts since the last one that woke, or Unsettled

vars == <<frequency, rtc_virtualization_counter, frequency_division_rate,
          rtc_interrupt_flag, terminal_on_display, last_call, pc, waited, lapse>>

\* A rate, the counter or the display has changed since the last wake.
Unsettled == -1

\* rtc_set_freq, which is only called with 1024; its check passes.
SetFreq(freq) == frequency' = freq

\* rtc_init, but for the frequency.
Reset ==
  /\ rtc_interrupt_flag' = FALSE
  /\ rtc_virtualization_counter' = 0
  /\ frequency_division_rate' = [t \in Terminals |-> SlowestRate]
  /\ lapse' = Unsettled

\* As rtc_init leaves it: the chip at 2 Hz.
Init ==
  /\ frequency = 2
  /\ rtc_interrupt_flag = FALSE
  /\ rtc_virtualization_counter = 0
  /\ frequency_division_rate = [t \in Terminals |-> SlowestRate]
  /\ terminal_on_display \in Terminals
  /\ last_call = "none" /\ pc = "user" /\ waited = 0 /\ lapse = Unsettled
-----------------------------------------------------------------------------
\* Faulty: wraps one count early.
NextCountEarly == (rtc_virtualization_counter + 1) % (Period - 1)

NextCount == (rtc_virtualization_counter + 1) % Period

Wakes(count) == count % frequency_division_rate[terminal_on_display] = 0

\* Faulty: an interrupt that is not for the reader takes the flag back.
FlagAfterPulse(count) == Wakes(count)

FlagAfter(count) == rtc_interrupt_flag \/ Wakes(count)

\* rtc_handler
Interrupt ==
  /\ rtc_virtualization_counter' = NextCount
  /\ rtc_interrupt_flag' = FlagAfter(NextCount)
  /\ waited' = IF pc = "wait" /\ ~rtc_interrupt_flag /\ waited <= SlowestRate
                THEN waited + 1 ELSE waited
  /\ lapse' = IF Wakes(NextCount) THEN 0
              ELSE IF lapse = Unsettled THEN Unsettled ELSE lapse + 1
  /\ UNCHANGED <<last_call, frequency, frequency_division_rate, terminal_on_display, pc>>

\* rtc_open: for all terminals.  rtc_init runs with interrupts disabled, and
\* no interrupt comes before the call returns.
Open ==
  /\ pc = "user"
  /\ Reset /\ SetFreq(Period) /\ last_call' = "open"
  /\ UNCHANGED <<terminal_on_display, pc, waited>>

\* rtc_close
Close ==
  /\ pc = "user" /\ last_call # "none"
  /\ SetFreq(Period) /\ last_call' = "close"
  /\ UNCHANGED <<rtc_virtualization_counter, frequency_division_rate,
                 rtc_interrupt_flag, terminal_on_display, pc, waited, lapse>>

\* Faulty: any frequency up to the chip's.
AcceptsAny(freq) == freq \in 1 .. Period

Accepts(freq) == freq \in Frequencies

\* rtc_write: an accepted frequency goes to the terminal that is displayed.
Write(freq) ==
  /\ pc = "user" /\ last_call # "none" /\ Accepts(freq)
  /\ frequency_division_rate' =
       [frequency_division_rate EXCEPT ![terminal_on_display] = Period \div freq]
  /\ lapse' = Unsettled
  /\ UNCHANGED <<last_call, frequency, rtc_virtualization_counter, rtc_interrupt_flag,
                 terminal_on_display, pc, waited>>

\* rtc_read, to sti.
ReadCall ==
  /\ pc = "user" /\ last_call # "none" /\ pc' = "clear"
  /\ UNCHANGED <<last_call, frequency, rtc_virtualization_counter, frequency_division_rate,
                 rtc_interrupt_flag, terminal_on_display, waited, lapse>>

ClearFlag ==
  /\ pc = "clear" /\ pc' = "wait"
  /\ rtc_interrupt_flag' = FALSE /\ waited' = 0
  /\ UNCHANGED <<last_call, frequency, rtc_virtualization_counter, frequency_division_rate,
                 terminal_on_display, lapse>>

ReadReturn ==
  /\ pc = "wait" /\ rtc_interrupt_flag
  /\ pc' = "user" /\ waited' = 0
  /\ UNCHANGED <<last_call, frequency, rtc_virtualization_counter, frequency_division_rate,
                 rtc_interrupt_flag, terminal_on_display, lapse>>

\* Alt+Fn
SwitchTerminal(t) ==
  /\ terminal_on_display' = t
  /\ lapse' = IF t = terminal_on_display THEN lapse ELSE Unsettled
  /\ UNCHANGED <<last_call, frequency, rtc_virtualization_counter, frequency_division_rate,
                 rtc_interrupt_flag, pc, waited>>

Next ==
  \/ Interrupt \/ Open \/ Close \/ ReadCall \/ ClearFlag \/ ReadReturn
  \/ \E freq \in Requests : Write(freq)
  \/ \E t \in Terminals : SwitchTerminal(t)

\* The chip keeps interrupting and the processor runs rtc_read.
Spec == /\ Init /\ [][Next]_vars
        /\ WF_vars(Interrupt) /\ WF_vars(ClearFlag) /\ WF_vars(ReadReturn)
-----------------------------------------------------------------------------
\* Every variable has its type.
TypeOK ==
  /\ frequency \in {2, Period}
  /\ rtc_virtualization_counter \in 0 .. Period - 1
  /\ frequency_division_rate \in [Terminals -> 1 .. SlowestRate]
  /\ rtc_interrupt_flag \in BOOLEAN
  /\ terminal_on_display \in Terminals /\ last_call \in {"none", "open", "close"}
  /\ pc \in {"user", "clear", "wait"}
  /\ waited \in Nat /\ lapse \in Nat \cup {Unsettled}

\* A read lasts no more than the slowest period, wherever the counter stands
\* and however often the user changes the terminal, and with it the rate.
WaitIsBounded ==
  pc = "wait" => IF rtc_interrupt_flag THEN waited <= SlowestRate
                                       ELSE waited < SlowestRate

\* While nobody touches rates or display, the interrupts that wake a reader
\* are exactly one division rate apart, also where the counter wraps.
SteadyPeriod ==
  [][Interrupt /\ lapse # Unsettled =>
       (Wakes(NextCount) <=>
          lapse + 1 = frequency_division_rate[terminal_on_display])]_vars

\* Every read returns.
ReadsReturn == pc = "clear" ~> pc = "user"
=============================================================================
