----------------------------- MODULE MCDrivers -----------------------------
(* The drivers of a board that share nothing: pin interrupts, clock, PWM    *)
(* and watchdog.  A behaviour exercises one of them.                        *)
(*                                                                          *)
(* The port has three pins with clients, which use a mode for one edge, the *)
(* one for both and one for a level.                                        *)
EXTENDS MhPin

CONSTANTS PA1, PA2, PA3,
          Day, MaxDay, MaxTicks, MaxDates,
          Words, MHz, Ns, Mega, MIN_PERIOD, MIN_PULSE, MaxNs, MaxWrites,
          Second, MaxTimeout

\* A period in nanoseconds is a word, and the shortest wave has a level of each
\* kind; the timers run at most at one tick per nanosecond.
ASSUME TimersAssumption ==
  /\ Day \in Nat \ {0} /\ MaxDay \in Nat /\ MaxTicks \in Nat /\ MaxDates \in Nat
  /\ Words \in Nat \ {0} /\ Second \in Nat /\ MaxTimeout \in Nat
  /\ MHz \in Nat \ {0} /\ Ns \in Nat /\ MHz <= Ns /\ Mega \in Nat
  /\ MIN_PULSE \in Nat \ {0} /\ MIN_PERIOD \in Nat
  /\ MIN_PULSE < MIN_PERIOD /\ MIN_PERIOD < Words
  /\ MaxNs \in Nat /\ MaxNs < Words /\ MaxWrites \in Nat

MCEdgeModes == {"rising", "rising_falling"}
MCLevelModes == {"high_level"}
MCEdges == {"rising", "falling"}
MCFires(m, e) == m \in {e, "rising_falling"}

VARIABLES device,
          active, counter, time_sec, cmd, rd, dirty, got, since, ticks, dates,
          high, low, enabled, asked, writes, plain, get,
          timeout, reload, count, running, due, fits, accepted

rtc == <<active, counter, time_sec, cmd, rd, dirty, got, since, ticks, dates>>
pwm == <<high, low, enabled, asked, writes, plain, get>>
wdt == <<timeout, reload, count, running, due, fits, accepted>>
board == <<device, vars, rtc, pwm, wdt>>

Rtc == INSTANCE MhRtc
Pwm == INSTANCE MhPwm
Wdt == INSTANCE MhWdt

BoardInit ==
  /\ device \in {"pin", "rtc", "pwm", "wdt"}
  /\ Init /\ Rtc!Init /\ Pwm!Init /\ Wdt!Init
  /\ device # "rtc" => counter = 0

BoardNext ==
  \/ device = "pin" /\ Next /\ UNCHANGED <<device, rtc, pwm, wdt>>
  \/ device = "rtc" /\ Rtc!Next /\ UNCHANGED <<device, vars, pwm, wdt>>
  \/ device = "pwm" /\ Pwm!Next /\ UNCHANGED <<device, vars, rtc, wdt>>
  \/ device = "wdt" /\ Wdt!Next /\ UNCHANGED <<device, vars, rtc, pwm>>

BoardSpec == BoardInit /\ [][BoardNext]_board

\* The fairness of MhPin; nothing has to happen to the others.
FairBoardSpec == BoardSpec /\ WF_vars(device = "pin" /\ Isr)

\* time returns the time when no mh_rtc_set_secs or mh_rtc_init is under way.
RtcReadExact == Rtc!ReadExact

\* The command date sets date and time, the latter short of midnight.
RtcDateSets == Rtc!DateSets

\* The wave that drv_pwm_set programs, and what _pwm_write makes of it.
PwmWaveAsAsked == Pwm!WaveAsAsked

\* A client that feeds in time is not reset, as long as its timeout fits.
WdtFedInTime == Wdt!FedInTime
=============================================================================
