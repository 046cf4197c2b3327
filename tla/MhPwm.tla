------------------------------- MODULE MhPwm -------------------------------
(* Pulse width modulation: drv_pwm_set and drv_pwm_get of drv_pwm.c convert *)
(* between nanoseconds and the two reload values of a timer, which run one  *)
(* tick longer than they say; _pwm_write of rt_drv_pwm.c changes the pulse  *)
(* by a get and a set.                                                      *)
EXTENDS Naturals

CONSTANTS Words,       \* 2^32, the number of values of a register
          MHz,         \* ticks in Ns nanoseconds: the timer clock in MHz
          Ns,          \* 1000
          Mega,        \* 1000000
          MIN_PERIOD, MIN_PULSE,
          MaxNs,       \* bound: longest period asked for
          MaxWrites    \* bound: _pwm_write calls after a drv_pwm_set

VARIABLES high, low,   \* TIM_HighLevelPeriod, TIM_LowLevelPeriod and the registers
          enabled,     \* TIM_Cmd
          asked,       \* the PWM_CMD_SET that is in force, and the last pulse, in ticks
          writes,      \* _pwm_write calls since that PWM_CMD_SET
          plain,       \* since then, every pulse was shorter than the period and
                       \* every period fit in a word as nanoseconds
          get          \* _pwm_write between its two calls: the period it has got, and
                       \* what asked, writes and plain were then

vars == <<high, low, enabled, asked, writes, plain, get>>

Idle == [busy |-> FALSE, period |-> 0, asked |-> 0, writes |-> 0, plain |-> TRUE]

Ticks(ns) == (ns * MHz) \div Ns

Init ==
  /\ high = Ticks(MaxNs) /\ low = Ticks(MaxNs) /\ enabled = FALSE
  /\ asked = [period |-> high + low + 2, pulse |-> high + 1]
  /\ writes = 0 /\ plain = TRUE /\ get = Idle

-----------------------------------------------------------------------------

AtLeast(x, y) == IF x < y THEN y ELSE x
AtMost(x, y) == IF x > y THEN y ELSE x

\* The clock cannot make so short a period: RT_EINVAL.  The quotient by zero of
\* the run-time library is zero.
TooShort(p) == p > 0 /\ MHz * Mega < (Ns * Mega) \div p

Period(p) == AtLeast(Ticks(p), MIN_PERIOD)

Pulse(p, d) == AtMost(AtLeast(Ticks(d), MIN_PULSE), Period(p))

\* Mutant: the low level is as long as the whole period.
Program_Cumulative(p, d) ==
  /\ high' = Pulse(p, d) - 1
  /\ low' = Period(p) - 1

\* drv_pwm_set after its checks; period - pulse - 1 is that of unsigned words.
Program(p, d) ==
  /\ high' = Pulse(p, d) - 1
  /\ low' = (Words + Period(p) - Pulse(p, d) - 1) % Words

\* drv_pwm_get: sum and product are words.
GetPeriod == (((high + low + 1) * Ns) % Words) \div MHz

Fits == (high + low + 1) * Ns < Words

\* PWM_CMD_SET
drv_pwm_set(p, d) ==
  /\ ~TooShort(p)
  /\ Program(p, d)
  /\ asked' = [period |-> Period(p), pulse |-> Pulse(p, d)]
  /\ writes' = 0
  /\ plain' = (Pulse(p, d) < Period(p))
  /\ UNCHANGED <<enabled, get>>

\* _pwm_write: PWM_CMD_GET, then, without a lock, PWM_CMD_SET with the period
\* that it returned, which other calls may have replaced in the meantime.
WriteGet ==
  /\ ~get.busy /\ writes < MaxWrites
  /\ get' = [busy |-> TRUE, period |-> GetPeriod, asked |-> asked.period,
             writes |-> writes, plain |-> plain /\ Fits]
  /\ UNCHANGED <<high, low, enabled, asked, writes, plain>>

_pwm_write(d) ==
  /\ get.busy
  /\ get' = Idle
  /\ IF TooShort(get.period)
       THEN UNCHANGED <<high, low, asked, writes, plain>>
       ELSE /\ Program(get.period, d)
            /\ asked' = [period |-> get.asked, pulse |-> Pulse(get.period, d)]
            /\ writes' = get.writes + 1
            /\ plain' = (get.plain /\ Pulse(get.period, d) < Period(get.period))
  /\ UNCHANGED enabled

\* PWM_CMD_ENABLE, PWM_CMD_DISABLE
TIM_Cmd(on) ==
  /\ enabled' = on
  /\ UNCHANGED <<high, low, asked, writes, plain, get>>

Next ==
  \/ \E p \in 0..MaxNs, d \in 0..MaxNs : drv_pwm_set(p, d)
  \/ WriteGet
  \/ \E d \in 0..MaxNs : _pwm_write(d)
  \/ \E on \in BOOLEAN : TIM_Cmd(on)

-----------------------------------------------------------------------------
(* Properties.                                                             *)

\* What the timer puts out: the reload values count one tick more each.
Wave == [period |-> high + low + 2, pulse |-> high + 1]

\* The wave is the one that was asked for, except that every _pwm_write takes
\* one tick off the period, or two where the conversion rounds: drv_pwm_get
\* reports it one tick short.  The period is that of the last PWM_CMD_SET or,
\* when a PWM_CMD_SET has come between the two calls of a _pwm_write, of the one
\* before, which the write puts back.  It holds while every pulse leaves a tick
\* of low level (one as long as the period makes the low level as long as a word
\* can say) and the product in drv_pwm_get does not overflow.
WaveAsAsked ==
  plain =>
    /\ Wave.pulse = asked.pulse
    /\ Wave.period <= AtLeast(asked.period - AtMost(writes, asked.period), MIN_PERIOD)
    /\ Wave.period >= asked.period - AtMost(2 * writes, asked.period)
=============================================================================
