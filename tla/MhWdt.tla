------------------------------- MODULE MhWdt -------------------------------
(* The watchdog: wdt_control of drv_wdt.c and the counter it programs.  A   *)
(* client feeds the watchdog before the timeout that it has set runs out;   *)
(* the timeout is in seconds, the counter in ticks of the peripheral clock. *)
EXTENDS Naturals

CONSTANTS Words,       \* 2^32, the number of values of a register
          Second,      \* PCLK_1MS_VAL * 1000
          MaxTimeout   \* bound: longest timeout asked for

VARIABLES timeout,     \* mh_wdt.timeout
          reload,      \* WDT_RLD
          count,       \* the counter; the CPU is reset when it is through
          running,
          due,         \* ticks that the client may take before it feeds
          fits,        \* did the timeout fit in the counter when it was loaded?
          accepted     \* did the last RT_DEVICE_CTRL_WDT_SET_TIMEOUT return RT_EOK?

vars == <<timeout, reload, count, running, due, fits, accepted>>

Init ==
  /\ timeout = 0 /\ reload = Words - 1 /\ count = Words - 1
  /\ running = FALSE /\ due = 0 /\ fits = TRUE /\ accepted = TRUE

\* The test against 0xFFFFFFFF: it is one of 32-bit words.
TooLarge(t) == (t * Second) % Words > Words - 1

\* Mutant: the timeout is taken for a number of ticks.
SetTimeout_Unscaled(t) ==
  /\ timeout' = t
  /\ reload' = t % Words
  /\ accepted' = TRUE
  /\ UNCHANGED <<count, running, due, fits>>

\* RT_DEVICE_CTRL_WDT_SET_TIMEOUT: the timeout is kept before the test, the
\* counter goes on with what it was loaded with.
SetTimeout(t) ==
  /\ timeout' = t
  /\ reload' = IF TooLarge(t) THEN reload ELSE (Second * t) % Words
  /\ accepted' = ~TooLarge(t)
  /\ UNCHANGED <<count, running, due, fits>>

\* WDT_ReloadCounter
Load ==
  /\ count' = reload
  /\ due' = timeout * Second
  /\ fits' = (timeout * Second < Words)

\* RT_DEVICE_CTRL_WDT_START: only the enable bit is written.  A counter that
\* starts may begin with the reload value or with the one of its reset; one that
\* runs goes on.
Start ==
  /\ IF running
       THEN UNCHANGED <<count, due, fits>>
       ELSE /\ count' \in {count, reload}
            /\ due' = timeout * Second
            /\ fits' = (timeout * Second < Words)
  /\ running' = TRUE
  /\ UNCHANGED <<timeout, reload, accepted>>

\* RT_DEVICE_CTRL_WDT_KEEPALIVE
KeepAlive ==
  /\ running /\ Load
  /\ UNCHANGED <<timeout, reload, running, accepted>>

\* A tick; the client is not late.
Tick ==
  /\ running /\ due > 0 /\ count > 0
  /\ count' = count - 1 /\ due' = due - 1
  /\ UNCHANGED <<timeout, reload, running, fits, accepted>>

Next ==
  \/ \E t \in 0..MaxTimeout : SetTimeout(t)
  \/ Start \/ KeepAlive \/ Tick

Spec == Init /\ [][Next]_vars

-----------------------------------------------------------------------------

\* A client that feeds in time is never reset, whatever it sets while the
\* watchdog runs and however often it starts it, as long as the timeout that the
\* counter was loaded with fits in it.
FedInTime == running /\ fits => count >= due

\* What the error message of wdt_control says: a timeout that is too large for
\* the counter is refused.  The code accepts every one.
TooLargeRefused == accepted => timeout * Second < Words
=============================================================================
