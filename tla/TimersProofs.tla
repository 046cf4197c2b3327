---------------------------- MODULE TimersProofs ----------------------------
(***************************************************************************)
(* Theorems about the clock, the PWM and the watchdog, for every clock     *)
(* rate, every width of the registers and any number of calls.             *)
(***************************************************************************)
EXTENDS MCDrivers, TLAPS

-----------------------------------------------------------------------------
(* Arithmetic.                                                             *)

\* Quotient and remainder.
LEMMA DivMod ==
  ASSUME NEW x \in Nat, NEW n \in Nat \ {0}
  PROVE  /\ x \div n \in Nat /\ x % n \in 0..(n - 1)
         /\ x = n * (x \div n) + (x % n)
OBVIOUS

\* The remainder of a multiple and what is beyond it.
LEMMA ModIs ==
  ASSUME NEW q \in Nat, NEW n \in Nat \ {0}, NEW r \in 0..(n - 1)
  PROVE  (n * q + r) % n = r
OBVIOUS

\* A number that fits in a register is its own remainder.
LEMMA ModSmall ==
  ASSUME NEW n \in Nat \ {0}, NEW x \in 0..(n - 1)
  PROVE  x % n = x
OBVIOUS

-----------------------------------------------------------------------------
(* The watchdog.                                                           *)

\* The reload register holds the timeout that was set last, as far as it goes
\* into a word; before the first one it holds the longest.
ReloadInv ==
  /\ timeout \in Nat /\ reload \in 0..(Words - 1)
  /\ timeout * Second < Words => reload >= timeout * Second

\* What the counter has left is compared with what the client was promised
\* when it was loaded, not with the timeout that was set since; before it runs,
\* it has the value of its reset.
WdtInv ==
  /\ ReloadInv
  /\ count \in Nat /\ due \in Nat
  /\ ~running => count = Words - 1
  /\ running /\ fits => count >= due

LEMMA WdtInit == Wdt!Init => WdtInv
<1>1. 0 * Second = 0
  BY TimersAssumption
<1> QED
  BY <1>1, TimersAssumption DEF Wdt!Init, WdtInv, ReloadInv

\* The test that is to refuse a long timeout refuses none.
LEMMA NoneTooLarge == ASSUME NEW t \in Nat PROVE ~Wdt!TooLarge(t)
<1>1. t * Second \in Nat
  BY TimersAssumption
<1>2. (t * Second) % Words \in 0..(Words - 1)
  BY <1>1, TimersAssumption, DivMod
<1> HIDE DEF Wdt!TooLarge
<1>3. ASSUME Wdt!TooLarge(t) PROVE FALSE
  <2>1. PICK r \in 0..(Words - 1) : r = (t * Second) % Words
    BY <1>2
  <2>2. r > Words - 1
    BY <1>3, <2>1 DEF Wdt!TooLarge
  <2> QED
    BY <2>2, TimersAssumption
<1> QED
  BY <1>3

LEMMA WdtSetTimeout ==
  ASSUME WdtInv, NEW t \in 0..MaxTimeout, Wdt!SetTimeout(t) PROVE WdtInv'
<1>1. t \in Nat /\ t * Second \in Nat /\ t * Second = Second * t
  BY TimersAssumption
<1>2. timeout' = t /\ reload' = (Second * t) % Words
  BY <1>1, NoneTooLarge DEF Wdt!SetTimeout
<1>3. (Second * t) % Words \in 0..(Words - 1)
  BY <1>1, TimersAssumption, DivMod
<1>4. t * Second < Words => (Second * t) % Words = t * Second
  <2> SUFFICES ASSUME t * Second < Words PROVE (Second * t) % Words = t * Second
    OBVIOUS
  <2>1. PICK x \in Nat : x = t * Second
    BY <1>1
  <2>2. x \in 0..(Words - 1)
    BY <2>1, TimersAssumption
  <2>3. x % Words = x
    BY <2>2, TimersAssumption, ModSmall
  <2> QED
    BY <1>1, <2>1, <2>3
<1>5. ReloadInv'
  BY <1>1, <1>2, <1>3, <1>4 DEF ReloadInv
<1>6. UNCHANGED <<count, running, due, fits>>
  BY DEF Wdt!SetTimeout
<1> QED
  BY <1>5, <1>6 DEF WdtInv

\* What a counter that is loaded, or left as the reset has it, holds.
LEMMA WdtLoaded ==
  ASSUME WdtInv, count' = reload \/ count' = Words - 1, running',
         due' = timeout * Second, fits' = (timeout * Second < Words),
         UNCHANGED <<timeout, reload>>
  PROVE  WdtInv'
<1>1. timeout * Second \in Nat
  BY TimersAssumption DEF WdtInv, ReloadInv
<1>2. PICK x \in Nat : x = timeout * Second
  BY <1>1
<1>3. due' = x /\ fits' = (x < Words)
  BY <1>2
<1>4. reload \in 0..(Words - 1) /\ (x < Words => reload >= x)
  BY <1>2 DEF WdtInv, ReloadInv
<1>5. x < Words => count' >= x
  BY <1>4, TimersAssumption
<1>6. ReloadInv'
  BY DEF WdtInv, ReloadInv
<1>7. count' \in Nat /\ due' \in Nat
  BY <1>3, <1>4, TimersAssumption
<1>8. fits' => count' >= due'
  <2>1. fits' => x < Words
    BY <1>3
  <2>2. x < Words => count' >= due'
    BY <1>3, <1>5
  <2> QED
    BY <2>1, <2>2
<1> QED
  BY <1>6, <1>7, <1>8, Zenon DEF WdtInv

LEMMA WdtStart == ASSUME WdtInv, Wdt!Start PROVE WdtInv'
<1>1. CASE running
  <2>1. running' = TRUE /\ UNCHANGED <<timeout, reload, count, due, fits>>
    BY <1>1 DEF Wdt!Start
  <2> QED
    BY <1>1, <2>1 DEF WdtInv, ReloadInv
<1>2. CASE ~running
  <2>1. /\ count' \in {count, reload} /\ due' = timeout * Second
        /\ fits' = (timeout * Second < Words) /\ running' = TRUE
        /\ UNCHANGED <<timeout, reload>>
    BY <1>2 DEF Wdt!Start
  <2>2. count' = reload \/ count' = Words - 1
    BY <1>2, <2>1 DEF WdtInv
  <2> QED
    BY <2>1, <2>2, WdtLoaded
<1> QED
  BY <1>1, <1>2

LEMMA WdtKeepAlive == ASSUME WdtInv, Wdt!KeepAlive PROVE WdtInv'
<1>1. /\ running' = running /\ running /\ count' = reload /\ due' = timeout * Second
      /\ fits' = (timeout * Second < Words) /\ UNCHANGED <<timeout, reload>>
  BY DEF Wdt!KeepAlive, Wdt!Load
<1> QED
  BY <1>1, WdtLoaded

LEMMA WdtTick == ASSUME WdtInv, Wdt!Tick PROVE WdtInv'
<1>1. ReloadInv'
  BY DEF WdtInv, ReloadInv, Wdt!Tick
<1>2. /\ running /\ due > 0 /\ count > 0
      /\ count' = count - 1 /\ due' = due - 1 /\ UNCHANGED <<running, fits>>
  BY DEF Wdt!Tick
<1> QED
  BY <1>1, <1>2 DEF WdtInv

LEMMA WdtNext == WdtInv /\ [BoardNext]_board => WdtInv'
<1> SUFFICES ASSUME WdtInv, [BoardNext]_board PROVE WdtInv'
  OBVIOUS
<1>1. CASE Wdt!Next
  <2>1. CASE \E t \in 0..MaxTimeout : Wdt!SetTimeout(t)
    BY <2>1, WdtSetTimeout
  <2>2. CASE Wdt!Start \/ Wdt!KeepAlive
    BY <2>2, WdtStart, WdtKeepAlive
  <2>3. CASE Wdt!Tick
    BY <2>3, WdtTick
  <2> QED
    BY <1>1, <2>1, <2>2, <2>3 DEF Wdt!Next
<1>2. CASE UNCHANGED wdt
  BY <1>2 DEF wdt, WdtInv, ReloadInv
<1> QED
  BY <1>1, <1>2 DEF BoardNext, board

\* Whatever wdt_control is asked for while the watchdog runs, it does not reset
\* a client that keeps to the timeout the counter was loaded with, as long as that
\* timeout, in ticks, is not more than the counter holds.
THEOREM WdtFedInTimeHolds == BoardSpec => []WdtFedInTime
<1>1. BoardInit => WdtInv
  BY WdtInit DEF BoardInit
<1>2. WdtInv => WdtFedInTime
  BY DEF WdtInv, WdtFedInTime, Wdt!FedInTime
<1> QED
  BY <1>1, <1>2, WdtNext, PTL DEF BoardSpec
-----------------------------------------------------------------------------
(* The clock.                                                              *)

Clearing == {"time_clear", "date_clear"}
Dating == {"date_get", "date_base", "date_clear"}

RtcTypes ==
  /\ active \in BOOLEAN
  /\ counter \in Nat /\ time_sec \in Nat /\ since \in Nat
  /\ cmd \in [pc : {"idle", "init", "flag", "time_get", "time_base"} \cup Clearing \cup Dating,
              day : Nat, sec : Nat, now : Nat]
  /\ rd \in [pc : {"idle", "init", "flag", "base", "counter"}, val : Nat, from : Nat]

\* A read that no mh_rtc_set_secs has overlapped so far: what it has is still
\* the base, or a counter that has only gone up since.
ReadInv ==
  rd.pc \in {"base", "counter"} =>
    /\ ~dirty => /\ cmd.pc \notin Clearing
                 /\ rd.pc = "base" => rd.from = rd.val + time_sec /\ rd.val <= counter
                 /\ rd.pc = "counter" => rd.val = time_sec /\ rd.from <= counter + time_sec

\* The base is a second of the day that set_date was asked for.
Today == Day * cmd.day <= time_sec /\ time_sec <= Day * cmd.day + Day - 1

\* The time shows the second that set_time was asked for, and the seconds since
\* then or fewer, from the moment it has cleared the counter to the one when set_date has
\* replaced the base.
DateInv ==
  /\ cmd.pc # "idle" => cmd.sec < Day
  /\ cmd.pc \notin {"idle", "init", "flag", "time_get"} => active
  /\ cmd.pc = "time_clear" => \E q \in Nat : time_sec = Day * q + cmd.sec
  /\ cmd.pc = "date_get" => counter <= since /\ \E q \in Nat : time_sec = Day * q + cmd.sec
  /\ cmd.pc = "date_base" =>
       \E q \in Nat, e \in Nat : e <= since /\ cmd.now = Day * q + cmd.sec + e
  /\ cmd.pc = "date_clear" => Today
  /\ cmd.pc = "date_clear" /\ cmd.sec + since < Day =>
       /\ Day * cmd.day + cmd.sec <= time_sec
       /\ time_sec <= Day * cmd.day + cmd.sec + since

RtcInv == RtcTypes /\ ReadInv /\ DateInv

LEMMA RtcInit == Rtc!Init => RtcInv
<1> SUFFICES ASSUME Rtc!Init PROVE RtcInv
  OBVIOUS
<1>1. RtcTypes
  <2>1. counter \in Nat /\ time_sec \in Nat /\ since \in Nat
    BY DEF Rtc!Init
  <2>4. active \in BOOLEAN
    BY DEF Rtc!Init
  <2>2. rd \in [pc : {"idle", "init", "flag", "base", "counter"}, val : Nat, from : Nat]
    BY DEF Rtc!Init
  <2>3. cmd \in [pc : {"idle", "init", "flag", "time_get", "time_base"} \cup Clearing \cup Dating,
                day : Nat, sec : Nat, now : Nat]
    BY DEF Rtc!Init
  <2> QED
    BY <2>1, <2>2, <2>3, <2>4 DEF RtcTypes
<1>2. ReadInv
  BY DEF Rtc!Init, ReadInv
<1>3. DateInv
  BY DEF Rtc!Init, DateInv
<1> QED
  BY <1>1, <1>2, <1>3 DEF RtcInv

LEMMA RtcTick == ASSUME RtcInv, Rtc!Tick PROVE RtcInv'
<1> USE DEF RtcInv, RtcTypes
<1>1. /\ counter' = counter + 1 /\ since' \in Nat
      /\ since' = IF cmd.pc \in Dating THEN since + 1 ELSE since
      /\ UNCHANGED <<active, time_sec, cmd, rd, dirty>>
  BY DEF Rtc!Tick, Dating
<1>2. RtcTypes'
  BY <1>1
<1>3. ReadInv'
  BY <1>1 DEF ReadInv
<1>4. DateInv'
  <2>1. /\ (cmd.pc # "idle" => cmd.sec < Day)'
        /\ (cmd.pc \notin {"idle", "init", "flag", "time_get"} => active)'
        /\ (cmd.pc = "time_clear" => \E q \in Nat : time_sec = Day * q + cmd.sec)'
        /\ (cmd.pc = "date_clear" => Today)'
    BY <1>1 DEF DateInv, Today
  <2>2. (cmd.pc = "date_get" => counter <= since /\ \E q \in Nat : time_sec = Day * q + cmd.sec)'
    BY <1>1 DEF DateInv, Dating
  <2>3. (cmd.pc = "date_base" =>
           \E q \in Nat, e \in Nat : e <= since /\ cmd.now = Day * q + cmd.sec + e)'
    <3> SUFFICES ASSUME cmd.pc = "date_base"
                 PROVE  \E q \in Nat, e \in Nat : e <= since' /\ cmd.now = Day * q + cmd.sec + e
      BY <1>1
    <3>1. PICK q \in Nat, e \in Nat : e <= since /\ cmd.now = Day * q + cmd.sec + e
      BY DEF DateInv
    <3>2. e <= since'
      BY <1>1, <3>1
    <3> QED
      BY <3>1, <3>2
  <2>4. (cmd.pc = "date_clear" /\ cmd.sec + since < Day =>
           /\ Day * cmd.day + cmd.sec <= time_sec
           /\ time_sec <= Day * cmd.day + cmd.sec + since)'
    <3> SUFFICES ASSUME cmd.pc = "date_clear", cmd.sec + since' < Day
                 PROVE  /\ Day * cmd.day + cmd.sec <= time_sec
                        /\ time_sec <= Day * cmd.day + cmd.sec + since'
      BY <1>1
    <3>1. PICK x : x = Day * cmd.day
      OBVIOUS
    <3>2. x \in Nat /\ since' = since + 1 /\ cmd.sec \in Nat /\ Day \in Nat
      BY <1>1, <3>1, TimersAssumption DEF Dating
    <3>3. cmd.sec + since < Day
      BY <3>2
    <3>4. x + cmd.sec <= time_sec /\ time_sec <= x + cmd.sec + since
      BY <3>1, <3>3 DEF DateInv
    <3> QED
      BY <3>1, <3>2, <3>4
  <2> QED
    BY <2>1, <2>2, <2>3, <2>4 DEF DateInv
<1> QED
  BY <1>2, <1>3, <1>4

LEMMA RtcDate ==
  ASSUME RtcInv, NEW d \in 0..MaxDay, NEW s \in 0..(Day - 1), Rtc!date(d, s) PROVE RtcInv'
<1> USE DEF RtcInv, RtcTypes
<1>1. /\ cmd.pc = "idle"
      /\ cmd' = [pc |-> "time_get", day |-> d, sec |-> s, now |-> 0]
      /\ UNCHANGED <<active, counter, time_sec, rd, dirty, since>>
  BY DEF Rtc!date
<1>2. d \in Nat /\ s \in Nat /\ s < Day
  BY TimersAssumption
<1>3. RtcTypes'
  BY <1>1, <1>2
<1>4. ReadInv'
  BY <1>1 DEF ReadInv, Clearing
<1>5. DateInv'
  BY <1>1, <1>2 DEF DateInv
<1> QED
  BY <1>3, <1>4, <1>5

\* The steps of rt_device_open.
LEMMA RtcOpenNow ==
  ASSUME RtcInv, Rtc!OpenNow, UNCHANGED <<time_sec, rd, got, since, ticks, dates>>
  PROVE  RtcInv'
<1> USE DEF RtcInv, RtcTypes
<1>1. CASE /\ cmd.pc = "time_get" /\ cmd' = [cmd EXCEPT !.pc = "init"]
           /\ UNCHANGED <<active, counter, dirty>>
  <2>1. cmd'.pc = "init" /\ cmd'.sec = cmd.sec
    BY <1>1
  <2>2. RtcTypes'
    BY <1>1
  <2>3. ReadInv' /\ DateInv'
    BY <1>1, <2>1 DEF ReadInv, DateInv, Clearing
  <2> QED BY <2>2, <2>3
<1>2. CASE /\ cmd.pc = "init" /\ cmd' = [cmd EXCEPT !.pc = "flag"]
           /\ counter' = 0 /\ dirty' = TRUE /\ UNCHANGED active
  <2>1. cmd'.pc = "flag" /\ cmd'.sec = cmd.sec
    BY <1>2
  <2>2. RtcTypes'
    BY <1>2
  <2>3. ReadInv' /\ DateInv'
    BY <1>2, <2>1 DEF ReadInv, DateInv
  <2> QED BY <2>2, <2>3
<1>3. CASE /\ cmd.pc = "flag" /\ cmd' = [cmd EXCEPT !.pc = "time_get"]
           /\ active' = TRUE /\ UNCHANGED <<counter, dirty>>
  <2>1. cmd'.pc = "time_get" /\ cmd'.sec = cmd.sec
    BY <1>3
  <2>2. RtcTypes'
    BY <1>3
  <2>3. ReadInv' /\ DateInv'
    BY <1>3, <2>1 DEF ReadInv, DateInv, Clearing
  <2> QED BY <2>2, <2>3
<1> QED
  BY <1>1, <1>2, <1>3, Zenon DEF Rtc!OpenNow

LEMMA RtcOpenRead ==
  ASSUME RtcInv, Rtc!OpenRead, UNCHANGED <<time_sec, cmd, dirty, got, since, ticks, dates>>
  PROVE  RtcInv'
<1> USE DEF RtcInv, RtcTypes
<1>1. /\ rd'.pc \in {"idle", "init", "flag"}
      /\ rd' \in [pc : {"idle", "init", "flag", "base", "counter"}, val : Nat, from : Nat]
      /\ active' \in BOOLEAN /\ (active => active')
      /\ counter' = counter \/ counter' = 0
  BY DEF Rtc!OpenRead
<1>2. RtcTypes'
  BY <1>1
<1>3. ReadInv'
  BY <1>1 DEF ReadInv
<1>4. counter' \in Nat /\ counter' <= counter
  BY <1>1
<1>5. DateInv'
  <2>1. (cmd.pc = "date_get" => counter <= since /\ \E q \in Nat : time_sec = Day * q + cmd.sec)'
    BY <1>4 DEF DateInv
  <2> QED
    BY <1>1, <2>1 DEF DateInv, Today
<1> QED
  BY <1>2, <1>3, <1>5

LEMMA RtcGetNow == ASSUME RtcInv, Rtc!GetNow PROVE RtcInv'
<1> USE DEF RtcInv, RtcTypes
<1>1. /\ cmd.pc \in {"time_get", "date_get"} /\ active
      /\ cmd' = [cmd EXCEPT !.now = counter + time_sec,
                            !.pc = IF cmd.pc = "time_get" THEN "time_base" ELSE "date_base"]
      /\ UNCHANGED <<active, counter, time_sec, rd, dirty, since>>
  BY DEF Rtc!GetNow, Rtc!Clock
<1>2. counter' \in Nat /\ counter' + time_sec \in Nat
  BY <1>1
<1>3. RtcTypes'
  BY <1>1, <1>2 DEF Dating
<1>4. cmd'.pc \notin Clearing /\ cmd'.sec = cmd.sec
  BY <1>1 DEF Clearing
<1>5. ReadInv'
  BY <1>1, <1>4 DEF ReadInv
<1>6. (cmd.pc = "date_base" =>
         \E q \in Nat, e \in Nat : e <= since /\ cmd.now = Day * q + cmd.sec + e)'
  <2> SUFFICES ASSUME cmd'.pc = "date_base"
               PROVE  \E q \in Nat, e \in Nat : e <= since' /\ cmd'.now = Day * q + cmd'.sec + e
    OBVIOUS
  <2>1. cmd.pc = "date_get"
    BY <1>1
  <2>2. counter <= since
    BY <2>1 DEF DateInv
  <2>3. PICK q \in Nat : time_sec = Day * q + cmd.sec
    BY <2>1 DEF DateInv
  <2>4. cmd'.now = counter + time_sec /\ cmd'.sec = cmd.sec /\ since' = since
    BY <1>1
  <2>5. Day * q \in Nat
    BY TimersAssumption
  <2>6. cmd'.now = Day * q + cmd'.sec + counter
    BY <2>3, <2>4, <2>5
  <2> QED
    BY <2>2, <2>4, <2>6
<1>7. DateInv'
  BY <1>1, <1>4, <1>6 DEF DateInv
<1> QED
  BY <1>3, <1>5, <1>7

\* What mh_rtc_set_secs is given.
LEMMA NewTimeIs ==
  ASSUME RtcInv, cmd.pc \in {"time_base", "date_base"}
  PROVE  /\ Rtc!NewTime \in Nat
         /\ cmd.pc = "time_base" => \E q \in Nat : Rtc!NewTime = Day * q + cmd.sec
         /\ cmd.pc = "date_base" =>
              Day * cmd.day <= Rtc!NewTime /\ Rtc!NewTime <= Day * cmd.day + Day - 1
         /\ cmd.pc = "date_base" /\ cmd.sec + since < Day =>
              /\ Day * cmd.day + cmd.sec <= Rtc!NewTime
              /\ Rtc!NewTime <= Day * cmd.day + cmd.sec + since
<1> USE DEF RtcInv, RtcTypes
<1>1. /\ cmd.now \in Nat /\ cmd.sec \in Nat /\ cmd.day \in Nat
      /\ Day \in Nat \ {0} /\ since \in Nat
  BY TimersAssumption
<1>2. cmd.now \div Day \in Nat /\ cmd.now % Day \in 0..(Day - 1)
  BY <1>1, DivMod
<1>3. Day * (cmd.now \div Day) \in Nat /\ Day * cmd.day \in Nat
  BY <1>1, <1>2
<1>4. CASE cmd.pc = "time_base"
  <2>1. Rtc!NewTime = Day * (cmd.now \div Day) + cmd.sec
    BY <1>4 DEF Rtc!NewTime
  <2>2. Rtc!NewTime \in Nat
    BY <1>1, <1>3, <2>1
  <2> QED
    BY <1>2, <1>4, <2>1, <2>2
<1>5. CASE cmd.pc = "date_base"
  <2>1. Rtc!NewTime = Day * cmd.day + (cmd.now % Day)
    BY <1>5 DEF Rtc!NewTime
  <2>2. PICK x \in Nat : x = Day * cmd.day
    BY <1>3
  <2>3. PICK r \in 0..(Day - 1) : r = cmd.now % Day
    BY <1>2
  <2>4. Rtc!NewTime = x + r
    BY <2>1, <2>2, <2>3
  <2>5. Rtc!NewTime \in Nat
    BY <1>1, <2>2, <2>3, <2>4
  <2>6. ASSUME cmd.sec + since < Day
        PROVE  cmd.sec <= r /\ r <= cmd.sec + since
    <3>1. PICK q \in Nat, e \in Nat : e <= since /\ cmd.now = Day * q + cmd.sec + e
      BY <1>5 DEF DateInv
    <3>2. cmd.sec + e \in 0..(Day - 1)
      BY <1>1, <2>6, <3>1
    <3>3. Day * q \in Nat
      BY <1>1
    <3>4. cmd.now = Day * q + (cmd.sec + e)
      BY <1>1, <3>1, <3>3
    <3>5. (Day * q + (cmd.sec + e)) % Day = cmd.sec + e
      BY <1>1, <3>2, ModIs
    <3>6. r = cmd.sec + e
      BY <2>3, <3>4, <3>5
    <3> QED
      BY <1>1, <3>1, <3>6
  <2> QED
    BY <1>1, <1>5, <2>2, <2>4, <2>5, <2>6
<1> QED
  BY <1>4, <1>5

LEMMA RtcSetBase == ASSUME RtcInv, Rtc!SetBase PROVE RtcInv'
<1> USE DEF RtcInv, RtcTypes
<1>1. /\ cmd.pc \in {"time_base", "date_base"} /\ dirty' = TRUE
      /\ time_sec' = Rtc!NewTime
      /\ cmd' = [cmd EXCEPT !.pc = IF cmd.pc = "time_base" THEN "time_clear" ELSE "date_clear"]
      /\ UNCHANGED <<active, counter, rd, since>>
  BY DEF Rtc!SetBase
<1>2. /\ time_sec' \in Nat
      /\ cmd.pc = "time_base" => \E q \in Nat : time_sec' = Day * q + cmd.sec
      /\ cmd.pc = "date_base" =>
           Day * cmd.day <= time_sec' /\ time_sec' <= Day * cmd.day + Day - 1
      /\ cmd.pc = "date_base" /\ cmd.sec + since < Day =>
           /\ Day * cmd.day + cmd.sec <= time_sec'
           /\ time_sec' <= Day * cmd.day + cmd.sec + since
  BY <1>1, NewTimeIs
<1>3. cmd'.sec = cmd.sec /\ cmd'.day = cmd.day
      /\ cmd'.pc = IF cmd.pc = "time_base" THEN "time_clear" ELSE "date_clear"
  BY <1>1
<1>4. RtcTypes'
  BY <1>1, <1>2 DEF Clearing
<1>5. ReadInv'
  BY <1>1 DEF ReadInv
<1>6. DateInv'
  BY <1>1, <1>2, <1>3 DEF DateInv, Today
<1> QED
  BY <1>4, <1>5, <1>6

LEMMA RtcClearCounter == ASSUME RtcInv, Rtc!ClearCounter PROVE RtcInv'
<1> USE DEF RtcInv, RtcTypes
<1>1. /\ cmd.pc \in {"time_clear", "date_clear"} /\ dirty' = TRUE /\ counter' = 0
      /\ cmd' = [cmd EXCEPT !.pc = IF cmd.pc = "time_clear" THEN "date_get" ELSE "idle"]
      /\ since' = IF cmd.pc = "time_clear" THEN 0 ELSE since
      /\ UNCHANGED <<active, time_sec, rd>>
  BY DEF Rtc!ClearCounter
<1>2. RtcTypes'
  BY <1>1 DEF Dating
<1>3. ReadInv'
  BY <1>1 DEF ReadInv
<1>4. cmd'.sec = cmd.sec /\ cmd'.pc = IF cmd.pc = "time_clear" THEN "date_get" ELSE "idle"
  BY <1>1
<1>5. DateInv'
  BY <1>1, <1>4 DEF DateInv
<1> QED
  BY <1>2, <1>3, <1>5

LEMMA RtcReadFirst == ASSUME RtcInv, Rtc!ReadFirst PROVE RtcInv'
<1> USE DEF RtcInv, RtcTypes
<1>1. /\ \/ rd' = [pc |-> "base", val |-> counter, from |-> counter + time_sec]
         \/ rd' = [pc |-> "counter", val |-> time_sec, from |-> counter + time_sec]
      /\ UNCHANGED <<active, counter, time_sec, cmd, since>>
  BY DEF Rtc!ReadFirst, Rtc!Clock
<1>2. counter' \in Nat /\ counter' + time_sec \in Nat
  BY <1>1
<1>3. RtcTypes'
  BY <1>1, <1>2
<1>4. ~dirty' => cmd.pc \notin Clearing
  BY DEF Rtc!ReadFirst, Clearing
<1>5. ReadInv'
  BY <1>1, <1>2, <1>4 DEF ReadInv
<1>6. DateInv'
  BY <1>1 DEF DateInv, Today
<1> QED
  BY <1>3, <1>5, <1>6

LEMMA RtcReadSecond == ASSUME RtcInv, Rtc!ReadSecond PROVE RtcInv'
<1> USE DEF RtcInv
<1>1. /\ rd' = [pc |-> "idle", val |-> 0, from |-> 0]
      /\ UNCHANGED <<active, counter, time_sec, cmd, dirty, since>>
  BY DEF Rtc!ReadSecond
<1>2. RtcTypes'
  BY <1>1 DEF RtcTypes
<1>3. ReadInv'
  BY <1>1 DEF ReadInv
<1>4. DateInv'
  BY <1>1 DEF DateInv, Today
<1> QED
  BY <1>2, <1>3, <1>4

LEMMA RtcNext == RtcInv /\ [BoardNext]_board => RtcInv'
<1> SUFFICES ASSUME RtcInv, [BoardNext]_board PROVE RtcInv'
  OBVIOUS
<1>1. CASE Rtc!Next
  <2>1. CASE \E d \in 0..MaxDay, s \in 0..(Day - 1) : Rtc!date(d, s)
    BY <2>1, RtcDate
  <2> QED
    BY <1>1, <2>1, RtcTick, RtcOpenNow, RtcGetNow, RtcSetBase, RtcClearCounter, RtcOpenRead,
       RtcReadFirst, RtcReadSecond
       DEF Rtc!Next
<1>2. CASE UNCHANGED rtc
  <2>1. UNCHANGED <<active, counter, time_sec, cmd, rd, dirty, since>>
    BY <1>2 DEF rtc
  <2> QED
    BY <2>1 DEF RtcInv, RtcTypes, ReadInv, DateInv, Today
<1> QED
  BY <1>1, <1>2 DEF BoardNext, board

\* A step of the clock, or none.
LEMMA RtcStep == [BoardNext]_board => [Rtc!Next]_(Rtc!vars)
  BY DEF BoardNext, board, rtc, Rtc!vars

\* time returns a moment between its beginning and its end, whichever of base
\* and counter the compiler reads first and however many seconds pass between
\* the two, as long as no mh_rtc_set_secs and no late mh_rtc_init overlaps.
THEOREM RtcReadExactHolds == BoardSpec => RtcReadExact
<1> DEFINE Exact == (rd.pc \in {"base", "counter"} /\ rd'.pc = "idle" /\ ~dirty)
                       => got' \in rd.from..Rtc!Clock
<1>1. BoardInit => RtcInv
  BY RtcInit DEF BoardInit
<1>2. ASSUME RtcInv, [BoardNext]_board PROVE [Exact]_(Rtc!vars)
  <2> SUFFICES ASSUME Rtc!Next, rd.pc \in {"base", "counter"}, rd'.pc = "idle", ~dirty
               PROVE  got' \in rd.from..Rtc!Clock
    BY <1>2, RtcStep
  <2>1. Rtc!ReadSecond
    <3>1. rd' # rd
      OBVIOUS
    <3> QED
      BY <3>1 DEF Rtc!Next, Rtc!Tick, Rtc!date, Rtc!OpenNow, Rtc!GetNow, Rtc!SetBase,
                  Rtc!ClearCounter, Rtc!OpenRead, Rtc!ReadFirst
  <2>2. got' = rd.val + (IF rd.pc = "base" THEN time_sec ELSE counter)
    BY <2>1 DEF Rtc!ReadSecond
  <2>3. rd.val \in Nat /\ rd.from \in Nat /\ counter \in Nat /\ time_sec \in Nat
    BY <1>2 DEF RtcInv, RtcTypes
  <2> QED
    BY <1>2, <2>2, <2>3 DEF RtcInv, ReadInv, Rtc!Clock
<1> QED
  BY <1>1, <1>2, RtcNext, PTL DEF BoardSpec, RtcReadExact, Rtc!ReadExact

\* After the command date, the clock shows the day that was asked for, and the
\* second that was asked for or one of the seconds that have passed since
\* set_time, whoever reads and opens the clock meanwhile, unless they have gone
\* past midnight.
THEOREM RtcDateSetsHolds == BoardSpec => RtcDateSets
<1> DEFINE Sets == (cmd.pc = "date_clear" /\ cmd'.pc = "idle") =>
             LET today == Day * cmd.day
                 now   == counter' + time_sec'
             IN  /\ now \in today..(today + Day - 1)
                 /\ cmd.sec + since < Day => now \in (today + cmd.sec)..(today + cmd.sec + since)
<1>1. BoardInit => RtcInv
  BY RtcInit DEF BoardInit
<1>2. ASSUME RtcInv, [BoardNext]_board PROVE [Sets]_(Rtc!vars)
  <2>1. PICK x : x = Day * cmd.day
    OBVIOUS
  <2> SUFFICES ASSUME Rtc!Next, cmd.pc = "date_clear", cmd'.pc = "idle"
               PROVE  /\ counter' + time_sec' \in x..(x + Day - 1)
                      /\ cmd.sec + since < Day =>
                           counter' + time_sec' \in (x + cmd.sec)..(x + cmd.sec + since)
    BY <1>2, <2>1, RtcStep
  <2>2. Rtc!ClearCounter
    <3>1. cmd' # cmd
      OBVIOUS
    <3> QED
      BY <3>1 DEF Rtc!Next, Rtc!Tick, Rtc!date, Rtc!OpenNow, Rtc!GetNow, Rtc!SetBase,
                  Rtc!OpenRead, Rtc!ReadFirst, Rtc!ReadSecond
  <2>3. counter' = 0 /\ time_sec' = time_sec
    BY <2>2 DEF Rtc!ClearCounter
  <2>4. x \in Nat /\ cmd.sec \in Nat /\ since \in Nat /\ time_sec \in Nat /\ Day \in Nat
    BY <1>2, <2>1, TimersAssumption DEF RtcInv, RtcTypes
  <2>5. /\ x <= time_sec /\ time_sec <= x + Day - 1
        /\ cmd.sec + since < Day => x + cmd.sec <= time_sec /\ time_sec <= x + cmd.sec + since
    BY <1>2, <2>1 DEF RtcInv, DateInv, Today
  <2> QED
    BY <2>3, <2>4, <2>5
<1> QED
  BY <1>1, <1>2, RtcNext, PTL DEF BoardSpec, RtcDateSets, Rtc!DateSets
-----------------------------------------------------------------------------
(* Pulse width modulation.                                                 *)

PwmTypes ==
  /\ high \in Nat /\ low \in Nat /\ writes \in Nat
  /\ asked \in [period : Nat, pulse : Nat]
  /\ get.period \in Nat /\ get.asked \in Nat /\ get.writes \in Nat

\* The period that _pwm_write has got, for the wave that there was then: it is a
\* tick or two short of it.
GetInv ==
  get.plain =>
    LET t == Pwm!Ticks(get.period) IN
    \E Q \in Nat :
      /\ Q <= Pwm!AtLeast(get.asked - Pwm!AtMost(get.writes, get.asked), MIN_PERIOD)
      /\ Q >= get.asked - Pwm!AtMost(2 * get.writes, get.asked)
      /\ t <= Q - 1 /\ Q <= t + 2 /\ Q <= Words

PwmInv == PwmTypes /\ (get.busy => GetInv) /\ PwmWaveAsAsked

\* Nanoseconds in ticks: rounded down, and no more than there are nanoseconds.
LEMMA TicksOf ==
  ASSUME NEW x \in Nat
  PROVE  /\ Pwm!Ticks(x) \in Nat /\ Pwm!Ticks(x) <= x
         /\ Ns * Pwm!Ticks(x) <= x * MHz /\ x * MHz < Ns * Pwm!Ticks(x) + Ns
<1>1. x * MHz \in Nat /\ Ns \in Nat \ {0} /\ MHz \in Nat /\ MHz <= Ns
  BY TimersAssumption
<1>2. PICK y \in Nat : y = x * MHz
  BY <1>1
<1>3. PICK t : t = y \div Ns
  OBVIOUS
<1>4. t = Pwm!Ticks(x)
  BY <1>2, <1>3 DEF Pwm!Ticks
<1>5. t \in Nat /\ y % Ns \in 0..(Ns - 1) /\ y = Ns * t + (y % Ns)
  BY <1>1, <1>3, DivMod
<1>6. Ns * t \in Nat
  BY <1>1, <1>5
<1>7. Ns * t <= y /\ y < Ns * t + Ns
  BY <1>1, <1>5, <1>6
<1>8. t <= x
  <2> SUFFICES ASSUME x < t PROVE FALSE
    BY <1>5
  <2>1. x + 1 <= t
    BY <1>5
  <2>2. Ns * (x + 1) <= Ns * t
    BY <1>1, <1>5, <2>1
  <2>3. x * MHz <= x * Ns
    BY <1>1
  <2>4. Ns * (x + 1) = x * Ns + Ns /\ x * Ns \in Nat
    BY <1>1
  <2> QED
    BY <1>1, <1>2, <1>6, <1>7, <2>2, <2>3, <2>4
<1> QED
  BY <1>2, <1>4, <1>5, <1>7, <1>8

\* The limits that drv_pwm_set puts on period and pulse.
LEMMA Limits ==
  ASSUME NEW p \in Nat, NEW d \in Nat
  PROVE  /\ Pwm!Period(p) \in Nat /\ Pwm!Period(p) >= MIN_PERIOD
         /\ Pwm!Period(p) = MIN_PERIOD \/ Pwm!Period(p) = Pwm!Ticks(p)
         /\ Pwm!Period(p) >= Pwm!Ticks(p)
         /\ Pwm!Pulse(p, d) \in 1..Pwm!Period(p)
<1>1. Pwm!Ticks(p) \in Nat /\ Pwm!Ticks(d) \in Nat
  BY TicksOf
<1>2. /\ MIN_PULSE \in Nat \ {0} /\ MIN_PERIOD \in Nat /\ MIN_PULSE < MIN_PERIOD
  BY TimersAssumption
<1>3. /\ Pwm!Period(p) = IF Pwm!Ticks(p) < MIN_PERIOD THEN MIN_PERIOD ELSE Pwm!Ticks(p)
  BY DEF Pwm!Period, Pwm!AtLeast
<1>4. PICK a \in Nat \ {0} : Pwm!AtLeast(Pwm!Ticks(d), MIN_PULSE) = a
  BY <1>1, <1>2 DEF Pwm!AtLeast
<1>5. Pwm!Pulse(p, d) = IF a > Pwm!Period(p) THEN Pwm!Period(p) ELSE a
  BY <1>4 DEF Pwm!Pulse, Pwm!AtMost
<1> QED
  BY <1>1, <1>2, <1>3, <1>5

\* The two reload values make the wave, unless the pulse is as long as the period.
LEMMA Programmed ==
  ASSUME NEW p \in Nat, NEW d \in Nat, Pwm!Program(p, d)
  PROVE  /\ high' \in Nat /\ low' \in Nat /\ high' + 1 = Pwm!Pulse(p, d)
         /\ Pwm!Pulse(p, d) < Pwm!Period(p) /\ Pwm!Period(p) <= Words =>
              high' + low' + 2 = Pwm!Period(p)
<1>1. PICK P \in Nat : P = Pwm!Period(p)
  BY Limits
<1>2. PICK D \in 1..P : D = Pwm!Pulse(p, d)
  BY <1>1, Limits
<1>3. high' = D - 1 /\ low' = (Words + P - D - 1) % Words
  BY <1>1, <1>2 DEF Pwm!Program
<1>4. Words \in Nat \ {0}
  BY TimersAssumption
<1>5. PICK y \in Nat : y = Words + P - D - 1
  BY <1>2, <1>4
<1>6. low' \in Nat
  <2>1. y % Words \in 0..(Words - 1)
    BY <1>4, DivMod
  <2>2. low' \in 0..(Words - 1)
    BY <1>3, <1>5, <2>1
  <2> QED
    BY <1>4, <2>2
<1>7. ASSUME D < P, P <= Words PROVE high' + low' + 2 = P
  <2>1. P - D - 1 \in 0..(Words - 1)
    BY <1>2, <1>4, <1>7
  <2>2. PICK r \in 0..(Words - 1) : r = P - D - 1
    BY <2>1
  <2>3. (Words * 1 + r) % Words = r
    BY <1>4, ModIs
  <2>4. y = Words * 1 + r
    BY <1>2, <1>4, <1>5, <2>2
  <2>5. low' = r
    BY <1>3, <1>5, <2>3, <2>4
  <2> QED
    BY <1>2, <1>3, <2>2, <2>5
<1> QED
  BY <1>1, <1>2, <1>3, <1>6, <1>7

\* There and back: the period that drv_pwm_get reports is one tick short, or two.
LEMMA GetPeriodOf ==
  ASSUME PwmTypes
  PROVE  /\ Pwm!GetPeriod \in Nat
         /\ Pwm!Fits => /\ Pwm!Ticks(Pwm!GetPeriod) <= high + low + 1
                        /\ Pwm!Ticks(Pwm!GetPeriod) >= high + low
                        /\ high + low + 1 < Words
<1>1. PICK k \in Nat : k = high + low + 1
  BY DEF PwmTypes
<1>2. Words \in Nat \ {0} /\ Ns \in Nat \ {0} /\ MHz \in Nat \ {0} /\ MHz <= Ns
  BY TimersAssumption
<1>3. PICK z \in Nat : z = k * Ns
  BY <1>1, <1>2
<1>4. PICK w \in Nat : w = z % Words
  BY <1>2, DivMod
<1>5. PICK g : g = w \div MHz
  OBVIOUS
<1>6. g \in Nat /\ g = Pwm!GetPeriod
  <2>1. g \in Nat
    BY <1>2, <1>4, <1>5, DivMod
  <2>2. Pwm!GetPeriod = g
    BY <1>1, <1>3, <1>4, <1>5 DEF Pwm!GetPeriod
  <2> QED
    BY <2>1, <2>2
<1>7. ASSUME Pwm!Fits
      PROVE  Pwm!Ticks(g) <= k /\ Pwm!Ticks(g) >= k - 1 /\ k < Words
  <2>1. z < Words
    BY <1>1, <1>3, <1>7 DEF Pwm!Fits
  <2>2. w = z
    <3>1. z \in 0..(Words - 1)
      BY <1>2, <2>1
    <3>2. z % Words = z
      BY <1>2, <3>1, ModSmall
    <3> QED
      BY <1>4, <3>2
  <2>3. w % MHz \in 0..(MHz - 1) /\ w = MHz * g + (w % MHz)
    BY <1>2, <1>4, <1>5, DivMod
  <2>4. PICK m \in Nat : m = MHz * g
    BY <1>2, <1>6
  <2>5. m <= z /\ z < m + MHz
    BY <1>2, <2>2, <2>3, <2>4
  <2>6. PICK t \in Nat : t = Pwm!Ticks(g)
    BY <1>6, TicksOf
  <2>7. PICK n \in Nat : n = Ns * t
    BY <1>2, <2>6
  <2>8. n <= m /\ m < n + Ns
    <3>1. Ns * Pwm!Ticks(g) <= g * MHz /\ g * MHz < Ns * Pwm!Ticks(g) + Ns
      BY <1>6, TicksOf
    <3>2. g * MHz = m
      BY <1>2, <1>6, <2>4
    <3> QED
      BY <2>6, <2>7, <3>1, <3>2
  <2>9. t <= k
    <3> SUFFICES ASSUME k + 1 <= t PROVE FALSE
      BY <1>1, <2>6
    <3>1. Ns * (k + 1) <= Ns * t
      BY <1>1, <1>2, <2>6
    <3>2. Ns * (k + 1) = z + Ns
      BY <1>1, <1>2, <1>3
    <3> QED
      BY <1>2, <2>5, <2>7, <2>8, <3>1, <3>2
  <2>10. k <= t + 1
    <3> SUFFICES ASSUME t + 2 <= k PROVE FALSE
      BY <1>1, <2>6
    <3>1. Ns * (t + 2) <= Ns * k
      BY <1>1, <1>2, <2>6
    <3>2. Ns * (t + 2) = n + 2 * Ns /\ Ns * k = z
      BY <1>1, <1>2, <1>3, <2>6, <2>7
    <3> QED
      BY <1>2, <2>5, <2>7, <2>8, <3>1, <3>2
  <2>11. k <= z
    BY <1>1, <1>2, <1>3
  <2> QED
    BY <1>1, <2>1, <2>6, <2>9, <2>10, <2>11, <1>2
<1> QED
  BY <1>1, <1>6, <1>7 DEF PwmTypes

LEMMA PwmInit == Pwm!Init => PwmInv
<1> SUFFICES ASSUME Pwm!Init PROVE PwmInv
  OBVIOUS
<1>1. PICK h \in Nat : h = Pwm!Ticks(MaxNs)
  BY TicksOf, TimersAssumption
<1>2. /\ high = h /\ low = h /\ writes = 0 /\ get = Pwm!Idle
      /\ asked = [period |-> h + h + 2, pulse |-> h + 1]
  BY <1>1 DEF Pwm!Init
<1>3. PwmTypes /\ ~get.busy
  BY <1>1, <1>2 DEF PwmTypes, Pwm!Idle
<1>4. PwmWaveAsAsked
  <2>1. asked.period = h + h + 2 /\ asked.pulse = h + 1 /\ 2 * writes = 0
    BY <1>2
  <2> QED
    BY <1>1, <1>2, <2>1, TimersAssumption
       DEF PwmWaveAsAsked, Pwm!WaveAsAsked, Pwm!Wave, Pwm!AtLeast, Pwm!AtMost
<1> QED
  BY <1>3, <1>4 DEF PwmInv

LEMMA PwmSet ==
  ASSUME PwmInv, NEW p \in 0..MaxNs, NEW d \in 0..MaxNs, Pwm!drv_pwm_set(p, d) PROVE PwmInv'
<1>1. p \in Nat /\ d \in Nat /\ p < Words
  BY TimersAssumption
<1>2. Pwm!Program(p, d)
  BY DEF Pwm!drv_pwm_set
<1>3. PICK P \in Nat : P = Pwm!Period(p)
  BY <1>1, Limits
<1>4. PICK D \in 1..P : D = Pwm!Pulse(p, d)
  BY <1>1, <1>3, Limits
<1>5. P <= Words
  <2>1. P = MIN_PERIOD \/ P = Pwm!Ticks(p)
    BY <1>1, <1>3, Limits
  <2>2. Pwm!Ticks(p) \in Nat /\ Pwm!Ticks(p) <= p
    BY <1>1, TicksOf
  <2> QED
    BY <1>1, <2>1, <2>2, TimersAssumption
<1>6. /\ high' \in Nat /\ low' \in Nat /\ high' + 1 = D
      /\ D < P => high' + low' + 2 = P
  BY <1>1, <1>2, <1>3, <1>4, <1>5, Programmed
<1>7. /\ asked' = [period |-> P, pulse |-> D] /\ writes' = 0 /\ get' = get
      /\ plain' => D < P
  BY <1>3, <1>4 DEF Pwm!drv_pwm_set
<1>8. PwmTypes' /\ (get.busy => GetInv)'
  BY <1>3, <1>4, <1>6, <1>7 DEF PwmInv, PwmTypes, GetInv
<1>9. PwmWaveAsAsked'
  <2>1. asked'.period = P /\ asked'.pulse = D /\ 2 * writes' = 0
    BY <1>7
  <2> QED
    BY <1>3, <1>4, <1>6, <1>7, <2>1, TimersAssumption
       DEF PwmWaveAsAsked, Pwm!WaveAsAsked, Pwm!Wave, Pwm!AtLeast, Pwm!AtMost
<1> QED
  BY <1>8, <1>9 DEF PwmInv

LEMMA PwmWriteGet == ASSUME PwmInv, Pwm!WriteGet PROVE PwmInv'
<1> DEFINE g == Pwm!GetPeriod
<1>1. g \in Nat
  BY GetPeriodOf DEF PwmInv
<1> HIDE DEF g
<1>2. /\ get' = [busy |-> TRUE, period |-> g, asked |-> asked.period,
                 writes |-> writes, plain |-> plain /\ Pwm!Fits]
      /\ UNCHANGED <<high, low, asked, writes, plain>>
  BY DEF Pwm!WriteGet, g
<1>3. /\ get'.period = g /\ get'.asked = asked.period /\ get'.writes = writes
      /\ get'.plain = (plain /\ Pwm!Fits)
  BY <1>2
<1>4. PwmTypes'
  BY <1>1, <1>2, <1>3 DEF PwmInv, PwmTypes
<1>5. PwmWaveAsAsked'
  BY <1>2 DEF PwmInv, PwmWaveAsAsked, Pwm!WaveAsAsked, Pwm!Wave
<1>6. GetInv'
  <2> SUFFICES ASSUME plain, Pwm!Fits
               PROVE  LET t == Pwm!Ticks(g) IN
                      \E Q \in Nat :
                        /\ Q <= Pwm!AtLeast(asked.period - Pwm!AtMost(writes, asked.period), MIN_PERIOD)
                        /\ Q >= asked.period - Pwm!AtMost(2 * writes, asked.period)
                        /\ t <= Q - 1 /\ Q <= t + 2 /\ Q <= Words
    BY <1>3 DEF GetInv
  <2>1. PICK Q \in Nat : Q = high + low + 2
    BY DEF PwmInv, PwmTypes
  <2>2. /\ Q <= Pwm!AtLeast(asked.period - Pwm!AtMost(writes, asked.period), MIN_PERIOD)
        /\ Q >= asked.period - Pwm!AtMost(2 * writes, asked.period)
    BY <2>1 DEF PwmInv, PwmWaveAsAsked, Pwm!WaveAsAsked, Pwm!Wave
  <2>3. PICK t \in Nat : t = Pwm!Ticks(g)
    BY <1>1, TicksOf
  <2>4. t <= Q - 1 /\ Q <= t + 2 /\ Q <= Words
    <3>1. /\ Pwm!Ticks(g) <= high + low + 1
          /\ Pwm!Ticks(g) >= high + low /\ high + low + 1 < Words
      BY GetPeriodOf DEF PwmInv, g
    <3> QED
      BY <2>1, <2>3, <3>1, TimersAssumption DEF PwmInv, PwmTypes
  <2> QED
    BY <2>2, <2>3, <2>4
<1> QED
  BY <1>4, <1>5, <1>6 DEF PwmInv

\* A write of the pulse takes a tick or two off the period that it has got,
\* never more.
LEMMA PwmWrite ==
  ASSUME PwmInv, NEW d \in 0..MaxNs, Pwm!_pwm_write(d) PROVE PwmInv'
<1> DEFINE g == get.period
<1>1. d \in Nat /\ g \in Nat
  BY TimersAssumption DEF PwmInv, PwmTypes
<1>2. get.busy /\ get' = Pwm!Idle
  BY DEF Pwm!_pwm_write
<1>3. ~get'.busy /\ get'.period \in Nat /\ get'.asked \in Nat /\ get'.writes \in Nat
  BY <1>2 DEF Pwm!Idle
<1>4. CASE Pwm!TooShort(g)
  <2>1. UNCHANGED <<high, low, asked, writes, plain>>
    BY <1>4 DEF Pwm!_pwm_write
  <2> QED
    BY <1>3, <2>1 DEF PwmInv, PwmTypes, PwmWaveAsAsked, Pwm!WaveAsAsked, Pwm!Wave
<1>5. CASE ~Pwm!TooShort(g)
  <2>1. Pwm!Program(g, d)
    BY <1>5 DEF Pwm!_pwm_write
  <2>2. PICK P \in Nat : P = Pwm!Period(g)
    BY <1>1, Limits
  <2>3. PICK D \in 1..P : D = Pwm!Pulse(g, d)
    BY <1>1, <2>2, Limits
  <2>4. /\ high' \in Nat /\ low' \in Nat /\ high' + 1 = D
        /\ D < P /\ P <= Words => high' + low' + 2 = P
    BY <1>1, <2>1, <2>2, <2>3, Programmed
  <2>5. PICK A \in Nat : A = get.asked
    BY DEF PwmInv, PwmTypes
  <2>6. PICK w \in Nat : w = get.writes
    BY DEF PwmInv, PwmTypes
  <2>7. /\ asked' = [period |-> A, pulse |-> D] /\ writes' = w + 1
        /\ plain' => get.plain /\ D < P
    BY <1>5, <2>2, <2>3, <2>5, <2>6 DEF Pwm!_pwm_write
  <2>8. PwmTypes'
    BY <1>3, <2>2, <2>3, <2>4, <2>5, <2>6, <2>7 DEF PwmTypes
  <2>9. PwmWaveAsAsked'
    <3> SUFFICES ASSUME get.plain, D < P
                 PROVE  /\ Pwm!Wave'.pulse = asked'.pulse
                        /\ Pwm!Wave'.period <= Pwm!AtLeast(asked'.period - Pwm!AtMost(writes', asked'.period), MIN_PERIOD)
                        /\ Pwm!Wave'.period >= asked'.period - Pwm!AtMost(2 * writes', asked'.period)
      BY <2>7 DEF PwmWaveAsAsked, Pwm!WaveAsAsked
    <3>1. PICK t \in Nat : t = Pwm!Ticks(g)
      BY <1>1, TicksOf
    <3>2. PICK Q \in Nat :
             /\ Q <= Pwm!AtLeast(A - Pwm!AtMost(w, A), MIN_PERIOD)
             /\ Q >= A - Pwm!AtMost(2 * w, A)
             /\ t <= Q - 1 /\ Q <= t + 2 /\ Q <= Words
      BY <1>2, <2>5, <2>6, <3>1 DEF PwmInv, GetInv
    <3>3. (P = MIN_PERIOD \/ P = t) /\ P >= t
      BY <1>1, <2>2, <3>1, Limits
    <3>4. high' + low' + 2 = P
      BY <2>2, <2>4, <3>1, <3>2, <3>3, TimersAssumption
    <3>5. asked'.period = A /\ asked'.pulse = D /\ writes' = w + 1
      BY <2>7
    <3>6. Pwm!Wave'.pulse = D /\ Pwm!Wave'.period = P
      BY <2>4, <3>4 DEF Pwm!Wave
    <3>7. P <= Pwm!AtLeast(A - Pwm!AtMost(w + 1, A), MIN_PERIOD)
      BY <2>2, <2>5, <2>6, <3>1, <3>2, <3>3, TimersAssumption DEF Pwm!AtLeast, Pwm!AtMost
    <3>8. P >= A - Pwm!AtMost(2 * (w + 1), A)
      BY <2>2, <2>5, <2>6, <3>1, <3>2, <3>3 DEF Pwm!AtMost
    <3> QED
      BY <3>5, <3>6, <3>7, <3>8
  <2> QED
    BY <1>3, <2>8, <2>9 DEF PwmInv
<1> QED
  BY <1>4, <1>5

LEMMA PwmNext == PwmInv /\ [BoardNext]_board => PwmInv'
<1> SUFFICES ASSUME PwmInv, [BoardNext]_board PROVE PwmInv'
  OBVIOUS
<1>1. CASE UNCHANGED <<high, low, asked, writes, plain, get>>
  BY <1>1 DEF PwmInv, PwmTypes, GetInv, PwmWaveAsAsked, Pwm!WaveAsAsked, Pwm!Wave
<1>2. CASE Pwm!Next
  <2>1. CASE \E p \in 0..MaxNs, d \in 0..MaxNs : Pwm!drv_pwm_set(p, d)
    BY <2>1, PwmSet
  <2>2. CASE Pwm!WriteGet
    BY <2>2, PwmWriteGet
  <2>3. CASE \E d \in 0..MaxNs : Pwm!_pwm_write(d)
    BY <2>3, PwmWrite
  <2>4. CASE \E on \in BOOLEAN : Pwm!TIM_Cmd(on)
    BY <2>4, <1>1 DEF Pwm!TIM_Cmd
  <2> QED
    BY <1>2, <2>1, <2>2, <2>3, <2>4 DEF Pwm!Next
<1>3. CASE UNCHANGED pwm
  BY <1>1, <1>3 DEF pwm
<1> QED
  BY <1>2, <1>3 DEF BoardNext, board

\* The pulse is the one that was written last, and the period loses a tick, or
\* two where the conversion rounds, with every _pwm_write, whatever the rate of
\* the timer and whatever calls come between its two halves, as long as every
\* pulse is shorter than the period and the period fits in a word as nanoseconds.
THEOREM PwmWaveAsAskedHolds == BoardSpec => []PwmWaveAsAsked
<1>1. BoardInit => PwmInv
  BY PwmInit DEF BoardInit
<1>2. PwmInv => PwmWaveAsAsked
  BY DEF PwmInv
<1> QED
  BY <1>1, <1>2, PwmNext, PTL DEF BoardSpec
=============================================================================
