------------------------------- MODULE MhRtc -------------------------------
(* The clock: mh_rtc_get_secs and mh_rtc_set_secs of drv_rtc.c keep the     *)
(* time as a base in memory plus the counter of the RTC, which can be       *)
(* cleared but not set; set_time, set_date and the command date of rtc.c    *)
(* read the time, change a part of it and write it back.  A thread that     *)
(* asks for the time runs at the same time as the shell; no function here   *)
(* takes a lock.  A time is a number of seconds, a date a number of days.   *)
EXTENDS Naturals

CONSTANTS Day,        \* seconds of a day
          MaxDay,     \* bound: days a date may name
          MaxTicks,   \* bound: seconds that pass
          MaxDates    \* bound: date commands

VARIABLES active,     \* RT_DEVICE_FLAG_ACTIVATED of the device
          counter,    \* the counter of the RTC
          time_sec,   \* the base
          cmd,        \* where the command date is: pc, the day and second asked for, now
          rd,         \* the other thread: pc, what it has read so far, the time when it began
          dirty,      \* has a set_secs overlapped with the read?
          got,        \* the time the other thread was given last
          since,      \* seconds since set_time took effect
          ticks, dates

vars == <<active, counter, time_sec, cmd, rd, dirty, got, since, ticks, dates>>

Init ==
  /\ active = FALSE /\ counter \in 0..1 /\ time_sec = 1
  /\ cmd = [pc |-> "idle", day |-> 0, sec |-> 0, now |-> 0]
  /\ rd = [pc |-> "idle", val |-> 0, from |-> 0]
  /\ dirty = FALSE /\ got = 0 /\ since = 0 /\ ticks = 0 /\ dates = 0

Clock == counter + time_sec

Tick ==
  /\ ticks < MaxTicks
  /\ ticks' = ticks + 1
  /\ counter' = counter + 1
  /\ since' = IF cmd.pc \in {"date_get", "date_base", "date_clear"} THEN since + 1 ELSE since
  /\ UNCHANGED <<active, time_sec, cmd, rd, dirty, got, dates>>

-----------------------------------------------------------------------------
(* The command: set_time, then set_date.                                   *)

date(d, s) ==
  /\ cmd.pc = "idle" /\ dates < MaxDates
  /\ dates' = dates + 1
  /\ cmd' = [pc |-> "time_get", day |-> d, sec |-> s, now |-> 0]
  /\ UNCHANGED <<active, counter, time_sec, rd, dirty, got, since, ticks>>

\* rt_device_open in get_timeval, for the first one that finds the device not
\* activated: mh_rtc_init, which clears the counter, then the flag.
OpenNow ==
  \/ /\ cmd.pc = "time_get" /\ ~active
     /\ cmd' = [cmd EXCEPT !.pc = "init"]
     /\ UNCHANGED <<active, counter, dirty>>
  \/ /\ cmd.pc = "init"
     /\ cmd' = [cmd EXCEPT !.pc = "flag"]
     /\ counter' = 0 /\ dirty' = TRUE
     /\ UNCHANGED active
  \/ /\ cmd.pc = "flag"
     /\ cmd' = [cmd EXCEPT !.pc = "time_get"]
     /\ active' = TRUE
     /\ UNCHANGED <<counter, dirty>>

\* now = time(RT_NULL)
GetNow ==
  /\ cmd.pc \in {"time_get", "date_get"} /\ active
  /\ cmd' = [cmd EXCEPT !.now = Clock,
                        !.pc = IF cmd.pc = "time_get" THEN "time_base" ELSE "date_base"]
  /\ UNCHANGED <<active, counter, time_sec, rd, dirty, got, since, ticks, dates>>

\* Mutant: set_date takes the second it was asked for, not the present one.
NewTime_Swapped ==
  IF cmd.pc = "time_base" THEN Day * cmd.day + (cmd.now % Day)
  ELSE Day * (cmd.now \div Day) + cmd.sec

\* mktime of the fields that set_time and set_date leave and replace.
NewTime ==
  IF cmd.pc = "time_base" THEN Day * (cmd.now \div Day) + cmd.sec
  ELSE Day * cmd.day + (cmd.now % Day)

\* mh_rtc_set_secs, first half: the base.
SetBase ==
  /\ cmd.pc \in {"time_base", "date_base"}
  /\ time_sec' = NewTime
  /\ cmd' = [cmd EXCEPT !.pc = IF cmd.pc = "time_base" THEN "time_clear" ELSE "date_clear"]
  /\ dirty' = TRUE
  /\ UNCHANGED <<active, counter, rd, got, since, ticks, dates>>

\* Second half: RTC_ResetCounter.
ClearCounter ==
  /\ cmd.pc \in {"time_clear", "date_clear"}
  /\ counter' = 0
  /\ cmd' = [cmd EXCEPT !.pc = IF cmd.pc = "time_clear" THEN "date_get" ELSE "idle"]
  /\ since' = IF cmd.pc = "time_clear" THEN 0 ELSE since
  /\ dirty' = TRUE
  /\ UNCHANGED <<active, time_sec, rd, got, ticks, dates>>

-----------------------------------------------------------------------------
(* Another thread calls time: the sum of counter and base is not read in   *)
(* one step, and C leaves it open which of the two is read first.          *)

\* Its rt_device_open, which may have found the device not activated long before
\* mh_rtc_init clears the counter.
OpenRead ==
  \/ /\ rd.pc = "idle" /\ ~active
     /\ rd' = [rd EXCEPT !.pc = "init"]
     /\ UNCHANGED <<active, counter>>
  \/ /\ rd.pc = "init"
     /\ rd' = [rd EXCEPT !.pc = "flag"]
     /\ counter' = 0
     /\ UNCHANGED active
  \/ /\ rd.pc = "flag"
     /\ rd' = [rd EXCEPT !.pc = "idle"]
     /\ active' = TRUE
     /\ UNCHANGED counter

ReadFirst ==
  /\ rd.pc = "idle" /\ active
  /\ \/ rd' = [pc |-> "base", val |-> counter, from |-> Clock]
     \/ rd' = [pc |-> "counter", val |-> time_sec, from |-> Clock]
  /\ dirty' = (cmd.pc \in {"time_clear", "date_clear"})
  /\ UNCHANGED <<active, counter, time_sec, cmd, got, since, ticks, dates>>

\* Mutant: the time since the last set_secs only.
ReadSecond_NoBase ==
  /\ rd.pc \in {"base", "counter"}
  /\ got' = IF rd.pc = "base" THEN rd.val ELSE counter
  /\ rd' = [pc |-> "idle", val |-> 0, from |-> 0]
  /\ UNCHANGED <<active, counter, time_sec, cmd, dirty, since, ticks, dates>>

ReadSecond ==
  /\ rd.pc \in {"base", "counter"}
  /\ got' = rd.val + (IF rd.pc = "base" THEN time_sec ELSE counter)
  /\ rd' = [pc |-> "idle", val |-> 0, from |-> 0]
  /\ UNCHANGED <<active, counter, time_sec, cmd, dirty, since, ticks, dates>>

-----------------------------------------------------------------------------

Next ==
  \/ Tick
  \/ \E d \in 0..MaxDay, s \in 0..(Day - 1) : date(d, s)
  \/ OpenNow /\ UNCHANGED <<time_sec, rd, got, since, ticks, dates>>
  \/ GetNow \/ SetBase \/ ClearCounter
  \/ OpenRead /\ UNCHANGED <<time_sec, cmd, dirty, got, since, ticks, dates>>
  \/ ReadFirst \/ ReadSecond

-----------------------------------------------------------------------------
(* Properties.                                                             *)

\* A call of time that no mh_rtc_set_secs or mh_rtc_init of the other thread
\* overlaps returns a time between the one when it read the first half and the
\* one when it ends, whichever half it reads first.  (One that is overlapped may
\* be given the new base with the old counter, or the old base with none.)
ReadExact ==
  [][(rd.pc \in {"base", "counter"} /\ rd'.pc = "idle" /\ ~dirty) => got' \in rd.from..Clock]_vars

\* The command date sets date and time: when it ends, the clock shows the day
\* that was asked for, and the second that was asked for or a moment in the
\* seconds that have passed since, as long as these have not gone past midnight;
\* even if the other thread's late mh_rtc_init clears the counter in between.
\* (If they have, set_date puts the second after midnight into the day before.)
DateSets ==
  [][(cmd.pc = "date_clear" /\ cmd'.pc = "idle") =>
       LET today == Day * cmd.day
           now   == counter' + time_sec'
       IN  /\ now \in today..(today + Day - 1)
           /\ cmd.sec + since < Day => now \in (today + cmd.sec)..(today + cmd.sec + since)]_vars
=============================================================================
