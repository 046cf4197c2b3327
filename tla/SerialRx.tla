------------------------------ MODULE SerialRx ------------------------------
(* The receive side of the console UART, from the register of the           *)
(* peripheral to the thread that reads it: rt_hw_serial_isr and             *)
(* _serial_int_rx of serial.c share a ring buffer, the indicator of the     *)
(* device (finsh_rx_ind of the shell, or _rym_rx_ind while rym_recv_on_device *)
(* or rym_send_on_device has the device) releases a semaphore, and the      *)
(* thread reads first and waits for the semaphore after.                    *)
(*                                                                          *)
(* There is one core: the interrupt handler runs while the thread does not, *)
(* and a section with interrupts disabled is one step.  The line does not   *)
(* wait for anybody.                                                        *)
EXTENDS Naturals, Sequences, SequencesExt

CONSTANTS N,            \* config.bufsz
          SemMax,       \* RT_SEM_VALUE_MAX
          MaxBytes,     \* bound: bytes that the line carries
          MaxLen,       \* bound: bytes asked of _rym_read_data
          MaxSessions   \* bound: Ymodem sessions

ASSUME SizesAssumption ==
  /\ N \in Nat /\ N > 1
  /\ SemMax \in Nat /\ SemMax > 0
  /\ MaxBytes \in Nat /\ MaxLen \in Nat /\ MaxSessions \in Nat

\* The value of a semaphore that rt_sem_detach has taken away.
Dead == SemMax + 1

Sems == {"finsh", "rym"}

VARIABLES
  sent,       \* number of the last byte on the line
  hw,         \* the receive register of the UART: no byte, or one
  pend,       \* the interrupt is pending though the register may be empty
  buffer, put_index, get_index, is_full,     \* struct rt_serial_rx_fifo
  isr,        \* where rt_hw_serial_isr is
  ind,        \* rx_indicate: whose semaphore it releases
  sem,        \* values of shell->rx_sem and ctx->sem
  mode,       \* the shell, or how far a Ymodem session has got
  call, need, \* the read the thread is in, and the bytes it still wants
  phase,      \* where in this read the thread is
  last,       \* the newest byte the thread has read
  sessions    \* Ymodem sessions so far

fifo == <<buffer, put_index, get_index, is_full>>
line == <<sent, hw, pend>>
thread == <<mode, call, need, phase>>
vars == <<line, fifo, isr, ind, sem, thread, last, sessions>>

Init ==
  /\ sent = 0 /\ hw = <<>> /\ pend = FALSE
  /\ buffer = [i \in 0..(N - 1) |-> 0]
  /\ put_index = 0 /\ get_index = 0 /\ is_full = FALSE
  /\ isr = "idle" /\ ind = "finsh"
  /\ sem = [s \in Sems |-> IF s = "finsh" THEN 0 ELSE Dead]
  /\ mode = "shell" /\ call = "getchar" /\ need = 0 /\ phase = "idle"
  /\ last = 0 /\ sessions = 0

-----------------------------------------------------------------------------
(* The UART.                                                               *)

\* A byte arrives.  The receive FIFO of the UART is off, so that one that has
\* not been read yet is overwritten.
Arrive ==
  /\ sent < MaxBytes
  /\ sent' = sent + 1
  /\ hw' = <<sent + 1>>
  /\ pend' = TRUE
  /\ UNCHANGED <<fifo, isr, ind, sem, thread, last, sessions>>

-----------------------------------------------------------------------------
(* UARTx_IRQHandler: uart_isr calls rt_hw_serial_isr.                      *)

IsrEnter ==
  /\ isr = "idle" /\ (pend \/ hw # <<>>)
  /\ pend' = FALSE
  /\ isr' = "drain"
  /\ UNCHANGED <<sent, hw, fifo, ind, sem, thread, last, sessions>>

\* Mutant: the index is wrapped one place too late.
Wrap_Late(i) == IF i > N THEN 0 ELSE i

Wrap(i) == IF i >= N THEN 0 ELSE i

\* Mutant: the oldest byte is not pushed out.
IsrStore_KeepsGet ==
  /\ isr = "drain" /\ hw # <<>>
  /\ hw' = <<>>
  /\ buffer' = [buffer EXCEPT ![put_index] = Head(hw)]
  /\ put_index' = Wrap(put_index + 1)
  /\ is_full' = (is_full \/ put_index' = get_index)
  /\ UNCHANGED <<sent, pend, get_index, isr, ind, sem, thread, last, sessions>>

\* getc has a byte: it goes into the ring, and the oldest one out of a ring
\* that has become full.
IsrStore ==
  /\ isr = "drain" /\ hw # <<>>
  /\ hw' = <<>>
  /\ buffer' = [buffer EXCEPT ![put_index] = Head(hw)]
  /\ put_index' = Wrap(put_index + 1)
  /\ IF put_index' = get_index
     THEN get_index' = Wrap(get_index + 1) /\ is_full' = TRUE
     ELSE UNCHANGED <<get_index, is_full>>
  /\ UNCHANGED <<sent, pend, isr, ind, sem, thread, last, sessions>>

\* getc returns -1: the loop ends.
IsrDrained ==
  /\ isr = "drain" /\ hw = <<>>
  /\ isr' = "notify"
  /\ UNCHANGED <<line, fifo, ind, sem, thread, last, sessions>>

\* Mutant: the length of a ring that has wrapped is negative, hence not counted.
rx_length_Plain == IF put_index >= get_index THEN put_index - get_index ELSE 0

rx_length == IF put_index >= get_index THEN put_index - get_index
             ELSE N - (get_index - put_index)

\* The semaphore the thread waits for.
OwnSem == IF mode = "session" THEN "rym" ELSE "finsh"

\* rt_sem_release: a suspended thread is resumed; otherwise the value goes up,
\* and at RT_SEM_VALUE_MAX the call returns -RT_EFULL.
rt_sem_release(s) ==
  IF phase = "blocked" /\ OwnSem = s
  THEN phase' = "resumed" /\ sem' = sem
  ELSE /\ phase' = phase
       /\ sem' = [sem EXCEPT ![s] = IF sem[s] < SemMax THEN sem[s] + 1 ELSE sem[s]]

\* The indicator is called when there is something in the ring.
IsrNotify ==
  /\ isr = "notify"
  /\ isr' = "idle"
  /\ IF rx_length > 0 THEN rt_sem_release(ind) ELSE UNCHANGED <<phase, sem>>
  /\ UNCHANGED <<line, fifo, ind, mode, call, need, last, sessions>>

-----------------------------------------------------------------------------
(* The thread.  It runs when the handler does not.                         *)

Running == isr = "idle"

Start(c, n) ==
  /\ Running /\ phase = "idle"
  /\ call' = c /\ need' = n /\ phase' = "read"
  /\ UNCHANGED <<line, fifo, isr, ind, sem, mode, last, sessions>>

\* finsh_getchar
Getchar == mode = "shell" /\ Start("getchar", 1)

\* _rym_read_code, _rym_read_data and _rym_getchar, in the order the protocol
\* calls for.
SessionRead ==
  /\ mode = "session"
  /\ \/ Start("code", 1)
     \/ \E n \in 1..MaxLen : Start("data", n)
     \/ Start("getchar", 1)

FifoEmpty == get_index = put_index /\ ~is_full

\* One turn of the loop of _serial_int_rx that finds a byte; the read is over
\* when it was the last one wanted.
ReadByte ==
  /\ Running /\ phase = "read" /\ ~FifoEmpty
  /\ last' = buffer[get_index]
  /\ get_index' = Wrap(get_index + 1)
  /\ is_full' = FALSE
  /\ need' = need - 1
  /\ phase' = IF need = 1 THEN "idle" ELSE "read"
  /\ UNCHANGED <<line, buffer, put_index, isr, ind, sem, mode, call, sessions>>

\* The turn that finds none: the thread goes to wait.
ReadNone ==
  /\ Running /\ phase = "read" /\ FifoEmpty
  /\ phase' = "take"
  /\ UNCHANGED <<line, fifo, isr, ind, sem, mode, call, need, last, sessions>>

\* Mutant: the thread suspends itself without a look at the value.
rt_sem_take_Blocks ==
  /\ Running /\ phase = "take"
  /\ phase' = "blocked" /\ sem' = sem
  /\ UNCHANGED <<line, fifo, isr, ind, mode, call, need, last, sessions>>

\* rt_sem_take: one off the value, or into the list of suspended threads.
rt_sem_take ==
  /\ Running /\ phase = "take"
  /\ IF sem[OwnSem] > 0
     THEN sem' = [sem EXCEPT ![OwnSem] = @ - 1] /\ phase' = "read"
     ELSE phase' = "blocked" /\ sem' = sem
  /\ UNCHANGED <<line, fifo, isr, ind, mode, call, need, last, sessions>>

\* A thread that has been resumed returns RT_EOK from rt_sem_take and reads.
Resume ==
  /\ Running /\ phase = "resumed"
  /\ phase' = "read"
  /\ UNCHANGED <<line, fifo, isr, ind, sem, mode, call, need, last, sessions>>

\* rt_thread_timeout takes the thread out of the list.  finsh_getchar and
\* _rym_getchar wait forever.
Timeout ==
  /\ phase = "blocked" /\ call # "getchar"
  /\ phase' = "expired"
  /\ UNCHANGED <<line, fifo, isr, ind, sem, mode, call, need, last, sessions>>

\* rt_sem_take returns -RT_ETIMEOUT, and the read what it has: RYM_CODE_NONE
\* or less than was asked for.
Expire ==
  /\ Running /\ phase = "expired"
  /\ phase' = "idle"
  /\ UNCHANGED <<line, fifo, isr, ind, sem, mode, call, need, last, sessions>>

-----------------------------------------------------------------------------
(* rym_recv_on_device and rym_send_on_device borrow the device of the      *)
(* shell, in the thread of the shell.                                      *)

\* The command starts: rt_sem_init, with the indicator still the shell's.
RymBegin ==
  /\ Running /\ mode = "shell" /\ phase = "idle" /\ sessions < MaxSessions
  /\ sessions' = sessions + 1
  /\ sem' = [sem EXCEPT !["rym"] = 0]
  /\ mode' = "init"
  /\ UNCHANGED <<line, fifo, isr, ind, call, need, phase, last>>

\* With interrupts disabled, rx_indicate becomes _rym_rx_ind.  rt_device_open
\* finds the ring of the shell in serial_rx and keeps it.
RymAttach ==
  /\ Running /\ mode = "init"
  /\ ind' = "rym" /\ mode' = "session"
  /\ UNCHANGED <<line, fifo, isr, sem, call, need, phase, last, sessions>>

\* Mutant: the indicator of the shell is not put back.
RymDetach_KeepsInd ==
  /\ Running /\ mode = "session" /\ phase = "idle"
  /\ sem' = [sem EXCEPT !["rym"] = Dead]
  /\ ind' = ind /\ mode' = "shell"
  /\ UNCHANGED <<line, fifo, isr, call, need, phase, last, sessions>>

\* The session is over: rt_device_close only counts one user less, and with
\* interrupts disabled the semaphore goes and the indicator of the shell
\* comes back.
RymDetach ==
  /\ Running /\ mode = "session" /\ phase = "idle"
  /\ sem' = [sem EXCEPT !["rym"] = Dead]
  /\ ind' = "finsh" /\ mode' = "shell"
  /\ UNCHANGED <<line, fifo, isr, call, need, phase, last, sessions>>

-----------------------------------------------------------------------------

IsrStep == IsrEnter \/ IsrStore \/ IsrDrained \/ IsrNotify

ThreadStep ==
  \/ Getchar \/ SessionRead \/ ReadByte \/ ReadNone \/ rt_sem_take
  \/ Resume \/ Expire \/ RymBegin \/ RymAttach \/ RymDetach

Next == Arrive \/ IsrStep \/ ThreadStep \/ Timeout

Spec == Init /\ [][Next]_vars

\* A pending interrupt is taken, a handler and a ready thread run on, a timer
\* that is set goes off; the line owes nothing.
FairSpec ==
  Spec /\ WF_vars(IsrStep) /\ WF_vars(ThreadStep) /\ WF_vars(Timeout)

-----------------------------------------------------------------------------
(* Properties.                                                             *)

\* The indices stay in the ring, and the values of the semaphores in theirs.
TypeOK ==
  /\ sent \in 0..MaxBytes
  /\ hw = <<>> \/ hw = <<sent>>
  /\ pend \in BOOLEAN
  /\ buffer \in [0..(N - 1) -> 0..MaxBytes]
  /\ put_index \in 0..(N - 1) /\ get_index \in 0..(N - 1)
  /\ is_full \in BOOLEAN
  /\ isr \in {"idle", "drain", "notify"}
  /\ ind \in Sems
  /\ sem \in [Sems -> 0..Dead]
  /\ mode \in {"shell", "init", "session"}
  /\ call \in {"getchar", "code", "data"}
  /\ need \in Nat
  /\ phase \in {"idle", "read", "take", "blocked", "resumed", "expired"}
  /\ last \in 0..MaxBytes
  /\ sessions \in 0..MaxSessions

\* No wake-up is lost: a thread that is suspended in rt_sem_take while the
\* handler is at rest has nothing to read.  It is the order of read and wait
\* in finsh_getchar and _rym_read_code, and the loop of the handler that goes
\* on until the register is empty, that make it so; whichever indicator the
\* session has put in place.
NoLostWakeup ==
  (phase = "blocked" /\ isr = "idle" /\ ~pend) => FifoEmpty /\ hw = <<>>

\* The handler never releases a semaphore that has been detached, and it
\* releases the one the thread waits for.
IndicatorAlive ==
  /\ sem[ind] # Dead
  /\ phase \in {"take", "blocked"} => ind = OwnSem

\* The unread bytes, oldest first.
Unread == [i \in 1..((put_index + N - get_index) % N) |-> buffer[(get_index + i - 1) % N]]

Rx == INSTANCE RxQueue WITH Bytes <- 1..MaxBytes, Cap <- N - 1,
                            queue <- Unread, last <- last

\* The ring of N bytes is a queue of N - 1: it loses a byte only when that
\* many are unread, then the oldest one, and hands out the others once and in
\* order, whatever the handler does between two reads of the thread.
BoundedQueue == Rx!Spec

\* A byte that is in the register or in the ring does not stay there: it is
\* read or pushed out.  A wait without end is ended by every byte.
EveryByteServed ==
  \A b \in 1..MaxBytes :
    (b \in ToSet(Unread) \cup ToSet(hw)) ~> (b \notin ToSet(Unread) \cup ToSet(hw))
=============================================================================
