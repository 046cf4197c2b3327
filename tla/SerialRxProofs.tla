--------------------------- MODULE SerialRxProofs ---------------------------
(* For a ring and a semaphore of any size, and any number of bytes and      *)
(* sessions, no wake-up of the reader is lost, and the ring is the queue of *)
(* RxQueue.                                                                 *)
EXTENDS SerialRx, SequenceTheorems, TLAPS

\* The ring that overflows is not empty, so that is_full plays no part in
\* telling an empty ring.
RingInv == is_full => get_index # put_index

\* Outside the loop of the handler, a byte in the register keeps the
\* interrupt pending.
LineInv == (isr # "drain" /\ hw # <<>>) => pend

\* The indicator releases the semaphore that the thread waits for, and that
\* semaphore has not been detached.
SemInv ==
  /\ ind = OwnSem
  /\ sem["finsh"] <= SemMax
  /\ mode # "shell" => sem["rym"] <= SemMax
  /\ mode = "init" => phase = "idle"

\* When the handler is at rest, a thread that has found the ring empty and is
\* about to wait will not wait if there is a byte by now, and one that waits
\* has none.
WakeInv ==
  /\ (phase = "take" /\ isr = "idle" /\ ~FifoEmpty) => sem[ind] > 0
  /\ (phase = "blocked" /\ isr = "idle") => FifoEmpty

NeedInv == phase \in {"read", "take", "blocked", "resumed"} => need > 0

IInv == TypeOK /\ RingInv /\ LineInv /\ SemInv /\ WakeInv /\ NeedInv

-----------------------------------------------------------------------------

LEMMA WrapType == ASSUME NEW i \in 0..(N - 1) PROVE Wrap(i + 1) \in 0..(N - 1) /\ Wrap(i + 1) # i
  BY SizesAssumption DEF Wrap

\* The length that the handler computes is zero only for an empty ring.
LEMMA LengthOfRing ==
  ASSUME TypeOK, RingInv PROVE rx_length > 0 <=> ~FifoEmpty
  BY SizesAssumption DEF TypeOK, RingInv, rx_length, FifoEmpty

LEMMA InitIInv == Init => IInv
<1> SUFFICES ASSUME Init PROVE IInv
  OBVIOUS
<1>1. TypeOK
  <2>1. sent \in 0..MaxBytes /\ last \in 0..MaxBytes /\ sessions \in 0..MaxSessions /\ need \in Nat
    BY SizesAssumption DEF Init
  <2>2. buffer \in [0..(N - 1) -> 0..MaxBytes]
    BY SizesAssumption DEF Init
  <2>3. put_index \in 0..(N - 1) /\ get_index \in 0..(N - 1)
    BY SizesAssumption DEF Init
  <2>4. sem \in [Sems -> 0..Dead]
    BY SizesAssumption DEF Init, Dead
  <2>5. pend \in BOOLEAN /\ is_full \in BOOLEAN /\ ind \in Sems
    BY DEF Init, Sems
  <2>6. /\ hw = <<>> /\ isr = "idle" /\ mode = "shell"
        /\ call = "getchar" /\ phase = "idle"
    BY DEF Init
  <2> QED BY <2>1, <2>2, <2>3, <2>4, <2>5, <2>6 DEF TypeOK
<1>2. RingInv /\ LineInv /\ WakeInv /\ NeedInv
  BY DEF Init, RingInv, LineInv, WakeInv, NeedInv
<1>3. SemInv
  BY SizesAssumption DEF Init, SemInv, OwnSem, Sems
<1> QED BY <1>1, <1>2, <1>3 DEF IInv

LEMMA ArriveIInv == ASSUME IInv, Arrive PROVE IInv'
  BY SizesAssumption
  DEF Arrive, fifo, thread, IInv, TypeOK, RingInv, LineInv, SemInv, WakeInv, NeedInv,
      FifoEmpty, OwnSem

LEMMA IsrEnterIInv == ASSUME IInv, IsrEnter PROVE IInv'
  BY DEF IsrEnter, fifo, thread, IInv, TypeOK, RingInv, LineInv, SemInv, WakeInv, NeedInv,
         FifoEmpty, OwnSem

LEMMA IsrStoreIInv == ASSUME IInv, IsrStore PROVE IInv'
<1> USE DEF IInv, IsrStore, thread
<1>1. Head(hw) \in 0..MaxBytes /\ hw' = <<>>
  BY SizesAssumption DEF TypeOK
<1>2. put_index' \in 0..(N - 1) /\ get_index' \in 0..(N - 1) /\ is_full' \in BOOLEAN
  BY WrapType DEF TypeOK
<1>3. buffer' \in [0..(N - 1) -> 0..MaxBytes]
  BY <1>1 DEF TypeOK
<1>4. TypeOK'
  BY <1>1, <1>2, <1>3 DEF TypeOK
<1>5. RingInv'
  <2>1. CASE put_index' = get_index
    BY <2>1, WrapType DEF TypeOK, RingInv
  <2>2. CASE put_index' # get_index
    BY <2>2 DEF RingInv
  <2> QED BY <2>1, <2>2
<1>6. LineInv' /\ SemInv' /\ WakeInv' /\ NeedInv'
  BY <1>1 DEF LineInv, SemInv, WakeInv, NeedInv, OwnSem
<1> QED BY <1>4, <1>5, <1>6

LEMMA IsrDrainedIInv == ASSUME IInv, IsrDrained PROVE IInv'
  BY DEF IsrDrained, line, fifo, thread, IInv, TypeOK, RingInv, LineInv, SemInv, WakeInv,
         NeedInv, FifoEmpty, OwnSem

\* The step that matters: whoever is about to wait finds the value raised, and
\* whoever waits is resumed.
LEMMA IsrNotifyIInv == ASSUME IInv, IsrNotify PROVE IInv'
<1> USE DEF IInv, IsrNotify, line, fifo
<1>1. rx_length > 0 <=> ~FifoEmpty
  BY LengthOfRing
<1>2. FifoEmpty' <=> FifoEmpty
  BY DEF FifoEmpty
<1>3. ind \in Sems /\ sem[ind] \in 0..SemMax
  BY SizesAssumption DEF TypeOK, SemInv, OwnSem, Sems, Dead
<1>4. CASE FifoEmpty
  BY <1>1, <1>2, <1>4 DEF TypeOK, RingInv, LineInv, SemInv, WakeInv, NeedInv, OwnSem
<1>5. CASE ~FifoEmpty /\ phase = "blocked"
  <2>1. phase' = "resumed" /\ sem' = sem
    BY <1>1, <1>5 DEF rt_sem_release, SemInv
  <2> QED BY <2>1, <1>5 DEF TypeOK, RingInv, LineInv, SemInv, WakeInv, NeedInv, OwnSem
<1>6. CASE ~FifoEmpty /\ phase # "blocked"
  <2>1. phase' = phase /\ sem' = [sem EXCEPT ![ind] = IF sem[ind] < SemMax THEN sem[ind] + 1 ELSE sem[ind]]
    BY <1>1, <1>6 DEF rt_sem_release
  <2>2. sem' \in [Sems -> 0..Dead] /\ sem'[ind] \in 1..SemMax
    BY <2>1, <1>3, SizesAssumption DEF TypeOK, Dead
  <2>3. \A s \in Sems : sem[s] <= SemMax => sem'[s] <= SemMax
    BY <2>1, <1>3, SizesAssumption DEF TypeOK, Dead
  <2>4. TypeOK'
    BY <2>1, <2>2 DEF TypeOK
  <2>5. SemInv'
    BY <2>1, <2>3 DEF SemInv, OwnSem, Sems
  <2> QED BY <2>1, <2>2, <2>4, <2>5, <1>6, SizesAssumption DEF RingInv, LineInv, WakeInv, NeedInv, TypeOK
<1> QED BY <1>4, <1>5, <1>6

LEMMA StartIInv ==
  ASSUME IInv, NEW c \in {"getchar", "code", "data"}, NEW n \in Nat, n > 0, Start(c, n),
         mode # "init"
  PROVE  IInv'
  BY DEF Start, line, fifo, IInv, TypeOK, RingInv, LineInv, SemInv, WakeInv, NeedInv,
         FifoEmpty, OwnSem

LEMMA ReadByteIInv == ASSUME IInv, ReadByte PROVE IInv'
<1> USE DEF IInv, ReadByte, line
<1>1. need - 1 \in Nat /\ (need # 1 => need - 1 > 0)
  BY DEF TypeOK, NeedInv
<1>2. TypeOK'
  BY <1>1, WrapType DEF TypeOK
<1> QED BY <1>1, <1>2 DEF RingInv, LineInv, SemInv, WakeInv, NeedInv, OwnSem

LEMMA ReadNoneIInv == ASSUME IInv, ReadNone PROVE IInv'
  BY DEF ReadNone, Running, line, fifo, IInv, TypeOK, RingInv, LineInv, SemInv, WakeInv, NeedInv,
         FifoEmpty, OwnSem

LEMMA TakeIInv == ASSUME IInv, rt_sem_take PROVE IInv'
<1> USE DEF IInv, rt_sem_take, line, fifo
<1>1. OwnSem = ind /\ ind \in Sems
  BY DEF SemInv, TypeOK
<1>2. CASE sem[OwnSem] > 0
  <2>1. sem' \in [Sems -> 0..Dead] /\ \A s \in Sems : sem[s] <= SemMax => sem'[s] <= SemMax
    BY <1>1, <1>2, SizesAssumption, SMTT(20) DEF TypeOK, Dead
  <2>2. TypeOK'
    BY <1>2, <2>1 DEF TypeOK
  <2>3. SemInv'
    BY <1>2, <2>1 DEF SemInv, OwnSem, Sems
  <2> QED BY <1>2, <2>2, <2>3 DEF RingInv, LineInv, WakeInv, NeedInv
<1>3. CASE ~(sem[OwnSem] > 0)
  BY <1>1, <1>3 DEF Running, TypeOK, RingInv, LineInv, SemInv, WakeInv, NeedInv, FifoEmpty, OwnSem
<1> QED BY <1>2, <1>3

LEMMA WaitEndsIInv == ASSUME IInv, Resume \/ Timeout \/ Expire PROVE IInv'
  BY SMTT(20) DEF Resume, Timeout, Expire, line, fifo, IInv, TypeOK, RingInv, LineInv, SemInv,
         WakeInv, NeedInv, FifoEmpty, OwnSem

LEMMA SessionIInv == ASSUME IInv, RymBegin \/ RymAttach \/ RymDetach PROVE IInv'
<1> USE DEF IInv, line, fifo
<1>1. CASE RymBegin
  <2>1. sem' \in [Sems -> 0..Dead] /\ sem'["rym"] = 0 /\ sem'["finsh"] = sem["finsh"]
    BY <1>1, SizesAssumption DEF RymBegin, TypeOK, Sems, Dead
  <2>2. sessions' \in 0..MaxSessions
    BY <1>1, SizesAssumption DEF RymBegin, TypeOK
  <2>3. TypeOK'
    BY <1>1, <2>1, <2>2 DEF RymBegin, TypeOK
  <2> QED BY <1>1, <2>1, <2>3, SizesAssumption
          DEF RymBegin, RingInv, LineInv, SemInv, WakeInv, NeedInv, OwnSem
<1>2. CASE RymAttach
  BY <1>2 DEF RymAttach, TypeOK, Sems, RingInv, LineInv, SemInv, WakeInv, NeedInv, OwnSem
<1>3. CASE RymDetach
  <2>1. sem' \in [Sems -> 0..Dead] /\ sem'["finsh"] = sem["finsh"]
    BY <1>3, SizesAssumption DEF RymDetach, TypeOK, Sems, Dead
  <2>2. TypeOK'
    BY <1>3, <2>1 DEF RymDetach, TypeOK, Sems
  <2> QED BY <1>3, <2>1, <2>2 DEF RymDetach, RingInv, LineInv, SemInv, WakeInv, NeedInv, OwnSem
<1> QED BY <1>1, <1>2, <1>3

LEMMA NextIInv == IInv /\ [Next]_vars => IInv'
<1> SUFFICES ASSUME IInv, [Next]_vars PROVE IInv'
  OBVIOUS
<1>1. CASE IsrStep
  BY <1>1, IsrEnterIInv, IsrStoreIInv, IsrDrainedIInv, IsrNotifyIInv DEF IsrStep
<1>2. CASE Getchar
  BY <1>2, StartIInv DEF Getchar
<1>3. CASE SessionRead
  BY <1>3, StartIInv, SizesAssumption DEF SessionRead
<1>4. CASE ReadByte \/ ReadNone \/ rt_sem_take
  BY <1>4, ReadByteIInv, ReadNoneIInv, TakeIInv
<1>5. CASE Resume \/ Timeout \/ Expire
  BY <1>5, WaitEndsIInv
<1>6. CASE RymBegin \/ RymAttach \/ RymDetach
  BY <1>6, SessionIInv
<1>7. CASE UNCHANGED vars
  BY <1>7 DEF vars, line, fifo, thread, IInv, TypeOK, RingInv, LineInv, SemInv, WakeInv,
              NeedInv, FifoEmpty, OwnSem
<1> QED
  BY <1>1, <1>2, <1>3, <1>4, <1>5, <1>6, <1>7, ArriveIInv DEF Next, ThreadStep

\* The indices of the ring and the values of the semaphores stay in range.
THEOREM RxTypeCorrect == Spec => []TypeOK
<1>1. IInv => TypeOK
  BY DEF IInv
<1> QED BY <1>1, InitIInv, NextIInv, PTL DEF Spec

\* A thread suspended in rt_sem_take by finsh_getchar, _rym_read_code,
\* _rym_read_data or _rym_getchar has nothing to read once rt_hw_serial_isr is
\* through.
THEOREM RxNoLostWakeup == Spec => []NoLostWakeup
<1>1. IInv => NoLostWakeup
  BY DEF IInv, WakeInv, LineInv, NoLostWakeup
<1> QED BY <1>1, InitIInv, NextIInv, PTL DEF Spec

\* rt_hw_serial_isr releases the semaphore the thread waits for, and never one
\* that rym_recv_on_device has detached.
THEOREM RxIndicatorAlive == Spec => []IndicatorAlive
<1>1. IInv => IndicatorAlive
  BY SizesAssumption DEF IInv, SemInv, TypeOK, IndicatorAlive, OwnSem, Dead, Sems
<1> QED BY <1>1, InitIInv, NextIInv, PTL DEF Spec

-----------------------------------------------------------------------------
(* The ring is a bounded queue.                                            *)

\* What is in the ring and what the thread has read is on the line already, and
\* older than the byte in the register.
FreshInv ==
  /\ \A j \in 0..(N - 1) : buffer[j] <= sent /\ (hw # <<>> => buffer[j] < sent)
  /\ last <= sent /\ (hw # <<>> => last < sent)

QInv == IInv /\ FreshInv

LEMMA InitFresh == Init => FreshInv
  BY SizesAssumption DEF Init, FreshInv

LEMMA NextFresh == IInv /\ FreshInv /\ [Next]_vars => FreshInv'
<1> SUFFICES ASSUME IInv, FreshInv, [Next]_vars PROVE FreshInv'
  OBVIOUS
<1>1. /\ sent \in Nat /\ last \in Nat /\ hw \in {<<>>, <<sent>>}
      /\ buffer \in [0..(N - 1) -> Nat]
      /\ put_index \in 0..(N - 1) /\ get_index \in 0..(N - 1)
  BY SizesAssumption DEF IInv, TypeOK
<1>2. CASE Arrive
  <2>1. sent' = sent + 1 /\ buffer' = buffer /\ last' = last
    BY <1>2 DEF Arrive, fifo
  <2> QED
    BY <1>1, <2>1 DEF FreshInv
<1>3. CASE IsrStore
  <2>1. /\ sent' = sent /\ hw' = <<>> /\ last' = last
        /\ buffer' = [buffer EXCEPT ![put_index] = Head(hw)]
    BY <1>3 DEF IsrStore
  <2>2. Head(hw) = sent
    BY <1>1, <1>3 DEF IsrStore
  <2>3. \A j \in 0..(N - 1) : buffer'[j] <= sent
    BY <1>1, <2>1, <2>2 DEF FreshInv
  <2> QED
    BY <2>1, <2>3 DEF FreshInv
<1>4. CASE ReadByte
  <2>1. sent' = sent /\ hw' = hw /\ buffer' = buffer /\ last' = buffer[get_index]
    BY <1>4 DEF ReadByte, line
  <2> QED
    BY <1>1, <2>1 DEF FreshInv
<1>5. CASE UNCHANGED <<sent, hw, buffer, last>>
  BY <1>5 DEF FreshInv
<1> QED
  BY <1>2, <1>3, <1>4, <1>5
  DEF Next, IsrStep, ThreadStep, IsrEnter, IsrDrained, IsrNotify, Getchar, SessionRead, Start,
      ReadNone, rt_sem_take, Resume, Timeout, Expire, RymBegin, RymAttach, RymDetach,
      vars, line, fifo

\* The number of unread bytes, and the place of each, without remainders.
LEMMA RingLength ==
  ASSUME NEW p \in 0..(N - 1), NEW g \in 0..(N - 1)
  PROVE  (p + N - g) % N = IF p >= g THEN p - g ELSE p + N - g
<1>1. CASE p >= g
  <2>1. PICK r \in 0..(N - 1) : r = p - g
    BY <1>1, SizesAssumption
  <2>2. p + N - g = N * 1 + r
    BY <2>1, SizesAssumption
  <2>3. (N * 1 + r) % N = r
    BY SizesAssumption
  <2> QED
    BY <1>1, <2>1, <2>2, <2>3
<1>2. CASE p < g
  <2>1. PICK r \in 0..(N - 1) : r = p + N - g
    BY <1>2, SizesAssumption
  <2>2. r % N = r
    BY SizesAssumption
  <2> QED
    BY <1>2, <2>1, <2>2
<1> QED
  BY <1>1, <1>2, SizesAssumption

LEMMA RingPlace ==
  ASSUME NEW g \in 0..(N - 1), NEW i \in 1..N
  PROVE  (g + i - 1) % N = IF g + i - 1 < N THEN g + i - 1 ELSE g + i - 1 - N
<1>1. CASE g + i - 1 < N
  <2>1. PICK r \in 0..(N - 1) : r = g + i - 1
    BY <1>1, SizesAssumption
  <2>2. r % N = r
    BY SizesAssumption
  <2> QED
    BY <1>1, <2>1, <2>2
<1>2. CASE ~(g + i - 1 < N)
  <2>1. PICK r \in 0..(N - 1) : r = g + i - 1 - N
    BY <1>2, SizesAssumption
  <2>2. g + i - 1 = N * 1 + r
    BY <2>1, SizesAssumption
  <2>3. (N * 1 + r) % N = r
    BY SizesAssumption
  <2> QED
    BY <1>2, <2>1, <2>2, <2>3
<1> QED
  BY <1>1, <1>2

Length(p, g) == IF p >= g THEN p - g ELSE p + N - g
Place(g, i) == IF g + i - 1 < N THEN g + i - 1 ELSE g + i - 1 - N

\* The unread bytes as a sequence.
LEMMA UnreadIs ==
  TypeOK => /\ Unread \in Seq(Nat) /\ Len(Unread) = Length(put_index, get_index)
            /\ \A i \in 1..Len(Unread) : Unread[i] = buffer[Place(get_index, i)]
<1> SUFFICES ASSUME TypeOK
             PROVE  /\ Unread \in Seq(Nat) /\ Len(Unread) = Length(put_index, get_index)
                    /\ \A i \in 1..Len(Unread) : Unread[i] = buffer[Place(get_index, i)]
  OBVIOUS
<1>1. /\ put_index \in 0..(N - 1) /\ get_index \in 0..(N - 1)
      /\ buffer \in [0..(N - 1) -> Nat]
  BY SizesAssumption DEF TypeOK
<1>2. PICK L \in 0..(N - 1) : L = Length(put_index, get_index)
  <2>1. Length(put_index, get_index) \in 0..(N - 1)
    BY <1>1, SizesAssumption DEF Length
  <2> QED
    BY <2>1
<1>3. (put_index + N - get_index) % N = L
  BY <1>1, <1>2, RingLength DEF Length
<1>4. ASSUME NEW i \in 1..L
      PROVE  /\ (get_index + i - 1) % N = Place(get_index, i)
             /\ Place(get_index, i) \in 0..(N - 1)
  <2>1. i \in 1..N
    BY SizesAssumption
  <2> QED
    BY <1>1, <2>1, RingPlace, SizesAssumption DEF Place
<1>5. Unread = [i \in 1..L |-> buffer[Place(get_index, i)]]
  BY <1>3, <1>4 DEF Unread
<1>6. \A i \in 1..L : buffer[Place(get_index, i)] \in Nat
  BY <1>1, <1>4
<1>7. L \in Nat
  BY SizesAssumption
<1> QED
  BY <1>2, <1>5, <1>6, <1>7

LEMMA UnreadIsNext ==
  (TypeOK => /\ Unread \in Seq(Nat) /\ Len(Unread) = Length(put_index, get_index)
             /\ \A i \in 1..Len(Unread) : Unread[i] = buffer[Place(get_index, i)])'
  BY UnreadIs, PTL

\* A sequence without its first element, and with another one at its end.
LEMMA Shifted ==
  ASSUME NEW s \in Seq(Nat), NEW n \in Nat \ {0}, Len(s) = n, NEW b \in Nat,
         NEW u \in Seq(Nat), Len(u) = n,
         \A i \in 1..(n - 1) : u[i] = s[i + 1], u[n] = b
  PROVE  u = Append(Tail(s), b)
<1>1. s # <<>>
  BY EmptySeq
<1>2. /\ Tail(s) \in Seq(Nat) /\ Len(Tail(s)) = n - 1
      /\ \A i \in 1..(n - 1) : Tail(s)[i] = s[i + 1]
  BY <1>1, HeadTailProperties
<1> DEFINE t == Tail(s)
<1> HIDE DEF t
<1>3. t \in Seq(Nat) /\ Len(t) = n - 1 /\ \A i \in 1..(n - 1) : t[i] = s[i + 1]
  BY <1>2 DEF t
<1>4. /\ Append(t, b) \in Seq(Nat) /\ Len(Append(t, b)) = n
      /\ \A i \in 1..(n - 1) : Append(t, b)[i] = t[i]
      /\ Append(t, b)[n] = b
  BY <1>3, AppendProperties
<1>5. \A i \in 1..n : u[i] = Append(t, b)[i]
  <2> TAKE i \in 1..n
  <2>1. CASE i = n
    BY <1>4, <2>1
  <2>2. CASE i \in 1..(n - 1)
    BY <1>3, <1>4, <2>2
  <2>3. i = n \/ i \in 1..(n - 1)
    OBVIOUS
  <2> QED
    BY <2>1, <2>2, <2>3
<1>6. u = Append(t, b)
  BY <1>4, <1>5, SeqEqual
<1> QED
  BY <1>6 DEF t

LEMMA Extended ==
  ASSUME NEW s \in Seq(Nat), NEW n \in Nat, Len(s) = n, NEW b \in Nat,
         NEW u \in Seq(Nat), Len(u) = n + 1,
         \A i \in 1..n : u[i] = s[i], u[n + 1] = b
  PROVE  u = Append(s, b)
<1>1. /\ Append(s, b) \in Seq(Nat) /\ Len(Append(s, b)) = n + 1
      /\ \A i \in 1..n : Append(s, b)[i] = s[i]
      /\ Append(s, b)[n + 1] = b
  BY AppendProperties
<1>2. \A i \in 1..(n + 1) : u[i] = Append(s, b)[i]
  <2> TAKE i \in 1..(n + 1)
  <2>1. CASE i = n + 1
    BY <1>1, <2>1
  <2>2. CASE i \in 1..n
    BY <1>1, <2>2
  <2> QED
    BY <2>1, <2>2
<1> QED
  BY <1>1, <1>2, SeqEqual

LEMMA Dropped ==
  ASSUME NEW s \in Seq(Nat), NEW n \in Nat, Len(s) = n + 1,
         NEW u \in Seq(Nat), Len(u) = n,
         \A i \in 1..n : u[i] = s[i + 1]
  PROVE  s # <<>> /\ u = Tail(s)
<1>1. s # <<>>
  BY EmptySeq
<1>2. /\ Tail(s) \in Seq(Nat) /\ Len(Tail(s)) = n
      /\ \A i \in 1..n : Tail(s)[i] = s[i + 1]
  BY <1>1, HeadTailProperties
<1> QED
  BY <1>1, <1>2, SeqEqual

LEMMA RingTypes ==
  ASSUME TypeOK
  PROVE  /\ put_index \in 0..(N - 1) /\ get_index \in 0..(N - 1) /\ N \in Nat /\ N > 1
         /\ buffer \in [0..(N - 1) -> Nat] /\ last \in Nat /\ sent \in Nat
  BY SizesAssumption DEF TypeOK

\* rt_hw_serial_isr stores a byte: it is put into the queue.
LEMMA StoreMapped == ASSUME QInv, IsrStore, TypeOK' PROVE Rx!Put
<1> DEFINE p == put_index
           g == get_index
           U == Unread
           V == Unread'
           L == Length(put_index, get_index)
<1>1. /\ p \in 0..(N - 1) /\ g \in 0..(N - 1) /\ N \in Nat /\ N > 1
      /\ buffer \in [0..(N - 1) -> Nat] /\ last \in Nat /\ sent \in Nat
  BY RingTypes DEF QInv, IInv
<1>2. Head(hw) = sent /\ sent \in 1..MaxBytes /\ last < sent
      /\ \A j \in 0..(N - 1) : buffer[j] < sent
  <2>1. hw = <<sent>> /\ hw # <<>>
    BY DEF QInv, IInv, TypeOK, IsrStore
  <2>2. last < sent /\ \A j \in 0..(N - 1) : buffer[j] < sent
    BY <2>1 DEF QInv, FreshInv
  <2>3. sent \in 0..MaxBytes
    BY DEF QInv, IInv, TypeOK
  <2> QED
    BY <1>1, <2>1, <2>2, <2>3, SizesAssumption
<1>3. /\ buffer' = [buffer EXCEPT ![p] = sent]
      /\ put_index' = IF p + 1 >= N THEN 0 ELSE p + 1
      /\ last' = last
  BY <1>2 DEF IsrStore, Wrap
<1>4. /\ U \in Seq(Nat) /\ Len(U) = L
      /\ \A i \in 1..L : U[i] = buffer[Place(g, i)]
  BY UnreadIs DEF QInv, IInv
<1>5. /\ V \in Seq(Nat) /\ Len(V) = Length(put_index', get_index')
      /\ \A i \in 1..Length(put_index', get_index') : V[i] = buffer'[Place(get_index', i)]
  BY UnreadIsNext
<1> HIDE DEF p, g, U, V, L
<1>6. L \in 0..(N - 1)
  BY <1>1 DEF Length, L, p, g
<1>7. \A i \in 1..L : Place(g, i) \in 0..(N - 1) /\ U[i] < sent
  <2> TAKE i \in 1..L
  <2>1. Place(g, i) \in 0..(N - 1)
    BY <1>1, <1>6 DEF Place
  <2> QED
    BY <1>2, <1>4, <2>1
<1>8. V = Append(IF Len(U) = N - 1 THEN Tail(U) ELSE U, sent)
  <2>1. CASE put_index' = g
    <3>1. get_index' = IF g + 1 >= N THEN 0 ELSE g + 1
      BY <2>1 DEF IsrStore, Wrap, g
    <3>2. L = N - 1 /\ Length(put_index', get_index') = N - 1
      BY <1>1, <1>3, <2>1, <3>1 DEF Length, L, p, g
    <3>3. ASSUME NEW i \in 1..(N - 2)
          PROVE  V[i] = U[i + 1]
      <4>1. Place(get_index', i) = Place(g, i + 1) /\ Place(g, i + 1) # p
            /\ Place(g, i + 1) \in 0..(N - 1)
        BY <1>1, <1>3, <2>1, <3>1 DEF Place
      <4>2. i \in 1..(N - 1) /\ i + 1 \in 1..(N - 1)
        BY <1>1
      <4>3. V[i] = buffer'[Place(get_index', i)] /\ U[i + 1] = buffer[Place(g, i + 1)]
        BY <1>4, <1>5, <3>2, <4>2
      <4> QED
        BY <1>1, <1>3, <4>1, <4>3
    <3>4. V[N - 1] = sent
      <4>1. Place(get_index', N - 1) = p
        BY <1>1, <1>3, <2>1, <3>1 DEF Place
      <4>2. N - 1 \in 1..(N - 1)
        BY <1>1
      <4> QED
        BY <1>1, <1>3, <1>5, <3>2, <4>1, <4>2
    <3>5. PICK n \in Nat \ {0} : n = N - 1
      BY <1>1
    <3>6. \A i \in 1..(n - 1) : V[i] = U[i + 1]
      <4>1. n - 1 = N - 2
        BY <1>1, <3>5
      <4> QED
        BY <3>3, <4>1
    <3>7. Len(U) = n /\ Len(V) = n /\ V[n] = sent /\ U \in Seq(Nat) /\ V \in Seq(Nat)
      BY <1>4, <1>5, <3>2, <3>4, <3>5
    <3>8. V = Append(Tail(U), sent)
      BY <1>1, <3>6, <3>7, Shifted
    <3> QED
      BY <1>4, <3>2, <3>8
  <2>2. CASE put_index' # g
    <3>1. get_index' = g
      BY <2>2 DEF IsrStore, g
    <3>2. L < N - 1 /\ Length(put_index', get_index') = L + 1
      BY <1>1, <1>3, <2>2, <3>1 DEF Length, L, p, g
    <3>3. ASSUME NEW i \in 1..L PROVE V[i] = U[i]
      <4>1. Place(g, i) # p /\ Place(g, i) \in 0..(N - 1)
        BY <1>1, <1>6 DEF Place, Length, L, p, g
      <4>2. i \in 1..(L + 1)
        BY <1>6
      <4>3. V[i] = buffer'[Place(g, i)] /\ U[i] = buffer[Place(g, i)]
        BY <1>4, <1>5, <3>1, <3>2, <4>2
      <4> QED
        BY <1>1, <1>3, <4>1, <4>3
    <3>4. V[L + 1] = sent
      <4>1. Place(g, L + 1) = p
        BY <1>1 DEF Place, Length, L, p, g
      <4>2. L + 1 \in 1..(L + 1)
        BY <1>6
      <4>3. V[L + 1] = buffer'[p]
        BY <1>5, <3>1, <3>2, <4>1, <4>2
      <4> QED
        BY <1>1, <1>3, <4>3
    <3>5. L \in Nat
      BY <1>1, <1>6
    <3>6. V = Append(U, sent)
      BY <1>1, <1>4, <1>5, <3>2, <3>3, <3>4, <3>5, Extended
    <3>7. Len(U) # N - 1
      BY <1>1, <1>4, <1>6, <3>2
    <3> QED
      BY <3>6, <3>7
  <2> QED
    BY <2>1, <2>2
<1>9. \A i \in 1..Len(U) : sent > U[i]
  <2> TAKE i \in 1..Len(U)
  <2>1. i \in 1..L
    BY <1>4
  <2> QED
    BY <1>7, <2>1
<1>10. sent > last
  BY <1>1, <1>2
<1> QED
  BY <1>2, <1>3, <1>8, <1>9, <1>10 DEF Rx!Put, U, V

\* The thread reads a byte: it is the oldest of the queue.
LEMMA ReadMapped == ASSUME QInv, ReadByte, TypeOK' PROVE Rx!Get
<1> DEFINE p == put_index
           g == get_index
           U == Unread
           V == Unread'
           L == Length(put_index, get_index)
<1>1. /\ p \in 0..(N - 1) /\ g \in 0..(N - 1) /\ N \in Nat /\ N > 1
      /\ buffer \in [0..(N - 1) -> Nat]
  BY RingTypes DEF QInv, IInv
<1>2. /\ buffer' = buffer /\ put_index' = p
      /\ get_index' = IF g + 1 >= N THEN 0 ELSE g + 1
      /\ last' = buffer[g]
  BY DEF ReadByte, Wrap
<1>3. p # g
  BY DEF QInv, IInv, RingInv, ReadByte, FifoEmpty
<1>4. /\ U \in Seq(Nat) /\ Len(U) = L
      /\ \A i \in 1..L : U[i] = buffer[Place(g, i)]
  BY UnreadIs DEF QInv, IInv
<1>5. /\ V \in Seq(Nat) /\ Len(V) = Length(put_index', get_index')
      /\ \A i \in 1..Length(put_index', get_index') : V[i] = buffer'[Place(get_index', i)]
  BY UnreadIsNext
<1> HIDE DEF p, g, U, V, L
<1>6. PICK n \in Nat : n + 1 = L /\ n < N - 1
  <2>1. L \in 1..(N - 1)
    BY <1>1, <1>3 DEF Length, L, p, g
  <2>2. L - 1 \in Nat /\ (L - 1) + 1 = L /\ L - 1 < N - 1
    BY <1>1, <2>1
  <2> QED
    BY <2>2
<1>7. Length(put_index', get_index') = n
  BY <1>1, <1>2, <1>3, <1>6 DEF Length, L, p, g
<1>8. ASSUME NEW i \in 1..n PROVE V[i] = U[i + 1]
  <2>1. Place(get_index', i) = Place(g, i + 1)
    BY <1>1, <1>2, <1>6 DEF Place
  <2>2. i + 1 \in 1..L
    BY <1>6
  <2> QED
    BY <1>2, <1>4, <1>5, <1>7, <2>1, <2>2
<1>9. U # <<>> /\ V = Tail(U)
  BY <1>4, <1>5, <1>6, <1>7, <1>8, Dropped
<1>10. Head(U) = buffer[g]
  <2>1. Place(g, 1) = g /\ 1 \in 1..L
    BY <1>1, <1>6 DEF Place
  <2>2. U[1] = buffer[g]
    BY <1>4, <2>1
  <2> QED
    BY <1>4, <1>9, <2>2
<1> QED
  BY <1>2, <1>9, <1>10 DEF Rx!Get, U, V

LEMMA NextMapped == ASSUME QInv, [Next]_vars, TypeOK' PROVE [Rx!Next]_(Rx!vars)
<1>1. CASE IsrStore
  BY <1>1, StoreMapped DEF Rx!Next
<1>2. CASE ReadByte
  BY <1>2, ReadMapped DEF Rx!Next
<1>3. CASE UNCHANGED <<fifo, last>>
  <2>1. Unread' = Unread
    BY <1>3 DEF fifo, Unread
  <2> QED
    BY <1>3, <2>1 DEF Rx!vars
<1> QED
  BY <1>1, <1>2, <1>3
  DEF Next, IsrStep, ThreadStep, Arrive, IsrEnter, IsrDrained, IsrNotify, Getchar, SessionRead,
      Start, ReadNone, rt_sem_take, Resume, Timeout, Expire, RymBegin, RymAttach, RymDetach,
      vars

\* The ring of struct rt_serial_rx_fifo, which rt_hw_serial_isr fills and
\* _serial_int_rx empties, is for every size a queue of one byte less that loses
\* only its oldest byte, and only when it is full.
THEOREM RxBoundedQueue == Spec => BoundedQueue
<1>1. Init => QInv
  BY InitIInv, InitFresh DEF QInv
<1>2. QInv /\ [Next]_vars => QInv'
  BY NextIInv, NextFresh DEF QInv
<1>3. QInv => TypeOK
  BY DEF QInv, IInv
<1>4. Init => Rx!Init
  <2> SUFFICES ASSUME Init PROVE Unread = <<>> /\ last = 0
    BY DEF Rx!Init
  <2>1. TypeOK /\ put_index = 0 /\ get_index = 0 /\ last = 0
    BY InitIInv DEF IInv, Init
  <2>2. Unread \in Seq(Nat) /\ Len(Unread) = 0
    BY <2>1, UnreadIs DEF Length
  <2> QED
    BY <2>1, <2>2, EmptySeq
<1>5. QInv /\ QInv' /\ [Next]_vars => [Rx!Next]_(Rx!vars)
  BY NextMapped DEF QInv, IInv
<1> QED
  BY <1>1, <1>2, <1>4, <1>5, PTL DEF Spec, BoundedQueue, Rx!Spec
=============================================================================
