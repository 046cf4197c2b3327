------------------------------ MODULE RxQueue ------------------------------
(* What the interrupt-driven receive side of a serial device promises its   *)
(* reader: a queue of at most Cap bytes.  A byte that arrives at a full     *)
(* queue pushes the oldest one out; nothing else is lost, reordered or read *)
(* twice.  Bytes are numbered in the order in which the line carries them.  *)
EXTENDS Naturals, Sequences

CONSTANTS Bytes, Cap

VARIABLES queue,   \* bytes that wait for the reader
          last     \* the newest byte handed out, 0 when there is none

vars == <<queue, last>>

Init == queue = <<>> /\ last = 0

\* A byte that is younger than all before it.
Put ==
  \E b \in Bytes :
    /\ b > last
    /\ \A i \in 1..Len(queue) : b > queue[i]
    /\ queue' = Append(IF Len(queue) = Cap THEN Tail(queue) ELSE queue, b)
    /\ last' = last

Get ==
  /\ queue # <<>>
  /\ last' = Head(queue)
  /\ queue' = Tail(queue)

Next == Put \/ Get

Spec == Init /\ [][Next]_vars
=============================================================================
