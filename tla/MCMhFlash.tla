------------------------------ MODULE MCMhFlash ------------------------------
(* A chip of three sectors of two pages of four bytes: a partition of one     *)
(* sector and one of two.  Callers pass any word address and any size, up to  *)
(* one byte over the end of the partition; and a few calls whose end address  *)
(* wraps: from the sector before the partition into it, within the last word  *)
(* of addresses, and all around.                                              *)
EXTENDS MhFlash

TwoParts == {[off |-> 0, len |-> Sector], [off |-> Sector, len |-> Size - Sector]}

Wrapping ==
  {[part |-> p, addr |-> a, size |-> Words - a + k] :
     p \in TwoParts, a \in {Word, Words - Sector, Words - Word}, k \in {0, 1}}

Calls ==
  Wrapping \cup
  {q \in [part : TwoParts, addr : 0..Size, size : 0..(Size + 1)] :
     q.addr % Word = 0 /\ q.addr + q.size <= q.part.len + 1}
=============================================================================
