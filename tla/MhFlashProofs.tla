---------------------------- MODULE MhFlashProofs ----------------------------
(***************************************************************************)
(* Theorems about MhFlash, for every chip, page, sector and word size,     *)
(* every partition table that is aligned to sectors, every call, the ones  *)
(* whose end address wraps included, and any number of failing operations. *)
(***************************************************************************)
EXTENDS MhFlash, TLAPS

-----------------------------------------------------------------------------
(* Pages and sectors: arithmetic.                                          *)

\* Quotient and remainder of an address by the size of a page or sector.
LEMMA DivMod ==
  ASSUME NEW x \in Nat, NEW n \in Nat \ {0}
  PROVE  /\ x \div n \in Nat /\ x % n \in 0..(n - 1)
         /\ x = n * (x \div n) + (x % n)
OBVIOUS

\* Two multiples are at least one page or sector apart.
LEMMA Apart ==
  ASSUME NEW a \in Nat, NEW b \in Nat, NEW n \in Nat \ {0}, n * a < n * b
  PROVE  n * a + n <= n * b
<1>1. a < b
  OBVIOUS
<1>2. a + 1 <= b
  BY <1>1
<1>3. n * (a + 1) <= n * b
  BY <1>2
<1> QED
  BY <1>3

\* The remainder of a multiple and what is beyond it.
LEMMA ModIs ==
  ASSUME NEW q \in Nat, NEW n \in Nat \ {0}, NEW r \in 0..(n - 1)
  PROVE  (n * q + r) % n = r
OBVIOUS

\* The size of so many pages or sectors.
LEMMA Product ==
  ASSUME NEW q \in Nat, NEW n \in Nat \ {0}
  PROVE  n * q \in Nat /\ n * q = q * n /\ q <= n * q /\ (n * q) % n = 0
<1>1. 1 * q <= n * q
  OBVIOUS
<1>2. (n * q) % n = 0
  OBVIOUS
<1> QED
  BY <1>1, <1>2

\* An address that is a multiple of n.
LEMMA Multiple ==
  ASSUME NEW x \in Nat, NEW n \in Nat \ {0}
  PROVE  x % n = 0 <=> \E q \in Nat : x = n * q
<1>1. ASSUME x % n = 0 PROVE \E q \in Nat : x = n * q
  BY <1>1
<1>2. ASSUME NEW q \in Nat, x = n * q PROVE x % n = 0
  BY <1>2
<1> QED
  BY <1>1, <1>2

\* Sums of multiples, and multiples of multiples.
LEMMA MultipleSum ==
  ASSUME NEW x \in Nat, NEW y \in Nat, NEW n \in Nat \ {0}, x % n = 0, y % n = 0
  PROVE  (x + y) % n = 0
<1>1. PICK a \in Nat : x = n * a
  BY Multiple
<1>2. PICK b \in Nat : y = n * b
  BY Multiple
<1>3. x + y = n * (a + b) /\ a + b \in Nat /\ x + y \in Nat
  BY <1>1, <1>2
<1> QED
  BY <1>3, Multiple

LEMMA MultipleTrans ==
  ASSUME NEW x \in Nat, NEW m \in Nat \ {0}, NEW n \in Nat \ {0}, x % m = 0, m % n = 0
  PROVE  x % n = 0
<1>1. PICK a \in Nat : x = m * a
  BY Multiple
<1>2. PICK b \in Nat : m = n * b
  BY Multiple
<1>3. b * a \in Nat /\ (n * b) * a = n * (b * a)
  OBVIOUS
<1>4. x = n * (b * a)
  BY <1>1, <1>2, <1>3
<1> QED
  BY <1>3, <1>4, Multiple

\* The page or sector of an address ends before the next multiple does.
LEMMA EndsBefore ==
  ASSUME NEW x \in Nat, NEW z \in Nat, NEW n \in Nat \ {0}, z % n = 0, x < z
  PROVE  x - (x % n) + n <= z
<1>1. PICK b \in Nat : z = n * b
  BY Multiple
<1>2. x \div n \in Nat /\ x % n \in 0..(n - 1) /\ x = n * (x \div n) + (x % n)
  BY DivMod
<1>3. n * (x \div n) < n * b
  BY <1>1, <1>2
<1>4. n * (x \div n) + n <= n * b
  BY <1>2, <1>3, Apart
<1> QED
  BY <1>1, <1>2, <1>4

\* ... and begins after the last one.
LEMMA BeginsAfter ==
  ASSUME NEW x \in Nat, NEW z \in Nat, NEW n \in Nat \ {0}, z % n = 0, z <= x
  PROVE  z <= n * (x \div n)
<1>1. PICK b \in Nat : z = n * b
  BY Multiple
<1>2. x \div n \in Nat /\ x % n \in 0..(n - 1) /\ x = n * (x \div n) + (x % n)
  BY DivMod
<1>3. ASSUME n * (x \div n) < n * b PROVE FALSE
  <2>1. n * (x \div n) + n <= n * b
    BY <1>2, <1>3, Apart
  <2> QED
    BY <1>1, <1>2, <2>1
<1> QED
  BY <1>1, <1>2, <1>3

\* How many sectors mh_flash_erase counts for size: enough, and none too many.
LEMMA RoundedUp ==
  ASSUME NEW x \in Nat \ {0}, NEW n \in Nat \ {0}
  PROVE  LET q == (x + n - 1) \div n
         IN  q \in Nat /\ x <= n * q /\ \A i \in Nat : i < q => n * i < x
<1> DEFINE y == x + n - 1
           q == y \div n
<1>1. y \in Nat
  OBVIOUS
<1>2. q \in Nat /\ y % n \in 0..(n - 1) /\ y = n * q + (y % n)
  BY <1>1, DivMod
<1>3. x <= n * q
  BY <1>2
<1>4. ASSUME NEW i \in Nat, i < q PROVE n * i < x
  <2>1. i + 1 <= q
    BY <1>2, <1>4
  <2>2. n * (i + 1) <= n * q
    BY <1>2, <2>1
  <2>3. n * i + n <= n * q
    BY <2>2
  <2> HIDE DEF q
  <2> QED
    BY <1>2, <2>3
<1> QED
  BY <1>2, <1>3, <1>4

\* A sum that is a word does not wrap.
LEMMA SmallMod == ASSUME NEW n \in Nat \ {0}, NEW x \in 0..(n - 1) PROVE x % n = x
OBVIOUS

-----------------------------------------------------------------------------
(* The inductive invariant.                                                *)

Bytes == {Erased, Mixed, Stray} \cup (Buffers \X (0..(Size - 1)))

FlashTypes ==
  /\ DOMAIN flash = 0..(Size - 1) /\ \A i \in 0..(Size - 1) : flash[i] \in Bytes
  /\ DOMAIN before = 0..(Size - 1)
  /\ pc \in {"idle", "write", "erase", "fault"} /\ op \in {"write", "erase"}
  /\ ret \in {"none", "ok", "error"}
  /\ call \in Call /\ buf \in Buffers
  /\ pos \in 0..(Words - 1) /\ faults \in 0..MaxFaults /\ calls \in 0..MaxCalls

\* A call in progress has passed the checks of FAL and of the driver; only one
\* that wraps makes the processor trap.
Accepted ==
  /\ pc # "idle" => ret = "none" /\ InPartition(call) /\ InFlash(call)
  /\ pc \in {"write", "erase"} => op = pc
  /\ pc = "fault" => Wraps(call)

\* How far a write has come: it stands at the beginning, at the end or on a
\* page, what is behind it is stored and nothing else has changed.
WriteInv ==
  pc = "write" /\ HandledWrite(call) =>
    /\ pos <= call.size
    /\ pos = 0 \/ pos = call.size \/ (Addr + pos) % Page = 0
    /\ \A i \in 0..(Size - 1) :
         flash[i] = IF i \in Addr..(Addr + pos - 1) THEN <<buf, i - Addr>> ELSE before[i]

\* A write stands on a page after its first piece.
PageInv ==
  pc = "write" => pos = 0 \/ pos >= call.size \/ (Addr + pos) % Page = 0

\* How far an erase has come.
EraseInv ==
  pc = "erase" =>
    /\ pos <= SectorNum
    /\ ~Wraps(call) => \A i \in FirstSector..(FirstSector + pos * Sector - 1) : flash[i] = Erased

FlashInv ==
  /\ FlashTypes /\ Accepted /\ PartitionContained
  /\ PageInv /\ WriteInv /\ WriteStores /\ EraseInv /\ EraseClears

\* The arguments of the call and the partition they are about.
LEMMA CallFacts ==
  ASSUME FlashTypes
  PROVE  /\ call.part \in Parts /\ call.addr \in Nat /\ call.size \in Nat /\ Addr \in Nat
         /\ call.part.off \in Nat /\ call.part.len \in Nat
         /\ Addr = call.part.off + call.addr /\ pos \in Nat
         /\ call.part.off + call.part.len <= Size /\ Size \in Nat
         /\ Words \in Nat \ {0} /\ call.size < Words /\ Size + Sector <= Words
         /\ Sector <= Size
         /\ call.part.off % Sector = 0
         /\ (call.part.off + call.part.len) % Sector = 0
         /\ (call.part.off + call.part.len) % Page = 0
         /\ Page \in Nat \ {0} /\ Sector \in Nat \ {0}
<1>0. Words \in Nat \ {0} /\ Size \in Nat \ {0} /\ 2 * Size <= Words
  BY MhFlashAssumption
<1>1. /\ call.part \in Parts /\ call.addr \in 0..(Words - 1) /\ call.size \in 0..(Words - 1)
      /\ pos \in 0..(Words - 1)
  BY DEF FlashTypes, Call
<1>2. /\ Size \in Nat /\ Page \in Nat \ {0} /\ Sector \in Nat \ {0} /\ Sector % Page = 0
      /\ call.part.off \in 0..Size /\ call.part.len \in 0..Size
      /\ call.part.off + call.part.len <= Size
      /\ call.part.off % Sector = 0 /\ call.part.len % Sector = 0
  BY <1>1, MhFlashAssumption
<1>3. call.part.off \in Nat /\ call.part.len \in Nat
  BY <1>2
<1>4. (call.part.off + call.part.len) % Sector = 0
  BY <1>2, <1>3, MultipleSum
<1>41. call.part.off + call.part.len \in Nat
  BY <1>3
<1>5. (call.part.off + call.part.len) % Page = 0
  BY <1>2, <1>4, <1>41, MultipleTrans, SMTT(30)
<1>6. Sector <= Size
  <2>1. PICK q \in Nat : Size = Sector * q
    BY <1>0, <1>2, MhFlashAssumption, Multiple
  <2>2. q >= 1
    BY <1>0, <1>2, <2>1
  <2> QED
    BY <1>2, <2>1, <2>2
<1> QED
  BY <1>0, <1>1, <1>2, <1>3, <1>4, <1>5, <1>6 DEF Addr

\* A call in progress whose end address does not wrap is about its partition.
LEMMA CallInside ==
  ASSUME FlashTypes, Accepted, pc # "idle", ~Wraps(call)
  PROVE  /\ call.size \in Nat \ {0} /\ Addr + call.size <= call.part.off + call.part.len
         /\ SectorNum = (call.size + Sector - 1) \div Sector
<1>1. call.addr + call.size \in 0..(Words - 1) /\ Words \in Nat \ {0}
  BY CallFacts DEF Wraps
<1>2. (call.addr + call.size) % Words = call.addr + call.size
  BY <1>1, SmallMod
<1>3. call.size \in Nat \ {0} /\ call.addr + call.size <= call.part.len
  BY <1>2, CallFacts DEF Accepted, InPartition, InFlash
<1>4. call.size + Sector - 1 \in 0..(Words - 1)
  BY <1>3, CallFacts
<1>5. (call.size + Sector - 1) % Words = call.size + Sector - 1
  BY <1>1, <1>4, SmallMod
<1> QED
  BY <1>3, <1>5, CallFacts DEF SectorNum

\* A piece of a write stays in its page, and so in the partition.
LEMMA PieceInside ==
  ASSUME FlashTypes, Accepted, pc = "write", pos < call.size, ~Wraps(call)
  PROVE  /\ PieceLen \in Nat
         /\ Addr + pos + PieceLen <= call.part.off + call.part.len
         /\ Piece \subseteq Partition /\ Piece \subseteq 0..(Size - 1)
<1>1. Addr + pos \in Nat /\ Addr + pos < call.part.off + call.part.len
  BY CallFacts, CallInside
<1> DEFINE mod == (Addr + pos) % Page
<1>2. Addr + pos - mod + Page <= call.part.off + call.part.len
  BY <1>1, CallFacts, EndsBefore
<1>3. mod \in 0..(Page - 1)
  BY <1>1, CallFacts, DivMod
<1>4. call.size - pos \in Nat /\ (call.size - pos) % Page \in 0..(Page - 1)
  <2>1. call.size - pos \in Nat /\ Page \in Nat \ {0}
    BY CallFacts
  <2> QED
    BY <2>1, DivMod
<1>5. PieceLen \in Nat /\ PieceLen <= Page - mod
  BY <1>3, <1>4, CallFacts DEF PieceLen
<1> HIDE DEF mod
<1>6. Addr + pos + PieceLen <= call.part.off + call.part.len
  BY <1>1, <1>2, <1>3, <1>5, CallFacts
<1> QED
  BY <1>1, <1>5, <1>6, CallFacts DEF Piece, Partition

\* What the driver counts and where it begins: no sector it erases reaches out
\* of the partition.
LEMMA SectorInside ==
  ASSUME FlashTypes, Accepted, pc = "erase", pos < SectorNum, ~Wraps(call)
  PROVE  /\ pos + 1 \in 0..Size /\ FirstSector \in Nat
         /\ SectorArea \subseteq Partition /\ SectorArea \subseteq 0..(Size - 1)
<1>1. call.size \in Nat \ {0} /\ Addr + call.size <= call.part.off + call.part.len
  BY CallInside
<1>2. SectorNum \in Nat /\ Sector * pos < call.size
  BY <1>1, CallFacts, CallInside, RoundedUp
<1>3. /\ Addr \div Sector \in Nat /\ Addr % Sector \in 0..(Sector - 1)
      /\ Addr = Sector * (Addr \div Sector) + (Addr % Sector)
  BY CallFacts, DivMod
<1>4. call.part.off <= FirstSector
  <2>1. call.part.off \in Nat /\ Addr \in Nat /\ call.part.off <= Addr
    BY CallFacts
  <2>2. Sector \in Nat \ {0} /\ call.part.off % Sector = 0
    BY CallFacts
  <2>3. call.part.off <= Sector * (Addr \div Sector)
    BY <2>1, <2>2, BeginsAfter, Zenon
  <2> QED
    BY <2>3 DEF FirstSector
<1>5. FirstSector \in Nat /\ FirstSector <= Addr
  <2>1. Sector * (Addr \div Sector) \in Nat
    BY <1>3, CallFacts, Product
  <2> QED
    BY <1>3, <2>1, CallFacts DEF FirstSector
<1>6. pos * Sector \in Nat /\ pos * Sector = Sector * pos /\ pos <= Sector * pos
  <2>1. pos \in Nat /\ Sector \in Nat \ {0}
    BY CallFacts
  <2>2. Sector * pos \in Nat /\ Sector * pos = pos * Sector /\ pos <= Sector * pos
    BY <2>1, Product, Zenon
  <2> QED
    BY <2>2, Zenon
<1>7. FirstSector + pos * Sector < call.part.off + call.part.len
  BY <1>1, <1>2, <1>5, <1>6, CallFacts
<1>8. (FirstSector + pos * Sector) % Sector = 0
  <2>1. FirstSector % Sector = 0 /\ (Sector * pos) % Sector = 0
    BY <1>3, CallFacts, Product DEF FirstSector
  <2> QED
    BY <1>5, <1>6, <2>1, CallFacts, MultipleSum
<1>9. FirstSector + pos * Sector + Sector <= call.part.off + call.part.len
  <2>1. FirstSector + pos * Sector \in Nat
    BY <1>5, <1>6
  <2> QED
    BY <1>7, <1>8, <2>1, CallFacts, EndsBefore
<1>10. pos + 1 \in 0..Size
  BY <1>1, <1>2, <1>6, CallFacts
<1> QED
  BY <1>4, <1>5, <1>6, <1>9, <1>10, CallFacts DEF SectorArea, Partition

\* TypeOK says in addition where the next piece and sector are.
LEMMA TypesSuffice == FlashTypes /\ Accepted => TypeOK
BY PieceInside, SectorInside DEF FlashTypes, TypeOK, Bytes, Accepted

-----------------------------------------------------------------------------
(* Every step keeps it.                                                    *)

\* A chip that has never been written to.
LEMMA InitFlash == Init => FlashInv
<1> SUFFICES ASSUME Init PROVE FlashInv
  OBVIOUS
<1>0. Words \in Nat /\ 0 \in 0..(Words - 1)
  BY MhFlashAssumption
<1>1. call \in Call /\ Size \in Nat
  BY <1>0, MhFlashAssumption DEF Init, Call
<1>2. FlashTypes
  BY <1>0, <1>1, MhFlashAssumption DEF Init, FlashTypes, Bytes
<1> QED
  BY <1>2 DEF Init, FlashInv, Accepted, PartitionContained, PageInv, WriteInv, WriteStores, EraseInv,
     EraseClears

\* fal_partition_write and fal_partition_erase are called: the flash is as
\* before, and the call is refused or nothing of it is done yet.
LEMMA BeginFlash ==
  ASSUME FlashInv, NEW q \in Call, NEW d \in Buffers,
         WriteBegin(q, d) \/ EraseBegin(q)
  PROVE  FlashInv'
<1>0. flash' = flash /\ before' = flash /\ call' = q /\ pos' = 0 /\ ret' \in {"none", "error"}
  BY DEF WriteBegin, EraseBegin, Return
<1>1. FlashTypes'
  <2>1. Words \in Nat /\ 0 \in 0..(Words - 1)
    BY MhFlashAssumption
  <2> QED
    BY <1>0, <2>1, MhFlashAssumption DEF WriteBegin, EraseBegin, Return, FlashInv, FlashTypes
<1>2. Accepted'
  BY DEF WriteBegin, EraseBegin, Return, Accepted, WriteAccepted, InPartition, InFlash, Wraps
<1>3. PartitionContained' /\ WriteStores' /\ EraseClears'
  BY <1>0 DEF PartitionContained, WriteStores, EraseClears
<1>4. Addr' \in Nat /\ call'.size \in Nat /\ Sector \in Nat \ {0}
  <2>1. (FlashTypes => Addr \in Nat /\ call.size \in Nat /\ Sector \in Nat \ {0})'
    BY CallFacts, PTL
  <2> QED
    BY <1>1, <2>1
<1>5. PageInv'
  BY <1>0 DEF PageInv
<1>50. WriteInv'
  <2>1. pos' <= call'.size /\ pos' = 0
    BY <1>0, <1>4
  <2>2. \A i : i \notin Addr'..(Addr' + pos' - 1)
    <3>1. \A a \in Nat : \A i : i \notin a..(a + 0 - 1)
      OBVIOUS
    <3> QED
      BY <1>4, <2>1, <3>1
  <2>3. \A i \in 0..(Size - 1) :
          flash'[i] = IF i \in Addr'..(Addr' + pos' - 1) THEN <<buf', i - Addr'>> ELSE before'[i]
    BY <1>0, <2>2
  <2> QED
    BY <2>1, <2>3 DEF WriteInv
<1>6. EraseInv'
  <2>1. SectorNum' \in Nat /\ FirstSector' \in Nat
    <3>1. Sector * (Addr' \div Sector) \in Nat
      BY <1>4, DivMod, Product
    <3>2. call'.size + Sector - 1 \in Nat /\ Words \in Nat \ {0}
      BY <1>4, MhFlashAssumption
    <3>3. ((call'.size + Sector - 1) % Words) \div Sector \in Nat
      <4>1. (call'.size + Sector - 1) % Words \in Nat
        BY <3>2, DivMod
      <4> QED
        BY <1>4, <4>1, DivMod
    <3> QED
      BY <3>1, <3>3 DEF SectorNum, FirstSector
  <2>2. pos' * Sector = 0
    BY <1>0, <1>4
  <2>3. pos' <= SectorNum' /\ FirstSector'..(FirstSector' + pos' * Sector - 1) = {}
    BY <1>0, <2>1, <2>2
  <2> QED
    BY <2>3 DEF EraseInv
<1> QED
  BY <1>1, <1>2, <1>3, <1>5, <1>50, <1>6 DEF FlashInv

\* Nothing of the flash changes when a call returns; a write that is through
\* has stored its bytes, an erase that is through has cleared the area.
LEMMA EndFlash ==
  ASSUME FlashInv, WriteEnd \/ EraseEnd
  PROVE  FlashInv'
<1>0. UNCHANGED <<flash, op, call, buf, pos, before>> /\ pc' = "idle" /\ ret' = "ok"
  BY DEF WriteEnd, EraseEnd, Return
<1>1. FlashTypes' /\ Accepted' /\ PageInv' /\ WriteInv' /\ EraseInv'
  BY <1>0 DEF WriteEnd, EraseEnd, Return, FlashInv, FlashTypes, Accepted, PageInv, WriteInv,
     EraseInv
<1>2. PartitionContained'
  BY <1>0 DEF FlashInv, PartitionContained, Partition, Wraps
<1>3. CASE WriteEnd
  <2>1. pc = "write" /\ op = "write" /\ pos >= call.size /\ FlashTypes
    BY <1>3 DEF WriteEnd, FlashInv, Accepted
  <2>2. HandledWrite(call) => pos = call.size
    <3>1. pos \in Nat /\ call.size \in Nat
      BY <2>1, CallFacts
    <3>2. HandledWrite(call) => pos <= call.size
      BY <2>1, Zenon DEF FlashInv, WriteInv
    <3> QED
      BY <2>1, <3>1, <3>2
  <2>3. HandledWrite(call) => \A i \in DOMAIN flash :
           flash[i] = IF i \in Area THEN <<buf, i - Addr>> ELSE before[i]
    BY <2>1, <2>2 DEF FlashInv, WriteInv, Area, FlashTypes
  <2>4. WriteStores' /\ EraseClears'
    BY <1>0, <2>1, <2>3 DEF WriteStores, EraseClears, HandledWrite, Area, Addr, Wraps
  <2> QED
    BY <1>1, <1>2, <2>4 DEF FlashInv
<1>4. CASE EraseEnd
  <2>1. /\ pc = "erase" /\ op = "erase" /\ pos = SectorNum /\ FlashTypes /\ InFlash(call)
        /\ Accepted
    BY <1>4 DEF EraseEnd, FlashInv, Accepted
  <2>2. ~Wraps(call) => call.size <= pos * Sector /\ pos * Sector \in Nat
    <3> SUFFICES ASSUME ~Wraps(call) PROVE call.size <= pos * Sector /\ pos * Sector \in Nat
      OBVIOUS
    <3>1. call.size \in Nat \ {0} /\ Sector \in Nat \ {0} /\ pos \in Nat
      BY <2>1, CallFacts, CallInside
    <3>2. call.size <= Sector * pos
      BY <2>1, <3>1, CallInside, RoundedUp
    <3>3. Sector * pos \in Nat /\ Sector * pos = pos * Sector
      BY <3>1, Product, Zenon
    <3> QED
      BY <3>2, <3>3
  <2>3. HandledErase(call) => FirstSector = Addr
    <3>1. Addr \in Nat /\ Sector \in Nat \ {0} /\ Addr = call.part.off + call.addr
      BY <2>1, CallFacts
    <3>2. Addr = Sector * (Addr \div Sector) + (Addr % Sector) /\ Addr \div Sector \in Nat
      BY <3>1, DivMod
    <3>3. Sector * (Addr \div Sector) \in Nat
      BY <3>1, <3>2, Product
    <3> QED
      BY <3>1, <3>2, <3>3 DEF HandledErase, FirstSector
  <2>4. HandledErase(call) => \A i \in Area : flash[i] = Erased
    <3> SUFFICES ASSUME HandledErase(call), NEW i \in Area PROVE flash[i] = Erased
      OBVIOUS
    <3>0. ~Wraps(call)
      BY DEF HandledErase
    <3>1. i \in FirstSector..(FirstSector + pos * Sector - 1)
      BY <2>1, <2>2, <2>3, <3>0, CallFacts DEF Area
    <3> QED
      BY <2>1, <3>0, <3>1 DEF FlashInv, EraseInv
  <2>5. WriteStores' /\ EraseClears'
    BY <1>0, <2>1, <2>4 DEF WriteStores, EraseClears, HandledErase, Area, Addr, Wraps
  <2> QED
    BY <1>1, <1>2, <2>5 DEF FlashInv
<1> QED
  BY <1>3, <1>4

\* A sector is erased, or its erase fails.
LEMMA EraseFlash ==
  ASSUME FlashInv, EraseSector
  PROVE  FlashInv'
<1>0. /\ pc = "erase" /\ op = "erase" /\ ret = "none" /\ pos < SectorNum
      /\ FlashTypes /\ Accepted /\ ~Wraps(call)
      /\ UNCHANGED <<op, call, buf, before, calls>>
  BY DEF EraseSector, FlashInv, Accepted
<1>1. /\ pos + 1 \in 0..Size /\ FirstSector \in Nat
      /\ SectorArea \subseteq Partition /\ SectorArea \subseteq 0..(Size - 1)
  BY <1>0, SectorInside
<1>2. PICK v \in {Erased, Mixed} :
        flash' = [i \in DOMAIN flash |-> IF i \in SectorArea THEN v ELSE flash[i]]
  BY DEF EraseSector
<1>3. /\ DOMAIN flash' = 0..(Size - 1)
      /\ \A i \in 0..(Size - 1) :
           flash'[i] = IF i \in SectorArea THEN v ELSE flash[i]
  BY <1>0, <1>2 DEF FlashTypes
<1>4. FlashTypes'
  <2>1. \A i \in 0..(Size - 1) : flash'[i] \in Bytes
    BY <1>0, <1>3 DEF FlashTypes, Bytes
  <2>2. faults' \in 0..MaxFaults
    BY <1>0, MhFlashAssumption DEF EraseSector, FlashTypes
  <2> QED
    BY <1>0, <1>1, <1>3, <2>1, <2>2, MhFlashAssumption DEF EraseSector, Return, FlashTypes
<1>5. Accepted'
  BY <1>0 DEF EraseSector, Return, Accepted, InPartition, InFlash, Wraps
<1>6. PartitionContained'
  <2>1. Partition' = Partition
    BY <1>0 DEF Partition
  <2>2. \A i \in 0..(Size - 1) : i \notin Partition => flash[i] = before[i]
    BY <1>0 DEF FlashInv, PartitionContained, FlashTypes
  <2> QED
    BY <1>0, <1>1, <1>3, <2>1, <2>2 DEF PartitionContained
<1>7. PageInv' /\ WriteInv' /\ WriteStores' /\ EraseClears'
  BY <1>0 DEF EraseSector, Return, PageInv, WriteInv, WriteStores, EraseClears
<1>8. EraseInv'
  <2> SUFFICES ASSUME pc' = "erase" PROVE EraseInv'
    BY DEF EraseInv
  <2>1. pos' = pos + 1 /\ \A i \in SectorArea : flash'[i] = Erased
    BY <1>0, <1>1, <1>3 DEF EraseSector, Return, FlashTypes
  <2>2. FirstSector' = FirstSector /\ SectorNum' = SectorNum
    BY <1>0 DEF FirstSector, SectorNum, Addr
  <2>3. pos \in Nat /\ Sector \in Nat \ {0} /\ call.size \in Nat
    BY <1>0, CallFacts
  <2>4. pos * Sector \in Nat /\ (pos + 1) * Sector = pos * Sector + Sector
    BY <2>3
  <2>5. SectorNum \in Nat
    <3>1. call.size + Sector - 1 \in Nat
      BY <2>3
    <3> QED
      BY <1>0, <2>3, <3>1, DivMod, CallInside
  <2>6. ASSUME NEW i \in FirstSector..(FirstSector + (pos * Sector + Sector) - 1)
        PROVE  flash'[i] = Erased
    <3>1. CASE i \in SectorArea
      BY <2>1, <3>1
    <3>2. CASE i \notin SectorArea
      <4>1. i \in FirstSector..(FirstSector + pos * Sector - 1)
        BY <1>1, <2>3, <2>4, <2>6, <3>2 DEF SectorArea
      <4>2. flash[i] = Erased
        BY <1>0, <4>1 DEF FlashInv, EraseInv
      <4>3. i \in 0..(Size - 1)
        <5>1. FirstSector + pos * Sector \in SectorArea
          BY <1>1, <2>3, <2>4 DEF SectorArea
        <5>2. FirstSector + pos * Sector \in 0..(Size - 1)
          BY <1>1, <5>1
        <5> QED
          BY <1>1, <2>4, <4>1, <5>2, MhFlashAssumption
      <4> QED
        BY <1>3, <3>2, <4>2, <4>3
    <3> QED
      BY <3>1, <3>2
  <2> QED
    BY <1>0, <2>1, <2>2, <2>3, <2>4, <2>5, <2>6 DEF EraseInv
<1> QED
  BY <1>4, <1>5, <1>6, <1>7, <1>8 DEF FlashInv

\* No piece is empty.
LEMMA PieceNotEmpty ==
  ASSUME FlashTypes, pos < call.size
  PROVE  PieceLen \in Nat \ {0}
<1>1. /\ Page \in Nat \ {0} /\ Addr + pos \in Nat /\ call.size - pos \in Nat \ {0}
  BY CallFacts
<1>2. PICK mod \in 0..(Page - 1) : mod = (Addr + pos) % Page
  BY <1>1, DivMod
<1>3. PICK left \in Nat \ {0} : left = call.size - pos
  BY <1>1
<1>4. left < Page => left % Page = left
  BY <1>1
<1>5. PieceLen = IF mod # 0 THEN Page - mod ELSE IF left >= Page THEN Page ELSE left % Page
  BY <1>2, <1>3 DEF PieceLen
<1> QED
  BY <1>1, <1>4, <1>5

\* A piece ends on a page, or with the caller's bytes or beyond them; it ends
\* before any address does that is no word.
LEMMA PieceOnPage ==
  ASSUME FlashTypes, PageInv, pc = "write", pos < call.size
  PROVE  /\ PieceLen \in Nat /\ pos + PieceLen \in 0..(Words - 1)
         /\ pos + PieceLen >= call.size \/ (Addr + (pos + PieceLen)) % Page = 0
<1>1. /\ Addr \in Nat /\ pos \in Nat /\ call.size \in Nat /\ Page \in Nat \ {0}
      /\ call.size < Words /\ Words \in Nat /\ Sector <= Words /\ Sector \in Nat \ {0}
      /\ Addr + pos \in Nat
  BY CallFacts
<1>2. Page <= Words
  <2>1. PICK q \in Nat : Sector = Page * q
    BY <1>1, MhFlashAssumption, Multiple
  <2>2. q >= 1
    BY <1>1, <2>1
  <2> QED
    BY <1>1, <2>1, <2>2
<1>3. PICK page \in Nat : \E mod \in 0..(Page - 1) :
        /\ mod = (Addr + pos) % Page /\ Addr + pos = page + mod /\ page % Page = 0
  <2>1. /\ (Addr + pos) % Page \in 0..(Page - 1) /\ (Addr + pos) \div Page \in Nat
        /\ Addr + pos = Page * ((Addr + pos) \div Page) + ((Addr + pos) % Page)
    BY <1>1, DivMod
  <2>2. /\ Page * ((Addr + pos) \div Page) \in Nat
        /\ (Page * ((Addr + pos) \div Page)) % Page = 0
    BY <1>1, <2>1, Product
  <2> QED
    BY <2>1, <2>2
<1>4. PICK mod \in 0..(Page - 1) :
        mod = (Addr + pos) % Page /\ Addr + pos = page + mod /\ page % Page = 0
  BY <1>3
<1>5. (page + Page) % Page = 0
  <2>1. Page % Page = 0
    BY <1>1
  <2> QED
    BY <1>1, <1>4, <2>1, MultipleSum
<1>6. PICK left \in Nat \ {0} : left = call.size - pos
  BY <1>1
<1>7. PieceLen = IF mod # 0 THEN Page - mod ELSE IF left >= Page THEN Page ELSE left % Page
  BY <1>4, <1>6 DEF PieceLen
<1>8. CASE mod # 0
  <2>1. pos = 0 /\ PieceLen = Page - mod
    BY <1>1, <1>4, <1>7, <1>8 DEF PageInv
  <2>2. Addr + (pos + PieceLen) = page + Page
    BY <1>1, <1>4, <2>1
  <2> QED
    BY <1>1, <1>2, <1>5, <1>8, <2>1, <2>2
<1>9. CASE mod = 0 /\ left >= Page
  <2>1. Addr + (pos + PieceLen) = page + Page
    BY <1>1, <1>4, <1>7, <1>9
  <2> QED
    BY <1>1, <1>5, <1>6, <1>7, <1>9, <2>1
<1>10. CASE mod = 0 /\ left < Page
  <2>1. left % Page = left
    BY <1>1, <1>10, SmallMod
  <2> QED
    BY <1>1, <1>6, <1>7, <1>10, <2>1
<1> QED
  BY <1>1, <1>8, <1>9, <1>10

\* Where the piece of a write that is handled ends: on a page, or with the
\* caller's bytes.
LEMMA PieceHandled ==
  ASSUME FlashInv, pc = "write", pos < call.size, HandledWrite(call)
  PROVE  /\ pos + PieceLen <= call.size
         /\ pos + PieceLen = call.size \/ (Addr + (pos + PieceLen)) % Page = 0
<1>1. FlashTypes /\ Accepted /\ ~Wraps(call)
  BY DEF FlashInv, HandledWrite
<1>2. /\ Addr \in Nat /\ pos \in Nat /\ call.size \in Nat /\ Page \in Nat \ {0}
      /\ Addr = call.part.off + call.addr
  BY <1>1, CallFacts
<1> DEFINE mod == (Addr + pos) % Page
           page == Page * ((Addr + pos) \div Page)
<1>3. mod \in 0..(Page - 1) /\ page \in Nat /\ Addr + pos = page + mod /\ page % Page = 0
  <2>1. Addr + pos \in Nat
    BY <1>2
  <2>2. /\ mod \in 0..(Page - 1) /\ (Addr + pos) \div Page \in Nat
        /\ Addr + pos = page + mod
    BY <1>2, <2>1, DivMod
  <2> QED
    BY <1>2, <2>2, Product
<1>4. (page + Page) % Page = 0
  <2>1. Page % Page = 0
    BY <1>2
  <2> QED
    BY <1>2, <1>3, <2>1, MultipleSum
<1>5. CASE mod # 0
  <2>1. pos = 0
    BY <1>2, <1>5 DEF FlashInv, WriteInv
  <2>2. PieceLen = Page - mod
    BY <1>5 DEF PieceLen
  <2>3. mod = (call.part.off + call.addr) % Page
    BY <1>2, <2>1
  <2>4. Page - mod <= call.size
    BY <1>5, <2>3 DEF HandledWrite
  <2> HIDE DEF mod, page
  <2>5. Addr + (pos + PieceLen) = page + Page
    BY <1>2, <1>3, <2>2
  <2> QED
    BY <1>2, <1>3, <1>4, <2>1, <2>2, <2>4, <2>5
<1>6. CASE mod = 0 /\ call.size - pos >= Page
  <2>1. PieceLen = Page
    BY <1>6 DEF PieceLen
  <2>2. Addr + (pos + PieceLen) = page + Page
    BY <1>2, <1>3, <1>6, <2>1
  <2> QED
    BY <1>2, <1>4, <1>6, <2>1, <2>2
<1>7. CASE mod = 0 /\ call.size - pos < Page
  <2>1. PieceLen = (call.size - pos) % Page
    BY <1>2, <1>7 DEF PieceLen
  <2>2. call.size - pos \in 0..(Page - 1)
    BY <1>2, <1>7
  <2>3. (call.size - pos) % Page = call.size - pos
    BY <1>2, <2>2
  <2> QED
    BY <1>2, <2>1, <2>3
<1> QED
  BY <1>2, <1>5, <1>6, <1>7

\* A piece is programmed and read back, or the write fails.
LEMMA WriteFlash ==
  ASSUME FlashInv, WritePiece
  PROVE  FlashInv'
<1>0. /\ pc = "write" /\ op = "write" /\ ret = "none" /\ pos < call.size
      /\ FlashTypes /\ Accepted /\ ~Wraps(call)
      /\ UNCHANGED <<op, call, buf, before, calls>>
  BY DEF WritePiece, FlashInv, Accepted
<1>1. /\ PieceLen \in Nat /\ Addr + pos + PieceLen <= call.part.off + call.part.len
      /\ Piece \subseteq Partition /\ Piece \subseteq 0..(Size - 1)
  BY <1>0, PieceInside
<1>2. /\ Addr \in Nat /\ pos \in Nat /\ call.size \in Nat /\ Size \in Nat
      /\ call.part.off + call.part.len <= Size
      /\ call.part.off \in Nat /\ call.part.len \in Nat
  BY <1>0, CallFacts
<1>3. /\ DOMAIN flash' = 0..(Size - 1)
      /\ \A i \in 0..(Size - 1) : i \notin Piece => flash'[i] = flash[i]
      /\ \A i \in Piece : flash'[i] \in {Mixed, WriteBuf(i)}
  BY <1>0, <1>1 DEF WritePiece, FlashTypes, Programmed
<1>4. FlashTypes'
  <2>1. \A i \in Piece : WriteBuf(i) \in Bytes
    <3> TAKE i \in Piece
    <3>1. i \in Nat /\ i >= Addr /\ i <= Size - 1
      BY <1>1, <1>2 DEF Piece
    <3>2. i - Addr \in 0..(Size - 1)
      BY <1>2, <3>1
    <3> QED
      BY <1>0, <3>2 DEF WriteBuf, Bytes, FlashTypes
  <2>2. \A i \in 0..(Size - 1) : flash'[i] \in Bytes
    BY <1>0, <1>3, <2>1 DEF FlashTypes, Bytes
  <2>3. faults' \in 0..MaxFaults
    BY <1>0, MhFlashAssumption DEF WritePiece, FlashTypes
  <2>4. pos' \in 0..(Words - 1)
    <3>0. pos \in 0..(Words - 1)
      BY <1>0 DEF FlashTypes
    <3>1. pos + PieceLen \in 0..Size /\ pos \in 0..(Words - 1) /\ Size < Words /\ Words \in Nat
      BY <1>0, <1>1, <1>2, <3>0, CallFacts
    <3> QED
      BY <1>2, <3>1 DEF WritePiece
  <2> QED
    BY <1>0, <1>3, <2>2, <2>3, <2>4 DEF WritePiece, Return, FlashTypes
<1>5. Accepted'
  BY <1>0 DEF WritePiece, Return, Accepted, InPartition, InFlash, Wraps
<1>6. PartitionContained'
  <2>1. Partition' = Partition
    BY <1>0 DEF Partition
  <2>2. \A i \in 0..(Size - 1) : i \notin Partition => flash[i] = before[i]
    BY <1>0 DEF FlashInv, PartitionContained, FlashTypes
  <2> QED
    BY <1>0, <1>1, <1>3, <2>1, <2>2 DEF PartitionContained
<1>7. EraseInv' /\ EraseClears' /\ WriteStores'
  BY <1>0 DEF WritePiece, Return, EraseInv, EraseClears, WriteStores
<1>8. WriteInv'
  <2> SUFFICES ASSUME pc' = "write", HandledWrite(call) PROVE WriteInv'
    BY <1>0 DEF WriteInv, HandledWrite, Wraps
  <2>1. /\ pos' = pos + PieceLen /\ \A i \in Piece : flash'[i] = WriteBuf(i)
    BY <1>0 DEF WritePiece, Return, DataCheck
  <2>2. /\ pos' <= call.size
        /\ pos' = call.size \/ (Addr + pos') % Page = 0
    BY <1>0, <2>1, PieceHandled
  <2>3. Addr' = Addr
    BY <1>0 DEF Addr
  <2>4. ASSUME NEW i \in 0..(Size - 1)
        PROVE  flash'[i] = IF i \in Addr..(Addr + pos' - 1) THEN <<buf, i - Addr>> ELSE before[i]
    <3>1. CASE i \in Piece
      <4>1. i \in Addr..(Addr + pos' - 1) /\ i < Addr + call.size
        BY <1>1, <1>2, <2>1, <2>2, <3>1 DEF Piece
      <4> QED
        BY <2>1, <3>1, <4>1 DEF WriteBuf
    <3>2. CASE i \notin Piece
      <4>1. i \in Addr..(Addr + pos' - 1) <=> i \in Addr..(Addr + pos - 1)
        BY <1>1, <1>2, <2>1, <3>2 DEF Piece
      <4>2. flash[i] = IF i \in Addr..(Addr + pos - 1) THEN <<buf, i - Addr>> ELSE before[i]
        BY <1>0 DEF FlashInv, WriteInv
      <4> QED
        BY <1>3, <3>2, <4>1, <4>2
    <3> QED
      BY <3>1, <3>2
  <2> QED
    BY <1>0, <2>2, <2>3, <2>4 DEF WriteInv
<1>9. PageInv'
  <2> SUFFICES ASSUME pc' = "write" PROVE PageInv'
    BY DEF PageInv
  <2>1. pos' = pos + PieceLen /\ Addr' = Addr /\ call' = call
    BY <1>0 DEF WritePiece, Return, Addr
  <2>2. pos' >= call.size \/ (Addr + pos') % Page = 0
    BY <1>0, <2>1, PieceOnPage DEF FlashInv
  <2> QED
    BY <2>1, <2>2 DEF PageInv
<1> QED
  BY <1>4, <1>5, <1>6, <1>7, <1>8, <1>9 DEF FlashInv

\* There are no more sectors to erase than there are bytes.
LEMMA SectorsFew ==
  ASSUME FlashTypes, call.size >= 1
  PROVE  SectorNum \in 0..call.size
<1>1. /\ call.size \in Nat \ {0} /\ Sector \in Nat \ {0} /\ Words \in Nat \ {0}
      /\ call.size < Words /\ Sector <= Words
  BY CallFacts
<1>2. PICK x \in Nat : x = call.size + Sector - 1
  BY <1>1
<1>3. PICK y \in 0..(Words - 1) : y = x % Words
  BY <1>1, DivMod
<1>4. y <= x
  <2>1. PICK k \in Nat : k = x \div Words /\ x = Words * k + y
    BY <1>1, <1>3, DivMod
  <2>2. Words * k \in Nat
    BY <1>1, Product
  <2> QED
    BY <2>1, <2>2
<1>5. PICK q \in Nat : q = y \div Sector /\ Sector * q <= y
  <2>1. y \in Nat /\ Sector \in Nat \ {0}
    BY <1>1
  <2>2. /\ y \div Sector \in Nat /\ y % Sector \in 0..(Sector - 1)
        /\ y = Sector * (y \div Sector) + (y % Sector)
    BY <2>1, DivMod, Zenon
  <2>3. Sector * (y \div Sector) \in Nat
    BY <2>1, <2>2, Product
  <2>4. Sector * (y \div Sector) <= y
    BY <2>1, <2>2, <2>3
  <2> QED
    BY <2>2, <2>4
<1>6. ASSUME q > 0 PROVE q <= call.size
  <2>1. PICK i \in Nat : q = i + 1
    BY <1>6
  <2>2. i <= Sector * i /\ Sector * i \in Nat /\ Sector * q = Sector * i + Sector
    BY <1>1, <2>1, Product
  <2> QED
    BY <1>1, <1>2, <1>4, <1>5, <2>1, <2>2
<1>7. SectorNum = q
  BY <1>2, <1>3, <1>5 DEF SectorNum
<1> QED
  BY <1>1, <1>6, <1>7

\* A piece or a sector of a call that wraps: nothing is said of the flash.
LEMMA AstrayFlash ==
  ASSUME FlashInv, WriteAstray \/ EraseAstray
  PROVE  FlashInv'
<1>1. /\ FlashTypes /\ Accepted /\ Wraps(call) /\ pc \in {"write", "erase"} /\ ret = "none"
      /\ UNCHANGED <<op, call, buf, before, faults, calls>>
      /\ Wraps(call') /\ Addr' = Addr /\ SectorNum' = SectorNum
  BY DEF FlashInv, Accepted, WriteAstray, EraseAstray, Wraps, Addr, SectorNum
<1>2. /\ DOMAIN flash' = 0..(Size - 1) /\ \A i \in 0..(Size - 1) : flash'[i] \in Bytes
  BY <1>1 DEF WriteAstray, EraseAstray, Astray, FlashTypes, Bytes
<1>3. SectorNum \in Nat /\ SectorNum < Words
  <2>1. call.size \in Nat /\ call.size < Words /\ Words \in Nat /\ call.size >= 1
    BY <1>1, CallFacts DEF Accepted, InFlash
  <2> QED
    BY <1>1, <2>1, SectorsFew
<1>4. pos' \in 0..(Words - 1)
  <2>1. pos \in 0..(Words - 1) /\ Words \in Nat
    BY <1>1, MhFlashAssumption DEF FlashTypes
  <2>2. CASE WriteAstray
    <3>1. pos + PieceLen \in 0..(Words - 1)
      BY <1>1, <2>2, PieceOnPage DEF WriteAstray, FlashInv
    <3> QED
      BY <2>1, <2>2, <3>1 DEF WriteAstray, Trap
  <2>3. CASE EraseAstray
    <3>1. pos + 1 \in 0..(Words - 1)
      BY <1>3, <2>1, <2>3 DEF EraseAstray
    <3> QED
      BY <2>1, <2>3, <3>1 DEF EraseAstray, Trap
  <2> QED
    BY <2>2, <2>3
<1>5. pc' \in {pc, "idle", "fault"} /\ ret' \in {"none", "error"} /\ (pc' # "idle" => ret' = "none")
  BY <1>1 DEF WriteAstray, EraseAstray, Return, Trap
<1>6. FlashTypes' /\ Accepted'
  BY <1>1, <1>2, <1>4, <1>5 DEF FlashTypes, Accepted, InPartition, InFlash
<1>7. PartitionContained' /\ WriteInv' /\ WriteStores' /\ EraseClears'
  BY <1>1, <1>5
     DEF PartitionContained, WriteInv, WriteStores, EraseClears, HandledWrite, HandledErase
<1>8. PageInv'
  <2> SUFFICES ASSUME pc' = "write" PROVE PageInv'
    BY DEF PageInv
  <2>1. WriteAstray /\ pos' = pos + PieceLen
    BY <1>1, <1>5 DEF WriteAstray, EraseAstray, Return, Trap
  <2>2. pos' >= call.size \/ (Addr + pos') % Page = 0
    BY <1>1, <2>1, PieceOnPage DEF FlashInv, WriteAstray
  <2> QED
    BY <1>1, <2>2 DEF PageInv
<1>9. EraseInv'
  <2> SUFFICES ASSUME pc' = "erase" PROVE EraseInv'
    BY DEF EraseInv
  <2>1. pos < SectorNum /\ pos' = pos + 1 /\ pos \in Nat
    BY <1>1, <1>5, CallFacts DEF WriteAstray, EraseAstray, Return, Trap
  <2> QED
    BY <1>1, <1>3, <2>1 DEF EraseInv
<1> QED
  BY <1>6, <1>7, <1>8, <1>9 DEF FlashInv

\* One step per action.
LEMMA NextFlash == FlashInv /\ [Next]_vars => FlashInv'
<1> SUFFICES ASSUME FlashInv, [Next]_vars PROVE FlashInv'
  OBVIOUS
<1>1. CASE UNCHANGED vars
  BY <1>1 DEF vars, FlashInv, FlashTypes, Accepted, InPartition, InFlash, PartitionContained,
     Partition, PageInv, WriteInv, HandledWrite, WriteStores, EraseInv, EraseClears,
     HandledErase, Area, Addr, FirstSector, SectorNum, Wraps
<1>2. ASSUME NEW q \in WriteCalls, NEW d \in Buffers, WriteBegin(q, d) PROVE FlashInv'
  BY <1>2, BeginFlash, MhFlashAssumption
<1>3. ASSUME NEW q \in EraseCalls, EraseBegin(q) PROVE FlashInv'
  BY <1>3, BeginFlash, MhFlashAssumption
<1> QED
  BY <1>1, <1>2, <1>3, WriteFlash, EraseFlash, AstrayFlash, EndFlash DEF Next, DriverStep

LEMMA FlashInvariant == Spec => []FlashInv
BY InitFlash, NextFlash, PTL DEF Spec

\* The variables keep their types, and for a call that does not wrap no piece of
\* a write and no sector of an erase reaches over the end of the chip.
THEOREM FlashTypeCorrect == Spec => []TypeOK
<1>1. FlashInv => TypeOK
  BY TypesSuffice DEF FlashInv
<1> QED
  BY <1>1, FlashInvariant, PTL

\* Unless the end address of the call wraps, mh_flash_write and mh_flash_erase
\* never change a byte outside the partition FAL was asked to work on, although
\* pages and sectors are larger than what the caller asked for and any operation
\* may fail.
THEOREM PartitionContainedHolds == Spec => []PartitionContained
<1>1. FlashInv => PartitionContained
  BY DEF FlashInv
<1> QED
  BY <1>1, FlashInvariant, PTL

\* A write that begins with a page, or goes on to its end, and returns size has
\* stored the caller's bytes, each in its place, and nothing else.
THEOREM WriteStoresHolds == Spec => []WriteStores
<1>1. FlashInv => WriteStores
  BY DEF FlashInv
<1> QED
  BY <1>1, FlashInvariant, PTL

\* An erase that begins with a sector and returns size has cleared its area.
THEOREM EraseClearsHolds == Spec => []EraseClears
<1>1. FlashInv => EraseClears
  BY DEF FlashInv
<1> QED
  BY <1>1, FlashInvariant, PTL

-----------------------------------------------------------------------------
(* Every call comes to its end: no piece of a write is empty, not even     *)
(* when the rest is a multiple of the page, and the sectors are counted.   *)

\* The turns of the loop that are left at most, and the return.
TurnsLeft ==
  CASE pc = "write" -> IF pos < call.size THEN (call.size - pos) + 1 ELSE 1
    [] pc = "erase" -> (SectorNum - pos) + 1
    [] OTHER        -> 0

LEMMA TurnsType ==
  ASSUME FlashInv
  PROVE  TurnsLeft \in 0..(call.size + 1) /\ (pc \in {"write", "erase"} => TurnsLeft > 0)
<1>1. /\ FlashTypes /\ Accepted /\ pos \in Nat /\ call.size \in Nat
      /\ pc \in {"idle", "write", "erase", "fault"}
  BY CallFacts DEF FlashInv, FlashTypes
<1>2. CASE pc = "erase"
  <2>1. SectorNum \in 0..call.size /\ pos <= SectorNum
    BY <1>1, <1>2, SectorsFew DEF FlashInv, EraseInv, Accepted, InFlash
  <2> QED
    BY <1>1, <1>2, <2>1 DEF TurnsLeft
<1>3. CASE pc # "erase"
  BY <1>1, <1>3 DEF TurnsLeft
<1> QED
  BY <1>2, <1>3

LEMMA FewerTurns == ASSUME FlashInv, DriverStep PROVE TurnsLeft' < TurnsLeft
<1>1. /\ FlashTypes /\ Accepted /\ pos \in Nat /\ call.size \in Nat
      /\ pc \in {"write", "erase"} /\ call' = call
  BY CallFacts DEF FlashInv, FlashTypes, DriverStep, WritePiece, WriteAstray, WriteEnd,
     EraseSector, EraseAstray, EraseEnd
<1>0. TurnsLeft \in Nat /\ TurnsLeft > 0
  BY <1>1, TurnsType
<1>2. CASE pc' \in {"idle", "fault"}
  BY <1>0, <1>2 DEF TurnsLeft
<1>3. CASE pc' \notin {"idle", "fault"}
  <2>1. CASE pc = "write"
    <3>1. pos < call.size /\ pos' = pos + PieceLen /\ pc' = pc
      BY <1>3, <2>1 DEF DriverStep, WritePiece, WriteAstray, WriteEnd, EraseSector, EraseAstray,
         EraseEnd, Return, Trap
    <3>2. PICK n \in Nat \ {0} : n = PieceLen
      BY <1>1, <3>1, PieceNotEmpty
    <3> QED
      BY <1>1, <2>1, <3>1, <3>2 DEF TurnsLeft
  <2>2. CASE pc = "erase"
    <3>1. pos < SectorNum /\ pos' = pos + 1 /\ pc' = pc
      BY <1>3, <2>2 DEF DriverStep, WritePiece, WriteAstray, WriteEnd, EraseSector, EraseAstray,
         EraseEnd, Return, Trap
    <3>2. SectorNum \in Nat /\ SectorNum' = SectorNum
      BY <1>1, <2>2, SectorsFew DEF SectorNum, Accepted, InFlash
    <3> QED
      BY <1>1, <2>2, <3>1, <3>2 DEF TurnsLeft
  <2> QED
    BY <1>1, <2>1, <2>2
<1> QED
  BY <1>2, <1>3

\* Every call of mh_flash_write and mh_flash_erase comes to its end within
\* size + 1 turns, for every chip and every call, whatever the driver below it
\* answers and wherever a call that wraps works.
THEOREM CallBounded ==
  Spec => /\ [](/\ TurnsLeft \in 0..(call.size + 1)
                /\ pc \in {"write", "erase"} => TurnsLeft > 0)
          /\ [][DriverStep => TurnsLeft' < TurnsLeft]_vars
<1>1. FlashInv => /\ TurnsLeft \in 0..(call.size + 1)
                  /\ pc \in {"write", "erase"} => TurnsLeft > 0
  BY TurnsType
<1>2. FlashInv /\ [Next]_vars => [DriverStep => TurnsLeft' < TurnsLeft]_vars
  BY FewerTurns
<1> QED
  BY <1>1, <1>2, FlashInvariant, PTL DEF Spec
=============================================================================
