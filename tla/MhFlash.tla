------------------------------- MODULE MhFlash -------------------------------
(***************************************************************************)
(* The flash driver (board/drv_flash.c: mh_flash_write, mh_flash_erase)    *)
(* under the partitions of FAL (packages/fal-v0.5.0/src/fal_partition.c).  *)
(* A write is cut into pages and read back page by page, an erase is cut   *)
(* into sectors and checked sector by sector.  Addresses and sizes are     *)
(* bytes of a small chip.  A byte of the chip is Erased, holds byte k of   *)
(* the buffer d of some write (<<d, k>>), or is Mixed: anything, because   *)
(* it was programmed over something else, or an operation failed or went   *)
(* astray on it.                                                           *)
(*                                                                         *)
(* Addresses are unsigned machine words.  The checks of FAL and of the     *)
(* driver add an address and a size in a word, so a call whose sum wraps   *)
(* passes them and works on other addresses than those of its partition.   *)
(***************************************************************************)
EXTENDS Naturals, FiniteSets

CONSTANTS
  Words,       \* 2^32: an address or a size is below it
  Base,        \* MH_FLASH_START_ADRESS
  Size,        \* MH_FLASH_SIZE
  Page,        \* X25Q_PAGE_SIZE
  Sector,      \* MH_FLASH_GRANULARITY
  Word,        \* the alignment mh_flash_write asks for
  Parts,       \* the partition table: a set of [off, len]
  Buffers,     \* the buffers passed to fal_partition_write
  WriteCalls,  \* what callers pass to fal_partition_write: a subset of Call
  EraseCalls,  \* what callers pass to fal_partition_erase
  Erased, Mixed,
  Stray,       \* the bytes that follow a caller's buffer in memory
  MaxFaults,   \* bound on failing calls of the QSPI driver
  MaxCalls     \* bound on the calls of FAL

Call == [part : Parts, addr : 0..(Words - 1), size : 0..(Words - 1)]

ASSUME MhFlashAssumption ==
  /\ Word \in Nat \ {0} /\ Page \in Nat \ {0} /\ Page % Word = 0
  /\ Sector \in Nat \ {0} /\ Sector % Page = 0
  /\ Size \in Nat \ {0} /\ Size % Sector = 0
  /\ Base \in Nat /\ Base % Size = 0
  /\ Words \in Nat /\ Words % Size = 0 /\ Base + 2 * Size <= Words
  /\ Parts # {}
  /\ \A p \in Parts : /\ p.off \in 0..Size /\ p.len \in 0..Size
                      /\ p.off + p.len <= Size
                      /\ p.off % Sector = 0 /\ p.len % Sector = 0
  /\ WriteCalls \subseteq Call /\ EraseCalls \subseteq Call
  /\ Cardinality({Erased, Mixed, Stray}) = 3
  /\ Buffers # {}
  /\ MaxFaults \in Nat /\ MaxCalls \in Nat

VARIABLES
  flash,    \* the bytes of the chip
  pc,       \* "idle", "write", "erase"; "fault" when the processor has trapped
  op,       \* "write" or "erase": the call in progress, or the last one
  call,     \* its arguments
  buf,      \* the buffer of the last write
  pos,      \* written_size, or i, the number of sectors erased
  ret,      \* "none" while a call is in progress, then "ok" or "error"
  before,   \* the chip when the call began
  faults,   \* failing calls of the QSPI driver so far
  calls     \* calls of FAL so far

vars == <<flash, pc, op, call, buf, pos, ret, before, faults, calls>>

\* The first address of the call, counted from the beginning of the chip.
Addr == call.part.off + call.addr

Init ==
  /\ flash = [i \in 0..(Size - 1) |-> Erased]
  /\ before = flash
  /\ pc = "idle" /\ ret = "none" /\ op = "erase"
  /\ call = [part |-> CHOOSE p \in Parts : TRUE, addr |-> 0, size |-> 0]
  /\ buf \in Buffers
  /\ pos = 0 /\ faults = 0 /\ calls = 0

\* What fal_partition_write and fal_partition_erase ask for first, and what the
\* driver asks for in both: sums of words.
InPartition(q) == (q.addr + q.size) % Words <= q.part.len
InFlash(q) ==
  /\ (Base + q.part.off + q.addr + q.size) % Words <= Base + Size
  /\ q.size >= 1

\* Calls whose end address is no word, and what a piece of one may work on: the
\* chip takes an address modulo its size, and is left with anything there.
Wraps(q) == q.addr + q.size >= Words

Astray(first, n) ==
  LET cells == {x % Size : x \in first..(first + n - 1)}
  IN  flash' = [i \in DOMAIN flash |-> IF i \in cells THEN Mixed ELSE flash[i]]

\* ... and the processor traps on an access to an address that is no memory: the
\* read-back is of the address itself, and the buffer ends before such a size.
Trap == pc' = "fault" /\ UNCHANGED <<pos, ret>>

Return(r) == pc' = "idle" /\ ret' = r

-----------------------------------------------------------------------------
(* mh_flash_write.                                                         *)

\* Mutant: the bounds of the partition are not looked at.
WriteAccepted_ChipOnly(q) == InFlash(q) /\ (q.part.off + q.addr) % Word = 0

WriteAccepted(q) ==
  /\ InPartition(q)
  /\ (q.part.off + q.addr) % Word = 0
  /\ InFlash(q)

WriteBegin(q, d) ==
  /\ pc = "idle" /\ calls < MaxCalls /\ calls' = calls + 1
  /\ op' = "write" /\ call' = q /\ buf' = d /\ pos' = 0 /\ before' = flash
  /\ IF WriteAccepted(q) THEN pc' = "write" /\ ret' = "none" ELSE Return("error")
  /\ UNCHANGED <<flash, faults>>

\* Mutant: a whole page is not told from an empty rest.
PieceLen_RestOnly ==
  LET mod == (Addr + pos) % Page
  IN  IF mod # 0 THEN Page - mod ELSE (call.size - pos) % Page

\* How many bytes the next FLASH_ProgramPage is given: up to the end of the
\* page for the first piece (first_pages), then whole pages, then num_rest.
PieceLen ==
  LET mod  == (Addr + pos) % Page
      left == call.size - pos
  IN  IF mod # 0 THEN Page - mod
      ELSE IF left >= Page THEN Page ELSE left % Page

Piece == (Addr + pos)..(Addr + pos + PieceLen - 1)

\* write_buf, copied from the caller's buffer and what follows it.
WriteBuf(i) == IF i < Addr + call.size THEN <<buf, i - Addr>> ELSE Stray

\* Programming a byte of NOR flash with FLASH_ProgramPage.
Programmed(old, new) == IF old \in {Erased, new} THEN new ELSE Mixed

\* Mutant: what was programmed is not read back.
DataCheck_None(f) == TRUE

\* data_check of the piece.
DataCheck(f) == \A i \in Piece : f[i] = WriteBuf(i)

WritePiece ==
  /\ pc = "write" /\ ~Wraps(call)
  /\ pos < call.size
  /\ \/ /\ flash' = [i \in DOMAIN flash |->
                       IF i \in Piece THEN Programmed(flash[i], WriteBuf(i)) ELSE flash[i]]
        /\ IF DataCheck(flash')
             THEN pos' = pos + PieceLen /\ UNCHANGED <<pc, ret>>
             ELSE pos' = pos /\ Return("error")
        /\ faults' = faults
     \/ /\ faults < MaxFaults
        /\ faults' = faults + 1
        /\ flash' = [i \in DOMAIN flash |-> IF i \in Piece THEN Mixed ELSE flash[i]]
        /\ pos' = pos /\ Return("error")
  /\ UNCHANGED <<op, call, buf, before, calls>>

WriteAstray ==
  /\ pc = "write" /\ Wraps(call)
  /\ pos < call.size
  /\ Astray(Addr + pos, PieceLen)
  /\ \/ pos' = pos + PieceLen /\ UNCHANGED <<pc, ret>>
     \/ pos' = pos /\ Return("error")
     \/ Trap
  /\ UNCHANGED <<op, call, buf, before, faults, calls>>

WriteEnd ==
  /\ pc = "write"
  /\ pos >= call.size
  /\ Return("ok")
  /\ UNCHANGED <<flash, op, call, buf, pos, before, faults, calls>>

-----------------------------------------------------------------------------
(* mh_flash_erase.                                                         *)

EraseBegin(q) ==
  /\ pc = "idle" /\ calls < MaxCalls /\ calls' = calls + 1
  /\ op' = "erase" /\ call' = q /\ pos' = 0 /\ before' = flash
  /\ IF InPartition(q) /\ InFlash(q)
       THEN pc' = "erase" /\ ret' = "none"
       ELSE Return("error")
  /\ UNCHANGED <<flash, buf, faults>>

\* The first sector is that of addr, their number is that of size.
FirstSector == Sector * (Addr \div Sector)

\* Mutant: only whole sectors are counted.
SectorNum_Down == call.size \div Sector

\* Mutant: one sector too many when size is a multiple.
SectorNum_OneMore == call.size \div Sector + 1

SectorNum == ((call.size + Sector - 1) % Words) \div Sector

SectorArea == LET first == FirstSector + pos * Sector IN first..(first + Sector - 1)

\* FLASH_EraseSector, and erase_check of the sector, succeed or fail.
EraseSector ==
  /\ pc = "erase" /\ ~Wraps(call)
  /\ pos < SectorNum
  /\ \/ /\ flash' = [i \in DOMAIN flash |-> IF i \in SectorArea THEN Erased ELSE flash[i]]
        /\ pos' = pos + 1
        /\ UNCHANGED <<pc, ret, faults>>
     \/ /\ faults < MaxFaults
        /\ faults' = faults + 1
        /\ flash' = [i \in DOMAIN flash |-> IF i \in SectorArea THEN Mixed ELSE flash[i]]
        /\ pos' = pos /\ Return("error")
  /\ UNCHANGED <<op, call, buf, before, calls>>

EraseAstray ==
  /\ pc = "erase" /\ Wraps(call)
  /\ pos < SectorNum
  /\ Astray(FirstSector + pos * Sector, Sector)
  /\ \/ pos' = pos + 1 /\ UNCHANGED <<pc, ret>>
     \/ pos' = pos /\ Return("error")
     \/ Trap
  /\ UNCHANGED <<op, call, buf, before, faults, calls>>

EraseEnd ==
  /\ pc = "erase"
  /\ pos = SectorNum
  /\ Return("ok")
  /\ UNCHANGED <<flash, op, call, buf, pos, before, faults, calls>>

-----------------------------------------------------------------------------
DriverStep == \/ WritePiece \/ WriteAstray \/ WriteEnd
              \/ EraseSector \/ EraseAstray \/ EraseEnd

Next == \/ \E q \in WriteCalls, d \in Buffers : WriteBegin(q, d)
        \/ \E q \in EraseCalls : EraseBegin(q)
        \/ DriverStep

Spec == Init /\ [][Next]_vars

\* A call that has begun goes on to its return.
FairSpec == Spec /\ WF_vars(DriverStep)

-----------------------------------------------------------------------------
(* Properties.                                                             *)

\* What the call is about, and all of its partition.
Area == Addr..(Addr + call.size - 1)
Partition == call.part.off..(call.part.off + call.part.len - 1)

\* Calls the driver carries out as asked: writes that begin with a page, or go
\* on to its end; erases that begin with a sector.  A shorter write inside a
\* page takes the rest of the page from beyond the buffer, and an erase that
\* begins inside a sector may stop one sector early.
HandledWrite(q) ==
  LET mod == (q.part.off + q.addr) % Page
  IN  ~Wraps(q) /\ (mod = 0 \/ q.size >= Page - mod)
HandledErase(q) == ~Wraps(q) /\ (q.part.off + q.addr) % Sector = 0

\* The variables keep their types; unless the end address wraps, no piece or
\* sector reaches over the end of the chip and the processor does not trap.
TypeOK ==
  /\ DOMAIN flash = 0..(Size - 1)
  /\ \A i \in DOMAIN flash :
       flash[i] \in {Erased, Mixed, Stray} \cup (Buffers \X (0..(Size - 1)))
  /\ DOMAIN before = 0..(Size - 1)
  /\ pc \in {"idle", "write", "erase", "fault"} /\ op \in {"write", "erase"}
  /\ ret \in {"none", "ok", "error"}
  /\ call \in Call /\ buf \in Buffers
  /\ pos \in 0..(Words - 1) /\ faults \in 0..MaxFaults
  /\ calls \in 0..MaxCalls
  /\ ~Wraps(call) =>
       /\ pc # "fault"
       /\ pc = "write" /\ pos < call.size => Piece \subseteq DOMAIN flash
       /\ pc = "erase" /\ pos < SectorNum => SectorArea \subseteq DOMAIN flash

\* When mh_flash_write returns size, the area holds the caller's bytes, each in
\* its place, and no byte around it has changed.
WriteStores ==
  op = "write" /\ ret = "ok" /\ HandledWrite(call) =>
    \A i \in DOMAIN flash :
      flash[i] = IF i \in Area THEN <<buf, i - Addr>> ELSE before[i]

\* When mh_flash_erase returns size, the whole area is erased.
EraseClears ==
  op = "erase" /\ ret = "ok" /\ HandledErase(call) => \A i \in Area : flash[i] = Erased

\* No call whose end address is a word, even one that fails half way, changes a
\* byte outside its partition, although pieces and sectors are larger than what
\* the caller asked for.
PartitionContained ==
  ~Wraps(call) => \A i \in DOMAIN flash \ Partition : flash[i] = before[i]

\* Every call returns, or it is one that wraps and the processor traps.
Returns == pc # "idle" ~> pc = "idle" \/ (pc = "fault" /\ Wraps(call))
=============================================================================
