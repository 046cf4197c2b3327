--------------------------- MODULE FotaBootProofs ---------------------------
(***************************************************************************)
(* Theorems about FotaBoot, for every partition table, every set of        *)
(* packages and any number of power cuts and failing operations.           *)
(***************************************************************************)
EXTENDS FotaBoot, TLAPS

\* Where fota_part_head is the head of a verified package.
HeadPC == {"check", "erase", "prepare", "copy", "vererase"}

\* fota_part_head still describes what is in the download partition (or in
\* df_area), as long as it is used.
HeadInv ==
  /\ pc \in HeadPC \cup {"own"} => head # None /\ Pkg[head.img].target \in Targets \cup Reserved
  /\ pc \in HeadPC \ {"check"} => Pkg[head.img].target \in Targets
  /\ pc \in HeadPC /\ src = "download" => FwVerified(head.img) /\ head.cur = curver
  /\ pc \in HeadPC \ {"check"} /\ src = "download" => Pkg[head.img].ver # curver
  /\ pc \in HeadPC /\ src = "df_area" => head.img = df
  /\ pc \in {"verify", "check", "vererase", "own"} => src = "download"

\* The session writes inside the area it has erased, inside the partition.
SessionInv ==
  /\ pc = "dlerase" => k < Pkg[pkg].sectors
  /\ pc = "dlwrite" => k <= Pkg[pkg].sectors
  /\ pc \in {"dlerase", "dlwrite"} => Pkg[pkg].sectors <= DlLen

TypeInv == TypeOK /\ HeadInv /\ SessionInv

MemType(f) ==
  /\ f = [t \in Targets |-> f[t]]
  /\ \A t \in Targets : f[t] \in [1..PartLen[t] -> Cell]

\* At most the sector the upgrade has come to is erased, programmed or torn.
SectorStep == mem' = mem \/ \E v \in Cell : mem' = [mem EXCEPT ![target][k + 1] = v]

\* Such a step of rt_fota_upgrade keeps every sector of every partition a cell.
LEMMA SectorType ==
  ASSUME MemType(mem), SectorStep
  PROVE  MemType(mem')
<1>1. CASE mem' = mem
  BY <1>1 DEF MemType
<1>2. ASSUME NEW v \in Cell, mem' = [mem EXCEPT ![target][k + 1] = v]
      PROVE  MemType(mem')
  <2>1. DOMAIN mem = Targets
    BY DEF MemType
  <2>2. mem' = [t \in Targets |-> mem'[t]]
    BY <1>2, <2>1
  <2>3. ASSUME NEW t \in Targets PROVE mem'[t] \in [1..PartLen[t] -> Cell]
    <3>1. mem[t] \in [1..PartLen[t] -> Cell]
      BY DEF MemType
    <3>2. CASE t = target
      BY <1>2, <2>1, <3>1, <3>2
    <3>3. CASE t # target
      BY <1>2, <2>1, <3>1, <3>3
    <3> QED
      BY <3>2, <3>3
  <2> QED
    BY <2>2, <2>3 DEF MemType
<1> QED
  BY <1>1, <1>2 DEF SectorStep

\* What a sector may hold.
LEMMA CellFacts == Blank \in Cell /\ Torn \in Cell /\ Images \subseteq Cell
BY DEF Cell

\* A sector of the download partition is erased, programmed or torn.
LEMMA DlType ==
  ASSUME dl \in [1..DlLen -> Cell], NEW i0, NEW v \in Cell,
         dl' = [dl EXCEPT ![i0] = v]
  PROVE  dl' \in [1..DlLen -> Cell]
OBVIOUS

\* A filled fota_part_head is the head of a package.
LEMMA HeadType ==
  ASSUME TypeOK, head # None
  PROVE  /\ head \in [img : Images, cur : Versions]
         /\ head.img \in Images /\ head.cur \in Versions
BY DEF TypeOK

\* The fields of a package head have their types.
LEMMA PkgType ==
  ASSUME NEW m \in Images
  PROVE  /\ Pkg[m].ver \in Versions /\ Pkg[m].cur \in Versions
         /\ Pkg[m].target \in Targets \cup Reserved \cup {None}
         /\ Pkg[m].com \in Nat /\ Pkg[m].sectors \in Nat \ {0}
         /\ Pkg[m].raw \in Nat /\ Pkg[m].yield \in Nat
         /\ Pkg[m].algo \in Algos
BY FotaAssumption DEF PackageHead

\* No target partition is empty.
LEMMA PartType == \A t \in Targets \cup Reserved : PartLen[t] \in Nat \ {0}
BY FotaAssumption

\* A loop over sectors that moves by at most one stays within its bound.
LEMMA LoopBound ==
  ASSUME NEW i \in Nat, NEW n \in Nat, i < n, NEW j \in {i, i + 1}
  PROVE  j \in Nat /\ j <= n
OBVIOUS

\* A call that fails uses up one of the faults that are left.
LEMMA FaultCount ==
  ASSUME faults \in 0..MaxFaults,
         faults' = faults \/ (faults < MaxFaults /\ faults' = faults + 1)
  PROVE  faults' \in 0..MaxFaults
BY FotaAssumption

\* The board as it leaves the factory.
LEMMA InitTypeInv == Init => TypeInv
<1> SUFFICES ASSUME Init PROVE TypeInv
  OBVIOUS
<1>1. mem = [t \in Targets |-> mem[t]]
  BY DEF Init
<1>2. ASSUME NEW t \in Targets PROVE mem[t] \in [1..PartLen[t] -> Cell]
  BY FotaAssumption, CellFacts DEF Init
<1>3. dl \in [1..DlLen -> Cell]
  BY CellFacts DEF Init
<1> QED
  BY <1>1, <1>2, <1>3, CellFacts, FotaAssumption
  DEF Init, TypeInv, TypeOK, HeadInv, SessionInv, HeadPC, BootPC, AppPC

\* One step per action.  The flash parts of TypeOK need the sector lemmas; the
\* rest is read off the assignments of each action.
LEMMA NextTypeInv == TypeInv /\ [Next]_vars => TypeInv'
<1> SUFFICES ASSUME TypeInv, [Next]_vars PROVE TypeInv'
  OBVIOUS
<1> USE DEF TypeInv, TypeOK, HeadInv, SessionInv, HeadPC, BootPC, AppPC, flashVars, ramVars,
            FwVerified, DlHolds, Readable, target, raw
<1>0. CASE UNCHANGED vars
  BY <1>0 DEF vars
<1>1. CASE rt_fota_boot_verify
  BY <1>1 DEF rt_fota_boot_verify
<1>2. CASE VerifyOk
  <2>1. PICK m \in Images : FwVerified(m) /\ head' = [img |-> m, cur |-> curver]
    BY <1>2 DEF VerifyOk
  <2>2. /\ head' \in [img : Images, cur : Versions] /\ head' # None
        /\ head'.img = m /\ head'.cur = curver
    BY <2>1, FotaAssumption
  <2>3. dl' = dl /\ curver' = curver
    BY <1>2 DEF VerifyOk
  <2>4. HeadInv'
    BY <1>2, <2>1, <2>2, <2>3 DEF VerifyOk
  <2> QED
    BY <1>2, <2>2, <2>4 DEF VerifyOk
<1>3. CASE VerifyFail
  BY <1>3, FotaAssumption DEF VerifyFail
<1>4. CASE rt_fota_check_upgrade
  BY <1>4, HeadType, PkgType, PartType DEF rt_fota_check_upgrade
<1>5. CASE EraseRefused
  BY <1>5 DEF EraseRefused, UpgradeFailed
<1>6. CASE EraseSector
  <2>1. k \in Nat /\ raw \in Nat /\ PartLen[target] \in Nat
    BY <1>6, HeadType, PkgType, PartType DEF EraseSector
  <2>2. MemType(mem')
    <3>1. SectorStep
      BY <1>6, CellFacts DEF EraseSector, FaultAt, SectorStep
    <3>2. MemType(mem)
      BY DEF MemType
    <3> QED
      BY <3>1, <3>2, SectorType
  <2>3. k' \in Nat /\ k' <= PartLen[target] /\ faults' \in 0..MaxFaults
    <3>1. k < raw /\ raw <= PartLen[target] /\ k' \in {k, k + 1}
      BY <1>6 DEF EraseSector
    <3>2. faults' = faults \/ (faults < MaxFaults /\ faults' = faults + 1)
      BY <1>6 DEF EraseSector, FaultAt
    <3>3. k < PartLen[target]
      BY <2>1, <3>1
    <3>4. faults' \in 0..MaxFaults
      BY <3>2, FaultCount
    <3> QED
      BY ONLY <2>1, <3>1, <3>3, <3>4, LoopBound
  <2> QED
    BY <1>6, <2>2, <2>3 DEF EraseSector, UpgradeFailed, MemType
<1>7. CASE EraseDone
  BY <1>7 DEF EraseDone
<1>8. CASE PrepareCopy
  BY <1>8, PartType, FotaAssumption DEF PrepareCopy, UpgradeFailed
<1>9. CASE CopyBlock
  <2>1. k \in Nat /\ PartLen[target] \in Nat /\ head.img \in Cell
    BY <1>9, HeadType, CellFacts, PartType DEF CopyBlock
  <2>2. MemType(mem')
    <3>1. SectorStep
      BY <1>9, <2>1, CellFacts DEF CopyBlock, FaultAt, SectorStep
    <3>2. MemType(mem)
      BY DEF MemType
    <3> QED
      BY <3>1, <3>2, SectorType
  <2>3. k' \in Nat /\ k' <= PartLen[target] /\ faults' \in 0..MaxFaults
    <3>1. k + 1 <= PartLen[target] /\ k' \in {k, k + 1}
      BY <1>9 DEF CopyBlock
    <3>2. faults' = faults \/ (faults < MaxFaults /\ faults' = faults + 1)
      BY <1>9 DEF CopyBlock, FaultAt
    <3>3. k < PartLen[target]
      BY <2>1, <3>1
    <3>4. faults' \in 0..MaxFaults
      BY <3>2, FaultCount
    <3> QED
      BY ONLY <2>1, <3>1, <3>3, <3>4, LoopBound
  <2> QED
    BY <1>9, <2>2, <2>3 DEF CopyBlock, UpgradeFailed, MemType
<1>10. CASE CopyDone
  BY <1>10 DEF CopyDone, UpgradeFailed
<1>11. CASE VersionErase
  <2>0. dl[1] \in Cell
    BY FotaAssumption
  <2>1. dl' \in [1..DlLen -> Cell]
    BY <1>11, CellFacts DEF VersionErase
  <2>2. faults' \in 0..MaxFaults /\ cache' \in Cell
    BY <1>11, <2>0, FotaAssumption DEF VersionErase
  <2> QED
    BY <1>11, <2>1, <2>2 DEF VersionErase
<1>12. CASE VersionWrite
  <2>1. dl' \in [1..DlLen -> Cell]
    BY <1>12, DlType, CellFacts DEF VersionWrite
  <2>2. faults' \in 0..MaxFaults /\ curver' \in Versions
    BY <1>12, PkgType, FotaAssumption DEF VersionWrite
  <2> QED
    BY <1>12, <2>1, <2>2 DEF VersionWrite
<1>13. CASE Jump
  BY <1>13 DEF Jump
<1>14. CASE JumpRefused
  BY <1>14 DEF JumpRefused
<1>15. CASE DefaultPackage
  BY <1>15, FotaAssumption, PkgType, PartType DEF DefaultPackage, DefaultVerified
<1>16. ASSUME NEW m \in Images, DownloadBegin(m) PROVE TypeInv'
  BY <1>16, FotaAssumption, PkgType DEF DownloadBegin
<1>17. CASE DownloadErase
  <2>1. pkg \in Images /\ Pkg[pkg].sectors \in Nat
    BY <1>17, PkgType DEF DownloadErase
  <2>2. dl' \in [1..DlLen -> Cell]
    BY <1>17, DlType, CellFacts DEF DownloadErase
  <2> QED
    BY <1>17, <2>1, <2>2, FotaAssumption, SMTT(30) DEF DownloadErase
<1>18. CASE DownloadWrite
  <2>1. pkg \in Images /\ Pkg[pkg].sectors \in Nat /\ Pkg[pkg].cur \in Versions
    BY <1>18, PkgType DEF DownloadWrite
  <2>2. dl' \in [1..DlLen -> Cell] /\ curver' \in Versions
    BY <1>18, <2>1, DlType, CellFacts DEF DownloadWrite
  <2> QED
    BY <1>18, <2>1, <2>2, FotaAssumption DEF DownloadWrite
<1>19. CASE DownloadEnd
  BY <1>19 DEF DownloadEnd
<1>20. CASE Reboot
  BY <1>20 DEF Reboot
<1>21. CASE PowerCut
  <2>1. MemType(mem')
    <3>1. SectorStep
      BY <1>21, CellFacts DEF PowerCut, SectorStep
    <3>2. MemType(mem)
      BY DEF MemType
    <3> QED
      BY <3>1, <3>2, SectorType
  <2>2. dl' \in [1..DlLen -> Cell] /\ curver' = curver
    BY <1>21, DlType, CellFacts DEF PowerCut
  <2> QED
    BY <1>21, <2>1, <2>2, FotaAssumption, SMTT(30) DEF PowerCut, MemType
<1>22. CASE PowerCycleHalted
  BY <1>22, FotaAssumption DEF PowerCycleHalted
<1>23. CASE CopyTraps
  BY <1>23 DEF CopyTraps
<1>24. CASE OwnRefused \/ OwnProgram
  BY <1>24 DEF OwnRefused, OwnProgram, UpgradeFailed
<1>25. CASE OwnErase
  <2>1. k \in Nat /\ raw \in Nat /\ k < raw /\ raw <= PartLen[target]
        /\ PartLen[target] \in Nat /\ k' \in {k, k + 1}
    BY <1>25, HeadType, PkgType, PartType DEF OwnErase
  <2>2. k' \in Nat /\ k' <= PartLen[target]
    BY ONLY <2>1
  <2>3. dl' \in [1..DlLen -> Cell]
    BY <1>25, DlType, CellFacts DEF OwnErase
  <2>4. faults' \in 0..MaxFaults
    BY <1>25, FaultCount DEF OwnErase
  <2> QED
    BY <1>25, <2>2, <2>3, <2>4 DEF OwnErase, UpgradeFailed
<1>26. CASE OwnCopy
  <2>1. dl' \in [1..DlLen -> Cell]
    BY <1>26, CellFacts DEF OwnCopy
  <2> QED
    BY <1>26, <2>1 DEF OwnCopy
<1> QED
  BY <1>0, <1>1, <1>2, <1>3, <1>4, <1>5, <1>6, <1>7, <1>8, <1>9, <1>10, <1>11,
     <1>12, <1>13, <1>14, <1>15, <1>16, <1>17, <1>18, <1>19, <1>20, <1>21, <1>22,
     <1>23, <1>24, <1>25, <1>26
  DEF Next, BootStep, AppStep, rt_fota_upgrade, OwnUpgrade, rt_fota_copy_version,
      rt_fota_start_application

\* The strengthened type invariant holds at every instant.
LEMMA TypeInvariant == Spec => []TypeInv
BY InitTypeInv, NextTypeInv, PTL DEF Spec

\* rt_fota_thread_entry and the download session keep every sector, head and
\* loop counter in its type, whatever power cuts and failures there are.
THEOREM TypeCorrect == Spec => []TypeOK
<1>1. TypeInv => TypeOK
  BY DEF TypeInv
<1> QED
  BY <1>1, TypeInvariant, PTL

-----------------------------------------------------------------------------
(* Who touches the partitions.                                             *)

\* Only rt_fota_erase_app_part and rt_fota_write_app_part, or a power cut in
\* the middle of them, change a target partition.
LEMMA MemChange ==
  ASSUME TypeInv, [Next]_vars, mem' # mem
  PROVE  pc \in {"erase", "copy"} /\ SectorStep
<1> USE DEF flashVars, ramVars
<1>1. CASE EraseSector
  BY <1>1, CellFacts DEF EraseSector, FaultAt, SectorStep
<1>2. CASE CopyBlock
  <2>1. head.img \in Cell
    BY <1>2, HeadType, CellFacts DEF TypeInv, TypeOK, CopyBlock
  <2> QED
    BY <1>2, <2>1, CellFacts DEF CopyBlock, FaultAt, SectorStep
<1>3. CASE PowerCut
  BY <1>3, CellFacts DEF PowerCut, SectorStep
<1>4. CASE UNCHANGED vars
  BY <1>4 DEF vars
<1>5. CASE \/ rt_fota_boot_verify \/ VerifyOk \/ VerifyFail \/ rt_fota_check_upgrade
           \/ EraseRefused \/ EraseDone \/ PrepareCopy \/ CopyDone \/ CopyTraps
           \/ OwnUpgrade
  BY <1>5 DEF OwnUpgrade, OwnRefused, OwnProgram, OwnErase, OwnCopy, CopyTraps, rt_fota_boot_verify, VerifyOk, VerifyFail, rt_fota_check_upgrade,
              EraseRefused, EraseDone, PrepareCopy, CopyDone
<1>6. CASE \/ VersionErase \/ VersionWrite \/ Jump \/ JumpRefused \/ DefaultPackage
           \/ PowerCycleHalted
  BY <1>6 DEF VersionErase, VersionWrite, Jump, JumpRefused, DefaultPackage,
              PowerCycleHalted
<1>7. CASE AppStep
  BY <1>7 DEF AppStep, DownloadBegin, DownloadErase, DownloadWrite, DownloadEnd,
              Reboot
<1> QED
  BY <1>1, <1>2, <1>3, <1>4, <1>5, <1>6, <1>7
  DEF Next, BootStep, rt_fota_upgrade, rt_fota_copy_version,
      rt_fota_start_application

\* An upgrade step leaves all partitions but its target alone.
LEMMA OtherPartitions ==
  ASSUME TypeInv, SectorStep, NEW t \in Targets, t # target
  PROVE  mem'[t] = mem[t]
BY DEF TypeInv, TypeOK, SectorStep

\* What the partition in work holds after one sector of it has been set to v.
LEMMA SectorAfter ==
  ASSUME TypeInv, target \in Targets, k + 1 \in 1..PartLen[target], NEW v,
         mem' = [mem EXCEPT ![target][k + 1] = v]
  PROVE  /\ mem'[target][k + 1] = v
         /\ \A i \in 1..PartLen[target] : i # k + 1 => mem'[target][i] = mem[target][i]
<1>1. mem = [t \in Targets |-> mem[t]] /\ mem[target] \in [1..PartLen[target] -> Cell]
  BY DEF TypeInv, TypeOK
<1>2. mem'[target] = [mem[target] EXCEPT ![k + 1] = v]
  BY <1>1
<1> QED
  BY <1>1, <1>2

\* A target partition changes only for the package that is verified and not
\* yet marked as installed at that very moment, or for the default package:
\* with any failures and power cuts, a rejected download costs nothing.
THEOREM TouchedOnlyForVerifiedHolds == Spec => TouchedOnlyForVerified
<1> DEFINE Touched ==
      mem' # mem =>
        /\ head # None
        /\ \A t \in Targets : t # Pkg[head.img].target => mem'[t] = mem[t]
        /\ src = "download" => /\ FwVerified(head.img)
                               /\ Pkg[head.img].ver # curver
        /\ src = "df_area" => head.img = df
<1>1. TypeInv /\ [Next]_vars => [Touched]_vars
  <2> SUFFICES ASSUME TypeInv, [Next]_vars, mem' # mem PROVE Touched
    OBVIOUS
  <2>1. pc \in {"erase", "copy"} /\ SectorStep
    BY MemChange
  <2>2. /\ head # None
        /\ src = "download" => FwVerified(head.img) /\ Pkg[head.img].ver # curver
        /\ src = "df_area" => head.img = df
    BY <2>1 DEF TypeInv, HeadInv, HeadPC
  <2>3. \A t \in Targets : t # Pkg[head.img].target => mem'[t] = mem[t]
    BY <2>1, OtherPartitions DEF target
  <2> QED
    BY <2>2, <2>3
<1>2. Spec => [][Touched]_vars
  BY <1>1, TypeInvariant, PTL DEF Spec
<1> QED
  BY <1>2 DEF TouchedOnlyForVerified

-----------------------------------------------------------------------------
(* The boot thread comes to an end.  Its loops are over sectors, and the   *)
(* default package is tried once: every step brings the jump, or the halt, *)
(* nearer, when no partition is longer than L sectors.                     *)

Partitions == Targets \cup Reserved

\* Steps that rt_fota_upgrade and rt_fota_start_application have left for the
\* package in src.
TurnsLeft(L) ==
  CASE pc = "erase"    -> (2 * L + 6) - k
    [] pc = "prepare"  -> L + 5
    [] pc = "copy"     -> (L + 4) - k
    [] pc = "own"      -> (L + 2) - k
    [] pc = "vererase" -> 3
    [] pc = "verwrite" -> 2
    [] OTHER           -> 1

StepsLeft(L) ==
  CASE pc = "off"      -> 4 * L + 16
    [] pc = "verify"   -> 4 * L + 15
    [] pc = "check"    -> 4 * L + 14
    [] pc = "dfverify" -> 2 * L + 7
    [] pc \in {"erase", "prepare", "copy", "own", "vererase", "verwrite", "start"} ->
         TurnsLeft(L) + (IF src = "download" THEN 2 * L + 7 ELSE 0)
    [] OTHER           -> 0

\* What the loops have left, as numbers.
LEMMA LoopLeft ==
  ASSUME TypeInv, NEW L \in Nat, \A t \in Partitions : PartLen[t] <= L,
         pc \in {"erase", "prepare", "copy", "own"}
  PROVE  k \in Nat /\ k <= PartLen[target] /\ PartLen[target] <= L /\ PartLen[target] \in Nat
<1>1. target \in Partitions /\ k \in Nat /\ k <= PartLen[target]
  BY DEF TypeInv, TypeOK, HeadInv, HeadPC, target, Partitions
<1> QED
  BY <1>1, PartType DEF Partitions

LEMMA StepsType ==
  ASSUME TypeInv, NEW L \in Nat, \A t \in Partitions : PartLen[t] <= L
  PROVE  /\ TurnsLeft(L) \in 1..(2 * L + 6)
         /\ StepsLeft(L) \in 0..(4 * L + 16)
<1>1. k \in Nat /\ (pc \in {"erase", "copy", "own"} => k <= L)
  <2>1. k \in Nat
    BY DEF TypeInv, TypeOK
  <2>2. ASSUME pc \in {"erase", "copy", "own"} PROVE k <= L
    BY <2>1, <2>2, LoopLeft
  <2> QED
    BY <2>1, <2>2
<1>2. TurnsLeft(L) \in 1..(2 * L + 6)
  BY <1>1 DEF TurnsLeft
<1> QED
  BY <1>2 DEF StepsLeft

LEMMA StepsFewer ==
  ASSUME TypeInv, BootStep, NEW L \in Nat, \A t \in Partitions : PartLen[t] <= L
  PROVE  StepsLeft(L)' < StepsLeft(L)
<1> DEFINE more == IF src = "download" THEN 2 * L + 7 ELSE 0
<1>0. more \in Nat /\ k \in Nat
  BY DEF TypeInv, TypeOK
<1>1. CASE rt_fota_boot_verify
  BY <1>1 DEF rt_fota_boot_verify, StepsLeft
<1>2. CASE VerifyOk
  BY <1>2 DEF VerifyOk, StepsLeft
<1>3. CASE VerifyFail
  <2>1. pc = "verify" /\ pc' = "start" /\ src = "download" /\ src' = src
    BY <1>3 DEF VerifyFail, TypeInv, HeadInv
  <2> QED
    BY <2>1 DEF StepsLeft, TurnsLeft
<1>4. CASE rt_fota_check_upgrade
  <2>1. pc = "check" /\ pc' \in {"erase", "own", "start"} /\ k' = 0 /\ src = "download" /\ src' = src
    BY <1>4 DEF rt_fota_check_upgrade, TypeInv, HeadInv
  <2> QED
    BY <2>1 DEF StepsLeft, TurnsLeft
\* An upgrade that fails is over, or has only the jump left.
<1>5. ASSUME pc \in {"erase", "prepare", "copy", "own"}, UpgradeFailed, src' = src
      PROVE  StepsLeft(L)' < StepsLeft(L)
  <2>1. CASE src = "download"
    BY <1>0, <1>5, <2>1, LoopLeft DEF UpgradeFailed, StepsLeft, TurnsLeft
  <2>2. CASE src # "download"
    BY <1>0, <1>5, <2>2, LoopLeft DEF UpgradeFailed, StepsLeft, TurnsLeft
  <2> QED
    BY <2>1, <2>2
\* A turn of a loop.
<1>6. ASSUME pc \in {"erase", "copy", "own"}, pc' = pc, k' = k + 1, k < L, src' = src
      PROVE  StepsLeft(L)' < StepsLeft(L)
  BY <1>0, <1>6 DEF StepsLeft, TurnsLeft
<1>7. CASE EraseRefused
  BY <1>5, <1>7 DEF EraseRefused, ramVars
<1>8. CASE EraseSector
  <2>1. k < L
    BY <1>0, <1>8, LoopLeft DEF EraseSector
  <2> QED
    BY <1>5, <1>6, <1>8, <2>1 DEF EraseSector
<1>9. CASE EraseDone
  <2>1. pc = "erase" /\ pc' = "prepare" /\ src' = src /\ k <= L
    BY <1>0, <1>9, LoopLeft DEF EraseDone, ramVars
  <2> QED
    BY <1>0, <2>1 DEF StepsLeft, TurnsLeft
<1>10. CASE PrepareCopy
  <2>1. CASE UpgradeFailed
    BY <1>5, <1>10, <2>1 DEF PrepareCopy
  <2>2. CASE pc' = "copy" /\ k' = 0
    BY <1>0, <1>10, <2>2 DEF PrepareCopy, StepsLeft, TurnsLeft
  <2> QED
    BY <1>10, <2>1, <2>2 DEF PrepareCopy
<1>11. CASE CopyBlock
  <2>1. k < L
    BY <1>0, <1>11, LoopLeft DEF CopyBlock
  <2> QED
    BY <1>5, <1>6, <1>11, <2>1 DEF CopyBlock
<1>12. CASE CopyDone
  <2>1. CASE UpgradeFailed
    BY <1>5, <1>12, <2>1 DEF CopyDone, ramVars
  <2>2. CASE pc' = IF src = "download" THEN "vererase" ELSE "start"
    <3>1. pc = "copy" /\ src' = src /\ k <= L
      BY <1>0, <1>12, LoopLeft DEF CopyDone, ramVars
    <3> QED
      BY <1>0, <2>2, <3>1 DEF StepsLeft, TurnsLeft
  <2> QED
    BY <1>12, <2>1, <2>2 DEF CopyDone
<1>13. CASE VersionErase
  BY <1>13 DEF VersionErase, StepsLeft, TurnsLeft
<1>14. CASE VersionWrite
  BY <1>14 DEF VersionWrite, StepsLeft, TurnsLeft
<1>15. CASE Jump
  BY <1>15 DEF Jump, StepsLeft, TurnsLeft
<1>16. CASE JumpRefused
  BY <1>16 DEF JumpRefused, StepsLeft, TurnsLeft
<1>17. CASE DefaultPackage
  BY <1>17 DEF DefaultPackage, StepsLeft, TurnsLeft
\* A fault is the end of the thread.
<1>18. ASSUME pc \in {"copy", "own"}, pc' \in {"halt", "dead"}
       PROVE  StepsLeft(L)' < StepsLeft(L)
  <2>1. StepsLeft(L)' = 0
    BY <1>18 DEF StepsLeft
  <2>2. TurnsLeft(L) \in 1..(2 * L + 6)
    BY StepsType
  <2>3. StepsLeft(L) = TurnsLeft(L) + more
    BY <1>18 DEF StepsLeft
  <2> QED
    BY ONLY <1>0, <2>1, <2>2, <2>3
<1>19. CASE CopyTraps \/ OwnProgram
  BY <1>18, <1>19 DEF CopyTraps, OwnProgram
<1>20. CASE OwnRefused
  BY <1>5, <1>20 DEF OwnRefused, ramVars
<1>21. CASE OwnErase
  <2>1. k < L
    BY <1>0, <1>21, LoopLeft DEF OwnErase
  <2> QED
    BY <1>5, <1>6, <1>21, <2>1 DEF OwnErase
<1>22. CASE OwnCopy
  <2>1. CASE pc' = "halt"
    BY <1>18, <1>22, <2>1 DEF OwnCopy
  <2>2. CASE pc' = "start"
    <3>1. pc = "own" /\ src' = src /\ k <= L
      BY <1>0, <1>22, LoopLeft DEF OwnCopy, ramVars
    <3> QED
      BY <1>0, <2>2, <3>1 DEF StepsLeft, TurnsLeft
  <2> QED
    BY <1>22, <2>1, <2>2 DEF OwnCopy
<1> QED
  BY <1>1, <1>2, <1>3, <1>4, <1>7, <1>8, <1>9, <1>10, <1>11, <1>12, <1>13, <1>14, <1>15,
     <1>16, <1>17, <1>19, <1>20, <1>21, <1>22
  DEF BootStep, rt_fota_upgrade, OwnUpgrade, rt_fota_copy_version, rt_fota_start_application

\* From power-up to the jump or the halt rt_fota_thread_entry takes at most
\* 4 * L + 16 steps, whatever the partitions hold and whatever fails: two
\* upgrades, each of which erases and writes at most L sectors.  There is no way
\* back from the default package to the download.
THEOREM BootPassBounded ==
  ASSUME NEW CONSTANT L \in Nat, \A t \in Partitions : PartLen[t] <= L
  PROVE  Spec => /\ [](StepsLeft(L) \in 0..(4 * L + 16))
                 /\ [][BootStep => StepsLeft(L)' < StepsLeft(L)]_vars
<1>1. TypeInv => StepsLeft(L) \in 0..(4 * L + 16)
  BY StepsType
<1>2. TypeInv /\ [Next]_vars => [BootStep => StepsLeft(L)' < StepsLeft(L)]_vars
  BY StepsFewer
<1> QED
  BY <1>1, <1>2, TypeInvariant, PTL DEF Spec

-----------------------------------------------------------------------------
(* Power cuts.  No flash operation or allocation fails, and every package  *)
(* is one the bootloader can carry through; both are statements about the  *)
(* constants.                                                              *)

Reliable == MaxFaults = 0 /\ \A m \in Images : WellFormed(m)

\* How far the erase and the copy have come.
ProgressInv ==
  /\ pc = "erase" /\ raw \in 1..PartLen[target] =>
       k <= raw /\ \A i \in 1..k : mem[target][i] = Blank
  /\ pc \in {"prepare", "copy"} => raw \in 1..PartLen[target]
  /\ pc = "prepare" => \A i \in 1..raw : mem[target][i] = Blank
  /\ pc = "copy" => /\ k <= raw
                    /\ \A i \in 1..k : mem[target][i] = head.img
                    /\ \A i \in 1..raw : i > k => mem[target][i] = Blank

\* When the application partition must be whole.
WholePC == {"vererase", "verwrite", "start"} \cup AppPC

CrashInv ==
  /\ src = "download" /\ pc \notin {"dfverify", "halt", "own", "dead"}
  /\ pc \in WholePC => AppWhole
  /\ Recoverable
  /\ ProgressInv

\* The head of the download partition names the one package that can be
\* waiting, and rt_fota_upgrade is at work on that one.
LEMMA WaitingIsHead ==
  ASSUME TypeInv, CrashInv, pc \in HeadPC
  PROVE  AppWhole \/ WillInstall(head.img)
BY DEF TypeInv, HeadInv, CrashInv, Recoverable, WillInstall, FwVerified

\* A package for another partition leaves the application alone.
LEMMA OtherTarget ==
  ASSUME TypeInv, SectorStep, target # "app"
  PROVE  AppWhole => AppWhole'
<1>1. mem'["app"] = mem["app"]
  BY OtherPartitions, FotaAssumption
<1> QED
  BY <1>1 DEF AppWhole, Installed

\* What is waiting in the download partition keeps waiting.
LEMMA StillWaiting ==
  ASSUME UNCHANGED <<dl, curver>>, NEW m, WillInstall(m)
  PROVE  WillInstall(m)'
BY DEF WillInstall, FwVerified, DlHolds, Readable

\* The board leaves the factory with a whole application.
LEMMA InitCrashInv == Init => CrashInv
<1> SUFFICES ASSUME Init PROVE CrashInv
  OBVIOUS
<1>1. Installed("app", Initial)
  BY FotaAssumption, PartType DEF Init, Installed
<1>2. AppWhole
  BY <1>1, FotaAssumption DEF AppWhole
<1> QED
  BY <1>2 DEF Init, CrashInv, Recoverable, ProgressInv

\* An upgrade step that leaves the flash of the download partition alone
\* leaves a whole application or the package that replaces it.
LEMMA SectorRecoverable ==
  ASSUME TypeInv, CrashInv, SectorStep, pc \in {"erase", "copy"},
         raw \in 1..PartLen[target], UNCHANGED <<dl, curver>>
  PROVE  Recoverable'
<1>1. CASE AppWhole /\ target # "app"
  BY <1>1, OtherTarget DEF Recoverable
<1>2. CASE AppWhole /\ target = "app"
  <2>1. WillInstall(head.img)
    BY <1>2 DEF CrashInv, TypeInv, HeadInv, HeadPC, WillInstall, target, raw
  <2> QED
    BY <2>1, StillWaiting, HeadType DEF Recoverable, TypeInv, HeadInv, HeadPC
<1>3. CASE ~AppWhole
  <2>1. WillInstall(head.img)
    BY <1>3, WaitingIsHead DEF HeadPC
  <2> QED
    BY <2>1, StillWaiting, HeadType DEF Recoverable, TypeInv, HeadInv, HeadPC
<1> QED
  BY <1>1, <1>2, <1>3

\* Steps that change no flash and do not enter one of the loops.
LEMMA QuietStep ==
  ASSUME CrashInv, UNCHANGED flashVars, src' = "download",
         pc' \notin {"dfverify", "halt", "own", "dead", "erase", "prepare", "copy"},
         pc' \in WholePC => AppWhole
  PROVE  CrashInv'
<1>1. AppWhole' = AppWhole
  BY DEF flashVars, AppWhole, Installed
<1>2. Recoverable'
  BY <1>1, StillWaiting DEF CrashInv, Recoverable, flashVars
<1> QED
  BY <1>1, <1>2 DEF CrashInv, ProgressInv

\* Steps that leave the target partitions alone while the application is whole.
LEMMA WholeStep ==
  ASSUME AppWhole, mem' = mem, src' = "download",
         pc' \notin {"dfverify", "halt", "own", "dead", "erase", "prepare", "copy"}
  PROVE  CrashInv'
<1>1. AppWhole'
  BY DEF AppWhole, Installed
<1> QED
  BY <1>1 DEF CrashInv, Recoverable, ProgressInv

\* The facts about the package in work that the upgrade steps need.
LEMMA UpgradeFacts ==
  ASSUME Reliable, TypeInv, CrashInv, pc \in HeadPC
  PROVE  /\ head.img \in Images /\ head # None
         /\ target \in Targets /\ PartLen[target] \in Nat
         /\ raw \in Nat /\ Pkg[head.img].yield = raw
         /\ Pkg[head.img].algo \in {"none", "aes", "fastlz", "quicklz"}
         /\ target = "app" => head.img \in Bootable
         /\ FwVerified(head.img) /\ head.cur = curver
         /\ k \in Nat
<1>0. head # None /\ src = "download" /\ target \in Targets \cup Reserved
  BY DEF TypeInv, HeadInv, CrashInv, target
<1>2. head.img \in Images
  BY <1>0, HeadType DEF TypeInv
<1>1. head # None /\ src = "download" /\ target \in Targets
  BY <1>0, <1>2 DEF Reliable, WellFormed, target
<1>3. FwVerified(head.img) /\ head.cur = curver
  BY <1>1 DEF TypeInv, HeadInv
<1> QED
  BY <1>1, <1>2, <1>3, PkgType, PartType
  DEF Reliable, WellFormed, target, raw, TypeInv, TypeOK

\* Every step of the bootloader thread, of the application and of the power
\* supply keeps the crash invariant.
LEMMA NextCrashInv ==
  ASSUME Reliable, TypeInv, CrashInv, [Next]_vars
  PROVE  CrashInv'
<1> USE DEF flashVars, ramVars
<1>f. ~(faults < MaxFaults)
  BY FotaAssumption DEF Reliable, TypeInv, TypeOK
<1>s. src = "download" /\ pc \notin {"dfverify", "halt", "own", "dead"} /\ (pc \in WholePC => AppWhole)
  BY DEF CrashInv
<1>0. CASE UNCHANGED vars
  BY <1>0 DEF vars, CrashInv, Recoverable, ProgressInv, AppWhole, Installed,
     WillInstall, FwVerified, DlHolds, Readable, target, raw
<1>1. CASE rt_fota_boot_verify
  BY <1>1, QuietStep DEF rt_fota_boot_verify, WholePC, AppPC
<1>2. CASE VerifyOk
  BY <1>2, <1>s, QuietStep DEF VerifyOk, WholePC, AppPC
<1>3. CASE VerifyFail
  <2>1. AppWhole
    BY <1>3, <1>f DEF VerifyFail, CrashInv, Recoverable, WillInstall
  <2> QED
    BY <1>3, <1>s, <2>1, QuietStep DEF VerifyFail
<1>4. CASE rt_fota_check_upgrade
  <2>0. pc \in HeadPC
    BY <1>4 DEF rt_fota_check_upgrade, HeadPC
  <2>1. CASE Pkg[head.img].ver = head.cur
    <3>1. AppWhole
      BY <2>0, <2>1, UpgradeFacts, WaitingIsHead DEF WillInstall
    <3> QED
      BY <1>4, <1>s, <2>1, <3>1, WholeStep DEF rt_fota_check_upgrade
  <2>2. CASE Pkg[head.img].ver # head.cur
    <3>0. pc' = "erase"
      BY <1>4, <2>0, <2>2, UpgradeFacts, FotaAssumption DEF rt_fota_check_upgrade, target
    <3>1. Recoverable'
      BY <1>4, StillWaiting DEF rt_fota_check_upgrade, CrashInv, Recoverable,
         AppWhole, Installed
    <3>2. ProgressInv'
      BY <1>4, <2>0, <2>2, <3>0, UpgradeFacts
      DEF rt_fota_check_upgrade, ProgressInv, target, raw
    <3> QED
      BY <1>4, <1>s, <3>0, <3>1, <3>2
      DEF rt_fota_check_upgrade, CrashInv, WholePC, AppPC
  <2> QED
    BY <2>1, <2>2
<1>5. CASE EraseRefused
  <2>1. pc \in HeadPC
    BY <1>5 DEF EraseRefused, HeadPC
  <2>2. AppWhole
    BY <1>5, <2>1, WaitingIsHead DEF EraseRefused, WillInstall, target, raw
  <2> QED
    BY <1>5, <1>s, <2>2, WholeStep DEF EraseRefused, UpgradeFailed
<1>6. CASE EraseSector
  <2>0. pc \in HeadPC /\ raw \in 1..PartLen[target] /\ k < raw
    BY <1>6 DEF EraseSector, HeadPC
  <2>1. /\ mem' = [mem EXCEPT ![target][k + 1] = Blank]
        /\ k' = k + 1 /\ pc' = pc /\ pc = "erase"
        /\ UNCHANGED <<dl, curver, src, head>>
    BY <1>6, <1>f DEF EraseSector, FaultAt
  <2>2. Recoverable'
    BY <2>0, <2>1, SectorRecoverable, CellFacts DEF SectorStep
  <2>3. \A i \in 1..k' : mem'[target][i] = Blank
    <3>1. \A i \in 1..k : mem[target][i] = Blank
      BY <2>0, <2>1 DEF CrashInv, ProgressInv
    <3>2. k + 1 \in 1..PartLen[target] /\ k \in Nat
      BY <2>0, UpgradeFacts
    <3>3. /\ mem'[target][k + 1] = Blank
          /\ \A i \in 1..PartLen[target] : i # k + 1 => mem'[target][i] = mem[target][i]
      BY <2>0, <2>1, <3>2, UpgradeFacts, SectorAfter
    <3> QED
      BY <2>0, <2>1, <3>1, <3>2, <3>3
  <2>4. target' = target /\ raw' = raw
    BY <2>1 DEF target, raw
  <2>5. ProgressInv'
    BY <2>0, <2>1, <2>3, <2>4, UpgradeFacts DEF ProgressInv
  <2> QED
    BY <1>s, <2>1, <2>2, <2>5 DEF CrashInv, WholePC, AppPC
<1>7. CASE EraseDone
  <2>1. Recoverable'
    BY <1>7, StillWaiting DEF EraseDone, CrashInv, Recoverable, AppWhole, Installed
  <2>2. ProgressInv'
    BY <1>7 DEF EraseDone, CrashInv, ProgressInv, target, raw
  <2> QED
    BY <1>7, <1>s, <2>1, <2>2 DEF EraseDone, CrashInv, WholePC, AppPC
<1>8. CASE PrepareCopy
  <2>0. pc \in HeadPC
    BY <1>8 DEF PrepareCopy, HeadPC
  <2>1. pc' = "copy" /\ k' = 0 /\ UNCHANGED <<mem, dl, curver, src, head>>
    BY <1>8, <1>f, <2>0, UpgradeFacts DEF PrepareCopy
  <2>2. Recoverable'
    BY <2>1, StillWaiting DEF CrashInv, Recoverable, AppWhole, Installed
  <2>3. ProgressInv'
    BY <1>8, <2>0, <2>1, UpgradeFacts DEF PrepareCopy, CrashInv, ProgressInv, target, raw
  <2> QED
    BY <1>s, <2>1, <2>2, <2>3 DEF CrashInv, WholePC, AppPC
<1>9. CASE CopyBlock
  <2>0. pc = "copy" /\ pc \in HeadPC
    BY <1>9 DEF CopyBlock, HeadPC
  <2>1. /\ raw \in 1..PartLen[target] /\ k < raw
        /\ \A i \in 1..k : mem[target][i] = head.img
        /\ \A i \in 1..raw : i > k => mem[target][i] = Blank
    BY <1>9, <2>0, UpgradeFacts DEF CopyBlock, CrashInv, ProgressInv
  <2>2. Programs(target, k + 1) /\ Source(head.img)
    BY <2>0, <2>1, <1>s, UpgradeFacts DEF Programs, Source, FwVerified
  <2>3. /\ mem' = [mem EXCEPT ![target][k + 1] = head.img]
        /\ k' = k + 1 /\ pc' = pc
        /\ UNCHANGED <<dl, curver, src, head>>
    BY <1>9, <1>f, <2>2 DEF CopyBlock, FaultAt
  <2>4. Recoverable'
    BY <2>0, <2>1, <2>3, SectorRecoverable, UpgradeFacts, CellFacts DEF SectorStep
  <2>5. /\ \A i \in 1..k' : mem'[target][i] = head.img
        /\ \A i \in 1..raw : i > k' => mem'[target][i] = Blank
    <3>1. k + 1 \in 1..PartLen[target] /\ k \in Nat
      BY <2>0, <2>1, UpgradeFacts
    <3>2. /\ mem'[target][k + 1] = head.img
          /\ \A i \in 1..PartLen[target] : i # k + 1 => mem'[target][i] = mem[target][i]
      BY <2>0, <2>3, <3>1, UpgradeFacts, SectorAfter
    <3> QED
      BY <2>0, <2>1, <2>3, <3>1, <3>2, UpgradeFacts
  <2>6. target' = target /\ raw' = raw
    BY <2>3 DEF target, raw
  <2>7. ProgressInv'
    BY <2>0, <2>1, <2>3, <2>5, <2>6, UpgradeFacts DEF ProgressInv
  <2> QED
    BY <1>s, <2>0, <2>3, <2>4, <2>7 DEF CrashInv, WholePC, AppPC
<1>10. CASE CopyDone
  <2>0. pc = "copy" /\ pc \in HeadPC
    BY <1>10 DEF CopyDone, HeadPC
  <2>1. /\ raw \in 1..PartLen[target] /\ k = raw
        /\ \A i \in 1..raw : mem[target][i] = head.img
    BY <1>10, <2>0, UpgradeFacts DEF CopyDone, CrashInv, ProgressInv
  <2>2. pc' = "vererase"
    BY <1>10, <1>s, <2>0, <2>1, UpgradeFacts DEF CopyDone
  <2>3. AppWhole
    <3>1. CASE target = "app"
      BY <2>0, <2>1, <3>1, UpgradeFacts DEF AppWhole, Installed, raw
    <3>2. CASE target # "app"
      BY <2>0, <3>2, WaitingIsHead DEF WillInstall, target
    <3> QED
      BY <3>1, <3>2
  <2> QED
    BY <1>10, <1>s, <2>2, <2>3, WholeStep DEF CopyDone
<1>11. CASE VersionErase
  BY <1>11, <1>s, <1>f, WholeStep DEF VersionErase, WholePC
<1>12. CASE VersionWrite
  BY <1>12, <1>s, WholeStep DEF VersionWrite, WholePC
<1>13. CASE Jump
  BY <1>13, <1>s, WholeStep DEF Jump, WholePC
<1>14. CASE JumpRefused
  <2>1. AppWhole
    BY <1>14, <1>s DEF JumpRefused, WholePC
  <2>2. mem["app"][1] \in Bootable
    BY <2>1, FotaAssumption DEF AppWhole, Installed
  <2> QED
    BY <1>14, <2>2 DEF JumpRefused, FirstWordsIllegal
<1>15. CASE DefaultPackage
  BY <1>15, <1>s DEF DefaultPackage
<1>16. CASE AppStep
  <2>1. AppWhole /\ mem' = mem /\ src' = src /\ pc' \in AppPC \cup {"off"}
    BY <1>16, <1>s DEF AppStep, DownloadBegin, DownloadErase, DownloadWrite,
       DownloadEnd, Reboot, WholePC, AppPC
  <2> QED
    BY <2>1, <1>s, WholeStep DEF AppPC
<1>21. CASE PowerCut
  <2>1. /\ src' = "download" /\ pc' = "off" /\ pc' \notin WholePC
    BY <1>21, <1>s DEF PowerCut, WholePC, AppPC
  <2>2. CASE UNCHANGED flashVars
    BY <2>1, <2>2, QuietStep
  <2>3. CASE /\ \/ pc = "erase" /\ raw \in 1..PartLen[target] /\ k < raw
                \/ pc = "copy"
             /\ mem' = [mem EXCEPT ![target][k + 1] = Torn]
             /\ UNCHANGED <<dl, curver>>
    <3>1. raw \in 1..PartLen[target]
      BY <2>3 DEF CrashInv, ProgressInv
    <3>2. Recoverable'
      BY <2>3, <3>1, SectorRecoverable, CellFacts DEF SectorStep
    <3> QED
      BY <2>1, <3>2 DEF CrashInv, ProgressInv
  <2>4. CASE pc \in WholePC /\ mem' = mem
    BY <1>s, <2>1, <2>4, WholeStep
  <2> QED
    BY <1>21, <1>s, <2>2, <2>3, <2>4 DEF PowerCut, WholePC, AppPC
<1>22. CASE PowerCycleHalted
  BY <1>22, <1>s DEF PowerCycleHalted
<1>23. CASE CopyTraps
  BY <1>23, UpgradeFacts DEF CopyTraps, HeadPC
<1>24. CASE OwnUpgrade
  BY <1>24, <1>s DEF OwnUpgrade, OwnRefused, OwnProgram, OwnErase, OwnCopy
<1> QED
  BY <1>0, <1>1, <1>2, <1>3, <1>4, <1>5, <1>6, <1>7, <1>8, <1>9, <1>10, <1>11,
     <1>12, <1>13, <1>14, <1>15, <1>16, <1>21, <1>22, <1>23, <1>24
  DEF Next, BootStep, rt_fota_upgrade, rt_fota_copy_version,
      rt_fota_start_application

\* For reliable flash and well-formed packages, power can be cut anywhere and
\* any number of times: a whole application, or the verified package that is
\* going to replace it, is on the flash at every instant.
THEOREM CrashRecoverable == Reliable => (Spec => []Recoverable)
<1> SUFFICES ASSUME Reliable PROVE Spec => []Recoverable
  OBVIOUS
<1>1. TypeInv /\ CrashInv /\ [Next]_vars => CrashInv'
  BY NextCrashInv
<1>2. CrashInv => Recoverable
  BY DEF CrashInv
<1> QED
  BY <1>1, <1>2, InitCrashInv, TypeInvariant, PTL DEF Spec

\* ... and rt_fota_start_application, which looks at two words only, jumps
\* only into a whole application.
THEOREM CrashRunsWhole == Reliable => (Spec => []RunsWhole)
<1> SUFFICES ASSUME Reliable PROVE Spec => []RunsWhole
  OBVIOUS
<1>1. TypeInv /\ CrashInv /\ [Next]_vars => CrashInv'
  BY NextCrashInv
<1>2. CrashInv => RunsWhole
  BY DEF CrashInv, RunsWhole, WholePC
<1> QED
  BY <1>1, <1>2, InitCrashInv, TypeInvariant, PTL DEF Spec
=============================================================================
