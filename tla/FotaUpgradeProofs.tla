-------------------------- MODULE FotaUpgradeProofs --------------------------
(***************************************************************************)
(* More theorems about FotaBoot: what the version record means, when the   *)
(* default package is used, and that the upgrade is the atomic one of      *)
(* OtaAtomic.                                                              *)
(***************************************************************************)
EXTENDS FotaBootProofs

-----------------------------------------------------------------------------
(* The default package.                                                    *)

\* From the moment rt_fota_start_application has returned to the first sector
\* that rt_fota_upgrade("df_area") erases.
LastResortInv ==
  pc = "dfverify" \/ (src = "df_area" /\ pc = "erase" /\ k = 0)
    => mem["app"][1] \notin Bootable

LEMMA InitLastResort == Init => LastResortInv
BY DEF Init, LastResortInv

\* Only a refused jump leads to the default package, and nothing writes to the
\* flash on the way.
LEMMA NextLastResort == TypeInv /\ LastResortInv /\ [Next]_vars => LastResortInv'
<1> SUFFICES ASSUME TypeInv, LastResortInv, [Next]_vars PROVE LastResortInv'
  OBVIOUS
<1> USE DEF LastResortInv, flashVars, ramVars
<1>0. CASE UNCHANGED vars
  BY <1>0 DEF vars
<1>1. CASE \/ rt_fota_boot_verify \/ VerifyOk \/ VerifyFail \/ rt_fota_check_upgrade
  BY <1>1 DEF rt_fota_boot_verify, VerifyOk, VerifyFail, rt_fota_check_upgrade,
              TypeInv, HeadInv
<1>2. CASE EraseSector
  BY <1>2 DEF EraseSector, UpgradeFailed, TypeInv, TypeOK
<1>3. CASE \/ EraseRefused \/ EraseDone \/ PrepareCopy \/ CopyBlock \/ CopyDone \/ CopyTraps
  BY <1>3 DEF EraseRefused, EraseDone, PrepareCopy, CopyBlock, CopyDone, CopyTraps, UpgradeFailed
<1>8. CASE OwnUpgrade
  BY <1>8 DEF OwnUpgrade, OwnRefused, OwnProgram, OwnErase, OwnCopy, UpgradeFailed
<1>4. CASE \/ VersionErase \/ VersionWrite \/ Jump \/ PowerCut \/ PowerCycleHalted
  BY <1>4 DEF VersionErase, VersionWrite, Jump, PowerCut, PowerCycleHalted
<1>5. CASE JumpRefused
  BY <1>5 DEF JumpRefused, FirstWordsIllegal
<1>6. CASE DefaultPackage
  BY <1>6 DEF DefaultPackage
<1>7. CASE AppStep
  BY <1>7 DEF AppStep, DownloadBegin, DownloadErase, DownloadWrite, DownloadEnd, Reboot
<1> QED
  BY <1>0, <1>1, <1>2, <1>3, <1>4, <1>5, <1>6, <1>7, <1>8
  DEF Next, BootStep, rt_fota_upgrade, rt_fota_copy_version, rt_fota_start_application

\* With any failures and power cuts, rt_fota_upgrade("df_area") begins to erase
\* only when the words rt_fota_start_application looks at are illegal.
THEOREM DefaultLastResortHolds == Spec => DefaultLastResort
<1> DEFINE A == (src = "df_area" /\ pc = "erase" /\ k = 0 /\ mem' # mem)
                  => mem["app"][1] \notin Bootable
<1>1. LastResortInv => [A]_vars
  BY DEF LastResortInv
<1>2. Spec => [][A]_vars
  BY <1>1, InitLastResort, NextLastResort, TypeInvariant, PTL DEF Spec
<1> QED
  BY <1>2 DEF DefaultLastResort

-----------------------------------------------------------------------------
(* The version record.                                                     *)

\* The head in the download partition says that package m is installed.
Committed(m) == FwVerified(m) /\ Pkg[m].ver = curver /\ Pkg[m].cur # Pkg[m].ver

\* The default package, if the board has one, is an application, and so is
\* every package that fits in the application partition to
\* rt_fota_start_application: a statement about the constants.
DefaultIsApplication ==
  \A f \in Factory \ {None} :
    /\ Pkg[f].target = "app"
    /\ \A m \in Images : Pkg[m].target = "app" /\ Pkg[m].raw \in 1..PartLen["app"]
                            => m \in Bootable

\* What the copy loop has written, whatever failed on the way to it.
CopyInv ==
  /\ pc \in {"prepare", "copy", "vererase"} => raw \in 1..PartLen[target]
  /\ pc = "copy" => \A i \in 1..k : mem[target][i] = head.img
  /\ pc = "vererase" => Installed(target, head.img)
  /\ pc = "verwrite" => dl[1] = Blank
  /\ pc = "verwrite" /\ cache \in Images =>
       Pkg[cache].target \in Targets /\ Installed(Pkg[cache].target, cache)

\* The head of a session that is under way says that its package is not
\* installed; before that there is none.
SessionHead ==
  /\ pc = "dlerase" /\ k > 0 => dl[1] = Blank
  /\ pc = "dlwrite" /\ k = 0 => dl[1] = Blank
  /\ pc = "dlwrite" /\ k > 0 =>
       dl[1] = Torn \/ (dl[1] = pkg /\ curver = Pkg[pkg].cur)

\* The default package replaces no application that is recorded as installed.
DefaultInv ==
  src = "df_area" /\ pc \in {"erase", "prepare", "copy"} =>
    \A m \in Images : Committed(m) => Pkg[m].target # "app"

CommitInv == CommittedInstalled /\ CopyInv /\ SessionHead /\ DefaultInv

\* The record is that of the package whose head is in the first sector.
LEMMA HeadCommitted == ASSUME NEW m, Committed(m) PROVE dl[1] = m
BY DEF Committed, FwVerified

\* Steps that leave the flash alone.
LEMMA QuietCommit ==
  ASSUME CommittedInstalled, UNCHANGED flashVars
  PROVE  CommittedInstalled' /\ \A m \in Images : Committed(m)' = Committed(m)
BY DEF CommittedInstalled, Committed, FwVerified, DlHolds, Readable, Installed, flashVars

\* Without the head of a package nothing is recorded.
LEMMA NoHeadCommit ==
  ASSUME dl'[1] \notin Images
  PROVE  CommittedInstalled'
BY DEF CommittedInstalled, FwVerified

\* A sector of the download partition that is erased or torn records nothing.
LEMMA SpoilCommit ==
  ASSUME TypeInv, CommittedInstalled, NEW i \in 1..DlLen, NEW v, v \notin Images,
         dl' = [dl EXCEPT ![i] = v], UNCHANGED <<mem, curver>>
  PROVE  CommittedInstalled'
<1> SUFFICES ASSUME NEW m \in Images, Committed(m)'
             PROVE  Pkg[m].target \in Targets /\ Installed(Pkg[m].target, m)'
  BY DEF CommittedInstalled, Committed
<1>1. dl \in [1..DlLen -> Cell] /\ Pkg[m].sectors \in Nat /\ DlLen \in Nat
  BY PkgType, FotaAssumption DEF TypeInv, TypeOK
<1>2. dl'[i] = v /\ \A j \in 1..DlLen : j # i => dl'[j] = dl[j]
  BY <1>1
<1>3. DlHolds(m)' /\ dl'[1] = m
  BY DEF Committed, FwVerified
<1>4. Pkg[m].sectors <= DlLen /\ \A j \in 1..Pkg[m].sectors : dl'[j] = m
  BY <1>3 DEF DlHolds
<1>5. i # 1 /\ i \notin 1..Pkg[m].sectors
  BY <1>2, <1>3, <1>4
<1>6. dl[1] = m /\ DlHolds(m)
  BY <1>1, <1>2, <1>3, <1>4, <1>5 DEF DlHolds
<1>7. Pkg[m].target \in Targets /\ Installed(Pkg[m].target, m)
  BY <1>6 DEF CommittedInstalled, Committed, FwVerified, Readable
<1> QED
  BY <1>7 DEF Installed

\* A step of rt_fota_upgrade, or a power cut in the middle of it, changes no
\* partition that is recorded as installed.
LEMMA SectorCommit ==
  ASSUME DefaultIsApplication \/ CrashInv, TypeInv, CommittedInstalled, DefaultInv,
         SectorStep, pc \in {"erase", "copy"}, UNCHANGED <<dl, curver>>
  PROVE  CommittedInstalled' /\ \A m \in Images : Committed(m)' = Committed(m)
<1>1. \A m \in Images : Committed(m)' = Committed(m)
  BY DEF Committed, FwVerified, DlHolds, Readable
<1>2. ASSUME NEW m \in Images, Committed(m)
      PROVE  Pkg[m].target \in Targets /\ Installed(Pkg[m].target, m)'
  <2>1. Installed(Pkg[m].target, m) /\ Pkg[m].target \in Targets /\ dl[1] = m
    BY <1>2 DEF CommittedInstalled, Committed, FwVerified
  <2>2. Pkg[m].target # target
    <3>1. CASE src = "download"
      BY <1>2, <2>1, <3>1 DEF TypeInv, HeadInv, HeadPC, FwVerified, Committed
    <3>2. CASE src = "df_area"
      <4>0. DefaultIsApplication
        BY <3>2 DEF CrashInv
      <4>1. head.img = df /\ head # None /\ df \in Factory
        BY <3>2 DEF TypeInv, TypeOK, HeadInv, HeadPC
      <4>2. head.img \in Images
        BY <4>1, HeadType DEF TypeInv
      <4>3. target = "app"
        BY <4>0, <4>1, <4>2, FotaAssumption DEF DefaultIsApplication, target
      <4> QED
        BY <1>2, <3>2, <4>3 DEF DefaultInv
    <3> QED
      BY <3>1, <3>2 DEF TypeInv, TypeOK
  <2>3. mem'[Pkg[m].target] = mem[Pkg[m].target]
    BY <2>1, <2>2, OtherPartitions
  <2> QED
    BY <2>1, <2>3 DEF Installed
<1> QED
  BY <1>1, <1>2 DEF CommittedInstalled, Committed

\* What a session that has not come to its end works on.
LEMMA SessionFacts ==
  ASSUME TypeInv, pc \in {"dlerase", "dlwrite"}, k < Pkg[pkg].sectors
  PROVE  /\ pkg \in Images /\ k \in Nat /\ k + 1 \in 1..DlLen
         /\ dl \in [1..DlLen -> Cell]
<1>1. pkg \in Images /\ k \in Nat /\ dl \in [1..DlLen -> Cell] /\ Pkg[pkg].sectors <= DlLen
  BY DEF TypeInv, TypeOK, SessionInv
<1>2. Pkg[pkg].sectors \in Nat /\ DlLen \in Nat
  BY <1>1, PkgType, FotaAssumption
<1> QED
  BY <1>1, <1>2

\* What the head sector holds after sector k of the partition has been changed.
LEMMA HeadSectorAfter ==
  ASSUME dl \in [1..DlLen -> Cell], k \in Nat, k + 1 \in 1..DlLen, NEW v,
         dl' = [dl EXCEPT ![k + 1] = v]
  PROVE  /\ k = 0 => dl'[1] = v
         /\ k > 0 => dl'[1] = dl[1]
BY FotaAssumption

\* The package that names the download partition erases it from within.
LEMMA OwnFacts ==
  ASSUME TypeInv, pc = "own", target = "download", raw \in 1..PartLen[target], k < raw
  PROVE  k + 1 \in 1..DlLen
<1>1. k \in Nat /\ PartLen[target] = DlLen /\ DlLen \in Nat
  BY FotaAssumption DEF TypeInv, TypeOK
<1>2. raw \in 1..DlLen
  BY <1>1
<1> QED
  BY <1>1, <1>2

LEMMA InitCommitInv == Init => CommitInv
<1> SUFFICES ASSUME Init PROVE CommitInv
  OBVIOUS
<1>1. dl[1] = Blank
  BY FotaAssumption DEF Init
<1>2. CommittedInstalled
  BY <1>1, FotaAssumption DEF CommittedInstalled, FwVerified
<1> QED
  BY <1>2 DEF Init, CommitInv, CopyInv, SessionHead, DefaultInv

\* One step per action.  What can break the record is a change of a partition
\* (SectorCommit), the record itself (VersionWrite, from what the copy loop has
\* done) and a new head in the download partition (DownloadWrite).
LEMMA NextCommitInv ==
  ASSUME DefaultIsApplication \/ CrashInv, TypeInv, LastResortInv, CommitInv, [Next]_vars
  PROVE  CommitInv'
<1> USE DEF CommitInv, flashVars, ramVars
<1>b. Blank \notin Images /\ Torn \notin Images /\ 1 \in 1..DlLen
  BY FotaAssumption
<1>0. CASE UNCHANGED vars
  <2>1. CommittedInstalled' /\ \A m \in Images : Committed(m)' = Committed(m)
    BY <1>0, QuietCommit DEF vars
  <2> QED
    BY <1>0, <2>1 DEF vars, CopyInv, SessionHead, DefaultInv, Installed, target, raw
<1>1. CASE \/ rt_fota_boot_verify \/ VerifyOk \/ VerifyFail \/ rt_fota_check_upgrade
           \/ EraseRefused \/ CopyTraps \/ OwnRefused \/ OwnProgram \/ Jump \/ JumpRefused \/ DownloadEnd \/ Reboot
           \/ PowerCycleHalted \/ \E m \in Images : DownloadBegin(m)
  <2>1. /\ UNCHANGED flashVars
        /\ pc' \notin {"prepare", "copy", "vererase", "verwrite", "dlwrite"}
        /\ pc' = "dlerase" => k' = 0
        /\ pc' = "erase" => src' = "download"
    BY <1>1 DEF rt_fota_boot_verify, VerifyOk, VerifyFail, rt_fota_check_upgrade,
                EraseRefused, CopyTraps, OwnRefused, OwnProgram, UpgradeFailed, Jump, JumpRefused, DownloadEnd, Reboot,
                PowerCycleHalted, DownloadBegin, TypeInv, HeadInv
  <2>2. CommittedInstalled'
    BY <2>1, QuietCommit
  <2> QED
    BY <2>1, <2>2 DEF CopyInv, SessionHead, DefaultInv
<1>2. CASE EraseSector
  <2>1. SectorStep /\ pc = "erase" /\ UNCHANGED <<dl, curver, src>>
        /\ pc' \in {"erase", "start", "halt"}
    BY <1>2, CellFacts DEF EraseSector, FaultAt, UpgradeFailed, SectorStep
  <2>2. CommittedInstalled' /\ \A m \in Images : Committed(m)' = Committed(m)
    BY <2>1, SectorCommit
  <2> QED
    BY <2>1, <2>2 DEF CopyInv, SessionHead, DefaultInv
<1>3. CASE EraseDone
  <2>1. CommittedInstalled' /\ \A m \in Images : Committed(m)' = Committed(m)
    BY <1>3, QuietCommit DEF EraseDone
  <2> QED
    BY <1>3, <2>1 DEF EraseDone, CopyInv, SessionHead, DefaultInv, target, raw
<1>4. CASE PrepareCopy
  <2>1. CommittedInstalled' /\ \A m \in Images : Committed(m)' = Committed(m)
    BY <1>4, QuietCommit DEF PrepareCopy
  <2> QED
    BY <1>4, <2>1 DEF PrepareCopy, UpgradeFailed, CopyInv, SessionHead, DefaultInv, target, raw
<1>5. CASE CopyBlock
  <2>1. pc = "copy" /\ head # None /\ head.img \in Images /\ target \in Targets
        /\ k \in Nat /\ k + 1 \in 1..PartLen[target]
    BY <1>5, HeadType, PartType, SMTT(40)
       DEF CopyBlock, TypeInv, TypeOK, HeadInv, HeadPC, target
  <2>2. SectorStep /\ UNCHANGED <<dl, curver, src, head>>
        /\ pc' \in {"copy", "start", "halt"}
    BY <1>5, <2>1, CellFacts DEF CopyBlock, FaultAt, UpgradeFailed, SectorStep
  <2>3. CommittedInstalled' /\ \A m \in Images : Committed(m)' = Committed(m)
    BY <2>1, <2>2, SectorCommit
  <2>4. ASSUME pc' = "copy" PROVE \A i \in 1..k' : mem'[target][i] = head.img
    <3>1. Source(head.img)
      BY <2>1 DEF Source, TypeInv, TypeOK, HeadInv, HeadPC, FwVerified
    <3>2. k' = k + 1 /\ mem' = [mem EXCEPT ![target][k + 1] = head.img]
      BY <1>5, <2>1, <2>4, <3>1 DEF CopyBlock, UpgradeFailed
    <3>3. /\ mem'[target][k + 1] = head.img
          /\ \A i \in 1..PartLen[target] : i # k + 1 => mem'[target][i] = mem[target][i]
      BY <2>1, <3>2, SectorAfter
    <3>4. \A i \in 1..k : mem[target][i] = head.img
      BY <2>1 DEF CopyInv
    <3> QED
      BY <2>1, <3>2, <3>3, <3>4, PartType
  <2>5. target' = target /\ raw' = raw
    BY <2>2 DEF target, raw
  <2>6. CopyInv'
    BY <2>1, <2>2, <2>4, <2>5 DEF CopyInv
  <2> QED
    BY <2>1, <2>2, <2>3, <2>6 DEF SessionHead, DefaultInv
<1>6. CASE CopyDone
  <2>0. CommittedInstalled'
    BY <1>6, QuietCommit DEF CopyDone
  <2>1. pc = "copy" /\ head # None /\ head.img \in Images /\ target \in Targets /\ k \in Nat
    BY <1>6, HeadType DEF CopyDone, TypeInv, TypeOK, HeadInv, HeadPC, target
  <2>2. pc' \in {"vererase", "start", "halt"} /\ (pc' = "vererase" => k >= raw)
    BY <1>6 DEF CopyDone, UpgradeFailed
  <2>3. raw \in 1..PartLen[target] /\ raw \in Nat /\ \A i \in 1..k : mem[target][i] = head.img
    BY <2>1, PkgType DEF CopyInv, raw
  <2>4. pc' = "vererase" => Installed(target, head.img)
    BY <2>1, <2>2, <2>3 DEF Installed, raw
  <2>5. CopyInv'
    BY <1>6, <2>2, <2>3, <2>4 DEF CopyDone, CopyInv, Installed, target, raw
  <2> QED
    BY <2>0, <2>2, <2>5 DEF SessionHead, DefaultInv
<1>7. CASE VersionErase
  <2>1. pc = "vererase" /\ dl \in [1..DlLen -> Cell] /\ dl[1] = head.img
        /\ target \in Targets /\ Installed(target, head.img)
    BY <1>7 DEF VersionErase, CopyInv, TypeInv, TypeOK, HeadInv, HeadPC, FwVerified, target
  <2>2. mem' = mem /\ curver' = curver /\ df' = df /\ pc' \in {"verwrite", "start"}
    BY <1>7 DEF VersionErase
  <2>3. CASE pc' = "verwrite"
    <3>1. dl'[1] = Blank /\ cache' = head.img
      BY <1>7, <1>b, <2>1, <2>3 DEF VersionErase
    <3>2. CommittedInstalled'
      BY <3>1, <1>b, NoHeadCommit
    <3> QED
      BY <2>1, <2>2, <2>3, <3>1, <3>2 DEF CopyInv, SessionHead, DefaultInv, Installed, target
  <2>4. CASE pc' = "start"
    <3>1. dl' = dl \/ dl' = [dl EXCEPT ![1] = Torn]
      BY <1>7, <2>4 DEF VersionErase
    <3>2. CommittedInstalled'
      BY <2>2, <3>1, <1>b, QuietCommit, SpoilCommit
    <3> QED
      BY <2>2, <2>4, <3>2 DEF CopyInv, SessionHead, DefaultInv
  <2> QED
    BY <2>2, <2>3, <2>4
<1>8. CASE VersionWrite
  <2>1. pc = "verwrite" /\ pc' = "start" /\ mem' = mem /\ dl \in [1..DlLen -> Cell]
    BY <1>8 DEF VersionWrite, TypeInv, TypeOK
  <2>2. CASE dl' = [dl EXCEPT ![1] = cache]
    <3>1. dl'[1] = cache
      BY <1>b, <2>1, <2>2
    <3>2. cache \in Images => Pkg[cache].target \in Targets /\ Installed(Pkg[cache].target, cache)
      BY <2>1 DEF CopyInv
    <3>3. CommittedInstalled'
      BY <2>1, <3>1, <3>2 DEF CommittedInstalled, FwVerified, Installed
    <3> QED
      BY <2>1, <3>3 DEF CopyInv, SessionHead, DefaultInv
  <2>3. CASE dl' = [dl EXCEPT ![1] = Torn]
    <3>1. CommittedInstalled'
      BY <1>b, <2>1, <2>3, NoHeadCommit
    <3> QED
      BY <2>1, <3>1 DEF CopyInv, SessionHead, DefaultInv
  <2> QED
    BY <1>8, <2>2, <2>3 DEF VersionWrite
<1>9. CASE DefaultPackage
  <2>1. UNCHANGED flashVars /\ pc = "dfverify" /\ pc' \in {"erase", "halt"} /\ src' = "df_area"
        /\ (pc' = "erase" => df \in Factory \ {None}) /\ DefaultIsApplication
    BY <1>9 DEF DefaultPackage, DefaultVerified, CrashInv, TypeInv, TypeOK
  <2>2. CommittedInstalled' /\ \A m \in Images : Committed(m)' = Committed(m)
    BY <2>1, QuietCommit
  <2>3. ASSUME NEW m \in Images, Committed(m), pc' = "erase" PROVE Pkg[m].target # "app"
    <3>1. mem["app"][1] \notin Bootable
      BY <2>1 DEF LastResortInv
    <3>2. Installed(Pkg[m].target, m)
      BY <2>3 DEF CommittedInstalled, Committed
    <3>3. Pkg[m].raw \in 1..PartLen[Pkg[m].target] /\ mem[Pkg[m].target][1] = m
      BY <3>2, PkgType DEF Installed
    <3> QED
      BY <2>1, <2>3, <3>1, <3>3 DEF DefaultIsApplication
  <2> QED
    BY <2>1, <2>2, <2>3 DEF CopyInv, SessionHead, DefaultInv
<1>10. CASE DownloadErase
  <2>1. /\ pc = "dlerase" /\ pkg \in Images /\ k \in Nat /\ k + 1 \in 1..DlLen
        /\ dl \in [1..DlLen -> Cell]
    BY <1>10, SessionFacts DEF DownloadErase, TypeInv, SessionInv
  <2>2. UNCHANGED <<mem, curver>> /\ pc' \in {"dlerase", "dlwrite", "app"}
    BY <1>10 DEF DownloadErase
  <2>3. \E v \in {Blank, Torn} : dl' = [dl EXCEPT ![k + 1] = v]
    BY <1>10 DEF DownloadErase
  <2>4. CommittedInstalled'
    BY <1>b, <2>1, <2>2, <2>3, SpoilCommit
  <2>5. pc' # "app" => dl'[1] = Blank
    BY <1>10, <2>1, HeadSectorAfter DEF DownloadErase, SessionHead
  <2>6. pc' = "dlwrite" => k' = 0
    BY <1>10, <2>1 DEF DownloadErase
  <2> QED
    BY <2>2, <2>4, <2>5, <2>6 DEF CopyInv, SessionHead, DefaultInv
<1>11. CASE DownloadWrite
  <2>1. /\ pc = "dlwrite" /\ pc' = "dlwrite" /\ pkg' = pkg /\ pkg \in Images /\ k \in Nat
        /\ k + 1 \in 1..DlLen /\ k' = k + 1 /\ dl \in [1..DlLen -> Cell]
    BY <1>11, SessionFacts DEF DownloadWrite
  <2>2. dl'[1] = Torn \/ (dl'[1] = pkg /\ curver' = Pkg[pkg].cur)
    <3>1. CASE k = 0
      BY <1>11, <2>1, <3>1, HeadSectorAfter DEF DownloadWrite
    <3>2. CASE k > 0
      BY <1>11, <2>1, <3>2, HeadSectorAfter DEF DownloadWrite, SessionHead
    <3> QED
      BY <2>1, <3>1, <3>2
  <2>3. CommittedInstalled'
    BY <1>b, <2>2 DEF CommittedInstalled, FwVerified
  <2> QED
    BY <2>1, <2>2, <2>3 DEF CopyInv, SessionHead, DefaultInv
<1>12. CASE PowerCut
  <2>1. pc' = "off" /\ curver' = curver
    BY <1>12 DEF PowerCut
  <2>2. CommittedInstalled'
    <3>1. CASE UNCHANGED flashVars
      BY <3>1, QuietCommit
    <3>2. CASE /\ pc \in {"erase", "copy"} /\ mem' = [mem EXCEPT ![target][k + 1] = Torn]
               /\ UNCHANGED <<dl, curver>>
      BY <3>2, SectorCommit, CellFacts DEF SectorStep
    <3>3. CASE dl' = [dl EXCEPT ![1] = Torn] /\ UNCHANGED <<mem, curver>>
      BY <3>3, <1>b, SpoilCommit
    <3>5. CASE /\ pc = "own" /\ k < raw /\ target = "download" /\ raw \in 1..PartLen[target]
               /\ dl' = [dl EXCEPT ![k + 1] = Torn] /\ UNCHANGED <<mem, curver>>
      <4>1. k + 1 \in 1..DlLen
        BY <3>5, OwnFacts
      <4> QED
        BY <3>5, <4>1, <1>b, SpoilCommit
    <3>4. CASE /\ pc \in {"dlerase", "dlwrite"} /\ k < Pkg[pkg].sectors
               /\ dl' = [dl EXCEPT ![k + 1] = Torn] /\ UNCHANGED <<mem, curver>>
      <4>1. k + 1 \in 1..DlLen
        BY <3>4, SessionFacts
      <4> QED
        BY <3>4, <4>1, <1>b, SpoilCommit
    <3> QED
      BY <1>12, <3>1, <3>2, <3>3, <3>4, <3>5 DEF PowerCut
  <2> QED
    BY <2>1, <2>2 DEF CopyInv, SessionHead, DefaultInv
<1>13. CASE OwnErase
  <2>1. UNCHANGED <<mem, curver>> /\ pc' \in {"own", "start", "halt"} /\ src' = "download"
    BY <1>13 DEF OwnErase, UpgradeFailed, TypeInv, HeadInv
  <2>2. k + 1 \in 1..DlLen
    BY <1>13, OwnFacts DEF OwnErase
  <2>3. dl' = dl \/ \E v \in {Blank, Torn} : dl' = [dl EXCEPT ![k + 1] = v]
    BY <1>13 DEF OwnErase
  <2>4. CASE dl' = dl
    <3>1. CommittedInstalled'
      BY <2>1, <2>4 DEF CommittedInstalled, FwVerified, DlHolds, Readable, Installed
    <3> QED
      BY <2>1, <3>1 DEF CopyInv, SessionHead, DefaultInv
  <2>5. CASE \E v \in {Blank, Torn} : dl' = [dl EXCEPT ![k + 1] = v]
    <3>1. CommittedInstalled'
      BY <1>b, <2>1, <2>2, <2>5, SpoilCommit
    <3> QED
      BY <2>1, <3>1 DEF CopyInv, SessionHead, DefaultInv
  <2> QED
    BY <2>3, <2>4, <2>5
<1>14. CASE OwnCopy
  <2>1. UNCHANGED <<mem, curver>> /\ pc' \in {"start", "halt"} /\ dl \in [1..DlLen -> Cell]
    BY <1>14 DEF OwnCopy, TypeInv, TypeOK
  <2>2. PICK n \in 0..DlLen : dl' = [i \in 1..DlLen |-> IF i <= n THEN Torn ELSE dl[i]]
    BY <1>14 DEF OwnCopy
  <2>3. CommittedInstalled'
    <3>1. CASE n = 0
      <4>1. dl' = dl
        BY <2>1, <2>2, <3>1, FotaAssumption
      <4> QED
        BY <2>1, <4>1 DEF CommittedInstalled, FwVerified, DlHolds, Readable, Installed
    <3>2. CASE n # 0
      <4>1. dl'[1] = Torn
        BY <1>b, <2>2, <3>2, FotaAssumption
      <4> QED
        BY <1>b, <4>1, NoHeadCommit
    <3> QED
      BY <3>1, <3>2
  <2> QED
    BY <2>1, <2>3 DEF CopyInv, SessionHead, DefaultInv
<1> QED
  BY <1>0, <1>1, <1>2, <1>3, <1>4, <1>5, <1>6, <1>7, <1>8, <1>9, <1>10, <1>11, <1>12,
     <1>13, <1>14
  DEF Next, BootStep, AppStep, rt_fota_upgrade, OwnUpgrade, rt_fota_copy_version,
      rt_fota_start_application

\* With any failures, power cuts and malformed packages, a package that
\* rt_fota_copy_version has marked is on the flash from its first to its last
\* sector, and stays there as long as the mark does; provided that the default
\* package is an application, and applications are to the taste of
\* rt_fota_start_application.
THEOREM CommittedInstalledHolds == DefaultIsApplication => (Spec => []CommittedInstalled)
<1> SUFFICES ASSUME DefaultIsApplication PROVE Spec => []CommittedInstalled
  OBVIOUS
<1>1. TypeInv /\ LastResortInv /\ CommitInv /\ [Next]_vars => CommitInv'
  BY NextCommitInv
<1>2. CommitInv => CommittedInstalled
  BY DEF CommitInv
<1> QED
  BY <1>1, <1>2, InitCommitInv, InitLastResort, NextLastResort, TypeInvariant, PTL DEF Spec

-----------------------------------------------------------------------------
(* The atomic upgrade.                                                     *)

\* rt_fota_start_application is called only when no package is waiting.
StartInv == pc = "start" => \A m \in Images : ~WillInstall(m)

AtomicInv == TypeInv /\ LastResortInv /\ CrashInv /\ CommitInv /\ StartInv

\* The package that waits is the one whose head is in the first sector.
LEMMA PendingWaits ==
  ASSUME NEW m \in Images, WillInstall(m)
  PROVE  PendingImage = m /\ dl[1] = m
BY DEF PendingImage, WillInstall, FwVerified

\* Without the head of a package, none waits.
LEMMA NoHeadPending ==
  ASSUME dl[1] \notin Images
  PROVE  PendingImage = None /\ \A m \in Images : ~WillInstall(m)
BY DEF PendingImage, WillInstall, FwVerified

\* What waits is a package, if there is one.
LEMMA PendingType == PendingImage \in Images \cup {None}
BY DEF PendingImage, WillInstall, FwVerified

\* A whole application begins with words rt_fota_start_application accepts.
LEMMA WholeFirst == AppWhole => mem["app"][1] \in Bootable
<1>1. ASSUME NEW m \in Bootable, Installed("app", m) PROVE mem["app"][1] = m
  BY <1>1, PkgType, FotaAssumption DEF Installed
<1> QED
  BY <1>1 DEF AppWhole

\* Steps that leave the flash alone change neither the application nor what
\* waits.
LEMMA QuietMapped ==
  ASSUME UNCHANGED flashVars
  PROVE  UNCHANGED <<BootImage, PendingImage>>
BY DEF flashVars, BootImage, PendingImage, AppWhole, Installed, WillInstall, FwVerified,
       DlHolds, Readable

\* As long as the application is whole and untouched it is the one that runs.
LEMMA WholeMapped ==
  ASSUME AppWhole, mem' = mem
  PROVE  BootImage' = BootImage
BY DEF BootImage, AppWhole, Installed

\* An erase or write of rt_fota_upgrade, or a power cut in the middle of one,
\* replaces the application by the package that waits, or changes nothing.
LEMMA SectorMapped ==
  ASSUME Reliable, AtomicInv, pc \in {"erase", "copy"}, raw \in 1..PartLen[target],
         k + 1 \in 1..PartLen[target],
         NEW v \in {Blank, Torn} \cup {IF pc = "copy" THEN head.img ELSE Blank},
         mem' = [mem EXCEPT ![target][k + 1] = v], UNCHANGED <<dl, curver>>
  PROVE  \/ UNCHANGED <<BootImage, PendingImage>>
         \/ /\ PendingImage \in Bootable
            /\ BootImage' = PendingImage /\ PendingImage' = PendingImage
<1> USE DEF AtomicInv
<1>1. pc \in HeadPC
  BY DEF HeadPC
<1>2. head.img \in Images /\ target \in Targets /\ k \in Nat /\ FwVerified(head.img)
  BY <1>1, UpgradeFacts
<1>3. PendingImage' = PendingImage
  BY DEF PendingImage, WillInstall, FwVerified, DlHolds, Readable
<1>4. CASE target # "app"
  <2>1. SectorStep
    BY <1>2, CellFacts DEF SectorStep
  <2>2. mem'["app"] = mem["app"]
    BY <1>4, <2>1, OtherPartitions, FotaAssumption
  <2> QED
    BY <1>3, <2>2 DEF BootImage, AppWhole, Installed
<1>5. CASE target = "app"
  <2>1. WillInstall(head.img) /\ head.img \in Bootable
    BY <1>1, <1>2, <1>5, UpgradeFacts
    DEF WillInstall, target, raw, TypeInv, HeadInv, HeadPC, CrashInv
  <2>2. PendingImage = head.img /\ dl[1] = head.img
    BY <1>2, <2>1, PendingWaits
  <2>3. \A i \in 1..k : mem["app"][i] \in {Blank, head.img}
    BY <1>5 DEF CrashInv, ProgressInv
  <2>4. mem'["app"][1] \in {Blank, Torn, head.img}
    <3>1. /\ mem'["app"][k + 1] = v
          /\ \A i \in 1..PartLen["app"] : i # k + 1 => mem'["app"][i] = mem["app"][i]
      BY <1>2, <1>5, SectorAfter
    <3>2. CASE k = 0
      BY <3>1, <3>2
    <3>3. CASE k > 0
      <4>1. 1 \in 1..k /\ 1 \in 1..PartLen["app"] /\ 1 # k + 1
        BY <1>2, <3>3, FotaAssumption
      <4> QED
        BY <2>3, <3>1, <4>1
    <3> QED
      BY <1>2, <3>2, <3>3
  <2>5. AppWhole' => mem'["app"][1] = head.img
    <3>1. (AppWhole => mem["app"][1] \in Bootable)'
      BY WholeFirst, PTL
    <3> QED
      BY <2>4, <3>1, FotaAssumption
  <2>6. BootImage' = head.img
    BY <2>2, <2>5 DEF BootImage
  <2> QED
    BY <1>3, <2>1, <2>2, <2>6
<1> QED
  BY <1>4, <1>5

\* The board as it leaves the factory.
LEMMA InitAtomic == Init => AtomicInv /\ Ota!Init
<1> SUFFICES ASSUME Init PROVE AtomicInv /\ Ota!Init
  OBVIOUS
<1>1. AtomicInv
  BY InitTypeInv, InitLastResort, InitCrashInv, InitCommitInv DEF AtomicInv, StartInv, Init
<1>2. Installed("app", Initial)
  BY FotaAssumption, PartType DEF Init, Installed
<1>3. AppWhole /\ mem["app"][1] = Initial
  BY <1>2, FotaAssumption DEF AppWhole, Installed
<1>4. dl[1] \notin Images
  BY FotaAssumption DEF Init
<1>5. BootImage = Initial /\ PendingImage = None /\ PowerState = "off"
  BY <1>3, <1>4, NoHeadPending DEF BootImage, PowerState, Init
<1> QED
  BY <1>1, <1>5 DEF Ota!Init

\* The copy loop finds every sector it comes to erased.
LEMMA CopyPrograms ==
  ASSUME Reliable, AtomicInv, pc = "copy", k < Pkg[head.img].yield
  PROVE  /\ Programs(target, k + 1) /\ Source(head.img)
         /\ raw \in 1..PartLen[target] /\ k + 1 \in 1..PartLen[target]
<1>1. pc \in HeadPC /\ TypeInv /\ CrashInv
  BY DEF AtomicInv, HeadPC
<1>2. k \in Nat /\ raw \in Nat /\ k < raw /\ PartLen[target] \in Nat /\ FwVerified(head.img)
  BY <1>1, UpgradeFacts
<1>3. raw \in 1..PartLen[target] /\ \A i \in 1..raw : i > k => mem[target][i] = Blank
  BY <1>1 DEF CrashInv, ProgressInv
<1>4. k + 1 \in 1..raw /\ k + 1 > k /\ k + 1 \in 1..PartLen[target]
  BY <1>2, <1>3
<1> QED
  BY <1>1, <1>2, <1>3, <1>4 DEF Programs, Source, FwVerified, CrashInv

\* rt_fota_thread_entry comes to rt_fota_start_application after a package was
\* refused, found installed, or recorded as installed.
LEMMA NextStart ==
  ASSUME Reliable, AtomicInv, [Next]_vars
  PROVE  StartInv'
<1> SUFFICES ASSUME pc' = "start", NEW m \in Images, WillInstall(m)' PROVE FALSE
  BY DEF StartInv
<1> USE DEF AtomicInv, flashVars, ramVars
<1>f. ~(faults < MaxFaults)
  BY FotaAssumption DEF Reliable, TypeInv, TypeOK
<1>w. UNCHANGED flashVars => WillInstall(m) /\ dl[1] = m /\ FwVerified(m)
  BY DEF WillInstall, FwVerified, DlHolds, Readable
<1>s. src = "download" /\ pc \notin {"dfverify", "halt", "own", "dead"}
  BY DEF CrashInv
<1>0. CASE UNCHANGED vars
  BY <1>0, <1>w DEF vars, StartInv
<1>1. CASE VerifyFail
  BY <1>f, <1>w, <1>1 DEF VerifyFail
<1>2. CASE rt_fota_check_upgrade
  BY <1>w, <1>2 DEF rt_fota_check_upgrade, TypeInv, HeadInv, HeadPC, FwVerified, WillInstall
<1>3. CASE EraseRefused
  BY <1>w, <1>s, <1>3
  DEF EraseRefused, TypeInv, HeadInv, HeadPC, FwVerified, WillInstall, target, raw
<1>4. CASE PrepareCopy
  BY <1>f, <1>4, UpgradeFacts DEF PrepareCopy, UpgradeFailed, HeadPC
<1>5. CASE CopyDone
  <2>1. pc = "copy" /\ pc \in HeadPC
    BY <1>5 DEF CopyDone, HeadPC
  <2>2. raw \in 1..PartLen[target] /\ k <= raw
    BY <2>1 DEF CrashInv, ProgressInv
  <2>3. k = Pkg[head.img].yield /\ k >= raw
    BY <1>5, <2>1, <2>2, UpgradeFacts DEF CopyDone
  <2> QED
    BY <1>5, <1>s, <2>1, <2>3 DEF CopyDone
<1>6. CASE EraseSector \/ VersionErase
  BY <1>f, <1>6 DEF EraseSector, VersionErase, FaultAt
<1>7. CASE CopyBlock
  BY <1>f, <1>7, CopyPrograms DEF CopyBlock, FaultAt
<1>8. CASE VersionWrite
  <2>1. dl' = [dl EXCEPT ![1] = cache] /\ dl \in [1..DlLen -> Cell]
        /\ curver' = IF cache \in Images THEN Pkg[cache].ver ELSE curver
    BY <1>f, <1>8 DEF VersionWrite, TypeInv, TypeOK
  <2>2. dl'[1] = cache /\ dl'[1] = m
    BY <2>1, FotaAssumption DEF WillInstall, FwVerified
  <2> QED
    BY <2>1, <2>2 DEF WillInstall
<1>9. CASE \/ rt_fota_boot_verify \/ VerifyOk \/ EraseDone \/ Jump \/ JumpRefused
           \/ DefaultPackage \/ PowerCut \/ PowerCycleHalted
  BY <1>9 DEF rt_fota_boot_verify, VerifyOk, EraseDone, Jump, JumpRefused, DefaultPackage,
     PowerCut, PowerCycleHalted
<1>10. CASE AppStep
  BY <1>10 DEF AppStep, DownloadBegin, DownloadErase, DownloadWrite, DownloadEnd, Reboot
<1>11. CASE CopyTraps
  BY <1>11 DEF CopyTraps
<1>12. CASE OwnUpgrade
  BY <1>s, <1>12 DEF OwnUpgrade, OwnRefused, OwnProgram, OwnErase, OwnCopy
<1> QED
  BY <1>0, <1>1, <1>2, <1>3, <1>4, <1>5, <1>6, <1>7, <1>8, <1>9, <1>10, <1>11, <1>12
  DEF Next, BootStep, rt_fota_upgrade, rt_fota_copy_version, rt_fota_start_application

\* Every step keeps the invariant the refinement rests on.
LEMMA NextAtomic ==
  ASSUME Reliable, AtomicInv, [Next]_vars
  PROVE  AtomicInv'
BY NextTypeInv, NextLastResort, NextCrashInv, NextCommitInv, NextStart DEF AtomicInv

\* The version record is made for an application that is in place.
LEMMA VersionMapped ==
  ASSUME Reliable, AtomicInv, pc \in {"vererase", "verwrite"}, mem' = mem,
         dl'[1] \notin Images \/ (pc = "verwrite" /\ \A m \in Images : ~WillInstall(m)')
  PROVE  /\ BootImage' = BootImage
         /\ PendingImage' = None
         /\ PendingImage \in {None, BootImage}
<1> USE DEF AtomicInv
<1>1. AppWhole
  BY DEF CrashInv, WholePC
<1>2. BootImage' = BootImage /\ BootImage = mem["app"][1]
  BY <1>1, WholeMapped DEF BootImage
<1>3. PendingImage' = None
  BY DEF PendingImage, WillInstall, FwVerified
<1>4. CASE pc = "verwrite"
  <2>1. dl[1] \notin Images
    BY <1>4, FotaAssumption DEF CommitInv, CopyInv
  <2> QED
    BY <1>2, <1>3, <2>1, NoHeadPending
<1>5. CASE pc = "vererase"
  <2>1. Installed(target, head.img) /\ head.img \in Images /\ dl[1] = head.img
    BY <1>5, UpgradeFacts DEF CommitInv, CopyInv, HeadPC, FwVerified
  <2>2. ASSUME NEW m \in Images, WillInstall(m) PROVE PendingImage = BootImage
    <3>1. PendingImage = head.img /\ m = head.img
      BY <2>1, <2>2, PendingWaits
    <3>2. target = "app" /\ Pkg[head.img].raw \in Nat
      BY <2>1, <2>2, <3>1, PkgType DEF WillInstall, target
    <3>3. mem["app"][1] = head.img
      BY <2>1, <3>2 DEF Installed
    <3> QED
      BY <1>2, <3>1, <3>3
  <2>3. (\A m \in Images : ~WillInstall(m)) => PendingImage = None
    BY DEF PendingImage
  <2> QED
    BY <1>2, <1>3, <2>2, <2>3
<1> QED
  BY <1>4, <1>5

\* A step that leaves the flash alone: power comes, goes or stays, the
\* bootloader goes on, or jumps.
LEMMA QuietStepMapped ==
  ASSUME AtomicInv, UNCHANGED flashVars,
         \/ PowerState' \in {PowerState, "off"}
         \/ PowerState = "off" /\ PowerState' = "boot"
         \/ pc = "start" /\ pc' = "app"
  PROVE  Ota!Next
<1>1. UNCHANGED <<BootImage, PendingImage>>
  BY QuietMapped
<1>2. CASE PowerState' \in {PowerState, "off"}
  BY <1>1, <1>2 DEF Ota!Next, Ota!Work, Ota!Flash
<1>3. CASE PowerState = "off" /\ PowerState' = "boot"
  BY <1>1, <1>3 DEF Ota!Next, Ota!PowerUp
<1>4. CASE pc = "start" /\ pc' = "app"
  <2>1. PowerState = "boot" /\ PowerState' = "run"
    BY <1>4 DEF PowerState, AppPC
  <2>2. PendingImage = None
    BY <1>4 DEF AtomicInv, StartInv, PendingImage
  <2> QED
    BY <1>1, <2>1, <2>2 DEF Ota!Next, Ota!Run
<1> QED
  BY <1>2, <1>3, <1>4

\* Every step of the board is a step of the atomic upgrade, or none.
LEMMA NextMapped ==
  ASSUME Reliable, AtomicInv, [Next]_vars
  PROVE  [Ota!Next]_<<BootImage, PendingImage, PowerState>>
<1> USE DEF flashVars, ramVars
<1>f. ~(faults < MaxFaults)
  BY FotaAssumption DEF AtomicInv, Reliable, TypeInv, TypeOK
<1>s. src = "download" /\ pc \notin {"dfverify", "halt", "own", "dead"}
  BY DEF AtomicInv, CrashInv
<1>0. CASE UNCHANGED vars
  BY <1>0, QuietMapped DEF vars, PowerState
<1>1. CASE \/ rt_fota_boot_verify \/ VerifyOk \/ VerifyFail \/ rt_fota_check_upgrade
           \/ EraseRefused \/ EraseDone \/ PrepareCopy \/ CopyDone \/ CopyTraps
  BY <1>1, <1>s, QuietStepMapped
  DEF rt_fota_boot_verify, VerifyOk, VerifyFail, rt_fota_check_upgrade, EraseRefused,
      EraseDone, PrepareCopy, CopyDone, CopyTraps, UpgradeFailed, PowerState, AppPC
<1>2. CASE \/ Jump \/ DownloadEnd \/ Reboot \/ \E m \in Images : DownloadBegin(m)
           \/ PowerCut /\ UNCHANGED flashVars
  BY <1>2, QuietStepMapped
  DEF Jump, DownloadEnd, Reboot, DownloadBegin, PowerCut, PowerState, AppPC
<1>3. CASE JumpRefused \/ DefaultPackage \/ PowerCycleHalted
  BY <1>3, <1>s, WholeFirst DEF JumpRefused, DefaultPackage, PowerCycleHalted,
     FirstWordsIllegal, AtomicInv, CrashInv, WholePC
<1>4. ASSUME \/ EraseSector \/ CopyBlock
             \/ PowerCut /\ pc \in {"erase", "copy"} /\ ~UNCHANGED flashVars
      PROVE  Ota!Next
  <2>1. /\ pc \in {"erase", "copy"} /\ pc' \in {pc, "off"} /\ UNCHANGED <<dl, curver>>
        /\ raw \in 1..PartLen[target] /\ k + 1 \in 1..PartLen[target]
    <3>1. CASE EraseSector
      <4>1. pc = "erase" /\ pc \in HeadPC /\ raw \in 1..PartLen[target] /\ k < raw
        BY <3>1 DEF EraseSector, HeadPC
      <4>2. k \in Nat /\ raw \in Nat /\ PartLen[target] \in Nat
        BY <4>1, UpgradeFacts DEF AtomicInv
      <4> QED
        BY <1>f, <3>1, <4>1, <4>2 DEF EraseSector, FaultAt
    <3>2. CASE CopyBlock
      BY <1>f, <3>2, CopyPrograms DEF CopyBlock, FaultAt
    <3>3. CASE PowerCut /\ pc = "erase"
      <4>1. pc \in HeadPC /\ raw \in 1..PartLen[target] /\ k < raw
        BY <1>4, <3>3 DEF PowerCut, HeadPC, EraseSector, CopyBlock
      <4>2. k \in Nat /\ raw \in Nat /\ PartLen[target] \in Nat
        BY <4>1, UpgradeFacts DEF AtomicInv
      <4> QED
        BY <1>4, <3>3, <4>1, <4>2 DEF PowerCut
    <3>4. CASE PowerCut /\ pc = "copy" /\ ~UNCHANGED flashVars
      BY <3>4, CopyPrograms DEF PowerCut
    <3> QED
      BY <1>4, <3>1, <3>2, <3>3, <3>4
  <2>2. \E v \in {Blank, Torn} \cup {IF pc = "copy" THEN head.img ELSE Blank} :
           mem' = [mem EXCEPT ![target][k + 1] = v]
    <3>1. CASE EraseSector
      BY <1>f, <3>1 DEF EraseSector, FaultAt
    <3>2. CASE CopyBlock
      BY <1>f, <3>2, CopyPrograms DEF CopyBlock, FaultAt
    <3>3. CASE PowerCut /\ ~UNCHANGED flashVars
      BY <2>1, <3>3 DEF PowerCut
    <3> QED
      BY <1>4, <3>1, <3>2, <3>3
  <2>3. \/ UNCHANGED <<BootImage, PendingImage>>
        \/ /\ PendingImage \in Bootable
           /\ BootImage' = PendingImage /\ PendingImage' = PendingImage
    BY <2>1, <2>2, SectorMapped
  <2>4. PowerState = "boot" /\ PowerState' \in {"boot", "off"}
    BY <2>1 DEF PowerState, AppPC
  <2> QED
    BY <2>3, <2>4 DEF Ota!Next, Ota!Work, Ota!Flash, Ota!Upgrade
<1>5. ASSUME \/ VersionErase \/ VersionWrite
             \/ PowerCut /\ pc \in {"vererase", "verwrite"} /\ ~UNCHANGED flashVars
      PROVE  Ota!Next
  <2>1. pc \in {"vererase", "verwrite"} /\ pc' \in {"verwrite", "start", "off"} /\ mem' = mem
    BY <1>5 DEF VersionErase, VersionWrite, PowerCut
  <2>2. dl'[1] \notin Images \/ (pc = "verwrite" /\ \A m \in Images : ~WillInstall(m)')
    <3>1. CASE VersionErase
      BY <1>f, <3>1, FotaAssumption DEF VersionErase, AtomicInv, TypeInv, TypeOK
    <3>2. CASE VersionWrite
      BY <3>2, NextStart DEF VersionWrite, StartInv
    <3>3. CASE PowerCut /\ ~UNCHANGED flashVars
      BY <2>1, <3>3, FotaAssumption, SMTT(30) DEF PowerCut, AtomicInv, TypeInv, TypeOK
    <3> QED
      BY <1>5, <3>1, <3>2, <3>3
  <2>3. BootImage' = BootImage /\ PendingImage' = None /\ PendingImage \in {None, BootImage}
    BY <2>1, <2>2, VersionMapped
  <2>4. PowerState = "boot" /\ PowerState' \in {"boot", "off"}
    BY <2>1 DEF PowerState, AppPC
  <2> QED
    BY <2>3, <2>4 DEF Ota!Next, Ota!Work, Ota!Flash, Ota!Commit
<1>6. ASSUME \/ DownloadErase \/ DownloadWrite
             \/ PowerCut /\ pc \in {"dlerase", "dlwrite"}
      PROVE  Ota!Next
  <2>1. pc \in {"dlerase", "dlwrite"} /\ pc' \in AppPC \cup {"off"} /\ mem' = mem
    BY <1>6 DEF DownloadErase, DownloadWrite, PowerCut, AppPC
  <2>2. AppWhole
    BY <2>1 DEF AtomicInv, CrashInv, WholePC, AppPC
  <2>3. BootImage' = BootImage /\ PendingImage' \in Images \cup {None}
    <3>1. (PendingImage \in Images \cup {None})'
      BY PendingType, PTL
    <3> QED
      BY <2>1, <2>2, <3>1, WholeMapped
  <2>4. PowerState = "run" /\ PowerState' \in {"run", "off"}
    BY <2>1 DEF PowerState, AppPC
  <2> QED
    BY <2>3, <2>4 DEF Ota!Next, Ota!Work, Ota!Flash, Ota!Receive
<1>7. CASE OwnUpgrade
  BY <1>s, <1>7 DEF OwnUpgrade, OwnRefused, OwnProgram, OwnErase, OwnCopy
<1> QED
  <2>1. PowerCut => \/ UNCHANGED flashVars
                    \/ pc \in {"erase", "copy", "vererase", "verwrite", "dlerase", "dlwrite"}
    BY <1>s DEF PowerCut
  <2> QED
    BY <1>0, <1>1, <1>2, <1>3, <1>4, <1>5, <1>6, <1>7, <2>1
    DEF Next, BootStep, AppStep, rt_fota_upgrade, rt_fota_copy_version,
        rt_fota_start_application

\* For reliable flash and well-formed packages, the bootloader, the session and
\* the power supply together implement the atomic upgrade: wherever power is
\* cut, the application is the old one or the new one, the accepted package
\* replaces it before an application runs again, and it is marked as installed
\* only then.
THEOREM AtomicUpgradeHolds == Reliable => (Spec => AtomicUpgrade)
<1> SUFFICES ASSUME Reliable PROVE Spec => AtomicUpgrade
  OBVIOUS
<1>1. AtomicInv /\ [Next]_vars => AtomicInv'
  BY NextAtomic
<1>2. AtomicInv /\ [Next]_vars => [Ota!Next]_<<BootImage, PendingImage, PowerState>>
  BY NextMapped
<1> QED
  BY <1>1, <1>2, InitAtomic, PTL DEF Spec, AtomicUpgrade, Ota!Spec
=============================================================================
