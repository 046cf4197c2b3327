------------------------------ MODULE FotaBoot ------------------------------
(***************************************************************************)
(* The over-the-air upgrade of the board, from one power-up to the next:   *)
(* the bootloader thread of bootloader/src/rt_fota.c (verify the download  *)
(* partition, compare versions, erase and rewrite the target partition,    *)
(* record the new version, jump to the application) and the running        *)
(* application that receives a new package into the download partition     *)
(* (ymodem_ota.c).  Power can be cut between, and in the middle of, any    *)
(* two flash operations.                                                   *)
(*                                                                         *)
(* The unit of flash is the 4096-byte sector: MH_FLASH_GRANULARITY, the    *)
(* read, CRC, decrypt and decompress buffers of rt_fota.c all have that    *)
(* size.  A sector holds a member of Images (the bytes image m has at that *)
(* place), Blank (erased) or Torn (an interrupted erase or program left    *)
(* unknown bytes there).  A CRC32 check passes exactly on untouched data.  *)
(***************************************************************************)
EXTENDS Naturals, FiniteSets

CONSTANTS
  Images,     \* firmware packages
  Versions,   \* values of download_version and current_version
  Pkg,        \* [Images -> PackageHead]: the RBL head of each package
  Targets,    \* partitions a package can be installed to; holds "app"
  PartLen,    \* their length, and that of the Reserved ones, in sectors
  DlLen,      \* length of the "download" partition in sectors
  Bootable,   \* images whose stack and reset words rt_fota_start_application accepts
  Factory,    \* packages "df_area" may hold; None: the table has no such partition
  Initial,    \* the application the board leaves the factory with
  None, Blank, Torn,
  MaxCuts,    \* bound on the number of power cuts
  MaxFaults   \* bound on the number of failing flash operations and rt_malloc calls

\* The fota_algo flag that decides; "other" is a compression that is none of
\* the named ones (an encryption that is none of them is no encryption).
Algos == {"none", "aes", "fastlz", "quicklz", "xor", "gzip", "other"}

\* Partitions of the table that a package may name although the upgrade stands
\* on them: the one it is read from, and the program of the bootloader.
Reserved == {"download", "boot"}

\* rt_fota_part_head.  com: number of 4096-byte chunks of the body, sectors:
\* sectors taken by head and body, raw: sectors of raw_size, yield: sectors
\* the body decodes to.
PackageHead == [ver : Versions, cur : Versions,
                target : Targets \cup Reserved \cup {None},
                com : Nat, sectors : Nat \ {0}, raw : Nat, yield : Nat,
                algo : Algos]

ASSUME FotaAssumption ==
  /\ Pkg \in [Images -> PackageHead]
  /\ \A m \in Images : Pkg[m].algo = "other" => Pkg[m].yield = 0
  /\ "app" \in Targets /\ None \notin Targets \cup Reserved
  /\ Targets \cap Reserved = {}
  /\ PartLen \in [Targets \cup Reserved -> Nat \ {0}]
  /\ DlLen \in Nat \ {0} /\ PartLen["download"] = DlLen
  /\ Bootable \subseteq Images
  /\ Factory \subseteq Images \cup {None} /\ Factory # {}
  /\ \A m \in Factory \ {None} : Pkg[m].target \notin Reserved
  /\ Initial \in Bootable
  /\ Pkg[Initial].raw \in 1..PartLen["app"]
  /\ None \notin Images /\ Blank \notin Images /\ Torn \notin Images
  /\ Blank # Torn /\ None \notin [img : Images, cur : Versions]
  /\ MaxCuts \in Nat /\ MaxFaults \in Nat

VARIABLES
  mem,      \* contents of the target partitions
  dl,       \* contents of the download partition; the head is in dl[1]
  curver,   \* current_version of the head stored in dl[1]
  df,       \* the package in df_area, None if the board has none
  pc,       \* where the bootloader thread, or the application, is
  src,      \* part_name of the rt_fota_part_fw_verify / rt_fota_upgrade in progress
  head,     \* fota_part_head, the RAM copy of the verified head
  k,        \* sectors done by the loop in progress
  cache,    \* cache_buf of rt_fota_copy_version
  pkg,      \* the package the application is downloading
  cuts, faults

flashVars == <<mem, dl, curver, df>>
ramVars   == <<src, head, k, cache, pkg>>
vars      == <<flashVars, pc, ramVars, cuts, faults>>

Cell == Images \cup {Blank, Torn}

BootPC == {"verify", "check", "erase", "prepare", "copy", "vererase",
           "verwrite", "start", "dfverify", "own"}
AppPC  == {"app", "dlerase", "dlwrite"}

-----------------------------------------------------------------------------
(* What the partitions hold.                                               *)

\* The download partition holds package m, head and body, untouched.
DlHolds(m) ==
  /\ Pkg[m].sectors <= DlLen
  /\ \A i \in 1..Pkg[m].sectors : dl[i] = m

\* Every 4096-byte read of the body starts 96 bytes (the head) past a sector
\* boundary, so the last one must end before the last sector does.
Readable(m) == Pkg[m].com < DlLen

\* Partition t holds image m from its first to its last sector.
Installed(t, m) ==
  /\ Pkg[m].raw \in 1..PartLen[t]
  /\ \A i \in 1..Pkg[m].raw : mem[t][i] = m

\* The package rt_fota_read_part would read from partition src.
Source(m) == IF src = "download" THEN DlHolds(m) ELSE m = df

-----------------------------------------------------------------------------
Init ==
  /\ mem = [t \in Targets |-> [i \in 1..PartLen[t] |->
              IF t = "app" /\ i <= Pkg[Initial].raw THEN Initial ELSE Blank]]
  /\ dl = [i \in 1..DlLen |-> Blank]
  /\ curver \in Versions /\ df \in Factory
  /\ pc = "off"
  /\ src = "download" /\ head = None /\ k = 0 /\ cache = Blank /\ pkg = None
  /\ cuts = 0 /\ faults = 0

\* Power-up: rt_fota_boot_verify clears fota_part_head and initialises FAL,
\* which cannot fail on the static partition table of fal_cfg.h.
rt_fota_boot_verify ==
  /\ pc = "off"
  /\ pc' = "verify" /\ src' = "download" /\ head' = None
  /\ UNCHANGED <<flashVars, k, cache, pkg, cuts, faults>>

\* Mutant: the body CRC is not compared.
FwVerified_HeadOnly(m) ==
  dl[1] = m /\ Readable(m) /\ Pkg[m].target \in Targets \cup Reserved

\* rt_fota_part_fw_verify("download") lets package m through: any partition of
\* the table will do as its target.
FwVerified(m) ==
  /\ dl[1] = m
  /\ DlHolds(m)
  /\ Readable(m)
  /\ Pkg[m].target \in Targets \cup Reserved

VerifyOk ==
  /\ pc = "verify"
  /\ \E m \in Images : /\ FwVerified(m)
                       /\ head' = [img |-> m, cur |-> curver]
  /\ pc' = "check"
  /\ UNCHANGED <<flashVars, src, k, cache, pkg, cuts, faults>>

\* Mutant: the board is reset when the download partition has no package.
VerifyFail_Reset ==
  /\ pc = "verify"
  /\ \A m \in Images : ~FwVerified(m)
  /\ head' = None /\ pc' = "off"
  /\ UNCHANGED <<flashVars, src, k, cache, pkg, cuts, faults>>

\* Head or body CRC, RBL type, target name or a read out of bounds refuse the
\* package; or rt_malloc of the CRC buffer fails.
VerifyFail ==
  /\ pc = "verify"
  /\ \/ /\ \A m \in Images : ~FwVerified(m)
        /\ faults' = faults
     \/ /\ faults < MaxFaults
        /\ faults' = faults + 1
  /\ head' = None
  /\ pc' = "start"
  /\ UNCHANGED <<flashVars, src, k, cache, pkg, cuts>>

\* Mutant: the comparison is inverted.
check_upgrade_Inverted ==
  /\ pc = "check"
  /\ pc' = IF Pkg[head.img].ver = head.cur THEN "erase" ELSE "start"
  /\ k' = 0
  /\ UNCHANGED <<flashVars, src, head, cache, pkg, cuts, faults>>

rt_fota_check_upgrade ==
  /\ pc = "check"
  /\ pc' = IF Pkg[head.img].ver = head.cur THEN "start"
           ELSE IF Pkg[head.img].target \in Reserved THEN "own" ELSE "erase"
  /\ k' = 0
  /\ UNCHANGED <<flashVars, src, head, cache, pkg, cuts, faults>>

-----------------------------------------------------------------------------
(* rt_fota_upgrade.                                                        *)

target == Pkg[head.img].target
raw    == Pkg[head.img].raw

\* Mutant: a failed upgrade falls back to the default package at once.
UpgradeFailed_ToDefault == pc' = IF src = "download" THEN "dfverify" ELSE "halt"

\* __exit_upgrade with an error: the firmware path tries to start the
\* application all the same, the default-partition path gives up.
UpgradeFailed == pc' = IF src = "download" THEN "start" ELSE "halt"

\* A failing flash operation on sector i of partition t leaves it as it was,
\* or Torn.
FaultAt(t, i) ==
  /\ faults < MaxFaults
  /\ faults' = faults + 1
  /\ mem' \in {mem, [mem EXCEPT ![t][i] = Torn]}

\* fal_partition_erase refuses a raw_size beyond the partition and
\* mh_flash_erase an empty one, before touching the flash.
EraseRefused ==
  /\ pc = "erase"
  /\ raw \notin 1..PartLen[target]
  /\ UpgradeFailed
  /\ UNCHANGED <<flashVars, ramVars, cuts, faults>>

\* Mutant: one sector too many.
EraseSector_OneMore ==
  /\ pc = "erase"
  /\ raw \in 1..PartLen[target]
  /\ k <= raw
  /\ mem' = [mem EXCEPT ![target][k + 1] = Blank]
  /\ k' = k + 1
  /\ UNCHANGED <<dl, curver, df, pc, src, head, cache, pkg, cuts, faults>>

EraseSector ==
  /\ pc = "erase"
  /\ raw \in 1..PartLen[target]
  /\ k < raw
  /\ \/ /\ mem' = [mem EXCEPT ![target][k + 1] = Blank]
        /\ k' = k + 1
        /\ UNCHANGED <<pc, faults>>
     \/ /\ FaultAt(target, k + 1)
        /\ UpgradeFailed
        /\ k' = k
  /\ UNCHANGED <<dl, curver, df, src, head, cache, pkg, cuts>>

\* Mutant: the new version is recorded before the copy.
EraseDone_VersionFirst ==
  /\ pc = "erase"
  /\ raw \in 1..PartLen[target]
  /\ k = raw
  /\ pc' = "prepare"
  /\ curver' = Pkg[head.img].ver
  /\ UNCHANGED <<mem, dl, df, ramVars, cuts, faults>>

EraseDone ==
  /\ pc = "erase"
  /\ raw \in 1..PartLen[target]
  /\ k = raw
  /\ pc' = "prepare"
  /\ UNCHANGED <<flashVars, ramVars, cuts, faults>>

\* Buffers are allocated and the algorithms looked at only now: XOR and GZIP
\* are refused after the target has been erased.
PrepareCopy ==
  /\ pc = "prepare"
  /\ \/ /\ Pkg[head.img].algo \notin {"xor", "gzip"}
        /\ pc' = "copy" /\ k' = 0
        /\ faults' = faults
     \/ /\ \/ /\ Pkg[head.img].algo \in {"xor", "gzip"}
              /\ faults' = faults
           \/ /\ faults < MaxFaults
              /\ faults' = faults + 1
        /\ UpgradeFailed
        /\ k' = k
  /\ UNCHANGED <<flashVars, src, head, cache, pkg, cuts>>

\* A sector is programmed and read back: NOR flash takes the new bytes only
\* where it is erased, or holds the same bytes already.
Programs(t, i) == mem[t][i] \in {Blank, head.img}

\* One turn of the copy loop: read a block, decode it, rt_fota_write_app_part.
CopyBlock ==
  /\ pc = "copy"
  /\ k < Pkg[head.img].yield
  /\ k + 1 <= PartLen[target]
  /\ \/ /\ Programs(target, k + 1)
        /\ mem' = [mem EXCEPT ![target][k + 1] =
                     IF Source(head.img) THEN head.img ELSE Torn]
        /\ k' = k + 1
        /\ UNCHANGED <<pc, faults>>
     \/ /\ ~Programs(target, k + 1)
        /\ mem' = [mem EXCEPT ![target][k + 1] = Torn]
        /\ UpgradeFailed
        /\ UNCHANGED <<k, faults>>
     \/ /\ FaultAt(target, k + 1)
        /\ UpgradeFailed
        /\ k' = k
  /\ UNCHANGED <<dl, curver, df, src, head, cache, pkg, cuts>>

\* Mutants: the size is not compared with raw_size; the version is not
\* recorded.
CopyDone_NoSizeCheck ==
  /\ pc = "copy"
  /\ k = Pkg[head.img].yield
  /\ pc' = IF src = "download" THEN "vererase" ELSE "start"
  /\ UNCHANGED <<flashVars, ramVars, cuts, faults>>

CopyDone_NoVersion ==
  /\ pc = "copy"
  /\ k = Pkg[head.img].yield
  /\ pc' = "start"
  /\ UNCHANGED <<flashVars, ramVars, cuts, faults>>

\* The loop ends: the body is used up, or the next write is out of bounds.
\* total_copy_size < raw_size is an error.
CopyDone ==
  /\ pc = "copy"
  /\ \/ k = Pkg[head.img].yield
     \/ k + 1 > PartLen[target]
  /\ IF k = Pkg[head.img].yield /\ k >= raw
       THEN pc' = IF src = "download" THEN "vererase" ELSE "start"
       ELSE UpgradeFailed
  /\ UNCHANGED <<flashVars, ramVars, cuts, faults>>

\* The decoder works on a body it does not handle (FotaStream): it runs out of
\* its buffers, which a compression it does not know leaves unallocated, and
\* the thread ends in a fault.  Where it does not, CopyDone finds the error.
CopyTraps ==
  /\ pc = "copy"
  /\ Pkg[head.img].algo \in {"fastlz", "quicklz", "other"}
  /\ Pkg[head.img].com > 0 /\ Pkg[head.img].yield # raw
  /\ pc' = "halt"
  /\ UNCHANGED <<flashVars, ramVars, cuts, faults>>

-----------------------------------------------------------------------------
(* rt_fota_upgrade with a partition it stands on as the target.            *)

OwnRefused ==
  /\ pc = "own"
  /\ raw \notin 1..PartLen[target]
  /\ UpgradeFailed
  /\ UNCHANGED <<flashVars, ramVars, cuts, faults>>

\* The bootloader erases the program that is running: what the board does from
\* here on is no longer this code.
OwnProgram ==
  /\ pc = "own" /\ target = "boot"
  /\ raw \in 1..PartLen[target]
  /\ pc' = "dead"
  /\ UNCHANGED <<flashVars, ramVars, cuts, faults>>

\* The package is erased, its head first ...
OwnErase ==
  /\ pc = "own" /\ target = "download"
  /\ raw \in 1..PartLen[target] /\ k < raw
  /\ \/ /\ dl' = [dl EXCEPT ![k + 1] = Blank]
        /\ k' = k + 1
        /\ UNCHANGED <<pc, faults>>
     \/ /\ faults < MaxFaults
        /\ faults' = faults + 1
        /\ dl' \in {dl, [dl EXCEPT ![k + 1] = Torn]}
        /\ UpgradeFailed
        /\ k' = k
  /\ UNCHANGED <<mem, curver, df, src, head, cache, pkg, cuts>>

\* ... and what is read in its place afterwards is not the package: the copy
\* fails, ends in a fault, or leaves garbage, which the version record, if it
\* comes to that, does not turn into a head.
OwnCopy ==
  /\ pc = "own" /\ target = "download"
  /\ raw \in 1..PartLen[target] /\ k = raw
  /\ \E n \in 0..DlLen : dl' = [i \in 1..DlLen |-> IF i <= n THEN Torn ELSE dl[i]]
  /\ pc' \in {"start", "halt"}
  /\ UNCHANGED <<mem, curver, df, ramVars, cuts, faults>>

-----------------------------------------------------------------------------
(* rt_fota_copy_version: the first sector of the download partition is     *)
(* read into RAM, its current_version replaced, erased and written back.   *)

VersionErase ==
  /\ pc = "vererase"
  /\ \/ /\ cache' = dl[1]
        /\ dl' = [dl EXCEPT ![1] = Blank]
        /\ pc' = "verwrite"
        /\ faults' = faults
     \/ /\ faults < MaxFaults
        /\ faults' = faults + 1
        /\ \/ dl' = dl                             \* rt_malloc
           \/ dl' = [dl EXCEPT ![1] = Torn]        \* erase
        /\ pc' = "start"
        /\ cache' = cache
  /\ UNCHANGED <<mem, curver, df, src, head, k, pkg, cuts>>

VersionWrite ==
  /\ pc = "verwrite"
  /\ \/ /\ dl' = [dl EXCEPT ![1] = cache]
        /\ curver' = IF cache \in Images THEN Pkg[cache].ver ELSE curver
        /\ faults' = faults
     \/ /\ faults < MaxFaults
        /\ faults' = faults + 1
        /\ dl' = [dl EXCEPT ![1] = Torn]
        /\ curver' = curver
  /\ pc' = "start"
  /\ UNCHANGED <<mem, df, src, head, k, cache, pkg, cuts>>

-----------------------------------------------------------------------------
(* rt_fota_start_application looks at two words of the first sector only.  *)
(* When it returns, the default package is tried once.                     *)

FirstWordsLegal == mem["app"][1] \in Bootable \cup {Torn}
FirstWordsIllegal == mem["app"][1] \notin Bootable

Jump ==
  /\ pc = "start"
  /\ FirstWordsLegal
  /\ pc' = "app"
  /\ UNCHANGED <<flashVars, ramVars, cuts, faults>>

\* Mutant: the board is reset instead of trying the default package.
JumpRefused_Reset ==
  /\ pc = "start"
  /\ FirstWordsIllegal
  /\ pc' = "off"
  /\ UNCHANGED <<flashVars, ramVars, cuts, faults>>

JumpRefused ==
  /\ pc = "start"
  /\ FirstWordsIllegal
  /\ pc' = IF src = "download" THEN "dfverify" ELSE "halt"
  /\ UNCHANGED <<flashVars, ramVars, cuts, faults>>

\* rt_fota_part_fw_verify("df_area") lets the default package through.
DefaultVerified == IF df = None THEN FALSE ELSE Pkg[df].target \in Targets

\* Mutant: fota_part_head keeps the head of the download package.
DefaultPackage_StaleHead ==
  /\ pc = "dfverify"
  /\ src' = "df_area"
  /\ DefaultVerified /\ head # None
  /\ pc' = "erase" /\ k' = 0
  /\ UNCHANGED <<flashVars, head, cache, pkg, cuts, faults>>

\* rt_fota_part_fw_verify("df_area"), then rt_fota_upgrade("df_area"): no
\* version check on this path.
DefaultPackage ==
  /\ pc = "dfverify"
  /\ src' = "df_area"
  /\ \/ /\ DefaultVerified
        /\ head' = [img |-> df, cur |-> Pkg[df].cur]
        /\ pc' = "erase" /\ k' = 0
        /\ faults' = faults
     \/ /\ \/ /\ ~DefaultVerified
              /\ faults' = faults
           \/ /\ DefaultVerified
              /\ faults < MaxFaults
              /\ faults' = faults + 1
        /\ head' = None
        /\ pc' = "halt" /\ k' = k
  /\ UNCHANGED <<flashVars, cache, pkg, cuts>>

-----------------------------------------------------------------------------
(* The running application receives a package into the download partition  *)
(* (ymodem_on_begin, ymodem_on_data) and resets the board.                 *)

\* A package larger than the partition is refused with RYM_CODE_CAN.
DownloadBegin(m) ==
  /\ pc = "app"
  /\ Pkg[m].sectors <= DlLen
  /\ pkg' = m /\ k' = 0 /\ pc' = "dlerase"
  /\ UNCHANGED <<flashVars, src, head, cache, cuts, faults>>

DownloadErase ==
  /\ pc = "dlerase"
  /\ \/ /\ dl' = [dl EXCEPT ![k + 1] = Blank]
        /\ IF k + 1 = Pkg[pkg].sectors
             THEN pc' = "dlwrite" /\ k' = 0
             ELSE pc' = pc /\ k' = k + 1
        /\ pkg' = pkg
     \/ /\ dl' = [dl EXCEPT ![k + 1] = Torn]      \* erase error: RYM_CODE_CAN
        /\ pc' = "app" /\ pkg' = None
        /\ k' = k
  /\ UNCHANGED <<mem, curver, df, src, head, cache, cuts, faults>>

\* The session stores what arrives in order; a packet stored twice or a
\* failing write leaves a sector that is not the package's.
DownloadWrite ==
  /\ pc = "dlwrite"
  /\ k < Pkg[pkg].sectors
  /\ k' = k + 1
  /\ \/ /\ dl' = [dl EXCEPT ![k + 1] = pkg]
        /\ curver' = IF k = 0 THEN Pkg[pkg].cur ELSE curver
     \/ /\ dl' = [dl EXCEPT ![k + 1] = Torn]
        /\ curver' = curver
  /\ UNCHANGED <<mem, df, pc, src, head, cache, pkg, cuts, faults>>

\* The session ends: rt_hw_cpu_reset after a complete one, the shell prompt
\* after an aborted one.
DownloadEnd ==
  /\ pc = "dlwrite"
  /\ \/ k = Pkg[pkg].sectors /\ pc' = "off"
     \/ pc' = "app"
  /\ pkg' = None
  /\ UNCHANGED <<flashVars, src, head, k, cache, cuts, faults>>

\* The application can be reset from its shell (reboot), or by its watchdog.
Reboot ==
  /\ pc = "app"
  /\ pc' = "off"
  /\ UNCHANGED <<flashVars, ramVars, cuts, faults>>

-----------------------------------------------------------------------------
\* Power is cut at any point; the sector being erased or programmed at that
\* moment may be left Torn.
PowerCut ==
  /\ pc \notin {"off", "halt", "dead"}
  /\ cuts < MaxCuts
  /\ cuts' = cuts + 1
  /\ pc' = "off" /\ head' = None /\ pkg' = None
  /\ \/ UNCHANGED flashVars
     \/ /\ \/ pc = "erase" /\ raw \in 1..PartLen[target] /\ k < raw
           \/ pc = "copy" /\ k < Pkg[head.img].yield /\ k + 1 <= PartLen[target]
        /\ mem' = [mem EXCEPT ![target][k + 1] = Torn]
        /\ UNCHANGED <<dl, curver>>
     \/ /\ pc \in {"vererase", "verwrite"}
        /\ dl' = [dl EXCEPT ![1] = Torn]
        /\ UNCHANGED <<mem, curver>>
     \/ /\ pc \in {"dlerase", "dlwrite"}
        /\ k < Pkg[pkg].sectors
        /\ dl' = [dl EXCEPT ![k + 1] = Torn]
        /\ UNCHANGED <<mem, curver>>
     \/ /\ pc = "own" /\ target = "download"
        /\ raw \in 1..PartLen[target] /\ k < raw
        /\ dl' = [dl EXCEPT ![k + 1] = Torn]
        /\ UNCHANGED <<mem, curver>>
  /\ UNCHANGED <<df, src, k, cache, faults>>

\* A board that cannot boot stays in the bootloader until it is powered off.
PowerCycleHalted ==
  /\ pc = "halt"
  /\ cuts < MaxCuts
  /\ cuts' = cuts + 1
  /\ pc' = "off" /\ head' = None
  /\ UNCHANGED <<flashVars, src, k, cache, pkg, faults>>

OwnUpgrade == OwnRefused \/ OwnProgram \/ OwnErase \/ OwnCopy

rt_fota_upgrade == EraseRefused \/ EraseSector \/ EraseDone \/ PrepareCopy
                   \/ CopyBlock \/ CopyDone \/ CopyTraps \/ OwnUpgrade

rt_fota_copy_version == VersionErase \/ VersionWrite

rt_fota_start_application == Jump \/ JumpRefused

\* rt_fota_thread_entry: one pass of the bootloader thread.
BootStep == \/ rt_fota_boot_verify \/ VerifyOk \/ VerifyFail
            \/ rt_fota_check_upgrade \/ rt_fota_upgrade
            \/ rt_fota_copy_version \/ rt_fota_start_application
            \/ DefaultPackage

AppStep == \/ \E m \in Images : DownloadBegin(m)
           \/ DownloadErase \/ DownloadWrite \/ DownloadEnd \/ Reboot

Next == BootStep \/ AppStep \/ PowerCut \/ PowerCycleHalted

Spec == Init /\ [][Next]_vars

\* The bootloader thread runs on; the application and the power supply owe
\* nothing.
FairSpec == Spec /\ WF_vars(BootStep)

-----------------------------------------------------------------------------
(* Properties.                                                             *)

\* The state of the thread and of the flash: every sector of every partition
\* holds a cell, fota_part_head is empty or the head of a package, and no loop
\* over sectors runs past the end of its partition.
TypeOK ==
  /\ mem = [t \in Targets |-> mem[t]]
  /\ \A t \in Targets : mem[t] \in [1..PartLen[t] -> Cell]
  /\ dl \in [1..DlLen -> Cell]
  /\ curver \in Versions /\ df \in Factory
  /\ pc \in {"off", "halt", "dead"} \cup BootPC \cup AppPC
  /\ src \in {"download", "df_area"}
  /\ head \in [img : Images, cur : Versions] \cup {None}
  /\ k \in Nat
  /\ pc \in {"erase", "prepare", "copy", "own"} => head # None /\ k <= PartLen[target]
  /\ pc \in {"dlerase", "dlwrite"} => pkg # None /\ k <= DlLen
  /\ cache \in Cell
  /\ pkg \in Images \cup {None}
  /\ cuts \in 0..MaxCuts /\ faults \in 0..MaxFaults

AppWhole == \E m \in Bootable : Installed("app", m)

\* A package the bootloader can carry through: its algorithms are supported,
\* it decodes to raw_size, it is for a partition the upgrade does not stand on,
\* and an application is linked for its partition.
WellFormed(m) ==
  /\ Pkg[m].algo \in {"none", "aes", "fastlz", "quicklz"}
  /\ Pkg[m].target \notin Reserved
  /\ Pkg[m].yield = Pkg[m].raw
  /\ Pkg[m].target = "app" => m \in Bootable

\* The application that runs is whole: rt_fota_start_application, which looks
\* at two words of the first sector, never jumps into an application that an
\* interrupted or failed rt_fota_upgrade left half-written.
RunsWhole == pc \in AppPC => AppWhole

\* The upgrade of rt_fota_upgrade that would finish m at the next power-up:
\* m passes rt_fota_part_fw_verify and rt_fota_check_upgrade asks for it.
WillInstall(m) ==
  /\ FwVerified(m)
  /\ Pkg[m].ver # curver
  /\ Pkg[m].target = "app"
  /\ Pkg[m].raw \in 1..PartLen["app"]

\* At every instant, wherever power is cut, the flash alone is enough to get a
\* whole application at the next power-up: one is in the app partition, or
\* the package that is replacing it is still in the download partition.
Recoverable ==
  \/ AppWhole
  \/ \E m \in Images : WillInstall(m)

\* current_version is set to download_version (rt_fota_copy_version) only for
\* a package that is on the flash from its first to its last sector, and stays
\* so: from then on rt_fota_check_upgrade skips it at every power-up.
CommittedInstalled ==
  \A m \in Images :
    (FwVerified(m) /\ Pkg[m].ver = curver /\ Pkg[m].cur # Pkg[m].ver)
      => Pkg[m].target \in Targets /\ Installed(Pkg[m].target, m)

\* Target partitions change only while fota_part_head is the head of a package
\* that is verified at that very moment and not yet marked as installed (or of
\* the default package); a rejected download never costs the application.
TouchedOnlyForVerified ==
  [][mem' # mem =>
       /\ head # None
       /\ \A t \in Targets : t # Pkg[head.img].target => mem'[t] = mem[t]
       /\ src = "download" => /\ FwVerified(head.img)
                              /\ Pkg[head.img].ver # curver
       /\ src = "df_area" => head.img = df]_vars

\* The default package replaces an application only as the last resort: when
\* rt_fota_upgrade("df_area") begins to erase, the words that
\* rt_fota_start_application looks at have just been found illegal.
DefaultLastResort ==
  [][(src = "df_area" /\ pc = "erase" /\ k = 0 /\ mem' # mem) =>
       mem["app"][1] \notin Bootable]_vars

-----------------------------------------------------------------------------
(* The atomic upgrade that all this implements.                            *)

\* The whole application, or the package that is going to replace the ruins.
BootImage == IF AppWhole THEN mem["app"][1] ELSE dl[1]

PendingImage == IF \E m \in Images : WillInstall(m) THEN dl[1] ELSE None

PowerState == IF pc = "off" THEN "off" ELSE IF pc \in AppPC THEN "run" ELSE "boot"

Ota == INSTANCE OtaAtomic WITH image <- BootImage, pending <- PendingImage,
                               power <- PowerState

\* rt_fota_thread_entry, with power cuts anywhere and no failing flash
\* operation, upgrades the board atomically: the erase, the copy and the
\* version record look like one step that cannot be half done, and no
\* application runs while a verified package waits.
AtomicUpgrade == Ota!Spec

\* A board that is switched on reaches its application once power stays on,
\* when no operation on the flash fails and every package is well-formed:
\* rt_fota_thread_entry ends in a jump.
ReachesApplication == pc = "off" ~> pc = "app"

\* An upgrade of package m is under way, or starts over at the next power-up.
Pursued(m) ==
  \/ FwVerified(m) /\ Pkg[m].ver # curver
  \/ head # None /\ head.img = m

\* Whatever was downloaded, whether or not the board has a default package and
\* whatever fails, rt_fota_thread_entry comes to its end once power stays on.
\* It ends in the jump unless an operation failed or the package it pursues is
\* not well-formed; the board of fal_cfg.h, which has no df_area, then stays in
\* the bootloader, and does so again at every power-up.
BootSettles ==
  pc = "off" ~>
    \/ pc = "app"
    \/ /\ pc \in {"halt", "dead"}
       /\ faults > 0 \/ \E m \in Images : Pursued(m) /\ ~WellFormed(m)

\* A pending upgrade of the application is installed before it next runs.
UpgradeInstalled ==
  \A m \in Images : (pc = "off" /\ WillInstall(m)) ~> (pc = "app" /\ Installed("app", m))
=============================================================================
