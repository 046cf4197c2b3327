# Verification of RTT_MH1903: upgrade, download and drivers

RTT_MH1903 is a board support package for the MegaHunt MH1903 microcontroller
on RT-Thread: a bootloader that installs firmware packages, device drivers, and
an application that downloads the packages. This directory holds TLA+ models of
the upgrade path from download to restart, of the Ymodem protocol that carries
the packages, and of the drivers where interrupts, running counters or integer
widths make them hard to test; the TLC runs that check them on small
instances; and TLAPS proofs for boards, packages, chips, rings, ports and sessions of any
size.

Paths below are relative to the repository. `rt_fota.c` is
`bootloader/src/rt_fota.c`.

## 1. Inventory

| Part | State it keeps | Operations | Module |
|---|---|---|---|
| Bootloader thread (`rt_fota.c`) | `fota_part_head` in RAM; the `download`, `app` and other partitions in flash | verify package, compare versions, erase, copy, record version, jump, fall back to `df_area` | `FotaBoot` |
| Package decoder (`rt_fota_upgrade`, the copy loops) | `crypt_buf`, `block_hdr_pos`, `cmprs_buff`, `fw_raw_pos`, `total_copy_size` | read a chunk, find the next block in it, decompress and write | `FotaStream` |
| Flash driver and FAL (`board/drv_flash.c`, `fal_partition.c`) | the flash | write in pages, erase in sectors, read back | `MhFlash` |
| Download (`ota_downloader/src/ymodem_ota.c`) | `update_file_cur_size`; the `download` partition | begin (size check, erase), data, end (reset) | `FotaBoot` |
| Partition table (`board/ports/fal_cfg.h`: `header`, `boot`, `param`, `app`, `font`, `download`, `fs`; no `df_area`) | constant | | constants of `FotaBoot` and `MhFlash` |
| Ymodem (`ymodem.c`, `ry_sy.c`) | stage, file or partition position, open descriptor, retries | handshake, data, end of file, next file, end of session; timeouts | `Ymodem` |
| UART reception (`drv_usart.c`, `serial.c`, `shell.c`, `ipc.c`) | ring buffer, indicator, semaphores | receive interrupt, read, wait with and without timeout, hand-over of the device to Ymodem and back | `SerialRx`, `RxQueue` |
| GPIO interrupts (`drv_gpio.c`) | one handler slot per port; EXTI trigger and status, NVIC | attach, detach, enable, disable, in any order and by any client; interrupt | `MhPin` |
| RTC (`drv_rtc.c`, `rtc.c`) | base in RAM, counter in hardware | open, get, set, `date` | `MhRtc` |
| PWM (`drv_pwm.c`, `rt_drv_pwm.c`) | two reload values | set, get, write of a pulse, on and off | `MhPwm` |
| Watchdog (`drv_wdt.c`) | timeout, reload value, counter | set timeout, start, feed | `MhWdt` |
| Rest of RT-Thread, CMSIS, vendor library, FastLZ, QuickLZ, tinycrypt | | | vendored, not modelled |

How they interact. The application receives a package over Ymodem into the
`download` partition and resets the board. The bootloader runs one thread,
`rt_fota_thread_entry`, from power-up to the jump into the application: head and
body CRC of the package, `download_version` against `current_version` (both in
the package head), erase of the target partition, copy through decryption and
decompression, and finally `rt_fota_copy_version`, which rewrites the first
sector of `download` so that the next power-up does not install again. All state
that survives is in flash; everything goes through FAL and the flash driver.

Ymodem runs in the thread of the shell and borrows its serial device:
`rym_recv_on_device` puts its own indicator and semaphore in place and gives the
shell's back at the end. Bytes come from the UART interrupt through the ring
buffer of the serial framework. `ymodem_on_begin` and `ymodem_on_data` are the
callbacks through which the protocol writes to flash. The device of `ymodem_ota` is
the console, so that what these callbacks print goes to the sender, between the
answers of the protocol.

What is hard:

* **Crashes.** Power can go in the middle of any flash operation; between the
  first erased sector and the last written one there is no application, only
  the package. `rt_fota_copy_version` erases the head before it writes it back.
* **Partial failure.** A failing upgrade is not retried in the same boot: the
  thread starts the application whatever is left of it, after looking at two
  words (`rt_fota_start_application`).
* **Stale state.** `fota_part_head` is global and used by two different upgrades
  (`download`, `df_area`).
* **Boundaries.** Blocks of the package and the 4096-byte chunks they are read
  in have nothing to do with each other; writes are cut at pages, erases at
  sectors.
* **Liveness.** A board that is switched on must reach an application; a
  Ymodem session must give the shell back.
* **Unreliable delivery.** Packets and answers are lost, damaged, late or sent
  again; the receiver repeats its `C` until it is answered; texts of the console
  are mixed with its answers.
* **Interleaving.** The receive interrupt runs between any two steps of the
  reader, which looks into the ring first and waits for the semaphore after; a pin
  interrupt runs between any two calls of the GPIO driver; a clock is read while
  it is being set or opened; a PWM write is a get and a set without a lock.
* **Call order.** The GPIO driver checks neither who calls it nor in what order.
* **Widths.** Conversions to ticks in the watchdog and PWM drivers, and the bounds
  checks of the flash, are made in 32 bits.

`PROJECT.json` lists these hazards with their lines and the properties that
would catch them.

## 2. Plan

1. *(done)* `FotaBoot`, its abstract specification `OtaAtomic`, runs with power
   cuts, with faults, and for liveness; `FotaBootProofs`.
2. *(done)* `FotaStream`, the decoder inside `rt_fota_upgrade`.
3. *(done)* `MhFlash`, the driver below both.
4. *(done)* `Ymodem`: receiver and sender with their timeouts, the callbacks of
   `ry`, `sy` and `ymodem_ota`, and a line that loses and damages.
5. *(done)* Drivers: `SerialRx` with its abstract specification `RxQueue` and its
   proofs, `MhPin` with its proofs, `MhRtc`, `MhPwm`, `MhWdt`.
6. *(done)* Proofs of every invariant and action property of the passing runs, the
   refinements `AtomicUpgrade` and `BoundedQueue` included.
7. *(done)* Bounds on how long the bootloader, the decoder, the flash driver and a
   Ymodem session can go on: the part of their liveness that needs no fairness.
8. The shell paths of the bootloader (`rt_fota_get_shell_key`, `fota clone`),
   which the present configuration compiles out.

## 3. Modules

### FotaBoot

The unit of flash is the sector of 4096 bytes, which is also the size of every
buffer of `rt_fota.c`. A sector holds the bytes that image `m` has at that place
(`m`), is erased (`Blank`) or unknown (`Torn`). CRCs are taken to pass exactly on
untouched data. `curver` is the `current_version` in the stored head; the other
fields of a head never change and are the constant `Pkg`.

| Action | Code |
|---|---|
| `rt_fota_boot_verify` | `rt_fota_boot_verify`, with the reset of `fota_part_head` |
| `VerifyOk`, `VerifyFail` | `rt_fota_part_fw_verify("download")`; `FwVerified` is its condition |
| `rt_fota_check_upgrade` | the same |
| `EraseRefused`, `EraseSector`, `EraseDone` | `rt_fota_erase_app_part` down to `mh_flash_erase`, one sector a step |
| `PrepareCopy` | allocations and algorithm checks of `rt_fota_upgrade`, after the erase |
| `CopyBlock`, `CopyDone` | the copy loops, one sector of output a step, and the check of `total_copy_size` |
| `CopyTraps` | the same loops on a body they cannot decode, or with a compression for which no buffer was allocated |
| `OwnRefused`, `OwnProgram`, `OwnErase`, `OwnCopy` | `rt_fota_upgrade` for a package whose target is `boot` or `download` |
| `VersionErase`, `VersionWrite` | `rt_fota_copy_version` |
| `Jump`, `JumpRefused` | `rt_fota_start_application` |
| `DefaultPackage` | the `df_area` path of `rt_fota_thread_entry` |
| `DownloadBegin`, `DownloadErase`, `DownloadWrite`, `DownloadEnd` | `ymodem_on_begin`, `ymodem_on_data`, `ymodem_ota` |
| `PowerCut`, `PowerCycleHalted`, `Reboot` | the environment |

A power cut may tear the sector being erased or programmed. A `Torn` first
sector of the application may or may not pass the two-word check, so both `Jump`
and `JumpRefused` are possible. Failing flash operations and allocations are
bounded by `MaxFaults`. `Factory` is the set of packages that `df_area` may hold, with
`None` for a table that has no such partition, as the one of this build.

`rt_fota_part_fw_verify` accepts any partition of the table as the target of a
package. `Reserved` are the two that the upgrade stands on. A package for `download`
erases itself, head first, and is then copied from what is left of it; a package
for `boot` erases the running program, after which the model says nothing (`dead`).
A package for `header`, which the boot ROM reads, is one for any other partition
here. An algorithm is one of the five named ones or `other`.

A download session may store any sector wrongly; what
the Ymodem layer does to cause or prevent that is left to its own module.

`OtaAtomic` says what all this amounts to: one whole application at any time,
replaced by a pending package in one step, never running while one is pending.
The refinement mapping takes the whole application, or else the package that
will replace the ruins, for `image`, and a verified package with a new version
for `pending`.

### FotaStream

The two loops of `rt_fota_upgrade` for a compressed package. `B` is the chunk
size (4096), `H` the block header (4), `Cap` the size of `cmprs_buff`. Bytes are
abstracted to their position: parsing a header where block `b` starts yields `b`;
anywhere else, and after that, it yields any size up to `Wild`, and the loops go on
with it, `block_hdr_pos` beyond `crypt_buf` included. What is decompressed then is
`Garbage`: it decompresses to nothing or does not fit (`error`), makes the
decompressor or the copy run out of memory (`fault`), or is written. A copy from
beyond `crypt_buf`, or over the end of `cmprs_buff`, gives garbage too. Since a size
near 2^32 makes the copy fault, the sum of position and size does not wrap.
`Handled` describes the layouts that the branches cover.

| Action | Branch |
|---|---|
| `ChunkStart` | `block_hdr_pos >= RT_FOTA_ALGO_BUFF_SIZE`: new chunk, header at its start |
| `InChunk` | header inside the chunk; block inside it or continued in the next |
| `HeaderEndsChunk` | header's last byte is the chunk's last byte |
| `SplitHeader` | header across two chunks |
| `TailBlock`, `TailBreak`, `Finish` | the loop over the rest of the last chunk |

### MhFlash

Bytes of a small chip. A byte knows which byte of which buffer it came from, so
that misplaced data is visible. `FLASH_ProgramPage` and `FLASH_EraseSector` call the
ROM: programming takes effect where the flash is erased and gives a
`Mixed` byte elsewhere, and either may fail and leave its range `Mixed`.

The bounds of `fal_partition_write`, `fal_partition_erase` and the driver are sums of
32-bit words. A call whose end address wraps (`Wraps`) passes them; `WriteAstray` and
`EraseAstray` are its pieces, which work anywhere on the chip, and may make the
processor trap. `PartitionContained` is about all other calls, and is false for these.

`HandledWrite` and `HandledErase` describe the calls the driver carries out as
asked. The callers in this build make no others: the bootloader writes and
erases from sector boundaries, and Ymodem writes packets of 128 or 1024 bytes at
multiples of 128.

### Ymodem

Two ends and a line. The receiver is `rym_recv_on_device` with the callbacks of
`ry` (a file) or `ymodem_ota` (the partition); the sender is
`rym_send_on_device` with those of `sy`, or a terminal program (`pc`), which is
external and, unlike `sy`, sends again what is not answered. A packet is one
element of the line with its code, its sequence number modulo `SeqRange`, and
its bytes, each of which knows its file and its place; damage makes it short,
or breaks its sequence number or its CRC.

`Printed` puts the texts of `ymodem_ota` on the line to the sender: the warning before
the first `C`, the size that `ymodem_on_begin` prints before its answer, the errors. A
text is one `junk`, since none of its characters is an answer; for `sy` in its
handshake it may cost all tries, because every character counts. A terminal program
passes over texts, or takes one for a `NAK`. What is printed after
`rym_recv_on_device` or `rym_send_on_device` has returned, and the message of `sy`
about a file that it cannot open, is left out. `ymodem_on_begin` refuses a file that
is larger than the partition, and an empty one, since `mh_flash_erase` refuses a size
of zero.

| Action | Code |
|---|---|
| `RecvOpen`, `RHandshake` | `rym_recv_on_device`, `_rym_do_handshake`, with `on_begin` |
| `RTransPacket`, `RTransEot` | `_rym_do_trans`, `_rym_trans_data`, with `on_data`, and the first EOT |
| `RFinEot`, `RFinPacket` | `_rym_do_fin`: second EOT, header of the next file or the empty one |
| `RWrongCode`, `RTimeout` | the error exits |
| `SendOpen`, `SGetExpected`, `SBeginFails`, `SyWrong` | `rym_send_on_device` and `_rym_do_send_*` |
| `PcIgnore`, `PcResend`, `PcGiveUp`, `Lose`, `Damage` | the terminal program and the line |

`FotaBoot` lets a download store any sector wrongly, so that what Ymodem
promises is not a premise of what the bootloader promises.

### SerialRx and RxQueue

From the receive register to the reading thread, at the grain of sections with
interrupts disabled: one core, so that thread steps are enabled when the handler
is idle, while the line goes on. The handler stores (`IsrStore`), leaves its loop
(`IsrDrained`) and calls the indicator (`IsrNotify`, with `rt_sem_release`); the
thread reads (`ReadByte`, `ReadNone`), waits (`rt_sem_take`), is resumed
or times out. `RymBegin`, `RymAttach` and `RymDetach` are the hand-over of the
device. A detached semaphore has the value `Dead`. Bytes are numbered, so that
order and loss are visible.

`RxQueue` is the promise: a queue of `Cap` bytes that loses its oldest byte, and only
when full. The mapping reads the ring from `get_index` to `put_index`; a ring of
`N` is a queue of `N - 1`.

### MhPin

One port: ports share nothing. Every pin has a client, and clients call attach,
enable, disable and detach in any order, whatever they were answered: the driver
checks neither. Detach frees the entry whoever holds it and leaves trigger and
channel as they are; enable has no case for the level modes, so that the pin keeps
the trigger it has. `robbed` are the clients whose entry another one has detached,
`meddled` says that the channel is as somebody else than the holder left it. The EXTI
status register is a set of pins; `EXTI_ClearITPendingBit`, as the handlers call it,
clears all of it.

### MhRtc, MhPwm, MhWdt

`MhRtc`: a time is a number of seconds, a day has `Day` of them. The two reads in
`mh_rtc_get_secs` and the two writes in `mh_rtc_set_secs` are separate steps, in
either order for the reads, since C does not order them; so are the test, the
`mh_rtc_init` and the flag of `rt_device_open`, for both threads. In `MhPwm`,
`WriteGet` and `_pwm_write` are the two calls of a pulse write, between which
others may come. `MhPwm` and `MhWdt` keep the widths: registers and 32-bit products
are taken modulo `Words`. In `MhWdt`, starting a watchdog that runs changes nothing.
`MCDrivers` puts pin, clock, PWM and watchdog side by side; a behaviour exercises one
of them.

## 4. Runs

| Run | Checks | Result |
|---|---|---|
| `boot_power_cuts` | `TypeOK`, `RunsWhole`, `Recoverable`, `AtomicUpgrade`, `ReachesApplication`, `UpgradeInstalled` | hold with three power cuts |
| `boot_faults` | `CommittedInstalled`, `TouchedOnlyForVerified`, `DefaultLastResort`, `BootSettles` with malformed packages, with and without a `df_area`, failing operations and a power cut | hold |
| `boot_short_image` | `RunsWhole` for a package that decodes to less than `raw_size` | **violated** |
| `stream_layouts` | `TypeOK`, `HandledInOrder`, `OnlyHandled`, `Terminates` on all layouts, cut-off packages included | hold |
| `stream_edge` | `InOrder` when a header may end a chunk | **violated** |
| `stream_long_block` | `DecodesAll` for blocks nearly as long as a chunk | **violated** |
| `flash_calls` | `TypeOK`, `WriteStores`, `EraseClears`, `PartitionContained`, `Returns` | hold |
| `ymodem_session` | `TypeOK`, `StoredIntact`, `AgreeOnSuccess`, `FileClosed`, `CleanSession`, `ReceiverReturns`, `SenderReturns` for `sy` or a terminal program against `ry` or `ymodem_ota` | hold |
| `ymodem_resend` | `InSequence` when a terminal program sends a data packet again | **violated** |
| `serial_rx` | `TypeOK`, `NoLostWakeup`, `IndicatorAlive`, `BoundedQueue`, `EveryByteServed` | hold |
| `board_drivers` | pins: `TypeOK`, `OneHolder`, `OnlyWhenEnabled`, `EdgeServed`, `NoStorm`; clock, PWM, watchdog: `RtcReadExact`, `RtcDateSets`, `PwmWaveAsAsked`, `WdtFedInTime` | hold |
| `wdt_too_large` | `TooLargeRefused` | **violated** |

What the violated runs show:

* `boot_short_image`: the size check of `rt_fota_upgrade` (line 745) finds the
  error, but the thread goes on to `__exit_boot_entry` and starts what is there.
  The version is not recorded, so the same happens at every power-up.
* `stream_edge`: when a block header ends exactly with a 4096-byte chunk, the
  header loop ends before the branch that loads the block, and the block before
  is written a second time; the rest of the package is misparsed.
* `stream_long_block`: a block that does not shrink (the compressors may produce
  these; `cmprs_buff` has room for them) and begins with a chunk is read from
  beyond `crypt_buf`. `stream_layouts` also covers the third case, a block with a
  split header that ends with the chunk, where `%` sends the parser back to the
  chunk's beginning.
* `ymodem_resend`: `_rym_trans_data` compares the sequence number with its own
  complement and never with the one that is due. A packet that is sent again
  because its answer was late is stored twice, and everything after it is
  out of place. The receiver reports success; the CRC of the bootloader refuses
  the package.

* `wdt_too_large`: the test of `wdt_control` for a timeout that is too large compares a
  32-bit product with `0xFFFFFFFF` and can never be true. A timeout that does not fit
  is accepted and programmed modulo 2^32, so that the board is reset early.

Facts that the models contain without a violated run:

* A board without a `df_area`, which is the one of `fal_cfg.h`, stays in the
  bootloader after an XOR or GZIP package, or one with an unknown compression: these
  are refused, or fault, only after the target has been erased. So it does after a
  failing operation in the upgrade, until the next power-up tries again. `BootSettles`
  says that these are the only ways to end there: without a failure and without a
  package that is not `WellFormed` the application runs.
* A package that names `download` as its target destroys itself and one that names
  `boot` the bootloader (`OwnErase`, `OwnProgram`).
* A flash call whose end address wraps at 32 bits leaves its partition
  (`WriteAstray`, `EraseAstray`). No caller in this build makes one.

* `WriteStores` and `EraseClears` are stated for the calls of `HandledWrite` and
  `HandledErase`, although FAL's documentation (`fal_api.md`) has no such
  restriction. A write that ends inside its first page programs the rest of the
  page with what follows the buffer in memory, and an erase that begins inside a
  sector can leave the end of its area as it was; both report success. No caller
  in this build makes such calls, and `PartitionContained` holds for them too.
* `CommittedInstalled` is checked with applications that pass the two-word check. A
  package that does not is recorded as installed before it is refused; a
  `df_area`, if there were one, then replaces it while the record stays.
* Bodies are read in whole chunks that start 96 bytes after a sector boundary, so a
  package that fills the last sector (`big` in `MCFotaBoot`) is accepted by
  `ymodem_on_begin` and refused by every verification (`Readable`).

* The properties about Ymodem state their exceptions where the code has them. A
  second `C` of the handshake that arrives after the header was sent makes `sy` give
  up (`CleanSession`). `sy` can never send to `ymodem_ota`: the size that
  `ymodem_on_begin` prints meets it where it waits for an `ACK`, and it returns
  `-RYM_ERR_ACK`, while the receiver times out with nothing written (`CleanSession`); a
  terminal program can. When the receiver gives up its handshake before it sees the
  header, `sy` waits for ever (`SenderReturns`); after an error `ry` leaves its file open
  (`FileClosed`); a failing `write` of `ry` goes unnoticed (`StoredIntact`); an empty
  file is stored by `ry` as a packet of padding (`Whole`); the padding of the last packet
  must find erased flash (`Writable`); an end packet that begins with STX is an
  error (`RFinPacket`).
* `is_full` of the ring is set when a byte is pushed out, when the indices differ
  in any case: the ring never holds `N` bytes, and `is_full` has no effect
  (`RingInv` of `SerialRxProofs`).
* The RTC loses the time since power-up when the device is first opened
  (`mh_rtc_init` clears the counter); a read that overlaps a set may be wrong by the
  whole counter; a `date` whose two halves fall on two sides of midnight is wrong
  by a day. A changelog line of `rtc.c` speaks of a scheduler lock that the code
  does not have.
* A PWM pulse as long as its period makes the low level as long as a register can
  say. A `PWM_CMD_SET` between the two calls of a `_pwm_write` is undone by it.
* Detaching a pin leaves its trigger armed. It keeps interrupting the next holder
  of the port, whose handler then runs for a pin that is not its own; the
  handler gets no pin number. A client that detaches, enables or disables a port it
  does not hold does so to the holder (`robbed`, `meddled`). A pin attached with a level
  mode is enabled with the trigger it had before, if any. An edge that comes between
  the handler and the clearing of the status is lost.

### Bounds

* Boards: `app` of three sectors, `font` of one, `download` of three, of two in
  `boot_faults`. Three sectors give every loop a first, a middle and a last turn. The
  packages of `boot_power_cuts` are an application of two sectors, one of three (so
  that upgrades grow and shrink the application), one for another partition and one
  that fills the download partition. `boot_faults` has nine images: an application and
  the packages with an unsupported cipher, an unknown compression, larger than their
  partition, decoding to less or to more than `raw_size`, for `download` (one that fits
  and one that does not) and for `boot`. Its board has `df_area` with an application, or none.
* Three power cuts: one in the download or the upgrade, one in its repetition,
  one in the version record after that. Two faults with one cut.
* Streams: chunks of eight bytes, headers of two, up to three blocks of
  every size up to eleven, and four blocks of sizes that fall short of a chunk,
  fill it or pass it, whole and cut off after every chunk: every position of a header
  and of a block end relative to the chunk ends occurs. Headers that are none say
  any size up to `Wild` = 12, one and a half chunks and more than `cmprs_buff`, so that
  garbage ends inside the chunk, with it, and beyond.
* Flash: pages of two words, sectors of two pages, partitions of one and of two
  sectors; two calls in a row, so that the second meets the leavings of the
  first. Of the calls that wrap, those that end at the first bytes of the partition
  and begin before it, in the last sector or word of addresses, or all around.
* Ymodem: packets of two bytes (STX: four), sequence numbers modulo three so that
  they wrap within a file, a partition of one and a half sectors; files that are
  empty, end inside a packet or with one, need the wrap, do not fit, or leave no
  erased room for the padding; one or two files; two faults and one repetition, so
  that a fault can hit the recovery from another; three tries of the handshake.
* Serial: a ring of three bytes, five bytes on the line (the ring wraps and
  overflows twice), semaphores that saturate at two, reads of up to two bytes,
  one Ymodem session between two phases of the shell.
* Pins: three clients of one port (a holder, a successor, one that is refused), with
  a mode for one edge, the one for both and one for a level. The channel is switched by
  whoever calls, so that two clients already meddle with each other.
* Timers: days of three seconds, two `date` commands and three seconds passing;
  words of twenty values, periods whose product overflows them, two writes of a
  pulse after each set; watchdog timeouts up to one that wraps.

`CHECK_DEADLOCK FALSE` is set where the system may stop: a bricked board with its
power cuts used up, a decoder that has returned, a driver nobody calls.

### Fairness

`FotaBoot!FairSpec` is weak fairness of `BootStep`: the bootloader is one thread
with nothing that blocks it between power-up and the jump. Neither the power
supply nor the application owes a step; power cuts are bounded, which is the
premise "once power stays on". `FotaStream` and `MhFlash` model sequential
functions, which go on to their return; callers need not call.

`Ymodem!FairSpec`: a receiver or sender that has begun reads what is there and
its timeouts expire; the terminal program and the line owe nothing.
`SerialRx!FairSpec`: a pending interrupt is taken, the ready thread runs (the shell
is the only reader and priorities above it are bounded work), a timer that is
set goes off. `MhPin!FairSpec`: an interrupt that stays pending and enabled is
taken and its handler ends; `FairBoardSpec` of `MCDrivers` is the same, and claims no
liveness of the other drivers.

## 5. Proofs

`FotaBootProofs` proves, for every partition table, every set of packages and
any numbers of power cuts and faults that satisfy `FotaAssumption` (types of the
constants, and that the board starts with a bootable application):

* `TypeCorrect`: `Spec => []TypeOK`. `TypeOK` is not inductive: the loop counters
  stay in range only because `fota_part_head` belongs to a package whose target
  exists and whose size was compared with the partition, and because the
  download was compared with its partition. `TypeInv` adds this as `HeadInv` (while
  it is used, the head in RAM agrees with the flash it was read from) and
  `SessionInv`.
* `TouchedOnlyForVerifiedHolds`: `Spec => TouchedOnlyForVerified`, an action
  property, from `HeadInv` and the lemma `MemChange` that only erase, copy and a
  cut in the middle of them change a target partition.
* `CrashRecoverable` and `CrashRunsWhole`: `Reliable => (Spec => []Recoverable)`, and
  the same for `RunsWhole`. `Reliable` says that no flash operation or
  allocation fails and that packages are well formed (supported algorithms, decode
  to `raw_size`, an application for the application partition); `boot_short_image`
  shows that the latter is needed. `Recoverable` alone is not inductive: that the
  copy ends in a whole application depends on what the loop has done so far.
  `CrashInv` adds `ProgressInv` (sectors below `k` are erased, then written; those
  from `k` on are still erased during the copy) and that the application is whole
  wherever the version is recorded or a jump is tried. The proof has one step per
  action; a sector step for another partition keeps the application
  (`OtherTarget`), one for `app` keeps the package waiting (`StillWaiting`).
* `BootPassBounded`: when no partition that a package may name, `download` and `boot` included, has more than `L` sectors, every step
  of the thread lowers `StepsLeft(L)`, which is at most `4 * L + 16`. Only a
  power cut, a reboot of the application or a power cycle begins the count again.

`FotaUpgradeProofs` goes on from there:

* `DefaultLastResortHolds`: `Spec => DefaultLastResort`, from an invariant that
  carries the refusal of `rt_fota_start_application` to the first sector that
  `rt_fota_upgrade("df_area")` erases.
* `CommittedInstalledHolds`: `DefaultIsApplication => (Spec => []CommittedInstalled)`,
  with any packages and failures. `CommitInv` adds what the copy loop has written
  so far (`CopyInv`), that the head of a session under way says "not installed"
  (`SessionHead`), and that the default package replaces no application that is
  recorded (`DefaultInv`). `DefaultIsApplication` is true when there is no
  `df_area`, as in this build; otherwise it says that the package there is an
  application, and that applications pass the two-word check.
* `AtomicUpgradeHolds`: `Reliable => (Spec => AtomicUpgrade)`. Initial states map to
  initial states; every action is shown to be `Receive`, `Upgrade`, `Commit`,
  `PowerUp` or `Run` of `OtaAtomic`, or to leave `image` and `pending` as they are. It
  rests on `CrashInv`, `CommitInv` and `StartInv` (no application is started while
  a package waits).

`FotaStreamProofs` proves `StreamTypeCorrect`, `HandledInOrderHolds` and
`OnlyHandledHolds` for every chunk and header size, every capacity of `cmprs_buff`,
every layout and every size that is parsed where there is no header. The invariant
says that the decoder is `OnTrack` (its position is where the next block starts, and
all blocks so far were handled), just `OffTrack` (the next header is none) or has
written garbage, and how many chunks have been read (`ChunkInv`). `IsLayout` has for this proof a conjunct that says that no
two blocks overlap; it follows from the one before it by induction over the blocks,
which is out of the prover's reach, and excludes no layout. `DecoderBounded` shows that
every turn of the loops, on a body they cannot handle too, reads a chunk or moves
`block_hdr_pos` on in the one that is there, whatever size it parses, and ends within a
turn for every byte of every chunk (`TurnsLeft`).

`MhFlashProofs` proves `FlashTypeCorrect`, `PartitionContainedHolds`,
`WriteStoresHolds` and `EraseClearsHolds` for every page, sector and word size and
every partition table aligned to sectors; what is said of a partition or of the chip
is about calls that do not wrap. `FlashInv` says how far the page loop
(`WriteInv`) and the sector loop (`EraseInv`) have come and what they leave behind
them. Most of the proof is arithmetic of quotients and remainders. `CallBounded`
shows that a call ends within `size + 1` turns, one that wraps too; what could fail there is that the
remainder of a division gives a piece of no bytes (`PieceNotEmpty`).

`MhPinProofs` proves, for any set of pins and modes: `PinTypeCorrect`, `PinOneHolder`
and `PinOnlyWhenEnabled`, with clients that call in any order. `Held` says that the
entry holds the mode its client asked for and that a client is `robbed` exactly when
another one has detached it; `Channel` that, unless somebody meddled, the channel of
the port is on only while the holder is enabled, with its own trigger if the mode is
one for edges, and that calls of the driver wait for the end of the handler.

`SerialRxProofs` proves, for every size of ring and semaphore and any number of
bytes, reads and sessions (`SizesAssumption`): `RxTypeCorrect`, `RxNoLostWakeup`,
`RxIndicatorAlive` and `RxBoundedQueue`. `NoLostWakeup` says only what holds of a
suspended thread. Its strengthening `WakeInv` says that a thread about to call
`rt_sem_take` after it found the ring empty finds a positive value if a byte has
come since; `RingInv` that the length the handler computes is zero only for an
empty ring; `LineInv` that a byte left in the register keeps the interrupt
pending; `SemInv` that indicator, semaphore and mode agree. The argument does not
need the number of releases to equal the number of bytes, which is why saturation
at `RT_SEM_VALUE_MAX` does no harm. For the refinement `BoundedQueue`, `UnreadIs`
describes the mapped queue by the two indices; `StoreMapped` and `ReadMapped` are
the two steps that change it.

`TimersProofs` proves `RtcReadExactHolds`, `RtcDateSetsHolds`, `PwmWaveAsAskedHolds`
and `WdtFedInTimeHolds` for every length of a day, clock rate and register width
and any number of calls. `TimersAssumption` has the types of the constants, that a
tick is no shorter than a nanosecond, and that the shortest pulse and period and
the largest argument fit in a register. `DateInv` follows a `date` through its
steps, while the other thread may clear the counter late; `ReadInv` says what a read
under way has that is still valid; `WdtInv` that the counter was loaded with what the
client was promised at that time. For the PWM, a write that is between its two calls
carries the period it has read and what was asked for then.

`YmodemProofs` proves, for any packet sizes and sequence numbers, sessions of any
number of files, and any number of faults, tries and repetitions:
`YmodemTypeCorrect`, `AgreeOnSuccessHolds`, `FileClosedHolds` and
`StoredIntactHolds`. That both ends agree is
far from inductive, since packets and answers of two files may be on the line at
once. `CountInv` says that the receiver is in the sender's file or in the one
before, and that a `NAK`, which is sent once for each file, still belongs to the
sender's file when it is on its way; `LineInv` that no EOT overtakes the packets
before it, and that the line never holds more than the end of one file and the
beginning of the next; `EndInv` that the empty header follows the last file;
`BeforeInv` that a receiver in its handshake has sent nothing but `C`. Losing,
damaging and reading only thin the line out (`Thinner`, `Quieter`), which is the
argument for all faults at once.

`StoredIntact` needs more, since the receiver does not compare a sequence number
with the one that is due: what keeps data in its place is that the sender waits.
`SInv`, inductive together with `YInv`, says that of the data packet sent last
either (`Pending`) it has not been stored, then it is the only one on the line, behind
any headers, with no `ACK` for a sender that still listens; or (`Settled`) it has,
then no data is on the line and at most one `ACK` under way. `BetweenInv` carries this
over the end of a file and the next header, where an `ACK` of the old file must not be
taken for one of the new, and `PositionInv` says which packet the sender is at.
`Holds(store, f, n)` describes what is stored by the number of packets, with the padding
that `ry` cuts off and `ymodem_ota` keeps (`RyStores`, `OtaStores`). The premises
`~dup` and `~nowrite` are in the property: `ymodem_resend` shows what happens
without the first.

`CleanSessionHolds` is `MaxFaults > 0 => (Spec => []CleanSession)`. `CInv` says, for a
session of `sy` in which nothing has been lost, damaged or late: with `ry`, that it was
disturbed by a second `C` of the handshake, or that it is in `LockStep`: one of
`BeforeHeader`, `HeaderSent`, `HeaderAnswered`, `DataSent`, `DataAnswered` and `Ending`,
each of which says where both ends are and what is on the line. `Leftover` is what makes
it more than a sequence: `C`s of a handshake nobody listened to may still be in front
of the answers. With `ymodem_ota`, `NeverTaken` says that whatever `ymodem_on_begin`
answers has a text in front of it, so that `sy` never gets past the `ACK` of its
header. The premise `MaxFaults > 0` is about the model's counter only: a timeout of the
receiver while the sender is slow counts as a fault, and with a bound of zero it could
not be counted.

`SessionBounded` shows, for any `M` that no file reaches, that every step of either
end and of the line lowers `SessionLeft(M)`, which begins with at most `AtMost(M)`. A
packet that is read gives at most three answers, a text among them, and an answer at
most one packet, so that a packet weighs four answers; and each packet the sender adds
costs it a step in its files (`SenderLeft`) or a repetition, each `C` the receiver adds a
try (`ReceiverLeft`).

Every inductive invariant was model-checked on the runs' instances before it was
proved.

What is only model-checked:

* the liveness properties (`ReachesApplication`, `BootSettles`, `UpgradeInstalled`, `Terminates`,
  `Returns`, `ReceiverReturns`, `SenderReturns`, `EveryByteServed`, `EdgeServed`,
  `NoStorm`): liveness under fairness is out of the prover's reach. For
  `BootSettles`, `Terminates`, `Returns`, `ReceiverReturns` and `SenderReturns` the
  theorems `BootPassBounded`, `DecoderBounded`, `CallBounded` and `SessionBounded` leave
  one thing to TLC: that a step is possible, and taken, as long as the end has not
  been reached.

## 6. Not modelled

The decompressors, the AES code and the CRC are pure functions of vendored or
table-driven code; the models assume that they are right. So is the CRC16 of
Ymodem, which is taken to detect damage; a packet that lost bytes gives the errors it
can give, but the bytes that follow are not parsed out of step. Of the drivers,
register set-up, transmission (a busy wait for every byte) and reading or writing
a pin have no state worth a model. The clock is not modelled up to its
overflow in 2106. The bootloader's shell, its key check and the
`fota` command are compiled out (`bootloader/src/rtconfig.h` has no
`RT_USING_FINSH`). The `-p` option of `ymodem_ota`, which lets an operator overwrite
any partition, is outside the upgrade path. The HTTP download is not enabled.

Nearly all of the repository's lines are third-party: the RT-Thread kernel with its
file systems, several versions of lwIP and other components, most of which this
board does not compile, CMSIS, and the vendor's register library. Of these
only what the modelled parts lean on is modelled (semaphores, the serial and
RTC frameworks), so that the share of all lines that is modelled is small;
of the board's own code it is most.

## 7. Running

    tlc -config BootPowerCuts.cfg MCFotaBoot
    tlapm FotaBootProofs.tla
    tlapm YmodemProofs.tla

and likewise for the other configurations and the other `*Proofs` modules; `PROJECT.json` names the module of
each.
