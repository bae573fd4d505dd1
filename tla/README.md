# TLA+ verification of the EmbedSky TQ2440 boot loader and drivers

The repository holds two trees for the EmbedSky TQ2440 board (Samsung S3C2440,
one ARM920T core, NAND flash, DM9000 Ethernet):

* `u-boot-1.1.6`: U-Boot, adapted to the board (`include/configs/EmbedSky.h`);
* `linux-2.6.30.4`: a Linux kernel with the vendor's drivers.

Both are largely vendored. The project models the parts that carry the board's
own logic or that the board's use depends on: the ways images get onto the board
(network, serial line, NAND), the environment, the first-stage loader, and the
vendor's drivers that have concurrency of their own.

## Inventory

| component | state | operations | interacts with | hard because |
|---|---|---|---|---|
| network loop, ARP (`net/net.c`) | `NetState`, the receive and the timeout handler, the packet parked for ARP and its retry counter, the server's MAC | `NetLoop`, `NetStartAgain`, `NetReceive`, `ArpTimeoutCheck`, `NetSendUDPPacket` | calls the protocol's start and handlers, the protocol calls back to set handlers, state and timers; the Ethernet driver | two timers, callbacks that replace themselves, state that outlives a restart |
| TFTP client (`net/tftp.c`) | protocol state, ports, block numbers, wrap offset, timeout count, RAM | `TftpStart`, `TftpSend`, `TftpHandler`, `TftpTimeout`, `store_block` | network loop, TFTP servers | loss, repetition, reordering, several server sessions, 16-bit block numbers |
| DM9000 driver (`drivers/dm9000x.c`) | device up or halted | `eth_init`, `eth_send`, `eth_rx`, `eth_halt` | network loop | every way out of the loop must halt it |
| PING, BOOTP, RARP (`net/net.c`, `bootp.c`, `rarp.c`) | transaction id, retries | start, handler, timeout | network loop | late replies of earlier attempts |
| NFS client (`net/nfs.c`) | file handle, offset, RPC id | the same | network loop | not configured for this board |
| environment (`common/env_nand.c`, `env_common.c`, `cmd_nvedit.c`) | RAM copy, NAND copy, CRC | `setenv`, `saveenv`, `env_relocate` | NAND | power failure between erase and write |
| NAND, bad blocks (`drivers/nand`, `cmd_nand.c`) | blocks, bad-block table | erase, write, read with skipping | environment, boot | bad blocks in the middle of an image |
| first-stage loader (`board/EmbedSky/boot_init.c`) | NAND, RAM | copy of U-Boot to RAM | NAND | runs before anything can report an error; bad blocks, wrong bits |
| serial download (`common/xyzModem.c`, `cmd_load.c`) | block expected, retries, buffered block | open, read, close | the host's sender | loss and repetition, 8-bit block numbers |
| command loop, autoboot, menu (`common/main.c`, `cmd_menu.c`, `cmd_bootm.c`) | countdown, command line | `abortboot`, `main_loop`, the menu | all commands | - |
| key driver (`drivers/char/EmbedSky_irq.c`) | `key_values`, `ev_press`, requested interrupt lines | `open`, `read`, `poll`, `release`, `irq_interrupt` | kernel interrupt and wait-queue code, processes | interrupts between any two steps of a reader, partly failed opens |
| touch screen and ADC (`tq2440_ts.c`, `EmbedSky_adc.c`) | `ADC_LOCK`, `OwnADC`, sample counter, channel | interrupts, timer, `read`, `ioctl` | each other through `ADC_LOCK` | lock held across interrupts |
| key input driver (`tq2440_buttons.c`) | requested pins and interrupts, work items, reported state | probe, remove, interrupt, work, sysfs | input layer, workqueue | interrupts live during probe; reports in the middle of which the pin changes |
| camera driver (`drivers/media/video/tq2440/ov9650.c`) | state, command code, four image buffers, capture engine, interrupts, clock | `open`, `read`, `release`, interrupt | capture engine, processes | command handed to the interrupt while the engine runs; resources that several openers share |
| PWM, GPIO, backlight | one semaphore, registers | `open`, `ioctl`, `release` | - | - |
| USB download, WinCE, YAFFS, camera modules | - | - | - | object code without source |

What makes each part correct:

* **download**: whatever the wire does, success means the whole file is in RAM
  and its size is exported rightly; no acknowledgement is sent for a block that
  is not stored; a restart inherits nothing; the loop always has something to
  wake it and always leaves the device halted; every attempt ends;
* **key driver**: whoever has the device open keeps its interrupts; no change of
  a key is lost to a reader; the recorded level is the level of the key; a
  waiting reader is served;
* **environment**: after a crash the environment is the old one, the new one or
  the default one, never a mixture; a save that succeeded is what boots load;
* **NAND**: what is written around bad blocks is what is read around them, bad
  blocks are left alone, and commands end;
* **first-stage loader**: what is started is the image, in order, without sectors
  the ECC cannot correct;
* **serial download**: each block is stored once and in order, the end of file
  means the whole file, and the loader never waits for ever;
* **touch/ADC**: the converter has one user, the chain of samples does not break,
  points average four samples;
* **key input**: what is reported is the level of the pin in the end, and nothing
  is left after a failed probe or a removal;
* **camera**: a read ends, with a picture taken after it began, and the engine
  writes to allocated memory.

## Plan

1. *(done)* `Net`, `Tftp`: the network loop with the TFTP client, servers and
   wire; abstract specification `Download`; runs with loss, wrap and liveness;
   proofs of the safety properties and of the refinement, also for files whose block
   numbers wrap.
2. *(done)* `EmbedSkyIrq`: the key driver with interrupts; proofs.
3. *(done)* `TouchAdc`: touch screen and ADC sharing `ADC_LOCK`; proofs.
4. *(done)* `XyzModem`, `XyzLoad`: the serial receiver, and a sender and a bad line;
   proofs.
5. *(done)* `EnvNand` with the abstract `EnvStore` and proofs of the refinement;
   `NandUtil`: erase, write and read with bad blocks against a reference
   definition, and the proof that they agree with it.
6. *(done)* `Tq2440Keys`: the input driver with interrupts and workqueue; proofs.
7. *(done)* `BootCopy`: the first-stage loader; proofs.
8. *(done)* `Ov9650Camif`: the camera driver; proofs.
9. *(left)* PING, BOOTP and RARP as further protocols on `Net`; the Kermit receiver.

## Modules

| module | what it is |
|---|---|
| `Net` | the network loop as the protocols see it, ARP, the DM9000 at its interface, the wire |
| `Tftp` | the TFTP client on `Net`, TFTP servers, specification `Spec` |
| `Download` | abstract specification of a download |
| `TftpProps` | properties of `Tftp`, fairness, the refinement mapping to `Download` |
| `TftpInv` | the inductive invariants |
| `TftpProofs` | the theorems about the download |
| `MCTftp` | TLC instances: symmetry of ports and sessions |
| `EmbedSkyIrq` | the key driver, its properties and its inductive invariant |
| `MCIrq` | its TLC instance |
| `TouchAdc`, `TouchProofs`, `MCTouch` | touch screen and ADC drivers, their theorems, TLC instance |
| `XyzModem` | the X/YMODEM receiver and the load commands |
| `XyzLoad`, `XyzProofs`, `MCXyz` | the receiver composed with a sending host and a line, its properties and its inductive invariant; theorems; TLC instance |
| `EnvStore` | abstract specification of a saved environment |
| `EnvNand`, `EnvProofs`, `MCEnv` | `setenv`, `saveenv` and boot over NAND, the refinement of `EnvStore`, theorems, TLC instance |
| `NandUtil`, `NandProofs`, `MCNand` | the `nand` commands over bad blocks, theorems, TLC instance |
| `Tq2440Keys`, `MCKeys` | the key input driver, TLC instance |
| `KeysProofs` | the theorems about both key drivers, `EmbedSkyIrq` and `Tq2440Keys` |
| `BootCopy`, `BootProofs`, `MCBoot` | the first-stage loader, theorems, TLC instance |
| `Ov9650Camif` | the camera driver |
| `MCCamera`, `CameraProofs` | the TLC instance with one or two users, the properties and the inductive invariant of a single user; theorems about it and the driver |

Definitions whose comment begins "Wrong on purpose" are mutated forms of the
definition that follows them. They are not part of any specification; each shows
that a plausible slip in the code violates one of the properties.

### The network loop and the TFTP client

`NetLoop` is single threaded. One pass of its `for(;;)` goes through four program
points, the values of `pc`: `rx` (`eth_rx` hands on at most one frame), `arp`
(`ctrlc`, `ArpTimeoutCheck`), `timer` (the timeout handler) and `switch` (on
`NetState`). What a pass calls between two points is one action: an `RxBlock`
stores the block, sets the timer, sends the acknowledgement and may report
success, as the code does without interruption. The handlers are values
(`packetHandler`, `timeHandler`), so a handler that replaces itself, or that is
left in place by mistake, behaves as in the code.

* Time is untimed: an armed timer may be found expired in any pass. This covers
  the real timers, and `eth_send` may busy-wait for seconds, so that a timer can
  expire in the pass that armed it.
* A packet sent before the server's MAC is known is parked
  (`NetArpWaitTxPacket`), replaces what is parked, and restarts the ARP retries.
* Data: the file has `FileLen` units, unit `u` has the value `u`; `mem` is the RAM
  at `load_addr`. A DATA packet carries its 16-bit number (modulo
  `TFTP_SEQUENCE_SIZE`) and the units it holds, so a block stored at a wrong place
  shows.
* With `Reliable = FALSE` a frame stays on the wire when it is received: it may
  arrive never, late, out of order, or any number of times. With `Reliable = TRUE`
  it is delivered at most once, still in any order or never.
* Servers are external: they answer a request with an OACK, the first block or an
  error, open a new session (a new port) for every request they receive, send the
  next block only when the last one is acknowledged, and may give up at any time.
* `PortIdle` is an assumption on the environment: `TftpStart` takes its port from a
  timer, and the model assumes that nothing of an earlier attempt with the same
  port number is left in the network. The code cannot tell such packets apart.
* `ctrlc`, a failed `eth_init` and a failed `net_check_prereq` are actions
  (`CtrlC`, `NetLoopCallFails`).
* The value of `netretry` is chosen anew at each call.

Not in the model: multicast TFTP, the direct write to NOR flash and
`CONFIG_NET_MULTI` are not configured for this board; IP fragments, checksums,
ICMP redirects and answers to others' ARP requests do not change the state of
the loop (`RxNothing`); printed progress.

### The key driver

The board has one CPU: an interrupt runs between two steps of a process.
`open` (loop over the keys, undo loop when a request fails), `read` (test of
`ev_press`, the wait, clearing, copying byte by byte) and `release` are split into
as many steps as an interrupt or another process can separate. `open` runs under
`misc_mtx` of `drivers/char/misc.c`, `release` does not. `free_irq` is given a
`dev_id` that is the same for all openers, so it takes the line from whoever has
it (`FreeIrq`). Another driver may hold any line. A key may move at any time;
both edges are latched as one pending interrupt if it is not handled in between,
and an edge may or may not be latched while nobody has requested the line.

`poll` only reports `ev_press` and changes nothing. Each process opens the device
for itself: descriptors shared by `fork` or threads are not modelled. (With two
readers of one open file the first takes the event and the other goes on
waiting, by design of the driver.)

### Touch screen and ADC

`stylus_updown` and `touch_timer_fire` are split wherever another interrupt can cut
in (`at` says where each of them is); `stylus_action` is one step, as the header of
the module argues. A `read()` of the ADC is split at every register access, since
interrupts come anywhere; another process gets the CPU only in `copy_to_user`. The
converter is external: a conversion ends at any time and latches its interrupt, and
the stylus interrupt is latched only in the waiting mode that fits the movement.
`ReadTake` does not wait, as in the code (`!ADCCON&(0x1<<15)`).

### Serial download

One action is one return of `xyzModem_get_hdr` with everything its caller does until
the next call; the acknowledgement that the code defers (`xyz.tx_ack`) is sent by
that next call. A block is the piece of file it carries, its number modulo `BlkMod`
and which of its bytes are ^Z; padding is file offsets past the end, which are ^Z, and
the file itself has ^Z at the offsets `ctrlz`. Without a file length (XMODEM, or a
YMODEM header that gives none) the code takes three ^Z at the end of any block for
padding and cuts off all the ^Z there (`xyzModem.c` 640-657): the model does so too
(`TrimmedLens`), in the middle of the file and down to an empty block. The properties
therefore tell two cases apart: with the length told (`Known`) not a byte is missing,
otherwise nothing but ^Z is. `mem` is what was stored, as file offsets; the RAM has no
end in the model, as in the code, which checks no address. The branch of the load
commands that writes to NOR flash instead (`cmd_load.c` 1017-1027, 1073-1084) is not
modelled. The board's timeouts are actions
that are possible when nothing is on the line. The line loses and damages up to
`MaxFaults` messages of a download, in both directions. The host is external: it
answers, repeats when asked, may cancel, stop, or give no length in its header.

### Environment

`Setenv` is `_do_setenv` with the deletion of the old definition before the check of
the room, and with the checksum it leaves stale on overflow. `saveenv` erases block
by block and writes page by page; each step may fail, meet a bad block or be the
last before a power failure (`Boot`). The checksum is the
environment it was computed over, so it fits exactly when the data are the same.
`ActsAsStore` maps the NAND to the environment that a boot would load from it
(`Loads`), and shows that `saveenv` with all its failures acts as one value that is
kept, lost (the defaults) or replaced.

### NAND commands

`nand_write_opts` and `nand_read_opts` have the same loops; the inner one (`ScanBlock`)
goes on over bad blocks. The reference definition is `PlaceOf`: the k-th page of the
good blocks from an offset on. A page programmed twice is `Damaged`. The bad block
check wraps at the end of the device as `nand_block_isbad` does.

### First-stage loader

`NandReadLl` (small pages: skips a marked block, no ECC) and `NandReadLlLp` (large
pages: no bad block check, which is compiled out, and hardware ECC for every sector)
copy sector by sector; `errs` says how many bits are wrong in each sector. The
position of a single wrong bit is applied to `buf`, which has already moved on.

### Key input driver

Probe requests a pin and an interrupt for each key in turn, and every request may fail;
the undo loop, `remove` with `free_irq`, `cancel_work_sync` and `gpio_free`, and the
registration are steps of their own with the interrupts live. A report reads the pin
and sends the event in two steps, an interrupt may come in between. `timer_debounce`
is 0 in this driver, so an interrupt queues the work item at once.

### Camera driver

`camif_open` is split where it may sleep or be cut by an interrupt, `camif_read` at the
start of the capture, at the command, at the wait and at every turn of the copy loop.
The result of `request_irq` is ignored (854-864): it fails when another opener has the
line or there is no memory, and the file is open without a handler of its own. On a line
without a handler it sets the disable count back to 0 and starts the line
(`kernel/irq/manage.c` 621-624), also while another process, whose handler a close has
taken away, is copying with the interrupts disabled.
The engine is external: while capturing is on and the clock runs it writes the next
buffer and raises the interrupt. Assumed of it: once `CIIMGCPT` is cleared it writes
nothing more, and the last interrupt that `stop_capture` asks for (442-445) finds
capturing off, which the handler treats as nothing to do. A picture is known by the reads that had begun when
it was taken, so `Copied` tells a fresh picture from an old one.

## Runs

| run | bounds | checks | shows |
|---|---|---|---|
| `tftp_lossy` | file of 3 units, block sizes 1 and 2, 2 sessions, 2 ports, 1 timeout, 2 ARP tries, 8 block numbers; lossy, repeating, reordering wire | `TypeOK`, `SuccessMeansWholeFile`, `AlwaysATimer`, `HaltedOnReturn`, `AckedIsStored`, `ParkedIsCurrent`, `ImplementsDownload` | the download is right over any wire, and implements `Download` |
| `tftp_wrap` | file of 6 units, 3 block numbers, 1 session, frames at most once, no timeout repeats a packet | `SuccessMeansWholeFile`, `ExportedSizes` | the wrap offset places blocks rightly over two wraps; the rounding of `filesize+1` |
| `tftp_live` | file of 1 unit, 1 session, frames at most once, fairness | `EveryAttemptEnds`, `ReturnsWithoutRetry` | no attempt hangs; with `netretry=no` the command returns |
| `tftp_wrap_duplicate` | file of 5 units, 4 block numbers, repeating wire | `DuplicateIgnored` *(violated)* | a repeated block 0 is not ignored (Findings) |
| `irq_keys` | 2 processes, 2 keys, reads of 1 and 3 bytes, fairness | `OpenerHasAllIrqs`, `NoLostEvent`, `FollowsPin`, `WaiterServed` | the driver's exclusion and event bookkeeping; a waiting reader is served |
| `touch_adc` | 1 reader, at most 6 samples, fairness | `ConverterHasOneUser`, `TouchNeverStalls`, `FourSamples`, `ReleaseReported` | one user of the converter, an unbroken chain of samples; until a process reads the ADC, right points and a released stylus reported |
| `xyz_lossy` | short and long blocks of 4 and 8 bytes, files of 0, 5, 10 and 15 without ^Z, with three at 1-3 or six at 4-9, 3 block numbers, 8 retries, 3 faults, fairness | `StoredInOrder`, `CompleteAtEof`, `AckedIsKept`, `WaitingEnds` | the file is stored once and in order, only ^Z is ever left out, and the loader does not hang |
| `env_nand` | 2 names, 4 values of 1 or 2 bytes, room for 4, 2 blocks of 2 pages | `SealedIsLoaded`, `CrcLagsByDeletions`, `ActsAsStore` | saves are durable, crashes leave one of three environments |
| `nand_skip` | 3 blocks of 2 pages, 1 or 4 pages at every offset, 2 commands, every set of bad blocks, fairness | `ErasePlaced`, `WritePlaced`, `FailsForRoomOnly`, `ReadBack`, `CommandEnds` | the commands do what the reference definition says, and end |
| `keys_input` | 2 keys, 5 edges, fairness | `ReportedIsPin`, `NothingLeft`, `ChangeIsReported` | reports follow the pins; nothing is left behind |
| `boot_copy` | image of 5 sectors, pages of 1 and 2 sectors, 5 blocks, every set of bad blocks and wrong bits | `RunsTheImage`, `NeverRunsUncorrectable` | what is started is the image as far as the loader can tell |
| `camera_read` | 1 user, or 2, 2 buffers, 1 signal, fairness | `CopyUndisturbed`; for a user alone without signals `ReadIsFresh`, `BuffersLive` and, if the handler was installed, `ReadEnds` | reads end with a fresh picture; no copy is disturbed while no open starts the line anew |

Why the bounds are enough to see the interesting cases: two sessions let a
repeated request open a second transfer with another block size; two ports let
a restart overlap the datagrams of the attempt before; three blocks have a first,
a middle and a last (empty or short) one; one timeout gives both the retry and
giving up; two ARP tries likewise; six blocks over three numbers wrap twice. Two
keys and two processes let an `open` fail after one line was taken while the
other process opens, uses or releases; reads of 1 and 3 bytes are shorter and
longer than the keys. Six samples are more than the four of a point, so that late
conversions of a reader show; more readers only wait for the same lock, and the
theorems hold for any number. Files of 0, 5, 10 and 15 bytes over blocks of 4 and 8
have no block, a padded one, several, and mixed sizes; three ^Z end a short first block,
and six fill a whole block in mid-file or the end of a file; three block numbers wrap, and
eight retries are more than three faults can use up. Room for 4 bytes lets a longer
value overflow after the old one is deleted. Three blocks have two bad neighbours
before a good block and a bad block at the end; four pages from the second page
of a block fill the next block and go into a third; two commands are what writing and
reading back takes. Five edges move both keys forth and back during one report. Two
buffers make the engine come round within a read. Deadlock is checked except in
`nand_skip` (the number of commands is bounded), `boot_copy` (the copy ends) and
`camera_read` (see Deviations: a reader may wait for ever).

Every module also states a type invariant. All are proved; `TypeOK` is checked by
`tftp_lossy` as well.

### Findings

*A repeated block 0 is not ignored.* `tftp.c` moves `TftpBlockWrapOffset` for
every packet numbered 0 (lines 316-319) before it compares the number with the
last one (line 357, "Same block again; ignore it."). A retransmitted block
65536 therefore places all later blocks 65536 blocks too high. This is why
`tftp_wrap` is run with frames delivered at most once, and why `WrappedDownload` assumes it.

### Deviations

Places where the code does not do what a comment or a document says of it, or what it
evidently means to do. The modules have what the code does; the intended property is defined there as well,
belongs to no run, and TLC refutes it when it is put in the run's configuration in
place of the properties, with the constants given.

| definition | constants | what the code does |
|---|---|---|
| `TftpProps.OnceFailsAfterOneTry` | `tftp_lossy` with `NetRetryValues = {"once"}` | `netretry=once` retries for ever: `once` is used only under `CONFIG_NET_MULTI` (`net.c:593`; U-Boot `README:2607`) |
| `TouchAdc.EndOfConversion` | `touch_adc` | `while(!ADCCON&(0x1<<15));` never waits: a read takes the value of an earlier conversion, and its own ends after the lock is given back, where the touch driver counts it as a sample (`EmbedSky_adc.c:146`, "end of conversion") |
| `XyzLoad.CopiesNewData` | `BlkMod = 256`, `MaxRetries = 20`, `MaxCrcRetries = 10`, `Sizes = {4}`, `FileSizes = {5}`, `CtrlZs = {{}}`, `MaxFaults = 10` | a repeated block in the last of 20 retries is copied as new data: `xyz.len` is still its length (`xyzModem.c:681`, "Just re-ACK this") |
| `XyzLoad.CopyWithinBuffer` | `BlkMod = 256`, `MaxRetries = 20`, `MaxCrcRetries = 10`, `MaxFaults = 0` | after a cancellation with part of the buffer filled the next read copies with length -1 (`xyzModem.c:717`) |
| `XyzLoad.KeepsTheFile` | `xyz_lossy` | without a file length, ^Z that belong to the file are cut off as padding when three or more end a block (`xyzModem.c:648`, "tries to detect and remove them") |
| `EnvNand.SavedIsLoaded` | `env_nand` | a `setenv` that overflows has deleted the old value and left the checksum; `saveenv` succeeds and the next boot drops all variables for the defaults (`cmd_nvedit.c:316`) |
| `NandUtil.PlainStopsAtBad` | `nand_skip` | `nand write` without suffix programs bad blocks (`nand_base.c:1849`; `doc/README.nand:76` says it stops) |
| `NandUtil.BadReadAsErased` | `nand_skip` | `nand read.jffs2` skips bad blocks and reads on behind them, as `doc/README.nand:226` says; `doc/README.nand:64-67` says that the data of bad blocks are read as 0xff |
| `NandUtil.ErasePlaced` without the conditions on offset and fault | `nand_skip` | an erase that is refused or fails in some block reports OK (`nand_util.c:191`) |
| `Tq2440Keys.DisabledAsAsked` | `keys_input` | writing to `disabled_keys` disables nothing: `n_buttons` is never set (`tq2440_buttons.c:429`) |
| `BootCopy.OneBitCorrected` | `boot_copy` | a single wrong bit is corrected in the sector behind (`boot_init.c:429`) |
| `BootCopy.BadBlockChecked` | `boot_copy` | the block after a bad block is copied unchecked (`boot_init.c:285`) |
| `BootCopy.SkipsLoseNothing` | `boot_copy` | `nand_read_ll` counts the blocks it skips as copied, so the end of the image is left out (`boot_init.c:285`); `RunsTheImage` says how much |
| `Ov9650Camif.OffWhileCopying` | `camera_read` | a close and an open of another process during a copy start the interrupt line anew, and a picture becomes valid under the copy (`ov9650.c:854`, `902`; `kernel/irq/manage.c:621`) |
| `Ov9650Camif.ReaderHasHandler` | `camera_read` | an open whose `request_irq` failed succeeds, and its reader waits for an interrupt nobody handles (`ov9650.c:854`, "setup ISRs") |
| `Ov9650Camif.ClosedIsStopped` | `camera_read` | after an interrupted read and a close the engine goes on, and writes to freed pages: `clk_disable` leaves the count that `camif_init` has taken (`ov9650.c:931`) |
| `Ov9650Camif.BuffersWhileOpen` | `camera_read` | the first close frees the buffers of the others (`ov9650.c:937`, "only when the camif is latest close") |

With `Alone` weakened to `users = {"p"}` TLC also refutes `ReadIsFresh` (after an
interrupted read two pictures are valid, and the older one may be returned,
`ov9650.c:899`) and `ReadEnds` (an interrupt that carries out the stop command left by
an interrupted read, between lines 409 and 414 of the next one, leaves that read
waiting with the engine stopped).

### Fairness

`FairSpec` of the download: weak fairness on the steps of the loop that need no
input (`LoopStep`: the loop is single threaded and keeps running), strong
fairness on the expiry of an armed timer (a timer looked at in every pass is
found expired sooner or later; a block that re-arms it is one of finitely many,
since the wire delivers at most once in this run), weak fairness on `Expire`
(datagrams do not live for ever). Servers, the wire and the user get none: no
answer, no delivery and no ctrl-c is assumed.

* `FairSpec` of the key driver: weak fairness on `Run(p)`, what a process does once
  the scheduler runs it. Calls of user mode, keys and interrupts get none;
  `WaiterServed` starts when the interrupt has set `ev_press`.
* `FairSpec` of touch and ADC: weak fairness on what hardware and kernel do by
  themselves (conversions end, interrupts are served, timers expire, handlers go
  on). The stylus and the readers get none.
* `FairSpec` of the serial download: weak fairness on the loader, whose waits have
  timeouts, and on the host's answers. The line's faults get none.
* `NandLiveSpec`: weak fairness on the steps of a command, the only thing that runs.
* `KeysLiveSpec`: weak fairness on served interrupts and on a thread that is in the
  middle of a report; strong fairness on `Work(k)`, since the workqueue is first in,
  first out: an item that is queued again and again while others run gets its turn.
* `CamFairness`: the camera delivers frames while the engine captures, interrupts are
  served, and a process that can go on does. Calls and signals get none.

## Proofs

`TftpProofs`, for every file, block size, number of ports and sessions, timeout
and retry limit, with `Reliable` true or false, from the assumptions
`NetAssumption` and `TftpAssumption`:

* `LoopSafety`: `Spec => [](AlwaysATimer /\ HaltedOnReturn)`, without further
  assumption. `AlwaysATimer` is not inductive: a timeout handler is cleared before it
  runs, so one has to know which handlers go together, when a timeout leads to
  failure, and that failure has halted the device (`LoopInv`).
* `ParkedSafety`: `Spec => []ParkedIsCurrent`, without further assumption, from
  `ParkedInv`: until the server's MAC is known, the request is parked and the
  network holds nothing of this attempt.
* `TypeCorrect` and `SizesCorrect`, `Spec => []TypeOK` and `Spec => []ExportedSizes`,
  without further assumption, from `TypeInv`.
* `DownloadCorrect`, `AcksHonest`: from `NoWrap`
  (fewer blocks than block numbers for every block size). The inductive invariant
  `IInv` says who may have sent what: every packet from a server belongs to an
  open session and holds what the session's block size says (`DownOK`); before
  the client has settled on a session none is past its first packet
  (`UnlockedOK`); an acknowledgement of the current attempt is for the current
  session and vouches for all blocks up to its number (`UpOK`); the client's
  block size is its session's, and RAM is right up to the block before the last
  one sent (`LockedOK`). Without `UnlockedOK` a second session could hand over a
  block from the middle of the file as the first one.
* `Refinement`: `NoWrap => (Spec => ImplementsDownload)`: each step maps to a
  step of `Download` or to a stutter.
* `WrappedDownload` and `WrappedRefinement`: without `NoWrap`,
  `Spec /\ [][~Resend]_vars => []SuccessMeansWholeFile`, and the same for
  `ImplementsDownload`, if `Reliable`. Nothing is delivered twice (`Reliable`) and the
  client never sends a packet again after a timeout (`Resend`); packets may still be
  lost or late, the user may interrupt, a timeout may end the attempt and a new attempt
  meets the leftovers of the old one. `WrapInv` says that then the transfer goes
  in turns: either the request is under way (`NoSessionYet`), or this attempt has
  exactly one session, and it is the server's turn to send (`ServerToSend`) or the
  client's to take (`ClientToTake`); `HasBlocks` ties `TftpLastBlock` and
  `TftpBlockWrapOffset` to remainder and quotient of the number of blocks stored by
  `TFTP_SEQUENCE_SIZE`. Neither hypothesis can be dropped: TLC refutes
  `SuccessMeansWholeFile` with `Reliable = FALSE`, `TIMEOUT_COUNT = 0`, `FileLen = 4`
  and 2 block numbers (the finding above), and with `Reliable = TRUE`,
  `TIMEOUT_COUNT = 3`, `FileLen = 8` and 2 block numbers, where a repeated
  acknowledgement is held back for a whole round of numbers.

`KeysProofs`, on `EmbedSkyIrq`, for any number of processes and keys, from `IrqAssumption`:

* `IrqExclusive`, `NoEventLost`, `KeysFollow`: from `IrqInv`, which adds to the
  properties which lines a process holds in the middle of the loops of `open`,
  undo and `release` (`OwnInv`) and, for a reader in the middle of the copy, that
  with `ev_press` still clear what it has copied is current (`EventInv`).

* `IrqTypeCorrect`: the types, from the same invariant.

`TouchProofs`, for any number of readers, from `TouchAssumption`: `TouchTypes`,
`OneUser` and `NeverStalls`, from `TouchInv`. The lock is taken in one context and
given back in another, so exclusion alone is not inductive; `OneDebt` says in which
steps of `stylus_updown` and of the timer `OwnADC` is set, hence that at most one
context owes the lock an `up()`.

* `PointsHaveFourSamples`: `Spec => []FourSamples`. Sampling is a chain of conversion,
  interrupt, handler and timer, and nothing but this chain counts samples. The
  invariant `SampleChain` adds that until a process reads the ADC the chain has one
  link at a time (`OneLink`): a conversion, a latched interrupt or an armed timer, the
  converter owned by the touch driver with it, the counter below 4 while converting, 4
  when the timer is armed, and 0 wherever a handler starts a chain or gives the converter back.

`EnvProofs`, for every set of names and values, buffer size, default environment and
number of pages, from `EnvAssumption`: `TypeCorrect`, `SaveIsDurable`,
`ErasedBeforeWrite`, `ChecksumLags`, and `EnvImplementsStore`, the refinement of
`EnvStore`. The invariant `EnvInv` adds `SaveProgress`: which pages `saveenv` has erased
or written up to `page`, and that a saved image is on all pages until the next save.

`KeysProofs`, on `Tq2440Keys`, for any number of keys and edges, from `KeysAssumption`:
`KeysTypeCorrect`, `QuietIsReported`, `RemovalIsComplete`, from `KeysInv`: what the loops
of probe and remove have requested so far (`Requested`), that the value in the middle
of a report is that of the pin or another report is to come (`ReadingOk`), and that a
key with a wrong report has an interrupt, a work item or a report on its way
(`ReportOnItsWay`).

`BootProofs`, for images, pages and chips of every size, every set of bad blocks and
every pattern of wrong bits, from `BootAssumption`:

* `StopsAtUncorrectable`, from an invariant that every sector passed so far is
  correctable (`PassedIsCorrectable`).
* `BootTypes` and `CopyRunsTheImage`: `BootSpec => []RunsTheImage`. `Walk` ties `buf` to
  the page and sector that are read, so that the rounded-up number of pages covers the
  image and stays in RAM; `CleanCopy` says that a copy with nothing in its way is right
  as far as it has come; `InOrder`, that without neighbouring bad blocks `nand_read_ll`
  never stands inside a bad block and `buf` is the number of good pages before `i`
  (`GoodBefore`); `LeftOut` bounds the pages left out by the bad blocks met so far. The
  lemmas on `GoodBefore` count a page, a row of good pages and a skipped block.

`NandProofs`, for every size of block and device, every set of bad blocks, lengths and
offsets, and every sequence of commands, from `NandAssumption`:

* `NandTypes`.
* `ErasesPlaced`: `NandSpec => []ErasePlaced`. `EraseProgress`: the loop stands at the
  beginning of a block, and the good blocks behind it are erased.
* `WritesPlaced` and `FailForRoomOnly`. The reference definition counts: page `k` of the
  image belongs in the page of rank `k` among the good pages from the origin on. The
  loop does not count, it looks at each block once and goes on page by page, so the
  invariant ties the two: between the origin and `mtdoffset` there are as many good
  pages as have been copied, and they have the ranks below that number (`Counted`, in
  `PagesCounted`), the block of the page has been looked at (`BlockLookedAt`), and the
  device is as it was except for the pages passed (`PagesWritten`). For a YAFFS
  image nothing is counted until the first good block is skipped. The lemmas say how
  the rank grows over a page and stays over a bad block, and that it tells good pages
  apart. No induction over the image is needed: the behaviour of the loop is the induction.
* `ReadsBack`: `PagesRead` is the same for a read; `ImageInPlace` keeps the image that was
  written in its place while only reads follow.

`CameraProofs`, from `CamAssumption` (finitely many processes) and `UserAssumption` (the
user `"p"` is one of them):

* `CameraTypes` and `CopiesUndisturbed`, `MCSpec => CopyUndisturbed`, for any number of
  processes and buffers. The type invariant holds the count of the clock, one more than
  the number of processes inside `read` or `open`; counting them at each step is the work.
  The interrupts are disabled at most as often as processes copy (`IrqDepth`). The history
  variable `crossed` of `MCCamera` is set when an open starts the line anew during a
  copy, until no process copies; while it is not set the two numbers are equal
  (`DepthIsCopiers`), so no interrupt comes during a copy.
* `AloneReadsFresh` and `AloneBuffersLive`, `MCSpec => []ReadIsFresh` and
  `[]BuffersLive`, for any number of buffers, from `AloneInv`: for a user alone the engine
  runs exactly from the start of the capture until the interrupt has seen the command
  to stop (`EngineFollowsRead`), buffers follow the open file (`BuffersFollowOpen`), and
  what is valid was taken for the current read, at least one buffer is when the
  copying begins, and none is left when it ends (`ValidIsFresh`).

`XyzProofs`, for every block size from three bytes up, set of file lengths, places of ^Z
in the files, range of block numbers and limit of retries, from `XyzAssumption` and `LoadAssumption`, and for the faults from
`FewFaults`, `2 * MaxFaults < MaxRetries`: `TransferTypes`, `TransferInOrder`,
`TransferComplete`, `TransferKept` and `TransferCopiesNew`, that is `[]` of `XyzTypeOK`,
`StoredInOrder`, `CompleteAtEof`, `AckedIsKept` and of the intended `CopiesNewData`.
The invariant `XyzInv` speaks of both directions of the line: at most one message or
answer is under way (`OneMessage`); the board has taken the sender's current block
(`Taken`) or waits for it (`Wanted`), which is why a number modulo `BlkMod` is enough to
tell a repeated block from a new one; all that the board has of the file (`Reached`) fits
what it has been sent (`Fits`): behind it, up to there, is nothing but ^Z, and with the
length known nothing of the file at all; what the host is at fits what the board has seen
(`HostInStep`); and every retry counted since the board has the block is paid for by a fault, at most two
by each (`RetriesPaid`, `Charge`). The hypothesis is sharp: with the 20 retries of the code
9 faults in a download are harmless, and with 10 TLC refutes `CopiesNewData` (Deviations);
on small instances with `2 * MaxFaults = MaxRetries` it refutes `StoredInOrder` and
`CompleteAtEof` as well.

The invariants were checked with TLC on the small instances first.

Only model-checked: liveness (fairness and `ENABLED` are outside the prover's reach),
the violation and the deviations. All other properties of the runs are stated by a
theorem. `tftp_wrap` has `TIMEOUT_COUNT = 0`, so that no packet is sent again, and is an
instance of `WrappedDownload`.

## Not modelled

See the components in `PROJECT.json`. PING, BOOTP and RARP (the same loop and timers
as `Net`; the board downloads by TFTP with a fixed address), the Kermit receiver and
`loads`; NFS and the other protocols behind options this board does not set; hardware
registers, the computation of ECC, image formats and ATAGs (data layout, no
protocol); the command loop and the menu, which run the modelled commands one after
the other; PWM, GPIO and backlight drivers (single register writes); modules
delivered as object code; the vendored kernel and file systems, which make up nearly
all lines of the repository and are not this board's own code.
