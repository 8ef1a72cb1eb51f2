# TLA+ models of the PC-FX core

This directory holds TLA+ specifications of parts of the PC-FX core for MiSTer,
the TLC configurations that check them, and proofs for TLAPS. The models follow
the Verilog in `rtl/` and the C++ of the CD support in `rtl/tb/mister_main`; the
line numbers of every definition are in `PROJECT.json` ("map").

    tlc -workers 2 -config Sdram.cfg MCSdram      # one run; PROJECT.json lists all
    tlapm CdDriveProofs.tla                       # the proofs of a module

A step of the hardware models is one rising edge of the clock named in the
module's header. The variables are the registers and the inputs during one
clock cycle; an operator named after a wire is that wire's combinational value
in the cycle. `Next` is therefore a conjunction of blocks, one per `always`
block, with the disjunction inside the block that has a state machine.
There are two exceptions: in `BackupXfer` host, memory port and loader take steps
of their own between two clock edges of the state machine, and `CdHost` is a
program, whose steps are passes of its loops.

A definition named `X_Y` is `X` with a plausible mistake `Y`. Such definitions
are not part of a specification; each is the mutation under which a property of
a run must fail ("mutants" in `PROJECT.json`).

## The system

Clocks: `CLK` (`clk_sys`) runs at 42.95 MHz, `clk_ram` at twice that, the CPU is
enabled on every second `CLK`. The pixel clock of KING (`DCKKR`) is a pulse
every 8 `CLK`, stretched to 10 at most once in a line.

| Component | State | Operations | Talks to |
|---|---|---|---|
| KRAM arbiter (`huc6272_fabric_bank`), one per bank | selected client, access running, acknowledge pending | grant on a pixel clock, pass a request to the DRAM, acknowledge on a pixel clock | five clients: fetch, ADPCM, RAINBOW, SCSI, CPU (in order of priority); channels 2 and 3 |
| KRAM tees (`huc6272_fabric_tee`) | none | route a client by its bank bit | clients, both arbiters |
| KING CPU interface (`huc6272_cpuif`) | register file, KRAM read and write pointers, posted write | register access, KRAM read and write, interrupts | CPU bus, tees, all KING units |
| KING fetch and background (`huc6272_fetch`, `_video`, `_bgm`, `_rsag`) | request, microprogram, pixel pipelines | one fetch per pixel clock | arbiter, video output |
| KING to RAINBOW (`huc6272_c71xfer`) | address, word buffer, raster counters | start on a raster, read words, hand out bytes | arbiter, `huc6271` |
| KING to ADPCM (`huc6272_c30xfer`) | two pointers, half and end flags | a word per request | arbiter, `huc6230` |
| SCSI initiator (`huc6272_scsi`) | DMA words, REQ and ACK edges, phase match | programmed and DMA transfers | target, arbiter |
| SCSI target and drive (`scsi.v`, `fake_cd`, `fifo1`) | bus phase, FIFO, command machine | commands, data in and out, abort | initiator, host |
| SDRAM controller (`sdram`, `sdram_bank`) | per bank state, bus schedule, refresh counters | reads and writes on three channels, refresh, start-up | SDRAM device, `memif_sdram` |
| Memory interface (`memif_sdram`) | who owns channel 1, pending CPU request, dwell | CPU cycles, loader/saver accesses | CPU, `pcfx_top`, controller |
| Backup RAM transfer and ROM loader (`pcfx_top`) | transfer state, copy engine, mount flags, toggled requests | load, save, automatic load and save, ROM download | `hps_io`, `memif_sdram` |
| RAINBOW (`huc6271`), sound (`huc6230`), video output (`huc6261`), VDC (`huc6270`) | decoders, mixers, counters | per pixel or per sample | KING, CPU |
| CD support of the simulation (`pcfx.cpp`, `mister_chd.cpp`) | track table, table of contents, one decompressed hunk, open files | mount a CUE sheet or a CHD file, read sectors | image files, the drive's sector buffer |
| Gate array and K-Port (`fx_ga`, `fx_ga_kpc`, `hmi2kp`) | interrupt masks, timer, serial shift registers | register access, joypad transfer | CPU, joypads |

What is hard: five masters share each KRAM bank and three channels one SDRAM,
and nothing waits for anything by the same rule (the fetch engine never waits at
all); answers are matched to requests by counting cycles or by toggles; resets
of the machine leave the memory running; refresh must fit where the video leaves
room; the host mounts images and downloads ROMs whenever it likes; a sector
passes four machines that pace each other by one-clock pulses, and the program
may break it off in any of their states. The "hazards" of `PROJECT.json` list these at their lines, with the properties that
watch them.

What makes each component correct:

- arbiter: one access at a time, the address of one client for its whole
  length, an acknowledge only for an access that was made, nobody forgotten,
  the fetch engine answered on every pixel clock;
- SDRAM: every command legal for the device, every word in its cycle, one READY
  per request, refreshes often enough and only in the blank;
- memory interface: each of two users gets its own access and no other, and
  neither shuts the other out;
- backup transfer: the image and the RAM agree word for word afterwards, no
  block outside the image, an end to every transfer, a mounted image loaded;
- tees and CPU port: read and posted write never mixed, the bank bit stable
  during an access;
- SCSI and drive: bytes in order, none lost or duplicated, the status after the
  last of them and of the right command, nothing left over for the next command,
  an end to every command, also an aborted one;
- CD support: each address gives the sector the image has there, each table of
  contents is that of the disc, whatever was mounted or read before;
- K-Port: the register shows the joypad as it was at one moment of the transfer, and a
  program that waits for the end sees it.

## Modules

| Module | Models | Lines of the code |
|---|---|---|
| `KingFabric` | arbiter of one KRAM bank, its clients' request lines, pixel clock | `huc6272_fabric_bank.sv` 41–102 |
| `KramServer` | what a KRAM bank promises, without clocks (abstract) | |
| `KingFabricRefines` | the refinement mapping between the two | |
| `KingFabricProofs` | the theorems about `KingFabric` | |
| `SdramChip` | the device: open rows, timers, data pipeline, what it allows | `tb/as4c32m16sb.sv` 97–315 |
| `Sdram` | the controller in operation: banks, scheduler, data registers, refresh entry | `sdram_bank.sv` 47–268, `sdram.sv` 121–128, 155–300, 339–398 |
| `SdramProofs` | the theorems about controller and device | |
| `SdramRefresh` | start-up, refresh counter and credit, refreshes in the blank | `sdram.sv` 65–152, 302–382 |
| `SdramRefreshProofs` | the theorems about the refreshes | |
| `MemIf` | CPU and loader/saver on channel 1 | `memif_sdram.sv` 121–260 |
| `MemIfProofs` | the theorems about it | |
| `BackupXfer` | backup transfer, ROM loader, shared port, host | `pcfx_top.sv` 401–449, 490–710 |
| `BackupXferProofs` | the theorems about transfer and loader | |
| `Fifo1` | the FIFO of the SCSI target, by itself and as a part | `fifo/fifo1.v` |
| `ByteQueue` | what that FIFO promises (abstract) | |
| `ScsiTarget` | target: bus phases, handshakes, writing side of the FIFO | `scsi.v` |
| `FakeCd` | the drive's commands, sectors and pacing | `fake_cd.sv` |
| `KingScsi` | initiator: registers, ACK, words, DMA | `huc6272_scsi.sv`, `huc6272_cpuif.sv` |
| `CdDrive` | the four of them, with program, host and KRAM | `mach.sv` 607–748 |
| `CdDrivePath` | what holds in every clock of that path: the inductive invariant | |
| `CdDriveProofs` | the theorems about FIFO and path | |
| `CdImage` | track table of CUE sheets and CHD files, table of contents | `pcfx.cpp`, `mister_chd.cpp` |
| `CdHost` | mounting and reading | `pcfx.cpp`, `mister_chd.cpp` |
| `CdHostProofs` | the theorems about both | |
| `KPort` | keypad port, pad, listening device, program | `fx_ga_kpc.sv`, `hmi2kp.sv` 52–75, `tb/kpc_tb.sv` 74–84 |
| `KPortProofs` | the theorems about the K-Port | |
| `MCKingFabric`, `MCSdram`, `MCBackupXfer`, `MCCdDrive`, `MCCdHost`, `MCKPort` | instances for TLC: loads, situations, commands, images | |

**KingFabric.** `ArbiterClock` and `ArbiterReset` are the clocked block of the
arbiter; `PrioHi`, `PrioSel`, `Req`, `AckPend`, `Ack`, `PrioAct`, `DmcReq` and
`CmAck` are its wires. Client 0 is the fetch engine, which may change its request
only on `DCK`; the others hold theirs until acknowledged (the clocked blocks of
`huc6272_scsi`, `huc6272_c30xfer`, `huc6272_c71xfer`, `huc6272_cpuif`). The
pixel clock is any sequence of pulses `MinDck` to `MaxDck` apart. The DRAM answers
within `MaxLat` and is not reset; `RESn` falls at any edge and stays low for at
least `MinReset` cycles, more than an access takes (the reset is held for much
longer than a few cycles by the framework and by the PLL).

**SdramChip, Sdram.** A word on the data bus is a token `<<bank, beat>>`, enough
to tell whose data is where. The device follows the assertions of the
simulation model, plus the write recovery time of `sdram_defs.svh`, which that
model lacks. A client asks again only after READY, as `memif_sdram.sv` does;
channels 2 and 3 ask on the pixel clock. Bank 3 has no client and its machine
never leaves IDLE; it is left out. The controller is modelled from the moment
its start-up is over.

**SdramRefresh.** The same main state machine, with the counters in full and the
banks reduced to the time they need to go idle. `init` may come in any state; what
the state does in that clock counts, but for the state that follows it (`Goto`). `debt`, `closed` and `rows` observe:
`debt` is the time run less the time paid for by refreshes.

**MemIf.** The two-phase handshake of the loader/saver is reduced to whether
request and acknowledge differ, and which one. The bank stays in each stage of an
access for any time up to `MaxStage`. `row` and `col` record whose address and
data it picked up at the two moments it looks, because `sdram_bank.sv` samples
its inputs on every clock. `served` and `cut` observe.

**BackupXfer.** Volume 0 is the internal RAM, volume 1 the FX-BMP card. `Clock` is
one edge of the transfer machine or of the copy engine, which run in turn; `Port`
stands for `MemIf`, `Host` for `hps_io.sv` and the program behind it. A word of a
file or of RAM is a token saying where it belongs, so that equality of contents
is equality of tokens. The host answers one block request at a time, mounts
images only between blocks, of whole blocks or with a part of one more
(`HostMounts`), and holds its acknowledge until the core has seen it
(it comes over a slow serial link). Start and end of a download do not fall
between a request of the loader and its acknowledge, since `ioctl_wait` stops
the link.

**Fifo1, ScsiTarget, FakeCd, KingScsi, CdDrive.** All of them have one clock, and a
step of `CdDrive` (`Tick`) is one edge for all, with CE of KING on every second.
The four lines that name a bus phase are one value, one-clock registers are
members of the sets `strobes`, `pulses` and `rf.pulses`. A byte is a token that tells
its sector and place, so that a byte in the wrong place shows. The FIFO keeps its
four copied pointers; Gray code is left out, as binary and Gray pointers are
updated together and compared for equality of what they stand for. The program
gives commands from `Plans` and acts on the registers at any of its clock enables,
or waits. It keeps to what the registers ask of software: it is slower than the pulses
its own accesses cause, than an ACK pulse, and than the two clock enables of
delay on REQ (`Slow`); starts a DMA only when the target asks and no old phase
interrupt is set; asks for whole words by DMA; resets the bus only between commands; and
raises ATN only during data from the disc, at most once in a command. The host
takes any time for a sector, KRAM any time for a word.

**CdImage, CdHost.** Sizes are in sectors; a sector is a token of its file and its place.
`toc`, `toc_buffer`, `hunkdata` and `hunknum` live through mounts as in the
code, with the pointer of the hunk buffer that is freed and kept: freeing it again either
ends the process or goes unnoticed. A hunk may fail to decompress, with its
buffer overwritten or not. `DiscTracks` and `DiscStored` say, independently of the code's
bookkeeping, what the formats mean; `disc`, `asked`, `leaked` and `chd_failed` observe.

**KPort.** A step is an enabled edge of CLK and the one without CE after it, at which the
pad sees KP_LATCH and KP_CLK change; RESn changes with CE only. All wires of
the port have their names; registers are sequences whose head is shifted out. The buttons are any
word at every step. An access of the program holds RDn or WRn for `AccessClocks`, so
a trigger is written and a flag is cleared several times over. The program listens, or
writes both halves and sends, waits for the flag or the interrupt, and reads both halves;
`stray` chooses once what other code does to the port meanwhile. `obs`, `seen` and `sent` observe:
a transfer counts unless the program writes the data or turns the direction during it.
The device that receives what is sent is the one of the test bench, since `hmi2kp` ignores KP_DOUT.

## Runs

| Run | Question | Result |
|---|---|---|
| `king_fabric` | five clients, a DRAM in time or later than two pixel clocks; is the arbiter a `KramServer` | yes; the fetch engine is in time when the DRAM is |
| `sdram` | three banks at any load with refreshes at any moment; is every request answered | legal and exact at any load; every request is answered with KRAM asking once a pixel clock |
| `sdram_pace` | is KRAM answered by the next pixel clock | no, see below |
| `sdram_refresh` | do refreshes keep up, also when the video stops or the PLL unlocks; do they stay in the blank | yes, in the blank from the third steady line on |
| `sdram_startup` | are rows closed before the first refresh | no, see below |
| `mem_if` | does each user of channel 1 get its own access, and get served | yes; the CPU if the loader/saver rests 7 clocks |
| `backup_xfer` | are loads and saves exact, with mounts at any moment, and with a download over the XORed request | yes, unless an image is mounted meanwhile; neither user is confused |
| `backup_autoload` | is a mounted image always loaded | no, see below |
| `k_port` | does a transfer bring the buttons of one moment, does what is sent arrive, does a program that waits get its result | yes, if no other code reads the data meanwhile |
| `cd_host` | is what is read what the mounted disc has, over any mounts and failed reads | yes, within the limits named below |
| `cd_drive` | does every byte of a command come to its place, and every command to its end | yes, also when aborted while the last sector drains |
| `cd_drive_abort` | is an aborted command over, whenever ATN comes | no, see below |

Bounds, and why they are enough:

- `king_fabric` has the five clients of the source. The pixel clock (4 or 5 apart
  instead of 8 or 10) and the latency are scaled together: `timely` chooses once between
  a DRAM that answers within a pixel clock and one that may take more than two,
  so that `ack_pend` is used in every way. The proofs hold for all values.
- `Sdram*.cfg` have the timings `sdram_defs.svh:19-31` computes at 85.9 MHz:
  `ns_to_cyc` adds half a cycle and its cast rounds again, which gives tRC 6,
  tRRD, tRCD, tRP and tWR 2, tRAS 4. `Loads` says how the clients ask; a behaviour
  keeps one load. The first of `BusyOrPaced` has requests and refreshes in any cycle, far more
  often than the timers can ask. In the others KRAM asks on the pixel clock of the source,
  every 8 `CLK`, which is 16 SDRAM clocks, or 2 `CLK` more at the end of a line (`LINE_END`):
  all three channels without refreshes, and the CPU with one KRAM channel
  with refreshes at least 16 cycles apart (670 in the source). `EveryRequestReady` speaks of
  these: with fixed priority and no pace KRAM alone can fill the bus. `sdram_pace` has the
  second load only.
- `SdramRefresh*.cfg` scale the line (5460 to 100 or 50), the blank and the interval
  together, keeping the relations the source has: a line is some intervals and a
  bit, the blank is split by the number of refreshes less one, an access and a
  refresh are short against an interval. `startup_refresh_max` and the start-up
  are the counter's width and count scaled the same way. `credit_max` is 4 in `sdram_refresh` instead
  of 15: one line needs three intervals paid for, and one more makes it saturate.
- `mem_if`: `MaxStage = 2` lets each stage of an access fall on every phase of the
  CPU's enabled clock, four cycles long. `LsPauses` has a loader/saver that
  never rests and one that rests for the dwell, chosen once.
- `backup_xfer`: two words a block and two blocks a volume are the first, the next
  and the last of each; the counters of the source are only compared and
  incremented, and a block of two words toggles the request an even number of times,
  as one of 128 does. `sd_lba_bk` wraps at `LbaValues`, one more than the blocks of the
  largest image, for 2^32: a step past any image shows, and a transfer that misses
  its last block comes back to it. A behaviour is in one of the situations of
  `MountsOrDownload`: no mount during a transfer, one or both images replaced in any cycle, or a
  download at the same time. An image may have no whole block and yet be mounted
  (`tails`: 1 to 511 bytes beyond the last one), and the menu's option to load by itself
  (`autoload`) is on or off. `backup_autoload` needs the state machine, not the
  data: one word.
- `cd_drive`: a FIFO of 4 cells instead of 64 and sectors of 6 bytes instead of 2048, so that
  a sector is longer than the FIFO and the FIFO runs full and empty within it;
  two sectors in a command, two DMA transfers in a sector (`Chunks`), commands of 2, 3 and
  4 bytes for 6, 10 and 12 and a delay of 1 or 2 clocks for thousands (they count down and are compared
  with 0). The plans have every command of the drive, an unknown one, a missing medium,
  sense data read whole, in part and not at all, and after each command another one, which would
  meet what the first has left. Aborts in this run come while the initiator sees the target ask for a byte
  of the last sector and more wait behind it, or none is to come: there the code promises to
  end the command. `cd_drive_abort` has ATN in any cycle.
- `cd_host`: the shelf `Mixed` has images of both kinds, good, bad and missing, mounted and read in any order;
  the others have one CHD file each and between them all shapes of two tracks
  (length above or at a multiple of the padding, pregap or none, stored or not), and some of
  three. Two sectors in a hunk put every sector in either place. CUE sheets have one file
  for all tracks, or one for each; a FILE line comes before the first track, and an INDEX 01 after
  the TRACK it belongs to (`InOrder`): for any other sheet `pcfx.cpp:269` and `:276` index
  the table with -1 or divide by a sector size of zero; a
  postgap is on the last track only; sectors are 2352 bytes.

- `k_port`: two bits instead of 32 and a tick of 3 clocks instead of 16: the sequencer is
  the same but for the number of its four-cycle rounds, of which only the first and the last are
  unlike the others. An access of 2 clocks instead of 5 is shorter than a tick, as in the
  source, so a trigger that is not kept would be missed. The two button states differ in every bit,
  so that any mixture shows.

Fairness. In the clocked models the only fairness is `WF_vars(Next)`, in `Sdram` the same in the
form `[]<><<TRUE>>_vars`: the clock does not stop. No choice inside a step is fair: the DRAM's bound on its latency is
in its action, the bank of `MemIf` leaves a stage by a bound, the program of `KPort` makes its next access as soon as
the last is over once it has triggered. In
`BackupXfer` the clock, the port and the host are weakly fair one by one, except
`Clock`, which is strongly fair: the steps of the port and the loader that could
keep it from being continuously enabled happen on edges of the same clock, so the
clock edge is never taken away by them. The loader, the menu and the mounting
of images have none: they may never happen again. In `CdDrive` the host delivers
a sector in the end, KRAM acknowledges a word (run `king_fabric` shows that), and
the program takes its next step; it can only in every second clock, hence strong
fairness. `CdHost` has none: only safety is claimed of it.

Deadlock is checked in every run but `cd_host`, where the double free may end the process.

## What the violations show

- `sdram_pace`: `huc6272_fetch.sv:215` asserts that a fetch is acknowledged on the next pixel clock
  ("late M_ACK"; line 202 allows for one). That is 16 SDRAM clocks later, and
  leaves 14 for the controller. When the CPU's bank is in the middle of an access and both KRAM
  banks ask, the lower one takes 15 for a read, without any refresh. `king_fabric` shows what
  that does to the arbiter: nobody is lost, but the fetch engine is late.
- `sdram_startup`: the second test of `sdram.sv:327` repeats `startup_pchg_cnt`, so
  LOAD_MODE replaces the PRECHARGE announced at line 315.
- `backup_autoload`: `bk_autoload_go` is a pulse that only the idle state sees. A mount
  during a save (which opening the menu starts) is not followed by a load, and
  replacing one image by another gives no rising edge at all.
- `cd_drive_abort`: the drive waits for CD_DATA_END before it looks at ATN for the last time
  (`fake_cd.sv:239`). An ATN raised in the clock after that pulse finds it in
  `TS_STAT`: the target takes the ABORT and frees the bus, and then asks for the
  status of the command that was aborted. Two more ways to the same end, found by
  letting ATN come anywhere: a byte that is on its way into the FIFO when the drive
  stops outlives the abort and brings the data phase back, and an ABORT that comes and
  goes while the drive waits for the next sector is not seen by it at all.

Observed while modelling, without a run of their own:

- a CPU reset in the middle of an access, with the loader/saver waiting, opens the
  CPU's row and then accesses the loader's column with the loader's data
  (`memif_sdram.sv:178`; the variable `cut` of `MemIf`);
- an image mounted during a save receives the rest of the old RAM, and a download
  that begins during a transfer diverts its words (`disturbed` in `BackupXfer`);
- an image of 1 to 511 bytes is mounted (`pcfx_top.sv:533` looks at all bits of the size) but has
  no block (line 534 drops the lower nine), and one taken away during a transfer leaves a size
  of 0. The next block number equals that only after 2^32 blocks (line 604): a load runs through the
  RAM of others meanwhile, as far as the host delivers. The model takes the addresses of the volumes as
  disjoint, and says of these cases that the machine gets to its end (`TransferEnds`), not what
  it has done by then; `BlocksInImage` is claimed of images with a whole block that stay
  mounted;
- `pcfx.cpp` frees the hunk buffer twice when a CHD file is unloaded and no
  other loaded (line 96), leaves files open on a change between CUE and CHD (109), reads later
  files of a sheet from wherever they stand (445), and overwrites a slot when a
  request crosses the end of a track (486); `mister_chd.cpp` takes a hunk that failed
  to load for the one before (173). `ReadExact`, `CacheTrue` and `SameKindCloses` name these limits;
- a bus reset in the middle of a command leaves target and drive in its phase (`scsi.v:212`);
  DMA to the bus never reaches it (`huc6272_scsi.sv:182`);
- a read of the KRAM port during a posted write changes the address under it
  (`huc6272_cpuif.sv:344`);
- the dwell of 7 clocks keeps the CPU off channel 1 for as long as the loader/saver
  asks again within it (`CpuServed` with a smaller `pause`).

## Proofs

`KingFabricProofs` proves, for all `CN`, pixel clocks, latencies and reset lengths
that satisfy `FabricAssumption`:

| Theorem | Says |
|---|---|
| `TypeCorrect` | `Spec => []TypeOK` |
| `NeverTwoAccesses` | `Spec => []OneAccess` |
| `NoStrayAck` | `Spec => []AckEarned` |
| `SelectionStays` | `Spec => SelectionHeld` |
| `FetchNeverLate` | `MaxLat < MinDck => (Spec => []VideoOnTime)` |
| `FetchOnTimeWhenTimely` | `MCSpec => []VideoWhenTimely` |
| `FabricRefinesServer` | `Spec => Server!Spec` |

`FabricAssumption` asks for a client, for pixel clocks at least 3 cycles apart
(an acknowledge must leave `ack_d` before the next), and for a reset longer than
an access: with a shorter one the answer to an old access would indeed be taken
for a new one.

The argument. None of the properties is inductive. `IInv` adds to `TypeOK`:

- `AckState`: how `ack_d`, `ack_pend_d` and the pixel clock relate, so that a kept
  answer is used once;
- `InService`: while an access is running or its answer is kept, `prio_act_d` holds and
  the selected client still asks (client 0 excepted), and outside
  an access nothing is kept;
- `Drained`: during a reset the DRAM finishes: the cycles it still needs and the
  cycles the reset has lasted add up.

`RunStep` and `ResetStep` prove each part over the two kinds of step, `Inductive`
puts them together, `Invariance` is the temporal step, and the safety theorems
follow from `IInv`. The two theorems about the fetch engine need a second invariant, `Prompt`, which
ties the remaining latency to the cycles since the last pixel clock: what is left is at
most `MinDck + 1 - since`. `FetchNeverLate` has it because no answer can be late;
`FetchOnTimeWhenTimely` as long as none has been (`MCKingFabric` remembers), which is
how the run states it, with a DRAM that may be slower. The refinement
maps `owner` to the selected client while `prio_act_d` holds; each step of the
arbiter is then `Ask`, `Grant`, `Release`, `Clear` or a stutter.

`CdDriveProofs` proves about the FIFO, for any depth, byte set, writer and reader
(`FifoAssumption`: one cell at least):

| Theorem | Says |
|---|---|
| `FifoTypeCorrect` | `FifoSpec => []FifoTypeOK` |
| `FifoInOrder` | `FifoSpec => []InOrder` |
| `FifoFlags` | `FifoSpec => []FlagsSafe` |
| `FifoRefinesQueue` | `FifoSpec => FifoIsQueue` |

The argument. Seen from `wq2_rptr`, the oldest copy of the read pointer, all others follow
in the order `wq1_rptr`, `rbin`, `rq2_wptr`, `rq1_wptr`, `wbin`, the last not more than DEPTH
ahead (`InOrder`). A clock shifts the copies and moves `rbin` and `wbin` by one at
most; the flags are what keeps `rbin` behind `rq2_wptr` and `wbin` within
DEPTH (`OrderStep`). `Stored` is the slice of the cells between `rbin` and `wbin`; taking a byte
drops its head (`SliceTail`), writing one appends it, since no other cell of the slice is
the one written (`SliceAppend`).

and about the whole path, for any commands, program, host and KRAM:

| Theorem | Says |
|---|---|
| `NeverDropped` | `Spec => []NoByteDropped` |
| `PathTypes` | `AbortsAt # "ANY" /\ Spec => []TypeOK` |
| `EveryByteRight` | `AbortsAt # "ANY" /\ Spec => []DataExact` |
| `StatusComesLast` | `AbortsAt # "ANY" /\ Spec => []DataBeforeStatus` |
| `RestBetween` | `AbortsAt # "ANY" /\ Spec => []AtRest` |
| `QueueOfBytes` | `Spec /\ []TypeOK => FifoIsQueue` |
| `DriveFifoIsQueue` | `AbortsAt # "ANY" /\ Spec => FifoIsQueue` |

`NeverDropped`: `Paced` says where a byte can be: CD_WR is high, or FIFO_WR_REQ is, or none;
CD_READY is looked at only in the last case, and a clock without a write does not fill the
FIFO (`FullOnlyByWrite`). This is the comment of `fake_cd.sv:361` ("must stay low for at least 2x
clocks"), and the mutant that waits one clock only breaks it.

The others, `QueueOfBytes` apart, rest on `PathInv` of `CdDrivePath`, an invariant of 19 parts
(`PInv` and `StatesOK` for the FIFO and the types, and those below), since four machines (target,
drive, initiator, program) run side by side and none knows the state of another.
That a byte arrives where it is due follows only from where all the others are:

- `BusOK`, `ProgOK`, `HandOK`, `EngineOK`: which states of the bus go with which step of the
  program, of the handshake and of the DMA. A byte on the bus is taken once, since ACK and REQ
  meet in the first of two clocks only and the engine sees a REQ no second time.
- `TurnOK`, `HostOK`: whose turn it is. The drive works while the bus is free or in DATAIN, and is idle,
  with nothing due and the FIFO empty, when the target collects a command or reports.
- `PaceOK`, `SpreadOK`, `FillOK`, `SupplyOK`: the race that the code wins by timing alone. The target
  takes an empty FIFO for the end of the data and tells the drive so (CD_DATA_END), which heeds it
  only when it has written its last byte. The drive writes a byte in three clocks, the reader's
  handshake takes longer, and both see old pointers; so from the second byte of a sector on
  the FIFO is all but full (`FillOK`) and the reader never finds it empty before the last
  byte is out, except before the first (`Fresh`), where the drive is not done and the target
  comes back. This is what needs `DEPTH >= 4`.
- `CommandOK`, `DriveOK`, `StatusOK`, `SenseOK`: the command as the target has collected it, what the drive has
  made of it, its status and its sense key.
- `CountOK`: what the drive has written (`Wrote`) is what has passed the FIFO or is in it (`Passed`): bytes in
  KRAM and with the program, in the engine, on the bus, in the FIFO and on the way to it.
- `ByteOK`, `ValueOK`: wherever a byte is, it is the one due at its place in the answer.

`TargetMove`, `DriveMove`, `ProgMove` and their like in `CdDriveProofs` restate a clock of each
machine in the form the provers take, and `ClockMoves` proves that a `Tick` is these; then each part of the invariant has a lemma of its own (`TurnStep`, `SenseStep`, ...),
and `PathInductive` puts them together. `DataExact` follows from `CountOK` and `ValueOK`,
`DataBeforeStatus` from `TurnOK` and `CountOK`, `AtRest` from `TurnOK`, `ProgOK` and `BusOK`.

The hypotheses. `PlansAssumption`: a command asks for one block at least if it is a READ(10), for
a length below 4096 (the bits the drive looks at) if it reads a table or a header, and, by DMA, for whole words
that fit into the KRAM of the model (`Askable`); a block has 3 bytes at least, the FIFO 4 cells; the three
command lengths are those that `CommandBytes` has (2, 3 and 4 tokens for 6, 10 and 12 bytes). TLC evaluates
it in the runs of `MCCdDrive`. `AbortsAt # "ANY"`: aborts only while the last sector drains, or never.
With aborts anywhere `AtRest` and `DataExact` are false (`cd_drive` with `AbortsAt = "ANY"` shows it, and
`cd_drive_abort` one of the ways), and `PathInv` with them. TLC checked `PathInv` with the constants of
`cd_drive` before it was proved; it is no invariant of the run, since it takes several times as long.

`MemIfProofs` proves about channel 1, for any `MaxStage` and `LsPauses`:

| Theorem | Says |
|---|---|
| `MemIfTypeCorrect` | `Spec => []TypeOK` |
| `OneRequestAtATime` | `Spec => []OneRequest` |
| `EachAnsweredForItsOwn` | `Spec => []EachAnswered` |
| `AccessesWhole` | `Spec => []AccessWhole` |

The bank may stop in every stage of an access, so nothing can be said by counting
cycles, with one exception. The invariant adds to the types:

- `Channel`: `ch1_ready_d` is down exactly while the bank works, one requester at most
  has the channel, and a bank that works does so for one of them or for a CPU that was
  reset (`cut`);
- `Cycle`: how `mem_pend_req`, `mem_act` and READY go with the bus cycle; a reset lasts
  four clocks at least, since it changes with CPU_CE, and that is enough to clear both;
- `InT1`: in T1 the bank is at most one stage further for each clock, so READY cannot
  come before T2 (the exception). Without it an access could end while the CPU is
  still in T1, and `served` would be forgotten;
- `Latched`: what the bank latched, and used as row and column, is of the one it works for;
- `Done`: an idle bank under `mem_act`, and READY sampled in T2, mean that the access was
  carried out.

`SdramProofs` proves about controller and device together, for any banks, loads and
timing that satisfy `SdramAssumption` and `TimingAssumption`:

| Theorem | Says |
|---|---|
| `TypeCorrect` | `Spec => []TypeOK` |
| `DeviceTimingKept` | `Spec => []TimingRespected` |
| `CommandsReachThePins` | `Spec => []NoCommandLost` |
| `DataBusIsExact` | `Spec => []DataBusExact` |
| `OneAnswerPerRequest` | `Spec => []ReadyAnswers` |

`TimingAssumption` is what the controller takes for granted of `sdram_defs.svh` and no code
checks. A bank counts only tRCD, tWR and tRP, and the scheduler only the slots of the two
buses; tRRD, tRAS and tRC are kept because they are over when those are: tRRD is two
cycles at most, tRAS at most tRCD + 2 and tRCD + tWR, tRC at most tRCD + tRP + 3 and
tRCD + tRP + tWR + 1. At 85.9 MHz (`PCFX.sv:425`) all of it holds, tRC with one cycle to
spare in a read and in a write, tRRD and tRAS with none; nothing in the controller would
notice a clock at which it does not.

The argument. One invariant, in parts that lean on each other:

- `Schedule`, `Ownership`: the command schedule has one bank at most, for this cycle and
  perhaps the next, the one selected last, and the state of a bank tells
  exactly which slots it has. Hence `bbscact` is empty whenever a bank may be selected,
  and `NoCommandLost`.
- `DataBusTaken`: the slots of the data bus by the states of the banks. A bank that was
  selected last and still waits for tRCD finds it free, which is why it need not
  look again.
- `Answers`, `Sent`: the open request, the latch, the state and the shift register of
  a bank agree, and the command register holds what that bank has just sent.
- `Rows`: row, age of the row and time left to precharge, each bounded by the state and
  the wait counter. They are stated of the device as it is once it has taken the
  command that is in the register (`Opened`, `Age`, `Closing`): the command register delays
  everything the device knows by a cycle, and without that view no bound is inductive.
- `Bursts`, `Words`: what is left of a burst or a refresh when a bank may speak; the words
  in the pipelines of both directions, and whose they are.

`SdramRefreshProofs` proves, for any lengths of line, blank and interval that satisfy
`RefreshAssumption` and `BlankAssumption`:

| Theorem | Says |
|---|---|
| `TypeCorrect` | `Spec => []TypeOK` |
| `MemoryIsRefreshed` | `Spec => []RefreshesKeepUp` |
| `RefreshesStayInBlank` | `Spec => []RefreshInBlank` |

For the first two, `Accounts` says that `debt` is covered by the counter, less the credit,
plus an interval if a refresh is due; `Counter` bounds the counter in each state: it is
looked at only while the banks are active, so a refresh lets it run on by tRC, and what is due waits
for the banks and nothing else.

`RefreshesStayInBlank` has an invariant of its own (`BInv`), about a video that is steady:

- `Requests`, `InTime`: a request that is up was raised at most an access and a refresh
  ago, and position in the line, wait counter and requests still to raise add up to a
  clock (`LastRaise`) by which the last is raised. Only the first steady line can find
  requests left over from before, and is one interval later.
- `Settled`: so each later line begins with none left.
- `Paid`: `Left`, the credit less what is on the counter. Each refresh of the
  blank pays an interval, or the credit was full and is enough for a whole line. The hard case
  is one refresh that the counter forces while the blank is about to ask for its own: the
  clock at which both meet counts for one (`Shared`). Whatever a start-up or a stopped
  video left behind, two steady lines gain more than a forced refresh can be late.
- `Early`: from the third line on the credit lasts to its end once the blank has given its
  refreshes, so nothing becomes due after `LastRaise`, which the blank covers (`BlankLasts`).

`BlankAssumption` is what the argument needs of the numbers, and what nobody
states in the code: each request is served before the next is raised (142 clocks
against an access and a refresh); the requests of a line and one more fit in it (1430 of 5460); the gain of
two lines (`Gain` is 570 clocks) is more than a forced refresh may be late; a full
credit and one gain are more than a line needs. TLC evaluates it on both runs.

`BackupXferProofs` proves, for any sizes of block, image and ROM and any mounts:

| Theorem | Says |
|---|---|
| `TypeCorrect` | `Spec => []TypeOK` |
| `BlocksStayInImage` | `Spec => []BlocksInImage` |
| `LoadsAreExact` | `Spec => []LoadExact` |
| `SavesAreExact` | `Spec => []SaveExact` |
| `RomIsComplete` | `Spec => []RomComplete` |

The argument. `Handshake` ties the lines of the host to the state machine: one volume,
one block, one job. `OneClient`: unless a download has been begun in a transfer, the port
works for one client, and an access that is done is the one asked for, although ROM loader and
engine share a request that is toggled and address lines that follow `ioctl_download`.
`Loaded` and `Saved` then go by block and word: the blocks before the current one are the same in
SDRAM and image, and of the current one as many words as the engine has
handled (`Handled`); `Whole` keeps it when the transfer has ended.

`KPortProofs` proves, for any length of register and tick, any program and any use of the port by
other code:

| Theorem | Says |
|---|---|
| `TypeCorrect` | `Spec => []TypeOK` |
| `TransfersAreExact` | `Spec => []TransferExact` |

The argument goes by slots of four cycles. In slot n the last n bits of one register are the
first n of the word, and the first bits of the other are the rest of it (`Left`,
`Come`); `Wires` fixes LATCH and CLK by the cycle, so that pad and port shift in the
same slot. For a reading transfer there is one word of those the buttons have shown
that fits both (`Listening`); for a sending one the port's register goes round
and ends as it began (`Sending`).

`CdHostProofs` proves, for any images, any number of tracks and any order of mounts and reads:

| Theorem | Says |
|---|---|
| `TypeCorrect` | `Spec => []TypeOK` |
| `CacheIsTrue` | `Spec => []CacheTrue` |
| `Closes` | INDEX 01 follows every FILE of every sheet `=> (Spec => SameKindCloses)` |
| `ReadsAreExact` | `Spec => [](Sensible(disc) => ReadExact)` |
| `TocIsExact` | `Spec => [](Listable(disc) => TocExact)` |

`ImageAssumption` says only that an image is a list of commands, or of records, and that a sheet has its INDEX 01
after a FILE and a TRACK (`InOrder`): tracks out of order,
INDEX 00 after INDEX 01, files that are missing and pregaps longer than their track are all allowed.

The argument has two halves. What the loaders return is proved by induction over the list: `CueFold`
and `ChdFold` unfold the folds, `Induction` takes a set for its predicate (the library's theorem
`WFMin` needs no operator as a parameter). A sheet gives a table of the right type with one
file open beside its tracks at most, and with none if the last FILE was followed by
INDEX 01 (`CueOK`, `CueCloses`). The tracks of a CHD file are `Chained`: each, with its pregap,
begins where the one before it ends or earlier, and has a frame for that address. So the first
track that holds an address has a frame for it (`FirstHolds`), although a later one, with a
pregap that reaches back, need not: the search from the first track on is what
keeps the hunk number from being negative.

Then the invariant of the calls: `CallOK` keeps a call within buffer and track, `MountOK` and
`CacheTrue` say what mounts leave behind. `FilesOK` is what `Closes` needs: no file is open beside the
table, none is lost while a call runs, and if a sheet is mounted and a file was lost to it, that was a
CHD file, whose buffer is still allocated, so that freeing it next does not end the process.
The hypothesis is needed: `unload_cue` closes the files of the tracks, and a FILE that no INDEX 01
follows is of none.

`ReadsAreExact` and `TocIsExact` compare what the loaders carry along in running sums with what the
formats mean, sums over the whole image:

- Sums. A fold takes the elements of a set in an order nobody knows; `Adds` says that any order
  gives the same, hence that a sum over `1 .. n` grows by its last (`SumStep`), and that the files
  of a sheet begin one after the other (`Bases`).
- `Layout`: after n records of a CHD file the table holds the bases, starts and offsets of the n
  tracks, padding and both kinds of pregap included. `FirstFile`: after n commands of a sheet
  the rows of its first file follow each other, the last of them ends with the file, and an
  offset of zero, which the code takes for "no offset", is the first row's only. `Entered`: a track that
  has its INDEX 01 is in the row of its number with the address it was given; one that has not is
  the row after the last, and so is a file without a track; the table ends where the file
  begins or ends.
- `Still`: reads leave of the table all but positions in files, so what was true of it at the mount
  stays true.
- `ReadInv`: a call in a track has found the first track that holds the address asked for,
  has filled the slots before the current one with the right sectors, and the first file stands at
  the current address. The hunk comes from `CacheTrue`.
- `ListInv`: the buffer of the table of contents is made from the table that is mounted, and the first
  slot of a call that asks for it holds the reply (`Listed`; `MsfExact` undoes the division into
  minutes, seconds and frames).

The hypotheses. `Sensible`: a CHD file has no more tracks than the table (the loader drops the
rest); a sheet begins with a FILE, which no later one names again, whose first track begins at its
beginning and every other after that: an offset of zero sends a read to wherever the file
stands. `Listable`: the same bound on tracks; every address is below `MsfEnd`, 256 minutes less
the two seconds of the lead-in, since the minute of an entry is a byte; the tracks of a sheet are
numbered upwards, each with an INDEX 01 of its own; every file has a track, and files after
the first only one, with its INDEX 00, if any, at the beginning. The last because the code gives a track that does not
begin its file the address it has in the file, which is its address on the disc in the first file only. Every
image of `MCCdHost` that mounts is both, `TwoFiles` included.

Only model-checked, and why:

- all liveness (`Served`, `EveryRequestReady`, `EachServed`, `TransferEnds`, `CommandEnds`,
  `ResultReceived`, the fairness of `KramServer`): outside what TLAPS proves here;
- `TypeOK`, `DataBeforeStatus` and `FifoIsQueue` of `CdDrive` with aborts anywhere: TLC finds them true
  with the constants of `cd_drive_abort`, but the invariant of the proof is not;
- `ReadExact` and `TocExact` of images outside `Sensible` and `Listable`.

## Not modelled, and why

- Data and arithmetic: addresses, byte masks, pixels, DCT, colour, PSG, mixing.
- `huc6270` (VDC) is a port of another core's and `sys/` is the MiSTer framework;
  the V810 CPU is a submodule. They appear only through the signals the core uses,
  as actions marked external in the map.
- The KRAM port of the CPU, the tees, and the units for RAINBOW and ADPCM: only their
  request lines, as clients of `KingFabric`.
- Gate array (registers, interrupt levels), RAINBOW, sound, video output. The timer of the gate
  array and the multi-tap are not in the code.
- The libraries under `rtl/tb/mister_main/lib` (zstd, lzma, miniz, libchdr, dr_flac),
  nearly all of the C in the tree, are third-party code that only the simulation
  uses; what a read of a hunk may return is all that matters here. `file_io.cpp` and
  the rest of `mister_main` come from the MiSTer main program; of them the calls
  that `pcfx.cpp` makes are modelled.
- Of the SCSI unit: DMA to the bus, the `dma_req` status bit, interrupt enables.
- Parsing of CUE text, the ECC and subcode of sectors, CHD compression.
- The TRAS_MAX limit: every access closes its row.
- The reset of the bank machines by `init`: `Sdram` starts afterwards; `SdramRefresh`
  has it for the counters.
- Clock domain crossing between `clk_ram` and `CLK`, which are in phase.

## Plan

1. Done: arbiter with proofs and refinement, SDRAM and refresh with proofs, channel 1 with
   proofs, backup transfer with proofs; SCSI target, drive, FIFO and initiator with proofs
   of FIFO, pacing and path; the CD support of the simulation with proofs; the K-Port with proofs.
2. The KRAM port over tees and two arbiters; `c71xfer` and `c30xfer` as clients.
3. Composition of `KingFabric` with `Sdram` through channels 2 and 3, to replace the
   latency constant by the controller.
