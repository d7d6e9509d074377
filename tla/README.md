# TLA+ models of the inferno-kirkwood kernel

`inferno-kirkwood` is the machine-dependent part of the Inferno kernel for Marvell
Kirkwood boards: drivers for the XOR/DMA engines, the SATA controller, the gigabit
ethernet, the SD card controller, the NAND flash, the crypto engine, the clock and the
serial ports, a block store device with partition tables, and the trap and boot code.
This directory models the drivers that carry its own logic: those in which processes, an
interrupt handler and the hardware share state, and the computations that are easy to get wrong.

## 1. The system

One processor runs everything. Three kinds of actors touch a driver's state:

* **processes** (kernel or user), preempted at any clock tick (`trap.c:276-283`), so
  between any two statements that are not protected by `splhi`/`ilock`;
* **the interrupt handler**, which runs to completion before a process runs again;
  `intrs` (`trap.c:130-152`) calls the handler of every pending bit;
* **the hardware**, which goes on while either of them runs: it completes requests, fills
  and empties descriptors, and sets cause bits between any two reads of a register.

`sleep`, `tsleep`, `wakeup`, `qlock`, `rlock`/`wlock` and the queues (`qbwrite`, `qpass`)
are in the Inferno kernel outside this repository. They are modelled from their use: a
`Rendez` holds one sleeper and a second is a panic; a killed process leaves `sleep` by
`error(Eintr)`; a `QLock` is first come, first served.

### Inventory

| Component | Source | State | Operations | What is hard | What makes it correct |
|---|---|---|---|---|---|
| XOR/DMA engines | `xor.c` | `Port.inuse`, `.done`, QLock and Rendez of `xor`; registers per engine | `portget`, `portput`, `meminitdma`, `crc32cdma`, `memdma`, `xordma`, `xorintr` | two ports share registers and one irq register; sleep after unlock | one user per port, one memory init per engine, no stale `done`, no lost completion |
| SATA | `devsata.c` | tag pool (`tags`, `tagnext`, `tagsinuse`, `ntags`), `reqsl`, slots, `reqsdone`, `atadone`, `ataregs`, `start` | `io`, ctl `identify`/`flush`/`reset`, `satastart`, `sataintr` | out of order completion, claim of the whole controller, hotplug, timeouts, kills, unlocked counters | a tag has one user, also in the device; no completion lost; ATA commands run alone; nobody waits for ever |
| Ethernet receive | `etherkirkwood.c` | ring, `rxb`, `rxhead`, `rxtail`, `freeblocks` | `receive`, `rxreplenish`, `rxallocb`, `rxfreeb`, `interrupt` | blocks travel pool → ring → stack → pool; the pool runs dry; causes cleared while new ones arrive | a block has one owner, none is lost, frames are taken in order and all of them |
| Ethernet transmit | `etherkirkwood.c`, `devether.c` | ring, `txb`, `txhead`, `txtail`, `oq` | `etheroq`, `transmit`, `interrupt` | writers preempted between queue and transmit; full ring; refused packets | order, nothing lost, every good packet sent, blocks freed after they were sent |
| Ethernet device | `devether.c` | connections (`Ether.f`), `prom` | `etheriq`, `etheroq` | one block, several readers, failing allocations, loopback | every connection gets what it should, every block ends once |
| Block store | `devbs.c`, `bs.h` | two RWlocks, `ready`, `parts`, `nparts`, `vers`, `isopen`; a version per Chan | walk, stat, open, read, write, close, wstat, `init`, `diskinit`, `partinit` | re-initialisation under open files, and between walk and open | i/o on the partition that was walked to, no deadlock, a partition is open once |
| Block i/o | `devbs.c` | none | `io` | rounding, clamping, short transfers | the right bytes and no others |
| Partition tables | `part.c` | `parts` | `partinit`, `partcheck`, `partgenname` | arbitrary tables on disk | names unique, partitions inside the disk, no overlap |
| SD card identification | `kwsdio.c` | `sdio.card`, clock, bus mode | `sdiodevinit`, `sdinit` | card swapped, failing commands, slow cards | a card declared valid is the one that is there and selected |
| SD transfers | `kwsdio.c` | QLock, status and interrupt registers | `sdioio`, `sdcmd`, `sdiointr` | timeouts with late completions, kills, lock dropped between chunks | reported as done means done; the buffer is used only while the call waits |
| SD card registers | `sdcard.c` | none | `parsecid`, `parsecsd`, `parsescr` | fields across words | every field and the capacity as the card sent them |
| NAND flash | `kwnand.c`, `nand.c` | the chip's pages and status | `erasezone`, `write`, `read` | failures, timeouts while the chip goes on, bit errors | a page written with success holds what was written |
| Crypto engine | `cesa.c` | one hash engine, two AES engines, a state per stream | `hash` (sha1, md5), `aes` (ECB, CBC) | streams cut into calls, engines shared | the digest, or the output, of the stream as a whole |
| RTC | `devrtc.c` | clock registers (BCD) | `rtctime`, `setrtc`, `rtc2sec`, `sec2rtc` | calendar arithmetic, no lock, the clock ticks | what is read is what the clock showed |
| UART | `uartkirkwood.c` | registers, fifos | `kw_kick`, `kw_intr`, settings, `serialputs` | process and handler both kick, or are refused; settings with interrupts on | no character lost, reordered or, once its kick was not refused, left waiting |
| Traps, clock | `trap.c`, `clock.c` | handler table, masks, timer, clock links | `intrenable`, `intrs`, `trap`, `clockintr`, `addclock0link` | nested dispatch; clearing a latched bit | every expiration a tick, every link called |
| eFuse | `devefuse.c` | registers, `efuselock` | `efusewrite` | kills and timeouts while the hardware burns | a fuse is burned once |
| Sheeva device | `devsheeva.c` | registers | read, write | little | not modelled |
| FP emulation | `fpiarm.c` | registers of a process | `fpiarm` | decoding; the arithmetic is in another library | not modelled |
| Boot, registers, tools | `main.c`, `archkirkwood.c`, `*.h`, `*.s`, `mkuimage/` | | | straight-line code, layouts | not modelled |

Interactions: `devbs` calls `partinit` and `kwsdio` through `Store`; `devether` calls
`transmit` and is called by `receive` (`etheriq`); every driver gets its handler called by
`trap.c`; the filesystem and network stack above are outside the repository.

## 2. Modules

| Module | Models | Built on |
|---|---|---|
| `PortPool` | abstract: a pool of ports as its users see it | |
| `XorPorts`, `MCXorPorts`, `XorPortsProofs` | port allocation, transfers and interrupts of `xor.c` | implements `PortPool` |
| `Sata`, `MCSata`, `SataProofs` | `devsata.c`: tags, slots, claim, ATA commands, hotplug, handler, device | |
| `EtherRx`, `MCEtherRx`, `EtherRxProofs` | the receive ring, the block pool and the handler | |
| `PacketFifo` | abstract: packets that wait and go out oldest first | |
| `EtherTx` | the transmit ring, its callers and the handler | implements `PacketFifo` |
| `EtherDev`, `MCEther`, `EtherTxProofs` | composition: `etheriq` and `etheroq` of `devether.c` on the transmit ring | `EtherTx` |
| `BlockStore`, `MCBlockStore`, `BlockStoreProofs` | names, locks, versions, open counts and commands of `devbs.c` | |
| `Partition` | `partinit` over arbitrary tables, a step per entry or line | |
| `BsIo` | `io` of `devbs.c` as operators on one request | |
| `Disk` | composition: `io` on every table that `partinit` accepts | `Partition`, `BsIo` |
| `SdInit` | the identification commands and the card | |
| `SdIo` | `sdioio`, `sdcmd`, the controller and `sdiointr` | |
| `MCStorage`, `StorageProofs` | a Store on an SD card: one of the three above | `SdInit`, `SdIo`, `Disk` |
| `SdRegs` | the fields of cid, csd and scr, and the capacity | |
| `CesaHash`, `CesaAes` | the hash and AES halves of `cesa.c` | |
| `Rtc` | the clock, its conversions, a reader and a writer | |
| `Efuse` | the two fuses and their writers | |
| `Nand` | erase, write and read, and the chip | |
| `MCPolled`, `PolledProofs` | one of the six polled drivers above | all six |
| `Intr` | interrupt registers, dispatch, clock and its links | |
| `Uart`, `MCUart`, `ConsoleProofs` | composition: the console on the interrupts of `Intr` | `Intr` |

Conventions. A process's position is a `pc` label; a step is what happens between two
points at which another actor may intervene. `At(q, l)` also says that no handler is
running; hardware actions do not, so they interleave with the handler. Definitions keep
the names of the C code. A definition with a suffix (`TagTake_offbyone`), preceded by a
comment "Mutant", stands right before the definition it is a faulty variant of; it is used
only to show that a property would notice that fault.

Correspondence, per module:

* **XorPorts.** `inuse`, `done`, `qlock`, `waiter` are the fields of `xor` and `Port`.
  `Call … Release` follow a caller through `portget`, the transfer function and `portput`;
  the four transfer functions differ only in the registers they write, so they are two
  kinds: memory init, which writes the engine's value registers, and the others.
  `ScanNone` drops the lock before `SleepXor`, as the code does. `IntrRead` and `IntrClear`
  are the two accesses of `xorintr` to the irq register. `HwComplete` is the engine.
* **Sata.** `Io … Return` is `io`; `tagsinuse++` and `tagsinuse--` are a load and a store
  each. `Ctl … AtaEnd` is an ATA command from `sataclaim` to `sataunclaim`; `StartTake`,
  `StartReset` and the same ATA actions by `Kproc` are `satastart`. `IntrEnter`, `IntrErr`,
  `IntrDma`, `IntrDrain`, `IntrDev` are `sataintr` in its order. `HwDone`, `HwAta`,
  `HwError` are the device. Request contents (`prdfill`, lba encoding) are left out.
* **EtherRx / EtherTx.** `Receive`, `Replenish`, `Reclaim`, `Queue` are one turn of the
  loops; the `…End` actions are the loops' exits. Blocks and packets are model values or
  numbers. `Reclaim` goes on at a descriptor whose `TCSdmaown` is *set*, as
  `etherkirkwood.c:425` does.
* **EtherDev.** `etheriq` is one step, as it runs with interrupts off; which allocations and
  queues have room is chosen. `LoopBack`, `SendAndLoop` and `SendOnly` are the three ways
  through `etheroq`; `FromWire` is its call by `receive`.
* **BlockStore.** `LockBs`, `LockD` take the locks in the code's order; `OpenCheck` and
  `Open` are separate since opens hold the locks as readers only; `diskinit` and `partinit`
  choose the names found and their order. `Walk` resolves a name to an index with `bsgen`,
  as a Chan's qid holds the index only. `name` in a Chan is history.
* **Partition.** Every entry and every line is chosen when it is read: all tables with the
  given numbers are explored. Positions are in sectors.
* **BsIo / Disk.** `First`, `Count`, `DevFirst`, `DevCount` are `s`, `n`, `xs`, `xn` of
  `io`; `Filled` and `Written` say which byte goes where.
* **SdInit.** One action per command of `sdinit`, with its success, its timeout and its
  errors; the card is a small state machine that answers the commands of its state.
* **SdIo.** `Lock`, `Advance`, `Return` are the loop of `sdioio`, `Ready … Check` are
  `sdcmd`; `st` and `stirq` are the status and interrupt registers. `Ready` reads two bits of the
  host state only: they may be clear while the data of a command that has its response is on its way,
  so after a timeout the next command may go out. The earlier one is then in `tails` and ends
  (`HwTail`) in whatever command is under way, whose status it sets; its data goes where it was going.
  `crossed` are the calls that gave a command while this was possible.
* **SdRegs.** A register is the set of its bits that are 1; `bits` is the loop of
  `sdcard.c` over 64-bit words.
* **CesaHash / CesaAes.** A byte of a stream is its position and an AES block is a set of
  symbols, so the engines are injective by construction and a wrong byte or chaining value
  shows. `HashSeed … HashSave` and `AesKey … AesDone` are the sections under the locks.
* **Rtc.** The registers are numbers in BCD and the masks are those of the code, stated by the
  bits they keep (`Masked`); seconds since 1970 are a pair of days and seconds of the day. The
  loops over years and months are functions (`YearStart`, `MonthStart`) and the year and month at
  which they end (`YearOf`, `MonthOf`). After 2099 the clock's two digits of the year begin again.
* **Efuse / Nand.** The hardware is a step of its own, so it may end after the driver has
  given up. What `ctl = 0` does to a burn that timed out is not known: it stops or goes on, and
  one that goes on (`late`) sets `Cburndone` in whatever write polls then. `good`, `written` and
  `late` are history.
* **Intr.** `level` is the stack of nested `intrs` calls, `ibits` the bits each still has to
  serve; the two cause registers follow the devices, the bridge register is latched.
* **Uart.** `Kick` is one turn of the loop of `kw_kick`, by the process or the handler; before the
  first it returns if the port holds the output (`held`: `cts == 0 || blocked`). The port's code is not
  in the repository, so `Hold` may change `held` at any time, and `refused` records that the last kick
  returned for it. In loopback, which `kw_bits` turns on when the parity is even (it writes `lcr` to
  `mcr`), `Send` feeds the receiver and nothing arrives on the line;
  `HandlerStep` is `kw_intr`; control requests are steps per register access where the handler
  may come in between. `raced` records that `thr` was written while it was `dll`, `cleared`
  that turning the fifos off dropped characters.

## 3. Runs

| Run | Checks | Bounds |
|---|---|---|
| `xor_ports` | `PortExclusive`, `InitvalKept`, `DoneIsFresh`, and `PoolSpec`, that it implements `PortPool` | 2 engines as on the chip, 3 processes of both kinds, kills: memory inits compete and the scan fails |
| `xor_completion` | violation of `CompletionSeen` | 2 processes on one engine |
| `sata` | `TagExclusive`, `ClaimQuiet`, `CompletionDue`, `NoTagReuse`, `NoDeadlock` | 2 processes and `satastart`, a disk of depth 1 (no NCQ), 2 slots, one fault of any of six kinds, a device that is busy after a reset, `flush` from the ctl file |
| `sata_tags` | violation of `TagExclusive` | the same with depth 2 |
| `rx` | `BlockOnce`, `BlockKept`, `ReceivedInOrder`, `Replenished`, `FramesTaken` | ring of 3, 4 blocks, a stack that holds up to 2: the ring wraps and the pool runs dry |
| `ether` | `FifoSpec`, that it implements `PacketFifo`, `Accounted`, `MuxRight`, `PacketsSent` | ring of 3, 5 packets, one refused: the ring fills and wraps; three sets of connections with every flag, one packet multiplexed per behaviour |
| `tx_free` | violation of `FreedAfterSent` | ring of 3, 5 packets |
| `bs` | `IoOnWalked`, `OpsFinish` | 2 processes, tables of any of 2 names besides `data` in any order, 2 re-initialisations |
| `bs_open` | violation of `OpenOnce` | 2 processes, 2 partitions |
| `storage` | `ValidRight`, `GoodCardValid`; `OverlapOnlyWithin`, `ReadRight`, `WriteRight`; `AllMoved`, `BufferLive`, `CallsReturn` | all five kinds of card, 2 initialisations, one failing command, loop limits 2 instead of 100 and 10; a disk of 4 sectors of 2 bytes, 2 MBR entries, 2 lines, numbers 0, 1, 2, 4, requests of up to 5 bytes at offsets up to 9, so past the end; 2 processes, calls of 3 blocks in chunks of 2, one kill or error, any number of timeouts, one earlier command whose data is on its way |
| `polled` | `DigestRight`, `StreamRight`, `FieldsRight`, `ReadShown`, `WriteShown`, `BurnedOnce`, `FlashRight` | 2 streams of 2 calls of lengths around 0, 56 and 64; 2 AES users with 2 calls of up to 2 blocks; registers with one bit set or clear; times at leap days, year ends and the end of 2099, 2 ticks, 1 write; 2 burners, 1 kill; 3 flash pages in 2 blocks, 3 calls, 2 lost bits |
| `console` | `ClockRight`, `OutputInOrder`, `InputInOrder`, `LineSet`, `OutputSent` | fifos of 2, 3 events (writes, arrivals, requests, holds of the output) and 2 ticks: even parity, `kw_bits` and a write give a character looped back, links of period 1 and 2, a panic text of 2 |

`storage` and `polled` each join components that do not run together: the initial state
says which one a behaviour is about, so their states add up instead of multiplying.

Deadlock checking is off where the system may stop: the bounded inputs are used up, the
model has reached a panic or a crash of the kernel, or (SATA) there is no device.

Bounds. Each counter is bounded by a constant named in its module (`MaxFaults`, `MaxPkts`,
`MaxVers`, `MaxLines`, `MaxInits`, `MaxErrors`, `MaxN`, `MaxOff`, `MaxIq`, `MaxCalls`,
`MaxAes`, `MaxTicks`, `MaxWrites`, `MaxKills`, `MaxFlips`, `MaxOps`, `MaxEvents`, `MaxTails`). Rings of
three are the smallest where a skipped descriptor differs from a wrap; two processes suffice
for the two-party races of the locks and the tag; the XOR engines need three so that a memory
init meets a partner and a third caller; fifos of two have a full, a partly full and an empty
state. Two names are what a reordered partition table needs.

### What the violation runs show

* `xor_completion`: `xorintr` reads the irq register at `xor.c:210` and clears all of it at
  `:222`. A completion of the other port that arrives in between is lost, and its caller
  sleeps for ever.
* `sata_tags`: `io` returns a tag without `reqsl`; with more than one tag two processes
  returning at once lose one and hand another out twice.
* `tx_free`: the loop that should "free transmitted packets" goes on while `TCSdmaown` is
  set and stops when it is clear, so blocks are freed before the hardware has sent them.
* `bs_open`: `isopen` is tested and incremented by opens that hold the Store as readers.

### Limits found that have no run of their own

The properties are stated so that they say where they stop holding.

* `NoDeadlock` names two ways in which `devsata.c` waits for ever: `atawait` clears `ataregs`
  after it has read a busy status (`:480`), and `satastartreset` resets the device under an
  ATA command (`:858`). A failed request keeps its tag (`:1096`, as its comment says).
* With depth 2 a request slot is reused before its request has completed (`devsata.c:1038`),
  and after a smaller depth `tagnext` may point past it (`:684`). `satakick` (`:329`) replaces
  a pending reset by an identify.
* `CompletionDue` needs that `identify` does not come from the ctl file: one that runs before
  the first reset of `satastart` leaves that reset unclaimed, and it ends a request that is under
  way. The run `sata` therefore has `flush` as its only ctl command besides `satastart`'s identify.
* `receive` (`etherkirkwood.c:388`) has no descriptor to stop at when the pool is dry and
  uses a nil block: `crashed` in `EtherRx`.
* `interrupt` (`etherkirkwood.c:474`) clears causes it has not read: `FramesTaken` and
  `PacketsSent` are conditional on the handler running for its own cause only.
* `partcheck` accepts a partition strictly inside an earlier one (`OverlapOnlyWithin` is the
  exact limit), compares relative with absolute positions for Plan 9 tables (`part.c:185`) and
  `:187` computes a wrong `e`; `io` uses `s` and `size`, so the i/o properties hold.
* A partition table changed between walk and open makes open take the partition that now has
  the index (`devbs.c:430`); `IoOnWalked` shows that this is the only way to reach another one.
  `bswstat` changes the data partition whatever the file (`:475`).
* `bsopen` of the data partition increments through a nil pointer (`devbs.c:437`).
* The last command of a long SD transfer runs past the buffer (`kwsdio.c:699`): `Chunk` of `SdIo`
  starts from `n` as the code does. `kwsdio.c:397` may read back an already cleared mask and then
  sleeps for the whole timeout.
* `bits` (`sdcard.c:30`) reads every field of one bit as 0, against its comment. In the same way it
  would lose the top bit of a field whose part in the high word is one bit (from 64 down into the
  low word); no field of the registers is like that, which the lemma `BitsRight` needs.
* `hash` (`cesa.c:852`) reads the rest of a call from the wrong place when the call also had whole
  blocks; `aes` keeps the wrong chaining value after a CBC decryption (`:479`). `DigestRight` and
  `StreamRight` hold in all other cases. The README of the repository lists "unbreak cesa.c".
* `rtctime` drops the lowest bit of second and day (`devrtc.c:130`, `:141`), and a read or write at
  a change of the day is torn (`:127-128`). A year that two digits cannot say is not written:
  `ReadShown` and `WriteShown` are proved for times from 2000-01-01 to 2099-12-31 (`Century`).
* A kill during a burn leaves `Cburn` set (`devefuse.c:162`): no fuse is written after it, and
  none is spoiled. After a timeout ctl is cleared (`:159`), but if the hardware goes on, its
  `Cburndone` ends the polling of the next write, of the other fuse: `BurnedOnce` excepts exactly this.
* An SD command that timed out may end during a later one and set its status, which `sdcmd` takes for
  its own (`kwsdio.c:412`): `AllMoved` excepts the calls it crossed, and `BufferLive` says that no other
  way leads to a buffer in use after its call has gone on.
* `kw_kick` returns when the port holds the output (`uartkirkwood.c:138`), although `kw_intr` has read
  `iir` and so ended the interrupt for the empty fifo: nothing in the driver starts the output again,
  until something kicks. `OutputSent` excepts this (`refused`), and holds again from the next
  kick that finds it let go.
* `read` of the NAND flash does not ask whether the chip is busy with a call that timed out.
* `kw_baud` sets the divisor latch with interrupts on (`uartkirkwood.c:183`): `raced`. `kw_bits` writes
  `lcr` to `mcr` (`:218`), which the model does too: the word length of the line stays, which `LineSet`
  leaves out, and after even parity the port is in loopback. With the fifos off an overrun may go uncounted.
* `etheroq` frees a looped back packet itself, where its comment says that `etheriq` will
  (`devether.c:315-316`); `MuxRight` shows that this is right for the value it passes.
* In `intrs` the spurious path keeps the spurious bits of the bridge register and clears the
  others (`trap.c:150`); no line the kernel enables leads there.
* `satakick` replaces a pending start (`devsata.c:329`), and ctl `reset` starts a second `satastart`
  (`:967`).

## 4. Fairness

* `EtherRx`: weak fairness of the handler: a pending receive interrupt is served and
  handlers return. Interrupts for other causes may occur but need not.
* `EtherTx`: weak fairness of `transmit`, its callers, the handler's second step and the
  hardware's sending; strong fairness of taking its interrupt, since `transmit` runs with
  interrupts off in between.
* `BlockStore`, `SdIo`: strong fairness of each process's steps: processes are scheduled
  round robin, and QLocks and RWlocks are granted in the order of arrival, so a process
  that waits gets the lock although others take it in between. Starting a call, and being
  killed, are not fair. In `SdIo` the controller is not assumed to answer: the timeout of
  `sdcmd` is what makes calls return.
* `SdInit`: weak fairness of the commands, for the same reason.
* `Uart`: weak fairness of sending, of the receive timeout, of taking and handling interrupts,
  and of a process with interrupts off or in a panic. Writing, letting held output go on and
  requests are not fair, except that a request under way goes on.

`XorPorts`, `Sata` and the polled drivers are checked for safety only; `NoDeadlock` of `Sata` states in a single
state what would otherwise need fairness: that something can move or everyone is idle.

## 5. Proofs

TLAPS proves the following for every value of the constants that meets the assumptions named
in the modules. The assumptions are of four kinds: a value that stands for nobody or nothing
is not one of the real ones (`NoProcAssumption`, `BurnersAssumption`, `UsersAssumption`,
`HashersAssumption`, `BlocksAssumption`, `ValuesAssumption`, `PartsAssumption`); bounds are
natural numbers; a ring has at least two descriptors, as the drivers' have dozens; and a fifo
of the serial port holds at least two characters, where the chip's holds sixteen. With a
single entry the claim about overruns would fail: the last read of `kw_intr` empties the fifo
that an overrun was about.

**`XorPortsProofs`.** `PortExclusive`, `MeminitExclusive`, `InitvalKept` and `DoneIsFresh` for
any number of engines and processes. `IInv` adds: the lock's holder is in the locked section
(`LockInv`); what the scan chose stays free until `Take`, as `inuse` changes under the lock
only (`ChosenInv`); a holder's port is marked with its kind (`HeldInv`); a programmed memory
init owns its engine's registers (`InitvalInv`); and a free, unstarted or done port is quiet:
not active and without a pending bit (`QuietInv`), without which a late bit could set the
`done` of the next caller. From it follows `Spec => PoolSpec`, the refinement: a user has a
port from `Take` to `Release`, its transfer runs from `Start` to `HwComplete`, a killed process
keeps its port for ever, and all other steps stutter.

**`EtherRxProofs`.** `BlockOnce`, `BlockKept`, `OwnedHasBlock` for a ring of any size, any set
of blocks and any queue limit; these are inductive together. `ReceivedInOrder` and
`Replenished` need the shape of the ring on top of it, `Segments`: from `rxhead` on come the
descriptors received and not yet read, then the hardware's, then the empty ones that
`rxreplenish` has still to fill. The indices alone do not tell a full ring from an empty one, so
the invariant counts the descriptors of each segment.

**`EtherTxProofs`.** `SentInOrder` and `Accounted` for a ring of any size and any number of
packets and callers of `transmit`. `IInv` says that the hardware's descriptors are those from
where it sends next up to `txhead` (`OwnedRun`), that `sent`, the ring and `oq` are numbered
upwards in this order, and that what is neither sent, in the ring, nor in `oq` was refused.
Since the driver frees blocks of descriptors that the hardware still owns (run `tx_free`), the
invariant is about the packets' numbers and not about `txb`. From it follows the refinement
`Spec => FifoSpec`: what waits in `PacketFifo` is what the hardware owns and what is in `oq`
(`InFlight`); `Write` accepts, `HwSend` delivers the oldest, `Refuse` rejects, and all other steps,
`Queue` among them, stutter. It needs `RingGood` besides, that no refused packet is in a descriptor.
For `EtherDev`: `DevSpec => Spec`, so the composition inherits all three, and `MuxRight` for every table of
connections and every choice of failing allocations and full queues.

**`BlockStoreProofs`.** `IoOnWalked` for any number of processes, names and re-initialisations.
`IInv`: a `Store` has readers or one writer (`Excludes`, also stated as `WritersAlone`); a Chan
of the current version leads to the name that was walked to (`Leads`); and what i/o checked before its
transfer stays so, as it holds the Store as a reader (`InTransfer`).

**`SataProofs`.** `TagExclusive`, `ClaimQuiet`, `NoTagReuse` and `CompletionDue` for any number
of processes, slots and faults. The depth of the disk's queue is a hypothesis, `Depths = {1}`: the
run `sata_tags` shows that with two tags `TagExclusive` fails, since `tagsinuse` is incremented and
decremented without the lock. With one tag the user is alone (`OneUser`): it takes the tag under
`reqsl` with `tagsinuse` zero, has counted it when it lets `reqsl` go, and what fails is never
returned (`CountRight`, `OneRequest`). `CompletionDue` has `DueInv` on top of it: while
nothing fatal has happened only mild causes are set, and a completion is in the device's queue, to be
read by the handler, or in `reqsdone` (`ResultDue`). Its other
hypothesis is that the ctl file issues no `identify`; the reason is in section 3. `NoDeadlock` has the
same hypotheses and needs `WaitInv` as well: a queued request has the dma engine on, and without a
fault whoever holds `reqsl` is in the locked section, a tag in use has a process that counted it, and
no request has failed. So a sleeper for the lock waits for a process that is not waiting for it, a
sleeper for a tag or in `sataclaim` for a request, and a request for the device.

**`PolledProofs`.** Each driver has its own specification here.
`BurnedOnce`: any number of writers, kills and timeouts. A fuse that is still being burned is secured and
blank (`Burning`), and out of burn mode only a burn that went on after a timeout is (`Calm`). Who polls
is in burn mode with its fuse being burned or holding its value, and `Cburndone` is its own or a late one's
(`Polling`). A burned fuse has its security bit (`Secured`), so none is burned twice.
`FlashRight`: pages of any number, calls of any size. What a call that timed out left undone makes
the pages it was about doubtful (`ChipDoubt`), and only those.
`StreamRight`: any number of users of the two AES engines. A stream's chaining value is the last
block of its last call, in the engine for the holder of the lock and saved for the others
(`Begun`, `Chained`).
`DigestRight`: any number of processes and calls of any length. `Streamed` says how many bytes of
the stream have reached the engine at each step of a call; the lemmas `Cuts` (a call's bytes are
whole blocks and a rest) and `Finished` (what `final` appends is the padding of the whole stream)
are about the operators of `CesaHash`, from facts on concatenation and repetition of sequences.
`FieldsRight`: every content of a register. The loop of `bits` makes at most two turns that take bits,
so that the lemma `BitsRight` follows it turn by turn for all positions of a field.
`ReadShown` and `WriteShown`: every time of the century and any interleaving. `YearStartIs` and
`MonthStartIs` give the sums of the loops in a closed form (a recursive function has one solution, and
two that agree at each step agree everywhere: `Agree`, from the least element of a finite set);
`YearOfIs` and `MonthOfIs` say where the loops of `sec2rtc` end; `TimeIs` and `DateIs` what the
masks and BCD make of a register. `RtcInv` then has the registers those of some time, the writer's
fields those of its time, and the date unchanged while a read is not torn.

**`StorageProofs`.** `ValidRight`: the address and the kind of addressing that the host keeps are
the card's from the command that sets them on (`CardInv`). `OverlapOnlyWithin`: any table on any disk;
`MbrEnds` and `MbrPassed` say what the entries `partcheck` has accepted look like. `ReadRight` and
`WriteRight`: every request on every partition of every table, for any block size, from arithmetic
lemmas on `Down` and `Up` of `BsIo`. `AllMoved` and `BufferLive`: any number of processes, sizes and
chunks; `SdTypes` and `Fits` say, for a call that was not crossed, that the command under way is its own
while it has the lock, lies within the call, and that a status set since it was cleared is this command's.

**`ConsoleProofs`.** Four invariants over the composition of `Uart` and `Intr`. `IntrInv` gives
`ClockRight`: the clock's handler runs inside the bridge's dispatch with the latched bit
still set, and no process is at `splhi` while it does (`DispatchInv`); a link is in the list exactly
from the tick at which it was added (`LinksInv`). `LineInv` gives
`LineSet`. `KickInv`, that a kick of `kw_intr` is inside the interrupt for an empty fifo and that nobody kicks
after a panic, makes `OutputInOrder` inductive. `RxInv` gives `InputInOrder`: the characters in the fifo are the ones
that arrived after those passed on (`HeldInv`), and damaged and overrun ones are counted or still to be
seen in `lsr` (`CountedInv`), as long as neither `raced` nor `cleared` holds.

### Only model-checked

* `FramesTaken`, `PacketsSent`, `OpsFinish`, `GoodCardValid`, `CallsReturn`, `OutputSent`: liveness under
  fairness.
* The properties of the violation runs, which the code does not have.

## 6. Plan

Done: the drivers above, their compositions with the devices on top of them, three refinements, and
a proof of every safety property of the passing runs. What is
left, in this order:

1. *Abstract specification*: a tag allocator that `Sata` implements for depth 1, with its refinement
   proved from the invariant that is there.
2. *Proofs*: `CompletionDue` of `Sata` without its second hypothesis, stated with the reset that spoils
   it, and `NoDeadlock` with it.
3. *Composition*: `EtherRx` with `EtherTx` under the one handler they share.
4. *Operations*: MII access and promiscuous mode of the ethernet driver, DES of `cesa.c`.

## 7. Not modelled

Register layouts (`io.h`, `mem.h`, `dat.h`, `fns.h`) except where a module's variables are
registers, assembly (`l.s`), start-up (`main.c`, `archkirkwood.c`), the floating-point emulator
(decoding around a library that is not in the repository), the Sheeva device (single register
accesses), the host tool `mkuimage`, formatting of ctl and statistics files, and the contents of
packets, sectors and requests. Of modelled drivers: ctl `reset` of SATA, permissions and the raw
file of `devbs` (no driver implements raw commands), MII and MIB access of the ethernet driver,
DES and the dma path of `cesa.c` (a stub and a test), erase of SD cards, identification of
the NAND chip. The width of integers is not modelled where a number is only compared: partition
tables and i/o requests are assumed to fit a `vlong`.
