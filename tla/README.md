# Verification of the Chimera SDK

The Chimera SDK is the software for heterogeneous RISC-V SoCs: one *host* hart
and several *Snitch clusters* of up to nine cores. A host application brings a
cluster up, *offloads* a function to its cores, serves the cores' output while
they work, and collects a return value. Host and clusters run in parallel and
meet in a few words of memory and a few registers, without an operating system.
This directory models that interaction in TLA+, checks it with TLC and proves
parts of it with TLAPS.

## Inventory

| Component | State | Operations | Interacts with | What is hard | Modules |
|---|---|---|---|---|---|
| Device printf (`devices/snitch_cluster/runtime/putc.c`) | line buffer of each core, mutex word and pointer, mailbox words `device_to_host`, `host_to_device` | `snrt_printf_init`, `snrt_putchar` | host service loop (mailbox, software interrupt) | cores race for one mailbox; spin lock; `.noinit` memory | `Putc`, `LinePrinter` |
| Host service loop (`tests/snitchCluster/snrt/src_host/test_host.c`; the same loop in `matmul`) | `syscall_addr` | poll busy, take, serve, answer, sleep | device printf, boot ROM | request and busy flag race; must end | `ServiceLoop`, `ServiceLoopProofs` |
| Offload driver (`host/drivers/cluster`) with interrupt handler and trampoline | trampoline words per hart, boot and handler address, interrupt bits, busy, return, clock gate and reset registers | `offload_snitchCluster`, `_core`, `wait_..._busy`, `wait_..._return`, clock gating, reset | every core | fixed delays instead of handshakes; order of stores; stale registers | `Offload`, `OffloadProofs` |
| Cluster test driver (`targets/chimera-convolve/host/src/test.c`) | round state, deadline, `timed_out`, clock source | `test_cluster` | offload driver, device printf, CLINT, FLL | a timeout racing the kernels; several rounds; error returns | `TestCluster`, `TestClusterProofs` |
| Memory island allocator (`host/runtime/src/alloc.c`) | bump pointer, free list, block headers | `memory_island_malloc`, `memory_island_free` | host applications | long call sequences; rounding; wrap-around | `Alloc`, `Heap`, `AllocProofs` |
| CLINT driver (`host/drivers/clint32`, `host/runtime/src/clint.c`) | mtime, mtimecmp, mie, mstatus | read time, spin, sleep, measure frequency, trap vector | clusters (software interrupt), test driver, UART | 64-bit counter read in halves; interrupt before `wfi`; carries | `Clint`, `ClintProofs` |
| Cluster start-up (`devices/snitch_cluster/runtime/init.c`, `trampoline.c`, `generate_snitchCluster_SPs`) | stacks, thread pointers, L1 contents, DMA transfers, L1 allocator | stack pointers, trampoline, `snrt_init` | DMA engine, barrier, host | transfers under way while cores run; address arithmetic; a second offload to used memory | `ClusterStartup`, `ClusterStartupProofs` |
| FLL runtime and driver (`host/runtime/src/fll.c`, `host/drivers/fll`) | bypass, FLL registers | `configure_fll`, `restore_default_freq` | UART, CLINT (measures the clock) | errors in the middle of a switch; 32-bit arithmetic | `FllParams`, `HostClock`, `HostClockProofs` |
| UART driver and host stdio (`host/drivers/uart_apb`, `host/runtime/src/putc.c`, `uart.c`) | divisor, FIFOs, shift register, configuration pointer | open, close, read, write, flush, `uart_putc`, `uart_getc`, `uart_flush` | FLL runtime | characters in flight while the clock changes; pointer to a dead local; polling | `HostClock`, `HostClockProofs` |
| Pad frame (`padframe_gpio.c`, `padframe_hyperbus.c`) | packed registers | 288 GPIO and 30 HyperBus accessors | none | neighbouring fields in one register | `Padframe`, `PadSignals`, `RegisterProofs` |
| HyperBus driver (`host/drivers/hyperbus`) | timing and window registers, a configuration | 27 accessors, default, write, read, print | none | windows that wrap around; mixture of calls | `Hyperbus`, `RegisterProofs` |
| Host start-up (`crt0`), `clint64`, HAL, other register headers, build scripts, ITA SDK, kernels | – | – | – | – | not modelled |

Correctness, component by component:

* *printf*: a completed text appears on the console once, whole, and before its
  core goes on; nobody overwrites a request or takes another one's answer; the
  host never reads a text that is changing; every flush and the host's loop end.
* *offload*: a core runs the function, argument and stack of one offload, the
  one that woke it; a collected result is that offload's, with all cores done;
  the wait for it ends; no cluster is stopped while it works.
* *test driver*: results are those of the round; a timeout is reported, does not
  make a later offload wait for ever, and leaves the clusters stopped.
* *allocator*: blocks are neither lost nor shared, and payloads stay apart.
* *CLINT*: a time that is read is one the counter had; waits are long enough and
  end; a measurement covers its period.
* *start-up*: no application code runs before its stack, its thread-local storage
  and its cluster's data are in place, and every started core gets that far.
* *clock and UART*: no character is lost, or leaves at a wrong rate, whatever the
  clock does; the clock is the one that was asked for; nothing runs from an
  unlocked FLL; the calls return.
* *pad frame*: a call changes the signal that its name says, and no other.
* *HyperBus*: registers hold what the calls asked for; windows select one chip.

## Modules and the code

**`Putc`** is `snrt_putchar`. One action is one access to memory that another
hart sees: `Putchar` (line 88-89), `FillSyscall` (90-95), `TestMutex`/`SwapMutex`
(the runtime's TTAS lock, external), `PostRequest` (96), `RingHost` (98-99),
`SpinOnReply` (100), `ClearReply` (101), `ResetSize` (102), `ReleaseMutex` (103).
`pc[c]` is the place of core `c` in the function. The mutex pointer is a
variable: each cluster's `SnrtPrintfInit` overwrites it. The buffers are in
`.noinit`: their characters start with any contents, and `hdr.size` with any
value of the constant `InitSizes`.

**`ServiceLoop`** extends `Putc` with the host's loop, one action per access
(`PollBusy` … `SleepTicks`, lines 66-93), and with the boot ROM's fall of the
busy flag. **`LinePrinter`** is the abstract specification: a text per core,
behind whatever the buffer held at the start, the cores whose text is complete,
and a console. `Pending` and `CompleteCores` in `ServiceLoop` are the refinement
mapping (a text counts as printed from the moment the host has written it,
although the buffer is emptied three steps later).

**`Offload`** is the driver: `CallOffload`, `WaitBusy`, `Nops`,
`SetupTrampoline`, `WriteBootAddr`, `SendInterrupt`, `FinalDelay` are
`offload_snitchCluster` and `_core` (106-167; the second sets the core up before
it waits); `CallWaitReturn` … `ClearReturn` are `wait_snitchCluster_return`
(211-246). The cores' side is the interrupt handler (`SetClusterBusy`,
`ClearInterrupt`) and the trampoline (`LoadWord`). An offload's number stands
for its function, argument and stack, so that a mixture of two offloads is
visible. The constant `Apps` describes the applications of `tests/`: which of
the two calls they make, whether they collect every result, and how often they
offload. The driver's two delays, `Nops` and `FinalDelay`, are loops that look at
nothing: the cores may take any number of steps while they last.

**`TestCluster`** extends `Putc` with `test_cluster`, one action per access in
the service loop and one per phase elsewhere. `late` says whether mtime has
passed the deadline; it may become true at any moment. `configure_fll` and
`restore_default_freq` may fail before or after they have switched the clock; the
driver ignores the second one's result, before its loop (line 36) and after each
round (297). `clkFailed` records that the last of these calls reported an error.

**`Alloc`** is `region_malloc` (`Reuse`, `Bump`, `MallocFails`) and
`region_free` (`Free`), one action per call: only the host's hart calls it. All
sums wrap around at `WordSize`. **`Heap`** is the abstract heap.

**`Clint`** is the driver with one action per register access, the counter
(`Tick`) going on in between, and `default_trap_vector` (`TakeTrap`) taken
wherever interrupts are enabled.

**`ClusterStartup`** goes from the host's stack pointers (`generate_snitchCluster_SPs`
and `_uniform`) over `trampoline` to `snrt_init`: `ThreadInit`
(lines 62-76), `LoadCluster` (the asynchronous `snrt_dma_start_1d` calls, 76-112),
`InitCls` (114-125; the data mover alone sets `_cls_ptr`), `WaitAll` (127),
`snrt_printf_init`, `Barrier` (166).
Addresses are the real ones, computed as the code and the linker script compute
them; memory is kept per *area* (a section, a stack, thread-local storage, the
mutex), which a store fills if it covers it exactly and spoils if it touches it
otherwise. `Start` starts all cores of a cluster in one step: a core that starts
later is one that stays at its first instruction for longer, and only the core
itself reads its words (their races are `Offload`'s subject).

**`FllParams`** is the arithmetic of `calculate_fll_params`, `initFll` and
`setFllFreq`, with sums and products modulo 2^32; powers of two and the number
that a set of bits stands for are recursive functions. **`HostClock`** is the FLL
runtime with one action per phase (`EnableBypass` … `Return`, lines 84-141), the
UART driver with one action per polling loop, and the three character functions
of stdio. The UART shifts characters out on its own; a character is garbled when
the divisor does not fit the clock, or when clock or divisor change under it. A
message of any length is one character: the driver treats each one alike. After
`configure_fll` has returned, the configuration pointer designates anything.

**`Padframe`** has one action per pad, its set and get functions, on registers
that are sets of bits (**`BitFields`** holds the external helpers). `GPIO_n` and
`DRV_STRENGTH` are the offsets, masks and positions of the two register headers.
**`PadSignals`** is the abstract specification, the promise of the two API
headers: one value per pad and signal. `Programmed` is the refinement mapping.
**`Pads`** has the names that both use.

**`Hyperbus`** has one action per function of `hyperbus.h` and `hyperbus.c`.
`want` records what the calls so far ask for, window by window and field by
field, without the register map. Its names differ from those of `Padframe`
(`BusSpec`, `words`), so that one module of proofs can extend both.

**`MCHostCalls`** puts `Clint`, `Alloc` and `Hyperbus` side by side for one run:
what an application calls on the host and what keeps state of its own. The three
share no variable and one hart calls them, so that calls of different ones
commute; `uses` says which of them the application calls.

The other `MC…` modules hold the functions and sets that the
configurations assign to constants. Operators named `Bug…` are plausible
mistakes in the code, one for each checked property, with which the checks
themselves are tested: replaced for the definition they belong to, they make TLC
report the property violated.

### External parts

The clusters' boot ROM is not in the repository. It is modelled from what the
driver and the trampoline expect: a parked core takes its software interrupt,
calls the handler whose address the host wrote, jumps to the boot address; the
function returns to the ROM, the last addressed core clears the busy flag and
then writes a return value with bit 0 set. `snrt_mutex_ttas_acquire` belongs to
a submodule and is modelled as the test-and-test-and-set lock its name says.
`wfi` waits until an interrupt is pending that `mie` enables. The DMA engine
completes transfers in any order; the hardware barrier releases the cores when
all have arrived; the last core of a cluster is its data mover. The UART is a
16550: `THR empty` and `transmitter empty` are different moments, and a FIFO
reset does not stop the shift register. OpenTitan's `bitfield.h` and
`dif_gpio_write` (which may fail at any call) are modelled from their use. The
loop of 1000 iterations in `configure_fll` is assumed to be long enough for the
FLLs to lock, and `clint_get_core_freq` to be exact: its error is far below what
a UART tolerates. The mailbox and
register accesses are volatile accesses to uncached memory: sequential
consistency is assumed.

## Runs

| Run | Result | Bounds | Shows |
|---|---|---|---|
| `service_loop` | pass | 2 cores of one cluster, buffers of 2 with any contents and sizes 0 or 1 at the start, 2 characters each | lock, mailbox, buffers, refinement of `LinePrinter`, both progress properties |
| `putc_noinit` | violation of `StoresInBounds` | the same, sizes 0, 1 or 2 at the start | a size that `.noinit` left at the length |
| `service_loop_two_clusters` | violation of `FlushesSerialised` | 1 core in each of 2 clusters | the shared mutex pointer |
| `offload` | pass | clusters of 1 and 2 cores, 3 offloads (2 without collecting) | jobs, results, clock gating, progress |
| `test_cluster` | pass | 2 clusters, 1 line each, 2 rounds, automatic and interactive, frequencies none, in and out of range | timeouts, rounds, error returns, clock |
| `test_cluster_batch` | violation of `RunsOnce` | `dutctl` mode, a frequency out of range | the loop that never ends |
| `test_cluster_timeout` | violation of `TimeoutReported` | 1 automatic round | timed out, returns 0 |
| `host_calls` | pass | `Clint`: words of 2 bits, waits of 1 and 2 ticks; `Alloc`: 50 bytes, sizes 0, 5, 13, 40; `Hyperbus`: 3 calls, 5 addresses, 2 chips | reads of the time, waits, measurements, progress; blocks, payloads, refinement of `Heap`; registers, windows |
| `clint_sleep` | violation of `SleepEnds` | waits of 1 tick | interrupt before `wfi` |
| `startup` | pass | 2 clusters of 2 cores, 2 binaries, 2 kinds of stacks, 2 offloads | everything in place in `main`, alignment, progress |
| `host_clock` | pass | 11 frequencies, 2 calls of the FLL runtime, 2 characters each way | characters, clock, progress |
| `padframe` | pass | all pairs of calls, arguments 0 and 18 | refinement of `PadSignals` |

Why the bounds suffice: two cores are enough for every race for a lock or a
mailbox; a buffer of two fills up and also ends early with a newline; two
characters give a core two flushes, and sizes 0 and 1 are all valid indices
of such a buffer (the theorems are about every length and any number of
characters); in `TestCluster` every character is a line and a buffer of one
holds it; clusters of unequal size tell the hart-id
arithmetic apart from one that assumes equal sizes, and three offloads give a
cluster a successor of a successor; two rounds are what stale results, flags
and timeouts need; a heap of three or four blocks has reuse with a smaller size
in every position of the list; a counter with a low word of two bits wraps
around within every operation. In `startup` one binary has every section and one
leaves out those that may be empty, one kind of stacks fits and one reaches into
the data, and the second offload finds what the first one left. The frequencies
of `host_clock` are those on both sides of each change of the divider, the ends
of the range that `test.c` accepts and the first one out of reach; they are in
units of 4 Hz because TLC's integers end at 2^31, and every number in the
computation is a multiple of it, so that nothing is rounded differently. Two
calls of `padframe` are a call and one that might disturb it; registers start
with all bits set, where a bit that is cleared shows, and 18 has bits inside and
outside of every field. Five addresses have windows that are empty, adjacent,
overlapping, full and wrapped around. The counters that bound the state
space are `MaxChars`, `MaxJobs`, `MaxRounds`, `MaxTime`, `MaxCalls` and
`MaxOffloads`; TLC does not check for deadlock because in each model the program
ends when its work is done.

### Fairness

Weak fairness of each hart's steps: a hart keeps executing, and the code has no
scheduler that could starve one. No strong fairness is assumed: `FlushCompletes`
holds with a spin lock whose swap may lose each race, because a core prints only
`MaxChars` characters. In `Offload` the application's own calls have no
fairness: it may stop between two of them. In `TestCluster` the deadline
eventually passes (time goes on), and `Clint` makes the counter tick.
`ServiceLoop` and `TestCluster` assume that `clint_sleep_ticks` returns, and
`TestCluster` that `fgets` does; this is an assumption and not a fact of the code:
`Clint` shows when a sleep returns (`WaitsEnd`) and when it does not (`SleepEnds`).
`TestEnds` holds with a user, or with a frequency that is not out of range;
`RunsOnce` is the rest, and is violated.
In `ClusterStartup` cores, DMA engine and barrier go on; the application may stay
in `main`, and the host need not offload. In `HostClock` the driver and the
transmitter go on, which is to say that the terminal accepts characters (the
driver enables flow control); the program may stop between two calls, and
nobody has to type: a read may wait for ever.
`ServiceLoop` and `TestCluster` assume the busy flag to be up when the offload has
returned. The driver means its ten empty iterations to see to that
(`offload_snitchCluster.c:166`) and its header warns that the flag is not reliable
right after an offload; whether they do is a matter of cycles, about which
`Offload` can say nothing.

## Where code and comments disagree

With a run each:

* the two-cluster mutex (`putc.c:32`, run `service_loop_two_clusters`);
* `hdr.size` is in `.noinit`, no code sets it before the first character, and the
  flush test is an equality (`putc.c:88-89`, run `putc_noinit`). What does hold is
  `BoundsKept`: where every size is a valid index at the start, it stays one;
* the unreported timeout (`test.c:315`, run `test_cluster_timeout`);
* a frequency out of range never ends a run without a user (`test.c:134-136`, run
  `test_cluster_batch`);
* the interrupt between `set_mie` and `wfi` (`clint32.c:111`, run `clint_sleep`).

Seen in the models, without a run of their own:

* `offload_snitchCluster_core` stores the function, argument and stack of a new
  offload before it waits for the cluster (`offload_snitchCluster.c:117`, 122),
  while `offload_snitchCluster` waits first: a core that is still waking for the
  previous offload runs the new one. `RunsItsJob` holds for applications that
  collect each result first, the ones in `MCOffload`.
* `test.c:242` stores the answer to a print in the request word; the host prints
  the text again and again and the core, which waits for the other word, runs
  into the deadline. `test_host.c:86-88` of `snrt` writes the right one.
* `clint32.c:90` adds no carry: a measurement that starts within `num_ticks` of
  a wrap-around of the low word ends at once. The second
  part of `WaitsLongEnough` is about the others.
* The delay "waiting for all cores to set the busy flag" reads no flag
  (`offload_snitchCluster.c:165`).
* `restore_default_freq` can fail and leave the chip on the FLL, and `test.c:297`
  ignores it; `LeavesChipQuiet` says that this is the only way.
* The range that `test.c` accepts, up to 1000 MHz, is wider than what
  `calculate_fll_params` can reach, 825 MHz.
* A size near the top of `size_t` wraps around (`alloc.c:41`; `SizesFit`).
* `retVal` keeps only the last cluster's errors (`test.c:251`).
* The comment on `restore_default_freq` says that it skips steps 1 to 4
  (`fll.c:21`); it enables the bypass (153), and has to. The comment on
  `calculate_fll_params` speaks of an oscillator below 3.3 GHz (`fll.c:10`); the
  code keeps it below half of that (`denom`, line 48), and this is what
  `ReachesTarget` states.
* When the bypass cannot be disabled (`fll.c:119`), the message about it goes out
  with the divisor of the old clock: `CharactersDelivered` excepts this case.
* `andi sp, sp, -0xF` does not align to 16 bytes, as the comment above it says
  (`trampoline.c:57`): it keeps bit 0. `StacksAligned` holds because the
  addresses it is applied to are aligned already.
* `snrt_exit` adds the cluster's index to a byte offset (`init.c:174`); nobody
  calls it.
* The API headers of the pad frame ask for "a value smaller than 1", 3 or 15
  (`padframe_gpio.h:11`); the fields hold these values too.
* `clint64` reads mtime in two halves although its header comment speaks of a
  single read (in no target's build).

## Proofs

**`ServiceLoopProofs`**, for every number of cores, every buffer length and any
contents of the buffers at the start:

* `StoresKept`: `BoundsKept`, from `IndexInv`, for any number of clusters and
  without any assumption on the mutex or the host: a valid `hdr.size` stays one
  because a core that has filled its buffer resets it before its next character.

The others assume that all printing cores belong to the polled cluster
(`OneCluster`; with two clusters the mutex excludes nobody) and that `hdr.size`
starts with a valid index (`SizesInBounds`; the code does not see to it, and
without it the descriptor that the host reads has a length that is not the
buffer's):

* `Invariance`: `IInv` is an invariant. The safety properties are not inductive.
  `IInv` adds to the types (i) `LockInv`: the mutex word is 1 while a core
  is in the critical section, and a core that reaches for it uses the one
  pointer; (ii) `BufferInv`: a core that flushes has a text
  and a descriptor of its length, one that runs has room for a character; (iii)
  `MailInv`: for each place of the host, which core may be where, so that
  request, served and answered texts are one and the same; (iv) `LeaveInv`: the
  busy flag is down only when all cores are done, and the host has left only
  then.
* `Safety`: `TypeOK`, `FlushesSerialised`, `HostReadsStableText`,
  `ReplyReachesRequester`, `LeavesNothingBehind` follow.
* `RequestsKept`: the action property `RequestNotOverwritten`.
* `Refinement`: `ServiceLoop` implements `LinePrinter`: `Putchar` maps to `Put`,
  `ServeWrite` to `Emit`, every other step leaves the pending texts unchanged.

**`AllocProofs`**, for every heap, alignment, header and set of sizes that fit
(`SizesFit`):

* `AllocInvariance`: `IInv` is the types, `BlocksAccounted` and `Layout`: blocks
  are aligned, lie between the heap's start and the bump pointer, and each
  ends, its header and the size it was carved for included, before the next one
  begins. `Layout` speaks of the size in the header: a reused block is held for
  less, which is why `PayloadsPrivate` alone is not inductive.
* `AllocSafety`: `BlocksAccounted` and `PayloadsPrivate`.
* `AllocRefinement`: `Alloc` implements `Heap`.

**`RegisterProofs`** is about the two drivers that keep a configuration in
registers. For the pad frame, for every argument, every number of calls and every
contents of the registers:

* `RegistersStayWords`: `TypeOK` is an invariant, by itself inductive.
* `SignalsIndependent`: `Padframe` implements `PadSignals`. The layout is a
  finite table of 159 signals; the lemmas show, pad by pad, that no two of them
  share a register and a bit, that writing a field reads back masked and leaves
  every disjoint field as it was, and from both that a set call maps to a
  `Set` and a get call to a `Get`.

For the HyperBus driver, for any number of chips, any size of the address space,
all arguments and any number of calls:

* `ConfigurationHeld`: `ReadsBack`, from `HyperbusInv`, which adds that registers
  hold numbers, those of the windows addresses, and that the configuration in
  memory is one. `Mirrors` says of single registers what `ReadsBack` says of whole
  configurations. A function changes one field or window because no two of them
  share an offset (`OffsetsApart` and the lemmas after it); it reads back as it
  was written because the sum and the difference modulo the address space, with
  which the driver goes from sizes to ends and back, undo each other
  (`WrapAround`).
* `WindowsSelect`: `SelectsOneChip`. Windows from `hyperram_cfg_default` follow
  each other without a gap, so the chip of an address is a quotient, and unique.

**`HostClockProofs`**, for every frequency, baud rate, set of targets and number
of calls and characters:

* `CharactersSafe`: `CharactersDelivered`, from `CharInv`. Its parts are (i)
  `Counted`: every printed character has left, is in the UART or has still to be
  written, and the UART holds one only while the host waits for it; (ii)
  `Timed`: outside of a change of the clock the divisor fits, and nothing garbled
  is on its way, unless the bypass could not be left. The property alone does
  not exclude a character in the shift register when the clock changes.
* `ClockSafe`: `RunsFromLockedFll`, from `ClockInv`: where in `configure_fll` the
  host is determines which FLLs are programmed and locked. It rests on the lemma
  `Reprogrammed`: `initFll` and `setFllFreq` leave nothing of what the register
  held before, so that both FLLs end with the same contents.
* `TargetReached`: `ReachesTarget`, from `TargetInv`: while `configure_fll` carries
  out a call, the parameters fit the target (`Fits`), and once the SoC's FLL is
  programmed its register is packed from them. The property speaks of the end of
  the call only. The arithmetic is in the lemmas: the number of the bits of a
  number is the number (`NumberOfBits`), the exponent is the largest power of two
  below the limit (`Exponent`), rounding is off by half a step at most
  (`Rounded`), and so multiplier and divider fit their fields and no bit of one
  reaches the other (`ParamsFit`, `Packed`).
* `ClockTypes`: `TypeOK`. It needs `TargetInv` as well: the clock is a quotient by
  the FLL's divider, which must not be 0.

The last two rest on two assumptions about constants. `FllRange`: the ceiling is at
least 6 and less than 131070 times the reference, and the sum of the two is no more
than 2^32 Hz; `fll.c` has 3.3 GHz and 32768 Hz. `TargetRange`: a target other than 0 is below
2^31 Hz and high enough (about 50 kHz) for a divider of 4 bits, and the FLLs do not
come out of reset with the divider 0. The code checks neither bound on targets in
`configure_fll`; its caller lets 10 to 1000 MHz through (`test.c`).

**`OffloadProofs`**, for every number of clusters, of cores in each of them, of
offloads, and for every set of applications:

* `OffloadInvariance`: `IInv` is an invariant. It consists of what holds for any
  application and what holds for some. For any: `TypeOK`; `ActiveInv`, the
  addressed cores belong to their cluster; `HostInv`, the host's place fits the
  call it is in; `SetupInv`, which trampoline words are written and which harts
  interrupted, by the loop's index. If the application collects every result:
  `EngagedInv`, the words of a core at work are those of its offload;
  `LoadedInv`, so is what it loaded; `ReadyInv`, the cores that the host is about
  to interrupt have nothing to do; and
  `CollectInv`, in five parts, that a cluster without an offload is
  quiet, that only the addressed cores of the due one work, and that busy flag
  and return word report that one.
* `OffloadTypes`: `TypeOK`, whatever the applications do.
* `CollectingIsSafe`: `RunsItsJob`, `ResultOfJob` and `NoWorkInGatedCluster`, which
  are about applications that collect every result; nothing is assumed about
  delays. For the others they are false: `offload_snitchCluster_core` stores the
  words before it waits, and the busy flag that `offload_snitchCluster` waits for
  may not have risen yet.

The hart numbers are a recursive function of the number of cores in each cluster.
That the clusters' ranges of harts are disjoint and ordered, so that
`__CLUSTER_ID_ASM` finds a core's own cluster, is proved by looking at the
smallest counterexample: with the least-element principle for natural numbers
this needs no induction scheme with an operator for a parameter.

**`TestClusterProofs`**, for every list of distinct clusters under test and every
number of rounds. That they are distinct is an assumption that `test_cfg` has to
meet: a cluster listed twice would be offloaded to while it is busy.

* `TestInvariance`: `IInv` follows a round: nothing goes on in the other clusters
  (`OthersInv`); nothing is left of an earlier round until the loop (`StartInv`);
  in the loop, `done` can be the number of clusters only if none of them is busy
  (`LoopInv`); after it clusters are collected and stopped one by one, and unless
  the round timed out their results are this round's (`EndInv`); the chip is on the
  FLL only between a configuration and its restore, or after an error (`FllInv`). The three properties each speak of one place of the host, and the
  invariant connects these places.
* `TestSafety`: `OffloadNeverWaits`, `CollectsThisRound` and `LeavesChipQuiet`.

**`ClintProofs`**, for every word size, bound on the time and set of waits that
are shorter than a low word holds, where the counter does not wrap around:

* `ClintInvariance`: `IInv` is `TypeOK`, `MtimeAtomic`, `WaitsLongEnough` and what
  these need between two accesses: the place in a call fits the operation
  (`PlaceInv`); the words read so far are words of the counter at one moment, or
  of two, in order (`ReadInv`); target and comparator are what the call waits
  for (`TargetInv`).
* `ClintSafety`: the three properties. The core is that a high word read twice
  with the same value makes the low word read in between belong to it, and that
  a sum of two words with carry is the sum of the numbers.

**`ClusterStartupProofs`**, for every number of clusters and cores, every binary,
every address and sizes of stacks, and every number of offloads, with L1 memories
that do not overlap (`StartupAssumption`; the memory map in
`targets/chimera-convolve/shared/common.ldh`, lines 10-14):

* `StacksStayAligned`: `StacksAligned`. `generate_snitchCluster_SPs` is a
  recursive function; that its pointers are aligned and descend by at least the
  sizes is proved, like the hart numbers, by the smallest counterexample.
  `Controlled`, an invariant about addresses and control, carries it
  on: a cluster's stacks are those that the host computed while the cluster has
  work (`StackInv`), the pointers are derived from them (`RegInv`), transfers are
  under way only before the data mover has waited for them and the application
  runs in all cores or none (`PlaceInv`), and the allocator starts behind
  cluster-local storage (`AllocInv`).
* `StartsReady`: `ReadyInMain`. That the data mover's `_cls_ptr` is its own
  cluster's is part of `AllocInv`. The property speaks of `main` only; `MemInv`
  speaks of all places: an area is `Due` when the code that fills it has run, and
  what is due in a cluster whose stacks fit contains what it should. A step
  preserves it because what is due, or about to be, has its final place
  (`Placed`), areas of one cluster whose stacks fit are disjoint (`Apart`), and
  areas of two clusters are in two L1 memories (`Window`).

  `StartsReady` has a hypothesis, `Contained`: a cluster whose stacks do *not*
  fit ruins its own L1 only. It is needed. The host checks no size, so stacks
  that are large enough run down out of L1 and, past the gap in the memory map,
  into the memory of the cluster below, and spoil what is ready there. It holds in every state of the `startup` run,
  where one kind of stacks does not fit.

Every invariant, action property and refinement that a passing run checks is also
a theorem, under the hypotheses given here. Model-checked only are the liveness
properties, which are out of the prover's reach.

## Plan

1. Done: all modules above, and the proofs above.
2. Open: the hazards that no property covers. Some need code that is not in the
   repository (the clusters' L1 and L3 allocators) or time in cycles (the driver's
   delays); of the others the models have the bad case, and nothing holds of it:
   sizes near the top of `size_t`, a measurement across a wrap-around, stacks that
   do not fit, a second offload to a core that has not been collected.

## Not modelled

`crt0` (straight-line set-up before any interaction); `clint64` (in no build);
`snrt_exit` (no caller); the L3 allocator's constants; the HAL's forwarding
functions and type headers; the register headers of peripherals without a driver
(`cluster_4_regs.h`, `snitch_cluster_peripheral.h`, `i2c_regs.h` and the like);
`TRACE` output; the simulators' back ends of `putc.c`; the build and test scripts
(they do not run on the SoC); third-party code and the numeric kernels.
