# A verification development for MCUProg

MCUProg is a desktop programmer for the flash of ARM Cortex-M and RISC-V
microcontrollers. It drives J-Link, ST-Link, OpenOCD and CMSIS-DAP probes, loads a
vendor's flash algorithm into the target's RAM and calls its routines. This directory
holds TLA+ models of the parts of it that carry its logic, the TLC configurations that
check them and proofs that TLAPS checks. Every definition is a translation of the source
under `src/`; `PROJECT.json` ("map") says of which lines.

Contents: 1 the system; 2 modules and code; 3 what the runs check and show; 4 bounds,
fairness, deadlock; 5 proofs; 6 disagreements found; 7 what is not modelled; 8 plan.

## 1. The system

```
 MCUProg.py   window, debug panel, tasks, ThreadAsync      (UI thread + one worker)
     |  link_open / link_close / start_task / Chip.abort
 device/chip.py    erase, write, verify, read over sectors and pages
     |  Init, EraseSector, ProgramPage, Verify, Read, UnInit
 device/flash.py   one call of an algorithm routine: set registers, go, poll, result
     |  reset_and_halt, halted, read_/write_ registers and memory
 xlink.py          one interface over all probes; reset strategy of pyOCD probes
     |---------------- jlink.py, stlink.py, openocd.py   (direct probes)
 pyocd/coresight   cortex_m.py, ap.py, dap.py            (vendored, cut down)
     |  deferred register accesses
 pyocd/probe/pydapaccess   packets, windows, USB backends
```

| Component | State it keeps | Operations | Hard behaviours | What makes it correct |
|---|---|---|---|---|
| Main window (`MCUProg.py`) | `linked`, Connect button, `busy`, worker thread, dialogs, `chkRun` | connect, disconnect, inspect, identify, start and finish a task, stop, close | the worker runs beside the UI; downloads pump the event loop, so that handlers are re-entered; every access may raise | the connection is open exactly as long as someone owns it; no task loses it; no two threads use it |
| Programming operations (`device/chip.py`) | loop position, `abort`, read buffer, what is in the flash | chip erase, sector erase, write with verification, read, several partitions | routines that fail in silence, stops and exceptions anywhere, sectors of several sizes, blank pages | success means the data is there; nothing outside the partitions changes; stops are prompt; operations end |
| Algorithm calls (`device/flash.py`) | backoff, clock, stall note | set up and run a routine, poll, stop, time out, read the result | polling races with the target's end, a bus that is held, the stop button, the clock and the cable | the result is that of this call; the core is halted between calls; the call ends |
| Setup (`xlink.py`, `cortex_m.py`) | attempt, DEMCR's vector catch, the debug port's power | three kinds of reset, reconnection, fallback, restoring | a reset that works looks like a failed transfer; deferred writes may be lost; exceptions skip the restoring | a task starts on a halted core, after a reset if one was possible, and leaves no vector catch behind |
| DAP queue (`dap_access_cmsis_dap.py`) | packet being built, packets sent, waiting reads, response words | start a read or write, flush, fetch a result, abort | packets sent ahead of their responses; reads split and merged; errors in later, unrelated calls | sizes and window are kept; a read gets its own words; a write is never lost in silence |
| Debug and access ports (`dap.py`, `ap.py`, `cmsis_dap_probe.py`) | remembered SELECT (`_dp_select`) and CSW (`_csw`) | register and block accesses, power-up, reconnection | caches set before the write that makes them true; errors reported in other calls; pages | an access reaches the address, width and bank it was meant for; a flush leaves nothing behind |
| Connection to a CMSIS-DAP probe: `probe_open`, commands (`cmsis_dap_core.py`), USB backends (`interface/`) | who has claimed the interface, `closed`, the stop event, `read_sem`, the received packets, the trace thread | open, send a command and read its answer, trace on and off, close | two threads and a semaphore; answers that come after their caller gave up; a cable pulled at any time; an object thrown away while open | an answer belongs to the call that gets it; opening, working and closing end; a given-up connection is closed |
| Direct probes (`jlink.py`, `stlink.py`, `openocd.py`) | mode, firmware, socket or handle, `DEMCR` in between | open, reset, reset and halt, halt, step, go, memory and registers, close | late answers are taken for others; a reset makes its own command fail; waits with and without a limit; a write in pieces | a reset does what its name says; a write writes what it was asked; an access leaves the core as it was; operations end |
| Debug contexts (`debug/cache.py`, `debug/breakpoints`, `fpb.py`, `dwt.py`, part of `cortex_m.py`) | cached intervals and registers with their run tokens, breakpoint tables, comparators, watchpoints | read and write through the caches, set and remove breakpoints and watchpoints, run control | a failed transfer between two tables; overlapping intervals; names that share a register; a core that runs on in between | what is read is what is stored; the core stops exactly where it was asked to |
| Device packs (`cmsispack.py` and its callers) | index, `.pdsc` and algorithm files on disk, `devices.txt`, trusted hosts | find, fetch, read a member of a ZIP in ranges, note in `devices.txt` | two servers, expired certificates, broken transfers, writes cut short, a second call out of the first one's messages, a program that is killed | files in use are complete; a failure has a reason; files are not overwritten; calls end |
| Identification (`chipid.py`), SVD (`svdfile.py`), algorithm files (`flashAlgo.py`) | – | parse and match | – (pure functions and tables) | a match is the best one |
| Sessions, ROM tables, semihosting, trace registers (`pyocd/core`, `pyocd/debug`) | – | – | – | vendored and never reached by this program |

The components meet in few places, and the models are cut there. The window hands a task
to a thread and shares three things with it: the connection, the flag `Chip.abort`, and
the end signal (`LinkTask`). The task is a sequence of algorithm calls, each of which
returns, raises or is stopped (`ChipProgram`); what one call promises is `AlgoCall`, and
the polling loop `FlashCall` is shown to implement it. A task begins with the
setup (`TargetSetup`). Below all of them register accesses are queued and packed
(`DapTransfers`); between the two, reads and writes of bytes become register accesses, of
which the unneeded ones are left out (`MemAp`). `DapTransfers` has the words of a transfer
and takes the connection as a sequence of packets that may raise; `ProbeLink` has that
connection, the receive threads and the other commands, and takes a transfer as one
command among them. With a direct probe everything below the task is `DirectProbe`. The
upper models take from all of these that any access may raise, and that a write is carried
out or lost before the next access that is waited for. `DebugView` and `PackFetch` stand beside: the
one is pyOCD's debugger side over the same core, the other what happens before there is a
connection at all.

## 2. Modules and the code they model

**`AlgoCall`** is the abstract specification of one call: issued on a halted core, it
returns only after the routine has finished, or is stopped with the core halted, or raises
with nothing promised.

**`FlashCall`** is `callFunction` and `callFunctionAndWait`: each pass of the loop is
`PollHalted`, `PollRunning` or `PollStalled`, then `StopCall`, `StopRaises`, `TimeOut` or
`GoOn`, then `Sleep`; `ReadResult` ends it. The target (`AlgoEnds`, `AlgoRunsAway`,
`BusToggles`), the cable (`Unplug`) and the stop button (`PressStop`) act at any time.
`sticky` is the debug port's sticky error and `ClearError` is `XLink.clear_error`.
`NewOperation` is the next task's new `Flash`. `driver` is what drives the probe. An access that fails
raises with pyOCD, where it leaves the sticky error (`Stuck`), and with ST-Link, where it does not; with
J-Link nobody looks at the error (`Silent`): a call may go unheard (`CallUnheard`), and an error of
`JLINKARM_IsHalted` counts as halted (`HaltSeen`). OpenOCD, whose errors are texts, is in `DirectProbe` only.

**`ChipProgram`** is `chip_erase`, `sect_erase`, `chip_write` and `chip_read` together
with `check_write_data` and `write_all`. The flash maps pages to contents; a partition is
an address and pages; `at`, `func` and `i` are the worker's place (the Python loops are
`ReportRound`, `CallChanges`/`CallVerifies`/`CallReads` and `NextRound`). `verify` is how a
write is verified: not at all, by reading back, or by the algorithm's own routine
(`VerifyWays`). Each routine may do its work or fail in silence, since `Flash` only prints its
result; each call may be stopped or raise and then leaves the pages it works on undefined.
`MCChipProgram` gives the jobs.

**`LinkTask`** is the connection and task handling of the window. One action is one
handler run to completion; a handler that downloads a file is cut in two
(`FetchPeriph`, `FetchDone`) because it pumps events. `CloseLink` is `link_close` with
the button and `chkRun`, `connected` is `self.linked`; `Access` notes when the UI uses the link under a running worker.

**`TargetSetup`** is `XLink.pyocd_reset_and_halt` over `CortexM.reset_and_halt` and
`reset`, `Flash.__init__` and `link_close`. `pc` follows the code statement by statement from
`Halt` to `Restore`; an exception goes to `Reconnect` (`Raise`). `Passes` and `Fails` are
the two ends of a transfer that is waited for, `queued` is the one deferred write
that matters (DEMCR). The chip is one of sixteen kinds: which resets work, whether they
take the debug port down, whether they wipe the debug registers. A `VECTRESET` is always an
emulated one, because `CortexM.init`, which would find out that it is supported, is never
called by this program.

**`AccessQueue`** is the abstract specification of the queue of register accesses, as
`read_reg`, `write_reg`, `flush` and `get_result` show it to the code above: no packets, no
responses, no buffer. The target carries out what was asked for at any time, in order and
nothing twice (`CarryOut`); reads are answered in the order they were asked for, with their own words
(`Answer`); `flush` returns when all writes are carried out and no read waits (`Flushed`);
`get_result` gives up only a read that an exception has aborted (`Got`); an exception settles all
that was asked for (`Raise`).

**`DapTransfers`** is `_Command`, `_Transfer` and the queue of `DAPAccessCMSISDAP` in
deferred mode. A word is named by its request and its place in it, so that data in the
wrong read is visible. `Pack` and `Send` are `_write` and `_send_packet`; `Read`,
`ReadFails` and `ReadRaises` are `_read_packet`; `Abort`, `Skip` and `SkipRaises` are
`_abort_all_transfers`; `Execute` is the probe's firmware, from how the code uses it.
`CallNow` maps the place of the thread to the call the code above has made; `_abort_all_transfers` reading
what is left in the pipe is an exception on its way up.

**`MemAp`** is `read_memory_block8` and `write_memory_block8` down to the registers of the
debug port. `Piece` takes the next byte, halfword or part of a page (`Taken`) and plans its
three accesses: width (CSW), address (TAR), data (DRW). `Skip` is an access that is left
out because the value is remembered, `Ask` one that is handed to the queue, preceded by SELECT
if the bank is not the remembered one. `Execute`, `Fail` and `PowerLoss` are the probe
and the target. The queue is `DapTransfers` seen from above: `Send` cuts it into packets
anywhere, a failure drops what is left of its packet, `Abort` drops what was not sent and `Raise`
runs the `except` branches on the way up: which cache is forgotten depends on the access
under way (`Guarded`) and on the call. Data is named by its address, so that a byte
in the wrong place is visible. `doubt` notes the exceptions after which a cache may be wrong.
The wires are SWD; over JTAG sticky errors are cleared by another register (`dap.py:318`).

**`ProbeLink`** is a probe from `probe_open` and `link_close` down to the cable. An operation
is the list of commands it has still to send (`rest`); `Write` is `Interface.write` with the permit it
gives the receive thread, `Read` is `Interface.read` with the check of the command number, and
`ReadForeign`, `ReadRefused`, `ReadExited`, `ReadTimesOut` and `ReadUnplugged` are the ways it
raises, each with what its operation does then (`RetryInit`, `SwoRefused`, `Raised`). `RxAcquire`,
`RxRead` and `RxFails` are `rx_task` of the two libusb backends, which differ in what ends it
(`StopSeen`); `RxHandler` is pywinusb's callback; hidapi reads from the driver (`Inbox`).
`CloseThreaded` and `Joined` are the two halves of a close that waits for the thread. `Refresh` is the
timer that makes new interface objects, so that an open one is lost with its claim (`holder`).
`ProbeAnswers`, `AnswerLost`, `Unplug` and `Plug` are the probe and the cable. An answer
notes whether its caller still waits (`mine`).

**`DirectProbe`** is `STLink`, `OpenOCD` and `JLink` under the calls of `XLink`, with the core they work
on: halted, at the reset vector, its vector catch and its reset flag. Again an operation is its list of
commands (`StCmds`, `OcdCmds`, `JCmds`); loops and conditions of the drivers change the list
(`Continue`: the next piece of a memory access, the halt and go around it, the polls of a
reset), and so do the exceptions that are caught (`Handled`). A command notes whether the status in its
answer is looked at (`checked`): that of `DriveNrst` is not. `StXfer` reads the oldest answer there is, and
nothing but its length says whose it is; `OcdExec` reads up to an end mark, whoever it
belongs to, and takes an error for a text; `JCall` returns although it failed. `TransferFails` and
`AnswerIsLate` are the transports, `PollTimesOut` and `WaitTimesOut` the clock, `CoreStops` and
`CoreResets` the program and the board.

**`DebugView`** is `CachingDebugContext` over `CortexM`, the breakpoint manager with its software and
hardware providers, and `DWT`. Memory is counted in halfwords. `mem` is what the target holds,
BKPTs included, `image` what was meant to be stored; `Filtered` is the provider's
`filter_memory`. `ReadMemory` and `WriteMemory` keep the cache's intervals as `_get_ranges`,
`_merge_data` and `_update_contiguous` do, `ReadRegisters` and `WriteRegisters` do the same for registers, some of which
share a register or are parts of another (`Fields`). Each cache has its own run token (`mtoken`,
`rtoken`). A session uses memory and breakpoints, registers, or watchpoints; they
share only the core's run state. A write is only queued by the code below: it may raise at once (`Raises`),
or be lost after its call has returned (`Loses`), and then a later call is told (`late`, `Told`), one that
reads or finds the queue full. So a removal may delete its entry and lose its write, a watchpoint may be said to be set and
not be armed, and a step may raise when its instruction has been executed (`unnoticed`). `RemoveAll` stops
at the first exception and keeps its table; what it had removed is removed again later, over
whatever has been stored since (`Stale`).

**`PackFetch`** is `cmsispack.py` with its callers in the window. Calls are a stack: only the last goes
on, and `Start` may put another on top wherever a progress message has let the event loop run.
`pc` names the step of a call: the list, the `.pdsc` (`LookForPdsc`, `FetchPdsc`, `Parse`), the file
(`Exists`, `ZipStep`, `ZipData`, `Write`) and the line of `devices.txt` (`Add`). `todo` is what `try_sources` has
left; a request is refused for its certificate (`RefusedCert`), not found (`NotFound`), fails (`Broken`) or
succeeds. `Raise` is where an error ends up: a question to the user (`Answer`), a message (`Dismiss`), or
the dialog. `Publish`, `WeekPasses` and `Crash` are the world.

The modules named `*_proofs` hold the theorems. An operator called `X_Something`, defined
just before `X`, is a plausible bug put in place of `X`: with it the property named in
PROJECT.json ("mutants") no longer holds.

## 3. What the runs check

| Run | States | Question and answer |
|---|---|---|
| `flash_call` | 10 k | Over pyOCD, ST-Link and J-Link: can a stop, a stall, a timeout or a pulled cable hang the loop, hide the end of the routine or delay the stop? No. With pyOCD and ST-Link every behaviour is one of `AlgoCall`'s, so that no caller gets a wrong result or a core that runs between calls. |
| `chip_program` | 556 k | Up to two partitions over sectors of two sizes, with every way to verify and to read: does a verified success always have the data; does an operation without faults do its work in spite of blank pages and rounding; what may a failure, a stop or an exception touch? All properties hold. |
| `link_task` | 4.2 k | All orders of clicks, downloads, tasks and failures: the connection is open exactly while it is owned, and the two threads meet only if a task is started inside a download. |
| `target_setup` | 88 k | Any number of tasks and connections on every kind of chip: the vector catch does not stay on, the program runs after `link_close`, a reset took place if it is reported, and the resets' own side effects never make the setup fail. |
| `dap_transfers` | 454 k | Sizes of packets, fate and order of writes under failing words, USB errors and timeouts; every call comes back if the probe carries out its commands; and every behaviour is one of `AccessQueue`'s. |
| `mem_ap` | 5.4 M | Bytes at every alignment and across pages, over accesses that fail, are dropped or are carried out after a failure, resets that take the port down, flushes and reconnections: the remembered registers are right, an access that misses its bytes is one behind a failure that will be reported, a read returns what was asked for, a flush leaves nothing behind. |
| `probe_link` | 608 k | Opening, working, tracing, closing and reopening over each of four backends, with one answer lost, refused or late and a cable that comes and goes: a call gets its own answer unless somebody gave one up, the receive thread lives as long as its connection, everything ends, and a connection given up is closed. |
| `direct_probe` | 686 k | Every operation of the three drivers in any order, with two failures, losses, late answers or resets from outside: what a reset, a write, a memory access leave behind, and that all of them end. |
| `debug_view` | 908 k | Reads, writes, breakpoints, registers and watchpoints around running, stepping and resets, with a transfer that fails at once or after its call, and whatever the exception breaks off: what is read through both caches is what is there, and the core stops where it was asked to. |
| `pack_fetch` | 485 k | Two downloads, one perhaps inside the other, from two servers, one of them with an expired certificate and one without ranges, two faults anywhere, new versions and an old index: which files are used, why a call fails, what happens to existing files, and that calls end. |

The other two runs, `chip_mixed_two` and `link_task_detect`, show a disagreement each (section 6).

Some properties carry a condition, and the condition is the point.

- `WritesKept` and, in the answers and the returns, `KeepsQueue` (`spoiled`) exclude a
  connection on which an exception left responses unread (`desync`): nothing in the code recovers such a connection but opening it anew.
  `AnswerIsOfThisCall` says for all commands what that means: only an answer that somebody
  gave up (`overdue`) is ever taken for another.
- `VectorCatchOff` and `RunsAfterClose` exclude setups in which the very access that clears
  the catch raised (`uncleared`): the code ignores that exception. `FreshlyReset` and
  `FaultlessIsReady` speak of setups in which nothing failed but what the reset itself took
  down (`glitch`).
- An access in a packet sent behind a failure that nobody has been told of yet is carried out on whatever the failure has
  left of the registers, perhaps at another address: `AccessAsMeant` says that this is never silent.
- `CachesTrue`, `AccessAsMeant` and `ReadIsMemory` exclude the time between a loss of power, or an
  exception that was raised outside the branches that forget CSW, and the next exception of a
  memory access (`doubt`): there a stale value is possible, and the run reaches it.
- `KeepsPromise` excepts J-Link, whose errors nobody looks at (`Silent`): there a result may be that of a routine that
  never began. `EndIsSeen`, `StopIsPrompt` and `CallEnds` hold for it, too.
- `VerifiedIsWritten` speaks of verification by reading back; the Verify routine's result is
  only printed. `ClashOnlyReentered` says that the one way to a clash is the known one.
- The properties of `DirectProbe` except operations in which a failure was not looked at
  (`unseen`), an answer was late (`behind`) or the core moved by itself (`moved`), and for a plain reset
  those after a `reset_and_halt` that broke off (`dirty`) and J-Link's, whose result is not looked at. Unseen are with
  ST-Link a piece of a write that is not the last and a refused reset pin. `OperationsEnd` excepts the J-Link's wait for
  the core to halt, which has no limit, once something has failed; that of `ProbeLink` excepts
  hidapi's read, which has none either, once something has hit the connection.
- `ViewIsStored` and `ReadIsStored` except addresses that a write has touched that failed, was lost, or was laid over a
  breakpoint, and those that a second removal has overwritten (`torn`). `ViewIsStored` speaks of reads in bytes, halfwords and
  single words. `RegistersAreCores` excepts other names of a written register and failed
  writes (`mixed`). Both caches except a core that has run without a new token (`unnoticed`): it slept and woke up, or
  was stepped by a call that raised afterwards. `StopsWhereAsked` excepts failed transfers, and watchpoints
  that were refused before or lost (`refused`). The run reaches each of these exceptions; they are listed in section 6.
- `GivenUpIsClosed` excepts connections that a fault has met: there the code does leave a probe claimed.
- `CallReturns` (`dap_transfers`) and `OperationsEnd` (`probe_link`) say nothing of a probe that stays silent behind hidapi.
- `KeepsFiles` and `FailsForReason` except calls that another has overlapped; the second also
  calls in which a fault has occurred.

## 4. Bounds, fairness and deadlock

- `FlashCall`: the delays 1, 2, 4 and the timeout 6 keep the order of 0.2 ms, 2 ms, 10 ms
  and 30 s; the backoff reaches its cap before the timeout. `elapsed` stops one past the
  timeout, since only the comparison matters.
- `ChipProgram`: five pages, sectors of two and of three; files of up to three
  pages, empty, ending inside a sector, with a blank page first or in the middle; two
  partitions, which is enough for one to follow and to precede another. One value besides
  blank and garbage distinguishes data from anything else; the initial flash is erased or
  garbage. `i` and `seg` are bounded by the job; `late` counts up to what the
  property forbids.
- `LinkTask` is finite by itself. `TargetSetup` is finite by itself: chips, attempts
  and one deferred write; behaviours are as long as they like.
- `DapTransfers`: packets of 14 bytes hold two words as a block and, as single transfers,
  two or fewer; two packets fill the window; three requests of up to two words let a
  request be split, share a packet with another kind, and follow an aborted one. `MaxId` and
  `MaxWords` bound the requests, nothing else.
- `MemAp`: pages of eight bytes; the ranges give every piece, an unaligned start and end, and a
  block over a page's end. `MaxQueue` holds five accesses, more than one packet of any piece, so
  that a width can still be on its way when the data of the next piece is asked for.
  `MaxTrouble` is three failures or losses of power: one to leave a cache wrong, one to meet
  it, one more.
- `ProbeLink`: `MaxFaults` is one, a second fault is always possible through the cable, which is
  not bounded; `Buffers` is two, so that a probe that does not answer fills up;
  `MaxPermits` is two, as a thread that has two permits too many does nothing it does not do with
  one. Of the commands sent one at a time one of each kind of answer is taken (`Singles`).
- `DirectProbe`: 32-bit pieces of eight bytes and byte pieces of two instead of 1024 and 64, two items to a line;
  the requests start and end unaligned, and need one piece, two of one width, or both widths. Two faults: one to leave an answer or a flag behind, one to meet it.
- `DebugView`: three halfwords of RAM, one of flash and one of a device, one place outside of all
  regions; intervals of one and two that overlap, touch and contain one another; one
  comparator, so that breakpoints run out, two watchpoints; one run and one fault. The data
  are two symmetric values.
- `PackFetch`: two packs whose algorithms have the same name, one on the index's own server
  without a second source; two calls, one inside the other or after it; two faults; two attempts instead of three;
  two versions of one pack.

Fairness is always weak fairness of the program's own threads: `Host`, `Worker`, `Setup`, the
end of the worker and the handling of its signal; in `ProbeLink` the commands, the receive
thread and the steps of an operation; in `DirectProbe` the commands and the clock (`PollTimesOut`,
`WaitTimesOut`); in `PackFetch` the call on top (`Advance`), the user's answer to a modal dialog included. A
Python thread runs on, and the waits in the modelled code have a timeout, or the property
excepts them. Nothing is assumed of the target, the cable or the servers: the routine may never end, the bus
never be free, the answer never come. There are two exceptions. In `DapTransfers` the probe carries out
its commands (`Execute`) and the thread what needs no answer or has one (`Works`); that a read whose answer does not come raises
is not assumed, since the HID backends wait without a limit, so that `CallReturns` speaks of a probe that goes on working. In
`ProbeLink` the probe works through its commands (`ProbeAnswers`); an answer that never comes is
`AnswerLost`. `LinkTask`, `DebugView` and `MemAp` check safety only: that a task ends would rest on all of the
layers below it, hidapi's reads included, and is not claimed.

Deadlock is checked wherever the system cannot stop. It is switched off where it may: a closed
window (`LinkTask`, `LinkTaskDetect`), the bounds on requests (`DapTransfers`) and on calls (`PackFetch`); `ChipMixedTwo` ends with its violation.

## 5. What is proved

TLAPS proves the following for all values of the constants (their assumptions are the named
`ASSUME`s of the modules, which TLC evaluates in every run).

- `FlashCall_proofs`: `TypeOK`, `StopIsPrompt` and `EndIsSeen` for all delays, timeouts and drivers; `IdleMeansHalted`,
  `ResultIsOfThisCall`, `AbortedMeansHalted` and `KeepsPromise`, the refinement of `AlgoCall`, except for J-Link
  (`Silent`), for which they are false (section 6). The invariant `IInv` adds to the
  types that outside the loop the core is halted, and that at `read` the core has halted
  because the routine finished; for the prompt stop and the prompt end it relates the number of late
  sleeps to where the loop is; the second needs that a poll never starts under a sticky error of an earlier one. (`IdleMeansHalted`, `ResultIsOfThisCall` and
  `AbortedMeansHalted` have no run of their own: they are parts of the promise.)
- `Programming_proofs`, about `ChipProgram`: `TypeOK`, `StopIsPrompt` and `OutsideUntouched` for every layout of
  sectors, every set of jobs and every failure. The argument for the last: the page a round is
  about lies in its partition (`PageInside`), although the number of erase rounds is
  rounded up, because the first page of a counted sector still lies in the partition
  (`RoundInside`); erasing changes only the sector of that page (`CallEffect`).
  `PartitionsStay` and `VerifiedIsWritten` are proved under `SeparateJobs`: no two partitions of an
  accepted job lie in one sector. The code's check says so when all sectors have the size it
  counts with (`UniformSeparates`); with larger ones it does not, and the first is false (section 6). The
  invariant of the second is that during verification the pages before `i` of this partition and all
  pages of earlier ones are in the flash; verification does not write, and later partitions keep
  away from earlier ones (`EarlierSafe`). `FaultlessIsDone` needs in addition that sectors are made
  of smallest sectors (`WholeSectors`), because erasing goes by the real ones and counting by the smallest:
  while no routine has failed, all that an erase has counted is blank (`EraseInv`), and what a
  write has passed is programmed or left out because it is blank in the file too (`WriteInv`).
  The same module has the theorems about `TargetSetup` (its specification is
  `SetupSpec`): `ReadyMeansHalted` and `VectorCatchOff`. The second needs an
  invariant over every place of the code (`CatchInv`): between `Catch` and
  `Restore` the catch is on by intent; before and after, on only if noted. Its least
  obvious part is that `Restore` never turns on a catch that was on by accident
  and has been wiped since: a reset that wipes it does not stop the core, so that pyOCD
  leaves by the assertion on `xpsr` before it restores.
  `RunsAfterClose` follows from it; `FaultlessIsReady` and `FreshlyReset` have invariants of their own, which
  say for each place of a faultless setup what the chip must be in for the next query to
  succeed, and that the core, once reset, has not executed anything since.
- `Connection_proofs`, about `ProbeLink`: both invariants and `AnswerIsOfThisCall`, for every set of backends,
  number of faults and of packets the probe holds. `ControlInv` says how the interface, its thread
  and the operation go together: closed only between operations or while the thread is joined.
  `StreamInv` is why nobody takes a foreign answer: while none is overdue, the answer to the call under
  way is the only one anywhere between probe and caller, or a None stands at the head of `rcv_data`
  and nothing is read any more; `rcv_data` is empty at every opening. `PermitInv` counts: on an unhurt connection
  a permit, the read it let begin and the answer it brought belong to one call, every
  permit has an answer to come, and none is left over when the thread has been joined, although the close
  releases one and `read_sem` survives a reopening. `GivenUpIsClosed` combines the two: without
  a fault `ReadForeign` and `ReadExited` cannot happen. The same module has the theorems about `LinkTask`, which
  it extends too (its specification is `WindowSpec`): types, ownership (`AtRest`, `WorkerHasLink`), `ClashOnlyReentered`
  and `KeptAfterTask`. `OwnerInv` ties `connected`, `held`, `busy` and the thread together.
- `DapTransfers_proofs`: `PacketFits`, `WindowKept`, `OwnData`, `WritesKept` and `KeepsQueue`, the
  refinement of `AccessQueue`, for every packet size of at least nine bytes, any number of packets in the
  probe, any transfer limit and any number of requests of any length. `PacketFits` is
  arithmetic over `_get_free_words` (`SpaceFits`): a packet that fits as a block may be too
  large as single transfers, and then the room is negative and nothing is added. `WindowKept` counts
  commands against responses (`DueInv`). `OwnData` and `WritesKept` hold while no exception has left a
  response unread, and then response number j belongs to the j-th packet that waits for one (`PairInv`).
  For the first, `StreamInv` lays out the words the waiting reads want as one sequence: the buffer is its
  beginning, each packet asks for the next piece of it, in the middle of a read or across several, and
  what `_write` still has to pack is its end. For the second, `OrderInv` says that executed writes, packets in
  the probe, the packet being built and what is left of the request follow each other in the order they were issued,
  and `LossInv` where each write that is owed is. What the probe picks out of a packet
  (`Chosen`) is defined by recursion; what is needed of it is proved with the library's
  theorem that < on the naturals is well-founded (`Induct`). The refinement needs three
  invariants more: a read waits exactly while it is in the list, and the buffer is always shorter than what the first of
  them wants (`LineInv`), so that with nothing under way nobody can be waiting (`NothingWaits`: the
  layout of `StreamInv` would be longer than all there is of it); where the thread is and what it is there
  for (`CallInv`); and whatever is packed, sent or carried out was asked for (`KnownInv`). Then each action
  is one of `AccessQueue` (`QueueRead`, `QueueRaise`, `QueueExecute` and so on) or nothing that can be seen.
  (`OwnData` has no run of its own: it is a part of the promise.)
- `MemAp_proofs`: all five invariants, for every page size divisible by
  four, all ranges and bounds. The invariant speaks of the queue as a whole: for the
  i-th access in it, what SELECT, CSW and TAR will hold when its turn comes (`Before`, `TarBefore`).
  `QueueFits` says that this is what the access needs, `CachesFit` that what comes behind the
  queue finds what the caches remember, `DataNext` that between the address and the data of a
  piece nothing intervenes. Carrying out an access shifts all of it by one (`TailFits`); asking for one
  adds to its end (`AskedFits`). Within a block TAR is right because a piece stays in its
  page (`NextInPage`), which is arithmetic over `div` and `mod` by an unknown page size. All of this
  holds only while no failure is unreported (`Good`); `Raise` re-establishes it by forgetting
  both caches. For `ReadIsMemory` the bytes a read has and the fetches in the queue follow one another without a gap
  up to what has been asked for (`Tiles`), and all of them belong to this call, because reads are
  in the queue only while somebody waits for them (`NoFetch`). The fetches bring the bytes they were meant for by
  `QueueFits`. For `FlushedIsWritten`
  the bytes due are those the stores in the queue add up to and those the call has yet to ask for (`StoredBy`,
  `ToCome`); the sum over the queue is a function, so that joining two queues adds and carrying one access out
  subtracts (`StoredBoth`, `StoredTail`).
- `DirectProbe_proofs`: `TypeOK`, `ResetsDoAsNamed`, `WriteIsExact` and `RunStateKept` for every set of requests,
  all sizes of pieces (the 32-bit one a multiple of four) and any number of faults and late answers. In an operation in which no answer is
  late the queue `late` is empty (`LateInv`), so that a command gets its own answer or raises, and what
  a step does comes down to four outcomes (`CleanExchange`): carried out and answered, failed and noticed, and two that
  ST-Link does not look at. `HaltInv` says for each command that `reset_and_halt` has still to send what the core, the
  saved catch and `reset_seen` must be: before SYSRESETREQ an old S_RESET_ST is cleared by the read of
  DHCSR, so that one seen after it means that the core stands at the vector, also when the write itself raised.
  `ResetInv` needs that the catch is off outside of `reset_and_halt` unless one did not end properly (`CalmInv`). `AccessInv` lists the eight stages of an
  access: with or without halt and go around it, the piece under way, the status that ST-Link asks for at the end; with
  `Writing`, that all bytes behind `at` are written or the probe's status will tell. That pieces are
  never empty and that rounding down to words loses nothing is arithmetic (`Pieces`).
- `DebugView_proofs`: `ViewIsStored` for every memory map and session: an instruction is saved through the
  filter, so that a BKPT is never taken for one, and what a removal puts back is what the
  filter has shown (`RemoveView`), or else the address is torn. `ReadIsStored` for every memory map with finitely many regions and
  accesses of any length. Its invariant (`CacheInv`) says of the cached intervals that they do not
  overlap (`Apart`), that each lies in one cacheable region (`Kept`) and, when the tokens agree, that
  the core is halted and each holds what is stored (`Right`). Overlap is not harmless: `_merge_data` joins whatever `_read` has
  sorted, so that two intervals with a byte in common would answer it twice. What a read adds keeps them apart because the gaps
  are exactly what the overlapping intervals leave (`UncachedIsLeft`, an induction over the order in which the loop
  takes them: it comes to the same in any order); what a write adds, because the written range
  swallows all it touches (`ContiguousIs`) or lies inside one interval (`WrittenIs`). Sorted, cached parts and
  gaps are a row without a hole (`TilesAre`, `SortedIsRow`), and a row with its two ragged ends cut off is the range
  (`MergedIs`). The inductions are over membership in a set of numbers (`Induct`), which needs
  no predicate as a parameter. `RegistersAreCores` for every set of register lists: whoever looks at
  the cache compares the token first, and a core that runs on takes a new one, so if the tokens
  agree, and no step has raised after its instruction, the core has been halted ever since (`RegInv`); a write that shares CFBP drops all the names of
  CFBP, other names that share a field are in `mixed` (`WriteReg`). `StopsWhereAsked` rests on a bijection
  between the enabled comparators and the hardware breakpoints of the table (`HardInv`), so that one
  breakpoint more or less is one comparator more or less and the count of free ones is right.
- `PackFetch_proofs`: `UsedIsComplete`, `KeepsFiles` and `FailsForReason` for any number of packs, servers, calls
  and faults. The invariant (`CallOK`) says of every call on the stack what it relies on: that
  `try_sources` has a source left, that what it is about to write is whole, that what it notes is
  there, and that what it fetches is not there. The last survives only for the call on top: all others have been
  overlapped, and `NoneLost`, that no file goes away, is all they need. For the third, `FailInv` says of a
  call on its way that a certificate has been or will be refused or every source that has the file is
  still to be tried (`Hopeful`), and of one that ends with an error that no source has it (`Exhausted`).

Only model-checked: the liveness properties, which are beyond the prover (`CallEnds`,
`CallReturns`, `OperationsEnd` of both links, `CallsEnd`).

## 6. Disagreements between the code and what is said of it

- `chip_mixed_two`: two partitions inside one larger sector pass the check, which counts
  with the smallest sector size, and the second erases the first.
- `link_task_detect`: identifying a chip resets the target if `chkRun` is set; the
  README says that nothing is reset.

Seen while modelling and left without a run of their own, because the properties hold with
the exception that names them or because nothing in the repository says otherwise:

- A failed verification by the algorithm's Verify routine is printed and the write ends as a
  success (`device/flash.py:120`).
- Over J-Link a call may return although its routine has not run: results of the DLL are not looked at, and a negative
  answer of `JLINKARM_IsHalted` counts as halted (`jlink.py:147`).
- A stop also halts a routine that is under way (`device/flash.py:188`), where `README.md:70` says that
  it takes effect at the next sector or page.
- A halted core is taken for a finished reset although it was halted before; a lost reset
  is neither repeated nor reported (`xlink.py:252`, `xlink.py:280`).
- Asking for the result of a read that was aborted by another call's failure ends in an
  assertion instead of the read's own error (`dap_access_cmsis_dap.py:148`).
- An exception in `probe_open` after the probe was opened, or in the reset of `link_close`, leaves the
  interface claimed until its object is collected (`MCUProg.py:927`, `955`).
- A second `swo_start` loses the first one's thread, and the `None` it leaves makes the next
  reads raise (`pyusb_v2_backend.py:130`).
- ST-Link: a write in several pieces asks for the status of the last only (`stlink.py:357`), although `_check_rw` is said to
  confirm that nothing went wrong (`stlink.py:204`); a refused DRIVE_NRST counts as a reset (`stlink.py:418`); an
  answer that comes late is told from the expected one by its length alone.
- OpenOCD: a late answer is taken for that of the next command (`openocd.py:29`), error texts are answers, and an exception
  inside `halt_required` leaves the core halted.
- J-Link: the wait for the core to halt has no limit
  (`jlink.py:182`).
- `write_core_registers_raw` does not send the first of several registers that share CFBP
  (`cortex_m.py:1135`); the caches do not notice a core that has slept, or a step that raised after its
  instruction (`cortex_m.py:703`); a failed write of a
  comparator leaks it; a refused watchpoint is reported as set when it is asked for again
  (`dwt.py:139`), and one whose queued writes are lost at once (`dwt.py:153`). `remove_all_breakpoints` that was broken off
  leaves breakpoints that are removed again, over what has been stored since (`manager.py:168`); a removal whose write is
  queued and lost leaves a BKPT that nothing hides (`software.py:81`).
- In a block of words breakpoints are filtered at `addr + i` for word i (`manager.py:164`), so that BKPTs show in it and
  other words are patched; this way of reading is not in the model.
- A write that fails is in the cache, which is updated when the write is only queued (`cache.py:469`), although the line before
  says that it is not.
- A download started out of another's progress messages (`net_say`, `MCUProg.py:1360`) writes the algorithm
  file, and the first one overwrites it, although a file that is there is never to be overwritten (`cmsispack.py:490`).
- A file or `.pdsc` that
  was cut short is used for good; the dialog that looks for devices (`SearchDialog.net`) cannot accept a certificate.
- `closeEvent` destroys the thread object under a running worker (`MCUProg.py:1992`), and
  `power_up_debug` waits without a limit (`dap.py:135`).

## 7. What is not modelled, and why

Widgets, tables, texts, settings and progress reports have no state that a
property could be about. Parsing of ELF, XML and archives and the rules of chip
identification are pure functions over tables. The vendored parts of pyOCD that are
never reached (sessions, ROM tables, semihosting, ITM and TPIU) are left out; the debug
contexts and breakpoints are not reached by the window either, but they are what is left of
pyOCD's debugger and hard enough to be modelled. The contents of a word, a page, a register or a file are modelled only as far
as a property distinguishes them, and timing only as the order of delays. Names and
aliases of registers, the choice of a probe by its serial number and the target's description are left
out. A server is consistent: what it offers it delivers, whole or in an answer that is too
short; two servers that offer different files as one version are not modelled. A file that is deleted or edited by hand is not either.

## 8. Plan

Built, in this order: `AlgoCall`, `FlashCall`, `ChipProgram`, `LinkTask`, `DapTransfers`, `TargetSetup`,
`MemAp`; `ProbeLink`, `DirectProbe`, `DebugView`, `PackFetch`; then `AccessQueue`, above `DapTransfers`. First what happens to the user's flash, then who owns the connection,
then what both stand on, then what surrounds them. To come:

1. `MemAp` on top of `AccessQueue` itself: it has a queue of its own, which also says which accesses a
   failure drops, and that the two agree is read off the code, not checked.
2. Pure algorithms as functions, checked against a reference definition: the rules of `chipid.py`,
   the choice of an entry in `device_entries`, the directory of a ZIP.
