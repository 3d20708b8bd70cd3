# Verification of the Mario Golf 64 system libraries

This directory specifies the system side of the game in `src/`: the libultra
kernel, the nusys managers built on it, the device drivers and the audio
player. Each module is written from the C and assembly source, checked with
TLC on small instances and, where a section below says so, proved with TLAPS
for every instance. `PROJECT.json` lists the components, the runs, the mutants
that show a property can fail, the source lines of each definition, the
hazards of the code, the findings and the theorems.

## 1. The system

The ROM is one statically linked program on one CPU. Threads are scheduled by
strict priority; a thread that wants something of another sends it a message;
hardware interrupts become messages too. Below, "masked" means with interrupts
disabled, which on this machine makes a stretch of code atomic.

| Component | State | Operations | Talks to |
|---|---|---|---|
| Kernel threads (`libultra/os/*thread*.c`, `exceptasm.s`) | run queue, active list, state, priority and list of each thread | create, start, stop, destroy, yield, set priority, dispatch | everything |
| Message queues (`createmesgqueue.c`, `sendmesg.c`, `jammesg.c`, `recvmesg.c`) | ring of slots, `first`, `validCount`, two lists of waiters | send, jam, receive, each blocking or not | threads, interrupts |
| Events and exceptions (`exceptasm.s`, `seteventmesg.c`) | event table, `__osShutdown`, `__osPreNMI`, pending causes | bind an event, serve a cause, pre-NMI, fault, redispatch | queues, run queue |
| Timers (`settimer.c`, `timerintr.c`, `gettime.c`) | delta list, base time, compare register | set a timer, compare interrupt | VI manager thread |
| VI manager (`vimgr.c`, `viswap*.c`, `vitbl.c`) | current and next context, retrace count | set mode, features, scale, black, swap buffer, retrace | timers, clients of retrace |
| PI and SI (`devmgr.c`, `pimgr.c`, `piacs.c`, `siacs.c`, `epidma.c`) | access token queue, command queue | DMA, direct read and write, EDMA | cartridge, joybus |
| RCP scheduler (`nusched.c`) | current, suspended and in-flight task, five queues, reset flag | audio and graphics task, retrace, pre-NMI | RSP, RDP, VI, task manager |
| Graphics task manager (`nugfxtaskmgr.c`, `nugfxthread.c`) | ring of ten task records, frame buffers, spool count | start task, swap, end | RCP scheduler, VI |
| SI manager, controllers, rumble, Game Boy pak (`nusimgr.c`, `nucont*.c`) | callback list, controller data, lock flag, rumble state | read, query, rumble, pak access | SI, application |
| libultra's scheduler (`sched/sched.c`) | two task lists, current task of each unit, `doAudio` | submit, retrace, RSP done, RDP done | libmus, RSP, RDP, VI |
| libmus (`libmus/*.c`) | cache of sample buffers, three audio frames, channel state | audio frame, sample DMA | RCP scheduler, PI, AI |
| libnaudio, libultra `audio/` | voices, envelopes, reverb | allocate, start, stop a voice | libmus |
| Pak commands (`contpfs.c`, `contram*.c`, `gbpak*.c`) | identifier, bank, inode cache; power, bank and status of a Transfer Pak | read, write a block with retries; mount, repair; open, read ID, check | SI |
| `gu/`, `libc/`, `libkmc/` | none | matrices, formatting, division | all |

What is hard here, component by component:

- *Kernel*: a waiter that is made runnable does not own the message or slot it
  was woken for; it has to look again, and others may have come first. The
  thread lists are linked through one field, so a thread on two lists corrupts
  both. `send_mesg` leaves the state of the waiter it moves as it was.
- *Message queues*: the index arithmetic of the ring, in particular stepping
  backwards in `osJamMesg`, and posting from an interrupt to a full queue.
- *Exceptions*: several causes at once; pre-NMI leaves the handler with others
  pending; registering for the reset before or after it came.
- *RCP scheduler*: one RSP, two threads, completions that carry no identity. A
  graphics task may finish between audio's look and audio's request to yield.
  `waitMQ` serves two purposes. The flag of the reset is read once per task.
- *Timers*: deltas are relative to a count that goes on while the list is
  updated; an insertion before the head uses a stale base.
- *Device managers*: a reply to a full queue is lost; the access token must
  come back on every path.
- *Task manager*: the record is filled before the blocking send; ten records,
  eight slots; swap pacing; display-on trigger.
- *libmus*: the request block of a DMA is reused after a count that goes down
  even when no completion was received; sample buffers are recycled while a
  DMA fills them; an audio frame must not be refilled while it is played.
- *Pak commands*: retries, CRC mismatches and a pak pulled out half way.

Correctness, likewise: one list per thread, list order, highest priority runs,
no lost wakeup (kernel); a FIFO with a front door (queues); one owner of the
RSP, resumption exactly of what yielded, no drawing on a shown frame buffer,
every task acknowledged (scheduler); no timer lost, none early (timers); token
conservation (PI, SI); no record in two places, frames in order (task
manager); no buffer recycled in use, no frame refilled while played (libmus).

## 2. Modules

### OsKernel: threads, queues with waiters, events, exceptions

Every API call of libultra disables interrupts for its whole length, so a call
is one action, from entry to return or to the point where it gives up the CPU.
A blocked call stays in `pend` and is evaluated again from the top of its
`while` loop when its thread is dispatched (`ResumeMesg`). `osSetEventMesg` has
a call inside: when the late reset notice it sends (`seteventmesg.c:40`) wakes a
thread of higher priority, the caller gives up the CPU before line 42 sets
`__osPreNMI`, and `FinishBind` does that once it is dispatched again (`pend` is
`InBind` meanwhile). The exception
handler is a loop over the pending causes (`causes`): each turn is an action
(`ServeCause`, `ServePreNmi`, `Panic`, `Redispatch`), and no thread runs until
it has redispatched (`k0`). `list` holds the run queue and, for each message
queue, `mtqueue` and `fullqueue`; an intrusive list is a sequence, which is
exact as long as no thread is on two of them, and that is `OnOneList`.
`Calls` is the set of calls a program makes. The entry "WAITING" in it lets the
program call `osStartThread` on a blocked thread, which the library's own code
never does without popping the thread first.

Not in the module: the contents of messages, register contexts, the serial
debugger paths, the cartridge interrupt table and the mask stored in each
thread.

### MesgQueue and MesgRing: the ring buffer

`MesgQueue` is what a message queue promises: a list of at most `msgCount`
messages, send to the back, jam to the front, receive from the front, refuse
when it does not fit. `MesgRing` is the code: `msg[]`, `first`, `validCount`,
with the modulo arithmetic of each call, the posting from the exception
handler and the re-creation of the queue. `RingImplementsQueue` is the
refinement; `Held` maps the ring to the list.

### NuSched: the RCP scheduler

The three threads of `nusched.c` are cut where they can block or be
interrupted; each thread has a program counter (`aPc`, `gPc`; the event handler
does one message per step). Priorities are strict: a step of a thread needs
every thread above it blocked (`AudioRuns`, `GraphicsRuns`, `ClientRuns`),
which is what `HighestRuns` of OsKernel gives. `RspDone`, `RdpDone`, `Retrace`
and `PreNmi` are hardware and come at any moment. The RSP keeps its two signal
bits (`yield`, `yielded`); a task that is asked to yield may still finish
first, so `RspDone` has both outcomes. The clients are an audio client with
one task and an application that submits the records of the task ring in
order, and `Retire` is the task manager handing a finished frame to the VI.
Submitting and retiring stand for `nuGfxTaskStart` and `nuGfxTaskMgr` only as
far as the scheduler sees them.

Abstracted: the contents of task lists and the DMA that loads them, the
performance log, the post-frame callbacks, the display going black. The VI is a
pair of frame buffers. The retrace numbers 0x20 and 0x36 of the event handler are the
constants `SwapAge` and `OffAge`. `ManagerLag` bounds how many retraces may
pass while a finished frame waits for the task manager; the code paces it at
two retraces, far below the 32 of `SwapAge`, and the assumption
`ManagerLag < SwapAge` is all that is used.

### TimerSet and OsTimer: the timers

`TimerSet` says what the list of timers stands for: a set of timers with their
waits from one base; `OsTimer` is the code, with the deltas, the counter modulo
`W`, the compare register and its interrupt. A call of osSetTimer has two
masked halves, insertion and arming; the calls under way form the stack
`setting`, because a thread that preempts another in between finishes its own
call first. `SetTimerIntr` lets up to `MaxArm` cycles pass between reading the
counter and writing compare, in which a match is lost (this build, VERSION_J,
has no floor for short waits). The handler takes the steps of the loop of
`__osTimerInterrupt` one by one, while the counter goes on. `age`, `wait` and
`stale` are history: cycles since a timer was set, what it asked for, and how
far `__osTimerCounter` was behind at that moment.

### PiManager, PiClients and SampleCache: the cartridge bus and the samples

`PiManager` is `__osDevMgrMain` with its three waits (`mgr`: command, access,
event), the command queue and the return queues, the access token it shares
with direct users (`access`), the timing registers of the two domains
(`timing`), the handle cached for each (`current`, `__osCurrentHandle` of
`piint.h`), and `osCartRomInit`, which takes the token, slows the bus down,
reads the header and restores (`CartRomInit` to `ProbeRestore`). `StartDma` and
`BusDone` are the bus. A client may fill a request block again while the
manager has it: no guard of the code forbids it, so `Request` has none.
`PiClients` adds threads that call `nuPiReadRom` and `nuPiReadWriteSram`, each
chunk waited for on a queue of one slot. `SampleCache` puts libmus' `aud_dma.c`
on top: the list of buffers in use (`prev`, `next`, `head`), the free list, the
age of each buffer (`keep`), and the fetch with its cases (`FetchHit`,
`FetchFree`, `FetchEvict`, `FetchEvictLinked`). `EndFrame` waits until the PI
is idle: the audio thread waits for the RSP at that point, which takes longer
than the reads do, but nothing in `aud_dma.c` enforces it (hazard at
`aud_dma.c:117`). Left out: the 64DD path of the manager, the raw accesses of
single words.

### ViModes, ViManager and ViSettings: the display

`ViModes` computes the table of modes, the offsets and the scale of each field;
`ViManager` is the two contexts (`viCtx`, `viNext`), each call that stages a
change in the next one, `__osViSwapContext` with what it programs
(`Programmed`) and the message to the client every `retraceCount` retraces.
`ViSettings` promises one set of settings, changed call by call and taken over
whole at a retrace; `ShowsSettings` is the refinement. `ViDivisors` starts at 1,
as `vimgr.c:132` divides time by it. This build makes NTSC and MPAL modes.

### GfxTasks: the graphics task manager

The ring of `nuGfxTask` (`record`, `recordPtr`), the count in flight (`spool`),
the frame being submitted (`frame`: its buffer is `nuGfxCfb_ptr`), the manager
thread with a program counter at each wait (`MgrRecv`, `MgrPace` and
`MgrRegister` of `nuGfxRetraceWait`, `MgrSwap`, `MgrRetire`, `MgrDisplay`), the
display switch (`display`, `black`), and the application's calls with their two
halves (`GfxTaskStart` then the blocking send `GfxTaskSend`; `GfxDisplayOff`
then `GfxDisplayBlack`). Of the scheduler there are its queue, one task at a
time and the event handler's count of a task's retraces (`taskAge`), of the VI
the frame on display and the next (`scan`). The application steps only while
the manager and the handler are blocked, as it is the thread of lowest
priority.

The reset is part of it: `HandlePreNmi` sets `nuScPreNMIFlag` and the retraces
left (`GfxResetFrames`; `nusched.c:229` computes ten and more), and when they
have passed the event handler goes to BEFORE_RESET and blanks the screen
whatever `nuGfxDisplay` is (lines 209-218). From then on `SchedTake` hands tasks
back undrawn (lines 398-402) and the manager swaps to their buffers all the
same, so `FramesWhole` and `DisplayAgrees` except that state where the code
breaks them: a frame shown may not be the one drawn, and ON no longer means not
black. That nothing is drawn to a buffer in view, that OFF means
black and the counts of `SpoolCounts` hold to the end. `D_800B67C0`, by which
the game keeps the display from going dark, may have either value at each
retrace. Left out: `osAfterPreNMI`, `osViSetYScale(1.0)` and the game's hook
`nuScPreNMIFunc`. `GfxAssumption` asks of the application to keep fewer tasks in
flight than the ring has records: `nuGfxTaskStart` does not look, and overrunning
the ring (hazard at `nugfxtaskmgr.c:150`) is thereby outside the model.

### OsSched: libultra's scheduler

`sched.c` as libmus uses it: one thread, one queue of retraces and completions
(`interruptQ`), one of requests (`cmdQ`), two task lists, `curRSP` and
`curRDP`. A handler runs to its end before the next event, so each is an
action, and `Place`, `Exec` and `Launch` are `__scSchedule`, `__scExec` and the
loop around them as functions of the lists. Clients, which change nothing here,
and the pre-NMI message are left out.

### AudFrames and AdpcmVoice: audio frames and compressed sounds

`AudFrames` is the audio thread of libmus: one of three buffers filled by each
RSP task (`taskCount`, `rspBuf`), the number of samples of each
(`frameSamples`), the AI with the entry that plays and the one that waits
(`aiFifo`), and every path of the frame: made, skipped because enough is left,
paused, two retraces behind. `AdpcmVoice` is `n_alAdpcmPull` with the state of
the decoder; what a slot of DMEM holds is the number of a sample, so a wrong
move or a wrong count shows as a wrong number. A finite loop shorter than one
pull is repeated past its count by the code, and such sounds are not in the
instance.

### ContManager: SI manager, controllers, rumble

The SI manager thread (`siPc`, `siMesg`), its queue, the two interrupts of a
transfer with a command to write (`siLeft`), `__osContLastCmd` and what is in
the PIF (`lastCmd`, `pif`), the data lock (`key`), the closing of the pad
buffer by `nuContDataGetEx` (`mutex`, `waitToken`), and the rumble control block
(`rmb`) with the retrace handler of `nucontrmbmgr.c` case by case. The motor
and its pak are external (`motor`, `pulled`). One restriction: only the lowest
thread locks data. `nuContRmbForceStopEnd` is an empty stub. The list of
callbacks is set up once (`nuSiCallBackRemove` cannot remove its head).

An access to the motor fails when the pak is out or new, was pulled meanwhile, or
its answer is garbled (`motor.c:50-63`): then the command may have been carried
out or not (`Effects`), and the manager is told of a failure. It then disables
the mode, goes back to searching, or takes the motor for stopped
(`nucontrmbmgr.c:103-105`, `111-118`, `149-153`), and a motor that runs is left
running. `garbled` is history: the motor runs and the last access to it failed
so. `MotorKnown` excepts that case and no other; `MotorRests` says that a motor
does not run for ever unless the manager has given it up (`GivenUp`).
`inited` is the flag of `osMotorInit` without which a motor is not commanded.

### PakBus, PakFs and GbPak: paks

`PakBus` is one exchange of 32 bytes with its CRC and its retries, as a function
of a record (`world`): the device, what meets each coming exchange (`ev`), the
result. A call of the layers above is then one function application, and its
action one step; a fault may meet any of its exchanges. `PakFs` is the
identifier of a Controller Pak with its four copies, recovery and repair, the
count of banks, and the inode pages with mirror and cache; `GbPak` the Transfer
Pak: power, bank, status, cartridge header, the connector check, and the byte
ranges of `nuContGBPakFread` and `Fwrite` over blocks. `GbAssumption` leaves out
ranges shorter than a block that run over its end, for which the code copies
past the block (hazard at `nucontgbpakfread.c:58`). `stale` is the
uninitialised block `osGbpakGetStatus` looks at when its first read fails.
`GbInv` excepts the ranges inside the cartridge's RAM during whose call the
Transfer Pak was out (`LostRam`): the cartridge comes back with its RAM disabled
and the call, which enabled it once at its start, does not notice.

Where comments and code differ here, the modules follow the code:
`nucontrmbmodeset.c:4-5` says of DISABLE "motor never runs", but a motor that
runs is left as it is; `nucontrmbforcestop.c:4` says "halt every controller's
motor", but one in mode DISABLE, or without a known type, is not stepped;
`nucontrmbmodeset.c:14-15` says the pause bit is "preserved across the change",
but a force-stop that comes between its being read and written is lost;
`pfsisplug.c`'s loop is the reverse of its comment, `gbpakinit.c:31` of its line
40, and `gbpakcheckconnector.c:116` speaks of a comparison that is not made. In
`nucontmgr.c:57` a `continue` skips the shift of the bit mask, which matters
for more than one port; the model has one.

### NVoices: voices of the synthesizer

Logical voices (`pvoice`), physical ones on three lists (`pLists`), the queued
updates of each (`ctrlList`) out of a pool (`paramList`), the volume ramp of the
left channel (`em`) and the frame (`syn`): the player's handler, the updates
that are due, the pulls between them, the collection of the lame list. Times
count from `curSamples`. `GetRate` uses exact fractions where the code has
doubles. Calls come from the player's handler only; a release needs two free
updates; a theft with an empty pool is left out, as
`n_synallocvoice.c:61` then writes through a null pointer. `n_synfreevoice.c`
and `n_synstartvoiceparam.c` are not in the repository: `ReleaseVoice` and
`StartVoiceAlt` post the updates that `n_env.c` takes from them. `NvSpec` is the specification the theorems are about.

### Induction

Nothing of the program: what the proofs need of the naturals and of recursive
functions (section 4).

### MCDevices, MCGfx, MCVoices, MCKernel, MCNuSched

The MC modules give the constants their values. `MCDevices` puts the modules
that share no state side by side: a behaviour chooses one part and runs it
alone, which gives one state graph that is the sum of the parts and not their
product.

## 3. Runs

| Run | Instance | Question |
|---|---|---|
| `kernel_sched` | idle and two threads, three priorities, a queue of one slot, reset and fault, every call | lists, states and order agree; waiters wait for what their call says; the highest priority runs; yields are round robin |
| `kernel_mesg` | idle and three threads, a queue of one slot, the SP and pre-NMI interrupts and the CPU break | no wakeup lost in either direction, preemption only for a higher priority; the reset notice when it is due, and again only past a registration that was cut off |
| `kernel_destroy` | three threads that may destroy each other | expected violation: a wakeup dies with its thread |
| `kernel_wakestart` | two threads, `osStartThread` on a blocked one | expected violation: a thread on two lists |
| `nusched` | three task records on two frame buffers, one without RDP and swap; one audio task; reset; queues of two slots | one owner of the RSP, own completions, resume, frame buffers, release |
| `nusched_live` | two records, one audio task, queues of one slot, no reset | every task is acknowledged |
| `nusched_reset` | two records, one audio task, reset | expected violation: the RSP is started after the reset countdown |
| `timer` | two timers, waits 0, 1 and 2, once or periodic, a counter of four, interrupts up to one cycle late | the deltas are a set of waits, every timer fires, early at most by the age of the base |
| `timer_early` | the same | expected violation: a timer fires before its countdown |
| `devices` | the parts below, one at a time | everything else |
| `gfx_stuck` | every call on the records of part `gfx`, where a task that does not end its frame may be slow too | expected violation: the wait for all tasks never returns |
| `voices_settle` | one voice whose pan and send change during a volume ramp | expected violation: the volume leaves the span of its ramp |

The parts of `devices`, with the bound of each and why it is enough:

| Part | Instance | Checks |
|---|---|---|
| `ring` | three slots, three messages: every position of `first` with every count | `TypeOK`, `RingImplementsQueue` |
| `voices` | two physical voices, four logical, three updates; a player that steals and one that comes back before half a block is over; ramps of none and three blocks | `VoicesInv`: links, pool, times, fading before a stop, silent spares |
| `cache` | three buffers, six blocks, samples at four addresses of which two share a buffer, no other reader | `CacheInv`, `EvictsLeastRecent` |
| `pi` | the same with two samples and a thread that reads the cartridge and the SRAM in up to two chunks; command queue of three | `PiInv`, `RequestsReturn`, `CacheInv` |
| `modes` | every mode of NTSC and MPAL, from the first one and back | `ScanInFrame`, `ShowsSettings` |
| `vi` | two modes, every call, one call between two retraces | `ShowsSettings`, `ScanInFrame` |
| `gfx` | three records, one slot, two tasks in flight on two buffers, pace of one, ages 3 and 4; no change of the display, no wait for all tasks, no reset | `GfxInv` |
| `display` | the same with both, one task at a time | `GfxInv` |
| `reset` | the same to the fourth frame, no wait for all tasks: a pre-NMI while the second frame is filled, no time left after it | `GfxInv` |
| `osc` | three graphics tasks on two buffers, of both types, one audio task | `OscInv`, `AudioFinishes` |
| `aud` | blocks of 184 samples, 20 percent spare, 534 samples a frame, up to two retraces behind | `AudInv` |
| `adpcm` | frames of four samples, pulls of 1 to 9, sounds of three or four frames, loops that start and end inside and at the ends of frames | `PullsContinue` |
| `pad` | two threads, three calls, a queue of two, no motor | `ContInv` |
| `rumble` | the data lock and then four calls, unpluggings or garbled answers, with a motor and one vibration; until the motor is started a call comes with a pak in and both threads idle; no query, copy or stop of the manager, mode DISABLE not asked for | `ContInv`, `MotorRests` |
| `pak` | a pak of two banks with two bad ID copies, one with four; one call that meets a fault, one or two in a row, at each kind of exchange | `PakInv` |
| `gb` | cartridges of each kind, two with an address line stuck, no Transfer Pak; a range over a bank boundary and one inside the RAM; one faulty call | `GbInv` |

Bounds. Kernel properties relate at most two threads, the running one and a
list, and a wakeup race needs a sleeper, a thief and a third that keeps the
message away: three threads and the idle thread hold every such case, with
equal and different priorities. A queue of one slot is full and empty at once,
which is the tightest case for both directions. In NuSched the frame buffer
conflict needs two tasks on one buffer and one on another; two slots separate
"full" from "has a leftover", and one slot makes every blocking send block. The
counters `age` and `lag` are cut off above the largest value the code compares
them with. In OsTimer two timers give every order of insertion and expiry of a
pair, waits of one and two are just at and above the latencies, and a counter
of four wraps all the time. `gfx`, `display` and `reset`, `modes` and `vi`, `pad`
and `rumble` split what would be one large graph; the theorems `GfxAlways`,
`ViImplementsSettings`, `ViScansInFrame` and `ContAlways` have no such split.
In `rumble` the lock keeps the pads from being read, so that each retrace is a step
of the motor and nothing else; four calls are enough for a mode, a start, a
force-stop and a mishap at each point between. Where MotorKnown speaks of mode
DISABLE the instance never asks for it, and so checks the stronger form.
A cache of three buffers has a first, a last and a middle one. The
command queue of part `pi` has room for all requests that can wait, so no refusal
of `osEPiStartDma` is checked there; `osc` has one audio task at a time, so the
flag `doAudio` never stands for two. The audio rates
are those the code computes: `NeverDry` holds at 368, 534, 613 and 735 samples
a frame and fails at 267, 440 and 450, where a skipped frame can follow a short
one. The scheduler, pak and Transfer Pak instances take a fault at each
exchange that starts another case of the code. `MaxFaulty` and `GbMaxFaulty`
bound how many calls meet faults, not how many faults a call meets.

Deadlock is checked where a system must not stop (`nusched`, `nusched_live`,
`timer`). In the kernel runs all threads of a program may block for good while
the idle thread makes no call: that is the program's doing; and in `devices`
the parts with a bound on calls or faults come to rest.

Fairness. Timers: the counter counts, the interrupt is taken and the VI
manager, the thread of highest priority, runs; nothing is assumed of the
threads that set timers, not even that they arm what they inserted. NuSched:
retraces go on coming; the event handler catches up with them (its work is a
few instructions, a retrace 1/60 s); a thread that is ready again and again
between retraces gets the CPU (priorities and the kernel's `HighestRuns`); the
RSP finishes each task it is given, also in pieces, because audio uses a small
part of each frame; the RDP finishes; the task manager, below the graphics
thread, gets its turn as the threads above it sleep most of a frame. No
fairness is put on the clients, nor on the outcome of a race. Devices: the PI
manager (priority 150) and the bus go on, and a thread inside a read that is
ready again and again gets the CPU (`PiFair`); retraces come, the scheduler's
thread handles them and the RSP stops, by its end or by a yield (`OscFair`);
retraces reach the SI manager, it and the SI go on, and an application thread
that is ready again and again steps (`ContFair`). `gfx_stuck` states the
fairness of every thread of the task manager, so that what it finds is no
thread left waiting for the CPU.

Findings. Four comments say more than the code does: `kernel_destroy` (a queue
with a message and a blocked receiver after `osDestroyThread`),
`kernel_wakestart` (`osStartThread` on a WAITING thread), `timer_early` ("after
`countdown` cycles the kernel posts `msg`") and `nusched_reset` ("don't touch
the RSP" in the window before the reset). Two are errors of the code.
`seteventmesg.c:13-14` has no run of its own: it says the reset notice is sent at
most once, and while one registration is cut off between its notice and the
flag another sends a second one; `PreNmiNotice` allows that and nothing more.
`gfx_stuck`: when the first of two tasks of a frame is slow, the event handler
shows its buffer at age 0x20, the second task waits for that buffer to leave
the screen, and only its own end would bring the swap: `nuGfxTaskAllEndWait`
does not return. `voices_settle`: a pan and an effect change at one time in the
middle of a ramp each project the volume over the whole span since the ramp
began, 21843 and then 43685, which wraps.

## 4. Proofs

Eight modules hold theorems; all are of the form `Spec => []P`, `Spec =>
[][A]_vars` or a refinement, for every value of the constants that the named
assumptions allow. In each the argument is an inductive invariant: it holds
initially, each action keeps it (one step per action), and it implies the
property; temporal logic enters in the last step only.

**OsKernelProofs.** For any threads, queues, priorities, events and every set
of calls without "WAITING", `Inv` is inductive, and with it `TypeOK`,
`OnOneList`, `StatesAgree`, `Sorted`, `HighestRuns` and `InterruptPreemption`.
`Inv` says of each thread whether it is on a list (`Queued`), that `tqueue`
names that list, that the state fits the list (`Placed`), that lists are
duplicate-free and descending, and that the run queue never holds a thread
above the running one except while the exception handler runs. The extra parts
are needed because `send_mesg` leaves state WAITING on a thread of the run
queue, so state alone does not tell where a thread is linked. The lemmas go
from list insertion and removal over the operators of the scheduler to the
actions. That no WAITING thread is started is what `kernel_wakestart` shows to
be necessary.

Its second half is about waiting. `WaitInv` adds what a waiter waits for: a thread linked
in a wait list has a message call pending, and the list is the one that call
waits in. It gives `WaitersAgree` for every program. The wakeup properties count: for each
queue the messages are at most the receivers already woken for it, if one
still sleeps. A step either leaves the lists alone (`Quiet`) or moves one
waiter to the run queue (`Wakes`), and both follow from the scheduler alone.
`NoLostMessageWakeup` and `NoLostSlotWakeup` assume a finite set of threads,
since woken ones are counted, and a program without "destroy", which is what
`kernel_destroy` shows to be necessary. `YieldIsRoundRobin` is about insertion
behind all threads of the same priority. `KernelPreNmi` proves `PreNmiNotice`
from `PreInv`: the program has registered exactly when `__osPreNMI` is set or
some thread is cut off in `InBind`. It needs a program without "destroy",
because a thread destroyed there never sets the flag.

**NuSchedProofs.** `NuInv` pairs the program counters of the audio and the
graphics thread: what each knows of the other (`GraphicsKnows`, `AudioKnows`),
what the RSP can be doing at each pair and whose completion is waiting
(`RspIs`), and what is begun or saved (`WorkIs`). It is needed because neither
thread looks at the RSP. With it `CompletionIsOwn`, `YieldIsForGraphics`,
`InFlightIsCurrent`, `ReleaseToCome`, `StartsIdleRsp` and `ResumesFromSave`
hold for any tasks, flags and queue depths.

**PiProofs.** `PiIInv` is the type invariant, the one owner of the bus, the
completion of the request at hand, and two facts on timing: the cartridge's
registers are slow exactly while a thread probes, and what it saved is what
was there at boot; the handle cached for a domain is that of its transfer.
With it `PiInv` holds in `PiSpec`, where any request may come at any time
(`PiAlwaysOwned`), and in `CacheSpec`, with the readers and the cache of samples
as its clients, whose calls combine requests and replies (`PiOwnedByClients`).

The cache of samples is a pair of lists linked through `next`. Where the code
follows pointers the model has a recursive function, and the proof a witness:
`ListInv` says there are two sequences of buffers, without a repetition and
with no buffer in common, whose neighbours are each other's `next` (and, in the
list in use, `prev`) and whose last is followed by none; the function that
follows `next` then gives the sequence (an induction, from `Induction`).
Unlinking and linking are equations between these sequences. `ListInv` is
inductive on its own, so that the lists are well formed
(`CacheListsWellFormed`) and that the oldest buffer loses its sample
(`CacheEvictsOldest`) hold whatever the PI does. The rest of `CacheInv` is about
what the buffers hold: `FillInv` says of each buffer in use that its block is
there or is on its way, in one request and no other's. `CacheAlways` assumes
`QueueFits`, a finite set of readers and room in the command queue for the
misses of a frame and one request of each reader: a
refusal of `osEPiStartDma` is not looked at by `__MusIntDmaSample`, whose
buffer then promises a sample that nobody fetches.

**GfxProofs.** `GfxIInv` gives `GfxInv`. `RingInv` counts the tasks back round
the ring from `recordPtr`: asked for, in the scheduler's hands, in the
manager's queue, in its hands; where a task is says which record it has. With
`FrameInv` the frames of the tasks in flight are less than `CfbNum` apart, so
no two of different frames share a buffer, and `ContentInv` follows: a buffer
in view, or due to be, holds its frame. `PacedSwaps` relates what the VI shows
to the count since the last swap. What is said of contents and of the display ON
is said until BEFORE_RESET; the buffer of a task that is drawn is free of the
screen also then. `DisplayInv` needs a bound on time: the event
handler turns the display off for a task that has run for `DarkAge` retraces
without looking whether the manager is about to turn it on, and `AgeInv` says
that cannot coincide, since the manager is through with the at most
`GfxPending - 1` older tasks in `Pace + 2` retraces each. The assumption
`(Pace + 2) * (GfxPending - 1) < DarkAge` is 4 < 54 with the code's two buffers.

**DeviceProofs** holds the theorems of five small components that share nothing.

The ring: the index invariant of the ring (`TypeOK`) and the
refinement of `MesgQueue`, for every ring size and message set: a slot index
`Slot(i)` is injective on the valid entries, so a store in the next free slot
leaves the held ones alone.

The VI manager: `ViInv` is that both contexts hold whole settings. Then each step
of the manager is one of `ViSettings` or a stutter (`ViImplementsSettings`, the
refinement `ShowsSettings`), and `ScanInFrame` holds for every mode, field and
scale, by arithmetic over the table.

The audio frames: `AudIInv` gives `FilledUnheard`, the first half of `AudInv`:
the AI holds silence, or the buffers of the last two frames the RSP finished,
in order, and the older of the two only while it plays. It holds for every
rate. `NeverDry`, the other half, does not, and `AudKeepsPlaying` proves `AudInv`
under `RateFits`: the samples left where a short frame follows, with the rounding
error of two frames more, are less than a frame. That is so at 534 (the instance),
613 and 735 samples a frame and fails at 440. The invariant, `AudPace`, gives for each
frame and each retrace what the AI has left and what waits to follow: a short
frame is only made when more than the band is left, it is followed by one that is
not short, and no frame is skipped while it waits (`ShortPends`, `ShortWaits`).

The controllers: `ContIInv` gives `ContInv`: whoever has closed the pad buffer is inside
`nuContDataGetEx` and nobody else is; the sender of each request, queued or in
the manager's hands, waits and has no other; the key is not turned while the
manager waits to copy a retrace's reading; a motor start under way means the
rumble state is "run" with frames left and the mode one in which it is stepped,
so the state machine will stop it; a motor that runs was initialised last, or an
answer was garbled (`MotorFollows`); and the block in the PIF is that of the last
command. No motor that runs is forgotten unless the last access to it had its
answer garbled: a pak that is pulled, a check, a mode change or a late answer
alone does not do it. The theorem is for every set of modes asked for; with
DISABLE in it the second conjunct of `MotorKnown` is empty.

libultra's scheduler: `UnitsAgree`, the first half of `OscInv`, for any tasks,
types and flags. A completion is queued for each unit at most once, and what
`curRSP` and `curRDP` name runs there or its completion is queued; to keep that,
one must know where a task that uses both units is. It is once in the list, or
on the RSP, or only on the RDP, its state bits say which, and a yielded task
that is resumed on the RDP too finds it free or its own (`Orderly`). The flag
`OS_SC_PARALLEL_TASK` breaks that for good: a task with it can come to head the
list with the RDP still in its state. Then nothing is placed on the RDP any
more and audio behind it waits for ever, but the units still agree (`Jammed`).

**TimerProofs.** A wait is the sum of the deltas up to a timer, so every statement
about the list is one about sums along a sequence, proved by induction on the
place: an insertion adds one sum and leaves the others, charging the head takes
the same off each, unlinking the head takes its delta off the rest. With that
each step of the code is a step of `TimerSet` or a stutter
(`TimersAreASet`, the refinement `ListIsTimerSet`), also when a thread preempts
another between the insertion and the arming. `EarlyInv` is for
`EarlyByStaleness`: the cycles that have elapsed and are not charged to the list
yet are, for each timer, among those counted since it was set or those the base
was behind then (`Covered`). There is one exception, a list set up when nothing
was: `__osTimerCounter` is 0 and not the time until the compare register is
first written (`Unarmed`). The countdowns and intervals are finite sets, since
the model takes their largest to bound its counters.

**VoiceProofs.** `VoiceInd` gives the links, the pool, the times and the silence of
spare voices (`VoicesAlwaysKept`). The three lists part the physical voices
(`ListsOk`). An allocated voice and its logical one name each other, or an
update that frees it waits, which is the last of its list and of a voice nobody
owns (`LinkInv`). The times of a voice's updates ascend from the place the pull
has reached to the present, plus 552 once the voice was stolen (`TimesInv`):
that each span is then none or one block is arithmetic about `Snap`, and with
it the rounding errors do not add up. A voice that was given back has a stop as
its last update, which comes before the frame ends (`SpareInv`). The pool is a
sum over the voices, by induction. `VoicesAlways` adds the fades: a fade is in
the list right before its stop, 552 samples earlier, and while it lasts, the
place of the ramp and the time of the stop are 460 apart (`FadeInv`): the 368
of the ramp and half a block for the rounding of each end. It assumes
`TheftsStop`, that a theft finds two updates in the pool. With only one the
voice fades and is not stopped, and if it had not been started yet, its new
owner's start and stop can meet in the fade; no such case is in the instance.

**Induction.** The induction principle of the library takes an operator and cannot
be used here, so `NatSetInduction` states it for sets. It is proved by
counting: a set of naturals with 0 and every successor, but without n, would
map its part up to n one to one into that part less 0. `LeastNatural`
follows, and `Recursion`, by which a recursive function on 0 .. n satisfies
its own equation. That is what the proofs about linked lists (PiProofs), sums
(TimerProofs, VoiceProofs) and task lists (DeviceProofs) rest on.

Assumptions: the `ASSUME`s of the modules, which TLC evaluates on every run,
and the hypotheses named above. Proving needed guards of some `CASE`s to be
disjoint where TLC takes the first arm, and they are written so.

Only model-checked, and why:

- Liveness and anything under fairness (`AllAcknowledged`, `TimersFire`,
  `RequestsReturn`, `AudioFinishes`, `MotorRests`): out of the prover's reach.
- `StartsOffScreen` depends on the frame buffers the application gives its
  tasks and on the ages of the instance; `NeverDry` on
  the rate, where `RateFits` does not hold; `DrawnUnseen`, the other half of
  `OscInv`, on the order in which frames are submitted: none holds for every
  constant.
- `PullsContinue` compares a pull with the sound sample by sample through the
  turns of a loop; `PakInv` and `GbInv` fold retries, copies and blocks with
  operators as arguments, which the provers cannot unfold.

## 5. Plan

Done: the modules of section 2, their runs, and the theorems of section 4. Left,
in this order:

1. `PullsContinue` for loops that are at least a pull long: it needs the DMEM
   layout of a turn, and that the decoder's state is the frame in front of the
   next sample.
2. `PakInv` and `GbInv`: their folds written as recursive functions, as in NVoices.

## 6. Not modelled

Boot code, cache and TLB instructions and register accessors are straight-line
code over hardware state. `gu/` and the synthesis filters of libnaudio compute
in floating or fixed point on long buffers, outside what TLC evaluates.
`libc/` and `libkmc/` are pure functions no property here depends on; one remark:
`div64_64` of `mmuldi3.s` returns the quotient 2^k - 1 and the remainder D for
a dividend of exactly 2^k * D when the divisor has 64 bits. The game's own code
is decompiled only in part and is seen here as the caller of these libraries.
The headers, half of the lines of the repository, are declarations and display
list macros. `nusched.c:229` (more than ten fields) and the software interrupts
of `exceptasm.s:600` are not reached by anything in the repository. The other
components are listed in `PROJECT.json` with the reason for each.
