# Smooth-Demon: a TLA+ verification project

Smooth-Demon is a C++ library for Linux that watches and steadies a running
game: it captures the screen through the desktop portal and PipeWire, paces
presentation against the display's vblank, measures frame times, and monitors
and tunes processes. These modules model the parts of it that keep state over
time and share it between threads; TLC checks them on small instances, and TLAPS
proves the safety properties the runs check for every instance. Paths below are relative to
the repository.

## 1. Inventory

| Part | State | Operations | Used by / talks to | Hard about it |
|---|---|---|---|---|
| PipeWireCapture (`src/capture/PipeWireCapture.cpp`, `include/capture/*.h`) | PipeWire handles, recycler (mutex, stream), loop thread, callbacks, `streaming_` | Start, Stop, destructor, OnStateChanged, OnParamChanged, HandleProcess; destructor and move of frames | application thread, loop thread, PipeWire server, consumers of frames on their own threads | frames outlive the stream; tear-down against callbacks; a small pool of buffers |
| PortalSession (`src/capture/PortalSession.cpp`) | session handle, node, descriptor | RequestScreenCast, AwaitPortalResponse, destructor | D-Bus event-loop thread, portal, user | signal against subscription; failures between requests |
| TimerFd (`src/pacer/TimerFd.cpp`) | timerfd, pipe | ArmAbsolute, Wait, Disarm | presentation loop; Disarm from another thread | races between system calls; a full pipe |
| PresentationPacer (`src/pacer/PresentationPacer.cpp`) | interval, last vblank, estimate, red zone | setters, UpdateLastDrawDuration, MarkVBlank, CalculateNextWakeup | presentation loop | unsigned arithmetic, boundaries, a loop that must end |
| Presentation loop (`tests/test_pacer.cpp`) | pacer + timer + clock | one iteration per frame | the three above | two notions of time |
| RingBuffer, FrameMetrics (`benchmark/`) | array, head, count; last time stamp, limit | Push, Clear, `[]`, CopyTo; RecordTimestamp, Reset, ComputeStats | the benchmark | wrap-around, time stamps out of order, index rounding |
| HighResTimer | start, last tick | ElapsedNs, Tick*, Reset | presentation loop, benchmark | nothing beyond the clock's origin |
| ProcessMonitor (`src/process.cpp`) | cached pid, previous ticks and time, first-sample flag | sample, reset, find_target_process | `/proc` | the target exits between any two reads; pid reuse; a difference of counters |
| ProcessScheduler (`src/resource/ProcessScheduler.cpp`) | none of its own; the kernel's nice values and policies | ReniceProcessThreads, GetAverageNice, ApplySchedulingPolicy, RestoreDefaultScheduling | `/proc/<pid>/task`, kernel | threads that start and exit during the iteration; partial failure |
| IOPriority, CpuAffinity | none | one system call each | kernel | - |
| OpenCLContext, OpenCLProgram, OpenCLBuffer (`src/compute/`) | handles, each with a reference in OpenCL | Initialize, Shutdown, BuildFrom*, CreateKernel, MapRead/Write, Unmap, destructors | OpenCL runtime, the caller | who releases what, through failures and rebuilds, and in any order of destruction |
| CpuMonitor (`src/cpu.cpp`) | the lines of `/proc/stat` at the last sample, a place per core, first-sample flag | constructor, sample | `/proc/stat` | differences and sums of unsigned counters; iowait goes back, cores come and go |
| GpuMonitor (`src/gpu.cpp`) | sleep counter and time at the last sample, first-sample flag; engine times and time by pid | initialize, sample, sample_process_gpu | `/sys/class/drm`, `/proc/<pid>/fdinfo` | counter and clock are two reads; a directory that changes while it is read; counters that restart |
| TemperatureMonitor (`src/temperature.cpp`) | sensors by path, with type and last reading | discover_sensors, sample, get_cpu_package_temp, get_gpu_temp | `/sys/class/hwmon` | paths that die, come back and change hands |
| MemoryMonitor (`src/memory.cpp`) | the last figures | sample | `/proc/meminfo` | missing lines, figures that contradict each other |
| Screen-cast application (`tests/test_capture.cpp`) | portal, capture, the callbacks' locals, a descriptor | main | PortalSession, PipeWireCapture | the order in which objects die, on every way out |
| SystemInfoCollector, main, version, types | none | read and print | - | - |

What makes each part correct: a captured buffer is with the server or with one
frame, comes back exactly once, and nothing touches a PipeWire object that is
gone; a portal call leaves nothing half-made behind a success, however earlier
calls failed and whenever they are answered; a timer fires only when due, and neither a Disarm nor an expiry is
missed; a deadline is that of the first vblank that can still be made, and never goes back; the ring
holds the newest samples in order and the statistics are statistics of them;
every OpenCL reference has one owner; a renice reaches every thread that is there
throughout; a target's ticks are counted once, and it is found again after a
restart; a monitor reports what happened between its samples, whatever
the counters do; an application that casts the screen closes every descriptor and
keeps session, stream, callbacks and locals in their order.
The state hard to test in each part is listed, line by line, under "hazards"
in `PROJECT.json`.

## 2. Modules

`Capture` (core) -> `BufferLease` (what it promises); `Portal`; `CaptureApp`
(composes the two: EXTENDS `Portal`, INSTANCE `Capture`); `PresentationPacer`;
`TimerFd`; `PresentationLoop` (composes the last two, EXTENDS both);
`RingBuffer` -> `BoundedHistory`; `FrameMetrics` (EXTENDS `RingBuffer`);
`Compute`; `ProcessScheduler`; `ProcessMonitor`; `CpuMonitor`, `GpuMonitor`,
`GpuProcesses`, `TemperatureMonitor` and `MemoryMonitor`, put side by side by
`SystemMonitors`. `Sums` is the sum `FrameMetrics` and `GpuProcesses` take.
`MCPresentationPacer` and `MCProcessScheduler` hold definitions
for TLC's instances; `CaptureProofs`, `CaptureAppProofs`, `PacingProofs` (pacer, timer
and loop), `MetricsProofs` (ring and statistics), `ComputeProofs`, `SchedulerProofs`
and `MonitorProofs` (all monitors) the proofs, and `SumLemmas` what they need of sums,
minima and maxima. An operator
marked "Mutant" beside an action is the same action with a plausible bug; no
specification uses it, and each property of a passing run is violated when the
action is replaced by it.

### Capture

Four kinds of actors: the application thread (`app`: Start, then Stop or the
destructor one statement at a time), the loop thread (`worker`: PipeWire's
loop, its callbacks, `HandleProcess` and the frame it makes, `hand`), consumers
(`held`: frames kept by the callbacks, destroyed on any thread at any time) and
the server (`Fill`). A frame is a record of session, format negotiation and
buffer: destroying it runs its closure, which holds *that* session's recycler.
`lock[n]` is the frame inside `recycle()` of session n's recycler, between the
test of `stream` and `pw_stream_queue_buffer`; `invalidate()` waits for it.
`Start(failing)` covers every early return. What the library does is modelled
as the code needs it: `pw_loop_invoke` and `pw_main_loop_quit` run in the loop
when a thread is in it and in the caller when none is; `pw_main_loop_run` sets
the running flag when it begins; the disconnect reports the last state change.
The server chooses the data type of each of a pool's buffers when a format is set
(`type`): HandleProcess makes a frame of a buffer if its type is one the code
knows, and gives it to the callback of that type if there is one; every other buffer
it queues itself, outside the recycler's mutex.
Not modelled: a Start while handles are left from a failed one, Stop called
from a callback, and setting callbacks while the thread runs.

`BufferLease` is what a frame's owner may rely on: while open, each buffer is
free or leased, a lease ends by one return, and closing voids all leases at
once. The refinement mapping takes `free` for what is with the stream and
`leased` for the frames in hand, kept, or in `recycle()`, and the pool is open
from the first format to `invalidate()`.

### PresentationPacer, TimerFd, PresentationLoop

`PresentationPacer` has an action per member function; `CalculateNextWakeup`
computes the first target, `Walk` is one iteration of its loop and `Return` its
end. Integer division and the decay by 980/1000 are the source's. The wrap of
64-bit unsigned numbers is not in the model: `PacerTypeOK` and its proof show that no
subtraction goes below zero, and sums stay far below 2^64 for clock values.

`TimerFd` has an action per system call: `Poll`, `Drain` (one byte), `Read`, and
for Disarm `DisarmTimer` and `DisarmNudge`. `Tick` and `Expire` are the kernel.

`PresentationLoop` is the loop of `tests/test_pacer.cpp`, the only code that puts
the two together. Its two clocks are kept apart: the pacer is given the time
since the HighResTimer was made (`ElapsedNs`), the timer compares with
CLOCK_MONOTONIC (`now`); `StartTime` is the distance between them. Each action is one of
the pacer's or the timer's with the loop's place (`pc`) around it. The loop never sets a red
zone, and `LoopAssumption` says that the constructor's is shorter than an interval at every
rate of the instance (1.65 ms against the 16.7 ms of the 60 Hz the test asks for).

### Portal

`pc` and `stage` are where RequestScreenCast is; requests are numbered the way
`make_token` numbers their paths. The event-loop thread (`Deliver`) and the
portal (`Respond`) are actors. A response has its code and whether what the stage
needs is in it, is missing, or is a variant of another type. The portal answers a
request at any time: before the subscription, when the signal is lost, or after the
call was given up, when it reaches a handler only if that handler is for the
same path (`Path`). Proxies, method calls and `Variant::get` throw; what is
caught fails the call (`CallThrows`, `OpenThrows`), what is not leaves it (`ProxyThrows`,
`GetThrows`).

### CaptureApp

`main` of the capture test: a portal session, a capture with its callbacks, the
descriptor the one gives the other, and the locals the callbacks refer to. Every
action is one of `Portal` (`Asks`) or of `Capture`, with what `main` does around it;
`main` says which objects are there. `dups` is the descriptor Start makes with
dup. pw_context_connect_fd takes it over, and pw_core_disconnect closes it; when it
fails it may have closed the descriptor or not, and Start closes it then, for a
second time perhaps (`closedTwice`). The application is taken a little more freely than the
test's: it may catch what RequestScreenCast throws, it may ask again when it was refused
(with `CallAgain`, also when it was not), and its callbacks may be missing or keep and move their frames.

### RingBuffer, FrameMetrics

`RingBuffer` is the array with `head` and `count`; `Contents` is what CopyTo
appends and `BoundedHistory` what it ought to be. `FrameMetrics` adds the time
stamps and computes the statistics of the newest `Window` samples as the source
does, with a mean kept as a sum and a length: `Sorted` is an order of the samples in
which none is above the next, `Percentile` takes the place ceil(p n), capped, in it.

### Compute

OpenCL objects are numbered as they are made. `refs` are the references the
application holds on each and `parent` is what an object retains in turn, so
that an object lives (`Live`) while something that retains it does. Every
action is a call on one of the library's objects; `Update` stands for its
clRelease calls and creations, and notes a release of a handle that was
nobody's (`overreleased`) and the use of a context that is gone
(`staleContext`). A build fails in the compiler or the driver, which costs the old program,
or at a file that cannot be opened (`FileNotOpened`), which does not. Nothing in the headers asks for an order, so the context may
be shut down, and set up again, while programs and buffers exist.
`SpecWithOwner` adds the caller that OpenCLProgram.h lets release a kernel.
The choice of a device, `ClampLocalWorkSize` and the profiling helpers are left
out: they change no handle.

### ProcessScheduler

A call opens the task directory (`Open`), reads entries (`ReadEntry`,
`EndOfDirectory`), visits the ids it read one system call at a time
(`SetPriority`, `GetPriority`, in any order, since the directory's order is not
specified) and returns. Between any two steps threads start, inheriting nice value and policy,
and exit, and their ids are given out again within the process. readdir returns every
thread that is there from beginning to end and any of the others.
`privileged` is CAP_SYS_NICE. Ids taken over by another process are not modelled.
Nobody else changes nice values: those of an average are what the threads had when it began
or inherited since. `since`, `denied` and `before` are history the properties need.

### ProcessMonitor

`sample` scans /proc an entry at a time, reads stat, and takes one of its three
ways: first sample, measured, too soon. Processes start with the target's name
in comm, in their command line only, or nowhere; they use ticks, exit, stay as
zombies (no command line, but a stat), and are reaped. Tick counters are
unsigned (`TickMod`). The percentage is a number of ticks over a time, and the model
keeps the ticks. `firstTicks` and `reported` are history.

### CpuMonitor, GpuMonitor, GpuProcesses, TemperatureMonitor, MemoryMonitor

These share no state and no caller, so `SystemMonitors` checks them in one run,
each behaviour being about one of them (`about`).

`CpuMonitor` keeps, as the code does, a place per core that was on line at
construction, indexed by the number of the core, and one for all cores together, whose
line the kernel counts along with each core's (`stat`). Differences and their sums are
modulo `CpuTickMod`; one field stands for the four of a line that are busy and not
the user's. `statThen` and `steady` are history.

`GpuMonitor` samples in two steps, the read of the counter (`GpuRead`) and of the clock
(`GpuReckoned`), with time and card free to change in between. A counter that cannot
be read is 0, as `read_sysfs_u64` has it. The clock ticks in parts of a
millisecond and the counter shows whole ones. `base` is history.

`GpuProcesses` is `sample_process_gpu`: `ScanRead` is one entry of fdinfo, in any
order; `Slot` is the largest value of a client and `ScanEnd` the rest of the call. The
process opens, duplicates and closes descriptors meanwhile. `window` is history.

`TemperatureMonitor` has sensors by path; the device behind a path comes and goes and
need not be the same again. A discovery, and a sample, is one step here. `read` and `sampled` are history. `MemoryMonitor` is a
function of what the file says, over every combination of figures.

## 3. Runs

| Run | Question | Bounds |
|---|---|---|
| CaptureLifecycle | Do recycling, tear-down and the pool hold together over two sessions, and does Stop return? | 3 buffers, each memory with a callback or of a type without one, 2 sessions, 1 format |
| CaptureNoCallback | violation: a buffer without callback is queued twice | 2 buffers, 1 session |
| Pacer | Is every deadline that of the first vblank on the display's beat that can be made, does the estimate follow the draw times, does the walk end? | 4 rates, 2 red zones, 4 draw times (one a spike far above the interval), 3 clock values, second of 960 units |
| Timer | Does Wait fire only when due and wake for Disarm and expiry? | 2 deadlines, pipe of 2 bytes, 2 arms, 3 disarms |
| Loop | Do deadlines stay monotone, does the loop finish? | 3 frames, 4 draw times, up to 2 late, with the pipe or without |
| ScreenCast | Is success complete, does no descriptor leak, and do session and locals outlive stream and callbacks? | 3 portal calls, answered at any time or never, 1 session of the capture, 2 buffers, DMA-BUF or memory, 2 formats, a callback for DMA-BUFs only, frames moved |
| SystemMonitors | Do the monitors report what happened between their samples? | 2 cores with 2 ticks in all (counter of 16); 7 half milliseconds of GPU time; 2 processes, 2 descriptors each, 2 clients, 3 ms; 2 sensor paths, 3 drivers, 3 temperatures or none; figures up to 3 |
| Metrics | Does the ring keep the last samples, and are the statistics right? | ring of 4, window of 3, 8 time stamps |
| Compute | Has every reference one owner, through failures, rebuilds, Shutdown and destruction in any order? | 2 programs, 1 buffer, 7 OpenCL objects ever made |
| ComputeKernelOwner | violation: a kernel its caller released is released again | 1 program, 1 buffer |
| Scheduler | Does a call reach every thread that is there throughout, and is the average one? | 3 thread ids, 2 threads started, 3 nice arguments (below the range, -1, 5), 2 policies, 4 cores |
| Monitor | Are ticks counted once, and is a restarted target found again? | 3 pids, 2 ticks each, counter of 16 |

Why the bounds are enough: two sessions let a frame of the first meet the
recycler, stream and thread of the second; three buffers let one be kept, one be
in hand or queued by HandleProcess itself, and one be with the server; a pipe of two bytes is full after two of
three Disarms; 960 units make intervals of 16, 8 and 4 against red zones and
draw times below, at and above them; a ring of four wraps in five samples and
has a window smaller than it. Three portal calls let two fail at any two stages
before one succeeds, and the capture then starts, fails or stops at any point of the second
format. Seven OpenCL objects are two generations of context and
queue with three of program, kernel or buffer, or a context with two programs rebuilt.
Three thread ids let one exit and one start while a third is visited. Three pids
let a target exit, a second be found and a third be none of them; no counter
comes near 16, so a wrap can only be a difference below zero. Two cores let the one
with the higher number be the only one on line, which has no place in a vector of
one. Seven half milliseconds hold two samples that count with one that comes too
soon, and rounding of the counter. Two descriptors may be of one client or of
two, and three milliseconds hold two calls that count and one that does not. A third
driver is a sensor of neither kind. The clients and the processes are
symmetric, and no property of the run is a liveness property.

Deadlock checking is off where the system may stop: a closed capture, a
destroyed session or timer, a Wait when the bounded Disarms are used up, a
finished loop, OpenCL objects used up.

### Fairness

A thread that is in a call and not blocked goes on (weak fairness per thread);
nothing obliges the application to call Stop, the user to answer, or a consumer
to let go of a frame. Three assumptions are strong: PipeWire's loop serves all
ready sources of an iteration, so an invoked function and the test of the
running flag are not passed over for ever by buffers that keep arriving
(`LoopInvoked`, `LoopExit`), and in the presentation loop work ends at one of
the moments it may. The third is about the recycler's mutex: a Stop that waits for it gets it,
though consumers may take it again and again (`StopInvalidate`; a thread that holds
it lets go by itself, `RecycleQueues`). Callbacks return. Time passes until `MaxTime`.
A monitor's owner calls sample again and again, and a sample once begun goes on;
processes owe nothing. ScreenCast, Compute, ProcessScheduler
and the monitors of the system have safety properties only (`AppFairSpec`, under which
`ResponseUnblocks` fails, lets the calling thread and the event-loop thread go on).

### Disagreements between code and comments

Two runs expect a violation; `findings` quotes the lines. The following fail as
well when the named run is changed as said ("added": the property is added to
its cfg). They are kept out of the runs, and each can be reproduced by the change:

| Property | Change | What it shows |
|---|---|---|
| `BufferExclusive` | CaptureLifecycle, MaxFormats = 2 | a frame of the old pool is recycled into the new one (`PipeWireCapture.cpp:362`) |
| `BufferNeverLost` | CaptureLifecycle, MoveAssigns = TRUE | a move-assigned frame's buffer never comes back (`FrameTypes.h:46`) |
| `QueueingSerialized` | CaptureLifecycle, added | HandleProcess queues a buffer of a type it does not know outside the mutex, while a consumer's recycle() queues another (`PipeWireCapture.cpp:398`) |
| `FrameMemoryValid` | CaptureLifecycle, added | a kept frame's memory goes with the stream (`PipeWireCapture.cpp:313`) |
| `ToldTruth` | CaptureLifecycle, added | the state callback says true before streaming and never false (`PipeWireCapture.cpp:162`) |
| `NoDescriptorLeaks` | ScreenCast, CallAgain = TRUE | a second successful call leaks the first descriptor (`PortalSession.cpp:218`) |
| `NoDescriptorClosedTwice` | ScreenCast, added | "Dup the fd since pw_context_connect_fd takes ownership" (`PipeWireCapture.cpp:226`), yet Start closes it when that fails (`PipeWireCapture.cpp:236`) |
| `DisarmWakes` | Timer, PipeMayFail = TRUE | without its pipe Disarm wakes nobody (`TimerFd.cpp:20`) |
| `SleepsUntilDeadline` | Loop, added | the deadline is on the wrong clock, so Wait returns at once (`test_pacer.cpp:32`) |
| `OneIntervalOn` | Loop, added | the anchor is a wakeup, not a vblank: the next deadline is less than an interval on (`test_pacer.cpp:49`) |
| `StopAlwaysReturns` | CaptureLifecycle, added | a quit before the new thread has entered its loop is lost, and the join waits for ever (`PipeWireCapture.cpp:303`) |
| `EstimateFits` | Pacer, added | "Never let the estimate eat more than the interval minus redzone": only an update clamps it, not the constructor or a setter (`PresentationPacer.cpp:40-42`) |
| `FalseMeansDisarmed` | Timer, added | the byte of a Disarm while nobody waited ends the Wait of a timer armed later (`TimerFd.cpp:128`) |
| `ResponseUnblocks` | ScreenCast, added, SPECIFICATION AppFairSpec | an answer between the method call and the subscription is lost and the caller waits for ever (`PortalSession.cpp:82`) |
| `BuiltIsLastBuild` | Compute, added | after a build that could not open its file IsBuilt() speaks of the program before (`OpenCLProgram.cpp:74-78`) |
| `ContextStillThere` | Compute, added | a program does not retain its context: a build after Shutdown uses one that is gone (`OpenCLProgram.cpp:43`) |
| `RestoredMeansDefault` | Scheduler, added | "Back to SCHED_OTHER with nice 0 on all threads": refusals are ignored, and only the main thread's policy is reset (`ProcessScheduler.cpp:119-125`) |
| `NoThreadMissed` | Scheduler, added | a thread started during the iteration keeps the nice value of its parent (`ProcessScheduler.cpp:47`) |
| `TicksCountedOnce` | Monitor, PidReuse = TRUE | another process behind the cached pid: its smaller counter wraps the difference (`process.cpp:192`, `234`) |
| `ReportsRunning` | Monitor, added | "Returns false if target is not running" (`process.hpp:30`): a zombie, or the pid's next owner, is reported as running |
| `EveryCoreSampled` | SystemMonitors, added | with core 0 off line when the monitor is made, the last core has no place in the vector (`cpu.cpp:128`) |
| `IowaitTruthful` | SystemMonitors, added | an iowait that went back is reported as 100% (`cpu.cpp:31`) |
| `IdleNotBusy` | SystemMonitors, added | without the counter's file, or with the card gone, the GPU is reported as fully busy (`gpu.cpp:108`) |
| `IdleProcessNotBusy` | SystemMonitors, added | a process that closed a client is reported at 100% (`gpu.cpp:222`) |
| `SilentUntilSampled` | SystemMonitors, added | before the first sample a core's temperature is 0 degrees, not -1 |
| `OnlyPackages` | SystemMonitors, added | "Returns -1.0 if no CPU package sensor was found": a core's temperature is given instead (`temperature.hpp`) |
| `TypesHold` | SystemMonitors, added | a path that another device took over keeps the type of the first (`temperature.cpp:107`) |

## 4. Proofs

| Module | Theorem | Statement |
|---|---|---|
| CaptureProofs | Invariance, Typing | `Spec => []IInv`, `[]TypeOK` |
| | RecycleSafety | `Spec => []RecycleIntoLiveStream` |
| | CallbackSafety | `Spec => []WorkerNeedsObjects` |
| | ExclusionTheorem | if `Ordinary`, `Spec => []BufferExclusive` |
| | LeaseTheorem, NeverLostTheorem | if `Ordinary` and no frame is assigned over, `Spec => ImplementsLease`, `Spec => []BufferNeverLost` |
| CaptureAppProofs | PortalInvariance, SuccessTheorem | `Spec => []PInv`, `Spec => []SuccessIsComplete` (of `Portal`) |
| | ImplementsPortal, ImplementsCapture | `AppSpec => Spec`, `AppSpec => C!Spec` |
| | LocalsTheorem, SessionTheorem | `AppSpec => []LocalsOutliveCallbacks`, `AppSpec => []SessionOutlivesStream` |
| | DescriptorTheorem | if `CallAgain = FALSE`, `AppSpec => []NoDescriptorLeaks` |
| PacingProofs | TimerTyping, NudgeTheorem | `TimerSpec => []TimerTypeOK`, `TimerSpec => []NudgeNotLost` |
| | DueTheorem | `TimerSpec => FiresOnlyWhenDue` |
| | PacerTyping, NoVBlankSkippedTheorem | `PacerSpec => []PacerTypeOK`, `PacerSpec => []NoVBlankSkipped` |
| | DeadlineTheorem, EstimateTheorem | `PacerSpec => DeadlineIsFirstToMeet`, `PacerSpec => EstimateBracketsDraw` |
| | WakeupTheorem | `Spec => WakeupsNeverGoBack` (of `PresentationLoop`) |
| | ImplementsPacer, LoopDeadlineTheorem | if `Times = Nat`, `Spec => PacerSpec`, `Spec => DeadlineIsFirstToMeet` |
| ComputeProofs | OwnershipTheorem | `Spec => []OwnershipExact` |
| | ReleaseTheorem | `Spec => []NeverReleasedTwice` |
| MetricsProofs | RingRefinesHistory | `RingSpec => KeepsLastSamples`: the ring implements `BoundedHistory` |
| | MetricsTyping, ImplementsRing | `Spec => []TypeOK`, `Spec => RingSpec` |
| | HistoryTheorem, StatsTheorem | `Spec => KeepsLastSamples`, `Spec => []StatsConsistent` |
| SchedulerProofs | Typing | `Spec => []TypeOK` |
| | ReniceTheorem, AverageTheorem | `Spec => []EveryThreadReniced`, `Spec => AverageTruthful` |
| MonitorProofs | Typing | `Spec => []TypeOK` (of `ProcessMonitor`) |
| | CountTheorem | if `PidReuse = FALSE`, `Spec => []TicksCountedOnce` |
| | SharesTheorem | `SystemSpec => SharesTruthful` |
| | ActivityTheorem, UseTheorem | `SystemSpec => ActivityTruthful`, `SystemSpec => UseBracketed` |
| | TemperatureTheorem, MemoryTheorem | `SystemSpec => []NoStaleReading`, `SystemSpec => []MemoryFiguresAgree` |

They hold for every value of the constants that satisfies the named assumptions, which the
passing runs evaluate on theirs: `CaptureAssumption`, `PortalAssumption`, `TimerAssumption`,
`PacerAssumption`, `LoopAssumption`, `RingAssumption`, `MetricsAssumption`,
`ComputeAssumption`, `SchedulerAssumption`, `MonitorAssumption`, `CpuAssumption`,
`GpuAssumption`, `DrmAssumption`, `TemperatureAssumption` and `MemoryAssumption`. Every safety
property of a passing run is the statement of one of these theorems, with the hypotheses shown.

*Capture.* `RecycleIntoLiveStream` is not inductive: that a locked recycler's
stream lives follows only from where Stop is. `IInv` adds `RecyclerInv` (a recycler
with a stream is the last Start's, all handles exist and Stop has not passed
invalidate; a locked recycler has a stream) and `HandInv` (what the loop thread
holds is a frame of a negotiated format of a started session).
`WorkerNeedsObjects` is a part of it: it is what keeps the handles while the
thread lives. These two hold for all constants: missing callbacks, unknown
types, move assignment and any number of formats are included.

*The pool.* What becomes of a buffer depends on the constants, as the table above
shows, so those theorems assume `Ordinary`: one format to a session, and a callback
for every type the code knows, which leaves to HandleProcess the buffers it cannot make a
frame of. `PlaceInv` says that a buffer of the current pool is
in one place of queued, filled, in hand, kept and in recycle(), and `WayInv` where the
loop thread may be with what it holds; together they are inductive over
`IInv`. For the lease each action is shown to be a grant, a return, an open, a
close or a stutter of `BufferLease` under the mapping. That no buffer is lost is then a
consequence of the refinement: the lease service keeps every buffer free or leased.

*Portal and the application.* `PInv` relates the call's stage to what has been made so
far, and the bus to the call (`BusInv`): requests are numbered in order, a handler is for the
last one, and a signal or a fulfilled promise answers that one, so that an answer to a request given up cannot be taken for another's. `ImplementsPortal` and `ImplementsCapture` show that each step
of the composition is a step of either component or leaves it alone, so the theorems of
the components hold in the application. `AppInv` adds where `main` is to where Stop is:
after "stopped" no handle is left and the loop thread has been joined. `CallAgain` is a
hypothesis of `DescriptorTheorem` because it fails otherwise (above).

*TimerFd.* `NudgeNotLost` is inductive with the types. `FiresOnlyWhenDue` needs
`ExpiryInv`: an expiration that can be read is that of the armed deadline, and that
deadline has passed; a re-arm or a Disarm between poll and read takes it away.

*Compute.* Two fields with the same handle would break the count, so `IInv` says that
all handles are those of objects made earlier (`HandlesInv`), no two of them the same
(`AloneInv`), and that an object has its one reference exactly if some field is its handle
(`RefsInv`). A new object differs from all handles because it is numbered next; the
`Update` lemmas say what each call does to the counts. From `IInv` the sets counted in `Owners`
have at most one element in all.

*Pacer.* `PacerTypeOK` is inductive. It says that the interval is never 0 and that no
unsigned subtraction goes below zero. `OnBeat` says that during a walk the target is a whole
number of intervals after the last vblank and the vblank before it was too soon; that all the
earlier ones were follows from `Beat`, the arithmetic of products, for which the solver needs help.

*Presentation loop.* A deadline compares with the one before only through the anchor.
`LoopInv` says that after the first frame the anchor is the last wakeup, and that estimate
and red zone together (`Offset`) fit into an interval once there was an update: then the target, at
least one interval after the anchor, less `Offset` is not before the anchor. Before the
first update `Offset` may be more, but then the deadline before is 0. The clamp is what
makes it hold, and it leaves room only if the red zone is shorter than the interval, which
is `LoopAssumption`; with a longer one the deadline could go back. `ImplementsPacer` shows
that the loop is a behaviour of `PresentationPacer`, whose theorems then hold in the loop. Its
hypothesis `Times = Nat` lets the pacer's clock show whatever the loop's does.

*RingBuffer.* `RingInv` adds to the types that `head = count` until the ring is full.
`PushRefines` compares `Contents` before and after element by element, in two
cases, with `Wrap` for the modulus. `ImplementsRing` carries it over to FrameMetrics: what is
pushed there is positive and not above the limit, so a value of the ring.

*FrameMetrics.* The statistics are a function of the ring, so `StatsTheorem` is about every
sequence of samples a state can have. `OrderExists` shows that there is an order for `Sorted` to
choose: of a smallest set of places that had none, order all but the one of the greatest
sample, and put that last. A percentile
covers its share because the place taken is at least p n, also where it is capped
(`PlaceBounds`), and the samples in the places up to it are as many (`NotAboveAtLeast`). The mean
lies between the extremes by `SumAtLeast` and `SumAtMost`; if half the samples were above
twice the mean they alone would come to more than the sum (`FewStutter`).

*ProcessScheduler.* `TypeOK` and `EveryThreadReniced` together are inductive: a
thread that starts is not in `since`, one that exits leaves it, and a visit either sets
the value, finds the thread gone, or adds it to `denied`. `EndOfDirectory`
establishes it: every thread of `since` is among the ids still to be visited. For the average
`AverageInv` says that sum and number are in proportion (`Bracketed`): the sum of c values is
at least c times one nice value seen during the call and at most c times another. A visit keeps that by
taking the smaller and the greater of the old bound and the new value, and the division that
truncates toward zero stays between. If no thread was counted, all of `since` is still to be visited.

*ProcessMonitor.* That ticks are counted once needs that the counter behind the
cached pid never falls below `prev_ticks`. `CounterInv` says so, for the process and
for the number `sample` has read of it; a pid once used does not come back
(`PidReuse = FALSE`, the theorem's hypothesis), so the counter never restarts and the
difference does not wrap.

*CpuMonitor.* `CpuInv` says that no counter but iowait is below what it was at the last
sample (`statThen`), and that the line kept for a core that stayed is that one. A difference
of such counters does not wrap, so it is what moved; for iowait it may, and the theorem
says what is then still right: total and user as long as idle and iowait together went on.

*GpuMonitor.* Counter and clock are read apart. `Shows(ms, t, lag)` says that a counter value
is the sleep time at a moment at most `lag` before the clock's, in whole milliseconds. It
holds of what was just read (`base.fresh`) and, as long as the counter was there, of what is
kept from the last sample that counted (`base.steady`). The bounds of `ActivityTruthful` are the difference
of two such statements, divided; `clamp` does not break them since the card does not sleep
longer than time goes by.

*GpuProcesses.* The total of a scan is read entry by entry while clients go on. `CalmScan` says
that, if nothing was closed, the values found so far are none above the client's use now, and
that some set of the process's clients, those there at the beginning, is read or will be and comes to
what they had used then. `CalmWindow` keeps both bounds over the calls that came too soon, and that
a process uses no more than the time that passes.

*TemperatureMonitor, MemoryMonitor.* `TempInv` says that every sensor in the map has what the
last sample read of it, or none, once there has been a sample; the readings given out are the first of these or their maximum. `MemoryFiguresAgree`
is inductive by itself: a difference is taken of a value capped by what it is taken from
(`Capped`), so none wraps, and amount and percentage are of the same difference.

*Sums, minima, maxima.* The sum of the community modules is a fold: a recursive function on the
subsets of a set, applied to the set. `SumLemmas` shows that there is one function with that recursion,
hence that the sum can be unfolded, that any element may be taken out first, and that sums grow with
terms and sets. Where a book would use induction on a finite set, these proofs take a
smallest counterexample (`LeastSubset`: strict inclusion is well-founded on a finite set's subsets), because
the induction theorems of the library have an operator as parameter.

Model-checked only, because TLAPS does not do ENABLED and fairness here: everything about liveness
(`StopReturns`, `CallReturns`, `DisarmWakes`, `ExpiryWakes`, `LoopEnds`, `Rediscovers`). The two
violations and the table of section 3 are TLC's counterexamples. What depends on rounding of floating-point numbers is in neither: figures are natural numbers and
quotients are truncated.

## 5. Not modelled, and the plan

Left out for good: SystemInfoCollector, main and the version headers (no state),
the text of `/proc` and `/sys` files, format tables, SPA pods, OpenCL's profiling
helpers (one read of one event), logging. IOPriority and CpuAffinity are one system call each,
without state of their own; a call on every thread of a process is what
`ProcessScheduler` models.

Parts of modelled components that are left out: a second Start while handles are
left from a failed one, Stop on the loop thread, and setting callbacks while the thread
runs (`Capture`); the choice of a device and
`ClampLocalWorkSize` (`Compute`); Reset and the ticks of HighResTimer; memory and thread
counts of ProcessMonitor; frequencies of GpuMonitor.

Next, in this order:

1. A second Start after a failed one, and Stop on the loop thread, in `Capture`.
2. The choice of a device (`OpenCLContext.cpp:64`), as a function of what the platforms list.
3. Proofs: that the loop implements `TimerSpec` too, for which its deadlines have to be
   shown positive; a variant that falls with each iteration of the pacer's walk, as an action property
   under `CallReturns`; the same for the descriptors still to be read in a scan of fdinfo.
