# Formal models of the Nexus 6 (shamu) camera HAL and power service

This directory holds TLA+ modules for the device tree in `src/`, TLC
configurations that model-check them, and TLAPS proofs. Almost all the program
code of the tree is the camera stack: two camera HALs (`camera/QCamera2/HAL`
for the first API, `HAL3` for the third) above `mm-camera-interface`, which
talks to a kernel driver and a closed daemon, and `mm-jpeg-interface`, which
talks to a closed encoder. Threads, queues and callbacks between them are what
the modules are about.

Run everything inside this directory: `tlc -config still.cfg MCCamera.tla`,
`tlc -config stack.cfg MCStack.tla`, `tlapm MCStack_proofs.tla`.

1. [Inventory](#1-inventory) 2. [Modules](#2-modules) 3. [Runs](#3-runs)
4. [Assumptions](#4-what-each-module-assumes) 5. [Proofs](#5-proofs)
6. [Only model-checked](#6-only-model-checked) 7. [Not modelled](#7-not-modelled-and-why)
8. [Plan](#8-plan) A. [Further disagreements](#a-further-disagreements-between-code-and-documentation)
B. [Further hazards](#b-further-hazards)

## 1. Inventory

| part (under `src/`) | state | operations and interactions | what is hard | correct when |
|---|---|---|---|---|
| `QCameraStateMachine` | state, API queue, event queue, semaphore, thread | callers `procAPI`, stacks `procEvt`; the thread handles one command at a time and drives `QCamera2HardwareInterface` | two queues behind one semaphore, API before events, 8 states x 40 commands, answers given later by events | each command is handled once and answered once; the state agrees with the channels |
| `QCamera2HardwareInterface` | channels, API result list, event result, focus state, deferred jobs, live snapshot thread | application calls lock, send a command, wait on a condition; deferred worker; live snapshot thread calls back into the API | calls overlap while waiting; joins and waits on the machine's thread; partial failure of multi-step operations | every call returns with its own answer; nothing streams that should not; no job is left behind |
| `QCameraCbNotifier` | command queue, data queue, snapshot counters | all threads enqueue callbacks; START and STOP by priority; reports `SNAPSHOT_DONE` synchronously | priority overtaking, flush, exit, a wait for the machine | no callback stranded, a picture's completion is reported, the thread ends |
| stream callbacks | frames in the display, in callbacks, at the encoder | one routine per kind of stream, on the stream's thread | messages switched off, a stream stopped with frames away | a buffer has one owner and comes back |
| `QCameraPostProcessor` | input, ongoing, jpeg, raw and save queues, data thread, save thread | frames in, jpeg callbacks, reprocess channel, callbacks to the notifier | late callbacks after stop, failed sessions, online and offline reprocessing | each frame delivered or released once |
| `QCameraParameters` | parameters in force, staged map, batch for the daemon | set, commit in a batch, many setters that depend on each other | refused calls that leave values staged, order of setters | daemon, state and flash agree |
| `QCameraQueue`, `QCameraCmdThread` | list, semaphores | enqueue (also at the head), flush, synchronous commands | flush against enqueue, lost synchronisation | no node lost or doubled |
| `QCameraChannel`, `QCameraStream` | channels, streams, buffers, allocation thread | add, start, stop, buffer done | start that fails half way, stop against a callback, two-step allocation | started entirely or not at all |
| `QCameraMem` | ION buffers, pool, gralloc window buffers | allocate, allocate more, pool, window dequeue and cancel | failure at any buffer | memory has one owner and is freed once |
| `QCameraThermalAdapter` | registered callbacks, open camera | init, deinit, level callbacks | a callback against close | the frame rate follows the hottest sensor |
| `QCamera2Factory`, `QCameraFlash` | flash and camera ownership per device | open, torch on and off | torch against camera open, failing ioctls | they exclude each other |
| `QCamera3HardwareInterface` | pending requests, buffers, reprocess results, in-flight count | configure, process request, metadata and buffer callbacks, flush | metadata and buffers in any order, flush in flight, metadata lost | one result per request, in frame order |
| HAL3 channels, stream, memory, postprocessor | slots, buffer definitions, six queues | request, stream callback, reprocess, encode, flush | slots reused at once, queues paired by position only | a picture gets its own frame, settings and metadata |
| `mm-camera-interface` | camera, channel and stream objects with a lock each, superbuf queue, poll and command threads | control calls, frame dispatch, mapping requests | hand-over of locks against close, pipe commands against the poll thread, matching by frame id, a start that fails | no call in a freed camera, superbufs matched and released once, all or nothing streams |
| `mm-jpeg-interface` | job queues, chained sessions, buffers | start job, abort, OMX callbacks | abort against completion | one callback per job |
| Power HAL (`hidl/power`) | profile, list of hints, handles of locks | hint and mode calls | nested boosts, release without request, refusing perfd | a lock is released once |
| other HALs, `bdAddrLoader`, shims, configuration | almost none | read and write files | little | - |

`PROJECT.json` lists the parts again with their sources and status, the
hazards with the line where each bites, and for every definition the lines it
models.

## 2. Modules

```
first HAL    CommandQueues <== QCamera2HWI  (EXTENDS QCameraStateMachine, CameraDevice)   MCCamera
             QCamera2HWI_proofs
             CommandQueues <== SmEvtThread <- SmEvtThread_proofs
             QCameraCbNotifier <- QCameraCbNotifier_proofs (and QCameraThermal)
             QCameraQueue <- QCameraPostProc; ReprocChannel; DeferredWork   \
             StreamFrames, MmJpeg, QCamera3Requests <- StreamFrames_proofs   >  MCHal <- MCHal_proofs
services     PowerHal, QCameraFlash <- PowerHal_proofs                      /
third HAL    QCamera3Requests (in MCHal); QCamera3Config, QCamera3Buffers,
             QCamera3Picture                                                          MCHal3
stack        PollThread <- MmStream, MmChannel <- MmStream_proofs   \
             MmInterface (extended), MapRequests                     >  MCStack <- MCStack_proofs
called from  MmSuperbuf, QCameraParameters, QCameraThermal,
outside      QCameraMem, FrameLayout                                                  MCTables
```

`<==` is a refinement, `<-` uses.

The first HAL, what runs around its state machine:

- **`CameraDevice`** has no variables. It gives the operations the handlers
  call on `m_parent`: a device is a record (channels, parameters in force and
  staged, focus, postprocessor, live snapshot thread) and an operation is the
  set of outcomes `[ok, dev]` it may have, failures only when `Faults`. The
  order of the C++ calls is kept by `AndThen` and `OrElse`: which steps
  already happened when one fails is what many properties are about.
- **`QCameraStateMachine`** has one operator per state, named after its
  function, split into groups of cases, with one disjunct per `case`. A
  handler's effect includes its answer: appended to the result list, put off
  to an event, or none. The API commands that do the same everywhere are one
  set, `PlainOps`.
- **`QCamera2HWI`** composes the machine with the threads around it. Callers
  issue commands and wait; `Return` takes the first result with the awaited
  event, whoever it was meant for. `pthread_cond_broadcast` wakes all waiters
  and the waiter checks the list itself, so a wake-up needs no variable. The
  flags that decide a retro picture are read by `TakePictureCall` in the
  caller, as in the code.
- **`CommandQueues`** is the abstract specification: commands are handled
  once, in order per queue, events only when no API command waits.
- **`SmEvtThread`** is the same thread one library call at a time: enqueue,
  `cam_sem_post`, `cam_sem_wait`, dequeue from the API queue, dequeue from the
  event queue, handle; and the destructor's EXIT and join.
- **`QCameraCbNotifier`** is the callback thread in the same detail, with the
  postprocessor's start and stop, notifiers that check `mActive`, enqueue and
  post in three steps, and exit.

In `QCamera2HWI` the delivery of a picture and the start and stop of snapshot
mode are atomic with the machine's handlers; what happens between is the
subject of the modules that follow:

- **`QCameraPostProc`**: the queues of the post-processor with its data and
  save threads, the state machine that starts and stops it, the channel that
  brings frames and the encoder that answers. `back` counts how often each
  frame went back to its channel. `QCameraQueue` is the queue they share, as
  values: a flushed queue is inactive until `init()`.
- **`ReprocChannel`**: whether a picture is processed again and how, the
  channel's configuration, and how frames are handed to the backend, by the
  index of a running stream (online) or by mapping them (offline).
- **`StreamFrames`**: one stream's frames from the kernel through the routine
  of its kind to the window, the callback thread or the encoder and back. Each
  start is a session with buffers of its own, so that a stale one can be told.
- **`DeferredWork`**: the sequences of steps of the preview and picture
  operations on the machine's thread against the thread that allocates the
  buffers and starts the post-processor; any step may fail where `MayFail`
  says so.
- **`QCameraParameters`**: the object is a record, a setter a function on it,
  `updateParameters()` their composition in the code's order. A run looks at
  some keys. `backend` is what the daemon was told and kept.
- **`QCameraThermal`**: the adapter, its two callbacks, and the level on its
  way through the state machine to the frame rate.
- **`QCameraMem`**: heap, stream and video memory, the pool, mapping at the
  daemon. The heap has a size and `ION_IOC_ALLOC` fails when it is used up,
  which puts the failure at every position of a request.
- **`FrameLayout`**: the offsets of a frame's planes, computed by the HAL and
  by the stack from one stream information, with the code's arithmetic.
- **`QCameraFlash`**: torch calls of the camera module, the flash units, and a
  camera that opens and closes, each ioctl failing.

The third HAL:

- **`QCamera3Requests`**: requests, metadata, buffers, reprocess results and
  flush of `QCamera3HWI.cpp`; `mMutex` makes a step of each handler, and
  `flush()`, which stops the channels without it, is several steps.
- **`QCamera3Config`**: `configureStreams()`, the first request, flush and the
  destructor, with the life of each channel and what points at it.
- **`QCamera3Buffers`**: a regular channel's slots and buffer definitions
  between the request thread, the stream's thread and a stop.
- **`QCamera3Picture`**: the picture channel's post-processor with its six
  queues, the reprocess channel and the encoder.

The stack:

- **`PollThread`**: control calls, the pipe, the thread's states and what it
  polls. `MmStream` runs one for its stream.
- **`MmStream`**: a stream with poll thread, command thread and users of its
  buffers: who has each buffer, its reference count, and how many the kernel
  holds, which decides whether the descriptor is polled.
- **`MmChannel`**: a start and a stop of all streams, undone in the code's
  order when a step fails; what the daemon has mapped; two-step allocation.
- **`MmInterface`**: the hand-over of `g_intf_lock`, `cam_lock` and `ch_lock`
  and the reference counts of camera objects. What a call does under its last
  lock is a step.
- **`MmSuperbuf`**: a bundle's superbuf queue, its frame matching, skipping and
  prepare modes, with lossy streams and API commands.
- **`MapRequests`**: a mapping request, its answer through the kernel, in time
  or late, other events, and the death of the daemon.
- **`MmJpeg`**: sessions chained for bursts, the job manager, the components'
  callbacks, abort and destroy; and what a session tells its component before
  it encodes, once per session (`PortCalls`) and per job. A call of the common
  configuration that fails is logged and forgotten, one of the job's own ends
  the job; `config` is set although the component did not come up; and
  `error_flag` makes a session unusable from then on.
- **`PowerHal`**: hints and modes with the list of hints, and `perfd`'s locks.

**The composites** `MCStack`, `MCHal`, `MCHal3` and `MCTables` put components
side by side that do not share variables. The variable `part` is chosen at the
start and says which component, in which instance, a behaviour is about; the
others stay in an initial state (where that would be many or large values,
`Empty`). A component with proofs comes in by the module of its proofs, which
adds theorems and no behaviour, so that they can be cited for the instance; the
encoder is then `DisplayFrames!Encoder`, the third HAL's requests
`DisplayFrames!Requests`, the torch `Power!Torch`, a channel `Stream!Channel`,
and `MCStack` and `MCHal` have theorems of their own. (A module of proofs about
one component may hold those of others beside it, each with constants and
variables of its own: `StreamFrames_proofs` has the three that `MCHal` takes in
four instances each.) So a composite's state graph is the disjoint union of its
components' graphs, its `Next` their disjunction under `part = ...`, and its
properties say `part = ... =>` and the component's own. A composite is used
because the components are checked for the same questions on the same bounds,
not because they interact; components that interact are in one module, or
use each other as above. `MCStack` extends `MmInterface` and takes the others
as instances: its own specification is `StackSpec`. `InstancesAssumption` states that every instance
keeps to its module's assumptions.

A definition named `Mistaken<name>`, or one whose comment begins with
`Mutant:`, is another definition with a plausible mistake (a dropped guard, a
missing reset, a wrong queue). Nothing uses it: the mutation runs put it in
the place of the original, and the property named in `PROJECT.json` must then
fail.

## 3. Runs

| run | instance | shows |
|---|---|---|
| `still` | 1 caller, still pictures, flash, window, zsl and size changes, 54 thousand states | state and channels agree in STOPPED and READY, every call returns (liveness), the composition implements `CommandQueues` |
| `video` | 1 caller, recording, live snapshots, retro pictures, failing calls, dying daemon, 2.1 million states | VIDEO streams exactly in the recording states, on every failure path |
| `callers` | 2 callers (symmetric), failing calls, flash, 1.1 million states | as many answers on the way as callers wait, for each event |
| `sm_thread` | 2 API and 2 event posters, 2 nodes each, 152 thousand states | semaphore, queues and thread agree; nodes are handled once; everything posted is handled and the destructor returns (`ThreadFinishes`); `CommandQueues` is implemented |
| `notifier` | 2 pictures of 2 callbacks, 1 other callback, 237 thousand states | no stranded callback, empty queue after exit, the thread's waits and the close end (`WaitsEnd`) |
| `stack` | poll thread; a stream of 2 buffers, bundled; 3 threads on a camera opened twice; 3 streams and 2 failures; two-step allocation; 2 threads with 3 mapping requests, any of which may time out. 107 thousand states | polling follows what was asked; a buffer is with the kernel or with users, and counted; no call in a freed camera or the wrong channel; a failed start is undone; answers are taken once and in order, and are a request's own unless one was given up; blocking calls return |
| `hal` | 24 instances: post-processor (zsl, regular, raw, saved), frames of four kinds of stream, deferred work with failures, reprocessing offline and online, the encoder with two buffers, one buffer and one engine, jobs with and without thumbnails; up to 4 requests of the third HAL with lost and late metadata, flush, blocked callers, reprocess requests; the power service with hints of all kinds and with a refusing perfd; the torch, with failures. 462 thousand states | each frame is given back once, a frame has one owner, deferred jobs are waited for, jobs keep apart, in-flight counts, results in order and buffers back once, locks are as listed, a torch and a camera never share a flash; begun work ends |
| `hal3` | 8 instances: lists of streams with failures; 3 buffers in 3 slots; 3 or 4 pictures, flushed or mixed with inputs. 118 thousand states | configurations without leftovers, slots and mappings agree, a result has its request's number, the right settings for each picture; every buffer and picture comes back |
| `tables` | 13 instances: superbuf queues of 2 streams, 7 subsets of parameters, thermal, memory, layout. 163 thousand states | see the invariants of `MCTables`: no buffer lost, daemon and parameters agree, memory owned once, layouts equal |
| `restart` | the restart property on | **violation**: PREVIEW_STOPPED with the preview streaming |
| `staged_params` | zsl and hint changed while recording | **violation**: PREVIEW_STOPPED with the ZSL channel streaming |
| `snapshot_mode` | 2 pictures | **violation**: a new picture without snapshot mode |

The three violations are disagreements between the code and its own comments;
`findings` in `PROJECT.json` quotes both and tells the sequence. They are the
ones of the first HAL's core. Sixty more that the other modules show are in
appendix A with the instance that shows each. Note that
`still` changes zsl in every state too: without recording, the staged value is
only lost track of by SET_PARAMS in PIC_TAKING, and cancelling then leaves the
capture channel, not a preview channel, behind.

**Bounds.** All are in guards or constants, and named. In `QCamera2HWI`
`MaxQueue`, `MaxEvts`, `MaxResults` and `MaxJobs` limit commands queued when
one more is sent, events when the stack posts one, answers nobody took when a
call is made and deferred jobs. One caller has at most one call and the HAL
itself adds at most one command, so 1 leaves room for a call to meet the
command the postprocessor or a failing live snapshot posts; the guard is on
making the call, so the queue grows past it. One event in the queue, one in
the machine's hands and unlimited events posted by the HAL itself
(`PostSnapshotDone`, the end of a longshot) let late events meet every state.
`MaxLive = 1` is the code's one live snapshot thread handle. `MaxPosts = 2`
lets a thread's second node overtake its first if anything can.
`MaxPictures = 2` lets one picture's leftovers meet the next.

In the composites: two or three of everything that can be confused with its
neighbour (buffers, sessions, pictures, requests, threads), one more than a
limit where the limit matters (`MaxInflight`, the engine's job count, the
heap). `MaxOpens = 2` lets a camera be opened again after a close, with the
old handle still in a caller's hands. `MaxFaults = 2` lets a failure meet the
undoing of another. `MaxFrames` counts what the sensor delivers: 3 with one
lost leaves a match behind a gap. `MaxPipe` bounds the commands in a poll
thread's pipe, a blocking write in the code. `MaxJobs = 6` stands for the 25
slots of `mDeffOngoingJobs`; an operation has at most four jobs. Sizes in
`FrameLayout` are chosen around the alignments of the code (62 is below one,
176 x 146 is not a multiple of any).
In each bounded run the interesting cases do occur: the mutants and the
violations need them.

**Deadlock** is not checked: each system really may stop. The
application may stop calling, a closed machine or released thread has nothing
to do, and in the composition `MaxResults` forbids calls once answers that
nobody awaits have gathered (STOP_CAPTURE_CHANNEL answers into the list at
QCameraStateMachine.cpp:1782). What must not stop is stated as liveness
instead: `CallsReturn` (of `still`), `BlockingCallsReturn` (of `stack`), `ThreadFinishes`,
`WaitsEnd`, `WorkEnds`, `AllComesBack`. The components of `MCTables` have
calls that run to their end in a step; liveness would say nothing there.

**Fairness.** Weak fairness for threads that have work: the machine, callers
whose answer is there, the deferred worker, live snapshot threads, the
notifier, posters between enqueue and post, joins, poll and command threads,
the post-processor's threads, the job manager and the encoder's components.
Each is a thread that runs when it is not waiting. Nothing makes the
application call, a frame arrive, a lens report or the daemon fail. The parts
outside that must answer are assumed to: the camera stack answers
`prepare_snapshot` (`PrepareDone`) while a channel streams, with strong
fairness, only because the bound `MaxEvts`, which the code does not have, may
disable it for a while; a living daemon answers mapping requests (`DaemonMaps`;
and the wait of five seconds ends, whatever it does); the video encoder returns the
frames it was given; in the instance `callers` of `QCamera3Requests` metadata
and buffers come, and the sensor and the reprocess backend deliver in `picture`. The components
state this as `Fairness`; a composite's `Spec` repeats it with `part = ... /\`
in front, for the instances whose liveness it checks.
In the composites one formula stands for several components' leads-to
properties: `Waits(k)`/`Served(k)`, `Begun(k)`/`Ended(k)` and `Asks(k)`/`Gets(k)`
are disjunctions by `part`, where `k` names the thread, frame, job or call
that must not be confused with another of its kind.

## 4. What each module assumes

Beyond the header of each module:

- `QCamera3Requests`: `ResultsInOrder` is checked without lost metadata, since
  the loop at QCamera3HWI.cpp:1940 sends reprocess results only behind it.
- `QCameraParameters`: `FacesRight` is checked where no batch is refused.
- `QCamera3Config`: a failing initialisation of the metadata channel is fatal,
  so that only the destructor follows; `RetryWorks` is checked without support
  and raw dump channels.
- `QCamera3Buffers`: no frame is ready before the `request()` that queued its
  buffer has noted its number (`SlowSensor`; appendix A says what happens
  otherwise); requests and flush do not overlap in a channel.
- `QCamera3Picture`: an input stream has at most one request in flight; the
  reprocess channel starts; the framework's YUV is not encoded directly
  (`encodeFWKData`, which nothing reaches); `jpegEvtHandle` is a step.
- `QCameraMem`: not secure memory; all streams share a list of the pool; the
  HAL waits for deferred jobs before it deletes streams; an allocation is a
  step, so the pool's lock is not interleaved inside one.
- `StreamFrames`: addresses are new in each session; one message type.
- `PowerHal`: one binder thread (as `main()` configures), fresh handles, and
  perfd's library is there.
- `QCameraFlash`: the HAL3 module; the camera service makes one call at a time
  and opens a camera once.
- `DeferredWork`: a failing `addStreamToChannel` means that stream information
  could not be allocated; cancels come early in the failing instance only; one
  frame per picture; a fault (a NULL or freed pointer used) ends the program.
- `ReprocChannel`: the backend works on requests in order; `WorksOnItsFrame`
  leaves out the time between unmapping and stopping in STOP_DATA_PROC;
  `MinPP` is within EFFECT, SHARPNESS and CROP; `processAPI` in
  `stopCapture` is a step.
- `QCameraThermal`: one camera is open at a time, unregistering a client waits
  for its running callback, handles are positive, `init()` is a step.
- `MmStream`: users return a buffer before the stream is fully stopped or
  never, as `mm_camera_qbuf()` assumes.
- `MmInterface`: `Overlap` allows opens to overlap. The camera service
  serialises them, so the run has `FALSE`. `CallsFindLivingCameras` and
  `ChannelsFound` hold for both, `InterfaceIsSound` needs `~Overlap`.
- `MapRequests`: nothing of the daemon's pace. A wait may end at any moment
  (`TimedOut`), and the answer it waited for may come later, or never. What the
  answers do keep then is `AnswersAreOwn`; the comment that sending and answer
  are one operation fails (appendix A).

## 5. Proofs

`SmEvtThread_proofs` proves, for any sets of posters, any number of nodes and
any interleaving:

- `TypeCorrect`, `WakeupsCorrect`, `AlwaysWokenForSomething`,
  `NodesHandledOnce`, `NoApiCommandAbandoned`: the run's invariants;
- `ImplementsQueues`: `Spec => QueuesSpec`, the refinement of `CommandQueues`.

The argument: `WakeupsMatchNodes` counts nodes in the queues against wake-ups
given, being given (`posting`, `Leaving`) and taken (`Fetching`). It is not
inductive alone: a thread that finds no API node must find an event
(`NeverWokenForNothing`), so both, with the finiteness of `posting`, make
`WakeupInv`. The refinement maps a thread that found no API node to one that
already took the head of the event queue, which exists by the same invariant;
`HandInv` says a node is in hand exactly while it is handled. `NodesHandledOnce`
counts a poster's nodes (`Balance`) with lemmas on `CountIn` for append and
tail. `NoApiCommandAbandoned` adds `ExitInv`: EXIT is last in the API queue,
and once taken nothing is left there. The only assumption is
`PostersAssumption`: the two kinds of posters are different, and neither is the
EXIT node; the destructor runs when nobody is posting, which is how
`closeCamera` uses it and a guard of `PostExit`.

`QCameraCbNotifier_proofs` proves, for any numbers of pictures and callbacks,
`FlushLeavesNothing` (`NothingLeftAfterExit`, inductive as it stands: only a
refused enqueue and a taken EXIT matter) and `SyncHasOneAnswer`: the thread
blocks in `processSyncEvt()` exactly as long as one `SNAPSHOT_DONE` is on its
way, so no second one is posted over it. `NothingStranded`
(`NoCallbackStranded`) is inductive given the types (`TypeCorrect`): it compares
the length of one queue with the count of one kind of command in another, so
that its proof rests on what an append, a tail, an item put in front and
`flushNodes()` do to a count (`CountAppend`, `CountTail`, `CountFront`,
`FlushedQueue`).

`QCamera2HWI_proofs` proves, for any finite set of callers, any calls they may
make, every handler of every state and every failure:

- `TypeCorrect` (`TypeOK`) and `VideoCorrect` (`VideoIffRecording`): the video
  channel streams exactly in the two recording states;
- `ImplementsCommandQueues`: `Spec => QueuesSpec`, the refinement that the run
  `still` checks;
- `AnswersMatch` (`AnswersMatchCalls`), where no picture is retro-active
  (`~RetroSnapshots`): an answer taken from the list may then only come from a
  command of the same event;
- `StoppedIsStopped` (`StoppedMeansStopped`) and `ReadyIsWaiting`
  (`ReadyMeansWaiting`), with steady settings (`Steady`).

The argument has three layers, so that the forty commands in eight states are
looked at once. First, each operation of `CameraDevice` is shown to keep the
video channel's state (`Keeps`), not to start it (`Drops`) or to leave it
stopped (`Stops`), whatever outcome it has; chains of operations
(`AndThen`, `OrElse`) inherit this. Second, each handler of each state is shown
to keep one contract (`Contract`): it moves the state and the video channel
together, and appends one answer to the list if its command owes one, none if
it does not, or puts it off to PREPARE_SNAPSHOT's event. Third, the invariants
of the composition follow from the contract alone. For `AnswersMatch` they
count, event by event, the callers that wait against what is under way for
them: nodes in the API queue, the command in hand, answers in the list and
PREPARE_SNAPSHOT while its state lasts (`InProgress`). A step changes both
sides alike (`Balanced`); only a cancelled picture may be answered more often
than waited for, which the property allows. `IsFiniteSet(Clients)` is part of
`HWIAssumption`, since callers are counted.

`Steady` says that no preview is restarted behind a picture, and that either
the application never changes the camera's mode (`Fixed`) or it never records
and no call fails. The run `still` is of the second kind, with every change of
mode; `callers` and `video` have settings of the first, with every failure.
Outside of it the property is false: the run `restart` is without the first
part, `staged_params` records while the mode changes, and if a call can fail in
the run `still`, TLC finds a change of mode half done and, at the end,
PREVIEW_STOPPED with the ZSL channel streaming. The inductive invariant
(`WindowInv`) adds to the property why it holds. A picture without zero shutter
lag deletes the PREVIEW channel only, so the ZSL channel must stream in its mode
only, and the mode staged must be the one in force, or a commit on the way to
something else would change it under the channel (`Settled`); and the states
that promise a quiet window are three, PIC_TAKING with the other two (`Off`),
since a cancelled picture leads from it to PREVIEW_STOPPED without stopping
anything of the preview. The contract carries this too (`Passes`), so that the
last layer needs no handler either.

Of the stack, `MmStream_proofs` proves what a stream, its poll thread and a
channel keep, and `MCStack_proofs` what the interface and the requests to the
daemon keep; in its last part it takes them together, and the five invariants of
the run `stack` are theorems of its specification: `StackPolls`
(`PollingFollows`), `StackStreams` (`StreamSound`), `StackChannels`
(`ChannelSound`), `StackInterface` (`InterfaceSound`, with `~Overlap`) and
`StackAnswers` (`AnswersAreOwn`). A step of the whole is a step of
the component that `part` names and leaves the others alone, so each follows
from its component's invariant; the numbers of threads, buffers, requests and
the like stay any that the assumptions allow, those that the instances fix
(three streams of a channel) are as in the run.

Of the interface, for any threads, slots, numbers of opens, channels and
references, overlapping opens included:

- `CallsFindLivingCameras` (`NoUseAfterFree`): no call works on a camera object
  a close has freed. `UseInv` follows the hand-over: a call that waits for
  `cam_lock` holds `g_intf_lock`, so its object is still the slot's, or is its
  own to close (`InterfaceLock`); the slot's object is alive and counts its
  users (`SlotAlive`); an object being opened is nobody else's
  (`OpenersAlone`); who is behind `cam_lock` holds it or has handed over to
  `ch_lock` (`CameraLock`); and a close that frees has waited for the lock
  with the object out of the slot, so nobody can be behind it (`CloserWaits`).
  None of these is inductive without the others.
- `ChannelsFound` (`ActsOnItsChannel`): the channel a call found under
  `cam_lock` is the one its state machine runs on, since only the call holding
  both locks deletes it (`ControlAlone`, `OnItsChannel`, together `ChannelInv`).
- `InterfaceIsSound` (`InterfaceSound`, as the run checks it): the two above,
  `TypeOK`, and that an object lives exactly while users have it open or a call
  is on its way in or out with it, and counts its users
  (`ReferencesCounted`). `Counted` says in addition that an opener finds the
  slot empty and has no other opener beside it, which the hand-over from
  `Publish` to the users needs. `HandlesBounded` counts the calls on their way
  to add a channel (`Adding`) with the handles given out, so that no handle is
  past the bound. This theorem needs `~Overlap`: two opens that both find the
  slot empty create two objects and only one stays in it. The code leaves the
  order of opens to the camera service.

Assumption: `InterfaceAssumption` (numbers are numbers, `NoOne` is no thread,
a camera may be opened at all).

Of the requests, for any threads, callbacks and requests, waits that may end
at any moment, a daemon that may be late or die between any two steps, and other
events among the answers, assuming only `RequestsAssumption`:

- `NoAnswerMistaken` (`AnswersInOrder`, `BelievedIsDone`): answers carry no
  number, so a request takes the one that is there. It may be another's; but no
  answer is taken twice or out of order, and none is further behind its request
  than requests were given up before it. So a request before which none was
  given up has its own, and what it believes is what the daemon did.
- `OneRequestAtATime` (`OneRequest`): what `evt_rcvd`, the kernel and the socket
  hold is in order, none twice, and is of the latest requests only: one, and one
  more for each that was given up.
- `RequestsHaveTheirAnswers` (`AnswersAreOwn`): all of it, with the types.

The invariant `RequestInv` says of each request or answer on its way that it is
later than every answer taken so far (`Fresh`), that a report says what the
daemon did, and that the lag counts from the next request while nobody holds
`msg_lock`: a new request then makes up for the one that returned. The history
variables `taken` and `givenUp` are there for these statements only.

`MmStream_proofs` has three parts. Of a poll thread it proves, for a pipe of any
length and any number of calls of other threads, with no assumption:

- `WaitsForOwnCommand` (`SyncWaitsForItsOwn`): the one condition all commands
  share releases a waiting call only when its own command was taken.
  `WaitMatchesPipe` says which single command in the pipe is waited for
  (`Sole`); asynchronous updates may stand before and behind it.
- `PollingFollowsEntries` (`PollFdsFollowEntries`): what the thread polls is
  what is registered, or an update in the pipe will make it so (`PollsEntries`).

Of a stream it proves, for any finite set of buffers, bundled or not, with or
without a callback:

- `TypeCorrect` (`TypeOK`), `ReferencesHaveHolders` (`RefsHaveHolders`),
  `KernelIsAlone` (`KernelOwnsAlone`), `PolledWhenQueued` (`PolledWhileQueued`)
  and `QuietWhenRemoved` (`QuietAfterStep1`), the five conjuncts of
  `StreamSound`;
- `StreamKeepsProtocol`: each step of the stream is one of `PollThread` or
  leaves its variables alone, so that the first part applies to the thread of a
  stream, which was launched before.

Of a channel it proves, for any number of streams, with or without a metadata
stream, whatever may fail and however often: `StreamsStartTogether`
(`AllOrNone`, `MetaFirstAndLast`), and `ChannelIsSound` (`ChannelSound`) unless
the queueing of a stream's first buffers fails half way (`reg`), which leaves
buffers with the kernel (appendix A). `ChannelInv` says how far each stream is
at each place of the control thread: the streams before the one in hand are
through, those behind it untouched (`Progress`); what each stream has in the
kernel, the daemon and the HAL's memory follows from how far it is (`Has`,
`Queued`), its thread from the place (`ThreadsRun`).

`StreamInv` is what makes them inductive, one lemma per action. `Owned` says of
one buffer who has it: its count is the sum of user, superbuf queue, waiting
callback, running callback and a frame about to be handed out (`Due`), each at
most once, and the kernel has it exactly if there is none. That a user has a
buffer, or is on its way to give it back after it looked at the state, counts
alike (`UserHas`). `Counted` says what `queued_buffer_count` counts, which is
not what the kernel has: a frame is dequeued first and counted later, and
another thread may return a buffer in between; it is also why the count
survives STREAMOFF, which empties the kernel, until the buffers are
unregistered. `Clean` says that a stream that was stopped leaves nothing behind
for its next start, unless a buffer returned during the stop added the
descriptor again (`readded`). `Quiet` explains step 1 of a stop: the command it
waits for is the last in the pipe, since whoever adds one behind it has also set
`readded`; and the only one waited for, so when the control thread goes on the
pipe is empty, the descriptor gone and the thread out of the callback
(`Silent`). `StreamAssumption`: finitely many buffers, a stream that is bundled
or has a callback, and names of buffers that mean nothing else.

`QCameraCbNotifier_proofs` also holds the thermal adapter's, under
`ThermalAssumption`, with `init()` failing at every step it may fail:
`ClosedCamerasLeftAlone` (`NoCallAfterClose`) and
`LibraryStays` (`LibraryThere`). The invariant `AdapterInv` says that what the
client has is what the adapter will unregister, for the open camera
(`ClientFollowsAdapter`), which a failed second registration must not break;
and that a running callback is one the client still has
(`RunningIsRegistered`), which needs the assumption of section 4 that
unregistering waits for it.

Of what the run `hal` checks, four invariants are theorems of `MCHal_proofs`:
`HalFrames` (`FramesSound`), `HalJpeg` (`JpegSound`), `HalRequests`
(`RequestsSound`), `HalHints` (`HintsSound`); so are two parts of `StepsSound`,
that a job is answered once (`HalAnswersOnce`) and that a flush answers every
request (`HalFlushAnswers`). Each rests on invariants proved elsewhere for any
values of the constants:

- **Frames** (`StreamFrames_proofs`): for any number of buffers, sessions and
  callbacks, each kind of stream, `FramesHaveOneHolder` (`OneHolder`,
  `FlagAgrees`, `WindowWhole`), whatever the window refuses, and
  `FramesAreSound` (`FramesSound`) where it refuses no buffer that is queued or
  asked for and a video stream's message stays enabled; without these, buffers
  are stranded (appendix A). `FramesInv` names the six places where a buffer can
  be, says that it is in one at most (`Apart`) and, once, in the queues
  (`Places`), that frames of an earlier session are none of this session's
  (`Sessions`), and whose the window and `mLocalFlag` say a buffer is
  (`Shared`, `Share`); `Found` says that it is somewhere, and is what the two
  conditions are for.
- **The encoder** (`StreamFrames_proofs`, `Encoder`): for any number of sessions,
  output buffers and jobs, an engine of any width and any failures. `EncoderInv`
  follows sessions from the queue of free ones through the manager's hands
  (`Held`) and the component's work (`Busy`) back: one that is taken has a buffer
  and a job that are in no queue (`Has`) and not another's (`Alone`), and its job
  is listed as ongoing or given up by the client (`Listed`). `Prepared` says what
  a session was told before it encodes, `Stopping` that only the session whose
  component the client waits for is half aborted and that a close leaves none
  behind at work, `Unanswered` that a job which can still be answered was not,
  and that its client is there. Proving it corrected `WithinEngine`: it used to
  say that no more sessions are busy than the engine takes, which holds in the
  run's instance of two jobs and is false for three on an engine for one. An
  abort goes down the chain of sessions and ends at the first one that an
  earlier abort took down already; a session behind it keeps encoding its job,
  which is out of `ongoing_job_q`, so that the manager begins another beside it.
  What is true, and now stated, is that the jobs that are still wanted are listed
  and are no more than the engine takes.
- **The third HAL's requests** (`StreamFrames_proofs`, `Requests`): for any
  number of frames, kinds of request and limits in flight, whatever metadata is
  lost, buffers are dropped, and waits end. `RequestsInv` holds of every step of
  `handleMetadataWithLock()`, `handleBufferWithLock()`, `processCaptureRequest()`
  and `flush()`. `RequestsCounted` says that the counter is the length of the
  list while no flush is under way (a request given during one is listed and not
  counted; the end of the flush clears both); `BufferPlaces` where a buffer is: with the backend, with its request
  after it was filled, with a reprocess that is held back, or with the framework,
  and once there. `ResultsInOrder` needs more (`Ahead`): a result is sent for the
  oldest of the list and, behind it, for the one reprocess request that was held
  back by it. `HeldAlone` shows that then no other request goes in the same call,
  since every request of the camera's still has metadata of its own to come
  (`MetaToCome`) and one reprocess is pending at a time (`OneInput`); where
  metadata is lost beside reprocess requests this fails (`Paired` excludes it; see
  section 4). A flush may begin with metadata still on its way, so `MetaToCome`
  allows for requests that came after all that is left of it. `NothingForgotten`,
  for `FlushAnswersAll`, says that each request is listed or answered and each
  buffer pending or back; it holds without reprocess requests, whose buffers a
  flush forgets (appendix A).
- **The power service** (`PowerHal_proofs`): for any durations and any number of
  locks, `LocksAreKnown` (`ListMatchesLocks`, `ProfileHeld`, `LaunchKnown`),
  whichever acquisitions fail; and, where perfd refuses nothing, the governor
  stays and no hint comes twice (`Orderly`), `LocksFollowDisplay` (`OneOfEach`,
  `NoCoresWhenOff`, `NoDarkTuningWhenOn`). `PowerInv` says lock by lock which
  entry of the list, which profile, which launch and which state of the display
  it stands for.
- **The torch** (`PowerHal_proofs`, `Torch`): `CameraHasFlashAlone` (`Exclusive`)
  needs `LED_LOW` not to fail: `reserveFlashForCamera()` leaves a unit that is
  not lit as it is, so a torch that holds the node unlit would share it
  (`NodeMeansOn`). `FrameworkKnows` (`BusyMeansOpen` and `StatusRight`) needs
  `camera_open()` not to fail, which leaves the flash reserved (`ToldTruth`).
  Every other ioctl and call may fail in both; appendix A shows `Exclusive` and
  `BusyMeansOpen` violated without. The proof first says what each operation
  makes of one unit (`Lit`, `Off`, `Reserved`, `Released`), then that a step
  touches one unit (`OneUnit`).

The removal of a job from a queue and the like are proved from the definitions of
the community modules: their recursive operators are out of reach, so the models
with proofs use those that are not (`RemoveFirst`, `SubSeq`, comprehensions).

## 6. Only model-checked

Liveness is out of the proof system's reach, as is `ENABLED`: `CallsReturn`,
`ThreadFinishes`, `WaitsEnd`, `BlockingCallsReturn`, `WorkEnds` and
`AllComesBack` stay with TLC. Of the invariants, these do:

- `PostProcessingSound` (`QCameraPostProc`, `ReprocChannel`) and `PictureSound`
  (`QCamera3Picture`): frames are counted over six queues and their parts are
  matched by position;
- `DeferredSound` (`DeferredWork`): an invariant would have to say what holds
  before each of the steps of the operations, some forty;
- `SuperbufsSound` (`MmSuperbuf`) and `SettingsSound` (`QCameraParameters`): they
  depend on what a fold over frames or over setters computes, which is induction
  over a sequence. The thermal adapter's part of `SettingsSound` is proved but
  for `RangeFollowsLevel` and `CooledDown`;
- `StreamsSound`, `MemorySound` (`QCamera3Config`, `QCamera3Buffers`,
  `QCameraMem`, `FrameLayout`): not attempted;
- of the action properties, `StepsSound` but for the encoder's and the requests'
  parts.

## 7. Not modelled, and why

- The HAL1 wrapper forwards calls; the thermal, light, vibrator, health and
  dumpstate HALs read and write one file per call; `bdAddrLoader`, the shims and
  configuration have no state to speak of.
- `mm-image-codec`: a table of OMX components, one call at a time.
- The decoder of `mm-jpeg-interface`: the encoder's structure, unused here.
- Contents: Exif, crop and rotation arithmetic, translation of HAL3 settings
  and metadata, static information, the settings that are one table lookup.
- Face, histogram, zoom and scene events: they change nothing the other
  handlers read. HDR, exposure and focus bracketing of one picture are in
  `MmSuperbuf` and `ReprocChannel` as numbers of frames.
- What `openCamera()` and `closeCamera()` do beyond the threads, the thermal
  adapter and the flash.
- Face registration is in the machine, without an application that calls it,
  and its memory in `ReprocChannel`.
- Cache operations, secure memory, sockets below a message, closed libraries.

## 8. Plan

1. (done) state machine, device, callers, command thread, notifier.
2. (done) the threads behind it; the third HAL's requests, streams and
   pictures; `mm-camera-interface`, `mm-jpeg-interface`; power, thermal, torch.
3. (done) proofs of the command thread, the composed first HAL (type, video,
   answers, refinement, quiet windows), the notifier, the thermal adapter; of all
   invariants of the stack; of the frames, the encoder, the third HAL's requests,
   the power service and the torch, as the run `hal` has them.
4. Next: an abstract specification of HAL3 requests ("one result per request, in
   order") refined by `QCamera3Requests`; the invariants of section 6.
5. The other HAL3 channels (video, raw, metadata), opening and closing a
   camera, the decoder, and the hazards of appendix B without a property.

## A. Further disagreements between code and documentation

Each of these was met while modelling: TLC finds the property violated by what
the code does, in the instance given (the module's `Spec` unless `FairSpec` is
named, one property at a time). The properties stay in their modules, under
their names; where the same name is checked by a run, the run's instance leaves
out the case shown here, as section 4 says.

**PollThread** (with `MaxPipe = 2`)

- `ReleaseStopsThread`, mm_camera_thread.c:530: mm_channel_release() says "stop data poll thread"
  (mm_camera_channel.c:865) and calls mm_camera_poll_thread_release(), which returns at once when
  the state is MM_CAMERA_POLL_TASK_STATE_STOPPED. A new thread wakes its creator in
  mm_camera_poll_sig_done() (mm_camera_thread.c:350) before it sets its state to POLL (351): a
  channel deleted at once after it was added finds STOPPED (530), and the thread then enters its
  loop, is never told to exit and never joined, and its pipe is not closed.

**MmStream** (with `Buffers = {b1}, Bundled = FALSE, HasCb = TRUE, InitiallyHeld = {}, MaxPipe = 8`)

- `StoppedNotPolled`, mm_camera_stream.c:1171: mm_stream_streamoff() says "step1: remove fd from
  data poll thread" (mm_camera_stream.c:904) before "step2: stream off" (918). When all buffers are
  with the users the descriptor is already gone and step 1 only waits for the pipe; a callback still
  running on the stream's command thread, which is joined only after step 2 (755), then ends in
  mm_stream_buf_done(), mm_stream_qbuf() counts the first queued buffer and adds the descriptor
  again (1171-1178). Nothing deletes it: queued_buffer_count is reset only by the next
  mm_stream_reg_buf(), and the poll thread polls a stream that is off, or whose descriptor
  mm_stream_release() closes.

**MmInterface** (with `Threads = {t1, t2}, Slots = {1}, Overlap = TRUE, MaxOpens = 2, MaxChannels = 1, MaxRefs = 2`)

- `OpenStaysKnown`, mm_camera_interface.c:1692: camera_open() says "opened already" and "Add
  reference" (mm_camera_interface.c:1656-1658) for a camera that is open, and that it returns a "ptr
  to a virtual table containing camera handle and operation table" (1640). The slot is set only
  after mm_camera_open(), with g_intf_lock released in between (1684), so a second open of the same
  camera does not see the first and makes an object of its own; when it fails after the first
  succeeded, line 1692 clears the slot the first one set (and when it succeeds, 1699 replaces it),
  and every later call with the first handle, its close included, finds no camera.

**MmChannel** (with `N = 2, Meta = 1, First = 1, All = 2, HasCb = TRUE, MaxFaults = 1`)

- `StartUnregisters` (`Dyn = {}, FaultKinds = {"reg"}`), mm_camera_channel.c:1169:
  mm_channel_start() says "error handling" and "unreg buf" (mm_camera_channel.c:1160, 1169) and
  sends the streams STOP, UNREG_BUF and PUT_BUF. When mm_stream_reg_buf() failed after REQBUFS and
  some VIDIOC_QBUF, the stream is still BUFFED, whose state function does not know UNREG_BUF
  (mm_camera_stream.c:591-621): only PUT_BUF has an effect, and the buffers it unmaps and frees stay
  queued to the kernel, with the stream's descriptor in the poll thread.
- `StartReturns` (`Dyn = {2}, FaultKinds = {"on"}`), QCameraStream.cpp:1204: QCameraChannel::start()
  says it returns "NO_ERROR -- success, none-zero failure code" (QCameraChannel.cpp:250-252). In ZSL
  the snapshot stream allocates in two steps: getBufs() starts BufAllocRoutine, which waits until
  cond_signal() is called (QCameraStream.cpp:1124), and QCameraChannel::start() calls that only when
  start_channel() succeeded (307-311). When a later operation of the start fails, mm_channel_start()
  puts the buffers back, putBufs() joins that thread (1204), and the start never returns, with
  ch_lock held.

**MapRequests** (with `Threads = {t1, t2}, Callbacks = {c1}, MaxRequests = 3`)

- `SendAndResponseAreOne`, mm_camera.c:1597: mm_camera_util_sendmsg() says "sendmsg until reposonse
  back is deemed as one operation" (mm_camera.c:1641). A request that timed out leaves its answer
  outstanding; mm_camera_event_notify() stores it whenever it comes (170), evt_rcvd is not cleared
  before the next message is sent, the answer names no request, and the next wait (1597) takes it: a
  buffer is believed mapped that the daemon refused or has not looked at.

**FrameLayout** (with `Widths = {0, 62, 176}, Heights = {2, 146}, Padding = [width |-> 32, height |-> 32, plane |-> 4096], NumBufs = 2`)

- `PlanesOfTheBuffer`, QCameraMem.cpp:219: getBufDef says of its third parameter "index of the
  buffer" (HAL/QCameraMem.cpp:194), and plane 0 names mMemInfo[index].fd; the planes after it name
  mMemInfo[i].fd, i the number of the plane, so plane 1 of every buffer names buffer 1's descriptor,
  and with one buffer a descriptor that was never opened.

**MmJpeg** (with `NumSessions = 2, NumDstBufs = 2, MaxOngoing = 2, MaxJobs = 3`)

- `AbortIsFinal` (`Faults = {"encode"}, OnlyWhenStopping = TRUE`), mm_jpeg.c:1176:
  mm_jpeg_session_abort() returns at once when the head session was left in the state of an earlier
  abort, without aborting the session that does the job: abort_job() has returned and the job is
  called back later; mm_jpeg_interface.h:264 says "abort a job -- sync call".
- `AbortsOneJob` (`Faults = {}, OnlyWhenStopping = FALSE`), mm_jpeg.c:1212: mm_jpeg_session_abort()
  goes on through next_session, so that aborting one job stops the components of the others, which
  are never answered; mm_jpeg_interface.h:264 says "abort a job -- sync call".
- `CreatedMeansCreated` (`Faults = {"create"}, OnlyWhenStopping = TRUE`), mm_jpeg.c:2154:
  mm_jpeg_create_session() goes to its error exit with the 0 of the last queue call when
  mm_jpeg_session_create() fails; mm_jpeg.c:2035 says "0 for success else failure".

**QCameraPostProc** (with `Zsl = TRUE, Reprocess = FALSE, Regular = FALSE, Raw = FALSE, SaveProc = FALSE, Faults = {"reproc", "session", "encode", "reprocess", "jpeg"}, MaxFrames = 2, MaxTakes = 2`)

- `FramesTaken`, QCameraPostProc.cpp:638: processData() does not look at what enqueue() returns: a
  frame that comes while the queues are flushed is refused, belongs to nobody and is never given
  back, yet NO_ERROR is returned; QCameraPostProc.cpp:608 says "enqueue data into dataProc thread".
- `AnsweredReleased`, QCameraPostProc.cpp:1740: The job is already queued and begun when
  encodeData() stores its id, so an answer processed in between matches no job and its frames stay
  until stop(); QCameraPostProc.cpp:749 says "Release jpeg job data".

**QCamera3Requests** (with `MaxInflight = 3, Waits5s = FALSE, MaxFrames = 3`)

- `FlushAnswersAll` (`Kinds = {"preview", "reprocess"}, MinInflight = 3, MetaLost = FALSE, Drops =
  FALSE, Flushes = TRUE`), QCamera3HWI.cpp:2814: flush() clears mPendingReprocessResultList; the
  output buffer of an entry left mPendingBuffersMap when it came (2060), so it is neither returned
  nor is its request answered, although a comment says "Go through the pending requests info and
  send error request to framework" (HAL3/QCamera3HWI.cpp:2768) and only the buffers map is gone
  through.
- `AnsweredNotInError` (`Kinds = {"preview", "still"}, MinInflight = 2, MetaLost = FALSE, Drops =
  FALSE, Flushes = TRUE`), QCamera3HWI.cpp:2677: flush() takes the oldest pending frame number from
  begin() of a list that may be empty; with whatever it reads there, buffers whose metadata was sent
  may go to the second half and their frames get ERROR_REQUEST, where a comment says "Send Error
  notify to frameworks for each buffer for which metadata buffer is already sent"
  (HAL3/QCamera3HWI.cpp:2710).
- `DummyForLost` (`Kinds = {"preview", "reprocess"}, MinInflight = 3, MetaLost = FALSE, Drops =
  FALSE, Flushes = FALSE`), QCamera3HWI.cpp:1771: Metadata answers every request up to its frame,
  the reprocess requests (which get no metadata) too: with an empty result and without their buffer,
  where a comment says "Send empty metadata with already filled buffers for dropped metadata"
  (HAL3/QCamera3HWI.cpp:1813).
- `DroppedMeansBad` (`Kinds = {"preview"}, MinInflight = 3, MetaLost = TRUE, Drops = TRUE, Flushes =
  FALSE`), QCamera3HWI.cpp:1897: The drop list is compared with the frame of the metadata, not of
  the request being answered, so the buffer of an earlier request the framework was told is dropped
  goes back with its good status, where a comment says "Check whether any stream buffer
  corresponding to this is dropped or not If dropped, then send the ERROR_BUFFER for the
  corresponding stream" (HAL3/QCamera3HWI.cpp:1783).

**QCameraParameters** (with `Missing = {}, Faults = FALSE, Commits = {}, HdrKind = "none"`)

- `LedRight` (`Keys = {"flash", "zoom"}, BadValues = TRUE, Repeats = FALSE`),
  QCameraParameters.cpp:6557: updateFlash() remembers the new value in mFlashDaemonValue when it
  stages it; a setter that failed earlier in the update makes the caller skip the commit, and from
  then on the value is taken for sent, where the header says "restores client flash configuration or
  disables flash" (HAL/QCameraParameters.cpp:6515).
- `RepeatIsQuiet` (`Keys = {"rdi", "zoom"}, BadValues = FALSE, Repeats = TRUE`),
  QCameraParameters.cpp:3521: A value equal to the stored one counts as not given and the
  property's, "disable" by default, takes its place: setting the same parameters again undoes the
  setting, where the header says "set Rdi mode from user setting" (HAL/QCameraParameters.cpp:3501).
- `RepeatIsQuiet` (`Keys = {"frameRate", "fpsRange"}, BadValues = FALSE, Repeats = TRUE`),
  QCameraParameters.cpp:1706: m_bFixedFrameRateSet (1883) stays set when the update changes the
  range too, and at the next update with the same range replaces it by the rate, where the header
  says "set preview FPS range from user setting" (HAL/QCameraParameters.cpp:1676).
- `NoSilentFormat` (`Keys = {"previewFormat", "zoom"}, BadValues = FALSE, Repeats = FALSE`),
  QCameraParameters.cpp:1386: setPreviewFormat() stores the new format at once and does not ask for
  a restart, so that the running stream keeps the old one, where the field says "if preview needs
  restart after parameters updated" (HAL/QCameraParameters.h:812).
- `AVTimerAsSet` (`Keys = {"vt", "zoom"}, BadValues = FALSE, Repeats = FALSE`),
  QCameraParameters.cpp:5161: Any value of the table, "disable" too, sets m_bAVTimerEnabled to true,
  where the field says "if AVTimer is enabled" (HAL/QCameraParameters.h:830).
- `HsrInForce` (`Keys = {"hfr", "hsr"}, BadValues = FALSE, Repeats = FALSE`),
  QCameraParameters.cpp:5637: setHighFrameRate() writes the parameter that setHighSpeedRecording()
  set to 120 and does not look at high-speed recording, where the header says "set high speed
  recording value from user setting" (HAL/QCameraParameters.cpp:2719).

**QCamera3Config** (with `Big = {}, Odd = {}, RawDump = FALSE, Faults = FALSE`)

- `NoNullCall` (`Configs = {<<"preview", "jpeg">>, <<"input", "preview", "jpeg">>, <<"zsl",
  "zsl2">>}, FourK = FALSE, EarlyFlush = FALSE`), QCamera3HWI.cpp:853: After a return of -EINVAL at
  1049, 1180 or 1319 streams of mStreamInfo have no channel, and the next call, which "Failure:
  -EINVAL (if stream configuration is invalid)" (HAL3/QCamera3HWI.cpp:6905) lets the caller make,
  uses each channel without a look whether there is one.
- `NoFreedCall` (`Configs = {<<"preview", "jpeg">>, <<"preview", "video">>, <<"preview">>}, FourK =
  TRUE, EarlyFlush = FALSE`), QCamera3HWI.cpp:1330: mPictureChannel keeps pointing at the channel
  deleted with its stream when the new list has no JPEG stream, and overrideYuvSize() writes there,
  where the header says "Reset HAL camera device processing pipeline and set up new input"
  (HAL3/QCamera3HWI.cpp:817).
- `ToldFirst` (`Configs = {<<"preview", "jpeg">>, <<"preview", "video">>, <<"preview">>}, FourK =
  FALSE, EarlyFlush = TRUE`), QCamera3HWI.cpp:2823: flush() starts the metadata channel whether or
  not it ran; before the first request the daemon has not got the stream sizes yet, where a comment
  says "For first capture request, send capture intent, and stream on all streams"
  (HAL3/QCamera3HWI.cpp:2167).

**QCamera3Buffers** (with `Buffers = {b1, b2, b3}, Slots = 3, MaxFrame = 4, MaxStops = 1`)

- `RightNumber` (`Faults = {}, SlowSensor = FALSE`), QCamera3Channel.cpp:737: request() queues the
  buffer with bufDone() (line 731) and notes its frame number only then, under another lock; the
  data thread may already be in streamCbRoutine() and read the number of the slot's former frame, or
  -1, which drops the buffer. The header of markFrameNumber() says it is used "to mark the buffers
  with the frame number they are intended for this info is used later when giving out callback"
  (HAL3/QCamera3Mem.cpp:833).
- `DriverHasRight` (`Faults = {"unmap"}, SlowSensor = TRUE`), QCamera3Channel.cpp:841:
  streamCbRoutine() unregisters the slot although bufRelease() failed, which left the slot described
  (mem_info set, QCamera3Stream.cpp:578); the next buffer registered there is queued with the former
  buffer's descriptor and address. The header of markFrameNumber() says "it is duty of PP to ensure
  that data for that particular frameNumber/Request is written to this buffer"
  (HAL3/QCamera3Mem.cpp:835).
- `RegisteredOnSuccess` (`Faults = {"import"}, SlowSensor = TRUE`), QCamera3Mem.cpp:680:
  registerBuffer() sets mBufferHandle before it imports and maps the buffer and leaves it set when
  either fails; the next request for the buffer finds it (line 662), is told ALREADY_EXISTS, which
  the channel takes for NO_ERROR, and queues a slot without memory. The function's header says it
  "registers frameworks-allocated gralloc buffer_handle_t" with "NO_ERROR  -- success"
  (HAL3/QCamera3Mem.cpp:635-644).

**QCamera3Picture** (with `MaxPics = 3, Bufs = 2, Faults = {}`)

- `RightPicture` (`Kinds = {"sensor"}, NeedReproc = TRUE, Mixed = FALSE, MaxFlushes = 1,
  LateCallback = FALSE`), QCamera3PostProc.cpp:1447: STOP_DATA_PROC flushes every queue of the
  post-processor but m_jpegSettingsQ, and START does not clear it either; the settings of a picture
  that was flushed before it became a job are taken by the next picture, and every later picture has
  those of its predecessor: its orientation, quality and output buffer. The header of
  markFrameNumber() says "it is duty of PP to ensure that data for that particular
  frameNumber/Request is written to this buffer" (HAL3/QCamera3Mem.cpp:835).
- `NoBufferLost` (`Kinds = {"sensor"}, NeedReproc = TRUE, Mixed = FALSE, MaxFlushes = 1,
  LateCallback = FALSE`), QCamera3Channel.cpp:1465: Only the encoder's callback puts a YUV buffer
  back into mFreeBufferList, and initialize() fills the list only while the channel has no stream; a
  buffer whose picture was flushed (or refused by the encoder) is missing from the list from then
  on, until request() fails with "No snapshot buffers available". The header of releaseJpegJobData()
  says "original source frame need to be queued back to kernel for future use"
  (HAL3/QCamera3PostProc.cpp:828).
- `EncodesLiveMemory` (`Kinds = {"sensor", "input"}, NeedReproc = TRUE, Mixed = TRUE, MaxFlushes =
  0, LateCallback = FALSE`), QCamera3PostProc.cpp:191: start() stops and deletes m_pReprocChannel,
  with its buffers, when the framework changes between captures and reprocess requests, whatever is
  in the offline stream or in the encoder. The job struct says of src_frame "source frame (need to
  be returned back to kernel after done)" (HAL3/QCamera3PostProc.h:62); its channel and memory are
  gone by then.
- `NoFreedJob` (`Kinds = {"sensor", "input"}, NeedReproc = FALSE, Mixed = FALSE, MaxFlushes = 0,
  LateCallback = FALSE`), QCamera3PostProc.cpp:188: When needReprocess() is false start() leaves the
  reprocess channel of an earlier input buffer in place; the next capture is sent to it,
  extractFrameCropAndRotation() fails, and the job is freed while it stays in m_ongoingPPQ (line
  1551, 1581). The comment at the call says "This component needs to be re-configured once we switch
  from input(framework) buffer reprocess to standard capture!" (HAL3/QCamera3Channel.cpp:1710).
- `CallbackHasJob` (`Kinds = {"sensor"}, NeedReproc = TRUE, Mixed = FALSE, MaxFlushes = 1,
  LateCallback = TRUE`), QCamera3Channel.cpp:1397: jpegEvtHandle() expects that findJpegJobByJobId()
  finds nothing - "NULL if not found" in its header (HAL3/QCamera3PostProc.cpp:668) and the test at
  line 1392 - and then uses the job; mm-jpeg may report a job that abort_job() came too late for.

**QCameraMem** (with `Info = {}, Sizes = {1, 2}, First = 2, Total = 3`)

- `RequestedNumber` (`Streams = {p, v}, Pooled = {p}, Dyn = {p}, Deferred = {}, HeapSize = 4,
  MoreFails = TRUE, DeferredFails = FALSE, DeferredMapFails = FALSE`), QCameraMem.cpp:277: alloc()
  is to "allocate requested number of buffers of certain size" (HAL/QCameraMem.cpp:230). When it
  fails for allocateMore() it hands the slots of the first allocation to the pool as well, though
  the stream still uses them; deallocate() hands them over again, and the next stream of the type
  takes the same buffer for two of its slots.
- `DaemonAgrees` (`Streams = {d, v}, Pooled = {d}, Dyn = {}, Deferred = {d}, HeapSize = 4, MoreFails
  = FALSE, DeferredFails = FALSE, DeferredMapFails = TRUE`), QCameraStream.cpp:1008: After a refused
  mapping of buffer i the loop over j calls unmapBuf() with i, which was never mapped. unmapBuf() is
  to "unmap stream related buffer to backend server" with "@buf_idx  : index of buffer"
  (HAL/QCameraStream.cpp:1493); the indexes before i stay mapped while their memory goes back to the
  pool.
- `NoNullBuffers` (`Streams = {d, v}, Pooled = {d}, Dyn = {}, Deferred = {d}, HeapSize = 3,
  MoreFails = FALSE, DeferredFails = TRUE, DeferredMapFails = FALSE`), QCameraStream.cpp:1100:
  allocateBuffers() documents "NO_ERROR  -- success, none-zero failure code"
  (HAL/QCameraStream.cpp:979) and leaves mStreamBufs NULL when it fails, but the destructor of a
  deferred stream calls releaseBuffs(), which calls mStreamBufs->deallocate() without a check.

**StreamFrames** (with `N = 3, MinUndequeued = 1, MaxNotes = 2`)

- `NothingStranded` (`Kind = "video", MaxSessions = 1, MsgChanges = TRUE, WindowFaults = {},
  Pictures = FALSE`), QCamera2HWICallbacks.cpp:1003: video_stream_cb_routine() does nothing with a
  frame while CAMERA_MSG_VIDEO_FRAME is disabled, so its buffer never returns; the note at
  HAL/QCamera2HWICallbacks.cpp:955 says "Once video encoder is done with the video frame, it will
  call another API (release_recording_frame) to return the frame back", and nobody was given this
  one.
- `NothingStranded` (`Kind = "display", MaxSessions = 1, MsgChanges = FALSE, WindowFaults =
  {"enqueue"}, Pictures = FALSE`), QCameraMem.cpp:1348: displayBuffer() goes on to dequeue when
  enqueue_buffer() fails and the refused frame, still marked as owned, is never queued to the
  kernel; the note at HAL/QCamera2HWICallbacks.cpp:518 says "The new preview frame will be sent to
  display, and an older frame will be dequeued from display and needs to be returned back to kernel
  for future use".
- `WindowShare` (`Kind = "display", MaxSessions = 1, MsgChanges = FALSE, WindowFaults = {"dequeue"},
  Pictures = FALSE`), QCameraMem.cpp:1370: When dequeue_buffer() fails the frame is the window's and
  nothing comes back, and no later frame asks for two; the note at HAL/QCamera2HWICallbacks.cpp:519
  says "an older frame will be dequeued from display and needs to be returned back to kernel for
  future use".
- `NoStaleCallback` (`Kind = "nodisplay", MaxSessions = 2, MsgChanges = FALSE, WindowFaults = {},
  Pictures = FALSE`), QCamera2HWI.cpp:5252: returnStreamBuffer(), which "returns back a stream
  buffer" (HAL/QCamera2HWI.cpp:5243), is called by the callback thread with the stream pointer it
  was queued with; stopping the preview deletes the channel without waiting for what is queued, so TLC reaches a call for a stream that is gone.
- `NoDeadMemory` (`Kind = "video", MaxSessions = 2, MsgChanges = FALSE, WindowFaults = {}, Pictures
  = TRUE`), QCameraStream.cpp:819: PREVIEW_PIC_TAKING accepts release_recording_frame()
  (HAL/QCameraStateMachine.cpp:2726) after the recording stopped, and bufDone() asks mStreamBufs for
  the index, a pointer putBufs() deleted and did not clear; the comment of bufDone() at
  HAL/QCameraStream.cpp:804 says "return stream buffer to kernel".

**PowerHal** (with `Durations = {100}, GovernorChanges = FALSE, AcqFails = FALSE, MaxHandle = 6`)

- `NoCoresWhenOff` (`Repeats = TRUE`), power-8084.c:402: set_interactive_override() acquires a new
  lock on two cores at every display-on hint and undoes one at display off; the comment at
  power-common.c:128 says "Consecutive display-on hints are already handled".
- `LaunchReleased` (`Repeats = FALSE`), power-8084.c:353: With the power save profile set during a
  launch, power_hint_override() returns before process_activity_launch_hint() and the lock stays
  until it expires, launch_mode until the next end of a launch; the comment at power-8084.c:327 says
  "release lock early if launch has finished".
- `HighPowerSkips` (`Repeats = FALSE`), power-8084.c:353: power_hint_override() skips hints in
  PROFILE_POWER_SAVE only; the comment at power-8084.c:352 says "Skip other hints in high/low power
  modes".
- `SustainedActs` (`Repeats = FALSE`), Power.cpp:101: setMode(SUSTAINED_PERFORMANCE) passes NULL
  whether it is enabled or not, so power_hint() only tries to release a lock nobody took;
  isModeSupported() at Power.cpp:125 answers "*_aidl_return = true" for the mode.

**QCameraFlash** (with `Cameras = {0, 1, 2, 3}, WithFlash = {0, 1}`)

- `BusyMeansOpen` (`Faults = {"camera"}`), QCamera3HWI.cpp:535: openCamera() reserves the flash and
  returns without releasing it when camera_open() fails, and the destructor closes only an opened
  camera, so the torch answers -EBUSY until some later open and close; util/QCameraFlash.cpp:130
  says of -EBUSY "busy, typically because the flash is already in use" (lines 130-132).
- `Exclusive` (`Faults = {"on"}`), QCameraFlash.cpp:312: When LED_LOW fails the node opened by
  initFlash() stays open with m_flashOn false, and reserveFlashForCamera() takes the node from a lit
  torch only; its comment at util/QCameraFlash.cpp:289 says "Give control of the flash to the
  camera".
- `FlagIsLight` (`Faults = {"off"}`), QCameraFlash.cpp:266: deinitFlash() closes the node even if
  LED_OFF failed and leaves m_flashOn set, so the next setTorchMode(on) gets -EALREADY with the
  light off; the comment at QCamera2Factory.cpp:417 says "Flash is already on, so treat this as a
  success".

**DeferredWork** (with `MaxJobs = 6, Previews = {"normal"}, Pictures = {"jpeg"}, RawYuv = FALSE`)

- `OperationsEnd` (`FairSpec`, `EarlyCancel = TRUE, MayFail = {}`), QCamera2HWI.cpp:6267:
  waitDefferedWork() "waits for a deffered task to finish" (HAL/QCamera2HWI.cpp:6323), but the end
  of a task signals one waiter: when cancelPicture() and the callback of a frame wait for
  mReprocJob, one of them is not woken; the machine's thread then hangs, or it goes on and hangs
  joining the callback thread.
- `CallbacksEnd` (`FairSpec`, `EarlyCancel = FALSE, MayFail = {<<"pproc", "start">>}`),
  QCamera2HWI.cpp:6261: When the post processor cannot be started ("cannot start postprocessor",
  HAL/QCamera2HWI.cpp:6260) the deferred thread deletes the capture channel before it marks the job
  done; stopping the channel joins the callback thread, which waits for that job
  (HAL/QCamera2HWICallbacks.cpp:416).
- `StartFindsChannel` (`EarlyCancel = FALSE, MayFail = {<<"pproc", "start">>}`),
  QCamera2HWI.cpp:2712: takePicture() checks m_channels[QCAMERA_CH_TYPE_CAPTURE] for NULL at
  HAL/QCamera2HWI.cpp:2694 and again at 2721, but calls start() at 2712 unchecked, after it has
  queued the work whose failure path deletes the channel and sets the pointer to NULL on another
  thread.
- `BuffersBeforeDelete` (`EarlyCancel = FALSE, MayFail = {<<"jpeg", "declare">>}`),
  QCamera2HWI.cpp:2652: takePicture() checks "if (NO_ERROR != rc)" (HAL/QCamera2HWI.cpp:2651) and
  deletes the capture channel to return the error; its deferred streams have no buffers yet, the
  postview stream never, and ~QCameraStream() calls mStreamBufs->deallocate() on NULL.
- `WorkFindsChannel` (`EarlyCancel = FALSE, MayFail = {<<"jpeg", "start">>}`), QCamera2HWI.cpp:2715:
  The failure of start() deletes the capture channel while CMD_DEFF_PPROC_START for it is queued;
  defferedWorkRoutine() asserts only that the pointer is not NULL ("assert(pChannel);",
  HAL/QCamera2HWI.cpp:6257) and starts the post processor with the freed channel.
- `OperationsEnd` (`FairSpec`, `EarlyCancel = FALSE, MayFail = {<<"jpeg", "add">>}`),
  QCamera2HWI.cpp:6223: waitDefferedWork() "waits for a deffered task to finish"
  (HAL/QCamera2HWI.cpp:6323); a task without a channel, as takePicture() queues when
  addCaptureChannel() failed, is dropped without being marked done, so the wait has no end.

**ReprocChannel** (with `Source = {"METADATA", "POSTVIEW", "SNAPSHOT"}, Supported = {"ROTATION", "SCALE"}, MinPP = {}, HdrFrames = 3, BracketFrames = 2, LongshotStages = 2, Faults = {}, MaxFrames = 3`)

- `DeclaredInputs` (`Params = {Picture("JPEG", {"HDR"}, 1, FALSE)}, MaxSets = 0`),
  QCameraChannel.cpp:1084: An HDR picture without ZSL counts as one snapshot, so each frame of its
  bracket goes through doReprocessOffline(): it is mapped at the indices of the frame before it, and
  recorded, with nothing unmapped. The stream is configured with num_of_bufs = 2 "For input metadata
  + input buffer" (HAL/QCameraChannel.cpp:876), and cam_types.h calls it "number of input reprocess
  buffers" (stack/common/cam_types.h:1678).
- `RequestFitsChannel` (`Params = {Picture("JPEG", {"ROTATION"}, n, FALSE) : n \in 1..2}, MaxSets =
  1`), QCameraPostProc.cpp:2251: reprocess() asks for the present settings if the capture is
  regular, addReprocChannel() asked for those at start; a change in between lets a channel
  configured for "offline reprocess, frames from external source" be given an index of a running
  stream, or one for "online reprocess, frames from running streams" a mapped buffer
  (stack/common/cam_types.h:1588).
- `KeptNotReleased` (`Params = {Picture("NV21", {"ROTATION"}, 1, FALSE)}, MaxSets = 0`),
  QCameraPostProc.cpp:865: processPPData() of an NV16 or NV21 picture calls releaseSuperBuf() on the
  source frame without looking at reproc_frame_release, of which QCameraPostProc.h:59 says "false
  release original buffer, true don't release it", and frees the job with the copies still
  allocated.
- `NothingLost` (`Params = {Picture("JPEG", on, 1, FALSE) : on \in SUBSET {"ROTATION", "SCALE"}},
  MaxSets = 0`), QCameraPostProc.cpp:1013: Only releaseJpegJobData() deletes src_reproc_bufs;
  releaseOngoingPPData(), "callback function to release ongoing postprocess job node", and the
  failure path of DO_NEXT_JOB ("free pp_job", QCameraPostProc.cpp:2185) lose the copies.

**QCameraThermal** (with `Cameras = {1}, Ranges = {<<7500, 30000>>, <<15000, 15000>>, <<1000, 30000>>}, HfrRange = <<>>, LowestRate = 5000, MaxReports = 3, MaxOpens = 2`)

- `CooledDown` (`Mode = "frameskip"`), QCamera2HWI.cpp:5521: In frameskip mode updateThermalLevel()
  changes the skip pattern only, while setPreviewFpsRange() lowers the rates by the level kept: a
  range set while the device is hot stays lowered after it has cooled down. recalcFPSRange() is to
  "adjust the configured fps range regarding the last thermal level" (QCamera2HWI.cpp:5457).
- `LastLevelKnown` (`Mode = "fps"`), QCameraStateMachine.cpp:893: PREVIEW_READY and PREPARE_SNAPSHOT
  let THERMAL_NOTIFY fall to "cannot handle evt", so mThermalLevel, and every range set later, goes
  by the level before, where recalcFPSRange() is to "adjust the configured fps range regarding the
  last thermal level" (QCamera2HWI.cpp:5457).

## B. Further hazards

The hazards of this code that `PROJECT.json` does not list, by file and line,
with the properties of the modules that state the opposite, or why none does.

**HAL/QCameraStateMachine.cpp**

- 2964 (protocol sequence): A retro picture's SNAPSHOT_DONE is signalled to the API list, which
  nobody waits for; so is STOP_CAPTURE_CHANNEL (line 1782) and the CANCEL_PICTURE a failed live
  snapshot sends itself. Such results stay in the list for good. Stated: `AnswersMatchCalls`.
- 1445 (partial failure): In PREPARE_SNAPSHOT every API command gets an immediate answer but
  REG_FACE_IMAGE, which falls to default and is never answered: its caller waits for ever. Face
  registration is not among the calls of any run; the model has the missing answer.
- 2365 (protocol sequence): Recording ends in many ways, with a live snapshot in flight, a cancelled
  picture, a stop of the preview: a path that misses a stop leaves video streaming in a state that
  does not know it. Stated: `VideoIffRecording`.
- 1652 (ordering): With preview restart, the preview is started again in PIC_TAKING; whether a
  cancel arrives before or after decides what has to be stopped. Stated: `StoppedMeansStopped`.
- 893 (stale state): THERMAL_NOTIFY has no handler in PREVIEW_READY and PREPARE_SNAPSHOT: the level
  is lost, the client reports only changes, and mThermalLevel stays as it was. Stated:
  `LastLevelKnown`, `TakenLevelKnown`.

**HAL/QCamera2HWICallbacks.cpp**

- 1995 (interleaving): STOP flushes the snapshots from the data queue but leaves their DO_NEXT_JOB
  commands, and overtakes them: a count that goes wrong strands another callback. Stated:
  `NoCallbackStranded`.
- 2010 (partial failure): A snapshot callback whose message the application disabled is dropped
  before it is counted: the picture never completes and waits for a cancel. Stated:
  `WaitsEnd`.
- 1003 (partial failure): A frame that arrives while its message is disabled must still be returned.
  Stated: `NothingStranded`, `FramesComeBack`.
- 581 (atomicity): The preview data callback is sent after the buffer went to the display, so the
  application may read it while the kernel fills it again. By design of displayed previews: the data
  callback shows the buffer without owning it, and OneHolder leaves it out for that kind.
- 416 (interleaving): A frame may arrive while the post processor is still being started on the
  deferred thread. Stated: `FramesFindPostProc`.

**HAL/QCamera2HWI.cpp**

- 3012 (deadlock): cancelLiveSnapshot() joins the snapshot thread on the machine's thread, while
  that thread, when it fails, sends CANCEL_PICTURE to the machine; waiting for its answer there
  would deadlock. Callers wait for the same machine. Stated: `CallsReturn`.
- 2678 (deadlock): takePicture() waits on the machine's thread for deferred jobs; when
  addCaptureChannel() failed the job is skipped without being marked done, and the wait never ends.
  Stated: `CallsReturn`, `AnswersMatchCalls`, `OperationsEnd`.
- 2737 (stale state): PREVIEW_PIC_TAKING decides again from the current parameters whether a live
  snapshot or a picture is cancelled: after a change the snapshot thread is not joined and its
  channel keeps streaming. Planned: a property of the SNAPSHOT channel together with the live
  snapshot thread.
- 3128 (timeout retry): Ending a longshot posts a SNAPSHOT_DONE of its own; if it is handled after
  the next picture was taken, it cancels that one. The callback thread's late SNAPSHOT_DONE can do
  the same. Events carry no picture number, so which picture is meant is not part of the code's
  state; planned with ghost picture numbers.
- 636 (atomicity): take_picture() chooses between a retro and a normal picture from the state before
  its command is queued; the machine reads bRetroPicture when it handles it, after other callers'
  commands. Retro pictures are left out of AnswersMatchCalls because their answers can be lost or
  doubled this way; a property of the pairing is planned.
- 1261 (crash recovery): closeCamera() frees the result list without the API lock and leaves its
  pointer, while a late event may still signal a result. open and close are not modelled yet;
  planned with the factory.
- 5256 (stale state): A queued callback carries the pointer of a stream that may be deleted before
  it is delivered. Stated: `NoStaleCallback`.
- 6267 (interleaving): mDeffCond.signal() wakes one thread, but the callback of a frame and
  cancelPicture() both wait for the reprocess job when the picture is cancelled early; the other one
  sleeps for good. Stated: `OperationsEnd`, `CallbacksEnd`.
- 6344 (stale state): job_id is a reference: who returns first sets it to MAX_ONGOING_JOBS, and a
  second waiter reads mDeffOngoingJobs[25], one past the array. Stated: `NoStartAfterStop`,
  `OperationsEnd`.
- 6261 (deadlock): delChannel() on the deferred thread joins the callback thread, which may wait for
  the very job this thread has in hand. Stated: `CallbacksEnd`.
- 2712 (interleaving): takePicture() uses m_channels[CAPTURE] without a lock while the deferred
  thread may delete it. Stated: `StartFindsChannel`.
- 2652 (partial failure): The capture channel is deleted before the deferred thread has allocated
  the buffers of its streams, and the postview stream's are not even asked for yet. Stated:
  `BuffersBeforeDelete`.
- 2715 (partial failure): A channel is deleted while work queued for it is pending. Stated:
  `WorkFindsChannel`.
- 4933 (partial failure): Preparing a recording builds three channels; a failure has to take back
  those before it. Stated: `NothingLeft`.
- 6307 (resource bound): Twenty-five slots are taken and given back by two threads; a slot given out
  twice would end one wait with the work of another. Stated: `OneSlotOneWork`.
- 4032 (partial failure): When queueDefferedWork() finds no slot addStreamToChannel() frees the
  stream info the added stream already owns, and its destructor frees it again. Every slot is given
  back before the next picture but that of work without a channel, whose wait never ends, so
  twenty-five slots are never in use.
- 3224 (partial failure): registerFaceImage() has an image, a stream info buffer and a channel to
  undo, at five places; each must be freed once whatever fails. Stated: `HeapOwned`.
- 5478 (numeric edge): recalcFPSRange() returns ints: a rate of 7.5 frames becomes 7 when the
  application sets it, and stays 7.5 when a thermal event does. Stated: `RangeFollowsLevel`.

**HAL/QCameraPostProc.cpp**

- 289 (partial failure): When the jpeg session cannot be created start() returns an error after the
  data processing was started; what the callers undo differs between the picture modes. Stated:
  `VideoIffRecording`, `StoppedClean`, `JobsInSession`.
- 638 (ordering): A frame of a channel that still runs arrives after stop() flushed the queues: it
  is refused and leaked. Stated: `FramesTaken`, `FramesBack`.
- 1740 (interleaving): The encoder may answer a job before encodeData() stored the id it is matched
  by. Stated: `AnsweredReleased`.
- 2116 (stale state): The session is made by start() in one mode and by the first job in the others;
  a stop that does not ask for a new one makes the next job run in a session that is gone. Stated:
  `JobsInSession`.
- 2086 (protocol sequence): An answer of an earlier picture handled after the next take_picture()
  refers to output memory that was freed when the earlier picture was stopped. The output memory is
  not modelled; the id of such an answer matches no job.
- 1638 (resource bound): The job of a depth map is answered with no event of its own and stays in
  the ongoing queue until stop(). Depth maps are left out of the model.
- 2251 (stale state): reprocess() asks isRegularCapture() again although the channel was configured,
  offline or online, by its answer at start; set_parameters() is answered while the picture is taken
  and changes the number of snapshots at once. Stated: `RequestFitsChannel`.
- 627 (stale state): needReprocess() is asked when the frame comes, the channel was made by its
  answer at start: with settings changed in between the frame is refused and an error sent, or it is
  encoded as it is. Stated: `QueueMatchesBackend`.
- 2283 (partial failure): A request that fails is taken from the queue by its tail, since earlier
  ones may be under way; the copies of its buffers are not freed, and what was mapped stays mapped.
  Stated: `QueueMatchesBackend`, `NothingLost`.
- 865 (other): The source of a regular capture may not be given back, its channel is stopped: every
  path that ends a job must look at reproc_frame_release, and the one of NV21 pictures does not.
  Stated: `KeptNotReleased`.

**stack/mm-camera-interface/src/mm_camera_channel.c**

- 2274 (resource bound): The loops that return superbufs above the water mark run under the queue's
  lock until match_cnt is small and take only a matched head: a count that disagrees with the list,
  or an unmatched head, spins for ever. Stated: `LoopsEnd`.
- 342 (stale state): The last retro superbuf asks for prepare snapshot and sets a flag that stops
  the dispatch; a flag not cleared by the right metadata or request holds the queue, one cleared too
  early sends frames with the wrong exposure. Stated: `NothingSentWhileWaiting`,
  `PreparedOnlyForRequests`.
- 1266 (protocol sequence): A stop clears the whole bundle, its callback with it, while is_bundled
  stays set: a channel started again would queue superbufs for a thread that does not run. The HAL
  deletes a channel after its stop; the model does so too (retired).

**stack/mm-camera-interface/src/mm_camera_thread.c**

- 351 (protocol sequence): The thread announces itself before it sets its state, so a release that
  comes early believes it has ended. Stated: `ReleaseStopsThread`.
- 317 (interleaving): The poll thread tests notify_cb and then calls it, reading it twice, while
  mm_camera_poll_thread_del_poll_fd() clears it without a lock. The window is two loads of one
  field; the model takes test and call as one step.

**stack/mm-camera-interface/src/mm_camera_stream.c**

- 1172 (interleaving): The first queued buffer has the descriptor polled and the last read one has
  it removed, by different threads and without waiting; streamoff removes it as well, and another
  thread may add it again before the stream is off. Stated: `PolledWhileQueued`, `QuietAfterStep1`,
  `StoppedNotPolled`.
- 746 (protocol sequence): Whether the command thread is released is decided by the callbacks
  registered at STOP, not by whether START launched it: a callback that counted down to nothing
  leaves the thread running. mm_stream_reg_buf_cb() has no caller in the tree and mm_stream_config()
  registers with a count of -1, so the set never changes between START and STOP.
- 992 (partial failure): A cache invalidate that fails after DQBUF makes the notifier return: the
  buffer is out of the kernel and nobody returns it. Cache maintenance never fails in the model; the
  loss is immediate in the code and needs no interleaving.
- 2366 (numeric edge): Strides of packed raw formats round a group of pixels up, each format its own
  way; a wrong rounding shows only in widths that are no multiple of the group. Stated:
  `PictureFits`.

**stack/mm-camera-interface/src/mm_camera_interface.c**

- 1684 (interleaving): camera_open() unlocks the interface while the device is opened, before the
  slot is set: a second open of the camera is not an "opened already". Stated: `OpenStaysKnown`,
  `ReferencesCounted`.
- 1473 (partial failure): get_num_of_cameras() returns with g_intf_lock locked when the sensor_init
  device cannot be opened. It is called once, by the factory, and no camera can be opened then
  (num_cam is 0), so nobody takes the lock again.

**stack/mm-camera-interface/src/mm_camera.c**

- 817 (protocol sequence): mm_camera_del_channel() destroys ch_lock and clears the slot after the
  state machine released the lock, and even when the channel was active and ignored the event; a
  call that waits for the lock then works on a cleared channel. Stated: `ActsOnItsChannel`.
- 1843 (partial failure): An advanced capture of an unknown type leaves ch_lock locked. The HAL
  passes only the four types that are handled.
- 170 (interleaving): Threads with different locks (cam_lock, ch_lock, none) have buffers mapped and
  share one place for the answer. Stated: `OneRequest`, `AnswersAreOwn`.
- 1645 (liveness): The daemon dies while a request waits for its answer, with the camera or the
  channel locked. Stated: `RequestsReturn`, `DeathIsReported`.

**HAL/QCameraStream.cpp**

- 1204 (deadlock): putBufs() joins the thread that allocates the rest of the buffers, which waits
  for a signal that only a successful start sends. Stated: `StartReturns`, `ControlReturns`.
- 1132 (interleaving): Buffers are mapped and queued by a second thread while the control thread
  stops the stream and gives its buffers back. Stated: `QueuedAreMapped`, `NothingLeft`.
- 427 (partial failure): A stream with deferred allocation whose offsets cannot be computed is
  deleted with its stream info still mapped in the daemon. An unknown stream type or format is
  needed, which the HAL does not configure.
- 464 (stale state): The HAL lays a deferred stream out with its own copy of the stack's code, long
  before the stack does; if the two differ (rotation, stream type, padding) the driver writes past
  buffers that were allocated by the other layout. Stated: `OneLayout`.
- 1008 (partial failure): The rollback of allocateBuffers() unmaps index i in a loop over j, so the
  daemon keeps the mappings of buffers that are given away. Stated: `DaemonAgrees`.
- 1100 (partial failure): releaseBuffs() takes for granted that the deferred allocation succeeded;
  the worker only logs that it did not. Stated: `NoNullBuffers`.

**stack/mm-jpeg-interface/src/mm_jpeg.c**

- 1176 (protocol sequence): An abort that ends at a session aborted earlier leaves a job in a later
  session running, so that it is answered to a client that gave it up. Stated: `AbortIsFinal`,
  `AnsweredOnce`.
- 1604 (resource bound): A post of the semaphore is used up when the engine is full; the next job is
  begun only by the post of the job that ends. Stated: `WithinEngine`, `JobsAnswered`.
- 2154 (partial failure): One session of a burst fails to be created after others were. Stated:
  `CreatedMeansCreated`.
- 1516 (resource bound): A job without a free output buffer is dropped together with the session it
  took. Stated: `JobsApart`.
- 1951 (numeric edge): The job id or-s the session's job count into the bits above the session id,
  where the magic bit is set already: from the 256th job on, ids of different jobs coincide. Two
  such jobs would have to be outstanding at once to be confused; ids are abstract in MmJpeg.
- 237 (partial failure): After an error of the component its handle is freed without waiting for the
  state change that was asked for. Stated: `AnsweredOnce`.

**stack/mm-jpeg-interface/src/mm_jpeg_queue.c**

- 78 (interleaving): The head of the queue is read before its lock is taken, so a job put back at
  the head may pass behind one started meanwhile. Only the order of jobs is at stake, and no doc of
  the program promises one.

**HAL3/QCamera3HWI.cpp**

- 2133 (liveness): The caller sleeps on mRequestCond; a handler that lowers mPendingRequest without
  signalling it (a reprocess at 2090 does not) must be followed by one that does. Stated:
  `CallerReturns`.
- 2069 (ordering): A reprocess result that is ready before those of earlier frames is cached; when
  it is handed out in the loop over several lost frames (1940) it overtakes the later of them.
  Stated: `ResultsInOrder`.
- 1815 (partial failure): The metadata of a frame is lost: the next one's answers it, with its
  buffers. Stated: `AllBack`, `DummyForLost`.
- 1940 (stale state): handlePendingReprocResults() may erase the very entry the iterator of the loop
  around it stands at. The iterator's use after that is undefined; the model answers the two entries
  one after the other.
- 2301 (deadlock): The error exits of the first request stop channels, which joins their threads,
  with mMutex held; a stream's thread may be waiting for mMutex in captureResultCb(). The starting
  of the channels is not part of this module.
- 2550 (timeout retry): The wait for room gives up after five seconds and returns an error for a
  request that stays in the list and will be answered. Stated: `InFlightCounted`, `BackOnce`.
- 1326 (stale state): mPictureChannel outlives its channel. Stated: `NoFreedCall`.
- 2281 (partial failure): The first request initialises and starts up to eight channels; one that
  fails leaves the others as they are, and the request is made again. Stated: `RetryWorks`,
  `RunTogether`.
- 2823 (protocol sequence): flush() restarts channels whatever they were before: after the
  configuration, between requests, after a failed restart. Stated: `ToldFirst`, `RunTogether`.
- 535 (partial failure): The flash is reserved before the camera is opened; each failure after it
  must give it back. Stated: `BusyMeansOpen`, `StatusRight`.

**HAL/QCameraParameters.cpp**

- 5355 (partial failure): Setters change fields and the map before the commit; when another setter
  fails, or the daemon refuses the batch, these changes stay. Stated: `LedRight`, `TorchHeld`.
- 2965 (protocol sequence): HDR depends on the burst number, which a later setter of the same update
  changes; the LED mode is decided after both. Stated: `LedRight`.
- 1699 (ordering): The range, the frame rate, the high frame rate and high-speed recording are four
  settings of one thing, compared with stored values the later setters change. Stated:
  `VideoRateRight`, `RepeatIsQuiet`, `HsrInForce`.
- 2864 (protocol sequence): Reading the parameters and setting them back must change nothing: every
  setter compares with what is stored, each its own way. Stated: `RepeatIsQuiet`.
- 6127 (stale state): set3ALock(false) overwrites the application's own AEC and AWB locks;
  set3ALock(true) passes a focus mode that is not initialised unless UbiFocus or OptiZoom is on. The
  bracketing calls are modelled by the batch they start only.
- 5544 (other): setCDSMode() asks whether the value is the stored one where the others ask whether
  it is not, and keeps a pointer to a buffer whose block has ended. What the pointer reads is
  undefined; the setting is not in the model.
- 3309 (stale state): m_bNoDisplayMode is cleared without the restart that setting it asks for. The
  no-display mode is a test mode of the daemon and not in the model.

**HAL3/QCamera3Channel.cpp**

- 3376 (timeout retry): Support and raw dump channels refuse to be initialised twice, so that after
  one failed first request every later one fails. No text of the repository promises a retry;
  RetryWorks is checked without these channels.
- 737 (interleaving): The frame number is noted after the buffer was queued, so the callback may
  read the slot's former number. Stated: `RightNumber`.
- 841 (partial failure): The slot is unregistered although the daemon refused to unmap it. Stated:
  `DriverHasRight`.
- 847 (liveness): A buffer without a valid frame number is not handed back at all. Stated:
  `AllReturned`, `NothingForgotten`.
- 1723 (resource bound): A capture takes a YUV buffer that only a successful encode gives back.
  Stated: `NoBufferLost`, `BufferOnce`.
- 1713 (stale state): Whether the post-processor must be restarted is decided from a flag kept
  inverted since the last start. Stated: `NoFreedJob`, `EncodesLiveMemory`.
- 1390 (timeout retry): A callback of the encoder that comes after a stop drained the jobs. Stated:
  `CallbackHasJob`.
- 2928 (interleaving): The lists of mapped offline buffers are changed without a lock by the data
  processing thread, by the encoder's callback and by a stop. Stated: `MappedWhileReprocessed`.
- 1715 (partial failure): The result of start() is ignored: without a reprocess channel the data
  processing thread is never started and no picture comes back. The model lets
  addOfflineReprocChannel() succeed.

**HAL3/QCamera3Mem.cpp**

- 742 (stale state): A slot keeps its frame number when its buffer is unregistered, and is taken by
  another buffer. Stated: `RightNumber`, `DriverHasRight`.
- 680 (partial failure): A registration that fails leaves the handle in the slot. Stated:
  `RegisteredOnSuccess`.

**HAL3/QCamera3Stream.cpp**

- 639 (partial failure): When one of the buffers cannot be mapped at a start, those before it have
  to be unmapped. Stated: `MappedIffDescribed`.

**HAL3/QCamera3PostProc.cpp**

- 1447 (stale state): The queue of settings outlives a flush. Stated: `RightPicture`.
- 189 (atomicity): The reprocess channel is replaced by the request thread while the encoder, its
  callback and the offline stream use it. Stated: `EncodesLiveMemory`.
- 1551 (partial failure): A job is queued before it is known that it can be processed. Stated:
  `NoFreedJob`.
- 465 (interleaving): Whichever of a frame and its metadata comes second has to wake the thread.
  Stated: `AllBack`.

**HAL/QCameraMem.cpp**

- 671 (partial failure): The rollback of a failed mmap() frees the buffers before the one that
  failed; that one and those after it are never freed. Stated: `NothingElseLost`.
- 533 (stale state): A buffer of the pool may come from a stream of another size: it must be large
  enough for the new one. Stated: `LargeEnough`.
- 1146 (stale state): QCameraVideoMemory::allocateMore() starts at an mBufferCount its base class
  already advanced, so the new buffers get no metadata and the count is too large. Stated: `TypeOK`.
- 1343 (resource bound): The share of the window and the share of the kernel must stay fixed or the
  stream starves after some minutes. Stated: `WindowShare`, `FlagAgrees`.
- 1348 (partial failure): One of the two window calls of a frame fails and the other is made.
  Stated: `NothingStranded`, `WindowShare`.
- 1482 (partial failure): A refused ion import gives back the buffers before it but not the one it
  failed on. Stated: `WindowWhole`.
- 1245 (stale state): The encoder returns a frame of the last recording by address; the next session
  may have a buffer at that address, which is then queued twice. The model takes addresses to be new
  in every session; frames_video's mutant matchesAny shows what a match would do.

**power-8084.c**

- 402 (protocol sequence): Display on, on, off: each call is legal, together they leak a lock that
  keeps cores online. Stated: `NoCoresWhenOff`, `ListMatchesLocks`.
- 353 (protocol sequence): A profile set between the start and the end of a launch makes the end a
  no-op. Stated: `LaunchReleased`, `LaunchKnown`.
- 329 (timeout retry): The launch lock expires in perfd after 5 s while launch_handle keeps its
  number; releasing it later hits whoever has the number then. perfd is outside the repository; the
  model gives every lock a number of its own.
- 406 (stale state): The governor is read at each call, so tuning taken under one governor may never
  be undone under another. Stated: `NoDarkTuningWhenOn`.

**util/QCameraFlash.cpp**

- 160 (interleaving): QCameraFlash has no lock: a camera that reserves the flash between initFlash()
  and setFlashMode() of a torch call shares it with the torch. The camera service holds its own lock
  around both calls; a step of the model is a whole call.

**HAL/QCameraChannel.cpp**

- 1003 (ordering): stop() unmaps the offline buffers while the stream still runs and the backend may
  read them. WorksOnItsFrame leaves out the time between the two steps of STOP_DATA_PROC: what the
  backend does with a buffer that is unmapped under it is outside this repository.
- 942 (partial failure): A stream that cannot be added leaves its stream info buffer allocated:
  addReprocStreamsFromSource() does not free it, as addOfflineReprocChannel() and
  addStreamToChannel() do. Stated: `NothingLost`, `HeapOwned`.

**HAL/QCameraThermalAdapter.cpp**

- 112 (partial failure): Four steps of init() may fail and each must undo those before it: a
  callback that stays registered is in a library that is closed. Stated: `LibraryThere`,
  `NoCallAfterClose`.
- 91 (resource bound): The adapter is one for the process: a second camera opened while the first is
  open overwrites its callback and its handles, and what the first registered is never unregistered.
  Whether two cameras may be open at once is up to the camera service; the model opens one at a
  time.
