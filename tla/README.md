# obmc-ikvm in TLA+

obmc-ikvm is the KVM-over-IP server of a BMC: it captures the host's video from
a V4L2 device, serves it to VNC (RFB) clients through libvncserver, and turns
their key and pointer events into reports of a USB HID gadget that the host
sees. This directory models it in TLA+, model-checks the models with TLC and
proves theorems about them with TLAPS. Paths below are relative to
`src/`.

Contents: [the system](#the-system) - [what is hard](#what-is-hard) -
[modules](#modules) - [runs](#runs) - [fairness](#fairness) -
[proofs](#proofs) - [findings](#findings) -
[assumptions and limits](#assumptions-and-limits) - [plan](#plan)

## The system

### Threads

| thread | started by | what it does |
|---|---|---|
| main | `main()` | constructs `Manager`, then `io.run()`: D-Bus callbacks of `Monitor` and `Interface` (session list, timeout, host state, BSOD event, screenshot trigger) |
| server | `Manager::run()` | `Manager::serverThread`: `server.run()` (libvncserver's `rfbProcessEvents`, so the hooks `newClient`, `clientGone`, `keyEvent`, `pointerEvent`; then the deferred resize), `setServerDone`, `waitVideo` |
| video | `Manager::run()` | `Manager::statusUpdateThread`: start or stop the device, choose the format, `getFrame`, `screenShot`, `sendFrame`, `needsResize`; then either the resize or `setVideoDone`, `waitServer` |

The server and the video thread take turns through `serverDone`, `videoDone`,
one mutex and one condition variable. Everything else they share is shared
without a lock: `pendingResize`, `frameCounter`, `numClients`, each client's
`ClientData`, the framebuffer, libvncserver's client list (through its own
iterator), the keyboard's report and map of keys. The main thread shares
`activeSessionIDs`, `timeoutValue`, `hostPowerState` and `scrnshotFlag` with
both, also without a lock. A failed system call or D-Bus call that throws ends
the process, which systemd restarts (`start-ipkvm.service`).

### Components

| component | state it keeps | operations | correct when |
|---|---|---|---|
| `Manager` (`ikvm_manager.cpp`) | `serverDone`, `videoDone`, mutex, condition variable | `setServerDone`, `waitServer`, `setVideoDone`, `waitVideo`, the two loops | no wakeup is lost, the threads never sleep on each other, the video thread closes a round only after an RFB round ended, no RFB round starts while a resize has its barrier up |
| `Video` (`ikvm_video.cpp`, `ami/src/ikvm_video_ami.cpp`) | descriptor, width and height, format, `resizeAfterOpen`, mapped buffers with their `queued` flags, `buffersDone`; in the kernel the stream and its queues | `start`, `stop`, `restart`, `resize`, `needsResize`, `getFrame`, `releaseFrames`, `qbuf`, `formatChange`, `screenShot` | every buffer has one owner, flags agree with the driver, frames are of the mode and format set, a new mode and the original format are arrived at, screenshots show whole frames |
| `Server` (`ikvm_server.cpp`) | client count, framebuffer, `pendingResize`, `frameCounter`, per client: `skipFrame`, `needUpdate`, CRC, session, activity time | `run`, `resize`, `doResize`, `sendFrame`, `newClient`, `clientGone`, `clientFramebufferUpdateRequest` | clients are counted right, the framebuffer takes the host's size, no frame of the new size is sent into the old framebuffer, only clients that must go are closed |
| KVM sessions (`ikvm_server.cpp`, `ami/src/ikvm_monitor.cpp`) | `activeSessionIDs`, each client's `sessionId`; the session manager's list (another service) | register, look up, remember, unregister; replace the list by a signal's | the list settles on the session manager's, a client whose session was ended is closed, no other is |
| `Input` (`ikvm_input.cpp`, `ami/src/ikvm_input_ami.cpp`) | descriptors, `keyboardReport`, `keysDown`, `pointerReport`, LED state | `connect`, `disconnect`, `keyEvent`, `pointerEvent`, `sendWakeupPacket`, `writeKeyboard`, `writePointer`, `readKeyBoardOutReport` | report and map agree, the host has the report, nothing stays pressed, no write holds a thread |
| `Monitor`, `Interface` (`ami/src/`) | D-Bus matches; the flags above | property-changed and signal callbacks | a request is taken up, values are current |
| idle timeout (`ikvm_server.cpp`, `ami/src/ikvm_utils.cpp`, `ami/src/ikvm_monitor.cpp`) | `timeoutValue`, `lastActivityTime` | comparison in `sendFrame` | only idle clients are closed, and they are |
| `Args`, `main`, utilities, USB power saving | options | parsing, start-up calls | |
| `create_usbhid.sh`, unit files, build files | | configuration | the report descriptor fits the reports |

`PROJECT.json` says for each whether it is modelled.

## What is hard

The list with lines is under "hazards" in `PROJECT.json`. In short:

- *interleavings without locks*: an unlocked store that the other thread's wait
  tests (`ikvm_manager.cpp:105`), a resize request against the first client's
  hook (`ikvm_server.cpp:86` and `:427`), fake key events of the video thread
  beside a client's (`ikvm_server.cpp:218`), with no lock between the search for a
  free place and the taking of it (`ikvm_input.cpp:189-192`), `activeSessionIDs` replaced by the
  main thread (`ikvm_monitor.cpp:139`);
- *ordering*: answers and signals of the session manager travel separately;
  the format is chosen before the frame is fetched and the screenshot request is
  read again after it;
- *partial failure*: every ioctl may fail, some are only logged, some throw;
- *resource bounds*: a few buffers, six key places, five tries of a write;
- *staleness*: frames kept over a mode or format change, `serverDone` left from
  an earlier round, `resizeAfterOpen` surviving `stop()`, a `data` pointer kept
  while its buffer is given back (`ikvm_server.cpp:107`), a CRC remembered per
  client over frames it never got (`:194`), a width read twice
  (`ikvm_input.cpp:277`);
- *numbers*: a negative idle time compared as an unsigned one
  (`ikvm_server.cpp:136`), positions scaled into 16 bits;
- *liveness*: two threads that wait for each other, a mode change reported once,
  a picture made of parts any of which may be lost, an idle client that is only
  looked at when a frame comes.

## Modules

Each definition that models code is listed with its lines under "map" in
`PROJECT.json`. Definitions named as faulty variants are plausible bugs, used to
confirm that a property can fail; nothing in a specification refers to them.

### `RoundSync` and `Manager`: the hand-off

`Manager` has both loops, the mutex `lock`, the condition variable (the set
`waiting` of threads asleep and not notified) and both flags. `set...Done()` and
`wait...()` are three steps each: reach the lock, hold it, and either pass or
sleep (unlock and sleep in one step, as `std::condition_variable::wait` does);
spurious wakeups may occur. The store `manager->videoDone = false`
(`ikvm_manager.cpp:105`) is made without the lock: the model keeps it
`unflushed` until it becomes visible at some later moment, or is overtaken by
`setVideoDone`. What the threads do in between, `server.run()` and the rest of
the video round, is one step here.

`RoundSync` is the abstract specification: RFB rounds leave a token, the video
thread consumes one per round, a resize raises a barrier that keeps new RFB
rounds from starting. It states neither lock nor condition variable. Its
`Next` also allows that an RFB round is running while a resize is under way, as
the code does (see findings). `Manager` implements it with the mapping `RS`:
"RFB round" is `pc[Server]` before `serverDone` is set, the token is
`serverDone`, the barrier `~videoDone`.

### `Video` and `VideoLoop`: device and rounds

`Video` has no variables: it is `class Video` as operators on one record, the
camera, with the members of the class and the part of the kernel driver that the
code's ioctls rely on (which buffers the driver may fill, has filled, and
with errors). `StopOp`, `StartOp`, `RestartOp`, `ResizeOp`, `FormatChangeOp`,
`AdoptSize` (needsResize on a new mode), `Qbuf`, `ReleaseFramesOp`, `DequeueOp`
each stand for the method of that name. A buffer that a failed `VIDIOC_QBUF` left
with nobody is recorded in `lost`.

`VideoLoop` is `Manager::statusUpdateThread` on that camera: one action per call
of a round (`BeginRound`, `ChooseFormat`, `GetRoundFrame`, `ScreenShot`,
`ClearRequest`, `SendFrame` with its visits of clients, `NeedsResize`, `Resize`),
beside the host (`HostChanges`), the driver (`Capture`), clients
(`ClientsChange`), screenshot requests and `Crash`. A frame is only what matters
to the properties: the mode and the format it was taken in. `asked` remembers a request
that has no picture yet; the flag `scrnshotFlag` falls in a step after the picture's
(`ikvm_manager.cpp:83` and `:84`), and a request between the two is the one that
`asked` leaves out.

### `Screen`: framebuffer and clients

`Screen` composes three parts: the hand-off as `RoundSync` promises it (an
`INSTANCE`, which `Manager` implements), the camera of `Video` (size and
pending resize, with the formats a screenshot makes it change), and `Server`'s client list, counter, framebuffer and
deferred resize. The server thread accepts and loses clients at any time in
`rfbProcessEvents()`; the client is in libvncserver's list (`linked`) before
`newClient()` has run and out of it before `clientGone()` has run, which the video
thread can see; `newClient()` is two steps, the `ClientData` at its start (`NewClient`)
and the counting at its end (`CountClient`). `sendFrame()` is its gates: no frame or `pendingResize`, the list
of clients at its start, `skipFrame`.

### `Sessions`

The server thread's calls to the session manager are separate steps, because the
video thread, the main thread and other services act in between:
`SessionRegister`, `Get`, storing the identifier, `push_back`; and one
`SessionUnregister` per matching element of the loop in `clientGone()`, whose
iterators may be invalid when the list was replaced meanwhile. The session
manager is external: a list in registration order, a signal with the whole list
after each change, signals in order but not ordered with the answers. `Crash` is
an uncaught exception of a D-Bus call, after which the unit's `ExecStop` asks for the
sessions to be cleared, ignoring a failure (the `-` in
`ami/misc/10_ExecStop_Session_Clear.conf:4`), and systemd starts the daemon again: the
session manager's list may be empty or as it was. `inherited` is what was left in it,
which the new process does not ask for.

### `FrameQueue` and `SendFrame`

`Server::sendFrame()` on the frames themselves. A screen is a row of strips that
show pixels; a frame is the strips of its bounding box, and the CRC is its pixels,
as the code takes it of the data and not of the box. The video thread's round is
`getFrame` (`BeginRound`), the test of `data` (`BeginSend`), one visit per client
(`SkipFrameOf`, `PassOver`, `RefuseCut`, `RefuseSame`, `Serve`: the tests of the
loop's body in their order), the `getFrame()` a refusal ends with, the copying of
the data (`Send`) and the release (`EndSend`). `data` is the buffer of the pointer
that is read once; `front` is the index each visit reads, any index if the deque is
empty; a read of `data` after its buffer was given back finds what the driver has
written by then. Beside it run the server thread's hooks and the driver, which
captures what changed, or the whole screen, or a frame that is cut short. `view` is
what a client shows when it has drawn what it was sent. `OneAtATime` lets clients
come only one after the other: what holds then, and what a second client breaks,
are two configurations.

`FrameQueue` is the abstract specification of what the buffers are for: captured frames
wait in a queue with room for as many as there are buffers, leave it one at a time, the
oldest first and as they were captured, and are forgotten only while no client
is connected. `SendFrame` implements it with the mapping `Queue`: the queue is the contents
of the buffers in `buffersDone`, then of those the driver has filled. It says nothing of
what is sent: with two clients `sendFrame()` still takes frames off in order, and
sends from a buffer that is no longer in the queue (`send_frame_shared`).

### `Monitor` and `Idle`: the main thread and the idle timeout

`Monitor` is the main thread: `powerStatusInit()` and `sessionTimeout()` ask for two
properties, the matches are added in the code's order, the threads start, and
`io.run()` then calls the callbacks with the signals that waited. The two services
are external: a value, changed at any time, and signals of the changes in order to
those who have subscribed. `missed` remembers a change between the Get and the
match, or a Get that failed, which the program has no way of knowing of; it is set by
these events, whatever the copies then are, and the next change that is signalled
removes it. `Restart` is the end of the process in any state. The callbacks that ask
for a screenshot only raise a flag, at any time: `RequestScreenshot` of `VideoLoop`.

`Idle` extends it with the clients: the server thread's hooks (`NewClient`,
`ClientGone`, `UserEvent`), the host's LED report, and the part of `sendFrame()`
that reads the clock, reads `lastActivityTime` some time later, compares, and
sends the fake key events. Times are ages in ticks, and `Second` ticks make the
second to which the code truncates; the comparison is of unsigned numbers
(`Modulus`).

### `Input` and `Pointer`

`Input` declares what keyboard and pointer share: the two threads, the tries of a
write and whether a client is connected. Each has a report, a descriptor and a mutex of
its own, and they meet nowhere else; so each is a specification of its own
(`PointerSpec`, and `Spec` of `Keyboard`), and their theorems share a module.

`pointerEvent()` in two reads of the width (the test of x, then the scaling), the
report it leaves for `writePointer()`, the tries of a write between which `ptrMutex`
is free, and the wakeup packet that the video thread writes; connect and
disconnect of the gadget; and the mode changes with which the video thread
changes the width. A report is compared with what the host was sent last.
`aimed` remembers what the position was scaled from.

### `KeyMap` and `Keyboard`

`KeyMap` has the two conversions from keysym to modifier bit and to usage as
tables. `Keyboard` has the report, the map of keys down, the gadget's descriptor,
and two threads: client key events in the server thread; the fake NumLock events
of `sendFrame()` and the wakeup packet in the video thread. Nothing locks the report
and the map, so `keyEvent()` is the steps between which the other thread may come:
`readKeyBoardOutReport()`, the test whether the key is down (`NewKey`, `ChangeReport`,
`IgnoreEvent`), the search for a free place (`FindPlace`), the taking of it
(`TakePlace`), and the write, a series of tries between which `keyMutex` is free.
`overlapped` remembers that both threads were between the test and the taking at
once. `readKeyBoardOutReport()` waits in a `select()` without a timeout
(`ami/src/ikvm_input_ami.cpp:51`) for the host's LEDs or for standard input, and need
never return here.

### Proof modules

`Manager_proofs`, `Video_proofs` (lemmas about the camera's operations),
`VideoLoop_proofs`, `Screen_proofs`, `SendFrame_proofs`, `Sessions_proofs`,
`Idle_proofs` (also about `Monitor`) and `Input_proofs` (about `KeyMap`, `Keyboard`
and `Pointer`); see
[proofs](#proofs).

## Runs

Run a configuration with `tlc -config X.cfg M`.

| run | module | checks | distinct states |
|---|---|---|---|
| `manager` | `Manager` | types and lock ownership, `NoLostWakeup`, `NeverBothAsleep`, `ImplementsRoundSync` (with fairness), `BothThreadsKeepWorking` | 195 |
| `video_loop` | `VideoLoop` | `QueuedMeansQueued`, `BuffersAccounted`, `FramesMatchStream`, `NoPartialScreenshot`, `ScreenshotTaken`, `FormatRestored`, `SizeFollowsHost` | 850,368 |
| `screen` | `Screen` | `ClientsCounted`, `FramesFitScreen`, `PendingEnds` | 1,579,680 |
| `sessions` | `Sessions` | `NoSessionMissing`, `RevokedDisconnected` | 382,064 |
| `send_frame` | `SendFrame` | `SendsPendingFrame`, `WithheldIsShown`, `ImplementsFrameQueue`, `ViewConverges` | 832,424 |
| `idle` | `Idle` | `CopiesAreRight`, `ActiveStays`, `IdleIsClosed` | 81,766 |
| `pointer` | `Pointer` | `PointsAtPixel`, `HostHasPointer`, `PointerEventsEnd` | 425,097 |
| `keyboard` | `Keyboard` | `KeysDownMatchReport`, `HostHasReport` | 3,084,705 |
| `manager_overlap`, `video_stream`, `screen_forgotten`, `send_frame_shared` | | one documented promise each that the code does not keep; see [findings](#findings) | |

Deadlock is checked in every run.

Bounds, and why they are enough:

- `manager` has none: two threads and six Boolean-like variables are the system.
- `video_loop`: two buffers (the code asks for three; two already let one wait,
  one be with the driver, and either be lost or flawed), two modes plus the
  800x600 the program starts with and "no signal", `sendFrame()` visiting at most
  two clients (so that one client's refusal of a frame precedes another's visit),
  and `MaxFaults = 1`: one flawed frame, failed `VIDIOC_QBUF` or crash per behaviour
  (a failed `VIDIOC_G_SELECTION` is not counted and may happen at any frame). A flawed
  frame whose buffer cannot be queued again is two faults, which only the theorems
  cover. The original format is 2 (partial),
  the one the service's unit passes and the only one for which the format ever
  changes. The theorems hold for any number of buffers, modes, visits and faults.
- `screen`: two clients (first and last coming and going, overlap of one's hook
  with the other's presence), two modes, of which the program starts with one, `FrameRate = 1`, so that the deferral
  takes two rounds with a client; `frameCounter` stops at `FrameRate + 1`, beyond
  which the code does not tell values apart. `FirstSkip` is then 0, but
  `DoResize` gives clients a frame to skip.
- `sessions`: two clients, three registrations ever (`MaxSession`), so that one
  client comes back under a new session, with unbounded signals (there are at
  most as many as changes of the list).
- `send_frame`: one client at a time that may come and go at any moment, a screen
  of two strips in two pixels (so that a partial frame exists and two frames of
  different strips may have one CRC), two buffers (one waits, one is with the
  driver), the unit's options (partial format, CRC), one frame to skip.
  `send_frame_shared` has two clients, and nothing else differs.
- `idle`: one client, as the time of each is its own and `sendFrame()` treats them
  one by one; timeouts of 1 and 2 seconds beside the default of 3, two ticks per
  second, so that half seconds are truncated, a delay of up to a second between
  the two reads, so that the negative duration reaches a whole second and wraps,
  a wrap at 16, beyond every age; at most two signals on their way, so that one comes
  before the one before it is handled.
- `pointer`: the masks are each button, the chord 5 that the code takes for the
  wheel, and both wheel directions; the positions lie inside, at the edge and
  outside of widths 2, 3 and 5 (a divisor, and two that do not divide the
  extent of 8); two tries of a write.
- `keyboard`: keys `a` and `b` and a modifier from the clients, and the video thread's
  Num_Lock: three keys for two places, so that the report is full also without an overlap;
  two tries of a write. Both threads with one key are left to the theorem, which is
  for any keysyms.

Every passing run fires every action of its specification, and each property has
a mutant of the code in `PROJECT.json` under which its run finds it violated.

### What the properties say

- `NoLostWakeup`, `NeverBothAsleep`: although one flag is cleared without the
  lock, a thread asleep on a flag is asleep because that flag is false.
- `BuffersAccounted`, `QueuedMeansQueued`: over failed ioctls, retries for several
  clients, format changes, restarts and resizes, each mapped buffer is with the
  driver or in `buffersDone`, once, or was lost to a failed `VIDIOC_QBUF`. The
  lost ones are the only leak, and the next `stop()` or `resize()` recovers them.
- `FramesMatchStream`: no frame waits in `buffersDone` that was taken in another
  mode or format than the one set.
- `NoPartialScreenshot`, `FormatRestored`, `ScreenshotTaken`: the screenshot flag
  is read twice in a round, and set by another thread at any time; still a
  screenshot is never of a partial frame, every request is followed by a picture, but
  for one raised between the picture and the clearing of the flag, and clients get
  the original format back.
- `SizeFollowsHost`: a mode change is reported once per change and survives
  restarts. It speaks of `width` and `height`; that the device or the framebuffer is in
  that mode it does not say (see `video_stream` and `screen_forgotten`).
- `ClientsCounted`: the HID gadget is connected exactly while a client is counted, and
  the clients with data are counted, but for one inside `newClient()`.
- `FramesFitScreen`: the camera takes a new size in the video thread, the framebuffer
  takes it later and perhaps in the other thread; a client is served only while the
  two sizes agree. Two things break that, which the property names: the round in
  which `start()` found a new mode, whose frames go out before its resize, and a resize
  that was dropped (by `newClient()`, as in `screen_forgotten`, or by `resizeAfterOpen`,
  as in `video_stream`).
- `PendingEnds`: a deferral does not last for ever while someone watches.
- `NoSessionMissing`: with no signal on its way, every session in force is in
  `activeSessionIDs`, whatever was ended, registered or crashed before, but for
  sessions that a restart left with the session manager.
- `RevokedDisconnected`: ending a session outside any registration disconnects its
  client. A client that took another's identifier when another service ended its own
  between `SessionRegister` and `Get` counts as having that one's.
- `SendsPendingFrame`: the data that goes out is that of the oldest waiting frame,
  through refusals, re-fetches and releases, if no second client shares the round.
- `ImplementsFrameQueue`: no buffer is pending twice or written to before its frame
  was given back, and no frame overtakes another, whoever releases and fetches in the
  middle of `sendFrame()`.
- `WithheldIsShown`: the CRC of a partial frame says nothing of its place, and a
  client may miss frames in between; still no whole frame is kept from it but the
  one it shows. The converse for partial frames is not claimed: two boxes with
  the same pixels have one CRC.
- `ViewConverges`: parts that were lost come again with the next whole frame, so
  that the picture of a client that stays becomes the host's.
- `CopiesAreRight`: the Get and the match do not overlap, signals wait until
  `io.run()`, and the process may restart; the copies settle all the same, except
  for a change in the gap or a Get that failed, which the property names, and of these
  the next change makes up for.
- `ActiveStays`, `IdleIsClosed`: a client is closed for being idle exactly when it
  is, with truncated seconds, changes of the timeout, fake key events, and two
  reads of the clock that are not one. What `ActiveStays` excepts, an activity that
  comes a second or more after the clock was read, does close an active client.
- `PointsAtPixel`: truncation puts the pointer on the pixel or the one before, in
  the descriptor's range, whatever the video thread does to the width between
  the two reads, unless it falls below x there.
- `KeysDownMatchReport`: the other thread may press, release or write wherever a thread
  is in `keyEvent()`; map and report agree until both are between the test and the
  taking at once. Then both may take the same place, which the property excepts: map and
  report do disagree.
- `HostHasReport`, and `HostHasPointer` of the pointer: two threads writing one report
  leave the host with it, whichever wrote last, overlapped or not, unless the host was
  sent another or none since, which is the wakeup packet overtaking an event or a write
  given up.
- `PointerEventsEnd`: a host that takes nothing holds no thread in `writePointer()`. Of
  the keyboard no such property holds: `readKeyBoardOutReport()` may keep its thread.

## Fairness

- `Manager`: weak fairness of each thread's own steps (the kernel schedules
  both; `rfbProcessEvents` and `select` have timeouts) and strong fairness of
  taking the mutex, which the other thread leaves free while it does a whole
  round of work, again and again.
- `VideoLoop`: weak fairness of the video thread only: `select()` waits at most a
  second, other ioctls return. Neither captures nor mode changes, clients or
  requests are assumed to happen.
- `Screen`: weak fairness of both threads; strong fairness of
  `rfbProcessEvents()` returning, as clients might otherwise come and go within
  one call for ever.
- `Sessions`: weak fairness of the main thread's callback, of the server thread,
  and of the video thread reaching a client it has to close (frames keep coming);
  strong fairness of libvncserver noticing a connection that was closed.
- `SendFrame`: weak fairness of the video thread and of a client's next request for
  an update (a client asks again after each update, which is outside `src/`);
  strong fairness of the driver capturing the whole screen, as it does at intervals
  in the partial format. Without the latter the picture need not converge: a part that
  was lost is not repeated.
- `Idle`: weak fairness of the main thread's start-up and `timeoutCallback`, of the
  video thread within `sendFrame()`, and of time; strong fairness of a frame coming
  (`BeginSend`), as the timeout is only looked at then. `IdleIsClosed` names the
  host's LED report as its condition: before it each frame sent counts as activity.
- `Pointer`: weak fairness of each thread that is in `pointerEvent()` or
  `sendWakeupPacket()`.
- `Keyboard`: none; the run checks invariants only.

## Proofs

`tlapm M.tla` checks a module's proofs. The theorems hold for every value of the
constants under the named assumptions of the modules (`ThreadAssumption`,
`VideoAssumption`, `LoopAssumption`, `ScreenAssumption`, `SendFrameAssumption`,
`SessionsAssumption`, `MonitorAssumption`, `IdleAssumption`, `InputAssumption`,
`KeyboardAssumption`, `PointerAssumption`), and, where a theorem says so,
`OneAtATime`; nothing else.

**`Manager_proofs`.** `NoLostWakeup` is not inductive: to know that the video
thread's unlocked store cannot make the server sleep on a flag that is set again
un-notified, one needs when the store may still be unflushed and what the flag is
at each point. `IInv` therefore adds that a thread
listed as waiting is at the point it went to sleep (`SleepersAsleep`), and that
`videoDone` is false, or about to be seen false, only between the clear and
`setVideoDone` of a resize branch (`ClearedOnlyInResize`, `BranchRemembered`):
the video thread cannot be asleep then, which is also why the threads never
sleep on each other. `IInvHolds` shows it
inductive, one step per action; `TypeCorrect`, `WakeupsKept` and `NotBothAsleep`
follow. `RefinesRoundSync` shows that the initial state maps to an initial state
and every step to a step of `RoundSync` or a stutter (`RS!Spec`, the safety part
of what the run checks with fairness).

**`Video_proofs`.** For each operation of the camera one lemma on what it keeps of
`Camera` (types), `DriverAgrees`, `OwnedOnce`, `Accounted` and `TakenAsSet`,
proved from the equations of its fields. These are the induction step's content;
they name no program counter.

**`VideoLoop_proofs`.** `IInv` is the type invariant with those predicates, plus
what is known at each point of a round. `FramesMatchStream` needs that the
driver's filled buffers are already of the set mode and format, since
that is where the next frame comes from; `BuffersAccounted` needs that the
buffers are unmapped where a resize is about to map them; `NoPartialScreenshot`
needs `FramesMatchStream`, because the code tests the format that is set and not
that of the frame. `IInvHolds` goes through the actions, citing the lemmas;
`TypeCorrect`, `QueuedFlagsTrue`, `BuffersKept`, `FramesCurrent` and
`ScreenshotsWhole` follow.

**`Screen_proofs`.** `ClientsCounted` needs what a hook may find (`Hooks`): the
list and the clients with a `ClientData` are the same set but for the one client
that a hook is running for, so `newClient()` adds and `clientGone()` removes exactly
one, and the cardinality follows `numClients`. `FramesFitScreen` follows from `Fits`:
whenever the framebuffer has not the camera's size, either the resize is `Owed` (it
waits for the end of the round, is under way, or was dropped) or it is deferred, and
then not by a `run()` that has done its resize already and is about to clear the flag
(as `frameCounter` has passed `FrameRate` by then, no other can be deferred); and from
`Control`: while the video thread visits clients `pendingResize` is false, as only it
sets the flag, outside `sendFrame()`. The camera part reuses the lemmas of
`Video_proofs`. `IInvHolds`; then `TypeCorrect`, `CountCorrect`, `FramesFit`.

**`Input_proofs`**, the keyboard. `KeysDownMatchReport` is not inductive: a key of usage 0 in
the map would hold a place that looks free, and a place found may be taken before it is
used. `ReportSound` adds that keys in the map have a usage (`ReportTypes`), what a thread
past its test has in hand (`Taking`), and that, without an overlap, at most one thread is
there, its key not in the map yet and its place still free (`Alone`): the other can
release keys and change modifiers meanwhile, which takes neither. That no two threads are
there is not assumed of the code; `overlapped` says when they were. `HostHasReport`, which
has no such exception, is strengthened to `ReportArrives`, which tells a
change that some thread has yet to write from one that is lost. The assumption on
`Slots` (a subset of 2..7) is the length of the report. `TypeCorrect`,
`ReportMatches` and `ReportReachesHost` follow from `IInvHolds`. `UsagesDescribed` is
about the tables of `KeyMap` themselves: of all keysyms, keypad `=` alone has a usage beyond
the descriptor's 101 (`Scancodes`, by cases of the switch and its ranges), so that a host
whose clients do not send it is sent no such usage.

**`Input_proofs`**, the pointer. The invariant `Aim` ties the position to what it was
scaled from, and strengthens `HostHasPointer` to what holds while the video thread
is still writing: the host's report is the pointer's once the *server* thread is done.
The arithmetic is in two lemmas: `ScaledType` (any quotient, narrowed to 16 bits,
is a position) and `ScaledBack`: for `x < width <= Extent` the quotient `p` of `x * Extent`
by the width is below `Extent`, so the narrowing changes nothing, and `p * width` lies less
than `Extent` below `x * Extent`, so scaling back yields `x` or `x - 1`. It is for every
width up to the descriptor's range; in a wider mode several pixels share a position.
`PointerTypeCorrect`, `PointerOnPixel` and `PointerReachesHost` follow from `AimHolds`.

**`SendFrame_proofs`.** `TypeCorrect` is for any number of clients: even there, a
buffer that was given back while `data` points to it leaves every variable in its
type; `Bound` adds that within the call `data`, and while sending `current` and
`front`, are set. With one client at a time (`OneAtATime`, which the code does not
enforce), `OneClientWithheld` follows from an invariant that says why one client is
safe: at most one is linked (`Alone`); while it is still to be visited nothing of this call was
released or sent (`Untouched`), so that what is sent is the front frame
(`Sending`); a whole frame starts at the left (`WholeFromTheLeft`); and
`CrcShown`, the heart: a client whose last CRC is of a whole screen shows that screen,
as any frame that changes its picture also replaces the CRC.

`RefinesFrameQueue` needs no such assumption: it shows `ImplementsFrameQueue` for any
clients. Its invariant is that no buffer is pending twice (`Distinct`). Then a buffer that
the driver fills is none that waits, so the frames that wait stay as they are
(`PutQueue`), and the pending buffers are at most all of them, which is the queue's
capacity (`DistinctFacts`, an injection into a finite set). `getFrame()` moves frames within
the queue (`GetFrameQueue`), each release is a `Take` or, with nothing to release, a stutter
(`TakeQueue`), `stop()` is a `Forget` (`ForgetQueue`), and the clients' comings and goings are
`Watch` or stutter. `ConcatFacts` and `FramesInFacts` are the facts on sequences.

**`Sessions_proofs`.** `NoSessionMissing` speaks of the states without a signal on its
way; inductive is what the signals say of the others: the last one on its way is the
session manager's list as it is (`LastIsCurrent`), so that with its handling the
property is established, and an identifier about to be pushed was read
(`EntryRead`). `AnnounceKeeps` is the lemma for every change of that list. `Crash` may
leave the session manager's list as it was: the theorem is about the sessions of the
process since.

**`Idle_proofs`.** `CopiesAreRight` is strengthened in the same way to
`TimeoutFollowed` and `PowerFollowed`: no signals before the match, the last signal has the
service's value, and between the Get and the first signal a copy is right or `missed`
(`TakeSignal` and `AddSignal` are the facts on the queues). `missed` is set by a change in
the gap or a failed Get, and never by looking at a copy, so that the theorem says that
nothing else leaves one wrong. `ActiveStays` is a property of the step `CloseIdle`:
`IdleIsInactive` shows that the truncated, wrapped quotient that passes the comparison is at
least the timeout, for any resolution, modulus and delay, or else the duration
was negative by a second or more.

Every invariant and every action property that a passing run checks is a theorem, but
for `SendsPendingFrame`, which holds for one client only and shows its point with two.
Only model-checked: all liveness (`BothThreadsKeepWorking`, `ScreenshotTaken`,
`FormatRestored`, `SizeFollowsHost`, `PendingEnds`, `RevokedDisconnected`,
`ViewConverges`, `IdleIsClosed`, `PointerEventsEnd`) and the fairness part of
`ImplementsRoundSync`, as TLAPS has no support for proving liveness under
fairness.

## Findings

Each is a run that TLC finds violated; the quotations are in `PROJECT.json`.

| run | what happens |
|---|---|
| `manager_overlap` | `serverDone` is not reset when an RFB round starts: the server thread sets it at the end of round *n*, passes `waitVideo()`, as `videoDone` is not cleared yet, and is in round *n+1* when `waitServer()` returns for the resize by the flag of round *n*, although the comment says that it blocks until RFB operations complete. The round may also start a moment later, between `waitServer()` and the clearing of `videoDone` (`ikvm_manager.cpp:104-105`), where waiting does not help; `RoundSync` allows both |
| `video_stream` | a pending `resizeAfterOpen` survives `stop()` when the device is restarted or stopped between a `start()` with a new size and its resize; the next `start()` calls a `resize()` that only resets it, and as the size is the host's already nobody asks for another: the client has no stream for as long as it stays |
| `screen_forgotten` | the video thread works for a screenshot before there is a client, or sees the first client before `newClient()` has run; a resize it defers then is dropped by `newClient()`, and as `needsResize()` reports a mode once, the framebuffer keeps the old size |
| `send_frame_shared` | one client refuses a frame (cut short, or the one it has), which gives the buffer back to the driver; the next client in the same loop is sent that buffer, through the `data` pointer from before, with another buffer's size and box |

Also known from the models, without a run of their own:

- `screenShot()` tests `buffersDone.front() < 0` (`ami/src/ikvm_video_ami.cpp:57`) to
  find out whether there is a frame; on an empty deque that is undefined. `Shots` of
  `VideoLoop` has what may come of it.
- A session signal sent before a registration and handled after it removes the new
  session from the list until the next signal; a frame in between closes the new
  client (`Sessions`).
- `disconnect()` forgets neither `keysDown` nor `keyboardReport`: a key held when the
  last client leaves is pressed again with the next client's first key, and only
  the same keysym releases it (`Keyboard`).
- Keypad `=` is sent as usage 0x67, beyond the `LOGICAL_MAXIMUM (101)` of the gadget's
  descriptor, and the only key that is (`UsagesDescribed`).
- If the host leaves a mode between `needsResize()` and `resize()` and comes back, the
  device is set to the mode in between, `width` and `height` are the host's, and
  nothing repeats the resize (`Video`).
- A property that changes between its Get and its match at start-up stays unknown
  until it changes again (`missed` in `Monitor`).
- A fake NumLock of the video thread and a client's key, both past the test of the map,
  may take the same place of the report; the release of either then frees it for both
  (`overlapped` in `Keyboard`).
- A host that does not report its LEDs keeps a thread in `keyEvent()` for as long as
  standard input has nothing to read: under the service manager it is `/dev/null`, which
  is always readable; from a shell it is the terminal.
- A session that is in force when `ExecStop`'s `Clear` fails is never in the next
  process's list, unless a signal brings it (`inherited` in `Sessions`).
- A screenshot asked for between the picture and the clearing of the flag gets none
  (`VideoLoop`).

## Assumptions and limits

- *Outside `src/`*: the V4L2 driver, libvncserver, the session manager and the
  HID gadget are modelled from how the code uses them and are marked external in
  the map: the driver gives back the buffers it was given, in any order, and
  fills them with what the device is set to; the driver does not echo the partial flag
  in `VIDIOC_G_FMT` (`start()` keeps the flags it is given for format 0,
  `ikvm_video.cpp:479-487`), without which `NoPartialScreenshot` would be about another
  format than the one set; libvncserver links a client before
  the `newClient` hook and unlinks it before the `clientGone` hook.
- *Data races*: the unlocked store to `videoDone`, the stale iterators of
  `clientGone()` and `front()` of an empty queue are modelled by their possible
  outcomes. Two threads inside one container at once (`activeSessionIDs`,
  `keysDown`), or one deleting a `ClientData` the other uses, are undefined
  behaviour of the memory and not modelled: each use is a step.
- *Exceptions* thrown by failed calls end the process; they are the action `Crash`
  of `VideoLoop`, `Sessions` and `Idle`. The other modules' state all starts anew, and
  they have none.
- *Time* is modelled in `Idle` only; elsewhere a timeout is a step that may happen.
- *64-bit values* that two threads share (`lastActivityTime`, `timeoutValue`) are
  read and written whole in `Idle`; on a 32-bit build they might be torn.
- *D-Bus* delivers the signals of one service in their order; a call that fails may
  throw at any time (`Restart`).
- *Not modelled*: the encodings and headers of `sendFrame()` and the LED status it
  tells clients (layout of messages); its RGB24 branch (`start()` lets no such format
  through); `updatePowerSaveMode()` (one call without state, made by one thread in
  hooks whose order is in `Screen`); the parsing of options, whose results are the
  constants; creating the screenshots' directory; scripts, units and build files,
  but for the restart and the descriptor.

## Plan

Done: all components that keep state across calls, each with its properties and
their proofs. What could still be done, by importance:

1. `SendFrame` composed with the camera of `Video`, so that failed ioctls and format
   changes fall into the middle of a `sendFrame()`; the two are checked apart, and
   `VideoLoop` already visits clients on the camera.
2. The LED status told to clients, with a liveness property that every client
   learns it.
