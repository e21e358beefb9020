# A verification development for melonDS

melonDS emulates a Nintendo DS or DSi: two ARM processors, their peripherals and
cartridges, and a Qt front end that runs one or more consoles and connects them.
This directory holds TLA+ models of its control logic, the TLC instances that
check them and TLAPS proofs about them.

* [Inventory](#inventory): the parts of the system and what makes each correct
* [Modules](#modules): what models what
* [Runs](#runs): what is checked, on which instances, and what it shows
* [Fairness](#fairness) and [deadlock](#deadlock)
* [Proofs](#proofs): what holds for every value of the constants, and why
* [Findings](#findings): where the code and what is said about it part
* [Not modelled](#not-modelled) and [plan](#plan)

Checking: `tlc -config X.cfg M` for each run, `tlapm MProofs.tla` for the proofs.

## Inventory

The code under `src/src` is the emulator core; `src/src/net` connects consoles;
`src/src/frontend/qt_sdl` is the Qt front end. Three kinds of thread meet in it:
one emulation thread per console, the user-interface thread, and helpers (the
render thread of the software renderer, the writer of a battery save, the audio
callback, network threads). Consoles of one process share the local
multiplayer hub and the packet dispatcher.

```
 UI thread --messages--> EmuThread --RunFrame--> NDS: scheduler, ARM9, ARM7
     |                      |                      |- GPU: scanlines -> 3D renderer <-> render thread
     |                      |                      |- SPU -> audio ring -> audio callback
     |                      |                      |- Wifi -> MPInterface -> LocalMP | LAN | Netplay
     |                      |- save manager <------|- cartridge save memory
     +-- AudioOutput        |      +-- writer thread -> file
```

In the lists below, *state* is what a component keeps between calls, *hard* what
a test would hardly reach, and *correct* the properties that make it right.
Components marked (modelled) or (partly) have modules; the others are in
`PROJECT.json` with the reason.

### Connecting consoles

* **Local multiplayer** (modelled), `net/LocalMP.cpp`. *State*: one broadcast ring
  of records with a read cursor per instance, a reply ring per host, two
  semaphores per instance, the masks of connected instances and active hosts,
  each host's address and channel, per instance the last host heard and the host
  replied to. *Operations*: `Begin`, `End`; `SendPacket`, `SendCmd`, `SendReply`,
  `SendAck`; `RecvPacket` (polling), `RecvHostPacket` and `RecvReplies` (waiting).
  *Interaction*: every emulation thread calls into one shared object. *Hard*: a
  permit is taken outside the lock and used inside it; overflow, a new round
  or a power change empties a queue while a permit is in flight; the group a host
  waits for is a snapshot. *Correct*: permits and records stay paired, records
  arrive in order and whole, a host reads only replies to its last command, it
  waits for everybody who is in its group, and every call returns.
* **LAN** (partly), `net/LAN.cpp`. *State*: session role, own number, player table,
  ENet peers and their connect ticks, ports of the peers, who is ready, receive
  queue, last host and its peer. *Operations*: `StartHost`, `StartClient`, `EndSession`;
  the handlers of ENet's events and of the six commands; `Process`, `ConnectPeers`;
  `Begin`, `End`; the same sends and receives as above. *Interaction*: the lobby hands
  out numbers and sends lists; clients dial each other from the lists; ENet reports
  links made, lost and refused. *Hard*: a player dials another before that one has
  the list that names it, is refused and dials again; seats, numbers and machines are
  used again by later sessions while frames and commands of former ones are under
  way; readiness is told to whoever links up late. *Correct*: replies go to the peer
  that sent the command; nobody is taken for a former holder of its number; the
  lobby's count is exact; two clients meet, and each knows whether the other is ready.
* **Netplay**, `net/Netplay.cpp`. Session set-up, transfer of a state, input frames
  in lock step. *Correct*: all players apply the same inputs in the same frame.
* **Packet dispatcher**, `net/PacketDispatcher.cpp`. One ring per registered
  instance; old packets are discarded until a new one fits. *Correct*: readers
  find whole packets, the newest ones, in order.
* **Multiplayer interface**, `net/MPInterface.cpp`: selects one of the above.
* **Indirect network**, `net/Net*.cpp`: glue to slirp and pcap.
* **Wi-Fi**, `Wifi.cpp`, `WifiAP.cpp`. Register state, transmission slots, the timing
  of a command, its replies and its acknowledgement on top of the interface.
  *Hard*: duplicates, late replies, a client that falls behind the host's clock.

### The console

* **Scheduler and frame loop** (partly), `NDS.cpp`. *State*: a mask of scheduled slots
  with a deadline each, the cached earliest deadline, the clocks and targets of
  both CPUs, halt and stop flags, sleep mode. *Operations*: `ScheduleEvent`,
  `CancelEvent`, `RefreshEarliestEvent`, `Reschedule`, `RunFrame`, `RunSystem`,
  `RunSystemSleep`, `Halt`/`EnterSleepMode`, `SetIRQ`. *Interaction*: every device
  schedules its work here; callbacks schedule and cancel further events. *Hard*:
  the cached deadline must survive every way of changing the queue; the ARM7 runs
  after the ARM9 over the same stretch of time; sleep mode is entered and left in
  the middle of slices and between frames. *Correct*: no event is missed, called
  early, late or after its cancellation; time does not run back; a frame ends.
  Not modelled: IRQ registers, IPC FIFO, timers, the memory map.
* **Scanlines and display** (partly), `GPU.cpp`. The LCD event walks the lines of a
  frame and calls the renderers; VCOUNT writes reorder them. VRAM banks, capture and
  the display FIFO are not modelled.
* **Software 3D renderer** (partly), `GPU3D_Soft.cpp`. *State*: three semaphores, a
  pending flag, the thread's flag, the decision that a frame is identical, the
  rows drawn. *Operations*: `Reset`, `SetThreaded`, `StopRenderThread`,
  `RenderFrame`, `Restart3DFrame`, `VBlank`, `GetLine`, savestate hooks. *Hard*: jobs
  replaced half-way; row permits left over; the scene latched while a job draws.
  *Correct*: the threads never touch the scene together; rows shown are finished
  and of the latest scene; nobody waits in vain.
* **Geometry engine**, `GPU3D.cpp`: command FIFO, pipe and stall queue, double-buffered
  polygon banks. *Hard*: swapping banks under a drawing thread.
* **2D engines and other renderers**: pixels, OpenGL, Vulkan.
* **Processors**, **JIT**: instruction semantics, generated code.
* **DMA**, **DS and GBA cartridges**, **SPI bus and firmware**, **real-time clock**, **sound
  unit and microphone**, **DSi devices**: register-level state machines that run on
  the console's own thread.
* **Savestates**: a file format over all of the above.

### The front end

* **Save manager** (modelled), `frontend/qt_sdl/SaveManager.cpp`. *State*: the captured
  bytes and the published ones, the dirty range, two version numbers, the time of
  the last publication, the path. *Operations*: `RequestFlush` and `CheckFlush` from
  the emulation thread, `Flush`, `FlushSecondaryBuffer`, `SaveCopy` and `SetPath` from
  callers, the background writer, destruction. *Hard*: the disk is written without
  the state lock; captures, publications and writes can each fail; the file may
  move meanwhile. *Correct*: what is acknowledged is on disk, what is not stays
  pending and scheduled, files never go back.
* **Emulation thread** (partly), `EmuThread.cpp`. *State*: message queue, a semaphore
  with a permit per message handled, the stop token of long work, the result of the
  last message, the console's status, nested pauses, the loan of the graphics context.
  *Operations*: `sendMessage`, `waitMessage`, `waitAllMessages`, `handleMessages`, the
  frame loop, `borrowGL` and `returnGL`, exit. *Hard*: permits of messages nobody waits
  for; a token renewed while a message is queued; pauses by hotkeys, dialogs and frame
  steps across stops and failures. *Correct*: permits and messages are conserved, a
  stop request reaches the work, pauses nest, a loan is honoured, every wait ends.
* **Instance**, `EmuInstance.cpp`: loads, resets and ejects; calls the save managers.
* **Audio output** (partly), `AudioOutput.cpp`. *State*: per device an atomic word
  with the bits "paused" and "in the callback" and a flag that asks for a fade; the
  device in use; a job, a future, a device to be closed and three flags shared with a
  control thread. *Operations*: `Open`, `BeginReopen`, `FinishReopen`, `BeginClose`,
  `Close`, `Start`, `Stop`, destruction; the native callback. *Hard*: the caller's
  waits expire while the control thread is in a native call, so it may open, close
  or destroy again over a request that is still running. *Correct*: `Stop` returns
  only when no callback runs, and none starts after; two devices are never open at
  once; only the control thread closes one; nothing is left open.
* **Dialogs**, **audio interpolation**, **cheats**, **GDB stub**, **storage images**,
  **vendored libraries**: not modelled.

## Modules

| Module | Models | Relations |
|---|---|---|
| `MPRecord` | record sizes and the overflow rule of `MakeRoom` | extended by the next three |
| `MPBacklog` | abstract: what a broadcast queue promises its readers | refined by `LocalMP` and by `LocalMPRing` |
| `LocalMP` | the multiplayer hub: calls, locks, permits, rounds | `Backlog == INSTANCE MPBacklog` |
| `LocalMPRing` | the bytes and cursors of one ring | `Backlog == INSTANCE MPBacklog` |
| `SaveManager` | capture, publication, writers, disk | |
| `Scheduler` | event queue, `RunFrame`, sleep mode | |
| `SoftRenderer3D` | render thread, semaphores, scanlines | |
| `EmuMessages` | message queue, permits, stop token, the console's status, graphics loan | |
| `LANSession` | lobby, clients, mesh of links, readiness, frames; ENet as an external part | |
| `AudioOutput` | caller, control thread and callbacks of an audio output | |
| `LocalMPProofs`, `LocalMPRingProofs`, `SaveManagerProofs`, `SchedulerProofs`, `SoftRenderer3DProofs`, `EmuMessagesProofs`, `LANSessionProofs`, `AudioOutputProofs` | theorems about them | extend them |
| `MC...` | constants for TLC | |

Definitions whose comment begins with "Mutant", "Bug" or "Broken" are plausible
mistakes beside the definition they would replace; nothing uses them. Each
property is known to fail when the definition is replaced.

### Local multiplayer

`LocalMP` takes a call that only sends as one action: it is one section of
`MPQueueLock`. A call that receives is a program counter in `call[i]` and an
action per step, since it takes a permit outside the lock: `wait` (at
`Semaphore_TryWait`), `got` (permit taken, lock not), `collect`, `waitReply`,
`gotReply` for the loop of `RecvReplies`. All actions of other threads may come
between two of them; `Begin`, `End` and the sends may even be of the same
instance, as in `tests/LocalMPInterleaving.cpp`. `packets[i]` and `replies[h]` are
the records between a read cursor and the write cursor. `sem` and `replySem` are the
semaphore counts. A sender's clock is a member of `Time`, an address a model
value, a payload its length. `cast` says which roles the program of each instance may
take, is chosen once and read by no call; `Casts` are the choices. History, which no
guard reads: the numbers of sends (`sent`, `seq`, `cmdSeq`, `lastSeq`, `lastReply`), and
in a call of `RecvReplies` the command it is about (`asked`) and how much had been sent
when it remembered its group (`since`).

`MPBacklog` is what the users of the broadcast queue may rely on: an ordered
backlog of whole records per online instance, lost entirely or not at all.
`LocalMP` implements it whatever the permits do, `LocalMPRing` implements it with
bytes, cursors that wrap and buffers smaller than a record. What a reader has yet to
receive is read back from the ring by a recursive function of the number of bytes
before the write cursor (`Records`).

### Save manager

`sram` is guest memory; an image maps every byte to the number of the guest write
it comes from, so "the file holds what the guest wrote" is an equality. `buffer`,
`secondary`, `version`, `acked` and `timer` are `Buffer`, `SecondaryBuffer`,
`FlushVersion`, `PreviousFlushVersion` and the time of the last publication: `none`,
`fresh` (less than two seconds old) or `due`. The three sections of `FlushFile` are
`FlushFile` (under the state lock), `Commit` or `Denied` (one attempt at the disk,
under the file lock alone), and `FinishFlush` (under the state lock again). `op[w]`
is what the worker or a caller holds meanwhile. Allocations fail at every place
the code checks for it.

### Scheduler

`queue` is the mask, the deadlines and the cached earliest deadline. `at` is the
control point of `RunFrame`: between frames (`frontend`), before a frame's first slice
(`frame`), before a slice (`slice`), in the ARM9's and the ARM7's part of it (`arm9`,
`arm7`), in the walk over due events (`events`) and in sleep mode (`asleep`).
An instruction takes 1 to `MaxInstruction` cycles and may cancel, start or restart
the event of one device; DMA, halting, stalling on the geometry FIFO, power-off
and entering sleep mode are actions of their own. Devices' callbacks act like
instructions. `RunSystem` takes the snapshot of the mask, then one action per
call in slot order, then `EndEvents`. A pass of `RunSystemSleep` is one action:
the callbacks it runs touch only their own event and the interrupt lines, and
nothing else runs in between. `late` and `raced` are history:
the events the ARM7 scheduled in this slice, and the two races described under
[observations](#observations).

### Software renderer

A scene is a number for everything a picture is drawn from; `buffer[y]` is the
scene row y was drawn from, or `None`. `worker` is the render thread's control
point. `sema` holds the three semaphores and `RenderPending`. `at` and `resume` are
the emulation thread's place in the frame, and where the frame goes on if the
guest went to sleep in it; between frames the front end may reset, save, load or
switch the thread. Lines 192, 215 and 262 stand for themselves; the lines between
them do nothing here and are left out. `written` is history: the guest has written VCOUNT
since the last reset. 3D rendering is taken to be powered; see
[observations](#observations) for what a guest can do by switching it off.

### Emulation thread

`queue`, `permits` and `stop` are `msgQueue`, `msgSemaphore` and the state of
`cheatStopSource`; a message also says whether its sender waits for it alone. `at` is
the emulation thread's place in its loop, `ui` the place of the user interface in a
call. `waitMessage` is a step that takes any permit, `waitAllMessages` alternates
between a look at the queue without its mutex (`WaitAllMessages`) and a permit
(`Acquire`), as in the code. `handleMessages` holds `msgMutex` throughout: nobody sends
while `at = "handling"`. `core` is what messages do to the console; kinds that differ
in data only are one kind (`load`: a savestate or its undo; `boot`: a ROM or the
firmware; `cart`: inserting, ejecting, importing). `unclaimed`, `slipped` and `misled` are
history: the permits nobody waits for, a message that met a console in another
state than it was sent for, and a wait that ended before its message was handled.

### LAN

A member of `Clients` is a session of a player: one who leaves and comes back is
another member on the same machine with another port. `node[x]` is the `LAN` object of
player x. `remote` is `RemotePeers` (the `data` pointer of a peer is implied by it),
`dialled` the numbers whose `PeerConnectTicks` is set; "250 ms have passed" is a free
choice of which of them may be dialled again. `players` and `ports` are the lists last
read, `rx` the receive queue.

ENet is external, modelled from how `LAN.cpp` uses it. A link has two ends, each an
`ENetPeer`: `opening`, `open` or `closing`, an ordered reliable inbox for channel 0 and a
set of frames for channel 1, which are unsequenced, so they overtake each other and
the commands. The dialler's CONNECT event comes before the other's; an end whose
other end is gone is reported disconnected; a link may also fail, which `MaxFaults`
bounds together with players who leave. `Leave` of a joining client is also the five
seconds after which `Process` gives up. Every action is one handler under
`SessionMutex`.

### Audio output

A device is an `Impl` that has been opened; `open` is the set of them. `word`, `fade`
and `native` are `callbackState`, `resumeTransition` and the place of a device's
callback in `RenderOutput`; a callback that finds the word not clear plays silence and
is no step. `impl` is the device in use, `job`, `result` and `retiring` are the fields of
`Owner`, `flags` its `exiting`, `closing` and `exited`. `at` is the caller's place in the
call `call`; `thread`, `next` and `doomed` are the control thread's place and its local
variables. Each section of `Owner::lock` is one action. A native open or close is
two: one begins it, and `Opened`, `Unusable`, `OpenFailed` or `NativeClose` ends it.
`TimeOut` ends any bounded wait at any time. Whatever the caller's own assignments
would destroy is closed on the spot (`ClosedHere`), so `ReleasedByOwner` says that
nothing is. `fresh` is history: no client callback has run since the last resume.

## Runs

| Run | Instance | Shows |
|---|---|---|
| `local_mp` | two consoles, both free to host, reply, talk and leave, or a host and two clients, one of which may leave; 3 sends | the safety properties of the hub and its refinement of `MPBacklog` |
| `local_mp_live` | two consoles, as above, 2 sends, two clock values | every receive call returns |
| `local_mp_ring` | ring of 8 bytes, header of 2, records of payload 0, 1, 3, receive buffers of 1 and 3 | the bytes of a ring implement `MPBacklog` |
| `save_manager` | 2 files or none at first, memories of 1 or 2 bytes, 2 guest writes, 2 moves, 1 caller, 1 failure | no guest write is lost between memory, buffers and file, and a pending save is written in the end |
| `scheduler` | 5 slots, frames of 2 lines, slices of 2 cycles, time to 9 | deadlines, order and progress of events, awake and asleep |
| `soft_renderer` | 3 rows, 4 scenes, VCOUNT set to any line at any time | the scene is left alone while a job draws; rows in step are finished, and of the latest scene if VCOUNT was not written; nobody waits in vain |
| `soft_renderer_wake` | 3 rows, 3 scenes, no VCOUNT writes | a finding |
| `emu_messages` | 3 calls of the user interface, 1 message of the thread's own, 1 failure of the graphics context | permits, stop requests, pauses, loans; every call returns |
| `emu_messages_loan` | 2 calls, 1 message of the thread's own | a finding |
| `lan_session` | three sessions of two machines, a lobby of 3 seats, 1 fault, 1 frame | numbers, seats and frames of successive holders are kept apart |
| `audio_output` | 3 devices, any calls, every native call may fail or hang, every wait expire | one device, opened and closed by one thread; the client is quiet when it should be; calls return |
| `lan_session_mesh` | two clients, 1 fault, 2 calls of `Begin` and `End` | clients meet and know of each other's readiness |

### What the properties say

`local_mp`, `local_mp_live`, `local_mp_ring`:

* `PermitsCoverBacklog` relates four things that different calls change at
  different times: semaphore counts, permits in flight and the lengths of both
  queues. A record without a permit would wait for the next send; more than one
  permit too many would make receivers return empty-handed while records follow.
* `HostOwnsReplyQueue`: `SendReply` and `RecvReplies` dereference the reply queue of
  an active host without a test.
* `RepliesAreForTheLastCommand`, `DeliveredInOrder`: what `Wifi.cpp` relies on when it
  builds a round out of commands and replies.
* `EarlyReturnIsComplete`: a host may stop waiting before its timeout when everybody
  has been heard, at the head of the loop or right after a reply. Whoever counted as
  heard answered after the round's own command, not an earlier one, and nobody who
  plays with the host is left out. At the second place the group is the one of before
  the wait, and the property is weaker by exactly those who came since (see
  "Observations"): with `sent` for `call[h].since` TLC refutes it.
* `ImplementsBacklog`: nothing is lost but whole backlogs, by overflow or power.
* `ReceiveReturns`: no call waits for a permit that a reset has taken away.
* `NeverTorn`: records that cross the end of the ring, or exceed the receive buffer,
  leave every cursor on the boundary of a record.

`save_manager`: `NothingMissed` (capture and the dirty range), `AcknowledgedIsDurable`
and `ConfirmedIsDurable` (what is on disk), `FilesOnlyAdvance` (two writers, one file),
`EventuallySaved` (what is pending while the manager runs is saved in the end, once
failures stop, unless the manager is destroyed first).

`scheduler`: `EarliestIsExact`, `NothingOverdue`, `CalledOnTime`, `FrameCanEnd`.
`CalledOnTime` bounds lateness: less than the longest instruction or DMA unit, or,
for an event the ARM7 has scheduled within the slice, less than a slice.

`soft_renderer*`: `SceneIsQuiescent`, `ReadsFinishedRow`, `ShowsLatestScene`, and
`CallsReturn`: a reset, the threaded switch, a state and a frame all return, though a
frame a guest keeps from ending by writing VCOUNT need not. `TypeOK` is about the
semaphores: none holds more than one job is worth, in spite of restarts. The types of
the other modules are proved and not checked by a run of their own.

`emu_messages`:

* `PermitsMatch` is a conservation law over both threads: permits posted and messages
  queued are what the present wait is owed and what nobody asked for. A message
  answered twice, or refused without an answer, breaks it.
* `WaitIsAnswered`: a wait ends only when its message has been handled, provided no
  permit is about that nobody asked for.
* `StopReachesWork`: a frame that takes a new token does not lose a request.
* `PausesNest`: nothing runs while a pause is held, a console paused and switched on
  is held by somebody, the sound is on only while the console runs and can be seen.
* `LoanIsHonoured`: while the interface works on the graphics context, the thread is
  on its way to wait for its return.
* `CallReturns`: every call returns and the thread ends when told. The exceptions
  (`misled`, `slipped`) are the subject of the finding and of the observations below.

`lan_session*`:

* `NothingIsInherited`: the host to reply to, and the frames waiting to be read, go
  with the peer they came from.
* `NumbersAreTruthful` relates a client's links to its list, to its ports and to the
  other player's own idea of its number, across four kinds of event that change them
  one at a time.
* `SeatsAreCounted`: lists whose count is wrong are refused by every client, so a
  miscount would end the session's growth.
* `ReadinessArrives`: over a link open at both ends, what is known of the other, after
  the commands under way, is what the other says of itself.
* `EveryoneMeets`: refusals, retries and a lost link end in one link between any two
  connected clients, with each under its right number, without the five seconds'
  timeout.

`audio_output`:

* `OneDevice` holds across expired waits: the control thread takes a job together with
  the device to be closed, and closes that first.
* `ReleasedByOwner`, `NothingLeft`: a device is always in use, waiting to be closed,
  being closed or in the future, and none of these places is overwritten while it
  holds one.
* `ClientIsQuiet`: between a stop and a start, and for any device but the one in use,
  the client is not called.
* `FadesIn`: the fade is asked for before the callback may run, and not used up early.
* `CallsReturn`: calls return even if a native call hangs, destruction if none does.
  A callback that is leaving wakes the caller that waits for it.

### Why the bounds are enough

* *Local multiplayer.* Two instances are the least with an "other"; either may be
  host and client in turn, which the code treats as one machine per instance
  (`AnyRole`). A group that changes while its host waits takes a third: a host and two
  clients, of which one may leave and come back (`Trio`), meet, join late and leave
  in every order. `local_mp` starts in either. A
  record takes 2 of 6 bytes and one stays free, so the third unread record
  overflows. Three sends make a command, a reply and a second command, a command and
  two replies, or an overflow under a permit in flight. More instances, several hosts
  among three and two addresses are covered by the proofs. The liveness run has two
  instances; it needs the two times for replies that are
  too old, and two sends for a record to skip and one to take.
* *Ring.* Records of 2, 3 and 5 bytes in 8 put every split of header and payload
  at the wrap, and let two records fill the ring but for one byte, and to the
  last byte. `LocalMPRingProofs` removes the bounds.
* *Save manager.* Two bytes tell a whole write from a partial one and a wrap from
  none; two sizes let the memory change length; of two writes one comes before or
  during a disk write and one after; two moves let the save come back to the path it
  was on while a writer holds the other. One failure can hit any step.
* *Scheduler.* One device is frozen by sleep mode and one is not; two devices
  are the least with "an earlier callback acts on a later event". Two lines make
  both branches of the last HBlank. Cycle counts are small but keep the order
  of the real ones: an instruction is no longer than a period, a slice is longer
  than an instruction. Time ends at 9 because `Horizon` stops new slices; that is
  a whole frame, a sleep and the frame after.
* *Renderer.* With three rows there is a first, an inner and a last one. Four scenes
  are a picture, the next, one that replaces it half-way, and one after that.
* *Emulation thread.* A permit nobody waits for, a wait that takes it, and the wait
  that goes wrong for it are three calls, or two calls and a key; a loan under a
  failing context takes one failure. `EmuMessagesProofs` removes the bounds for safety.
* *LAN.* Three sessions on two machines let a session of a returning player meet
  traces of its former one beside a third player; three seats, the lobby's included,
  make the third session find a free seat or none. One fault frees a number for
  reuse, one frame waits or travels across that. For the mesh two clients suffice, since
  links are made in pairs; two turns are an on and an off, or one each; two
  attempts let a refused link be replaced while it closes. `LANSessionProofs` removes
  the bounds for safety.
* *Audio output.* One device may be in use or retiring, one just opened, and a third
  shows that no more is ever open. Nothing else is bounded.

## Fairness

* `LocalMP`: weak fairness of `Continue(i)`. A thread in a receive call runs on, and
  each wait in it has a timeout, which is `PermitTimeout` or `ReplyTimeout`. The
  timeouts are enabled only while no permit is there. Sends and power changes are not
  fair.
* `SaveManager`: the emulation thread runs frames (`RetryCapture`, `CheckFlush`), the
  worker wakes every 100 ms (`WorkerFlush`), time passes (`Elapse`), and a writer that
  has begun ends (`Disk`, `Finish`, `LastFlush`). Guest writes, calls and moves are
  not fair; failures are bounded, so the property says "once failures stop".
* `SoftRenderer3D`: the render thread and the frame loop run, a join and the end of
  loading a state are reached. Sleep, VCOUNT and the front end's calls are not fair.
* `EmuMessages`: weak fairness of the emulation thread, whose loop never blocks but on
  the loan; strong fairness of the user interface inside a call, because a send is
  disabled again and again while the queue is locked, and a thread that waits for a
  mutex gets it. Keys, power-off and new calls are not fair.
* `AudioOutput`: the caller inside a call, the control thread outside native calls, and
  the callback once entered go on. New calls, the start of a callback and the return
  of native calls are not fair; that destruction returns has the hypothesis
  `NativeReturns`, since "the final destructor join still wait[s] for native work".
* `LANSession`: what ENet has to report at an end of a link it reports, as `Process`
  services it every frame, and `Process` itself runs. Joining, leaving, failing links,
  `Begin`, `End` and frames are not fair.

## Deadlock

TLC checks for deadlock in the `local_mp*`, `soft_renderer*` and `audio_output` runs. It is switched
off where the system may stop: a destroyed save manager does nothing more; a guest
may power off, and `Horizon` ends the scheduler's instance; an emulation thread ends
when told; a LAN session rests when everybody has met or gone. What matters of it there
is a property instead: `EventuallySaved`, `FrameCanEnd`, the `CallReturns` of
`EmuMessages`, `EveryoneMeets`.

## Proofs

Every theorem is checked by TLAPS from the assumptions named in the module
(`QueueAssumption`, `RingAssumption`, `InstAssumption`, `PathAssumption`, `LengthAssumption`,
`AttemptsAssumption`, `BoundAssumption`, `SlotAssumption`, `CycleAssumption`,
`NeverAssumption`, `PeriodAssumption`, `LineAssumption`, `LANAssumption`,
`LinkAssumption`, `DeviceAssumption`) and nothing else. They are
typing facts, but for two: `PeriodAssumption` says a period of the LCD, the mixer and
the RTC is no shorter than the longest instruction or DMA unit, and `RingAssumption`
that a record is shorter than the ring, as `kMaxFrameSize` (0x948) is next to
`kPacketQueueSize` (0x10000). TLC evaluates all of them in the runs.

**LocalMPProofs.** `TypeCorrect`, `PermitsCorrect`, `ReplyQueuesOwned`, `DeliveryOrder`,
`RoundsIsolated`, `EarlyReturns`, `RefinesBacklog`, for any number of consoles and any
sizes. Permits
and ownership are inductive given types: a send adds a record and a permit or
resets both, a reset empties both, and a permit in flight accounts for the one too
many. Order needs `SeqInv`: the numbers of unread records increase, lie above
the last one handed out and do not exceed the number of sends. Rounds need that a
command empties the reply queue in the section in which it changes the announced
address. `EarlyReturns` needs `RoundInv`, three facts about each host `h`: a console
off the air plays with nobody, and a reply in a ring is no newer than its sender's last
one (`Players`); a console counted as heard answered after the command the call is
about (`HeardInRound`); and while `h` waits, whoever plays with it and is not in the
remembered group came after that was taken (`CameSince`). Refinement goes action by action: sends are `Broadcast`, `TakeRecord` and
`SkipOwnRecord` are `Take`, `Begin`, `End` and `NothingToRead` are `Join`, `Leave` or a
stutter.

**LocalMPRingProofs.** `RingInvariant`, `NoneTorn`, `NeverInvalid`, `RingRefinesBacklog`, for
any ring, header and records that fit it, any number of readers and any receive
buffers. The invariant is that every connected reader has whole records before it
(`WholeRecords`), beside types. A fact about `Records` or `Bytes` for every number of
bytes is proved without an induction theorem: the numbers it fails for would have a
least one (`MinExists`), which the step from smaller numbers excludes; the same
argument shows that the recursive functions exist (`StepSolvable`, `SumSolvable`). From
there on the lemmas follow the code. `RecordsBytes`: unread records take exactly the
bytes between the cursors, so `Distance` in `MakeRoom` measures the backlog.
`Untouched`: a record that fits is written on bytes no reader has yet to read, however
either wraps. `Appended`: it is then the last of what a reader has. `Received`: the two
or three moves of the read cursor end where the next record starts. `Found`: what is at
a cursor is the header of a whole record, so the branch that drops a backlog for
an invalid one is never taken. With these a `Send` is a `Broadcast`, a `Receive` a `Take`.

**SaveManagerProofs.** `SaveTypes`, `CaptureComplete`, `Acknowledged`, `Confirmed`,
`PendingScheduled`, `WritesInOrder`. `AcknowledgedIsDurable` alone is not inductive: a
write in flight may carry anything. `IInv` adds that one writer at a time holds the
file lock, that what it carries is a publication newer than the acknowledged one
and is the present one if the versions agree (`WriterSound`), that the two buffers
agree when nothing is requested (`Synchronised`), and that a committed write is in
its file.

**SchedulerProofs.** `SchedulerTypes`, `DeadlineExact`, `NoneMissed`, `FrameEnds`, `OnTime`,
`TimeRunsOn`, for any slots, devices and lengths. `IInv` says where the three clocks are
at each control point (`BetweenSlices`, `ARM9Runs`, `ARM7Runs`, `EventsRun`): the ARM9
stops within an instruction of a target no event precedes; the ARM7 schedules ahead of its own
clock, perhaps behind the ARM9's, and those are the events in `late`; in the walk
every event is ahead or still to come. `FrameBegins` says why `StartFrame`, which
counts from the last LCD event, schedules ahead of now. `FrameGoesOn` carries the
LCD event through sleep mode. The lemmas about the queue say what `ScheduleEvent`,
`CancelEvent` and `RefreshEarliestEvent` do to any queue.

**SoftRenderer3DProofs.** `RendererTypes`, `Joined`, `SceneLeftAlone`, `RowsAreFinished`,
`LatestIsShown`, for any number of rows, scenes and VCOUNT writes. A submitted job is a
token that is in one place: the start semaphore, the render thread, or the done
semaphore (`Token`).
When `FinishRendering` can return, the token is gone, so the thread waits: that is
`SceneIsQuiescent`. `Permits` counts the row permits, posted and taken, against the
rows finished. `Current` says which rows may be of an older scene, and holds as long as
VCOUNT has not been written; a reset makes it hold again (`ResetIsCurrent`).

**EmuMessagesProofs.** `MessageTypes`, `PermitsConserved`, `StopRequestsLast`,
`WaitsAreAnswered`, `PausesAreNested`, `LoansAreHonoured`, for any number of calls, keys
and failures. `BoxInv` joins the two counts, `PermitsMatch` and `StopReachesWork`: each
sends, answers or takes in step. `PauseInv` strengthens `PausesNest` by what a console
may be in any state (`Sane`): in particular the status before a pause, which the last
unpause restores. `LoanInv` says that the messages nobody waits for are of the kinds
that leave the result alone (`OwnSends`), that at most one message of the queue is
awaited and is that of the present call (`OneAwaited`), and that from the handling of
`borrow` to the return `lent` and `glBorrowed` stay set (`LoanInForce`), unless a wait
was misled.

**LANSessionProofs.** `SessionTypes`, `NothingInherited`, `TruthfulNumbers`,
`CountedSeats`, `ReadinessCorrect`, for any number of sessions, seats, links, frames and
faults. A link is
truthful because every client is given one number, once, on its own link to the
lobby: `OneNumber` says that all claims in the system of what number a client has,
in the player tables, in the ports and in the commands under way, agree;
`NoneBefore` that there are none before the lobby's CONNECT event; `DialledOnce`
and `EndsOfRunning` that this event happens once per session; `Consistent` ties each
player's links to its lists. Most steps only consume a command or change a player's
own state, and are handled together as steps that add no claim.

`ReadinessArrives` speaks of the order of commands in an inbox, and of a link whose
two ends open one after the other. `ReadyInv` takes every link by itself: an open end
belongs to somebody's number and a number has its end (`EndOwned`); what a player
will have heard once the commands under way have arrived is what the other end, once
open, is (`EndHears`); the end that was dialled appears when the other opens, and
nothing is said before (`EndsInOrder`); the lists on the way to a client name its
machine (`ListsFit`). `Attentive` adds what a player's own state has to satisfy for
this to last: one that is connected is listed, has no link under its own number,
marks as ready only numbers that have a link, and a number that is freed takes its
mark with it. A link
is heard over only if one number owns it (`SoleOwner`), which `NumbersAreTruthful`
gives. `StepLink` covers the steps that leave the ends of a link as they are, `MetLink`
those that make or open one, `LetGoLinks` those that close some; `LastSaid` says that
the last word of an inbox is what the receiver will believe.

**AudioOutputProofs.** `OutputTypes`, `OneDeviceOpen`, `StoppedIsQuiet`,
`NothingLeftOpen`, `FirstIsFaded`, `OnlyOwnerCloses`, for any number of devices.
`NothingLeft` and `OneDevice` are not inductive: what makes them so is `OnePlace`, that
the open devices are those in use, retiring, in the future or doomed, and at most
one place is filled. It rests on `Outstanding` (the future is pending exactly while its
job is queued or being run) and on what the caller knows at each point
(`CallerPoints`): it submits only when there is no result, and waits to join only when it has no
device. `Callbacks` relates the two bits to the places of callback and caller.

Every safety property of a run that passes, and both refinements, are theorems.
Only model-checked is liveness (`ReceiveReturns`, `EventuallySaved`, `CallReturns`, both
`CallsReturn`, `EveryoneMeets`), which TLAPS does not prove under fairness. The two
properties under "Findings" are refuted, not proved.

## Findings

Each is a run whose property states what the code or its comments say, and whose
counterexample shows what the code does.

1. `soft_renderer_wake`. `GPU3D_Soft.cpp:1952` says any permit will do for a row. When a
   frame is restarted on a visible line, on waking from sleep, the permit for the
   first row is taken for the line the display is at.
2. `emu_messages_loan`. `main.h:63` promises to stop every running worker before the
   interface works on the native context. A message nobody waits for leaves a permit;
   `waitMessage` of `borrowGL` takes it and returns before the thread has handled its
   message. If the last result was 1, the interface takes the context as lent while
   the thread goes on.

### Observations

What the modelling showed beside the runs, by reading the code for an action or by
a counterexample that led to an exception in a property.

* *Local multiplayer.* `LocalMP.cpp:518` says "all the clients have sent their reply".
  The group in which it looks is the one of before the wait. A client that joins the
  host's session while the host waits is not in it, and if the others are heard first
  the round ends with that client's reply still in the queue.
* *Scheduler.* Two orders of events leave a frame without an LCD event, so that
  `RunFrame` would go on without end; the model marks them with `raced`, and
  `FrameCanEnd` holds without them. (a) An interrupt the ARM7 has enabled arrives in the
  slice in which it asked for sleep mode: `CPUStop_Wakeup` stays set, and the next
  `RunFrame` takes the frame for one that goes on. (b) The frame finishes in the slice
  in which sleep mode was asked for.
* *Scheduler.* `NDS.cpp:1102` says that sleep mode keeps outputting audio. Passes do end
  at the mixer's deadline, but the mixer is put off, not run.
* *Renderer.* `GPU.Reset` resets the VRAM caches after the renderer's `Reset` has started
  a job. The job draws an empty list of polygons, so nothing is read that changes.
* *Renderer.* `GPU3D_Soft.cpp:1925` says that when no rendering is needed, nothing is
  drawn. A VCOUNT write that skips line 215 leaves the decision of the scene before,
  and the restarted job draws nothing of the new one.
* *Renderer.* A write of POWCNT1 that switches 3D rendering off resets the latched scene
  at once (`GPU3D.cpp:566`), while the render thread may draw from it, although it is
  "safe to access the GPU state" only after the job (`GPU3D_Soft.cpp:1934`).
  `RenderFrameIdentical` is left as it was. `SceneIsQuiescent` and `ShowsLatestScene` are
  about guests that leave 3D rendering on. The geometry engine's swap of banks, on the
  other hand, is safe with rendering off: no polygon is left to draw, and VBlank has
  waited for the job.
* *Save manager.* `SaveManager.h:44` says of `SetPath`: "Relocate the current save and keep
  its latest bytes pending for the new path." After a finished write nothing is
  pending, and the new path gets no file until the guest writes again. A comment in
  `SaveManager.cpp` and a test describe the behaviour of the code.
* *Emulation thread.* (a) A message of a hotkey that is refused for want of the context,
  handled between a loan and the reading of its result, sets the result to 0: the
  interface does not take the loan it was given, and nobody returns it. (b) A pause,
  stop or frame step queued behind an exit sets the status back, so the thread does
  not end and the destructor of the instance waits. (c) A frame step sent with no
  pause held leaves a console that is paused with a count of 0. (d) A pause, a stop
  and the end of the pause leave a console running that is not active. (c) and (d)
  and whatever follows (b) are what `slipped` and the wording of `PausesNest` except.
  (e) The frame-step hotkey does not ask whether a console exists, and the frame that
  follows does not either (`EmuThread.cpp:257`).
* *Audio output.* (a) `AudioOutput.h:45` says a failed `Close` "leaves the request
  outstanding so the next call can still consume it". The device has left `impl` by
  then, so the next `Close` finds none and returns true at once, perhaps while the
  native close is still running. (b) A `Close` that times out before the control
  thread has looked at it leaves `closing` set; an open submitted next is taken with
  the same wake, which does not clear it. A later `Close` may have its `closing` cleared by
  the pass for the former one and return true with its own device still in `retiring`,
  to be closed with the next job or at destruction.
* *LAN.* `Begin` while the client is still joining returns without effect, and no later
  step makes up for it: the player is never shown as ready until the guest begins anew.

## Not modelled

Data is abstracted where no property needs it: what a frame contains, how a polygon
is drawn, what an instruction computes. Within the modelled components these are
left out:

* `LocalMP`: the argument checks that reject a record, which change nothing; failure
  to allocate a reply queue, which does nothing; the setting of the receive timeout.
* `SaveManager`: `PublicationFailed` and logging; how many milliseconds a retry waits.
* `Scheduler`: IRQ registers (an interrupt may or may not end a halt), timers except for
  the interrupts they raise, IPC, the debugger, loading a state, VCOUNT writes, the
  display FIFO's event.
* `SoftRenderer3D`: whether 3D rendering is powered, the geometry engine's banks (a
  scene is one number), drawing the next row before finishing one.
* `EmuMessages`: windows other than the first, which share its context; the suspension
  of sound for work of the host and the passes that compile shaders; the debugger's
  loop; the speed limiter, of which the wait for the sound is modelled as always on;
  what a message loads; that a frame needs a console.
* `AudioOutput`: what a device reports of itself (`IsRunning`, `NeedsRecovery`, routes
  changed), formats, hints and enumeration; a task or thread that cannot be allocated;
  the recovery loop of `EmuInstanceAudio.cpp`, which calls the operations modelled here.
* `LANSession`: discovery of lobbies, which touches no session; the wait of a receive
  call for its timeout, the collection of several replies by `RecvReplies` and the
  result that tells a client its host is gone; peers that do not know the port
  extension or speak another version.

Components without a module are listed with their reason in `PROJECT.json`: a
protocol that is planned, data and file formats, generated or vendored code, calls
of external libraries. By lines, most of the repository is of these kinds: headers
of vendored libraries, tables, instruction semantics, pixel computation and user
interface.

## Plan

Modelled so far: what several threads or several machines touch, and what everything
else in the console depends on. Next, in this order:

1. `PacketQueues`: the dispatcher, with the ring operators of `LocalMPRing`; abstract
   specification: the newest packets, whole and in order.
2. `WifiRound`: the command, reply and acknowledgement of `Wifi.cpp` on top of
   `MPBacklog`; property: the ages of replies that `LocalMP` leaves open.
3. The recovery loop of `EmuInstanceAudio.cpp` on top of `AudioOutput`, composed with the
   sound flag of `EmuMessages`.
4. In `SoftRenderer3D`: writes of POWCNT1 and the two banks.
5. In `Scheduler`: loading a state as an action (slots rewritten from older versions),
   VCOUNT writes as the renderer's model has them, timers and IRQ registers; then
   `IPC` as a module on its own.
6. `CartTransfer`, `DMAChannels`, `RTCClock`: register-level machines, the clock's calendar
   checked against a reference definition.
7. `Netplay`: lock step of input frames.

To prove then: that `PacketQueues` implements its abstract specification, with the
lemmas of `LocalMPRingProofs` about the ring, and that no bank is written while it is
drawn from.
