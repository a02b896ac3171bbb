# A verification of divoomd

`divoomd` (`src/divoomd`, Rust on tokio) is the daemon that owns the Bluetooth
links to a household's Divoom panels. Command lines, a desktop application, a
menu-bar agent, an MCP server and scheduled jobs all ask it to draw, and it has
to give each panel's one radio to one of them at a time. This directory models
the parts of it, and of the Python programs around it, in which several tasks or
processes share state: the command queue of a link, the screen lease, what a
panel shows, which panels the daemon holds and remembers, the classic Bluetooth
bridge it starts, the readers of the wire framings, the hot channel update, the
Bluetooth link of the Python library, and how clients start, replace and stop
the daemon itself. TLC checks small instances; TLAPS proves all safety properties
but one (`NobodyStuck`, which is about `ENABLED`) for every instance, two of them
under a hypothesis that section 5 states.

1. [The system](#1-the-system)
2. [Modules and how they correspond to the code](#2-modules-and-how-they-correspond-to-the-code)
3. [Runs](#3-runs)
4. [Fairness](#4-fairness)
5. [Proofs](#5-proofs)
6. [What the models show of the code](#6-what-the-models-show-of-the-code)
7. [What is not modelled](#7-what-is-not-modelled)
8. [Plan](#8-plan)

Checking by hand, in this directory:

    tlc -workers 2 -config CommandQueue.cfg       MCCommandQueue
    tlc -workers 2 -config ScreenLease.cfg        MCScreenLease
    tlc -workers 2 -config LiveScreen.cfg         MCLiveScreen
    tlc -workers 2 -config FleetLinks.cfg         MCFleetLinks
    tlc -workers 2 -config SppBridge.cfg          MCSppBridge
    tlc -workers 2 -config RxFraming.cfg          MCRxFraming
    tlc -workers 2 -config HotUpdate.cfg          MCHotUpdate
    tlc -workers 2 -config BleLink.cfg            MCBleLink
    tlc -workers 2 -config DaemonLife.cfg         MCDaemonLife
    for m in CommandQueue ScreenLease LiveScreen FleetLinks SppBridge HotUpdate BleLink DaemonLife
    do tlapm ${m}Proofs.tla; done

`PROJECT.json` lists the components, the runs, for every property a mutation of
the model that it catches, the source lines of every definition, the hazards
the properties are for, and the theorems.

## 1. The system

File names below are under `src/divoomd/src/` unless they say otherwise.

### 1.1 How the parts fit

    clients ──► socket server ──► dispatch ──► resolve the panel
    (CLI, GUI, menu bar, MCP)                     │
                                                  ├─ connect / disconnect ─► fleet, radio, saved links
                                                  ├─ lease_*  ─► lease slot of the Device ─┐
                                                  ├─ live_job_* ─► live job of the Device ─┤
                                                  └─ device_call ── preempt, claim ────────┤
                                                                                           ▼
                                        Device ── Link { transport, queue, retired } ── CommandQueue ── radio
                                                                                           │
    subscribers ◄── pump ◄── event bus (32 events, latest value of each key) ◄── screen record, link status, ...

- A `Device` outlives its connection. It has a `Link` while connected; a
  reconnect puts a new link in place and retires the old one. Lease, live job,
  screen record and frame number belong to the device, queue and `retired` flag
  to the link. Each field has its own mutex, held for one access; only `adopt`
  holds one (the fleet's) while it takes others (to attach the link).
- Every request is a task. Besides them run, per link, the queue's worker; per
  live job, its task; per granted lease, an expiry watcher; and, once each, the
  restore of saved panels, the schedule of the monthly-best push, the accept
  loop and a watchdog thread.
- Tasks talk by method calls on shared `Arc`s, by the queue's `Notify` and
  one-shot channels, by `alive`/`retired` flags, and by the broadcast ring.

### 1.2 The components, the state they keep, and what must be right

| component | state | operations | what makes it correct |
|---|---|---|---|
| **command queue** (`command_queue.rs`) | pending items with token and age; owner, idle deadline, held, stopped; a `Notify` permit; the worker | submit, acquire (gate, then enqueue), acquire_now, hold, release, stop, the worker's loop | one operation at a time and in order; a session's slot keeps others out; no wake-up lost; nothing started late; every waiting caller is answered; a lease is never reaped |
| **screen lease** (`lease.rs`, `device/lease.rs`, `device/slot.rs`) | the device's lease slot (empty, a lease with generation and expiry, closed), the hold on the current link's queue, one watcher per lease | acquire, renew, release, expiry, carrying a lease over a reconnect, forgetting the device | lease and hold agree; a lease ends, and only its own; a disconnect leaves nothing behind |
| **live screen** (`live_jobs/frame.rs`, `live_jobs/coordinator.rs`, `device.rs`, `device/screen.rs`, `daemon.rs`) | the installed job and its `alive` flag, the newest saved frame, the frame number, the screen record | start, stop, push of a frame, device_call with preemption and claim, repaint at the end of a lease | the user's image stays; only the lease's holder draws; no old frame over a new one; the record is true |
| **fleet and selection** (`device/fleet.rs`, `daemon_connect.rs`, `daemon_connect/radio.rs`, `daemon/link.rs`) | entries and their links, the active panel, who has the radio, what the radio holds open | connect, adopt, disconnect of one or all, select_device, report of a dead link | one connection per panel; none lost track of; an active panel while one is linked |
| **saved links** (`links.rs`) and **monthly-best link** (`monthly_best_link.rs`) | the list in memory, the file behind it; a borrowed link | remember, forget, persist, restore at start; borrow, give back | what is linked is written down; what was dropped stays dropped |
| **event bus and pump** (`events.rs`, `socket_server/pump.rs`) | a ring of 32 events, the latest value per key, each reader's position | publish, receive, resynchronise a reader that lagged | a subscriber never goes back in time, and ends up with the latest value of every key |
| **subscription registry** (`subscriptions.rs`) | named subscribers with their last activity | admit, take over a name, evict the stale, release by drop | never over capacity; a release never removes a successor; the fresh are not evicted |
| **socket server** (`socket_server.rs`, `socket_server/accept.rs`, `connections.rs`, `deadlines.rs`) | connection permits, the subscribers' share of them, a deadline per command | accept, shed, serve, cut a handler off | answers while at the cap; subscribers alone cannot fill it; a handler cut off leaves nothing half-done that matters |
| **socket path and owner** (`socket_bind.rs`, `socket_owner.rs`, `main.rs`) and **daemon clients** (`divoom_client/daemon_client.py`, `daemon_version.py`; `divoom_gui/gui_main.py`, `scanner_mixin.py`) | the socket file, the lock file, the inode each daemon bound; per client how far `ensure_daemon` is, the application's window and whose events it follows | start, probe, replace a stale daemon, shut down, bring back, Quit | one daemon at a time; nobody unlinks another's socket; the application keeps a daemon, and follows a deliberate end |
| **watchdog** (`watchdog.rs`) | a heartbeat of the accept loop, a monotonic and a wall clock | beat, look, end the process | a wedged loop is found, a suspended machine is not taken for one |
| **hot channel update** (`examples/divoom_legacy/tools/hot_update.py`, `ble_notify.py`; `art_hot/session.rs`, `hot_progress.rs`, `hot_verdict.rs`) | the upload session the panel drives, the request at hand, the queue of notifications, what was served; the progress cell, the verdict | begin, answer a request, stream, resend, time out, report | every session ends; what is reported as confirmed is in the panel; nothing said in time is lost |
| **daemon BLE transport** (`ble.rs`, `ble/connect.rs`, `central.rs`) | the characteristic, incoming frames, a central that may be rebuilt | write, await an answer, stream an animation, reconnect | an answer is the answer to this command |
| **framing** (`divoom_lib/framing.py`, `bt_spp_rfcomm.py`; `framing.rs`) | the bytes kept between two pieces of the stream | take a frame, step over noise, wait for more | each frame is read once and in order, whatever stands between; the wait is bounded |
| **classic Bluetooth bridge** (`spp.rs`, `spp_bridge_protocol.rs`; `divoom_client/spp_bridge.py`, `divoom_lib/bt_spp_transport.py`) | the co-process, its two pipes, two threads, three tasks and two queues in it, the panel's RFCOMM channel; the call that holds the transport | connect, write a frame, print a notification, disconnect, die | no frame overtaken, none lost but by a wait that ran out; a goodbye overtakes no command; the channel is given up |
| **library BLE link** (`examples/divoom_legacy/ble_transport.py`, `ble_connection.py`, `ble_registry.py`, `connection.py`, `wall.py`) | per transport what the OS says, the broken flag, notifications; the write lock, the connect lock, the registry of the address | connect, `ensure_connected`, send with reconnect, evict, disconnect | one connection per address and the registry knows it; the locks never block everyone |
| **wall** (`wall/*.rs`) | slots and the panels in them | one call fanned out to all slots | every slot is accounted for in the outcome |
| routing, renderers, LAN, cloud, notifications, now playing, MCP, codecs, menus and windows, command line, scripts | see section 7 | | |

### 1.3 The hard behaviours

Almost all of them come from one design decision: many small locks, each held for
a single access. Between any two critical sections of one request, any other
task may have a step.

- *Check, then act.* `acquire` looks at the owner and enqueues in two critical
  sections; `lease_acquire` holds a queue and then records the lease; `attach`
  copies the lease to a link that is not in place yet; a live frame is saved,
  the lease looked at, the frame queued; a connect looks for a link before it
  has the radio and again after.
- *Late turns.* What was decided before queueing may be untrue when the turn
  comes: the job was stopped, the image superseded, the link retired.
- *Timers.* An idle deadline, an item's age, a lease's expiry, a command's
  budget: each races the event that makes it moot.
- *Identity.* A lease replaced by another, a link replaced by a reconnect, a
  report that names a panel when it means a connection.
- *Order of two stores.* The fleet and the list of saved panels, the list and
  its file, the queue turn and the screen record.
- *Processes.* Several programs start, replace and stop one daemon, over one
  connection per question; a bridge lives at the far end of two bounded pipes.
- *A partner that drives.* A panel requests, repeats itself, is late, refuses,
  calls off; a radio loses, cuts and invents bytes.

`PROJECT.json`, "hazards", has each at its line.

## 2. Modules and how they correspond to the code

### 2.1 `SerialQueue`: what the queue promises

The abstract specification: a queue of operations, at most one running, an owner
of the slot, possibly by lease, and whether it is closed. An operation starts
only if it is the oldest, or the owner's oldest while somebody owns the slot.
No worker, no wake-up, no clock.
`CommandQueue` implements it, `LiveScreen` is written on top of it, and what
`ScreenLease` does to a queue's owner is proved to be steps of it.

### 2.2 `CommandQueue`: how it keeps the promise

| model | code (`command_queue.rs`) |
|---|---|
| `pending`, `owner`, `deadline`, `held`, `stopped` | `Inner`, under the mutex |
| `notified` | the permit `Notify` stores |
| `worker`, `current`, `nap` | where the worker task is; `nap` is the `rem` it sleeps on |
| `stage[j]`, `kind[j]`, `token[j]`, `age[j]` | an item, its receiver, and the permit of an `acquire()` |
| `Submit` | `submit`/`run` |
| `Gate`, `Enqueue` | the two critical sections of `acquire` |
| `LetGo` | the caller's future, or its `QueuePermit`, is dropped |
| `AcquireNow`, `Hold`, `Release`, `Stop` | the methods of those names |
| `NextStep` = `Expires` and `Dispatch`, `ForceRelease` or `Rest` | `next_step`: `Step::Run`, `Step::Again`, `Step::Wait` |
| `Wake`, `SleepOver`, `JobReturns`, `Rearm` | the awaits of the worker's loop |
| `Tick` | time: deadlines count down, pending items age |

A deadline is a number of ticks left, 0 when it has passed. `Serial` is the
refinement mapping (`queue <- ` the pending jobs with their tokens, `running <-
current`, ...), `ImplementsSerialQueue` the property that `CommandQueue`
implements `SerialQueue` under it.

### 2.3 `ScreenLease`: who holds a panel, across reconnects

One device. `lease` is its slot, `link` its current connection, `owner[l]` the
token the queue of link `l` is taken for, which is the part of the queue a lease
uses. A call draws its token and its generation together, so one element of
`Agents` stands for a call, its token and its generation.

| model | code |
|---|---|
| `AcquireLook`, `AcquireHold`, `AcquireSet` | `cmd_lease_acquire` before and after the channel query: slot read, `queue.hold`, `set_lease` with the watcher's spawn |
| `Renew`, `Extend` | `cmd_lease_renew`, `Device::extend_lease` |
| `WatchLook`, `WatchEnd`, `WatchFree` | the expiry watcher, `take_lease`, `queue.release` |
| `ReleaseFind`, `ReleaseRead`, `ReleaseEnd`, `ReleaseFree` | `cmd_lease_release`: find the panel, read its slot again, `end()` |
| `AttachMake`, `AttachSwap`, `AttachRetire` | `Device::attach`: a link held for the lease it read, put in place, the old one retired |
| `Detach`, `DetachRetire` | `link_failed`, `Device::detach`: the link taken out, then retired |
| `Remove`, `CloseSlot`, `Forget` | `Fleet::remove`, `Device::forget` |

### 2.4 `LiveScreen`: what a panel shows

One panel and one connection, whose queue is an instance of `SerialQueue`
(`Queue`): live jobs, device_calls and the end of a lease all reach the panel
through `Queue!Accept`, `Queue!Start` and `Queue!Finish`, so what is checked
here rests on the promise `CommandQueue` is proved to keep. An operation the
detailed queue gives up appears as a turn that fails. `retired` and `closed` are the two steps
of `Link::retire`.

| model | code |
|---|---|
| `Spawn`, `Install`, `StopJob` | `coordinator.start`, `install_live_job`, `live_job_stop` |
| `Render`, `Save`, `AskLease`, `Push`, `Resume` | `push_live_frame`, step by step |
| `CallArrives`, `CallPreempts`, `CallClaims`, `CallQueues` | `cmd_device_call`: the look at the lease, the preemption, `frame_gen`, the queue's permit |
| `Begin`, `Draws` | a turn comes: the fence of a frame, of a repaint, of an image |
| `Complete`, `Fail`, `StopQueue` | it ends, it fails, the queue is stopped |
| `LeaseHold` ... `EndRecord` | the lease from its hold to the repaint and its record |

`panel` is what the glass shows, `screen` what the daemon says it shows. `Aborted`
says what `LiveJob::stop` does to a task: dropped at an await, run on to the
next one otherwise.

Variables marked *(history)* record what a property needs and no code keeps:
`fenced`, `heldBack`, and in `FleetLinks` `cutOff`, `mixed`, `dropped`.

### 2.5 `FleetLinks`: which panels the daemon holds and remembers

One life of the process, from whatever the file held. A task is a program
counter `at[t]` with what it carries (`kind`, `panel`, `hand`, `draft`, `next`),
and each lock the code takes is an action: `Ask`, `TakeRadio`, `LookAgain`,
`Dial`, `Attach`, `LookSelected`, `SelectFirst`, `Remember`, `PersistLinked` are
one connect; `FindDevice`, `RemoveEntry`, `LookActive`, `Unselect`, `FindNext`,
`SelectNext`, `HangUp`, `Forget`, `PersistDropped` one disconnect; `UnselectAll`
and `DrainEntries` begin a disconnect of all. `LookHeld`, `LookWanted` and
`GiveBack` wrap a connect and a disconnect for the scheduled push.
`RestoreNext` gives the restore its next saved panel. `LinkDies`, `CallFails`,
`ReportGone` are a connection that is lost, a call that finds out, and the
report that detaches the panel's link. A crash is any prefix of a behaviour: the
file is what the next life starts from.

### 2.6 `RxFraming`: reading frames out of a byte stream

A panel sends a script, a sequence of frames and stretches of noise; `Receive`
hands over any number of its next bytes. Each turn of a loop is a step:
`IosTake`, `IosResync`, `IosLeave` of `_on_data`, and `BasicShort`,
`BasicNoStart`, `BasicWait`, `BasicResync`, `BasicTake` of
`parse_basic_protocol_frames`. Lengths, sums, the two layouts and what makes a
candidate valid are operators on byte sequences (`BasicValid`, `IosValid`,
`BasicMessage`, ...). The reference is `Arrived`, the frames that lie wholly in the
first bytes of the stream, and `Reads`: the queue holds what they say, each once
and in order. Its `RxInit`, `RxNext`, `RxSpec` and `RxTypeOK` are named apart
from the bridge's, because the proofs are about both modules.

### 2.7 `SppBridge`: the co-process for classic Bluetooth

| model | code |
|---|---|
| `Spawn`, `FirstLine`, `Connected`, `NotConnected`, `DaemonReads` | `SppTransport::connect` and its reader task |
| `Call`, `CallEnds`, `Held`, `LetsGo` | `device_call`: the permit and the transport it holds to its end or its time's |
| `Send`, `Drain`, `Ask`, `Waits`, `HangUp` | `send_command`, `send_command_and_wait`, `disconnect` |
| `TakesOut`, `Leaves`, `HangUpCut`, `Detach` | `cmd_disconnect(_one)`: out of the fleet, then the goodbye, or the command's budget; `link_failed` |
| `Tears` | a write given up while the pipe is full leaves a piece of its line |
| `ReadLine`, `WriteEnds`, `ReadEnd` | `read_stdin_loop` and the `send_frame` it awaits |
| `Notify`, `Prints`, `PrintBreaks` | `read_notifications_loop`; `print()` holds the loop while stdout is full |
| `MoverStarts`, `MoverPuts`, `PutFrame`, `GoesOn` | `_rx_loop` |
| `ThreadTakes`, `ThreadFindsNone`, `WaitRunsOut`, `MoverLate`, `LetGo` | `read_notification`: an executor thread takes the frame, `wait_for` ends the wait after 1.5 s |
| `Opens`, `OpenFails`, `GatherEnds`, `Closes` | `main()` around `BTSppTransport.connect` and `disconnect` |
| `Hears`, `Drops`, `DaemonDies` | the radio's thread, a lost link, the daemon's end |

Frames and writes are numbered in the order they were sent, so an order is a
comparison of numbers; what bytes are is `RxFraming`'s.

The thread takes a frame whether or not `print()` holds the loop. If it holds
it for longer than `wait_for` waits, the finished future and the timeout come in
the same turn of the loop, the timeout wins (since Python 3.12; the repository
asks for 3.15), `_rx_loop` continues, and the frame in the thread's hand is gone:
`WaitRunsOut`, then `MoverLate`. Nobody waits for a call before its link is hung
up: `TakesOut` and `HangUp` leave it its transport, so it may write more lines,
before the goodbye and behind it, and stdin closes when the last holder is gone.
The history `lost` has the frames let go, `bye` how many commands were written
when the goodbye was.

### 2.8 `BleLink`: the Python library's link to one address

`at[k]` is the await a coroutine is in, `open`, `said`, `calling` the three
things that can be true of a connection at different times: it is up, the
operating system says so, its disconnect callback is due. `Ensure`, `TakeLock`,
`Attempt`, `ConnectReturns`, `TimesOut`, `QueueAgain` are `ensure_connected`
around `connect` (`EnterConnect`, `DialOpens`, `Subscribes`, `Settles`,
`DialFails`, `ConnectRaises`); `Send`, `TakeWrite`, `Try`, `Reconnect`, `WriteLands`,
`WriteFails`, `Release` are `send_payload` with the reconnect inside the write
lock; `Evicted`, `HangUp`, `StopNotify`, `Closes`, `GivesUp` the disconnect an
eviction or a close awaits; `PushSlot` and `CloseDead` what a wall does with a
slot. `Drops`, `Notices` and `OnOsDisconnect` are the radio, the lagging
`is_connected` and the callback, in either order.

### 2.9 `HotUpdate`: one session of the hot channel update

The host is `update`, `_stream_file` and `wait_for_any_response` step by step:
`Listen`, `SendList`, `Serve`, `Offer`, `Answered`/`NotAnswered`, `Stream`,
`FileDone`/`FileQuiet`, `AskedAgain`, `Resend`, `WaitEnds`, and `Skip` for a
frame a wait throws away. `lib` says whether the library or the daemon
(`run_hot_session`, the same session but for `AfterFailedWrite`) runs it, `ear`
whether the framing queues every frame or only what is listened for. The panel
is external and follows the protocol's description (`hot_update.py:12-30`) and
the recorded exchange (`test_hot_update.py:3-6`): it requests a vendor's next
version while it is behind on one that was announced, takes or refuses the
offer, asks once for a packet it lacks whenever the stream is still, and says
when a file is done. It may repeat a request, pause, be late, lose packets.
A panel that asked for the very file it is still receiving is not among these:
the host would count that file as confirmed.

### 2.10 `DaemonLife`: the daemon's process and its clients

| model | code |
|---|---|
| `TakeLock`, `GiveUp`, `Inspect`, `Clear`, `Bind`, `Serve` | `socket_bind::acquire`, `main.rs` |
| `StopServing`, `Release`, `Exit` | the orderly end: the inode is compared before the file is removed, the lock goes with the process |
| `Signal`, `Crash`, `Wedge`, `WatchdogExits` | how it ends otherwise |
| `Sweep` | a cleaner of temporary files removes socket and lock file |
| `Finds`, `Misses`, `TooLate`, `AskVersion`, `AskShutdown`, `Replaces`, `PutsUp`, `PollEnds` | `ensure_daemon` and the version check, one connection each |
| `Call` | another program's call |
| `Subscribe`, `OnDaemonDown`, `CloseWindow`, `WindowCloses`, `Leaves`, `Quit` | the application's event stream, its reconnect, its window; the menu bar's Quit |

### 2.11 The other modules

The `MC` modules name the model values, the small sets, the scripts of
`RxFraming`, the files of `HotUpdate`, and the symmetries. The `Proofs` modules, one
for each module of 2.2 to 2.10, hold the theorems; those of `RxFraming` are in
`SppBridgeProofs`, as the reader runs in the bridge's process. Operators commented as
a mutant or a slip are bugs the code could have had; nothing refers to them in the
specifications.

## 3. Runs

| run | instance | question |
|---|---|---|
| `queue` | 2 jobs, 2 sessions, idle deadline 1 tick, item timeout 2 | slot, wake-ups, age order, stop; the queue implements `SerialQueue`; every queued item is dispatched or dropped |
| `lease` | 2 lease calls, 2 links, TTL 1, 1 renewal | lease and hold, old links, disconnect; every lease ends |
| `live_screen` | a user's call, a holder's call, 1 job with 2 frames, a session, a lease | who draws over whom; the repaint |
| `fleet` | 2 clients and the restore, 2 panels, 2 requests, 3 links, 1 late report; symmetric in clients | one owner, nothing stranded, selection, the list |
| `rx_framing` | two frames of 4 kinds with 9 kinds of noise before and between, iOS-LE pairs, every way to cut them; longest frame 18 | each frame once and in order; the wait is bounded |
| `spp_bridge` | 2 bridges one after the other, room for 1 and 2 lines; bridges, frames and commands 4 together: 3 frames or commands with one bridge, 2 with two | frames in order, lost only by a late wait; the commands ahead of the goodbye carried out, none behind it |
| `ble_link` | 2 coroutines, 2 transports of one address, 3 operations, 1 drop, 2 attempts each; symmetric | the registry; the locks |
| `hot_update` | 2 vendors with 3 files of which any may be missing, 2 lost packets, 2 mishaps, 1 frame left over | confirmed files, clean runs, the end |
| `daemon_life` | 2 processes, the application and another client, 3 inode numbers, 1 call, 1 mishap, 1 sweep | one daemon; whose file is removed; recovery |

Three more runs, `fleet_dropped`, `spp_hang_up` and `daemon_quit`, each check one
statement of the repository that the code does not keep; section 6 has them.

**Why the bounds are enough.** *Queue*: with two items one is expired or
taken while the other stays in front or behind, and the theorems of section 5
cover any number; an idle deadline
shorter than the item timeout makes a force-release happen with items waiting;
two sessions give an owner, a foreigner and the callers without a session.
*Lease*: two calls are a holder and a rival; two links one reconnect, and a
hazard needs only one; a TTL of one tick and one renewal let a watcher wake both
too early and in time. *Screen*: a superseded frame needs two frames, a
superseded image two calls; the caller and the holder are one call each, and the
session provides the refusals. *Fleet*: two requests and the restore are three
tasks on two panels, so two can meet on one panel while a third is at work on
the other; three links allow each of them one dial; any initial file is tried.
*Framing*: noise that claims to be part of the next frame, all of it, more than
it, and more than the bound, in front of every kind of frame; the reader keeps
no state but its buffer. *Bridge*: a stdout that fills at one line and a stdin that fills at two, so
every writer blocks; three frames are one in the pipe, one in a stuck `print()` and
one in the thread's hand when its wait runs out; two commands are one ahead of the
goodbye and one behind it; a second bridge shows what a first one kept. *Library link*: one
transport reconnects while the other is evicted or pushed to. *Hot update*: two
mishaps let a late answer meet a repeated request or a failed write; a vendor with a
gap in its versions and a file of two packets, of which one is resent. One
leftover frame is the most that matters, as every one the first wait does not
want is thrown away. *Daemon*: the one that ends and the one that starts, with a
free inode number beside theirs; the one mishap is a crash, a wedge, a signal, or an
answer that comes later than a client waits.
Every bound is a constant tested in a guard (`MaxLinks`, `MaxRenewals`,
`MaxJobs`, `MaxFrames`, `MaxRequests`, `MaxReports`, `MaxWrites`, `MaxOps`,
`MaxDrops`, `MaxCalls`, `MaxMishaps`, `MaxSweeps`) and no behaviour is cut in
the middle of an operation, except a dial once `MaxLinks` links are made, which
may then only fail.

**Deadlock** is not checked: requests, jobs and frames are bounded, so each of
these systems stops when all are done, and tokio tasks that wait for requests
that never come are not stuck. That nothing waits for ever is what the liveness
properties say.

**The properties.**

- `CommandQueue`. `SlotAgrees`: an owner is bounded by an idle deadline or a
  lease, never both, never neither. `ParkedForAReason`: a worker parked with no
  permit stored has nothing it could do, and one asleep wakes when the deadline
  in force passes, not an older one. `StopDropsAll`: no receiver is left on a
  retired link, wherever `stop` falls between the halves of `acquire`.
  `NeverStartsLate`: expiring only from the front never sends an over-age item.
  `LeaseNeverReaped`. `EveryItemResolved`: no receiver hangs.
- `ScreenLease`. `OldLinksRetired` and `NothingStranded`: every connection is in
  place, being swapped or taken out, or retired, and after a disconnect none is in
  place and the slot closed. `HoldAccountedFor` and `LeaseHoldsItsLink`: as long as no
  reconnect falls inside a call, a hold has somebody who will end it, and a
  lease has its hold. `LeaseEnds`.
- `LiveScreen`. `UserImageStays`: no job stopped when a call was let on draws
  over that call's image with a frame it pushed. `RepaintIsNewest`: the
  repaint is not older than any frame the lease held back, which depends on the
  order save-then-look in the job and take-then-read in the end.
  `NewerImageStays`: the later claim is what stays, in whatever order calls queue.
- `FleetLinks`. `OneOwner`: no link is ever put over one the fleet has.
  `NothingStranded`: an open connection is in the fleet, in the hands of a task
  that will place it or hang it up, or was let go of open, by a late report or by a
  disconnect that failed.
  `SomethingSelected`: when all is quiet a linked panel implies an active one.
  `LinkedIsWanted`: a linked panel no two tasks worked on at once is on the list.
- `RxFraming`. `SentIsRead`: the queue holds exactly what the frames behind the
  reader said, so no made-up length swallows one. `WaitBounded`: nor does one keep
  the reader waiting for more than the largest frame.
- `SppBridge`. `FramesInOrder`: what the thread heard and the daemon has not read
  is on its way, in order and each frame once, through two queues, a thread's hand,
  a stuck `print()` and a pipe; the frames missing are the ones a late wait let go,
  and none is lost in another way. `GoodbyeIsLast`: the reader of commands ends with
  none undone that was written ahead of the goodbye, and has carried out none a call
  in flight wrote behind it (`tests/test_spp_bridge.py:163-173`).
- `BleLink`. `LinkOwned`: an open connection is the registered one or in the hands of
  whoever is closing it, unless its disconnect was given up. `NobodyStuck`: the
  write locks and the connect lock are never waited for in a circle.
- `HotUpdate`. `ConfirmedIsStored`: no late, repeated, leftover or missing answer
  and no failed write passes for the end of a file. `CleanRunCompletes`: when
  only packets are lost, the panel ends up with every file announced.
  `SessionEnds`.
- `DaemonLife`. `OneDaemon` and `NotStolen` under crashes, signals, hurried
  restarts and reused inode numbers; `OneDaemon` only while no cleaner removed
  the lock file. `Recovers`: after the last mishap the application has a daemon
  for good.

Each of them fails on a mutant of the model that a slip in the code would give:
a missing `notify_one`, an expiry that does not cascade, a generation not
compared, an attach outside the fleet's lock, one look where the code looks
twice, and so on (`PROJECT.json`, "mutants").

## 4. Fairness

Runs without a liveness property assume none. `queue` and `lease` assume:

- *Tokio polls what is ready.* Weak fairness of the worker's steps, of a
  caller between its two critical sections, of a granted call, a watcher, a
  release, an attach, a detach and a forget that have begun.
- *A job's future ends, and a permit is let go.* Every command runs under a
  budget (`deadlines.rs`), after which its future is dropped: `LetGo` of a
  running permit is fair. That a caller whose item is still pending gives up is
  possible and not assumed.
- *Time passes* (`Tick`).
- *A lease ends* (`queue` only): a hold is released by the lease's end. In
  `lease` that is not assumed but checked (`LeaseEnds`), with `MaxRenewals` as
  the renewals its holder makes; the two together say an item behind a lease is
  resolved once the holder stops renewing.

Nothing is assumed about calls, connects, disconnects, or a session that leaves:
those are choices of somebody else.

`hot_update`: the session runs on and its five seconds pass; a panel in reach
reads what it is sent and says what it has to say. That it repeats, refuses or
pauses is not assumed. `spp_hang_up`: every task of the bridge and the daemon's
reader run on, and a call ends (`device_call` has a timeout of at most 120 s); that a radio drops or the daemon dies is not assumed, so the
counterexample is one in which everybody does their work. `daemon_life` and
`daemon_quit`: a process that was started goes on, a client in `ensure_daemon`
polls to its end, the application reads its stream and reacts; crashes, signals,
sweeps, calls and Quit are nobody's duty.

## 5. Proofs

Every safety invariant and action property of the runs is proved, for any values
of the constants, except `NobodyStuck`, of which the part without `ENABLED` is. Each
component has one invariant, `IInv` or a named one, that `Init` implies and every step
keeps, built of named parts, a lemma for the step of each part, in which each action
is a step of the proof, and theorems of a few lines. TLC checked each invariant on
the run's instance before it was proved.

**Assumptions.** Only those the modules make of their constants, which TLC
evaluates in the runs: bounds are naturals, and positive where the code's are;
sentinels (`None`, `NoToken`, `Closed`, `Nothing`, ...) are no task, token or
line; `Restore` is no client; there are more inode numbers than daemons, so a
`bind` finds a free one; a catalogue of hot channel files is finite and has one
file for each vendor and version. Two properties have a hypothesis beyond those:
`ConnectionsOwned` is about a panel with two transports (5.6), and `RxSentIsRead` about
a stream of one framing in which noise forges no frame (5.5).

### 5.1 The queue (`CommandQueueProofs`)

    QueueInv == TypeOK /\ InOrder /\ WorkerRuns /\ SlotAgrees /\ ParkedForAReason /\ StopDropsAll

`InOrder` is the strengthening that is not obvious: the queue holds each pending
item once and in order of age. Items enter at the back with age 0, age together
and leave from anywhere, so removing the owner's item from the middle keeps the
order; that is why expiring from the front alone is enough (`StartsInTime`), and
why the item the worker takes is not in the queue twice. `WorkerRuns` ties
`current` to the item that runs. `ParkedForAReason` needs `SlotAgrees`: a worker
without a bound has no deadline to miss only because an owner without a deadline
holds by lease.

| theorem | statement |
|---|---|
| `TypeCorrect` | `Spec => []TypeOK` |
| `SlotCorrect`, `NoLostWakeup`, `StopCorrect` | the three invariants, from `QueueInv` |
| `StartsInTime` | `Spec => NeverStartsLate` |
| `LeaseCorrect` | `Spec => LeaseNeverReaped` |
| `Refinement` | `Spec => ImplementsSerialQueue`: every step of the detailed queue is a step of `SerialQueue` or changes nothing it shows |

In `Refinement` each action is matched with the abstract one: `Submit` and
`Enqueue` with `Accept`, `Dispatch(n)` with `Start(n)`, `ForceRelease(n)` with
`Reap(n)`, `Rest(n)` with `GiveUp(n)`, `JobReturns` with `Finish`, `AcquireNow`
and `Hold` with `Take`, `Stop` with `Close`; the rest stutter. The lemmas before
it say what `Append`, `SubSeq` and `RemoveAt` become under the mapping.

### 5.2 The lease (`ScreenLeaseProofs`)

    IInv == TypeOK /\ Numbered /\ Aimed /\ Granted /\ Owners /\ Holds
            /\ OldLinksRetired /\ NothingStranded /\ HoldAccountedFor

`Numbered`: a link that is being put in place is newer than all that calls have
seen, and attach() is at none any more once the device is removed. `Aimed`: a call
that goes on knows its link. `Granted`: only a granted call's lease is in the
slot, watched, or on a release's list. `Owners`: a queue is owned by a call
that has just held it, on the link it looked up, or by one that was granted.
`Holds`: a call that holds, or whose lease is in the slot, owns that link's
queue, and a lease that is ending is out of the slot for good, because a token
is put there once. Without `Granted` and `Owners` a late release might free a hold
taken meanwhile, and `Holds` would not be kept.

| theorem | statement |
|---|---|
| `TypeCorrect`, `RetiredLinks`, `ForgottenIsFree`, `HoldsAccounted`, `LeaseHolds` | the five invariants of the run |
| `SlotIsSerial` | `Spec => Slot!Spec`: the owner of any one link's queue, `Seen`, changes only as `SerialQueue` allows |

`SlotIsSerial` joins the two halves of the daemon's arbitration: `CommandQueue`
implements `SerialQueue`, and `ScreenLease` uses nothing of a queue that
`SerialQueue` does not have. `SessionTakes`, `AcquireHold` and the hold of a link
in the making are `Take`, a call turned away at the slot and the two ends of a
lease are `Leave` or, come late, a stutter, retiring is `Close`. It needs one fact
more: a link that is not made yet is nobody's and not stopped (`Unmade`).

### 5.3 The screen (`LiveScreenProofs`)

    IInv == TypeOK /\ Queued /\ PendingSound /\ RunningSound /\ PanelSound /\ KeptSound
            /\ Arriving /\ Fenced /\ DrawsFresh /\ Claims /\ DrawsNewer
            /\ SavedNewest /\ EndQueued /\ LeaseInSlot /\ RepaintIsNewest

The `Sound` parts say who can have made a picture, wherever it is: queued, being
drawn, on the glass, or saved. `Fenced`: a job stopped for a call stays stopped and
no other takes its number. `DrawsFresh` and `DrawsNewer` say of the item that is
being drawn what the two action properties say of the step that ends it: the
look at the fence, or at the claim, is made when it starts, and between its
start and its end nothing else reaches the glass, as it has the slot. `Claims`:
a call's number is its own. `SavedNewest` is why the job saves its frame before it
looks at the lease: what is saved of a job is never older than what that job
held back. `EndQueued` and `LeaseInSlot` place the end of the lease in time.

| theorem | statement |
|---|---|
| `TypeCorrect`, `RepaintNewest` | the two invariants of the run |
| `ImageStays`, `LaterClaimStays` | `Spec => UserImageStays`, `Spec => NewerImageStays` |

### 5.4 The fleet (`FleetLinksProofs`)

    IInv == TypeOK /\ Targeted /\ Guarded /\ FreeToDial /\ InHand /\ Filling /\ NothingStranded
            /\ Alone /\ StaysUnlinked /\ ListedSoon

`Targeted`: a task that works on one panel knows which. `Guarded`: a task is
past `TakeRadio` exactly while it has the radio. `FreeToDial`: between its second
look and its attach a connect's panel has no link, because whoever could attach
one needs the radio; so `Attach` replaces nothing (`OneOwnerAlways`) and strands
nothing (`NoneStranded`). `InHand`: links are in hand only where a task will
place them or hang them up. `Filling`: if no panel is active while one is
linked, some task is where it will look at the slot or fill it, or empty the fleet; at
quiescence there is no such task, which is `SelectionKept`. The last three are
about a panel whose requests never overlap: one task works on it (`Alone`); while
that task is dropping it, it has no link (`StaysUnlinked`); and while it has one, it
is on the list or its connect is about to write it there (`ListedSoon`), which with
nobody at work on it is `LinkedListed`.

| theorem | statement |
|---|---|
| `TypeCorrect`, `NoneStranded`, `SelectionKept`, `LinkedListed` | the four invariants of the run |
| `OneOwnerAlways` | `Spec => OneOwner` |

### 5.5 The bridge (`SppBridgeProofs`)

    IInv == <the types> /\ HeardOnly /\ Unborn /\ Linked /\ Commands /\ FramesInOrder

The frames between the daemon and the panel are two sequences, what is printed and
what waits to be (`Way`: the task's queue, the thread's hand, the thread's queue).
`FramesInOrder` says of both that they rise, of the first that it is below the second, and
of their elements that they are the frames behind the last one the daemon has had,
without the lost ones; said with sets, it needs no place of any frame. The lemmas before the
steps say what this becomes when a frame leaves at the front, enters at the end, moves
from one to the other, or is let go. `HeardOnly`: nothing is on the way that was not heard.
`Commands` does the same for the pipe of commands (`Pipe`): of those written, the ones the
bridge has not read are in it, in order, and a goodbye lies exactly between those
written ahead of it (`bye`) and those behind; the one read last may be in hand, and
the earlier ones are done. So a reader that ends on the goodbye has done `1 .. bye`
(`GoodbyeLast`), and one that ends with the pipe has done all. `Unborn` and `Linked`
are what makes that hold when a bridge starts and ends: the pipes of a new process are
empty, and whoever may still write to one holds its transport, so its end of stdin
is open.

| theorem | statement |
|---|---|
| `TypeCorrect`, `FramesOrdered`, `GoodbyeLast` | the three invariants of the run |

The second half of the module is about `RxFraming`. A sum over bytes is never computed
there, only compared with itself: on the bytes the reader has and on those the panel
sent. Where the pieces of a stream lie does need its fold (`FlattenSeq`, unfolded to
the function of partial results it is defined with): an argument by the least place
where two such functions differ (`JoinsAgree`), or the least piece that lies
elsewhere (`UptoPrefix`), does what an induction would. `Layout` and `PieceLies` are
all the rest uses of it.

    RxTypes == <the buffer is the end of what has come in, and the other types>
    ReadInv == /\ Outside(script, Passed)
               /\ ReadsOf(queue, script, Arrived(script, Passed))
               /\ loop = "basic" /\ AllIos(script) => Len(buf) < 4
               /\ Quiet(script) /\ loop = "idle" => NoneBetween(script, Passed, sent)

Each turn is first described by what it lets go of the buffer and what it puts in
the queue (`IosTakes`, `BasicResyncs`, `WaitStays`, ...), for any bytes.
`RxWaitBounded` follows from that: a loop that rests has too little for a header, or
for a length within the bound, and longer ones are stepped over. For `RxSentIsRead`,
`Outside` says that what was let go ends inside no frame. A turn keeps it because
bytes without a start byte run into no frame (`SkipsNoFrame`), a start byte that is
stepped over begins none, as a frame in front would be whole, valid and taken
(`BasicFront`, `NoiseNoFrame`), and what is taken is a frame of the script
(`LooksTrue`, `TakesFrame`).

The last needs the hypothesis `OneFraming(script)`, which is about the bytes alone:
the pieces are iOS-LE frames, or they are Basic frames and any noise that forges
nothing (`NothingForged`): no span of it, by itself or with bytes of the frames
behind, is an iOS-LE header or a valid Basic frame with checksum and end byte. No
reader could tell such a span from a frame. Start bytes with any lengths behind them
are allowed, which is the hazard (`framing.py:128-141`): 1300 of the 1304 streams of
the run satisfy it, and the other four, whose noise is an iOS-LE header with a length
above the bound, are TLC's. `RxAllRead` also needs noise without a start byte
(`Quiet`): behind one with a length the reader does wait, within the bound, with
whole frames in its buffer.

| theorem | statement |
|---|---|
| `RxTypeCorrect`, `RxWaitBounded` | the invariants `RxTypeOK` and `WaitBounded`, for any stream |
| `RxSentIsRead` | `RxSpec /\ OneFraming(script) => []SentIsRead` |
| `RxAllRead` | with `Quiet(script)` too, each frame that has wholly come in has been read whenever the reader rests |
| `RxNothingMadeUp` | for any stream: the messages read decode valid frames that lie apart and in order in what was let go |

### 5.6 The library's link (`BleLinkProofs`)

`Types` is `TypeOK` with what a task's place says of it: it has a transport while it
is busy (`Bound`), one to disconnect while it awaits that, and as a sender another
than its own (`Victims`), only senders wait for a write lock (`Waits`), and whoever
has it is in the part of `send_payload` it covers (`WriterSends`). Types need no
bound on the number of transports; `LinkOwned`, together with them inductive, does:

| theorem | statement |
|---|---|
| `TypeCorrect` | `Spec => []TypeOK` |
| `ConnectionsOwned` | `Spec => []LinkOwned` for at most two transports of one address |
| `LocksExclude` | one sender at a time on a transport, one handshake at a time |
| `NobodyWaitsInACircle` | whoever a task waits for is busy and waits for no lock; unless all are idle, somebody is busy and not waiting |

The hypothesis is a limit of the code which the proof found. After an eviction
`connect()` asks `is_connected` of its own transport, which lags behind a drop, and
registers that transport (`ble_transport.py:148-168`). With two transports whoever
was evicted was the only other one; with a third, connected meanwhile, the
registry would lose it. A panel has two, alone and as a slot of a wall.

The last two rest on `Held == Asks /\ SendsHold /\ ConnectorHolds`: a task is only where
its operation goes (`Asks`), a sender holds its transport's write lock over all its
attempts, reconnects included (`SendsHold`), and the connect lock is held exactly during
`ensure_connected`'s handshake (`ConnectorHolds`). So a holder of either lock waits for
none: the reconnect under the write lock calls `connect`, not `ensure_connected`, and
evictions take no lock. It is the argument behind `NobodyStuck`, which says in
addition that a task that is busy and not waiting has a step it can take. That is
about `ENABLED`, and stays with TLC.

### 5.7 The hot channel update (`HotUpdateProofs`)

    IInv == Types /\ PendingWaits /\ HearsAll /\ Silent /\ Requests /\ Offers /\ ListFirst /\ Packets
            /\ AsksNext /\ Receives /\ StoredOld /\ Last /\ Taken /\ Safe /\ ConfirmedIsStored

The argument is about the queue of notifications. `Ahead(queue, base, i)` is the file
the host will have offered when it comes to position `i`: what the last request
before `i` leads to, or without one what it has on its hands. `Last`: at the end of
the queue that is the file the panel asks for. `Taken`: where the panel says it
takes a file, that file is it, and is `Held` behind that place: the queue says
nothing of its end before it is stored, and asks for no packet it has not. `Safe`: the file
being sent is held. So a done-frame the host reads is about the file it sends,
which is `ConfirmedStored`. The small parts say what each side may assume: a
request is for a version the panel has or lacks next (`Requests`), so the file
offered is the panel's next (`Offers`), and what is stored is not asked for again
(`StoredOld`). The newest and the next file exist because a nonempty set of
naturals has a least element and a finite one a greatest (`Least`, `Greatest`, from the
well-foundedness of inclusion on finite sets).

`CleanRunComplete` has a second invariant on top,

    CInv == HaveBelow /\ (mishaps = 0 => pending = NoRequest /\ Wishes /\ InStep)

`InStep` is the exchange stage by stage, `Starting` to `Ended`, with what is in the air
and in the queue at each; every action leads from a stage to a stage. Without
mishaps, only packets being lost, each side knows what the other waits for, no
wait runs out before the panel has all it wants, and what it wants is the list it
was sent (`Wishes`).

| theorem | statement |
|---|---|
| `TypeCorrect`, `ConfirmedStored`, `CleanRunComplete` | the three invariants of the run |

### 5.8 The daemon's life (`DaemonLifeProofs`)

    IInv == TypeOK /\ StartersLock /\ HoldersLock /\ BoundApart /\ NobodyBehind

`StartersLock`: a daemon from `TakeLock` to `Serve` has the lock, sweeps or not, as a
cleaner passes only while nobody starts. `HoldersLock`: without sweeps whoever holds
the socket has it, so there is one (`OneDaemonAtMost`). `BoundApart`: listening
sockets are bound to files of different numbers, since `Bind` takes a number nobody
has open; so a stop that compares inodes removes its own file or none.
`NobodyBehind`: between `Inspect` and `Clear` nobody begins to listen behind the file,
because that takes the lock. The last two are `FileNotStolen`.

| theorem | statement |
|---|---|
| `TypeCorrect`, `OneDaemonAtMost` | the two invariants of the run |
| `FileNotStolen` | `Spec => NotStolen` |

### 5.9 What the proofs changed in the models

- `LiveScreen.TypeOK` and `SppBridge.TypeOK` each had a conjunct that operator
  precedence made say less than meant; both are stated apart now.
- `SppBridge` assumes that `None` is no line and no number: a command in hand could
  not be told from an empty hand otherwise.
- `FramesInOrder` said that no frame is lost, and held only because the model moved a
  frame from queue to queue in one step. With the thread and the timeout it is
  false; it now says which frames may be, and that no other is.
- `GoodbyeIsLast` said that every command is carried out, and held only because the
  goodbye ended the call in flight. It now counts the commands ahead of it, and says
  that none behind it is carried out.
- `SentIsRead` relates queue and script by the places of the frames (`Arrived`, `Reads`)
  instead of comparing the queue with a fold over the script, which says the same.
- `ConnectionsOwned` has the hypothesis of 5.6, found when `LinkOwned` was not inductive.

### 5.10 Model-checked only

- The liveness properties `EveryItemResolved`, `LeaseEnds`, `SessionEnds` and `Recovers`, and
  `NobodyStuck`, which is about `ENABLED`: both are outside what the prover does.
- `SentIsRead` for the streams `OneFraming` leaves out: iOS-LE headers in noise in front of
  Basic frames.
- The three runs of section 6, whose properties do not hold.

No module uses a recursive operator, so none is out of the prover's reach for
that.

## 6. What the models show of the code

Each of these is a run that ends in a counterexample, against a sentence of the
repository.

| run | property | what happens |
|---|---|---|
| `fleet_dropped` | `StaysDropped` | the restore works from its snapshot: panels dropped while it runs are linked and written down again |
| `spp_hang_up` | `HangUpCloses` | the bridge that has read the disconnect line waits for its notification loop, which nothing ends: it keeps the panel's channel while the daemon lives, and the next connect finds it taken |
| `daemon_quit` | `FollowsDown` | nothing in divoomd publishes the `shutdown` event the application closes for, so after Quit in the menu bar it takes the end of its stream for a crash and starts the next daemon |

The models reach these too, each against a sentence of the repository, without a
run of its own:

- an exclusive session whose client is gone keeps the slot past its idle window
  as long as nothing is pending, and the refusals it causes never become
  pending: `next_step` returns before it looks at the deadline
  (`command_queue.rs:383`, against `command_queue.rs:16`);
- a reconnect between `hold` and `set_lease` reads an empty slot, and the new
  link's queue stays unheld for the whole lease (`lease.rs:132`, against
  `device.rs:200-201`); a lease that ends between `attach`'s hold on the new
  link and its swap leaves a hold nobody ends (`device.rs:202`, against
  `command_queue.rs:266`);
- the record of the screen is written by whoever waited for the turn, which may be a
  task aborted meanwhile, and never for a selected channel (`lease.rs:302`,
  against `device/screen.rs:7-10`);
- the repaint at a lease's end is fenced by the link, not by the job: a stopped
  job's frame is drawn (`lease.rs:257`, against `device.rs:274-275`);
- a call claims the newest frame number before the queue refuses it; the push
  before it is skipped as superseded by nothing (`daemon.rs:215`, against
  `lease.rs:26-28`);
- after a drop whose callback has come while `is_connected` lags,
  `ensure_connected` connects nothing and answers connected
  (`ble_connection.py:183`, against `ble_connection.py:161-162`).

Behaviours the models have and no run states as a property, because the
repository promises nothing about them:

- an item behind a lease that is renewed again and again outlives its timeout:
  the worker waits without a bound while a lease owns the slot;
- a renewal that falls between the watcher's look at the clock and `take_lease`
  is answered with success, and the lease ends all the same;
- `lease_release` reads the slot twice; if the lease was replaced between the
  reads, which takes a reconnect, it ends the other agent's;
- a call the queue refuses has stopped the panel's live job already;
- `install_live_job` clears the saved frame after the new job's task was
  spawned, so that task's first frame may be lost to a lease that ends next;
- `link_failed` names a panel: a late report may detach a link newer than the
  one that failed. It stays open and in nobody's hands (`cutOff`), and so does a
  link whose disconnect fails, which `hang_up` takes no notice of;
- a scheduled push gives back the link it opened even if a client was told
  `already_linked` meanwhile;
- of two disconnects or connects that persist at once, the older list may be
  written last;
- a write the bridge refuses is told in an error line the daemon's reader drops,
  and the caller hears that the panel was silent;
- a frame an executor thread has taken is lost when `print()` holds the loop past
  the wait's 1.5 s (`bt_spp_transport.py:279-297`);
- a call in flight when its panel is disconnected goes on writing to the bridge, and
  what it writes behind the goodbye is reported as sent and never carried out; a write
  given up in a full pipe leaves a piece of a line, which spoils the next one, a
  goodbye included;
- the hot update's waits throw a pause away while a file is offered or streamed;
  the session then ends by silence;
- `adopt` and `remove` choose the active panel after they let go of the fleet's
  lock, and may override a choice the user made in between.

## 7. What is not modelled

*Left out of the modelled parts.* Mock panels, which have no connection, in
`FleetLinks`; the scan and how a panel is found by name; the arguments of a
connect and the wall's slots that the file also keeps; the file's format and an
unreadable file; the contents of frames and images; the event that announces a
screen record. `LiveScreen` follows a single connection and one lease, `ScreenLease` has no items in
its queues: the two meet in the queue's owner, which both have.

*Coarser than the code.* A look at the fleet (`connected`, `linked`) reads the
map and then each device's own link; the model reads them in one step. The
difference is which of several panels `linked` reports while links come and go
under it: the next active panel may be another than the model's, and may
already be on its way out, which the model reaches too, because `SelectNext` is
a later step than `FindNext`. Nothing can come of a panel missed: whoever links
one looks at the slot afterwards. `retire` of a link in `ScreenLease` is one
step there and two in `LiveScreen`.

In `RxFraming` the encoders and escaping, and iOS-LE frames behind noise, which
the reader gives to the other parser and loses. In `SppBridge` how a channel is
discovered and the streaming of animations, which listens on a link of its own.
In `BleLink` the framing, the protocol probe's outcome and the classic
transport. In `HotUpdate` the download and its cache, requests of fewer than
eight bytes, a second user of the same transport during a session
(`wait_for_any_response` takes no lock; the daemon holds the panel's queue
instead), the progress cell and the verdict. In `DaemonLife` remote daemons,
foreign programs at the path, failure reports and the identity files.

*Other components.* The list in `PROJECT.json` gives the reason for each. They
share state and could be modelled as the others are: the event bus, the
subscription registry, the socket server with its watchdog, the daemon's own
BLE transport, the wall. There is nothing to check in the rest: the
several dozen `device_call` handlers, which build a packet and keep nothing;
renderers, codecs, cloud, gallery, credentials, weather and now playing, which
are data, files and HTTP; the notification watchers; LAN panels and the MCP
server, which are stateless; mock panels, which are a test double; the command
line, the Python packet builders and windows, which keep nothing between two
calls; scripts and tools. Most of the repository's Python is of these kinds,
tests and widgets among them, so the models cover a small share of its lines.

## 8. Plan

Done, in this order, because everything a user sees goes through the queue:
`SerialQueue` and `CommandQueue` with its proofs, `ScreenLease`, `LiveScreen` on
top of `SerialQueue`, `FleetLinks` with its proofs; then what is below and
around the daemon: `BleLink`, `RxFraming`, `SppBridge`, `DaemonLife`,
`HotUpdate`.

The proofs followed in the same order: the fleet's list, the daemon's life, the
lease, the screen, the library's link, the bridge, the hot channel update, the
lease's use of the queue as a refinement, the reader of frames, and the locks of
the library's link.

Next:

1. An abstract lease (granted, renewed, ended, and the panel held meanwhile) that
   both `ScreenLease`, without a reconnect inside a call, and `LiveScreen` implement.
2. `EventStream` (publishers, a ring smaller than the number of keys, a reader that
   lags and resynchronises), `Subscriptions` with the connection budget, and the
   wall's fan-out.
