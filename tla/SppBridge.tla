------------------------------ MODULE SppBridge ------------------------------
(***************************************************************************)
(* The classic Bluetooth link: the daemon's transport (divoomd/src/spp.rs) *)
(* and the co-process it starts for it (divoom_client/spp_bridge.py around *)
(* divoom_lib/bt_spp_transport.py).                                        *)
(*                                                                         *)
(* A panel has one RFCOMM channel. The daemon starts a bridge, waits for   *)
(* its first line, then writes frames to its stdin and reads notifications *)
(* from its stdout; both are pipes of bounded room. Inside the bridge a    *)
(* thread reads the radio and another one waits for what that has read;    *)
(* one task moves it to the notification queue, one prints that queue and  *)
(* one carries out the lines of stdin. print() is not awaited: while       *)
(* stdout is full the event loop stands still, but the threads go on.      *)
(*                                                                         *)
(* Whoever uses a transport holds it: a call that is at work when its link *)
(* is taken out of the fleet goes on writing, before the goodbye and       *)
(* behind it.                                                              *)
(*                                                                         *)
(* The bytes of frames are RxFraming's; here frames and writes are         *)
(* numbered in the order in which they were sent, per bridge.              *)
(***************************************************************************)
EXTENDS Naturals, Sequences, FiniteSets, Functions

CONSTANTS
    Procs,          \* bridge processes, one after the other
    None, Spoilt,   \* Spoilt: a goodbye that ends the piece of a line
    RxCap,          \* the channel between the daemon's reader and its callers: 256
    OutCap, InCap,  \* lines the bridge's stdout and stdin have room for
    MaxEvents       \* bridges started, frames heard and commands written, together

\* What the bridge prints.
Line == [type : {"connected", "disconnected", "error"}] \cup [type : {"notification"}, n : Nat]

ASSUME SppBridgeAssumption ==
    /\ None \notin Procs \cup Nat \cup Line /\ Spoilt \notin Nat
    /\ {RxCap, OutCap, InCap} \subseteq Nat \ {0}
    /\ MaxEvents \in Nat

VARIABLES
    alive,      \* the daemon runs
    opening,    \* the bridge whose first line connect() waits for
    link,       \* the bridge of the fleet's transport
    leaving,    \* bridges taken out of the fleet and not yet told goodbye
    call,       \* per bridge: what the call that has its permit does
    rx,         \* per bridge: frames read and not yet taken by a caller
    taken,      \* per bridge: the last frame the daemon's reader has had (history)
    stdin,      \* per bridge: lines written and not read
    torn,       \* per bridge: its stdin ends in a piece of a line
    writes,     \* per bridge: commands the daemon has written (history)
    bye,        \* per bridge: those written ahead of the goodbye, None without one (history)
    stdout,     \* per bridge: lines printed and not read
    main,       \* per bridge: where main() is
    reader,     \* per bridge: where read_stdin_loop is
    current,    \* per bridge: the write it carries out
    notifier,   \* per bridge: where read_notifications_loop is
    printing,   \* per bridge: the line print() waits to get rid of
    mover,      \* per bridge: where _rx_loop is
    rxQueue,    \* per bridge: _rx_queue
    hand,       \* per bridge: the frame _rx_loop's thread has taken from it
    notes,      \* per bridge: notification_queue
    lost,       \* per bridge: frames _rx_loop has let go (history)
    radio,      \* per bridge: its RFCOMM channel or serial port
    heard,      \* per bridge: frames the panel has sent (history)
    done        \* per bridge: commands carried out or refused (history)

fleet   == <<alive, opening, link, leaving>>
calls   == <<call, rx, taken>>
pipe    == <<stdin, torn>>
written == <<writes, bye>>
daemon  == <<fleet, calls, written>>
loops   == <<reader, current, notifier, mover>>
queues  == <<rxQueue, hand, notes, lost>>
panel   == <<radio, heard>>
bridge  == <<stdout, main, loops, printing, queues, panel, done>>
vars    == <<daemon, pipe, bridge>>

Total(count) == FoldFunction(+, 0, count)
InBounds == Total(heard) + Total(writes) + Cardinality({p \in Procs : main[p] # "unused"}) < MaxEvents
Disconnect == 0     \* the disconnect line among the numbered writes

Init ==
    /\ alive = TRUE /\ opening = None /\ link = None /\ leaving = {}
    /\ call = [p \in Procs |-> "none"] /\ rx = [p \in Procs |-> <<>>] /\ taken = [p \in Procs |-> 0]
    /\ stdin = [p \in Procs |-> <<>>] /\ torn = [p \in Procs |-> FALSE]
    /\ writes = [p \in Procs |-> 0] /\ bye = [p \in Procs |-> None]
    /\ stdout = [p \in Procs |-> <<>>] /\ main = [p \in Procs |-> "unused"]
    /\ reader = [p \in Procs |-> "reading"] /\ current = [p \in Procs |-> None]
    /\ notifier = [p \in Procs |-> "waiting"] /\ printing = [p \in Procs |-> None]
    /\ mover = [p \in Procs |-> "starting"] /\ hand = [p \in Procs |-> None]
    /\ rxQueue = [p \in Procs |-> <<>>] /\ notes = [p \in Procs |-> <<>>] /\ lost = [p \in Procs |-> {}]
    /\ radio = [p \in Procs |-> "none"] /\ heard = [p \in Procs |-> 0] /\ done = [p \in Procs |-> {}]

-----------------------------------------------------------------------------
(* connect(): a process is started, and its first line decides.             *)

\* Whoever has the panel's channel open keeps every other process out.
ChannelFree == \A q \in Procs : radio[q] \notin {"rfcomm", "serial"}

Spawn(p) ==
    /\ alive /\ opening = None /\ link = None /\ main[p] = "unused" /\ InBounds
    /\ opening' = p
    /\ main' = [main EXCEPT ![p] = "connecting"]
    /\ UNCHANGED <<alive, link, leaving, calls, pipe, written, stdout, loops, printing, queues, panel, done>>

Gone(p) == main' = [main EXCEPT ![p] = "exited"] /\ radio' = [radio EXCEPT ![p] = "none"]

\* BTSppTransport.connect: a serial port if the system offers one, RFCOMM if not.
Opens(p) ==
    /\ main[p] = "connecting" /\ ChannelFree
    /\ \E path \in {"rfcomm", "serial"} : radio' = [radio EXCEPT ![p] = path]
    /\ main' = [main EXCEPT ![p] = "running"]
    /\ stdout' = [stdout EXCEPT ![p] = Append(@, [type |-> "connected"])]
    /\ UNCHANGED <<daemon, pipe, loops, printing, queues, heard, done>>

OpenFails(p) ==
    /\ main[p] = "connecting"
    /\ Gone(p)
    /\ stdout' = [stdout EXCEPT ![p] = Append(@, [type |-> "disconnected"])]
    /\ UNCHANGED <<daemon, pipe, loops, printing, queues, heard, done>>

FirstLine(p, type) == opening = p /\ stdout[p] # <<>> /\ Head(stdout[p]).type = type
Spoken(p) == stdout' = [stdout EXCEPT ![p] = Tail(@)]

Connected(p) ==
    /\ FirstLine(p, "connected")
    /\ Spoken(p)
    /\ opening' = None /\ link' = p
    /\ UNCHANGED <<alive, leaving, calls, pipe, written, main, loops, printing, queues, panel, done>>

\* The bridge has said that it could not, or 12 s have passed: it is killed.
NotConnected(p) ==
    /\ opening = p
    /\ FirstLine(p, "disconnected") \/ stdout[p] = <<>>
    /\ opening' = None
    /\ Gone(p)
    /\ stdout' = [stdout EXCEPT ![p] = <<>>]
    /\ UNCHANGED <<alive, link, leaving, calls, pipe, written, loops, printing, queues, heard, done>>

-----------------------------------------------------------------------------
(* The daemon's reader task, its callers, and its goodbye.                  *)

\* The fleet, a goodbye under way and the call with the permit hold a transport;
\* with the last of them go its channel and its end of stdin.
Held(p) == link = p \/ p \in leaving \/ call[p] # "none"
LetsGo(p) == rx' = IF Held(p)' THEN rx ELSE [rx EXCEPT ![p] = <<>>]

\* Frames are kept for callers while there is a transport; errors are not read.
DaemonReads(p) ==
    /\ alive /\ opening # p /\ stdout[p] # <<>>
    /\ LET line == Head(stdout[p]) IN
          IF line.type = "notification"
          THEN /\ taken' = [taken EXCEPT ![p] = line.n]
               /\ Held(p) => Len(rx[p]) < RxCap
               /\ rx' = IF Held(p) THEN [rx EXCEPT ![p] = Append(@, line.n)] ELSE rx
          ELSE UNCHANGED <<taken, rx>>
    /\ Spoken(p)
    /\ UNCHANGED <<fleet, call, pipe, written, main, loops, printing, queues, panel, done>>

Room(p) == Len(stdin[p]) < InCap

\* A line behind a torn piece is one line with it; the bridge will refuse it.
WriteLine(p) ==
    /\ Room(p) /\ InBounds
    /\ stdin' = [stdin EXCEPT ![p] = Append(@, writes[p] + 1)]
    /\ torn' = [torn EXCEPT ![p] = FALSE]
    /\ writes' = [writes EXCEPT ![p] = @ + 1]

\* A write that is given up while the pipe is full may leave a piece of it there.
Tears(writers) ==
    \E P \in SUBSET {p \in writers : ~ Room(p)} : torn' = [p \in Procs |-> torn[p] \/ p \in P]

\* A device_call has the link's permit and the transport from here to its end:
\* no disconnect waits for it, and it writes on after one.
Call(p) ==
    /\ link = p /\ call[p] = "none"
    /\ call' = [call EXCEPT ![p] = "busy"]
    /\ UNCHANGED <<fleet, rx, taken, pipe, written, bridge>>

Send(p) ==
    /\ call[p] = "busy" /\ WriteLine(p)
    /\ UNCHANGED <<fleet, calls, bye, bridge>>

\* send_command_and_wait: what is queued is let go for a millisecond, or up to
\* the first frame that would answer; then the write, then the wait.
Drain(p) ==
    /\ call[p] = "busy"
    /\ \E k \in 0 .. Len(rx[p]) : rx' = [rx EXCEPT ![p] = SubSeq(@, k + 1, Len(@))]
    /\ call' = [call EXCEPT ![p] = "drained"]
    /\ UNCHANGED <<fleet, taken, pipe, written, bridge>>
Ask(p) ==
    /\ call[p] = "drained" /\ WriteLine(p)
    /\ call' = [call EXCEPT ![p] = "waiting"]
    /\ UNCHANGED <<fleet, rx, taken, bye, bridge>>
\* A frame that does not answer is let go; one that does, or the timeout, ends it.
Waits(p) ==
    /\ call[p] = "waiting"
    /\ \/ /\ rx[p] # <<>> /\ rx' = [rx EXCEPT ![p] = Tail(@)]
          /\ \E next \in {"waiting", "busy"} : call' = [call EXCEPT ![p] = next]
       \/ UNCHANGED rx /\ call' = [call EXCEPT ![p] = "busy"]
    /\ UNCHANGED <<fleet, taken, pipe, written, bridge>>

\* It is done, its write has failed, or its time (30 to 120 s) is over.
CallEnds(p) ==
    /\ call[p] # "none"
    /\ call' = [call EXCEPT ![p] = "none"]
    /\ Tears({q \in {p} : call[p] # "waiting"})
    /\ UNCHANGED <<fleet, taken, stdin, written, bridge>>
    /\ LetsGo(p)

\* cmd_disconnect: out of the fleet first, then the goodbye, unless the pipe has
\* no room for it until the command's own time is over. A goodbye behind a torn
\* piece is none.
TakesOut(p) ==
    /\ link = p
    /\ link' = None /\ leaving' = leaving \cup {p}
    /\ UNCHANGED <<alive, opening, calls, pipe, written, bridge>>
Leaves(p) ==
    /\ p \in leaving
    /\ leaving' = leaving \ {p}
    /\ UNCHANGED <<alive, opening, link, call, taken, writes, bridge>>
    /\ LetsGo(p)
HangUp(p) ==
    /\ Leaves(p) /\ Room(p)
    /\ stdin' = [stdin EXCEPT ![p] = Append(@, IF torn[p] THEN Spoilt ELSE Disconnect)]
    /\ bye' = IF torn[p] THEN bye ELSE [bye EXCEPT ![p] = writes[p]]
    /\ torn' = [torn EXCEPT ![p] = FALSE]
HangUpCut(p) ==
    /\ Leaves(p) /\ ~ Room(p)
    /\ Tears({p})
    /\ UNCHANGED <<stdin, bye>>

\* link_failed, or a new link in its place: no goodbye.
Detach(p) ==
    /\ link = p
    /\ link' = None
    /\ UNCHANGED <<alive, opening, leaving, call, taken, pipe, written, bridge>>
    /\ LetsGo(p)

Writers == {p \in Procs : call[p] \in {"busy", "drained"} \/ p \in leaving}
DaemonDies ==
    /\ alive /\ alive' = FALSE
    /\ opening' = None /\ link' = None /\ leaving' = {}
    /\ call' = [p \in Procs |-> "none"] /\ rx' = [p \in Procs |-> <<>>]
    /\ Tears(Writers)
    /\ UNCHANGED <<taken, stdin, written, bridge>>

-----------------------------------------------------------------------------
(* The bridge. Its tasks move only while no print() is stuck.               *)

Runs(p) == main[p] = "running" /\ printing[p] = None
\* A slip in print(): it never waits for room.
Roomy(p) == TRUE
HasRoom(p) == Len(stdout[p]) < OutCap
IsConnected(p) == radio[p] \in {"rfcomm", "serial", "deadSerial"}

\* read_stdin_loop: the next line, and the end of the pipe only behind all lines.
\* A slip in it: the closed pipe is noticed before the lines in it.
PipeEndsAtOnce(p) == opening # p /\ ~ Held(p)
PipeEnds(p) == opening # p /\ ~ Held(p) /\ stdin[p] = <<>>

Complains(p) == printing' = [printing EXCEPT ![p] = [type |-> "error"]]

ReadLine(p) ==
    /\ Runs(p) /\ reader[p] = "reading" /\ stdin[p] # <<>>
    /\ stdin' = [stdin EXCEPT ![p] = Tail(@)]
    /\ LET line == Head(stdin[p]) IN
          \/ /\ line = Disconnect
             /\ reader' = [reader EXCEPT ![p] = "done"] /\ UNCHANGED <<current, printing>>
          \/ /\ line = Spoilt
             /\ Complains(p) /\ UNCHANGED <<reader, current>>
          \/ /\ line \notin {Disconnect, Spoilt}
             /\ reader' = [reader EXCEPT ![p] = "writing"] /\ current' = [current EXCEPT ![p] = line]
             /\ UNCHANGED printing
    /\ UNCHANGED <<daemon, torn, stdout, main, notifier, mover, queues, panel, done>>

\* A piece in front of the end is a line to readline(), and an error.
ReadEnd(p) ==
    /\ Runs(p) /\ reader[p] = "reading" /\ PipeEnds(p)
    /\ IF torn[p]
       THEN Complains(p) /\ torn' = [torn EXCEPT ![p] = FALSE] /\ UNCHANGED reader
       ELSE reader' = [reader EXCEPT ![p] = "done"] /\ UNCHANGED <<printing, torn>>
    /\ UNCHANGED <<daemon, stdin, stdout, main, current, notifier, mover, queues, panel, done>>

\* send_frame: the write goes out, or it raises (no link, a write the radio will
\* not have, a line with a torn piece) and an error line says so.
WriteEnds(p) ==
    /\ Runs(p) /\ reader[p] = "writing"
    /\ (IsConnected(p) /\ UNCHANGED printing) \/ Complains(p)
    /\ done' = [done EXCEPT ![p] = @ \cup {current[p]}]
    /\ reader' = [reader EXCEPT ![p] = "reading"] /\ current' = [current EXCEPT ![p] = None]
    /\ UNCHANGED <<daemon, pipe, stdout, main, notifier, mover, queues, panel>>

\* _rx_loop: one frame at a time from the thread's queue to the loop's, for as
\* long as the transport says it is connected.
GoesOn(p) == mover' = [mover EXCEPT ![p] = IF IsConnected(p) THEN "getting" ELSE "ended"]
Moved == UNCHANGED <<daemon, pipe, stdout, main, reader, current, notifier, printing, panel, done>>
MoverStarts(p) ==
    /\ Runs(p) /\ mover[p] = "starting"
    /\ GoesOn(p)
    /\ UNCHANGED queues /\ Moved

\* A thread of the executor waits a second for a frame, stuck print() or not.
ThreadTakes(p) ==
    /\ main[p] = "running" /\ mover[p] = "getting" /\ hand[p] = None /\ rxQueue[p] # <<>>
    /\ hand' = [hand EXCEPT ![p] = Head(rxQueue[p])]
    /\ rxQueue' = [rxQueue EXCEPT ![p] = Tail(@)]
    /\ UNCHANGED <<mover, notes, lost>> /\ Moved
ThreadFindsNone(p) ==
    /\ Runs(p) /\ mover[p] = "getting" /\ hand[p] = None
    /\ GoesOn(p)
    /\ UNCHANGED queues /\ Moved

\* The loop hears of the thread's frame, and the task goes on with it.
PutFrame(p) == notes' = [notes EXCEPT ![p] = Append(@, hand[p])]
MoverPuts(p) ==
    /\ Runs(p) /\ mover[p] = "getting" /\ hand[p] # None
    /\ PutFrame(p)
    /\ hand' = [hand EXCEPT ![p] = None]
    /\ GoesOn(p)
    /\ UNCHANGED <<rxQueue, lost>> /\ Moved

\* wait_for's 1.5 s pass while print() holds the loop. By then the thread's own
\* second is over: it has a frame or will have none. When the loop goes on, the
\* frame and the timeout come in the same turn, and the timeout wins.
WaitRunsOut(p) ==
    /\ main[p] = "running" /\ alive /\ printing[p] # None /\ ~ HasRoom(p)
    /\ mover[p] = "getting"
    /\ mover' = [mover EXCEPT ![p] = "late"]
    /\ UNCHANGED queues /\ Moved
InHand(p) == IF hand[p] = None THEN <<>> ELSE <<hand[p]>>
\* A slip in its repair: the frame goes back, behind those that have come since.
PutBack(p) == rxQueue' = [rxQueue EXCEPT ![p] = @ \o InHand(p)] /\ UNCHANGED lost
LetGo(p) == lost' = [lost EXCEPT ![p] = @ \cup ({hand[p]} \ {None})] /\ UNCHANGED rxQueue
MoverLate(p) ==
    /\ Runs(p) /\ mover[p] = "late"
    /\ LetGo(p)
    /\ hand' = [hand EXCEPT ![p] = None]
    /\ GoesOn(p)
    /\ UNCHANGED notes /\ Moved

\* read_notifications_loop: the next notification goes to print().
Notify(p) ==
    /\ Runs(p) /\ notifier[p] = "waiting" /\ notes[p] # <<>>
    /\ printing' = [printing EXCEPT ![p] = [type |-> "notification", n |-> Head(notes[p])]]
    /\ notes' = [notes EXCEPT ![p] = Tail(@)]
    /\ UNCHANGED <<daemon, pipe, stdout, main, loops, rxQueue, hand, lost, panel, done>>

\* print() returns once stdout has room.
Prints(p) ==
    /\ printing[p] # None /\ main[p] = "running" /\ alive /\ HasRoom(p)
    /\ stdout' = [stdout EXCEPT ![p] = Append(@, printing[p])]
    /\ printing' = [printing EXCEPT ![p] = None]
    /\ UNCHANGED <<daemon, pipe, main, loops, queues, panel, done>>
\* Nobody reads stdout any more: the notifier ends, a reader takes main() along.
PrintBreaks(p) ==
    /\ printing[p] # None /\ main[p] = "running" /\ ~ alive
    /\ IF printing[p].type = "notification"
       THEN notifier' = [notifier EXCEPT ![p] = "ended"] /\ UNCHANGED main
       ELSE main' = [main EXCEPT ![p] = "closing"] /\ UNCHANGED notifier
    /\ printing' = [printing EXCEPT ![p] = None]
    /\ UNCHANGED <<daemon, pipe, stdout, reader, current, mover, queues, panel, done>>

\* gather() returns when both loops have; only then is the link given up. The line
\* that says so finds nobody: the notifier ends after the daemon has.
GatherEnds(p) ==
    /\ Runs(p) /\ reader[p] = "done" /\ notifier[p] = "ended"
    /\ main' = [main EXCEPT ![p] = "closing"]
    /\ UNCHANGED <<daemon, pipe, stdout, loops, printing, queues, panel, done>>
Closes(p) ==
    /\ main[p] = "closing"
    /\ Gone(p)
    /\ UNCHANGED <<daemon, pipe, stdout, loops, printing, queues, heard, done>>

-----------------------------------------------------------------------------
(* The panel and the radio.                                                 *)

Hears(p) ==
    /\ main[p] = "running" /\ radio[p] \in {"rfcomm", "serial"} /\ InBounds
    /\ heard' = [heard EXCEPT ![p] = @ + 1]
    /\ rxQueue' = [rxQueue EXCEPT ![p] = Append(@, heard[p] + 1)]
    /\ UNCHANGED <<daemon, pipe, stdout, main, loops, printing, hand, notes, lost, radio, done>>

\* RFCOMM says that it is closed; a serial port stays open, its reader dead.
Drops(p) ==
    /\ radio[p] \in {"rfcomm", "serial"}
    /\ radio' = [radio EXCEPT ![p] = IF @ = "rfcomm" THEN "closed" ELSE "deadSerial"]
    /\ UNCHANGED <<daemon, pipe, stdout, main, loops, printing, queues, heard, done>>

Connects(p) == Connected(p) \/ NotConnected(p)
Bridge(p) == \/ Opens(p) \/ OpenFails(p)
             \/ ReadLine(p) \/ ReadEnd(p) \/ WriteEnds(p)
             \/ Prints(p) \/ PrintBreaks(p) \/ GatherEnds(p) \/ Closes(p)
Moves(p) == \/ MoverStarts(p) \/ ThreadTakes(p) \/ ThreadFindsNone(p) \/ MoverPuts(p)
            \/ WaitRunsOut(p) \/ MoverLate(p)
Calls(p) == Call(p) \/ Send(p) \/ Drain(p) \/ Ask(p) \/ Waits(p) \/ CallEnds(p)
Unlinks(p) == TakesOut(p) \/ HangUp(p) \/ HangUpCut(p) \/ Detach(p)

Next == \/ DaemonDies
        \/ \E p \in Procs : \/ Spawn(p) \/ Connects(p) \/ DaemonReads(p) \/ Calls(p) \/ Unlinks(p)
                            \/ Bridge(p) \/ Moves(p) \/ Notify(p) \/ Hears(p) \/ Drops(p)
Spec == Init /\ [][Next]_vars

\* Processes and tasks that can go on do, and a call has its time limit; the
\* daemon, the panel and the radio do what they like.
FairSpec ==
    Spec /\ \A p \in Procs : /\ WF_vars(Connects(p)) /\ WF_vars(DaemonReads(p)) /\ WF_vars(CallEnds(p))
                             /\ WF_vars(Bridge(p)) /\ WF_vars(Moves(p)) /\ WF_vars(Notify(p))

-----------------------------------------------------------------------------
(* Every variable has its type, no pipe or channel holds more than it has   *)
(* room for, and one process at most has the panel's channel (spp.rs:67).   *)
TypeOK ==
    /\ alive \in BOOLEAN /\ {opening, link} \subseteq Procs \cup {None} /\ leaving \subseteq Procs
    /\ Cardinality({p \in Procs : radio[p] \in {"rfcomm", "serial"}}) <= 1
    /\ \A p \in Procs :
          /\ call[p] \in {"none", "busy", "drained", "waiting"}
          /\ Len(rx[p]) <= RxCap /\ Len(stdout[p]) <= OutCap /\ Len(stdin[p]) <= InCap
          /\ \A i \in 1 .. Len(stdout[p]) : stdout[p][i] \in Line
          /\ torn[p] \in BOOLEAN /\ bye[p] \in (0 .. writes[p]) \cup {None}
          /\ main[p] \in {"unused", "connecting", "running", "closing", "exited"}
          /\ reader[p] \in {"reading", "writing", "done"}
          /\ reader[p] = "writing" <=> current[p] # None
          /\ notifier[p] \in {"waiting", "ended"} /\ printing[p] \in Line \cup {None}
          /\ mover[p] \in {"starting", "getting", "late", "ended"}
          /\ mover[p] \in {"starting", "ended"} => hand[p] = None
          /\ hand[p] \in Nat \cup {None} /\ lost[p] \subseteq 1 .. heard[p]
          /\ radio[p] \in {"none", "rfcomm", "serial", "closed", "deadSerial"}
          /\ heard[p] \in Nat /\ writes[p] \in Nat /\ done[p] \subseteq 1 .. writes[p]

\* What the bridge has printed, or is about to, and the notifications among it;
\* behind them, what waits to be printed.
Lines(p) == IF printing[p] = None THEN stdout[p] ELSE Append(stdout[p], printing[p])
Notified(lines) == {i \in DOMAIN lines : lines[i].type = "notification"}
Way(p) == (notes[p] \o InHand(p)) \o rxQueue[p]

Rising(s, I) == \A i, j \in I : i < j => s[i] < s[j]

\* The frames behind the t-th, of h, that are not lost: each once, in their order.
InOrder(lines, waiting, t, h, gone) ==
    LET told == [i \in Notified(lines) |-> lines[i].n] IN
    /\ Rising(told, DOMAIN told) /\ Rising(waiting, DOMAIN waiting)
    /\ \A i \in DOMAIN told, j \in DOMAIN waiting : told[i] < waiting[j]
    /\ t <= h /\ Range(told) \cup Range(waiting) = (t + 1 .. h) \ gone

(* While the daemon and the bridge live, frames go in the order they came   *)
(* in from the thread that read them to the daemon, through two queues,     *)
(* another thread, a stuck print() and a pipe. None is repeated or          *)
(* overtaken, and the ones missing are those that _rx_loop was waiting for  *)
(* while print() held the loop past the wait's end                          *)
(* (bt_spp_transport.py:275-302, spp_bridge.py:58-71).                      *)
FramesInOrder ==
    \A p \in Procs : alive /\ main[p] = "running" =>
        InOrder(Lines(p), Way(p), taken[p], heard[p], lost[p])

(* A bridge stops reading only after it has carried out, or refused, each   *)
(* command the daemon wrote ahead of the goodbye, or each one there was if  *)
(* none came: a goodbye overtakes no command, a closed pipe cuts none off,  *)
(* and nothing a call in flight writes behind the goodbye is carried out    *)
(* (spp_bridge.py:27-56, spp.rs:154-163, daemon.rs:217-241).                *)
GoodbyeIsLast ==
    \A p \in Procs : reader[p] = "done" =>
        done[p] = 1 .. IF bye[p] = None THEN writes[p] ELSE bye[p]

(* A bridge that is told to disconnect gives the panel's channel up: the    *)
(* line means "close the link and exit" (spp_bridge_protocol.rs:35).        *)
HangUpCloses == \A p \in Procs : (bye[p] # None) ~> (radio[p] \notin {"rfcomm", "serial"} \/ ~ alive)
=============================================================================
