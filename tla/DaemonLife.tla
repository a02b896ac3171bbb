------------------------------ MODULE DaemonLife ------------------------------
(***************************************************************************)
(* The daemon's process as the programs around it start, replace and stop  *)
(* it (divoom_client/daemon_client.py, daemon_version.py, gui_main.py and  *)
(* scanner_mixin.py; divoomd's main.rs, socket_bind.rs, socket_owner.rs).  *)
(*                                                                         *)
(* Nothing supervises the daemon. A program that needs it asks whoever     *)
(* answers at the socket's path, and starts one when nobody does; the      *)
(* desktop application also follows the daemon's events and brings it back *)
(* when they end. Several programs do this at once, over one connection    *)
(* per question. What keeps the daemons apart is a lock file, held for the *)
(* life of a process, and the socket's file, which a daemon removes only   *)
(* while it is the one it bound.                                           *)
(*                                                                         *)
(* Left out: what is asked of a daemon otherwise, remote daemons, foreign  *)
(* programs at the path, failure reports, and the identity files.          *)
(***************************************************************************)
EXTENDS Naturals, FiniteSets

CONSTANTS Daemons,     \* processes: as many as are alive at once
          Gui,         \* the desktop application, with a shared lifecycle
          Others,      \* the other programs that start daemons
          Knows,       \* the programs that know the version to expect
          Inodes,      \* the numbers of socket files
          None,
          MaxCalls,    \* times the others call
          MaxMishaps,  \* daemons that crash, wedge, are sent a signal or answer late
          MaxSweeps    \* times a cleaner passes

Clients == {Gui} \cup Others

ASSUME DaemonLifeAssumption ==
    /\ None \notin Daemons \cup Clients \cup Inodes
    /\ Knows \subseteq Clients /\ Gui \notin Others
    /\ IsFiniteSet(Inodes) /\ Cardinality(Inodes) > Cardinality(Daemons)
    /\ {MaxCalls, MaxMishaps, MaxSweeps} \subseteq Nat

VARIABLES
    st,        \* per daemon: how far it is
    stale,     \* the daemons of an older installation
    lock,      \* the daemon that holds the lock file at its path
    file,      \* the inode of the socket's file
    owned,     \* per daemon: the inode it recorded when it bound
    listening, \* the daemons whose socket is open
    sweeps,    \* times a cleaner removed the files of a quiet system
    pc,        \* per client: where ensure_daemon is
    window,    \* the application's window
    follows,   \* the daemon whose events the application reads
    told,      \* the menu bar's Quit has reached a daemon
    calls, mishaps

daemon == <<st, stale, lock, file, owned, listening>>
gui    == <<window, follows>>
bounds == <<sweeps, told, calls, mishaps>>
vars   == <<daemon, pc, gui, bounds>>

Starting == {"starting", "locked", "clearing", "clear"}
Holding  == {"bound", "serving", "wedged", "stopping"}

TypeOK ==
    /\ st \in [Daemons -> {"gone", "exiting"} \cup Starting \cup Holding]
    /\ stale \subseteq Daemons /\ listening \subseteq Daemons
    /\ lock \in Daemons \cup {None} /\ file \in Inodes \cup {None}
    /\ owned \in [Daemons -> Inodes \cup {None}]
    /\ pc \in [Clients -> {"idle", "probing", "version", "asking", "waiting", "polling"}]
    /\ window \in {"open", "closing", "leaving", "closed"} /\ follows \in Daemons \cup {None}
    /\ told \in BOOLEAN /\ calls \in 0 .. MaxCalls
    /\ mishaps \in 0 .. MaxMishaps /\ sweeps \in 0 .. MaxSweeps
    /\ lock # None => st[lock] \notin {"gone", "starting", "exiting"}
    /\ listening = {d \in Daemons : st[d] \in Holding \cup {"exiting"}}
    /\ follows # None => st[follows] # "gone"

\* The first daemon is missing, or one an older installation left behind.
Init ==
    /\ \/ /\ st = [d \in Daemons |-> "gone"] /\ stale = {} /\ lock = None /\ file = None
          /\ owned = [d \in Daemons |-> None] /\ listening = {}
       \/ \E o \in Daemons, i \in Inodes :
             /\ st = [d \in Daemons |-> IF d = o THEN "serving" ELSE "gone"] /\ stale = {o}
             /\ lock = o /\ file = i /\ owned = [d \in Daemons |-> IF d = o THEN i ELSE None]
             /\ listening = {o}
    /\ pc = [c \in Clients |-> IF c = Gui THEN "probing" ELSE "idle"]
    /\ window = "open" /\ follows = None
    /\ sweeps = 0 /\ told = FALSE /\ calls = 0 /\ mishaps = 0

\* Who listens at the path, and who answers a get_status there.
Behind(d) == d \in listening /\ owned[d] = file
Answers(d) == Behind(d) /\ st[d] = "serving"
Served == \E d \in Daemons : Answers(d)

At(d, s) == st[d] = s
Go(d, s) == st' = [st EXCEPT ![d] = s]

-----------------------------------------------------------------------------
(* A daemon's start (socket_bind.rs).                                       *)

\* A slip in it: whoever opens the lock file goes on.
LockIsAnyones == TRUE
LockIsFree == lock = None

TakeLock(d) ==
    /\ At(d, "starting") /\ LockIsFree
    /\ lock' = d /\ Go(d, "locked")
    /\ UNCHANGED <<stale, file, owned, listening, pc, gui, bounds>>

\* A process is no more: its descriptors are closed, and a stream ends.
\* A slip in it: a child that inherited the lock's descriptor keeps the lock.
ChildKeepsLock(d) == lock' = lock
Unlock(d) == lock' = IF lock = d THEN None ELSE lock
Die(d) ==
    /\ Go(d, "gone") /\ listening' = listening \ {d} /\ stale' = stale \ {d}
    /\ owned' = [owned EXCEPT ![d] = None]
    /\ follows' = IF follows = d THEN None ELSE follows
    /\ UNCHANGED <<pc, window, sweeps, told, calls>>

\* Another one has the lock, or a listener is at the path, whether it answers or not.
GiveUp(d) ==
    /\ \/ At(d, "starting") /\ lock # None
       \/ At(d, "locked") /\ \E e \in Daemons : Behind(e)
    /\ Unlock(d) /\ Die(d) /\ UNCHANGED <<file, mishaps>>

\* A file nobody listens behind has outlived its process, and is removed.
Inspect(d) ==
    /\ At(d, "locked") /\ \A e \in Daemons : ~Behind(e)
    /\ Go(d, IF file = None THEN "clear" ELSE "clearing")
    /\ UNCHANGED <<stale, lock, file, owned, listening, pc, gui, bounds>>
Clear(d) ==
    /\ At(d, "clearing") /\ file' = None /\ Go(d, "clear")
    /\ UNCHANGED <<stale, lock, owned, listening, pc, gui, bounds>>

\* A number is free when no path names it and no open socket was bound to it.
Free == Inodes \ ({file} \cup {owned[d] : d \in listening})
Bind(d) ==
    /\ At(d, "clear") /\ file = None
    /\ \E i \in Free : file' = i /\ owned' = [owned EXCEPT ![d] = i]
    /\ listening' = listening \cup {d} /\ Go(d, "bound")
    /\ UNCHANGED <<stale, lock, pc, gui, bounds>>

Serve(d) ==
    /\ At(d, "bound") /\ Go(d, "serving")
    /\ UNCHANGED <<stale, lock, file, owned, listening, pc, gui, bounds>>

-----------------------------------------------------------------------------
(* A daemon's end (main.rs, socket_owner.rs).                               *)

\* It stops accepting first; the socket stays open until the process ends.
\* A slip in it: the socket is closed with the loop that accepted from it.
LoopClosesSocket(d) == Go(d, "stopping") /\ listening' = listening \ {d}
StopServing(d) == Go(d, "stopping") /\ UNCHANGED listening

\* release(): the socket's file, if it still is the one this daemon bound, and then
\* the lock.
Release(d) ==
    /\ At(d, "stopping") /\ Go(d, "exiting")
    /\ file' = IF owned[d] = file THEN None ELSE file
    /\ Unlock(d)
    /\ UNCHANGED <<stale, owned, listening, pc, gui, bounds>>
Exit(d) == At(d, "exiting") /\ Die(d) /\ UNCHANGED <<lock, file, mishaps>>

\* A signal ends it in order, a crash at once; one that stopped turning is ended by
\* its watchdog.
Mishap == mishaps < MaxMishaps /\ mishaps' = mishaps + 1
Signal(d) ==
    /\ At(d, "serving") /\ Mishap /\ StopServing(d)
    /\ UNCHANGED <<stale, lock, file, owned, pc, gui, sweeps, told, calls>>
Crash(d) ==
    /\ ~At(d, "gone") /\ Mishap /\ Unlock(d) /\ Die(d) /\ UNCHANGED file
Wedge(d) ==
    /\ At(d, "serving") /\ Mishap /\ Go(d, "wedged")
    /\ UNCHANGED <<stale, lock, file, owned, listening, pc, gui, sweeps, told, calls>>
WatchdogExits(d) == At(d, "wedged") /\ Unlock(d) /\ Die(d) /\ UNCHANGED <<file, mishaps>>

\* A cleaner of temporary files takes what nobody has touched for days, regular
\* files at least.
Sweep ==
    /\ sweeps < MaxSweeps /\ file # None /\ \A d \in Daemons : st[d] \in {"gone", "serving", "wedged"}
    /\ file' \in {file, None} /\ lock' = None /\ sweeps' = sweeps + 1
    /\ UNCHANGED <<st, stale, owned, listening, pc, gui, told, calls, mishaps>>

DaemonStep(d) ==
    \/ TakeLock(d) \/ GiveUp(d) \/ Inspect(d) \/ Clear(d) \/ Bind(d) \/ Serve(d)
    \/ Release(d) \/ Exit(d) \/ WatchdogExits(d)

-----------------------------------------------------------------------------
(* ensure_daemon of a client, a connection for each question.               *)

Continue(c, p) == pc' = [pc EXCEPT ![c] = p]

\* The binary is chosen by its version: the new daemon is a current one.
Spawn(c) ==
    /\ \E d \in Daemons : At(d, "gone") /\ Go(d, "starting")
    /\ Continue(c, "polling")
    /\ UNCHANGED <<stale, lock, file, owned, listening>>

Finds(c) ==
    /\ pc[c] = "probing" /\ Served
    /\ Continue(c, IF c \in Knows THEN "version" ELSE "idle")
    /\ UNCHANGED daemon
Misses(c) == pc[c] = "probing" /\ ~Served /\ Spawn(c)

\* Any answer but the expected version is a mismatch, and so is none.
Expected == \E d \in Daemons \ stale : Answers(d)
AskVersion(c) ==
    /\ pc[c] = "version" /\ Continue(c, IF Expected THEN "idle" ELSE "asking")
    /\ UNCHANGED daemon

\* shutdown, sent to whoever serves the path by now.
StopServed == \E d \in Daemons : Answers(d) /\ StopServing(d)
AskShutdown == StopServed \/ (~Served /\ UNCHANGED <<st, listening>>)
AskStop(c) ==
    /\ pc[c] = "asking" /\ AskShutdown /\ Continue(c, "waiting")
    /\ UNCHANGED <<stale, lock, file, owned>>

\* It does not answer any more: start the next. Or it still does: put up with it.
Replaces(c) == pc[c] = "waiting" /\ ~Served /\ Spawn(c)
PutsUp(c) == pc[c] = "waiting" /\ Served /\ Continue(c, "idle") /\ UNCHANGED daemon

\* Any daemon that answers will do; a client that has waited long enough has none.
PollEnds(c) == pc[c] = "polling" /\ Continue(c, "idle") /\ UNCHANGED daemon

\* A daemon may answer later than a question waits: the client takes it for none,
\* in probe and poll, or for one without a version.
TooLate(c) ==
    /\ Served /\ Mishap /\ (c = Gui => window # "closed")
    /\ \/ pc[c] \in {"probing", "waiting"} /\ Spawn(c)
       \/ pc[c] = "version" /\ Continue(c, "asking") /\ UNCHANGED daemon
    /\ UNCHANGED <<gui, sweeps, told, calls>>

Ensure(c) ==
    /\ \/ Finds(c) \/ Misses(c) \/ AskVersion(c) \/ AskStop(c)
       \/ Replaces(c) \/ PutsUp(c) \/ PollEnds(c)
    /\ c = Gui => window # "closed"
    /\ UNCHANGED <<gui, bounds>>

Call(c) ==
    /\ pc[c] = "idle" /\ calls < MaxCalls /\ calls' = calls + 1 /\ Continue(c, "probing")
    /\ UNCHANGED <<daemon, gui, sweeps, told, mishaps>>

-----------------------------------------------------------------------------
(* The desktop application (gui_main.py, scanner_mixin.py, gui_api.py).     *)

\* The follower subscribes anew whenever its stream has ended; no event says that a
\* daemon is stopping, so an orderly end looks to it like any other.
Subscribe ==
    /\ window # "closed" /\ follows = None
    /\ \E d \in Daemons : Answers(d) /\ follows' = d
    /\ UNCHANGED <<daemon, pc, window, bounds>>
\* onDaemonDown: the page asks for the daemon's health, and for a reconnect.
OnDaemonDown ==
    /\ window # "closed" /\ follows = None /\ ~Served
    /\ pc[Gui] = "idle" /\ Continue(Gui, "probing")
    /\ UNCHANGED <<daemon, gui, bounds>>

\* The window's close button stops the daemon if a client is at hand, the closing
\* event stops it once, and the process ends with whatever its threads are doing,
\* which until then may bring a daemon back.
CloseWindow ==
    /\ window = "open" /\ window' = "closing"
    /\ AskShutdown \/ UNCHANGED <<st, listening>>
    /\ UNCHANGED <<stale, lock, file, owned, pc, follows, bounds>>
WindowCloses ==
    /\ window = "closing" /\ window' = "leaving"
    /\ AskShutdown
    /\ UNCHANGED <<stale, lock, file, owned, pc, follows, bounds>>
Leaves ==
    /\ window = "leaving" /\ window' = "closed"
    /\ Continue(Gui, "idle") /\ follows' = None
    /\ UNCHANGED <<daemon, bounds>>

\* Quit of the menu bar, whose agent ends itself.
Quit ==
    /\ ~told /\ StopServed /\ told' = TRUE
    /\ UNCHANGED <<stale, lock, file, owned, pc, gui, sweeps, calls, mishaps>>

Next ==
    \/ \E d \in Daemons : DaemonStep(d) \/ Signal(d) \/ Crash(d) \/ Wedge(d)
    \/ \E c \in Clients : Ensure(c) \/ TooLate(c)
    \/ \E c \in Others : Call(c)
    \/ Subscribe \/ OnDaemonDown \/ CloseWindow \/ WindowCloses \/ Leaves \/ Quit \/ Sweep

Spec == Init /\ [][Next]_vars

\* Processes and threads run, and every wait of theirs is bounded by a timeout.
FairSpec ==
    /\ Spec
    /\ \A d \in Daemons : WF_vars(DaemonStep(d))
    /\ \A c \in Clients : WF_vars(Ensure(c))
    /\ WF_vars(Subscribe) /\ WF_vars(OnDaemonDown) /\ WF_vars(WindowCloses) /\ WF_vars(Leaves)

-----------------------------------------------------------------------------
(* Properties.                                                              *)

\* The panels have one owner: no two daemons hold the socket and what comes with
\* it, however their starts, ends and crashes meet, as long as the lock file is
\* left where it is (socket_bind.rs: inspect and bind are "serialized against other
\* divoomd startups").
OneDaemon == sweeps = 0 => Cardinality({d \in Daemons : st[d] \in Holding}) <= 1

\* No daemon that starts or ends removes the file another one listens behind, not
\* even one whose own file was swept and whose inode number could be used again
\* (socket_owner.rs:60-67).
NotStolen ==
    [][\A d \in Daemons :
          Behind(d) /\ file' # file =>
             At(d, "stopping") \/ sweeps' # sweeps]_vars

\* The application keeps a daemon: after the last crash, signal and call there is,
\* for good, one that serves the path, whatever the clients did to each other's
\* daemons meanwhile (panel_relink.py, R59 in gui_main.py:400; after a sweep the
\* lock of the old daemon cannot be seen, and none is promised).
Recovers == <>[](Served \/ sweeps > 0 \/ window # "open")

\* With a shared lifecycle, Quit in the menu bar ends the application too: "ask the
\* daemon to shut down so the GUI follows it down" (divoom-menubar/src/launch.rs:88).
FollowsDown == told ~> window = "closed"
=============================================================================
