--------------------------- MODULE DaemonLifeProofs ---------------------------
(***************************************************************************)
(* What holds of DaemonLife for any number of processes, programs, socket  *)
(* files, calls, mishaps and sweeps. It rests on one inductive invariant:  *)
(* TypeOK; a daemon between the lock file and serving has the lock, and    *)
(* while no cleaner has passed a daemon that holds the socket has it too;  *)
(* open sockets were bound to files of different numbers; and a daemon     *)
(* that is about to remove a file has nobody behind it.                    *)
(***************************************************************************)
EXTENDS DaemonLife, FiniteSetTheorems, TLAPS

(* A cleaner passes only while nobody starts, so a daemon that has taken    *)
(* the lock keeps it until it serves.                                       *)
Guarded == {"locked", "clearing", "clear", "bound"}
StartersLock == \A d \in Daemons : st[d] \in Guarded => lock = d

HoldersLock == sweeps = 0 => \A d \in Daemons : st[d] \in Holding => lock = d

(* Nobody listens without a number, and no two with the same one.           *)
BoundApart ==
    /\ \A d \in listening : owned[d] # None
    /\ \A d, e \in listening : owned[d] = owned[e] => d = e

NobodyBehind ==
    \A d \in Daemons : st[d] = "clearing" => \A e \in Daemons : ~Behind(e)

IInv == TypeOK /\ StartersLock /\ HoldersLock /\ BoundApart /\ NobodyBehind

-----------------------------------------------------------------------------

(* The bounds are numbers, and None is nobody's name.                       *)
LEMMA Constants ==
    /\ MaxCalls \in Nat /\ MaxMishaps \in Nat /\ MaxSweeps \in Nat
    /\ None \notin Daemons /\ None \notin Inodes /\ None \notin Clients
    /\ Gui \in Clients /\ Others \subseteq Clients
  BY DaemonLifeAssumption DEF Clients

(* What a client does to the daemons: it starts one, it stops one that      *)
(* serves, or neither.                                                      *)
StartsOne ==
    /\ \E d \in Daemons : At(d, "gone") /\ Go(d, "starting")
    /\ UNCHANGED <<stale, lock, file, owned, listening, sweeps>>
StopsOne ==
    /\ \E d \in Daemons : At(d, "serving") /\ Go(d, "stopping")
    /\ UNCHANGED <<stale, lock, file, owned, listening, sweeps>>

LEMMA ClientSteps ==
    ASSUME \/ \E c \in Clients : Ensure(c) \/ TooLate(c)
           \/ \E c \in Others : Call(c)
           \/ \E d \in Daemons : Signal(d)
           \/ Subscribe \/ OnDaemonDown \/ CloseWindow \/ WindowCloses \/ Leaves \/ Quit
    PROVE  StartsOne \/ StopsOne \/ UNCHANGED <<daemon, sweeps>>
<1> USE DEF daemon, gui, bounds, StartsOne, StopsOne, Answers, At
<1>1. ASSUME StopServed, UNCHANGED <<stale, lock, file, owned, sweeps>> PROVE StopsOne
  BY <1>1 DEF StopServed, StopServing
<1>2. ASSUME AskShutdown \/ UNCHANGED <<st, listening>>,
             UNCHANGED <<stale, lock, file, owned, sweeps>>
      PROVE  StopsOne \/ UNCHANGED <<daemon, sweeps>>
  BY <1>1, <1>2 DEF AskShutdown
<1>3. ASSUME NEW c \in Clients, Ensure(c)
      PROVE  StartsOne \/ StopsOne \/ UNCHANGED <<daemon, sweeps>>
  <2>1. CASE Finds(c) \/ AskVersion(c) \/ PutsUp(c) \/ PollEnds(c)
    BY <1>3, <2>1 DEF Ensure, Finds, AskVersion, PutsUp, PollEnds
  <2>2. CASE Misses(c) \/ Replaces(c)
    BY <1>3, <2>2 DEF Ensure, Misses, Replaces, Spawn
  <2>3. CASE AskStop(c)
    BY <1>2, <1>3, <2>3 DEF Ensure, AskStop
  <2> QED
    BY <1>3, <2>1, <2>2, <2>3 DEF Ensure
<1>4. ASSUME Subscribe \/ OnDaemonDown \/ Leaves \/ \E c \in Others : Call(c)
      PROVE  UNCHANGED <<daemon, sweeps>>
  BY <1>4 DEF Subscribe, OnDaemonDown, Leaves, Call
<1>5. ASSUME NEW d \in Daemons, Signal(d) PROVE StopsOne
  BY <1>5 DEF Signal, StopServing
<1>6. CASE CloseWindow
  BY <1>2, <1>6 DEF CloseWindow
<1>7. CASE WindowCloses
  BY <1>2, <1>7 DEF WindowCloses
<1>8. CASE Quit
  BY <1>1, <1>8 DEF Quit
<1>9. ASSUME NEW c \in Clients, TooLate(c) PROVE StartsOne \/ UNCHANGED <<daemon, sweeps>>
  BY <1>9 DEF TooLate, Spawn
<1> QED
  BY <1>3, <1>4, <1>5, <1>6, <1>7, <1>8, <1>9

-----------------------------------------------------------------------------

LEMMA InitIInv == Init => IInv
<1> SUFFICES ASSUME Init PROVE IInv
  OBVIOUS
<1> USE Constants DEF Starting, Holding
<1>1. TypeOK
  <2>1. /\ pc \in [Clients -> {"idle", "probing"}] /\ window = "open" /\ follows = None
        /\ sweeps = 0 /\ told = FALSE /\ calls = 0 /\ mishaps = 0
    BY DEF Init
  <2>2. /\ st \in [Daemons -> {"gone", "serving"}] /\ stale \subseteq Daemons
        /\ lock \in Daemons \cup {None} /\ file \in Inodes \cup {None}
        /\ owned \in [Daemons -> Inodes \cup {None}]
        /\ listening = {d \in Daemons : st[d] = "serving"}
        /\ lock # None => st[lock] = "serving"
    BY DEF Init
  <2>3. calls \in 0 .. MaxCalls /\ mishaps \in 0 .. MaxMishaps /\ sweeps \in 0 .. MaxSweeps
    BY <2>1
  <2>4. told \in BOOLEAN
    BY <2>1
  <2> QED
    BY <2>1, <2>2, <2>3, <2>4 DEF TypeOK
<1>2. StartersLock /\ HoldersLock
  BY DEF Init, StartersLock, HoldersLock, Guarded
<1>3. BoundApart /\ NobodyBehind
  BY DEF Init, BoundApart, NobodyBehind, Behind
<1> QED
  BY <1>1, <1>2, <1>3 DEF IInv

LEMMA TypeStep == TypeOK /\ [Next]_vars => TypeOK'
<1> SUFFICES ASSUME TypeOK, [Next]_vars PROVE TypeOK'
  OBVIOUS
<1> USE Constants DEF TypeOK, Starting, Holding, At, Go, daemon, gui, bounds
<1>1. ASSUME NEW d \in Daemons,
             TakeLock(d) \/ Inspect(d) \/ Clear(d) \/ Serve(d) \/ Release(d)
      PROVE  TypeOK'
  BY <1>1 DEF TakeLock, LockIsFree, Inspect, Clear, Serve, Release, Unlock
<1>2. ASSUME NEW d \in Daemons, Bind(d) PROVE TypeOK'
  BY <1>2 DEF Bind, Free
<1>3. ASSUME NEW d \in Daemons, Die(d), UNCHANGED file, mishaps' \in 0 .. MaxMishaps,
             Unlock(d) \/ (lock # d /\ lock' = lock)
      PROVE  TypeOK'
  BY <1>3 DEF Die, Unlock
<1>4. ASSUME NEW d \in Daemons, GiveUp(d) \/ Exit(d) \/ Crash(d) \/ WatchdogExits(d)
      PROVE  TypeOK'
  BY <1>3, <1>4 DEF GiveUp, Exit, Crash, WatchdogExits, Mishap
<1>5. ASSUME NEW d \in Daemons, Signal(d) \/ Wedge(d) PROVE TypeOK'
  BY <1>5 DEF Signal, Wedge, Mishap, StopServing
<1>6. CASE Sweep
  BY <1>6 DEF Sweep
<1>7. ASSUME NEW c \in Clients, Spawn(c), UNCHANGED <<gui, sweeps, told, calls>>,
             mishaps' \in 0 .. MaxMishaps
      PROVE  TypeOK'
  BY <1>7 DEF Spawn, Continue
<1>8. ASSUME AskShutdown \/ StopServed \/ UNCHANGED <<st, listening>>,
             UNCHANGED <<stale, lock, file, owned, follows, sweeps, calls, mishaps>>,
             pc' = pc \/ \E c \in Clients : Continue(c, "waiting") \/ Continue(c, "idle"),
             told' \in BOOLEAN, window' \in {"open", "closing", "leaving", "closed"}
      PROVE  TypeOK'
  BY <1>8 DEF AskShutdown, StopServed, StopServing, Answers, Continue
<1>9. ASSUME NEW c \in Clients, Ensure(c) PROVE TypeOK'
  <2>1. CASE Finds(c) \/ AskVersion(c) \/ PutsUp(c) \/ PollEnds(c)
    BY <1>9, <2>1 DEF Ensure, Finds, AskVersion, PutsUp, PollEnds, Continue
  <2>2. CASE Misses(c) \/ Replaces(c)
    BY <1>7, <1>9, <2>2 DEF Ensure, Misses, Replaces
  <2>3. CASE AskStop(c)
    BY <1>8, <1>9, <2>3 DEF Ensure, AskStop
  <2> QED
    BY <1>9, <2>1, <2>2, <2>3 DEF Ensure
<1>10. ASSUME NEW c \in Others, Call(c) PROVE TypeOK'
  BY <1>10 DEF Call, Continue
<1>11. CASE Subscribe
  BY <1>11 DEF Subscribe, Answers
<1>12. CASE OnDaemonDown
  BY <1>12 DEF OnDaemonDown, Continue
<1>13. CASE CloseWindow
  BY <1>8, <1>13 DEF CloseWindow
<1>14. CASE WindowCloses
  BY <1>8, <1>14 DEF WindowCloses
<1>15. CASE Quit
  BY <1>8, <1>15 DEF Quit
<1>16. CASE Leaves
  BY <1>16 DEF Leaves, Continue
<1>17. ASSUME NEW c \in Clients, TooLate(c) PROVE TypeOK'
  <2>1. mishaps' \in 0 .. MaxMishaps
    BY <1>17 DEF TooLate, Mishap
  <2>2. CASE Spawn(c)
    BY <1>7, <1>17, <2>1, <2>2 DEF TooLate
  <2>3. CASE Continue(c, "asking") /\ UNCHANGED daemon
    BY <1>17, <2>1, <2>3 DEF TooLate, Continue
  <2> QED
    BY <1>17, <2>2, <2>3 DEF TooLate
<1>18. CASE UNCHANGED vars
  BY <1>18 DEF vars
<1> QED
  BY <1>1, <1>2, <1>4, <1>5, <1>6, <1>9, <1>10, <1>11, <1>12, <1>13, <1>14, <1>15, <1>16, <1>17, <1>18
     DEF Next, DaemonStep

LEMMA LockStep ==
    TypeOK /\ StartersLock /\ HoldersLock /\ [Next]_vars => StartersLock' /\ HoldersLock'
<1> SUFFICES ASSUME TypeOK, StartersLock, HoldersLock, [Next]_vars
             PROVE  StartersLock' /\ HoldersLock'
  OBVIOUS
<1> USE Constants
    DEF TypeOK, StartersLock, HoldersLock, Guarded, Starting, Holding, At, Go, daemon, bounds
<1>1. ASSUME NEW d \in Daemons,
             TakeLock(d) \/ Inspect(d) \/ Clear(d) \/ Bind(d) \/ Serve(d) \/ Wedge(d)
      PROVE  StartersLock' /\ HoldersLock'
  BY <1>1 DEF TakeLock, LockIsFree, Inspect, Clear, Bind, Serve, Wedge
<1>2. ASSUME NEW d \in Daemons, Release(d) PROVE StartersLock' /\ HoldersLock'
  BY <1>2 DEF Release, Unlock
<1>3. ASSUME NEW d \in Daemons, GiveUp(d) \/ Exit(d) \/ Crash(d) \/ WatchdogExits(d)
      PROVE  StartersLock' /\ HoldersLock'
  BY <1>3 DEF GiveUp, Exit, Crash, WatchdogExits, Die, Unlock
<1>4. CASE Sweep
  BY <1>4 DEF Sweep
<1>5. CASE StartsOne \/ StopsOne \/ UNCHANGED <<daemon, sweeps>>
  BY <1>5 DEF StartsOne, StopsOne
<1>6. CASE UNCHANGED vars
  BY <1>6 DEF vars
<1> QED
  BY <1>1, <1>2, <1>3, <1>4, <1>5, <1>6, ClientSteps DEF Next, DaemonStep

LEMMA BoundStep == TypeOK /\ BoundApart /\ [Next]_vars => BoundApart'
<1> SUFFICES ASSUME TypeOK, BoundApart, [Next]_vars PROVE BoundApart'
  OBVIOUS
<1> USE Constants DEF TypeOK, BoundApart, At, Go, daemon, bounds
<1>1. ASSUME NEW d \in Daemons, Bind(d) PROVE BoundApart'
  BY <1>1 DEF Bind, Free, Holding
<1>2. ASSUME NEW d \in Daemons, Die(d) PROVE BoundApart'
  BY <1>2 DEF Die
<1>3. ASSUME listening' = listening, owned' = owned PROVE BoundApart'
  BY <1>3
<1>4. ASSUME NEW d \in Daemons, TakeLock(d) \/ Inspect(d) \/ Clear(d) \/ Serve(d) \/ Wedge(d)
                                \/ Release(d)
      PROVE  BoundApart'
  BY <1>3, <1>4 DEF TakeLock, Inspect, Clear, Serve, Wedge, Release
<1>5. ASSUME NEW d \in Daemons, GiveUp(d) \/ Exit(d) \/ Crash(d) \/ WatchdogExits(d)
      PROVE  BoundApart'
  BY <1>2, <1>5 DEF GiveUp, Exit, Crash, WatchdogExits
<1>6. CASE Sweep
  BY <1>3, <1>6 DEF Sweep
<1>7. CASE StartsOne \/ StopsOne \/ UNCHANGED <<daemon, sweeps>>
  BY <1>3, <1>7 DEF StartsOne, StopsOne
<1>8. CASE UNCHANGED vars
  BY <1>3, <1>8 DEF vars
<1> QED
  BY <1>1, <1>4, <1>5, <1>6, <1>7, <1>8, ClientSteps DEF Next, DaemonStep

(* While a daemon is about to remove a file nobody else has the lock, so    *)
(* nobody binds.                                                            *)
LEMMA NobodyStep ==
    TypeOK /\ StartersLock /\ BoundApart /\ NobodyBehind /\ [Next]_vars => NobodyBehind'
<1> SUFFICES ASSUME TypeOK, StartersLock, BoundApart, NobodyBehind, [Next]_vars
             PROVE  NobodyBehind'
  OBVIOUS
<1> USE Constants
    DEF TypeOK, StartersLock, Guarded, BoundApart, NobodyBehind, Behind, At, Go, daemon, bounds
<1>1. ASSUME NEW d \in Daemons, TakeLock(d) \/ Serve(d) \/ Wedge(d)
      PROVE  NobodyBehind'
  BY <1>1 DEF TakeLock, Serve, Wedge
<1>2. ASSUME NEW d \in Daemons, Inspect(d) PROVE NobodyBehind'
  BY <1>2 DEF Inspect
<1>3. ASSUME NEW d \in Daemons, Clear(d) PROVE NobodyBehind'
  BY <1>3 DEF Clear
<1>4. ASSUME NEW d \in Daemons, Bind(d) PROVE NobodyBehind'
  BY <1>4 DEF Bind
<1>5. ASSUME NEW d \in Daemons, Release(d) PROVE NobodyBehind'
  BY <1>5 DEF Release
<1>6. ASSUME NEW d \in Daemons, Die(d), UNCHANGED file PROVE NobodyBehind'
  BY <1>6 DEF Die
<1>7. ASSUME NEW d \in Daemons, GiveUp(d) \/ Exit(d) \/ Crash(d) \/ WatchdogExits(d)
      PROVE  NobodyBehind'
  BY <1>6, <1>7 DEF GiveUp, Exit, Crash, WatchdogExits
<1>8. CASE Sweep
  BY <1>8 DEF Sweep
<1>9. CASE StartsOne \/ StopsOne \/ UNCHANGED <<daemon, sweeps>>
  BY <1>9 DEF StartsOne, StopsOne
<1>10. CASE UNCHANGED vars
  BY <1>10 DEF vars
<1> QED
  BY <1>1, <1>2, <1>3, <1>4, <1>5, <1>7, <1>8, <1>9, <1>10, ClientSteps DEF Next, DaemonStep

LEMMA Invariance == Spec => []IInv
<1>1. IInv /\ [Next]_vars => IInv'
  BY TypeStep, LockStep, BoundStep, NobodyStep DEF IInv
<1> QED
  BY InitIInv, <1>1, PTL DEF Spec

-----------------------------------------------------------------------------

(* Every variable has its type: the lock's owner is alive and past the      *)
(* lock, open sockets belong to processes, and the application follows one  *)
(* that is not gone.                                                        *)
THEOREM TypeCorrect == Spec => []TypeOK
<1>1. IInv => TypeOK
  BY DEF IInv
<1> QED
  BY Invariance, <1>1, PTL

(* However starts, ends, crashes and the clients' replacements meet, one    *)
(* daemon at most holds the socket and what comes with it, as long as no    *)
(* cleaner took the lock file away.                                         *)
THEOREM OneDaemonAtMost == Spec => []OneDaemon
<1>1. ASSUME IInv PROVE OneDaemon
  <2> SUFFICES ASSUME sweeps = 0
               PROVE  Cardinality({d \in Daemons : st[d] \in Holding}) <= 1
    BY DEF OneDaemon
  <2>1. {d \in Daemons : st[d] \in Holding} \subseteq {lock}
    BY <1>1 DEF IInv, HoldersLock
  <2>2. IsFiniteSet({lock}) /\ Cardinality({lock}) = 1
    BY FS_Singleton
  <2> QED
    BY <2>1, <2>2, FS_Subset, FS_CardinalityType
<1> QED
  BY Invariance, <1>1, PTL

(* The file a daemon listens behind goes only when that daemon stops or a   *)
(* cleaner passes: a daemon that removes a stale file has the lock and has  *)
(* seen that nobody is behind it, and a number is used again only when no   *)
(* open socket has it.                                                      *)
THEOREM FileNotStolen == Spec => NotStolen
<1>1. ASSUME IInv, [Next]_vars, NEW d \in Daemons, Behind(d), file' # file
      PROVE  At(d, "stopping") \/ sweeps' # sweeps
  <2> USE <1>1, Constants DEF IInv, TypeOK, BoundApart, NobodyBehind, Behind, At, Go, daemon, bounds
  <2>1. ASSUME NEW e \in Daemons, Clear(e) PROVE FALSE
    BY <2>1 DEF Clear
  <2>2. ASSUME NEW e \in Daemons, Bind(e) PROVE FALSE
    BY <2>2 DEF Bind
  <2>3. ASSUME NEW e \in Daemons, Release(e) PROVE At(d, "stopping")
    BY <2>3 DEF Release, Holding
  <2>4. CASE Sweep
    BY <2>4 DEF Sweep
  <2>5. ASSUME NEW e \in Daemons,
               TakeLock(e) \/ GiveUp(e) \/ Inspect(e) \/ Serve(e) \/ Exit(e) \/ WatchdogExits(e)
               \/ Crash(e) \/ Wedge(e)
        PROVE  FALSE
    BY <2>5 DEF TakeLock, GiveUp, Inspect, Serve, Exit, WatchdogExits, Crash, Wedge
  <2>6. CASE StartsOne \/ StopsOne \/ UNCHANGED <<daemon, sweeps>>
    BY <2>6 DEF StartsOne, StopsOne
  <2>7. CASE UNCHANGED vars
    BY <2>7 DEF vars
  <2> QED
    BY <2>1, <2>2, <2>3, <2>4, <2>5, <2>6, <2>7, ClientSteps DEF Next, DaemonStep
<1>2. IInv /\ [Next]_vars
      => [\A d \in Daemons : Behind(d) /\ file' # file
             => At(d, "stopping") \/ sweeps' # sweeps]_vars
  BY <1>1
<1> QED
  BY Invariance, <1>2, PTL DEF Spec, NotStolen
=============================================================================
