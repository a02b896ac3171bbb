------------------------------ MODULE CommandQueue ------------------------------
(****************************************************************************)
(* divoomd's per-link command queue (divoomd/src/command_queue.rs): the one  *)
(* path to a panel's radio.  Callers append jobs under the queue's mutex and *)
(* a worker task takes them one at a time.  A session may own the slot: with *)
(* an idle deadline (acquire_now, exclusive_start) or for as long as its     *)
(* screen lease lives (hold).  Each action is one critical section of the    *)
(* mutex or one await of the worker, so every interleaving of the tokio      *)
(* threads is a behaviour.                                                   *)
(*                                                                           *)
(* Time is a Tick.  The two timeouts are counted down in ticks: a deadline   *)
(* that reached 0 has passed, an age that reached ItemTimeout is too old.    *)
(****************************************************************************)
EXTENDS Integers, Sequences, SequencesExt

CONSTANTS
    Jobs,               \* the operations callers hand to this queue
    Tokens,             \* session tokens
    NoToken,            \* Option::None for a token and for the owner
    NoJob,              \* the worker runs nothing
    ExclusiveTimeout,   \* ticks an idle owner keeps the slot (30 s in daemon.rs)
    ItemTimeout         \* ticks an item may wait (60 s in daemon.rs)

ASSUME QueueAssumption ==
    /\ NoToken \notin Tokens
    /\ NoJob \notin Jobs
    /\ ExclusiveTimeout \in Nat \ {0}
    /\ ItemTimeout \in Nat \ {0}

NoDeadline == -1

VARIABLES
    \* Inner, under the mutex
    pending, owner, deadline, held, stopped,
    \* the permit stored in the Notify
    notified,
    \* the worker task: where it is, what it runs, how long it still sleeps
    worker, current, nap,
    \* each job, as its caller and its receiver see it
    stage, kind, token, age

inner == <<pending, owner, deadline, held, stopped>>
task == <<worker, current, nap>>
jobs == <<stage, kind, token, age>>
vars == <<inner, notified, task, jobs>>

Stages == {"new",       \* not handed over yet
           "gated",     \* acquire() passed check_allowed, not yet in the queue
           "pending", "running", "done",
           "dropped",   \* its receiver errors: "did not execute"
           "refused"}   \* acquire() answered HeldByAnother or Stopped

\* "work" is a submitted future; "permit" is an acquire() whose caller still
\* waits for, or holds, the QueuePermit; "released" is one whose caller let go.
Kinds == {"work", "permit", "released"}

TypeOK ==
    /\ pending \in Seq(Jobs)
    /\ owner \in Tokens \cup {NoToken}
    /\ deadline \in {NoDeadline} \cup 0..ExclusiveTimeout
    /\ held \in BOOLEAN
    /\ stopped \in BOOLEAN
    /\ notified \in BOOLEAN
    /\ worker \in {"next", "wait", "sleep", "run", "rearm", "off"}
    /\ current \in Jobs \cup {NoJob}
    /\ nap \in 0..ExclusiveTimeout
    /\ stage \in [Jobs -> Stages]
    /\ kind \in [Jobs -> Kinds]
    /\ token \in [Jobs -> Tokens \cup {NoToken}]
    /\ age \in [Jobs -> 0..ItemTimeout]

Init ==
    /\ pending = <<>>
    /\ owner = NoToken
    /\ deadline = NoDeadline
    /\ held = FALSE
    /\ stopped = FALSE
    /\ notified = FALSE
    /\ worker = "next"
    /\ current = NoJob
    /\ nap = 0
    /\ stage = [j \in Jobs |-> "new"]
    /\ kind = [j \in Jobs |-> "work"]
    /\ token = [j \in Jobs |-> NoToken]
    /\ age = [j \in Jobs |-> 0]

-----------------------------------------------------------------------------
(* Callers                                                                   *)

(* Mutants of the definitions below, each a bug the code could have had.       *)
ArmedEvenIfHeld(o, h) == IF o # NoToken THEN ExclusiveTimeout ELSE NoDeadline
ArmedWithItemTimeout(o, h) == IF o # NoToken /\ ~h THEN ItemTimeout ELSE NoDeadline

(* arm_deadline: what the deadline becomes for owner o, holding by lease or not *)
Armed(o, h) == IF o # NoToken /\ ~h THEN ExclusiveTimeout ELSE NoDeadline

(* submit: a stopped queue drops the job; the worker is notified either way. *)
Submit(j, t) ==
    /\ stage[j] = "new"
    /\ token' = [token EXCEPT ![j] = t]
    /\ IF stopped
       THEN stage' = [stage EXCEPT ![j] = "dropped"] /\ UNCHANGED pending
       ELSE stage' = [stage EXCEPT ![j] = "pending"] /\ pending' = Append(pending, j)
    /\ notified' = TRUE
    /\ UNCHANGED <<owner, deadline, held, stopped, task, kind, age>>

(* check_allowed: open, and the slot is free or the caller's own. *)
Allowed(t) == ~stopped /\ owner \in {NoToken, t}

(* acquire, first critical section *)
Gate(j, t) ==
    /\ stage[j] = "new"
    /\ token' = [token EXCEPT ![j] = t]
    /\ kind' = [kind EXCEPT ![j] = "permit"]
    /\ stage' = [stage EXCEPT ![j] = IF Allowed(t) THEN "gated" ELSE "refused"]
    /\ UNCHANGED <<inner, notified, task, age>>

EnqueueSilently(j) ==
    /\ stage[j] = "gated"
    /\ IF stopped
       THEN stage' = [stage EXCEPT ![j] = "refused"] /\ UNCHANGED pending
       ELSE stage' = [stage EXCEPT ![j] = "pending"] /\ pending' = Append(pending, j)
    /\ UNCHANGED <<owner, deadline, held, stopped, notified, task, kind, token, age>>

EnqueueUnchecked(j) ==
    /\ stage[j] = "gated"
    /\ stage' = [stage EXCEPT ![j] = "pending"]
    /\ pending' = Append(pending, j)
    /\ notified' = TRUE
    /\ UNCHANGED <<owner, deadline, held, stopped, task, kind, token, age>>

(* acquire, second critical section: the slot may have changed hands since. *)
Enqueue(j) ==
    /\ stage[j] = "gated"
    /\ IF stopped
       THEN stage' = [stage EXCEPT ![j] = "refused"] /\ UNCHANGED <<pending, notified>>
       ELSE /\ stage' = [stage EXCEPT ![j] = "pending"]
            /\ pending' = Append(pending, j)
            /\ notified' = TRUE
    /\ UNCHANGED <<owner, deadline, held, stopped, task, kind, token, age>>

(* The caller's future is dropped while it waits (a command budget ran out),  *)
(* or the QueuePermit it holds is.                                           *)
LetGo(j) ==
    /\ kind[j] = "permit"
    /\ stage[j] \in {"pending", "running"}
    /\ kind' = [kind EXCEPT ![j] = "released"]
    /\ UNCHANGED <<inner, notified, task, stage, token, age>>

AcquireNowSteals(t) ==
    /\ ~stopped
    /\ owner' = t
    /\ deadline' = Armed(t, held)
    /\ notified' = TRUE
    /\ UNCHANGED <<pending, held, stopped, task, jobs>>

(* acquire_now: exclusive_start *)
AcquireNow(t) ==
    /\ Allowed(t)
    /\ owner' = t
    /\ deadline' = Armed(t, held)
    /\ notified' = TRUE
    /\ UNCHANGED <<pending, held, stopped, task, jobs>>

(* hold: a screen lease *)
Hold(t) ==
    /\ Allowed(t)
    /\ owner' = t
    /\ held' = TRUE
    /\ deadline' = NoDeadline
    /\ notified' = TRUE
    /\ UNCHANGED <<pending, stopped, task, jobs>>

ReleaseSilently(t) ==
    /\ owner = t
    /\ owner' = NoToken
    /\ deadline' = NoDeadline
    /\ held' = FALSE
    /\ UNCHANGED <<pending, stopped, notified, task, jobs>>

Release(t) ==
    /\ owner = t
    /\ owner' = NoToken
    /\ deadline' = NoDeadline
    /\ held' = FALSE
    /\ notified' = TRUE
    /\ UNCHANGED <<pending, stopped, task, jobs>>

(* stop: the link was retired. The pending jobs' senders are dropped. *)
Stop ==
    /\ ~stopped
    /\ stopped' = TRUE
    /\ pending' = <<>>
    /\ stage' = [j \in Jobs |-> IF stage[j] = "pending" THEN "dropped" ELSE stage[j]]
    /\ notified' = TRUE
    /\ UNCHANGED <<owner, deadline, held, task, kind, token, age>>

-----------------------------------------------------------------------------
(* The worker                                                                *)

TooOld(j) == age[j] >= ItemTimeout

ExpiresFrontOnly(n) ==
    IF pending # <<>> /\ TooOld(pending[1]) THEN n = 1 ELSE n = 0

(* next_step drops expired items from the front: exactly n of them here. *)
Expires(n) ==
    /\ \A k \in 1..n : TooOld(pending[k])
    /\ n < Len(pending) => ~TooOld(pending[n + 1])

Fresh(n) == SubSeq(pending, n + 1, Len(pending))

(* The stages once the n oldest items expired. *)
Expired(n) ==
    [j \in Jobs |-> IF \E k \in 1..n : pending[k] = j THEN "dropped" ELSE stage[j]]

TurnNewest(s, i) ==
    IF owner = NoToken THEN i = 1
    ELSE token[s[i]] = owner /\ \A k \in (i + 1)..Len(s) : token[s[k]] # owner

(* The item next_step removes from s: the owner's first, or the front one. *)
Turn(s, i) ==
    IF owner = NoToken THEN i = 1
    ELSE /\ token[s[i]] = owner
         /\ \A k \in 1..(i - 1) : token[s[k]] # owner

OwnerHasItem(s) == \E i \in 1..Len(s) : token[s[i]] = owner

(* Step::Run *)
Dispatch(n) ==
    \E i \in 1..Len(Fresh(n)) :
        /\ Turn(Fresh(n), i)
        /\ current' = Fresh(n)[i]
        /\ pending' = RemoveAt(Fresh(n), i)
        /\ stage' = [Expired(n) EXCEPT ![Fresh(n)[i]] = "running"]
        /\ deadline' = IF owner = NoToken THEN deadline ELSE Armed(owner, held)
        /\ worker' = "run"
        /\ UNCHANGED <<owner, held, nap>>

(* Step::Again: the idle owner is force-released. *)
ForceRelease(n) ==
    /\ Fresh(n) # <<>>
    /\ owner # NoToken /\ ~OwnerHasItem(Fresh(n))
    /\ deadline = 0
    /\ owner' = NoToken
    /\ deadline' = NoDeadline
    /\ pending' = Fresh(n)
    /\ stage' = Expired(n)
    /\ UNCHANGED <<held, worker, current, nap>>

(* Step::Wait: nothing to dispatch, bounded by the owner's deadline if any. *)
Rest(n) ==
    /\ \/ /\ Fresh(n) = <<>>
          /\ worker' = "wait" /\ UNCHANGED nap
       \/ /\ Fresh(n) # <<>>
          /\ owner # NoToken /\ ~OwnerHasItem(Fresh(n))
          /\ \/ deadline = NoDeadline /\ worker' = "wait" /\ UNCHANGED nap
             \/ deadline > 0 /\ worker' = "sleep" /\ nap' = deadline
    /\ pending' = Fresh(n)
    /\ stage' = Expired(n)
    /\ UNCHANGED <<owner, deadline, held, current>>

NextStep ==
    /\ worker = "next"
    /\ \/ stopped /\ worker' = "off" /\ UNCHANGED <<inner, current, nap, stage>>
       \/ /\ ~stopped
          /\ \E n \in 0..Len(pending) :
                Expires(n) /\ (Dispatch(n) \/ ForceRelease(n) \/ Rest(n))
          /\ UNCHANGED stopped
    /\ UNCHANGED <<notified, kind, token, age>>

(* notified().await returns and takes the stored permit. *)
Wake ==
    /\ worker \in {"wait", "sleep"}
    /\ notified
    /\ worker' = "next"
    /\ notified' = FALSE
    /\ nap' = 0
    /\ UNCHANGED <<inner, current, jobs>>

(* sleep(rem) elapsed first. *)
SleepOver ==
    /\ worker = "sleep"
    /\ nap = 0
    /\ worker' = "next"
    /\ UNCHANGED <<inner, notified, current, nap, jobs>>

(* The job's future returns; a permit job only once its caller let go. *)
JobReturns ==
    /\ worker = "run"
    /\ kind[current] # "permit"
    /\ stage' = [stage EXCEPT ![current] = "done"]
    /\ worker' = "rearm"
    /\ current' = NoJob
    /\ UNCHANGED <<inner, notified, nap, kind, token, age>>

Rearm ==
    /\ worker = "rearm"
    /\ deadline' = IF owner = NoToken THEN deadline ELSE Armed(owner, held)
    /\ worker' = "next"
    /\ UNCHANGED <<pending, owner, held, stopped, notified, current, nap, jobs>>

(* A tick of the clock. *)
Tick ==
    /\ pending # <<>> \/ deadline > 0 \/ nap > 0
    /\ age' = [j \in Jobs |-> IF stage[j] = "pending" /\ age[j] < ItemTimeout
                              THEN age[j] + 1 ELSE age[j]]
    /\ deadline' = IF deadline > 0 THEN deadline - 1 ELSE deadline
    /\ nap' = IF nap > 0 THEN nap - 1 ELSE nap
    /\ UNCHANGED <<pending, owner, held, stopped, notified, worker, current,
                   stage, kind, token>>

-----------------------------------------------------------------------------
Next ==
    \/ \E j \in Jobs, t \in Tokens \cup {NoToken} : Submit(j, t) \/ Gate(j, t)
    \/ \E j \in Jobs : Enqueue(j) \/ LetGo(j)
    \/ \E t \in Tokens : AcquireNow(t) \/ Hold(t) \/ Release(t)
    \/ Stop
    \/ NextStep \/ Wake \/ SleepOver \/ JobReturns \/ Rearm
    \/ Tick

Spec == Init /\ [][Next]_vars

(* The tokio runtime polls a worker that can go on and a caller between its   *)
(* two critical sections; a dispatched future finishes and a permit holder    *)
(* lets go, because every command runs under a budget (deadlines.rs); time    *)
(* passes.                                                                    *)
RuntimeFairness ==
    /\ WF_vars(NextStep \/ Wake \/ SleepOver \/ JobReturns \/ Rearm)
    /\ \A j \in Jobs : WF_vars(Enqueue(j))
    /\ \A j \in Jobs : WF_vars(stage[j] = "running" /\ LetGo(j))
    /\ WF_vars(Tick)

(* A lease that is not renewed ends at its TTL, through release. *)
LeaseFairness == \A t \in Tokens : WF_vars(held /\ Release(t))

FairSpec == Spec /\ RuntimeFairness /\ LeaseFairness

-----------------------------------------------------------------------------
(* Properties                                                                *)

(* The slot's three fields agree: an owner is bounded by its lease or by an      *)
(* idle deadline, never by both, so the reaper can never see a lease and no      *)
(* owner stays without a bound (arm_deadline, hold, release and the              *)
(* force-release in next_step keep it so).                                     *)
SlotAgrees ==
    /\ owner # NoToken <=> held \/ deadline # NoDeadline
    /\ ~(held /\ deadline # NoDeadline)

(* No wake-up is lost: a parked worker with no permit stored has nothing it    *)
(* could do.  Parked without a bound, the queue is empty or a lease keeps all   *)
(* that is in it waiting; asleep, it wakes exactly when the owner's deadline    *)
(* passes (the notify_one that follows each critical section).                 *)
ParkedForAReason ==
    ~notified =>
        /\ worker = "wait" => pending = <<>> \/ (held /\ ~OwnerHasItem(pending))
        /\ worker = "sleep" => /\ owner # NoToken /\ ~OwnerHasItem(pending)
                               /\ deadline = nap

(* A stopped queue keeps nothing: no receiver waits on a link that was retired, *)
(* whichever way stop() falls between the two halves of acquire().             *)
StopDropsAll == stopped => pending = <<>>

Starts(j) == stage[j] # "running" /\ stage'[j] = "running"

(* An item that waited past its timeout is never sent to the device: expiring   *)
(* only from the front is enough, because the queue is in order of age even     *)
(* when the owner's items are taken from its middle.                           *)
NeverStartsLate == [][\A j \in Jobs : Starts(j) => ~TooOld(j)]_vars

(* A lease ends only through its holder's release: no idle deadline, no         *)
(* exclusive_start of its own token and no other session takes the slot from it *)
(* (hold, acquire_now, arm_deadline).                                          *)
LeaseNeverReaped ==
    [][held /\ (owner' # owner \/ ~held') => \E t \in Tokens : Release(t)]_vars

(* Every item a caller waits for is dispatched or dropped in the end, whoever   *)
(* takes the slot meanwhile: no receiver hangs.                                *)
EveryItemResolved ==
    \A j \in Jobs : stage[j] = "pending" ~> stage[j] # "pending"

(* What callers see of the queue is a serial queue with an exclusive slot. *)
Serial == INSTANCE SerialQueue WITH
    queue <- [i \in 1..Len(pending) |->
                [job |-> pending[i], token |-> token[pending[i]]]],
    running <- current,
    leased <- held,
    closed <- stopped

ImplementsSerialQueue == Serial!Spec
=============================================================================
