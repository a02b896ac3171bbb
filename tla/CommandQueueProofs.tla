--------------------------- MODULE CommandQueueProofs ---------------------------
(* Theorems about CommandQueue, for every set of jobs and tokens and every   *)
(* pair of timeouts.                                                         *)
EXTENDS CommandQueue, SequenceTheorems, TLAPS

-----------------------------------------------------------------------------
(* Sequences                                                                 *)

(* Removing one element keeps the others in order. *)
LEMMA RemoveAtFacts ==
    ASSUME NEW S, NEW s \in Seq(S), NEW i \in 1..Len(s)
    PROVE  /\ RemoveAt(s, i) \in Seq(S)
           /\ Len(RemoveAt(s, i)) = Len(s) - 1
           /\ \A k \in 1..(Len(s) - 1) :
                RemoveAt(s, i)[k] = IF k < i THEN s[k] ELSE s[k + 1]
<1> DEFINE front == SubSeq(s, 1, i - 1)
           back  == SubSeq(s, i + 1, Len(s))
<1>1. Len(s) \in Nat /\ i \in Nat /\ i >= 1 /\ i <= Len(s)
  BY LenProperties
<1>2. /\ front \in Seq(S) /\ Len(front) = i - 1
      /\ \A k \in 1..(i - 1) : front[k] = s[k]
  <2>1. \A k \in 1..(i - 1) : s[k] \in S
    BY <1>1, ElementOfSeq
  <2>2. /\ front \in Seq(S)
        /\ Len(front) = IF 1 <= i - 1 THEN i - 1 - 1 + 1 ELSE 0
        /\ \A k \in 1..(i - 1 - 1 + 1) : front[k] = s[1 + k - 1]
    BY <1>1, <2>1, SubSeqProperties
  <2> QED BY <1>1, <2>2
<1>3. /\ back \in Seq(S) /\ Len(back) = Len(s) - i
      /\ \A k \in 1..(Len(s) - i) : back[k] = s[i + k]
  <2>1. \A k \in (i + 1)..Len(s) : s[k] \in S
    BY <1>1, ElementOfSeq
  <2>2. /\ back \in Seq(S)
        /\ Len(back) = IF i + 1 <= Len(s) THEN Len(s) - (i + 1) + 1 ELSE 0
        /\ \A k \in 1..(Len(s) - (i + 1) + 1) : back[k] = s[i + 1 + k - 1]
    BY <1>1, <2>1, SubSeqProperties
  <2> QED BY <1>1, <2>2
<1>4. RemoveAt(s, i) = front \o back
  BY DEF RemoveAt
<1>5. /\ front \o back \in Seq(S)
      /\ Len(front \o back) = Len(front) + Len(back)
      /\ \A k \in 1..(Len(front) + Len(back)) :
            (front \o back)[k] = IF k <= Len(front) THEN front[k] ELSE back[k - Len(front)]
  BY <1>2, <1>3, ConcatProperties
<1> HIDE DEF front, back
<1>6. \A k \in 1..(Len(s) - 1) :
        (front \o back)[k] = IF k < i THEN s[k] ELSE s[k + 1]
  BY <1>1, <1>2, <1>3, <1>5
<1> QED BY <1>1, <1>2, <1>3, <1>4, <1>5, <1>6

(* What is left of the queue once its n oldest items expired. *)
LEMMA FreshFacts ==
    ASSUME TypeOK, NEW n \in 0..Len(pending)
    PROVE  /\ Fresh(n) \in Seq(Jobs)
           /\ Len(Fresh(n)) = Len(pending) - n
           /\ \A i \in 1..(Len(pending) - n) : Fresh(n)[i] = pending[n + i]
<1>1. pending \in Seq(Jobs) /\ Len(pending) \in Nat
  BY LenProperties DEF TypeOK
<1>2. \A k \in (n + 1)..Len(pending) : pending[k] \in Jobs
  BY <1>1, ElementOfSeq
<1>3. /\ Fresh(n) \in Seq(Jobs)
      /\ Len(Fresh(n)) = IF n + 1 <= Len(pending) THEN Len(pending) - (n + 1) + 1 ELSE 0
      /\ \A i \in 1..(Len(pending) - (n + 1) + 1) : Fresh(n)[i] = pending[n + 1 + i - 1]
  BY <1>1, <1>2, SubSeqProperties DEF Fresh
<1> QED BY <1>1, <1>3

-----------------------------------------------------------------------------
(* Type correctness                                                          *)

LEMMA TypeStep == TypeOK /\ [Next]_vars => TypeOK'
<1> SUFFICES ASSUME TypeOK, [Next]_vars PROVE TypeOK'
  OBVIOUS
<1> USE QueueAssumption
<1>a. /\ NoDeadline = -1 /\ ExclusiveTimeout \in Nat /\ ItemTimeout \in Nat
      /\ ExclusiveTimeout > 0 /\ ItemTimeout > 0
  BY DEF NoDeadline
<1>b. \A o, h : Armed(o, h) \in {NoDeadline} \cup 0..ExclusiveTimeout
  BY <1>a DEF Armed
<1>1. ASSUME NEW j \in Jobs, NEW t \in Tokens \cup {NoToken}, Submit(j, t)
      PROVE  TypeOK'
  <2>1. pending' \in Seq(Jobs)
    <3>1. pending' = pending \/ pending' = Append(pending, j)
      BY <1>1 DEF Submit
    <3>2. pending \in Seq(Jobs) /\ j \in Jobs
      BY DEF TypeOK
    <3>3. Append(pending, j) \in Seq(Jobs)
      BY <3>2, AppendProperties
    <3> QED BY <3>1, <3>2, <3>3
  <2>2. stage' \in [Jobs -> Stages] /\ token' \in [Jobs -> Tokens \cup {NoToken}]
    BY <1>1 DEF TypeOK, Submit, Stages
  <2> QED BY <1>1, <2>1, <2>2 DEF TypeOK, Submit, task
<1>2. ASSUME NEW j \in Jobs, NEW t \in Tokens \cup {NoToken}, Gate(j, t)
      PROVE  TypeOK'
  BY <1>2 DEF TypeOK, Gate, task, inner, Stages, Kinds
<1>3. ASSUME NEW j \in Jobs, Enqueue(j)
      PROVE  TypeOK'
  <2>1. pending' \in Seq(Jobs)
    <3>1. pending' = pending \/ pending' = Append(pending, j)
      BY <1>3 DEF Enqueue
    <3>2. pending \in Seq(Jobs) /\ j \in Jobs
      BY DEF TypeOK
    <3>3. Append(pending, j) \in Seq(Jobs)
      BY <3>2, AppendProperties
    <3> QED BY <3>1, <3>2, <3>3
  <2>2. stage' \in [Jobs -> Stages] /\ notified' \in BOOLEAN
    BY <1>3 DEF TypeOK, Enqueue, Stages
  <2> QED BY <1>3, <2>1, <2>2 DEF TypeOK, Enqueue, task
<1>4. ASSUME NEW j \in Jobs, LetGo(j)
      PROVE  TypeOK'
  BY <1>4 DEF TypeOK, LetGo, task, inner, Kinds
<1>5. ASSUME NEW t \in Tokens, AcquireNow(t) \/ Hold(t) \/ Release(t)
      PROVE  TypeOK'
  <2>1. deadline' \in {NoDeadline} \cup 0..ExclusiveTimeout
    BY <1>5, <1>b DEF AcquireNow, Hold, Release
  <2>2. /\ owner' \in Tokens \cup {NoToken} /\ held' \in BOOLEAN
        /\ notified' \in BOOLEAN
    BY <1>5 DEF TypeOK, AcquireNow, Hold, Release
  <2>3. UNCHANGED <<pending, stopped, task, jobs>>
    BY <1>5 DEF AcquireNow, Hold, Release
  <2> QED BY <2>1, <2>2, <2>3 DEF TypeOK, task, jobs
<1>6. ASSUME Stop
      PROVE  TypeOK'
  BY <1>6, EmptySeq DEF TypeOK, Stop, task, Stages
<1>7. ASSUME NextStep
      PROVE  TypeOK'
  <2>1. CASE stopped
    BY <1>7, <2>1 DEF TypeOK, NextStep, inner
  <2>2. CASE ~stopped
    <3>1. PICK n \in 0..Len(pending) :
             Expires(n) /\ (Dispatch(n) \/ ForceRelease(n) \/ Rest(n))
      BY <1>7, <2>2 DEF NextStep
    <3>2. /\ Expired(n) \in [Jobs -> Stages]
          /\ UNCHANGED <<notified, kind, token, age, stopped>>
      BY <1>7, <2>2 DEF NextStep, Expired, TypeOK, Stages
    <3>3. CASE Dispatch(n)
      <4>1. PICK i \in 1..Len(Fresh(n)) :
              /\ current' = Fresh(n)[i]
              /\ pending' = RemoveAt(Fresh(n), i)
              /\ stage' = [Expired(n) EXCEPT ![Fresh(n)[i]] = "running"]
              /\ deadline' = IF owner = NoToken THEN deadline ELSE Armed(owner, held)
              /\ worker' = "run"
              /\ UNCHANGED <<owner, held, nap>>
        BY <3>3 DEF Dispatch
      <4>2. Fresh(n)[i] \in Jobs /\ pending' \in Seq(Jobs)
        BY <4>1, FreshFacts, RemoveAtFacts, ElementOfSeq
      <4> QED BY <4>1, <4>2, <3>2, <1>b DEF TypeOK, Stages
    <3>4. CASE ForceRelease(n)
      BY <3>4, <3>2, FreshFacts DEF TypeOK, ForceRelease
    <3>5. CASE Rest(n)
      <4>1. /\ pending' \in Seq(Jobs)
            /\ worker' \in {"next", "wait", "sleep", "run", "rearm", "off"}
        BY <3>5, FreshFacts DEF Rest
      <4>2. nap' \in 0..ExclusiveTimeout
        BY <3>5, <1>a DEF TypeOK, Rest
      <4>3. UNCHANGED <<owner, deadline, held, current>> /\ stage' = Expired(n)
        BY <3>5 DEF Rest
      <4> QED BY <4>1, <4>2, <4>3, <3>2 DEF TypeOK
    <3> QED BY <3>1, <3>3, <3>4, <3>5
  <2> QED BY <2>1, <2>2
<1>8. ASSUME Wake \/ SleepOver \/ JobReturns \/ Rearm
      PROVE  TypeOK'
  <2>1. CASE Wake \/ SleepOver
    <3>1. /\ worker' = "next" /\ nap' \in {nap, 0} /\ notified' \in {notified, FALSE}
          /\ UNCHANGED <<inner, current, jobs>>
      BY <2>1 DEF Wake, SleepOver
    <3>2. nap' \in 0..ExclusiveTimeout
      BY <3>1, <1>a DEF TypeOK
    <3>3. notified' \in BOOLEAN
      BY <3>1, Zenon DEF TypeOK
    <3> QED BY <3>1, <3>2, <3>3 DEF TypeOK, inner, jobs
  <2>2. CASE JobReturns
    BY <2>2 DEF TypeOK, JobReturns, inner, Stages
  <2>3. CASE Rearm
    <3>1. deadline' \in {NoDeadline} \cup 0..ExclusiveTimeout
      BY <2>3, <1>b DEF Rearm, TypeOK
    <3> QED BY <2>3, <3>1 DEF TypeOK, Rearm, jobs
  <2> QED BY <1>8, <2>1, <2>2, <2>3
<1>9. ASSUME Tick
      PROVE  TypeOK'
  BY <1>9, <1>a DEF TypeOK, Tick
<1>10. ASSUME UNCHANGED vars
       PROVE  TypeOK'
  BY <1>10 DEF TypeOK, vars, inner, task, jobs
<1> QED
  BY <1>1, <1>2, <1>3, <1>4, <1>5, <1>6, <1>7, <1>8, <1>9, <1>10 DEF Next

LEMMA TypeInit == ASSUME Init PROVE TypeOK
<1>1. pending \in Seq(Jobs)
  BY EmptySeq DEF Init
<1>2. /\ owner \in Tokens \cup {NoToken}
      /\ held \in BOOLEAN /\ stopped \in BOOLEAN /\ notified \in BOOLEAN
      /\ worker \in {"next", "wait", "sleep", "run", "rearm", "off"}
      /\ current \in Jobs \cup {NoJob}
  BY DEF Init
<1>3. deadline \in {NoDeadline} \cup 0..ExclusiveTimeout /\ nap \in 0..ExclusiveTimeout
  BY QueueAssumption DEF Init
<1>4. /\ stage \in [Jobs -> Stages] /\ kind \in [Jobs -> Kinds]
      /\ token \in [Jobs -> Tokens \cup {NoToken}]
      /\ age \in [Jobs -> 0..ItemTimeout]
  BY QueueAssumption DEF Init, Stages, Kinds
<1> QED BY <1>1, <1>2, <1>3, <1>4 DEF TypeOK

(* Every variable keeps its type (the fields of Inner, the worker, the jobs). *)
THEOREM TypeCorrect == Spec => []TypeOK
BY TypeInit, TypeStep, PTL DEF Spec

-----------------------------------------------------------------------------
(* The inductive invariant                                                   *)

(* The queue holds each pending job once, in order of age. *)
InOrder ==
    /\ \A i, k \in 1..Len(pending) :
          i < k => pending[i] # pending[k] /\ age[pending[i]] >= age[pending[k]]
    /\ \A i \in 1..Len(pending) : stage[pending[i]] = "pending"
    /\ \A j \in Jobs : stage[j] \in {"new", "gated"} => age[j] = 0

(* The worker runs a job exactly while it waits for the job's future. *)
WorkerRuns ==
    IF worker = "run" THEN current \in Jobs /\ stage[current] = "running"
    ELSE current = NoJob

QueueInv == TypeOK /\ InOrder /\ WorkerRuns /\ SlotAgrees /\ ParkedForAReason /\ StopDropsAll

(* A job that is not pending is nowhere in the queue. *)
LEMMA NotQueued ==
    ASSUME InOrder, NEW j, stage[j] # "pending", NEW i \in 1..Len(pending)
    PROVE  pending[i] # j
BY DEF InOrder

(* A step that leaves a suffix of the queue, perhaps without one item, and     *)
(* touches no age and no stage of what it leaves, keeps the order.            *)
LEMMA OrderStep == TypeOK /\ InOrder /\ WorkerRuns /\ [Next]_vars => InOrder'
<1> SUFFICES ASSUME TypeOK, InOrder, WorkerRuns, [Next]_vars PROVE InOrder'
  OBVIOUS
<1> USE QueueAssumption
<1>a. pending \in Seq(Jobs) /\ Len(pending) \in Nat
  BY LenProperties DEF TypeOK
<1>b. \A i \in 1..Len(pending) : pending[i] \in Jobs
  BY <1>a, ElementOfSeq
<1>c. stage \in [Jobs -> Stages] /\ age \in [Jobs -> 0..ItemTimeout] /\ ItemTimeout \in Nat
  BY DEF TypeOK
<1>append. ASSUME NEW j \in Jobs, stage[j] \in {"new", "gated"},
                  pending' = Append(pending, j),
                  stage' = [stage EXCEPT ![j] = "pending"], age' = age
           PROVE  InOrder'
  <2>1. /\ Len(pending') = Len(pending) + 1
        /\ pending'[Len(pending) + 1] = j
        /\ \A i \in 1..Len(pending) : pending'[i] = pending[i]
    BY <1>append, <1>a, AppendProperties
  <2>2. \A i \in 1..Len(pending) : pending[i] # j
    BY <1>append, NotQueued
  <2>3. age[j] = 0 /\ \A i \in 1..Len(pending) : age[pending[i]] >= 0
    BY <1>append, <1>b, <1>c DEF InOrder
  <2>4. ASSUME NEW i \in 1..Len(pending'), NEW k \in 1..Len(pending'), i < k
        PROVE  pending'[i] # pending'[k] /\ age'[pending'[i]] >= age'[pending'[k]]
    BY <1>append, <1>a, <2>1, <2>2, <2>3, <2>4 DEF InOrder
  <2>5. \A i \in 1..Len(pending') : stage'[pending'[i]] = "pending"
    BY <1>append, <1>a, <1>b, <1>c, <2>1, <2>2 DEF InOrder
  <2>6. \A i \in Jobs : stage'[i] \in {"new", "gated"} => age'[i] = 0
    BY <1>append, <1>c DEF InOrder
  <2> QED BY <2>4, <2>5, <2>6 DEF InOrder
<1>same. ASSUME UNCHANGED <<pending, age>>,
                \A i \in Jobs : stage[i] = "pending" => stage'[i] = "pending",
                \A i \in Jobs : stage'[i] \in {"new", "gated"} => stage[i] \in {"new", "gated"}
         PROVE  InOrder'
  BY <1>same, <1>b DEF InOrder
<1>1. ASSUME NEW j \in Jobs, NEW t \in Tokens \cup {NoToken}, Submit(j, t)
      PROVE  InOrder'
  <2>1. CASE stopped
    BY <1>1, <2>1, <1>c, <1>same DEF Submit
  <2>2. CASE ~stopped
    BY <1>1, <2>2, <1>append DEF Submit
  <2> QED BY <2>1, <2>2
<1>2. ASSUME NEW j \in Jobs, NEW t \in Tokens \cup {NoToken}, Gate(j, t)
      PROVE  InOrder'
  BY <1>2, <1>c, <1>same DEF Gate, inner
<1>3. ASSUME NEW j \in Jobs, Enqueue(j)
      PROVE  InOrder'
  <2>1. CASE stopped
    BY <1>3, <2>1, <1>c, <1>same DEF Enqueue
  <2>2. CASE ~stopped
    BY <1>3, <2>2, <1>append DEF Enqueue
  <2> QED BY <2>1, <2>2
<1>4. ASSUME \/ \E j \in Jobs : LetGo(j)
             \/ \E t \in Tokens : AcquireNow(t) \/ Hold(t) \/ Release(t)
             \/ Wake \/ SleepOver \/ Rearm
             \/ UNCHANGED vars
      PROVE  InOrder'
  BY <1>4, <1>same
  DEF LetGo, AcquireNow, Hold, Release, Wake, SleepOver, Rearm, vars, inner, jobs
<1>5. ASSUME Stop
      PROVE  InOrder'
  <2>1. Len(pending') = 0
    BY <1>5 DEF Stop
  <2> QED BY <1>5, <2>1, <1>c DEF Stop, InOrder
<1>6. ASSUME NextStep
      PROVE  InOrder'
  <2>1. CASE stopped
    BY <1>6, <2>1, <1>same DEF NextStep, inner
  <2>2. CASE ~stopped
    <3>1. PICK n \in 0..Len(pending) :
             Expires(n) /\ (Dispatch(n) \/ ForceRelease(n) \/ Rest(n))
      BY <1>6, <2>2 DEF NextStep
    <3>2. age' = age
      BY <1>6 DEF NextStep
    <3>3. \A j \in Jobs : /\ Expired(n)[j] \in {stage[j], "dropped"}
                          /\ (\A k \in 1..n : pending[k] # j) => Expired(n)[j] = stage[j]
      BY DEF Expired
    <3>4. /\ Fresh(n) \in Seq(Jobs) /\ Len(Fresh(n)) = Len(pending) - n
          /\ \A i \in 1..(Len(pending) - n) : Fresh(n)[i] = pending[n + i]
      BY FreshFacts
    <3>5. \A i \in 1..(Len(pending) - n) : Expired(n)[pending[n + i]] = "pending"
      BY <3>3, <1>a, <1>b DEF InOrder
    <3>6. ASSUME pending' = Fresh(n), stage' = Expired(n)
          PROVE  InOrder'
      <4>1. ASSUME NEW i \in 1..Len(pending'), NEW k \in 1..Len(pending'), i < k
            PROVE  pending'[i] # pending'[k] /\ age'[pending'[i]] >= age'[pending'[k]]
        <5>1. /\ n + i \in 1..Len(pending) /\ n + k \in 1..Len(pending) /\ n + i < n + k
              /\ pending'[i] = pending[n + i] /\ pending'[k] = pending[n + k]
          BY <3>4, <3>6, <4>1, <1>a
        <5> QED BY <5>1, <3>2 DEF InOrder
      <4>2. \A i \in 1..Len(pending') : stage'[pending'[i]] = "pending"
        BY <3>4, <3>5, <3>6, <1>a
      <4>3. \A j \in Jobs : stage'[j] \in {"new", "gated"} => age'[j] = 0
        BY <3>2, <3>3, <3>6 DEF InOrder
      <4> QED BY <4>1, <4>2, <4>3 DEF InOrder
    <3>7. CASE Dispatch(n)
      <4>1. PICK i \in 1..Len(Fresh(n)) :
              /\ pending' = RemoveAt(Fresh(n), i)
              /\ stage' = [Expired(n) EXCEPT ![Fresh(n)[i]] = "running"]
        BY <3>7 DEF Dispatch
      <4>2. /\ Len(pending') = Len(Fresh(n)) - 1
            /\ \A k \in 1..(Len(Fresh(n)) - 1) :
                 pending'[k] = IF k < i THEN Fresh(n)[k] ELSE Fresh(n)[k + 1]
        BY <4>1, <3>4, RemoveAtFacts
      <4> DEFINE at(k) == IF k < i THEN n + k ELSE n + k + 1
      <4>3. \A k \in 1..Len(pending') :
               at(k) \in 1..Len(pending) /\ at(k) > n /\ at(k) # n + i /\ pending'[k] = pending[at(k)]
        <5> TAKE k \in 1..Len(pending')
        <5>1. k \in 1..(Len(pending) - n - 1) /\ i \in 1..(Len(pending) - n)
          BY <4>2, <3>4, <1>a
        <5>2. CASE k < i
          BY <5>1, <5>2, <4>2, <3>4, <1>a
        <5>3. CASE ~(k < i)
          <6>1. k + 1 \in 1..(Len(pending) - n) /\ n + (k + 1) = n + k + 1
            BY <5>1, <1>a
          <6> QED BY <5>1, <5>3, <6>1, <4>2, <3>4, <1>a
        <5> QED BY <5>2, <5>3
      <4>4. \A k, m \in 1..Len(pending') : k < m => at(k) < at(m)
        BY <4>2, <3>4, <1>a
      <4>5. Fresh(n)[i] = pending[n + i] /\ n + i \in 1..Len(pending)
        BY <3>4, <1>a
      <4> HIDE DEF at
      <4>6. \A k, m \in 1..Len(pending') :
               k < m => pending'[k] # pending'[m] /\ age'[pending'[k]] >= age'[pending'[m]]
        BY <4>3, <4>4, <3>2 DEF InOrder
      <4>7. \A k \in 1..Len(pending') :
               /\ pending'[k] # Fresh(n)[i] /\ pending'[k] \in Jobs
               /\ Expired(n)[pending'[k]] = "pending"
        <5> TAKE k \in 1..Len(pending')
        <5>1. at(k) < n + i \/ n + i < at(k)
          BY <4>3, <4>5, <1>a
        <5>2. pending[at(k)] # pending[n + i]
          BY <5>1, <4>3, <4>5 DEF InOrder
        <5>3. at(k) - n \in 1..(Len(pending) - n) /\ n + (at(k) - n) = at(k)
          BY <4>3, <1>a
        <5> QED BY <5>2, <5>3, <4>3, <4>5, <3>5, <1>b
      <4>8. \A k \in 1..Len(pending') : stage'[pending'[k]] = "pending"
        BY <4>1, <4>7 DEF Expired
      <4>9. \A j \in Jobs : stage'[j] \in {"new", "gated"} => age'[j] = 0
        BY <4>1, <3>2, <3>3 DEF InOrder, Expired
      <4> QED BY <4>6, <4>8, <4>9 DEF InOrder
    <3> QED BY <3>1, <3>6, <3>7 DEF ForceRelease, Rest
  <2> QED BY <2>1, <2>2
<1>7. ASSUME JobReturns
      PROVE  InOrder'
  BY <1>7, <1>c, <1>same DEF JobReturns, WorkerRuns, inner
<1>8. ASSUME Tick
      PROVE  InOrder'
  BY <1>8, <1>a, <1>b, <1>c DEF Tick, InOrder
<1> QED
  BY <1>1, <1>2, <1>3, <1>4, <1>5, <1>6, <1>7, <1>8 DEF Next

(* The worker and the job it runs stay together. *)
LEMMA WorkerStep == TypeOK /\ WorkerRuns /\ [Next]_vars => WorkerRuns'
<1> SUFFICES ASSUME TypeOK, WorkerRuns, [Next]_vars PROVE WorkerRuns'
  OBVIOUS
<1>a. stage \in [Jobs -> Stages]
  BY DEF TypeOK
<1>1. ASSUME \/ \E j \in Jobs, t \in Tokens \cup {NoToken} : Submit(j, t) \/ Gate(j, t)
             \/ \E j \in Jobs : Enqueue(j) \/ LetGo(j)
             \/ \E t \in Tokens : AcquireNow(t) \/ Hold(t) \/ Release(t)
             \/ Stop \/ Tick \/ UNCHANGED vars
      PROVE  WorkerRuns'
  <2>1. worker' = worker /\ current' = current
    BY <1>1 DEF Submit, Gate, Enqueue, LetGo, AcquireNow, Hold, Release, Stop, Tick,
                vars, task
  <2>2. \A j \in Jobs : stage[j] = "running" => stage'[j] = "running"
    BY <1>1, <1>a DEF Submit, Gate, Enqueue, LetGo, AcquireNow, Hold, Release, Stop, Tick,
                      vars, jobs
  <2> QED BY <2>1, <2>2 DEF WorkerRuns
<1>2. ASSUME NextStep
      PROVE  WorkerRuns'
  <2>1. CASE stopped
    BY <1>2, <2>1 DEF NextStep, WorkerRuns
  <2>2. CASE ~stopped
    <3>1. PICK n \in 0..Len(pending) : Dispatch(n) \/ ForceRelease(n) \/ Rest(n)
      BY <1>2, <2>2 DEF NextStep
    <3>2. CASE Dispatch(n)
      <4>1. PICK i \in 1..Len(Fresh(n)) :
              /\ current' = Fresh(n)[i]
              /\ stage' = [Expired(n) EXCEPT ![Fresh(n)[i]] = "running"]
              /\ worker' = "run"
        BY <3>2 DEF Dispatch
      <4>2. Fresh(n)[i] \in Jobs
        BY FreshFacts, ElementOfSeq
      <4> QED BY <4>1, <4>2 DEF WorkerRuns, Expired
    <3> QED BY <1>2, <3>1, <3>2 DEF NextStep, ForceRelease, Rest, WorkerRuns
  <2> QED BY <2>1, <2>2
<1>3. ASSUME Wake \/ SleepOver \/ JobReturns \/ Rearm
      PROVE  WorkerRuns'
  BY <1>3 DEF Wake, SleepOver, JobReturns, Rearm, WorkerRuns
<1> QED BY <1>1, <1>2, <1>3 DEF Next

(* An owner stays bounded by exactly one of a lease and an idle deadline. *)
LEMMA SlotStep == TypeOK /\ SlotAgrees /\ [Next]_vars => SlotAgrees'
<1> SUFFICES ASSUME TypeOK, SlotAgrees, [Next]_vars PROVE SlotAgrees'
  OBVIOUS
<1> USE QueueAssumption
<1>a. ExclusiveTimeout # NoDeadline
  BY DEF NoDeadline
<1>b. ASSUME UNCHANGED <<owner, held, deadline>>
      PROVE  SlotAgrees'
  BY <1>b DEF SlotAgrees
<1>c. ASSUME UNCHANGED <<owner, held>>,
             deadline' = IF owner = NoToken THEN deadline ELSE Armed(owner, held)
      PROVE  SlotAgrees'
  BY <1>a, <1>c DEF SlotAgrees, Armed
<1>1. ASSUME \/ \E j \in Jobs, t \in Tokens \cup {NoToken} : Submit(j, t) \/ Gate(j, t)
             \/ \E j \in Jobs : Enqueue(j) \/ LetGo(j)
             \/ Stop \/ Wake \/ SleepOver \/ JobReturns \/ UNCHANGED vars
      PROVE  SlotAgrees'
  BY <1>1, <1>b DEF Submit, Gate, Enqueue, LetGo, Stop, Wake, SleepOver, JobReturns,
                    vars, inner
<1>2. ASSUME NEW t \in Tokens, AcquireNow(t)
      PROVE  SlotAgrees'
  BY <1>2, <1>a DEF AcquireNow, SlotAgrees, Armed
<1>3. ASSUME NEW t \in Tokens, Hold(t) \/ Release(t)
      PROVE  SlotAgrees'
  BY <1>3 DEF Hold, Release, SlotAgrees
<1>4. ASSUME NextStep
      PROVE  SlotAgrees'
  <2>1. CASE stopped
    BY <1>4, <2>1, <1>b DEF NextStep, inner
  <2>2. CASE ~stopped
    <3>1. PICK n \in 0..Len(pending) : Dispatch(n) \/ ForceRelease(n) \/ Rest(n)
      BY <1>4, <2>2 DEF NextStep
    <3>2. CASE Dispatch(n)
      BY <3>2, <1>c DEF Dispatch
    <3>3. CASE ForceRelease(n)
      BY <3>3 DEF ForceRelease, SlotAgrees, NoDeadline
    <3>4. CASE Rest(n)
      BY <3>4, <1>b DEF Rest
    <3> QED BY <3>1, <3>2, <3>3, <3>4
  <2> QED BY <2>1, <2>2
<1>5. ASSUME Rearm
      PROVE  SlotAgrees'
  BY <1>5, <1>c DEF Rearm
<1>6. ASSUME Tick
      PROVE  SlotAgrees'
  <2>1. (deadline = NoDeadline) <=> (deadline' = NoDeadline)
    BY <1>6 DEF Tick, TypeOK, NoDeadline
  <2> QED BY <1>6, <2>1 DEF Tick, SlotAgrees
<1> QED BY <1>1, <1>2, <1>3, <1>4, <1>5, <1>6 DEF Next

(* A stopped queue stays empty. *)
LEMMA StopStep == TypeOK /\ StopDropsAll /\ [Next]_vars => StopDropsAll'
<1> SUFFICES ASSUME TypeOK, StopDropsAll, [Next]_vars PROVE StopDropsAll'
  OBVIOUS
<1>1. ASSUME Stop
      PROVE  StopDropsAll'
  BY <1>1 DEF Stop, StopDropsAll
<1>2. ASSUME stopped' = stopped, stopped => pending' = pending
      PROVE  StopDropsAll'
  BY <1>2 DEF StopDropsAll
<1>3. ASSUME NextStep
      PROVE  StopDropsAll'
  <2>1. stopped' = stopped /\ (stopped => pending' = pending)
    BY <1>3 DEF NextStep, inner
  <2> QED BY <2>1, <1>2
<1> QED
  BY <1>1, <1>2, <1>3
  DEF Next, Submit, Gate, Enqueue, LetGo, AcquireNow, Hold, Release, Wake, SleepOver,
      JobReturns, Rearm, Tick, vars, inner

(* Whatever could give a parked worker work to do stores a wake-up. *)
LEMMA ParkedStep ==
    TypeOK /\ InOrder /\ SlotAgrees /\ ParkedForAReason /\ [Next]_vars => ParkedForAReason'
<1> SUFFICES ASSUME TypeOK, InOrder, SlotAgrees, ParkedForAReason, [Next]_vars
             PROVE  ParkedForAReason'
  OBVIOUS
<1>a. ASSUME notified' = TRUE
      PROVE  ParkedForAReason'
  BY <1>a DEF ParkedForAReason
<1>b. ASSUME worker' \notin {"wait", "sleep"}
      PROVE  ParkedForAReason'
  BY <1>b DEF ParkedForAReason
<1>c. ASSUME UNCHANGED <<pending, owner, held, deadline, notified, worker, nap>>,
             \A i \in 1..Len(pending) : token'[pending[i]] = token[pending[i]]
      PROVE  ParkedForAReason'
  BY <1>c DEF ParkedForAReason, OwnerHasItem
<1>1. ASSUME \/ \E j \in Jobs, t \in Tokens \cup {NoToken} : Submit(j, t)
             \/ \E t \in Tokens : AcquireNow(t) \/ Hold(t) \/ Release(t)
             \/ Stop
      PROVE  ParkedForAReason'
  BY <1>1, <1>a DEF Submit, AcquireNow, Hold, Release, Stop
<1>2. ASSUME NEW j \in Jobs, NEW t \in Tokens \cup {NoToken}, Gate(j, t)
      PROVE  ParkedForAReason'
  <2>1. \A i \in 1..Len(pending) : pending[i] # j
    BY <1>2, NotQueued DEF Gate
  <2>2. \A i \in 1..Len(pending) : token'[pending[i]] = token[pending[i]]
    BY <1>2, <2>1, ElementOfSeq DEF Gate, TypeOK
  <2> QED BY <1>2, <2>2, <1>c DEF Gate, inner, task
<1>3. ASSUME NEW j \in Jobs, Enqueue(j)
      PROVE  ParkedForAReason'
  <2>1. CASE stopped
    BY <1>3, <2>1, <1>c DEF Enqueue, task
  <2>2. CASE ~stopped
    BY <1>3, <2>2, <1>a DEF Enqueue
  <2> QED BY <2>1, <2>2
<1>4. ASSUME \/ \E j \in Jobs : LetGo(j)
             \/ UNCHANGED vars
      PROVE  ParkedForAReason'
  BY <1>4, <1>c DEF LetGo, vars, inner, task, jobs
<1>5. ASSUME Wake \/ SleepOver \/ JobReturns \/ Rearm
      PROVE  ParkedForAReason'
  BY <1>5, <1>b DEF Wake, SleepOver, JobReturns, Rearm
<1>6. ASSUME NextStep
      PROVE  ParkedForAReason'
  <2>1. CASE stopped
    BY <1>6, <2>1, <1>b DEF NextStep
  <2>2. CASE ~stopped
    <3>1. PICK n \in 0..Len(pending) : Dispatch(n) \/ ForceRelease(n) \/ Rest(n)
      BY <1>6, <2>2 DEF NextStep
    <3>2. CASE Dispatch(n)
      BY <3>2, <1>b DEF Dispatch
    <3>3. CASE ForceRelease(n)
      BY <1>6, <3>3, <1>b DEF ForceRelease, NextStep
    <3>4. CASE Rest(n)
      <4>1. /\ UNCHANGED <<owner, deadline, held, token>> /\ pending' = Fresh(n)
        BY <1>6, <3>4 DEF Rest, NextStep
      <4>2. OwnerHasItem(Fresh(n)) <=> OwnerHasItem(pending)'
        BY <4>1 DEF OwnerHasItem
      <4>3. CASE Fresh(n) = <<>>
        BY <3>4, <4>1, <4>3 DEF Rest, ParkedForAReason
      <4>4. CASE Fresh(n) # <<>>
        BY <3>4, <4>1, <4>2, <4>4 DEF Rest, ParkedForAReason, SlotAgrees
      <4> QED BY <4>3, <4>4
    <3> QED BY <3>1, <3>2, <3>3, <3>4
  <2> QED BY <2>1, <2>2
<1>7. ASSUME Tick
      PROVE  ParkedForAReason'
  <2>1. UNCHANGED <<pending, owner, held, notified, worker, token>>
    BY <1>7 DEF Tick
  <2>2. deadline = nap => deadline' = nap'
    BY <1>7 DEF Tick
  <2> QED BY <2>1, <2>2 DEF ParkedForAReason, OwnerHasItem
<1> QED BY <1>1, <1>2, <1>3, <1>4, <1>5, <1>6, <1>7 DEF Next

LEMMA QueueInvariant == Spec => []QueueInv
<1>1. ASSUME Init PROVE QueueInv
  <2>1. InOrder
    BY <1>1, EmptySeq DEF Init, InOrder
  <2>2. WorkerRuns /\ SlotAgrees /\ ParkedForAReason /\ StopDropsAll
    BY <1>1 DEF Init, WorkerRuns, SlotAgrees, ParkedForAReason, StopDropsAll
  <2> QED BY <1>1, <2>1, <2>2, TypeInit DEF QueueInv
<1>2. QueueInv /\ [Next]_vars => QueueInv'
  BY TypeStep, OrderStep, WorkerStep, SlotStep, ParkedStep, StopStep DEF QueueInv
<1> QED BY <1>1, <1>2, PTL DEF Spec

-----------------------------------------------------------------------------
(* Safety                                                                    *)

(* An owner is bounded by its lease or by an idle deadline, never by both or    *)
(* by none (arm_deadline, hold, acquire_now, release and the force-release).   *)
THEOREM SlotCorrect == Spec => []SlotAgrees
BY QueueInvariant, PTL DEF QueueInv

(* No wake-up is lost between the callers' critical sections and the worker's   *)
(* parking (notify_one, notified().await and the sleep that races it).         *)
THEOREM NoLostWakeup == Spec => []ParkedForAReason
BY QueueInvariant, PTL DEF QueueInv

(* Nothing is left in a stopped queue, even by an acquire() that passed its     *)
(* gate before stop().                                                         *)
THEOREM StopCorrect == Spec => []StopDropsAll
BY QueueInvariant, PTL DEF QueueInv

(* Expiring from the front alone is enough: what next_step dispatches has not   *)
(* waited past its timeout, because the queue is in order of age.              *)
THEOREM StartsInTime == Spec => NeverStartsLate
<1>1. ASSUME QueueInv, [Next]_vars, NEW j \in Jobs, Starts(j)
      PROVE  ~TooOld(j)
  <2> USE <1>1
  <2>1. NextStep /\ ~stopped
    BY DEF Next, Starts, Submit, Gate, Enqueue, LetGo, AcquireNow, Hold, Release, Stop,
           NextStep, Wake, SleepOver, JobReturns, Rearm, Tick, vars, inner, jobs,
           QueueInv, TypeOK
  <2>2. PICK n \in 0..Len(pending) :
           Expires(n) /\ (Dispatch(n) \/ ForceRelease(n) \/ Rest(n))
    BY <2>1 DEF NextStep
  <2>3. \A k \in Jobs : Expired(n)[k] # "running" \/ stage[k] = "running"
    BY DEF Expired
  <2>4. Dispatch(n)
    BY <2>2, <2>3 DEF ForceRelease, Rest, Starts
  <2>5. PICK i \in 1..Len(Fresh(n)) :
           stage' = [Expired(n) EXCEPT ![Fresh(n)[i]] = "running"]
    BY <2>4 DEF Dispatch
  <2>6. j = Fresh(n)[i]
    BY <2>3, <2>5 DEF Starts, Expired
  <2>7. /\ Len(pending) \in Nat /\ pending \in Seq(Jobs)
        /\ i \in 1..(Len(pending) - n) /\ Fresh(n)[i] = pending[n + i]
    BY FreshFacts, LenProperties DEF QueueInv, TypeOK
  <2>8. /\ n + i \in 1..Len(pending) /\ n + 1 \in 1..Len(pending) /\ n < Len(pending)
        /\ i = 1 \/ n + 1 < n + i
    BY <2>7
  <2>9. /\ pending[n + 1] \in Jobs /\ pending[n + i] \in Jobs
        /\ age[pending[n + 1]] \in Nat /\ age[pending[n + i]] \in Nat
    <3>1. pending[n + 1] \in Jobs /\ pending[n + i] \in Jobs
      BY <2>7, <2>8, ElementOfSeq
    <3>2. age \in [Jobs -> 0..ItemTimeout] /\ ItemTimeout \in Nat
      BY QueueAssumption DEF QueueInv, TypeOK
    <3> QED BY <3>1, <3>2
  <2>10. age[pending[n + 1]] >= age[pending[n + i]]
    BY <2>8, <2>9 DEF QueueInv, InOrder
  <2>11. ~(age[pending[n + 1]] >= ItemTimeout)
    BY <2>2, <2>8 DEF Expires, TooOld
  <2>12. ItemTimeout \in Nat
    BY QueueAssumption
  <2> QED BY <2>6, <2>7, <2>9, <2>10, <2>11, <2>12 DEF TooOld
<1>2. QueueInv /\ [Next]_vars => [\A j \in Jobs : Starts(j) => ~TooOld(j)]_vars
  BY <1>1
<1> QED BY <1>2, QueueInvariant, PTL DEF Spec, NeverStartsLate

(* Only its holder's release ends a lease (hold, release). *)
THEOREM LeaseCorrect == Spec => LeaseNeverReaped
<1>1. ASSUME QueueInv, [Next]_vars, held, owner' # owner \/ ~held'
      PROVE  \E t \in Tokens : Release(t)
  <2> USE <1>1
  <2>1. /\ owner # NoToken /\ deadline = NoDeadline
    BY DEF QueueInv, SlotAgrees
  <2>2. ~(\E t \in Tokens : AcquireNow(t) \/ Hold(t))
    BY <2>1 DEF AcquireNow, Hold, Allowed
  <2>3. ~NextStep
    <3>1. ASSUME NEW n, ForceRelease(n) PROVE FALSE
      BY <2>1, <3>1 DEF ForceRelease, NoDeadline
    <3> QED BY <3>1 DEF NextStep, inner, Dispatch, Rest
  <2> QED
    BY <2>2, <2>3
    DEF Next, Submit, Gate, Enqueue, LetGo, Stop, Wake, SleepOver, JobReturns, Rearm,
        Tick, vars, inner
<1>2. QueueInv /\ [Next]_vars =>
        [held /\ (owner' # owner \/ ~held') => \E t \in Tokens : Release(t)]_vars
  BY <1>1
<1> QED BY <1>2, QueueInvariant, PTL DEF Spec, LeaseNeverReaped

-----------------------------------------------------------------------------
(* Refinement                                                                *)

(* A sequence of jobs as the abstract queue shows it. *)
Shown(s) == [i \in 1..Len(s) |-> [job |-> s[i], token |-> token[s[i]]]]

Entries == [job : Jobs, token : Tokens \cup {NoToken}]

LEMMA ShownFacts ==
    ASSUME TypeOK, NEW s \in Seq(Jobs)
    PROVE  /\ Shown(s) \in Seq(Entries)
           /\ Len(Shown(s)) = Len(s)
           /\ \A i \in 1..Len(s) : Shown(s)[i] = [job |-> s[i], token |-> token[s[i]]]
<1>1. Len(s) \in Nat /\ \A i \in 1..Len(s) : s[i] \in Jobs
  BY LenProperties, ElementOfSeq
<1>2. \A i \in 1..Len(s) : [job |-> s[i], token |-> token[s[i]]] \in Entries
  BY <1>1 DEF TypeOK, Entries
<1>3. Shown(s) \in [1..Len(s) -> Entries]
  BY <1>2 DEF Shown
<1>4. Shown(s) \in Seq(Entries)
  BY <1>1, <1>3, SeqDef
<1>5. DOMAIN Shown(s) = 1..Len(Shown(s)) /\ DOMAIN Shown(s) = 1..Len(s)
  BY <1>4, LenProperties DEF Shown
<1>6. Len(Shown(s)) = Len(s)
  BY <1>1, <1>4, <1>5, LenProperties
<1> QED BY <1>4, <1>6 DEF Shown

(* Giving up the n oldest items is the same on both sides. *)
LEMMA ShownWithout ==
    ASSUME TypeOK, NEW n \in 0..Len(pending)
    PROVE  Serial!Without(n) = Shown(Fresh(n))
<1> DEFINE q == Shown(pending)
<1>1. pending \in Seq(Jobs) /\ Len(pending) \in Nat
  BY LenProperties DEF TypeOK
<1>2. /\ q \in Seq(Entries) /\ Len(q) = Len(pending)
      /\ \A i \in 1..Len(pending) : q[i] = [job |-> pending[i], token |-> token[pending[i]]]
  BY <1>1, ShownFacts
<1>3. Serial!Without(n) = SubSeq(q, n + 1, Len(q))
  BY DEF Serial!Without, Shown
<1>4. /\ Shown(Fresh(n)) \in Seq(Entries) /\ Len(Shown(Fresh(n))) = Len(pending) - n
      /\ \A i \in 1..(Len(pending) - n) :
            Shown(Fresh(n))[i] = [job |-> pending[n + i], token |-> token[pending[n + i]]]
  <2>1. /\ Fresh(n) \in Seq(Jobs) /\ Len(Fresh(n)) = Len(pending) - n
        /\ \A i \in 1..(Len(pending) - n) : Fresh(n)[i] = pending[n + i]
    BY FreshFacts
  <2>2. /\ Shown(Fresh(n)) \in Seq(Entries) /\ Len(Shown(Fresh(n))) = Len(Fresh(n))
        /\ \A i \in 1..Len(Fresh(n)) :
              Shown(Fresh(n))[i] = [job |-> Fresh(n)[i], token |-> token[Fresh(n)[i]]]
    BY <2>1, ShownFacts
  <2> QED BY <2>1, <2>2
<1> HIDE DEF q
<1>5. \A i \in (n + 1)..Len(q) : q[i] \in Entries
  BY <1>1, <1>2, ElementOfSeq
<1>6. /\ SubSeq(q, n + 1, Len(q)) \in Seq(Entries)
      /\ Len(SubSeq(q, n + 1, Len(q))) = IF n + 1 <= Len(q) THEN Len(q) - (n + 1) + 1 ELSE 0
      /\ \A i \in 1..(Len(q) - (n + 1) + 1) : SubSeq(q, n + 1, Len(q))[i] = q[n + 1 + i - 1]
  BY <1>1, <1>2, <1>5, SubSeqProperties
<1>7. \A i \in 1..(Len(pending) - n) :
         SubSeq(q, n + 1, Len(q))[i] = Shown(Fresh(n))[i]
  <2> TAKE i \in 1..(Len(pending) - n)
  <2>1. i \in 1..(Len(q) - (n + 1) + 1) /\ n + 1 + i - 1 = n + i /\ n + i \in 1..Len(pending)
    BY <1>1, <1>2
  <2>2. SubSeq(q, n + 1, Len(q))[i] = q[n + i]
    BY <2>1, <1>6
  <2> QED BY <2>1, <2>2, <1>2, <1>4
<1>8. Len(SubSeq(q, n + 1, Len(q))) = Len(Shown(Fresh(n)))
  BY <1>1, <1>2, <1>4, <1>6
<1>9. SubSeq(q, n + 1, Len(q)) = Shown(Fresh(n))
  BY <1>1, <1>4, <1>6, <1>7, <1>8, <1>2, SeqEqual
<1> QED BY <1>3, <1>9

(* So is taking one item out. *)
LEMMA ShownRemoveAt ==
    ASSUME TypeOK, NEW s \in Seq(Jobs), NEW i \in 1..Len(s)
    PROVE  RemoveAt(Shown(s), i) = Shown(RemoveAt(s, i))
<1>1. /\ Len(s) \in Nat
      /\ Shown(s) \in Seq(Entries) /\ Len(Shown(s)) = Len(s)
      /\ \A k \in 1..Len(s) : Shown(s)[k] = [job |-> s[k], token |-> token[s[k]]]
  BY ShownFacts, LenProperties
<1>2. /\ RemoveAt(s, i) \in Seq(Jobs) /\ Len(RemoveAt(s, i)) = Len(s) - 1
      /\ \A k \in 1..(Len(s) - 1) : RemoveAt(s, i)[k] = IF k < i THEN s[k] ELSE s[k + 1]
  BY RemoveAtFacts
<1>3. /\ RemoveAt(Shown(s), i) \in Seq(Entries)
      /\ Len(RemoveAt(Shown(s), i)) = Len(s) - 1
      /\ \A k \in 1..(Len(s) - 1) :
            RemoveAt(Shown(s), i)[k] = IF k < i THEN Shown(s)[k] ELSE Shown(s)[k + 1]
  <2> DEFINE r == Shown(s)
  <2>1. r \in Seq(Entries) /\ Len(r) = Len(s) /\ i \in 1..Len(r)
    BY <1>1
  <2> HIDE DEF r
  <2>2. /\ RemoveAt(r, i) \in Seq(Entries)
        /\ Len(RemoveAt(r, i)) = Len(r) - 1
        /\ \A k \in 1..(Len(r) - 1) : RemoveAt(r, i)[k] = IF k < i THEN r[k] ELSE r[k + 1]
    BY <2>1, RemoveAtFacts
  <2> QED BY <2>1, <2>2 DEF r
<1>4. /\ Shown(RemoveAt(s, i)) \in Seq(Entries)
      /\ Len(Shown(RemoveAt(s, i))) = Len(s) - 1
      /\ \A k \in 1..(Len(s) - 1) : Shown(RemoveAt(s, i))[k] =
            [job |-> RemoveAt(s, i)[k], token |-> token[RemoveAt(s, i)[k]]]
  BY <1>2, ShownFacts
<1>5. \A k \in 1..(Len(s) - 1) : RemoveAt(Shown(s), i)[k] = Shown(RemoveAt(s, i))[k]
  <2> TAKE k \in 1..(Len(s) - 1)
  <2>1. k \in 1..Len(s) /\ k + 1 \in 1..Len(s)
    BY <1>1
  <2>2. CASE k < i
    BY <2>1, <2>2, <1>1, <1>2, <1>3, <1>4
  <2>3. CASE ~(k < i)
    BY <2>1, <2>3, <1>1, <1>2, <1>3, <1>4
  <2> QED BY <2>2, <2>3
<1> QED BY <1>3, <1>4, <1>5, SeqEqual

(* Accepting a job appends its entry, whatever the others' tokens are. *)
LEMMA ShownAppend ==
    ASSUME TypeOK, TypeOK', NEW j \in Jobs, NEW t \in Tokens \cup {NoToken},
           pending' = Append(pending, j), token' = [token EXCEPT ![j] = t],
           \A i \in 1..Len(pending) : pending[i] # j
    PROVE  Shown(pending)' = Append(Shown(pending), [job |-> j, token |-> t])
<1>1. /\ pending \in Seq(Jobs) /\ Len(pending) \in Nat
      /\ \A i \in 1..Len(pending) : pending[i] \in Jobs
  BY LenProperties, ElementOfSeq DEF TypeOK
<1>2. /\ Len(pending') = Len(pending) + 1 /\ pending'[Len(pending) + 1] = j
      /\ \A i \in 1..Len(pending) : pending'[i] = pending[i]
  BY <1>1, AppendProperties
<1>3. /\ token'[j] = t
      /\ \A i \in 1..Len(pending) : token'[pending[i]] = token[pending[i]]
  BY <1>1 DEF TypeOK
<1>4. /\ Shown(pending) \in Seq(Entries) /\ Len(Shown(pending)) = Len(pending)
      /\ \A i \in 1..Len(pending) :
            Shown(pending)[i] = [job |-> pending[i], token |-> token[pending[i]]]
  BY <1>1, ShownFacts
<1>5. [job |-> j, token |-> t] \in Entries
  BY DEF Entries
<1> DEFINE app == Append(Shown(pending), [job |-> j, token |-> t])
<1>6. /\ app \in Seq(Entries) /\ Len(app) = Len(pending) + 1
      /\ app[Len(pending) + 1] = [job |-> j, token |-> t]
      /\ \A i \in 1..Len(pending) : app[i] = Shown(pending)[i]
  BY <1>4, <1>5, AppendProperties
<1>7. Shown(pending)' = [i \in 1..Len(pending') |->
                            [job |-> pending'[i], token |-> token'[pending'[i]]]]
  BY DEF Shown
<1>8. DOMAIN app = 1..(Len(pending) + 1) /\ app = [i \in DOMAIN app |-> app[i]]
  BY <1>6, LenProperties
<1> HIDE DEF app
<1>9. \A i \in 1..(Len(pending) + 1) :
         app[i] = [job |-> pending'[i], token |-> token'[pending'[i]]]
  <2> TAKE i \in 1..(Len(pending) + 1)
  <2>1. i \in 1..Len(pending) \/ i = Len(pending) + 1
    BY <1>1
  <2>2. CASE i \in 1..Len(pending)
    <3>1. pending'[i] = pending[i] /\ token'[pending[i]] = token[pending[i]]
      BY <2>2, <1>2, <1>3
    <3>2. app[i] = [job |-> pending[i], token |-> token[pending[i]]]
      BY <2>2, <1>4, <1>6
    <3> QED BY <3>1, <3>2
  <2>3. CASE i = Len(pending) + 1
    <3>1. pending'[i] = j /\ token'[j] = t
      BY <2>3, <1>2, <1>3
    <3>2. app[i] = [job |-> j, token |-> t]
      BY <2>3, <1>6
    <3> QED BY <3>1, <3>2
  <2> QED BY <2>1, <2>2, <2>3
<1>10. Shown(pending)' = app
  BY <1>2, <1>7, <1>8, <1>9
<1> QED BY <1>10 DEF app

(* Jobs elsewhere may get their token: the abstract queue does not see it. *)
LEMMA ShownSame ==
    ASSUME TypeOK, pending' = pending,
           \A i \in 1..Len(pending) : token'[pending[i]] = token[pending[i]]
    PROVE  Shown(pending)' = Shown(pending)
BY DEF Shown

(* The abstract state: the entries shown, and four variables as they are. *)
AbsVars == <<Shown(pending), current, owner, held, stopped>>

LEMMA AbsVarsFacts ==
    Serial!absVars = AbsVars
BY DEF Serial!absVars, AbsVars, Shown

LEMMA RefinementStep ==
    QueueInv /\ QueueInv' /\ [Next]_vars => [Serial!Next]_(Serial!absVars)
<1> SUFFICES ASSUME QueueInv, QueueInv', [Next]_vars, UNCHANGED Serial!absVars => FALSE
             PROVE  Serial!Next
  OBVIOUS
<1> USE QueueAssumption
<1>a. TypeOK /\ TypeOK' /\ InOrder
  BY DEF QueueInv
<1>b. ASSUME UNCHANGED <<pending, current, owner, held, stopped>>,
             \A i \in 1..Len(pending) : token'[pending[i]] = token[pending[i]]
      PROVE  FALSE
  <2>1. Shown(pending)' = Shown(pending)
    BY <1>a, <1>b, ShownSame
  <2>2. UNCHANGED AbsVars
    BY <1>b, <2>1 DEF AbsVars
  <2> QED BY <2>2, AbsVarsFacts DEF Serial!absVars, AbsVars, Shown
<1>c. token \in [Jobs -> Tokens \cup {NoToken}] /\ \A i \in 1..Len(pending) : pending[i] \in Jobs
  BY <1>a, ElementOfSeq DEF TypeOK
<1>accept. ASSUME NEW j \in Jobs, NEW t \in Tokens \cup {NoToken},
                  ~stopped, stage[j] # "pending",
                  pending' = Append(pending, j), token' = [token EXCEPT ![j] = t],
                  UNCHANGED <<current, owner, held, stopped>>
           PROVE  Serial!Next
  <2>1. \A i \in 1..Len(pending) : pending[i] # j
    BY <1>a, <1>accept, NotQueued
  <2>2. Shown(pending)' = Append(Shown(pending), [job |-> j, token |-> t])
    BY <1>a, <1>accept, <2>1, ShownAppend
  <2>3. Serial!Accept(j, t)
    BY <1>accept, <2>2 DEF Serial!Accept, Shown
  <2> QED BY <1>accept, <2>3 DEF Serial!Next
<1>1. ASSUME NEW j \in Jobs, NEW t \in Tokens \cup {NoToken}, Submit(j, t)
      PROVE  Serial!Next
  <2>1. stage[j] # "pending" /\ UNCHANGED <<current, owner, held, stopped>>
    BY <1>1 DEF Submit, task
  <2>2. CASE stopped
    <3>1. \A i \in 1..Len(pending) : pending[i] # j
      BY <1>a, <2>1, NotQueued
    <3> QED BY <1>1, <1>b, <1>c, <2>1, <2>2, <3>1 DEF Submit
  <2>3. CASE ~stopped
    BY <1>1, <1>accept, <2>1, <2>3 DEF Submit
  <2> QED BY <2>2, <2>3
<1>2. ASSUME NEW j \in Jobs, NEW t \in Tokens \cup {NoToken}, Gate(j, t)
      PROVE  Serial!Next
  <2>1. \A i \in 1..Len(pending) : pending[i] # j
    BY <1>2, <1>a, NotQueued DEF Gate
  <2> QED BY <1>2, <1>b, <1>c, <2>1 DEF Gate, inner, task
<1>3. ASSUME NEW j \in Jobs, Enqueue(j)
      PROVE  Serial!Next
  <2>1. stage[j] # "pending" /\ token' = token /\ UNCHANGED <<current, owner, held, stopped>>
    BY <1>3 DEF Enqueue, task
  <2>2. CASE stopped
    BY <1>3, <1>b, <2>1, <2>2 DEF Enqueue
  <2>3. CASE ~stopped
    <3>1. token' = [token EXCEPT ![j] = token[j]] /\ token[j] \in Tokens \cup {NoToken}
      BY <1>c, <2>1
    <3> QED BY <1>3, <1>accept, <2>1, <2>3, <3>1 DEF Enqueue
  <2> QED BY <2>2, <2>3
<1>4. ASSUME \/ \E j \in Jobs : LetGo(j)
             \/ Wake \/ SleepOver \/ Rearm \/ Tick \/ UNCHANGED vars
      PROVE  Serial!Next
  <2>1. UNCHANGED <<pending, current, owner, held, stopped, token>>
    BY <1>4 DEF LetGo, Wake, SleepOver, Rearm, Tick, vars, inner, task, jobs
  <2> QED BY <2>1, <1>b
<1>5. ASSUME NEW t \in Tokens, AcquireNow(t) \/ Hold(t) \/ Release(t)
      PROVE  Serial!Next
  <2>1. UNCHANGED <<pending, token, current, stopped>>
    BY <1>5 DEF AcquireNow, Hold, Release, task, jobs
  <2>2. Shown(pending)' = Shown(pending)
    BY <2>1 DEF Shown
  <2>3. Serial!Take(t) \/ Serial!Leave(t)
    <3>1. CASE AcquireNow(t) \/ Hold(t)
      <4>1. ~stopped /\ owner \in {NoToken, t} /\ owner' = t /\ held' \in {held, TRUE}
        BY <3>1 DEF AcquireNow, Hold, Allowed
      <4> QED BY <4>1, <2>1, <2>2 DEF Serial!Take, Shown
    <3>2. CASE Release(t)
      BY <3>2, <2>1, <2>2 DEF Release, Serial!Leave, Shown
    <3> QED BY <1>5, <3>1, <3>2
  <2> QED BY <2>3 DEF Serial!Next
<1>6. ASSUME Stop
      PROVE  Serial!Next
  <2>1. Len(pending') = 0 /\ stopped' = TRUE /\ UNCHANGED <<current, owner, held>>
    BY <1>6 DEF Stop, task
  <2>2. Shown(pending)' = <<>>
    BY <2>1 DEF Shown
  <2>3. Serial!Close
    BY <2>1, <2>2 DEF Serial!Close, Shown
  <2> QED BY <2>3 DEF Serial!Next
<1>7. ASSUME NextStep
      PROVE  Serial!Next
  <2>0. token' = token
    BY <1>7 DEF NextStep
  <2>1. CASE stopped
    BY <1>7, <2>0, <2>1, <1>b DEF NextStep, inner
  <2>2. CASE ~stopped
    <3>1. PICK n \in 0..Len(pending) : Dispatch(n) \/ ForceRelease(n) \/ Rest(n)
      BY <1>7, <2>2 DEF NextStep
    <3>2. n \in 0..Len(Shown(pending)) /\ stopped' = stopped
      BY <1>7, <2>2, <1>a, ShownFacts DEF TypeOK, NextStep
    <3>3. Serial!Without(n) = Shown(Fresh(n))
      BY <1>a, ShownWithout
    <3>4. /\ Fresh(n) \in Seq(Jobs) /\ Len(Shown(Fresh(n))) = Len(Fresh(n))
          /\ \A i \in 1..Len(Fresh(n)) :
                Shown(Fresh(n))[i] = [job |-> Fresh(n)[i], token |-> token[Fresh(n)[i]]]
      BY <1>a, FreshFacts, ShownFacts
    <3>5. CASE Dispatch(n)
      <4>1. PICK i \in 1..Len(Fresh(n)) :
              /\ Turn(Fresh(n), i)
              /\ current' = Fresh(n)[i]
              /\ pending' = RemoveAt(Fresh(n), i)
              /\ UNCHANGED <<owner, held>>
        BY <3>5 DEF Dispatch
      <4>2. current = NoJob
        BY <1>7 DEF NextStep, QueueInv, WorkerRuns
      <4>3. Serial!Turn(Serial!Without(n), i)
        <5> DEFINE w == Shown(Fresh(n))
                   f == Fresh(n)
        <5>1. \A k \in 1..Len(f) : w[k].token = token[f[k]]
          <6> TAKE k \in 1..Len(f)
          <6>1. w[k] = [job |-> f[k], token |-> token[f[k]]]
            BY <3>4
          <6> QED BY <6>1
        <5>2. Len(f) \in Nat /\ Turn(f, i) /\ i \in 1..Len(f)
          BY <4>1, <3>4, LenProperties
        <5> HIDE DEF w, f
        <5>3. Serial!Turn(w, i)
          BY <5>1, <5>2 DEF Turn, Serial!Turn
        <5> QED BY <5>3, <3>3 DEF w
      <4>4. Shown(pending)' = RemoveAt(Serial!Without(n), i)
        <5>1. Shown(pending)' = Shown(RemoveAt(Fresh(n), i))
          BY <2>0, <4>1 DEF Shown
        <5> QED BY <5>1, <1>a, <3>3, <3>4, ShownRemoveAt
      <4>5. current' = Serial!Without(n)[i].job /\ i \in 1..Len(Serial!Without(n))
        <5>1. Shown(Fresh(n))[i] = [job |-> Fresh(n)[i], token |-> token[Fresh(n)[i]]]
          BY <3>4
        <5>2. Shown(Fresh(n))[i].job = Fresh(n)[i]
          BY <5>1
        <5>3. i \in 1..Len(Shown(Fresh(n)))
          BY <3>4
        <5> QED BY <4>1, <3>3, <5>2, <5>3
      <4>6. Serial!Start(n)
        <5>1. Serial!Start(n) <=>
                \E k \in 1..Len(Serial!Without(n)) :
                    /\ current = NoJob
                    /\ Serial!Turn(Serial!Without(n), k)
                    /\ current' = Serial!Without(n)[k].job
                    /\ Shown(pending)' = RemoveAt(Serial!Without(n), k)
                    /\ UNCHANGED <<owner, held, stopped>>
          BY DEF Serial!Start, Shown, RemoveAt, Serial!RemoveAt
        <5> QED BY <5>1, <4>1, <4>2, <4>3, <4>4, <4>5, <3>2
      <4> QED BY <4>6, <3>2 DEF Serial!Next, Shown
    <3>6. CASE ForceRelease(n)
      <4>1. ~held
        BY <3>6 DEF ForceRelease, QueueInv, SlotAgrees, NoDeadline
      <4>2. Shown(pending)' = Serial!Without(n)
        BY <3>3, <3>6, <2>0 DEF ForceRelease, Shown
      <4>3. Serial!Reap(n)
        BY <3>6, <3>2, <4>1, <4>2 DEF ForceRelease, Serial!Reap, Shown
      <4> QED BY <4>3, <3>2 DEF Serial!Next, Shown
    <3>7. CASE Rest(n)
      <4>1. Shown(pending)' = Serial!Without(n)
        BY <3>3, <3>7, <2>0 DEF Rest, Shown
      <4>2. Serial!GiveUp(n)
        BY <3>7, <3>2, <4>1 DEF Rest, Serial!GiveUp, Shown
      <4> QED BY <4>2, <3>2 DEF Serial!Next, Shown
    <3> QED BY <3>1, <3>5, <3>6, <3>7
  <2> QED BY <2>1, <2>2
<1>8. ASSUME JobReturns
      PROVE  Serial!Next
  <2>1. current # NoJob /\ current' = NoJob /\ UNCHANGED <<pending, token, owner, held, stopped>>
    BY <1>8 DEF JobReturns, inner, QueueInv, WorkerRuns
  <2>2. Shown(pending)' = Shown(pending)
    BY <2>1 DEF Shown
  <2>3. Serial!Finish
    BY <2>1, <2>2 DEF Serial!Finish, Shown
  <2> QED BY <2>3 DEF Serial!Next
<1> QED BY <1>1, <1>2, <1>3, <1>4, <1>5, <1>6, <1>7, <1>8 DEF Next

(* Whatever the callers, the timers and the threads do, the queue is a serial   *)
(* queue with an exclusive slot: one operation at a time, each session's oldest *)
(* first, nothing foreign started while the slot is owned.                     *)
THEOREM Refinement == Spec => ImplementsSerialQueue
<1>1. Init => Serial!Init
  BY DEF Init, Serial!Init
<1> QED
  BY <1>1, RefinementStep, QueueInvariant, PTL DEF Spec, ImplementsSerialQueue, Serial!Spec
=============================================================================
