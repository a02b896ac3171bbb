--------------------------- MODULE LiveScreenProofs ---------------------------
(***************************************************************************)
(* What holds of LiveScreen for any number of calls, live jobs and frames. *)
(* It rests on one inductive invariant: TypeOK; who made the pictures that *)
(* are queued, drawn, shown and kept; that a job stopped for a call stays  *)
(* stopped; in which order calls claimed their numbers; and what a task    *)
(* has saved of the frames it holds back.                                  *)
(***************************************************************************)
EXTENDS LiveScreen, SequenceTheorems, TLAPS

Owned == {Holder, Session, NoToken}

(* The items the queue has, whoever brought them.                           *)
Queued  == queue \in Seq([job : Items, token : Owned])
Pending == {queue[i].job : i \in DOMAIN queue}

(* TypeOK, in parts: the queue, the flags, the glass, the jobs, the calls,  *)
(* and the lease.                                                           *)
LineType  == running \in Items \cup {Nothing} /\ owner \in Owned
FlagType  == {leased, closed, retired, drawing} \subseteq BOOLEAN
GlassType == {panel, screen} \subseteq Pictures
JobType ==
    /\ started \in 0 .. MaxJobs /\ job \in 0 .. started /\ arriving \subseteq 1 .. started
    /\ alive \in [Jobs -> BOOLEAN] /\ (job # 0 => alive[job])
TaskType ==
    /\ task \in [Jobs -> {"off", "asleep", "checked", "saved", "clear", "waiting",
                          "landed", "failed"}]
    /\ frame \in [Jobs -> 0 .. MaxFrames] /\ heldBack \in [Jobs -> 0 .. MaxFrames]
    /\ saved \in Pictures
CallType ==
    /\ gen \in Nat /\ claim \in [Calls -> Nat]
    /\ call \in [Calls -> {"new", "free", "let", "claimed", "waiting", "drawing", "skipped", "done",
                           "refused", "lost"}]
    /\ fenced \in [Calls -> SUBSET Jobs]
LoanType ==
    /\ lease \in {Holder, Nothing} /\ {found, repaint} \subseteq Pictures
    /\ ender \in {"none", "held", "watching", "taken", "freed", "read", "waiting",
                  "painted", "done"}

(* Where a call is once its image may be queued, drawn or shown.            *)
Past == {"waiting", "drawing", "skipped", "done", "lost"}

(* A call's item draws the image of a call that has queued it, a job's      *)
(* draws a frame, and the end of a lease draws nobody's image.              *)
Sound(item) ==
    /\ item.from = "call" => \E c \in Calls : item.picture = Image(c) /\ call[c] \in Past
    /\ item.from # "call" => item.picture.by \notin Calls

PendingSound == \A item \in Pending : Sound(item)
RunningSound == drawing => Sound(running)
PanelSound   == \A c \in Calls : panel = Image(c) => call[c] \in Past
KeptSound    == saved.by = Nothing /\ found.by \notin Calls /\ found.job = 0
                /\ repaint.by \notin Calls

(* Jobs that are not installed yet are not stopped yet.                     *)
Arriving == \A j \in arriving : alive[j] /\ j # job

(* A job that was stopped stays stopped, and no other takes its number.     *)
Fenced == \A c \in Calls : \A j \in fenced[c] : j \in 1 .. started /\ ~alive[j]

(* The frame that is being drawn is not of a job stopped for the image it   *)
(* is about to cover.                                                       *)
DrawsFresh ==
    drawing /\ running.from = "job" =>
        \A c \in Calls : panel = Image(c) => running.picture.job \notin fenced[c]

(* Every call that has claimed has a number of its own.                     *)
Claims ==
    /\ \A c \in Calls : claim[c] <= gen /\ (call[c] \in Past \cup {"claimed"} => claim[c] > 0)
    /\ \A c \in Calls : call[c] \in {"new", "free", "let"} => claim[c] = 0
    /\ \A c, d \in Calls : c # d /\ claim[c] = claim[d] => claim[c] = 0

DrawsNewer ==
    drawing /\ running.from = "call" =>
        \A c \in Calls : panel = Image(c) /\ running.picture # Image(c) =>
            claim[c] < claim[running.picture.by]

(* What is saved of a job is as new as what that job has held back.         *)
SavedNewest ==
    \A j \in Jobs : /\ heldBack[j] <= frame[j]
                    /\ saved.job = j => saved.n >= heldBack[j]
                    /\ saved.job = j /\ task[j] = "saved" => saved.n = frame[j]

(* The end of the lease has its item only once it waits for it.            *)
Late == {"waiting", "painted", "done"}
EndQueued ==
    /\ \A item \in Pending : item.from = "end" => ender \in Late
    /\ running # Nothing /\ running.from = "end" => ender \in Late

LeaseInSlot == lease # Nothing => ender = "watching"

IInv ==
    /\ TypeOK /\ Queued /\ PendingSound /\ RunningSound /\ PanelSound /\ KeptSound
    /\ Arriving /\ Fenced /\ DrawsFresh /\ Claims /\ DrawsNewer /\ SavedNewest /\ EndQueued /\ LeaseInSlot
    /\ RepaintIsNewest

-----------------------------------------------------------------------------
(* The names are apart, and what they stand for is typed.                   *)
LEMMA Constants ==
    /\ MaxJobs \in Nat /\ MaxFrames \in Nat
    /\ Holder # Session /\ Holder # NoToken /\ Session # NoToken
    /\ Nothing \notin Calls /\ Channel \notin Calls /\ Nothing # Channel
    /\ \A c \in Calls : TokenOf[c] \in Owned
  BY LiveAssumption DEF Owned

LEMMA PictureTypes ==
    /\ \A j \in 0 .. MaxJobs, n \in 0 .. MaxFrames : Frame(j, n) \in Pictures
    /\ \A c \in Calls \cup {Channel} : Image(c) \in Pictures
    /\ Blank \in Pictures
    /\ \A p \in Pictures : Item("job", p) \in Items /\ Item("call", p) \in Items
                           /\ Item("end", p) \in Items
  BY Constants DEF Frame, Image, Blank, Pictures, Item, Items

(* Taking one item out of the queue leaves only items it had.               *)
LEMMA RemoveAtFacts ==
    ASSUME NEW S, NEW s \in Seq(S), NEW i \in 1 .. Len(s)
    PROVE  /\ Queue!RemoveAt(s, i) \in Seq(S)
           /\ \A k \in DOMAIN Queue!RemoveAt(s, i) :
                \E m \in DOMAIN s : Queue!RemoveAt(s, i)[k] = s[m]
<1> DEFINE front == SubSeq(s, 1, i - 1)
           back  == SubSeq(s, i + 1, Len(s))
<1>1. Len(s) \in Nat /\ i \in Nat /\ i >= 1 /\ i <= Len(s)
  BY LenProperties
<1>2. /\ front \in Seq(S) /\ Len(front) = i - 1
      /\ \A k \in 1 .. (i - 1) : front[k] = s[k]
  <2>1. \A k \in 1 .. (i - 1) : s[k] \in S
    BY <1>1, ElementOfSeq
  <2>2. /\ front \in Seq(S)
        /\ Len(front) = IF 1 <= i - 1 THEN i - 1 - 1 + 1 ELSE 0
        /\ \A k \in 1 .. (i - 1 - 1 + 1) : front[k] = s[1 + k - 1]
    BY <1>1, <2>1, SubSeqProperties
  <2> QED BY <1>1, <2>2
<1>3. /\ back \in Seq(S) /\ Len(back) = Len(s) - i
      /\ \A k \in 1 .. (Len(s) - i) : back[k] = s[i + k]
  <2>1. \A k \in (i + 1) .. Len(s) : s[k] \in S
    BY <1>1, ElementOfSeq
  <2>2. /\ back \in Seq(S)
        /\ Len(back) = IF i + 1 <= Len(s) THEN Len(s) - (i + 1) + 1 ELSE 0
        /\ \A k \in 1 .. (Len(s) - (i + 1) + 1) : back[k] = s[i + 1 + k - 1]
    BY <1>1, <2>1, SubSeqProperties
  <2> HIDE DEF front, back
  <2>3. \A k \in 1 .. (Len(s) - i) : i + 1 + k - 1 = i + k
    BY <1>1
  <2>4. Len(s) - (i + 1) + 1 = Len(s) - i
    BY <1>1
  <2>5. Len(back) = Len(s) - i
    <3>1. Len(back) = IF i + 1 <= Len(s) THEN Len(s) - i ELSE 0
      BY <2>2, <2>4
    <3>2. ~(i + 1 <= Len(s)) => Len(s) - i = 0
      BY <1>1
    <3> QED BY <3>1, <3>2
  <2>6. \A k \in 1 .. (Len(s) - i) : back[k] = s[i + k]
    BY <2>2, <2>3, <2>4
  <2> QED BY <2>2, <2>5, <2>6
<1>4. Queue!RemoveAt(s, i) = front \o back
  BY DEF Queue!RemoveAt
<1>5. /\ front \o back \in Seq(S)
      /\ Len(front \o back) = Len(front) + Len(back)
      /\ \A k \in 1 .. (Len(front) + Len(back)) :
            (front \o back)[k] = IF k <= Len(front) THEN front[k] ELSE back[k - Len(front)]
  BY <1>2, <1>3, ConcatProperties
<1> HIDE DEF front, back
<1>6. DOMAIN (front \o back) = 1 .. Len(front \o back)
  BY <1>5, LenProperties
<1>7. \A k \in 1 .. (Len(s) - 1) :
        (front \o back)[k] = IF k < i THEN s[k] ELSE s[k + 1]
  <2> SUFFICES ASSUME NEW k \in 1 .. (Len(s) - 1)
               PROVE  (front \o back)[k] = IF k < i THEN s[k] ELSE s[k + 1]
    OBVIOUS
  <2>1. CASE k < i
    BY <1>1, <1>2, <1>3, <1>5, <2>1
  <2>2. CASE ~(k < i)
    <3>1. k - (i - 1) \in 1 .. (Len(s) - i) /\ i + (k - (i - 1)) = k + 1
      BY <1>1, <2>2
    <3>2. (front \o back)[k] = back[k - (i - 1)]
      BY <1>1, <1>2, <1>3, <1>5, <2>2
    <3>3. back[k - (i - 1)] = s[i + (k - (i - 1))]
      BY <1>3, <3>1
    <3> QED BY <2>2, <3>1, <3>2, <3>3
  <2> QED BY <2>1, <2>2
<1>8. \A k \in 1 .. (Len(s) - 1) : k \in DOMAIN s /\ k + 1 \in DOMAIN s
  BY <1>1, LenProperties
<1>9. Len(front \o back) = Len(s) - 1
  BY <1>1, <1>2, <1>3, <1>5
<1> QED BY <1>4, <1>5, <1>6, <1>7, <1>8, <1>9

(* What the steps of the queue do to what it has.                           *)
LEMMA Joins ==
    ASSUME Queued, NEW item \in Items, NEW t \in Owned, Queue!Accept(item, t)
    PROVE  Queued' /\ Pending' = Pending \cup {item} /\ ~closed
           /\ UNCHANGED <<running, owner, leased, closed>>
<1>1. /\ queue \in Seq([job : Items, token : Owned])
      /\ [job |-> item, token |-> t] \in [job : Items, token : Owned]
      /\ queue' = Append(queue, [job |-> item, token |-> t])
  BY DEF Queued, Queue!Accept
<1>2. /\ queue' \in Seq([job : Items, token : Owned])
      /\ Len(queue') = Len(queue) + 1
      /\ \A i \in 1 .. Len(queue) : queue'[i] = queue[i]
      /\ queue'[Len(queue) + 1] = [job |-> item, token |-> t]
  BY <1>1, AppendProperties
<1>3. DOMAIN queue = 1 .. Len(queue) /\ DOMAIN queue' = 1 .. (Len(queue) + 1) /\ Len(queue) \in Nat
  BY <1>1, <1>2, LenProperties
<1>4. 1 .. (Len(queue) + 1) = (1 .. Len(queue)) \cup {Len(queue) + 1}
  BY <1>3
<1>5. Pending' = {queue'[i].job : i \in 1 .. Len(queue)} \cup {queue'[Len(queue) + 1].job}
  BY <1>3, <1>4 DEF Pending
<1>6. {queue'[i].job : i \in 1 .. Len(queue)} = Pending
  BY <1>2, <1>3 DEF Pending
<1> QED BY <1>2, <1>5, <1>6 DEF Queued, Queue!Accept

LEMMA Begins ==
    ASSUME Queued, Queue!Start(0)
    PROVE  /\ Queued' /\ Pending' \subseteq Pending /\ running' \in Pending /\ running' \in Items
           /\ running = Nothing /\ UNCHANGED <<owner, leased, closed>>
<1>1. queue \in Seq([job : Items, token : Owned]) /\ Len(queue) \in Nat
      /\ DOMAIN queue = 1 .. Len(queue)
  BY LenProperties DEF Queued
<1>2. Queue!Without(0) = queue
  BY <1>1, SubSeqFull DEF Queue!Without
<1>3. PICK i \in 1 .. Len(queue) : /\ running = Nothing /\ running' = queue[i].job
                                   /\ queue' = Queue!RemoveAt(queue, i)
                                   /\ UNCHANGED <<owner, leased, closed>>
  BY <1>2 DEF Queue!Start
<1>4. /\ queue' \in Seq([job : Items, token : Owned])
      /\ \A k \in DOMAIN queue' : \E m \in DOMAIN queue : queue'[k] = queue[m]
  BY <1>1, <1>3, RemoveAtFacts
<1>5. queue[i] \in [job : Items, token : Owned]
  BY <1>1, <1>3, ElementOfSeq
<1> QED BY <1>1, <1>3, <1>4, <1>5 DEF Queued, Pending

LEMMA Closes ==
    ASSUME Queue!Close
    PROVE  Queued' /\ Pending' = {} /\ UNCHANGED <<running, owner, leased>>
<1>1. queue' = <<>>
  BY DEF Queue!Close
<1>2. queue' \in Seq([job : Items, token : Owned]) /\ DOMAIN queue' = {}
  BY <1>1, EmptySeq
<1> QED BY <1>1, <1>2 DEF Queue!Close, Queued, Pending

(* The queue's items are typed, and so is what is taken out of it.           *)
LEMMA QueueStep == TypeOK /\ Queued /\ [Next]_vars => (Queued /\ LineType)'
<1> SUFFICES ASSUME TypeOK, Queued, [Next]_vars
             PROVE  (Queued /\ LineType)'
  OBVIOUS
<1>1. ASSUME NEW j \in Jobs, Push(j) PROVE (Queued /\ LineType)'
  <2>1. Item("job", Frame(j, frame[j])) \in Items
    BY PictureTypes, Constants DEF TypeOK, Jobs
  <2>2. CASE retired \/ closed
    BY <1>1, <2>2 DEF Push, line, Queued, LineType, TypeOK, Owned
  <2>3. CASE ~(retired \/ closed)
    BY <1>1, <2>1, <2>3, Joins DEF Push, LineType, TypeOK, Owned
  <2> QED BY <2>2, <2>3
<1>2. ASSUME NEW j \in Jobs, Install(j) \/ Render(j) \/ Save(j) \/ AskLease(j) \/ Resume(j)
      PROVE  (Queued /\ LineType)'
  BY <1>2 DEF Install, Aborted, Silenced, Render, Save, AskLease, Resume, TypeOK, Queued,
     LineType, Owned, line
<1>3. ASSUME NEW c \in Calls, CallQueues(c) PROVE (Queued /\ LineType)'
  <2>1. Item("call", Image(c)) \in Items /\ TokenOf[c] \in Owned
    BY PictureTypes, Constants
  <2>2. UNCHANGED line \/ Queue!Accept(Item("call", Image(c)), TokenOf[c])
    BY <1>3 DEF CallQueues
  <2> QED BY <2>1, <2>2, Joins DEF line, Queued, LineType, TypeOK, Owned
<1>4. ASSUME NEW c \in Calls, CallArrives(c) \/ CallPreempts(c) \/ CallClaims(c)
      PROVE  (Queued /\ LineType)'
  BY <1>4 DEF CallArrives, CallPreempts, jobs, glass, loan, Aborted, Silenced, CallClaims,
     TypeOK, Queued, LineType, Owned, line
<1>5. CASE EndQueues
  <2>1. Item("end", repaint) \in Items /\ NoToken \in Owned
    BY PictureTypes DEF TypeOK, Owned
  <2>2. UNCHANGED line \/ Queue!Accept(Item("end", repaint), NoToken)
    BY <1>5 DEF EndQueues
  <2> QED BY <2>1, <2>2, Joins DEF line, Queued, LineType, TypeOK, Owned
<1>6. CASE Begin
  BY <1>6, Begins DEF Begin, LineType, TypeOK, Owned
<1>7. CASE StopQueue
  BY <1>7, Closes DEF StopQueue, LineType, TypeOK, Owned
<1>8. CASE Spawn \/ StopJob \/ Retire \/ SessionTakes \/ SessionLeaves \/ LeaseHold \/ LeaseSet
          \/ EndTake \/ EndFree \/ EndRead \/ EndRecord \/ Complete \/ Fail
  BY <1>8, Constants DEF Spawn, StopJob, Aborted, Silenced, Retire, SessionTakes, Queue!Take,
     SessionLeaves, Queue!Leave, LeaseHold, LeaseSet, EndTake, EndFree, EndRead, EndRecord,
     Complete, Queue!Finish, ToldJob, ToldCall, Fail, TypeOK, Queued, LineType, Owned, line
<1>9. CASE UNCHANGED vars
  BY <1>9 DEF vars, line, Queued, LineType, TypeOK, Owned
<1> QED
  BY <1>1, <1>2, <1>3, <1>4, <1>5, <1>6, <1>7, <1>8, <1>9 DEF Next, JobTask, Caller, Turns,
     Lending

(* Flags stay flags.                                                        *)
LEMMA FlagStep == FlagType /\ Queued /\ [Next]_vars => FlagType'
<1> SUFFICES ASSUME FlagType, Queued, [Next]_vars
             PROVE  FlagType'
  OBVIOUS
<1>1. ASSUME NEW j \in Jobs, Install(j) \/ Render(j) \/ Save(j) \/ AskLease(j) PROVE FlagType'
  BY <1>1 DEF Install, Aborted, Silenced, Render, Save, AskLease, FlagType, line, glass
<1>2. ASSUME NEW j \in Jobs, Push(j) PROVE FlagType'
  BY <1>2 DEF Push, Queue!Accept, FlagType, line, glass
<1>3. ASSUME NEW j \in Jobs, Resume(j) PROVE FlagType'
  BY <1>3 DEF Resume, FlagType, line
<1>4. ASSUME NEW c \in Calls, CallArrives(c) \/ CallPreempts(c) \/ CallClaims(c) PROVE FlagType'
  BY <1>4 DEF CallArrives, CallPreempts, jobs, loan, Aborted, Silenced, CallClaims, FlagType,
     line, glass
<1>5. ASSUME NEW c \in Calls, CallQueues(c) PROVE FlagType'
  BY <1>5 DEF CallQueues, Queue!Accept, FlagType, line, glass
<1>6. CASE Begin
  <2>1. drawing' \in BOOLEAN
    <3>1. running' \in Items /\ drawing' = Draws(running')
      BY <1>6, Begins DEF Begin
    <3> QED BY <3>1 DEF Draws, Items
  <2> QED BY <1>6, <2>1 DEF FlagType, Begin, Queue!Start
<1>7. CASE Complete \/ Fail
  BY <1>7 DEF Complete, Queue!Finish, ToldJob, ToldCall, Fail, FlagType
<1>8. CASE StopQueue
  BY <1>8 DEF StopQueue, Queue!Close, FlagType, glass
<1>9. CASE SessionTakes \/ LeaseHold
  BY <1>9 DEF SessionTakes, Queue!Take, LeaseHold, FlagType, glass
<1>10. CASE SessionLeaves \/ EndFree
  BY <1>10 DEF SessionLeaves, Queue!Leave, EndFree, FlagType, glass
<1>11. CASE EndQueues
  BY <1>11 DEF EndQueues, Queue!Accept, FlagType, line, glass
<1>12. CASE Spawn \/ StopJob \/ LeaseSet \/ EndTake \/ EndRead \/ EndRecord \/ Retire
  BY <1>12 DEF Spawn, StopJob, Aborted, Silenced, LeaseSet, EndTake, EndRead, EndRecord, Retire,
     FlagType, line, glass
<1>13. CASE UNCHANGED vars
  BY <1>13 DEF vars, line, glass, FlagType
<1> QED
  BY <1>1, <1>2, <1>3, <1>4, <1>5, <1>6, <1>7, <1>8, <1>9, <1>10, <1>11, <1>12, <1>13 DEF Next,
     JobTask, Caller, Turns, Lending

(* The panel and what is said of it are pictures.                           *)
LEMMA GlassStep == TypeOK /\ Queued /\ [Next]_vars => GlassType'
<1> SUFFICES ASSUME TypeOK, Queued, [Next]_vars
             PROVE  GlassType'
  OBVIOUS
<1>1. ASSUME NEW j \in Jobs, Resume(j) PROVE GlassType'
  BY <1>1, PictureTypes, Constants DEF Resume, GlassType, TypeOK, Jobs
<1>2. ASSUME NEW j \in Jobs, Install(j) \/ Render(j) \/ Save(j) \/ AskLease(j) \/ Push(j)
      PROVE  GlassType'
  BY <1>2 DEF Install, Aborted, Silenced, Render, Save, AskLease, Push, Queue!Accept, GlassType,
     TypeOK, glass
<1>3. ASSUME NEW c \in Calls, CallArrives(c) \/ CallPreempts(c) \/ CallClaims(c) \/ CallQueues(c)
      PROVE  GlassType'
  BY <1>3 DEF CallArrives, CallPreempts, jobs, line, loan, Aborted, Silenced, CallClaims,
     CallQueues, Queue!Accept, GlassType,
     TypeOK, glass
<1>4. CASE Complete \/ Fail
  <2>1. running \in Items
    BY <1>4 DEF Complete, Fail, Queue!Finish, TypeOK
  <2>2. running.picture \in Pictures
    BY <2>1 DEF Items
  <2> QED BY <1>4, <2>2 DEF Complete, Fail, GlassType, TypeOK
<1>5. CASE EndRecord
  BY <1>5 DEF EndRecord, GlassType, TypeOK
<1>6. CASE Spawn \/ StopJob \/ Retire \/ SessionTakes \/ SessionLeaves \/ LeaseHold \/ LeaseSet
          \/ EndTake \/ EndFree \/ EndRead \/ EndQueues \/ Begin \/ StopQueue
  BY <1>6 DEF Spawn, StopJob, Aborted, Silenced, Retire, SessionTakes, Queue!Take, SessionLeaves,
     Queue!Leave, LeaseHold, LeaseSet, EndTake, EndFree, EndRead, EndQueues, Queue!Accept,
     Begin, Queue!Start, StopQueue, Queue!Close, GlassType, TypeOK, glass
<1>7. CASE UNCHANGED vars
  BY <1>7 DEF vars, glass, GlassType, TypeOK
<1> QED
  BY <1>1, <1>2, <1>3, <1>4, <1>5, <1>6, <1>7 DEF Next, JobTask, Caller, Turns, Lending

(* Jobs: numbered, and the installed one is alive.                          *)
LEMMA JobStep == JobType /\ Arriving /\ [Next]_vars => JobType'
<1> SUFFICES ASSUME JobType, Arriving, [Next]_vars
             PROVE  JobType'
  OBVIOUS
<1>1. CASE Spawn
  <2>1. /\ started' = started + 1 /\ started' \in Jobs /\ UNCHANGED job
        /\ arriving' = arriving \cup {started'} /\ alive' = [alive EXCEPT ![started'] = TRUE]
    BY <1>1, Constants DEF Spawn, JobType, Jobs
  <2>2. alive' \in [Jobs -> BOOLEAN] /\ \A j \in Jobs : alive[j] => alive'[j]
    BY <2>1 DEF JobType
  <2>3. job \in 0 .. started' /\ started' \in 0 .. MaxJobs /\ arriving' \subseteq 1 .. started'
    BY <2>1, Constants DEF JobType, Jobs
  <2>4. job # 0 => job \in Jobs
    BY Constants DEF JobType, Jobs
  <2> QED BY <2>1, <2>2, <2>3, <2>4 DEF JobType
<1>2. CASE StopJob
  BY <1>2, Constants DEF StopJob, JobType, Silenced
<1>3. ASSUME NEW j \in Jobs, Install(j) PROVE JobType'
  BY <1>3, Constants DEF Install, JobType, Silenced, Arriving, Jobs
<1>4. ASSUME NEW j \in Jobs, Render(j) \/ Save(j) \/ AskLease(j) \/ Push(j) \/ Resume(j)
      PROVE  JobType'
  BY <1>4 DEF Render, Save, AskLease, Push, Queue!Accept, Resume, JobType, jobs
<1>5. ASSUME NEW c \in Calls, CallPreempts(c) PROVE JobType'
  BY <1>5, Constants DEF CallPreempts, JobType, Silenced
<1>6. ASSUME NEW c \in Calls, CallArrives(c) \/ CallClaims(c) \/ CallQueues(c) PROVE JobType'
  BY <1>6 DEF CallArrives, CallClaims, CallQueues, Queue!Accept, JobType, jobs
<1>7. CASE Retire \/ SessionTakes \/ SessionLeaves \/ LeaseHold \/ LeaseSet \/ EndTake \/
          EndFree \/ EndRead \/ EndQueues \/ EndRecord \/ Begin \/ Complete \/ Fail \/ StopQueue
  BY <1>7 DEF Retire, SessionTakes, Queue!Take, SessionLeaves, Queue!Leave, LeaseHold, LeaseSet,
     EndTake, EndFree, EndRead, EndQueues, Queue!Accept, EndRecord, Begin, Queue!Start,
     Complete, Queue!Finish, ToldJob, ToldCall, Fail, StopQueue, Queue!Close, JobType, Arriving,
     JobType, line, glass, jobs, calls, loan
<1>8. CASE UNCHANGED vars
  BY <1>8 DEF vars, jobs, JobType
<1> QED
  BY <1>1, <1>2, <1>3, <1>4, <1>5, <1>6, <1>7, <1>8 DEF Next, JobTask, Caller, Turns, Lending

(* Tasks are somewhere, and what they keep is a picture.                    *)
LEMMA TaskStep == TypeOK /\ [Next]_vars => TaskType'
<1> SUFFICES ASSUME TypeOK, [Next]_vars
             PROVE  TaskType'
  OBVIOUS
<1>1. CASE Spawn
  <2>1. started' \in Jobs
    BY <1>1, Constants DEF Spawn, TypeOK, Jobs
  <2> QED BY <1>1, <2>1 DEF Spawn, TypeOK, TaskType
<1>2. CASE StopJob
  BY <1>2, PictureTypes DEF StopJob, Aborted, TypeOK, TaskType
<1>3. ASSUME NEW j \in Jobs, Install(j) PROVE TaskType'
  BY <1>3, PictureTypes DEF Install, Aborted, TypeOK, TaskType
<1>4. ASSUME NEW j \in Jobs, Render(j) PROVE TaskType'
  <2>1. frame[j] + 1 \in 0 .. MaxFrames
    BY <1>4, Constants DEF Render, TypeOK
  <2> QED BY <1>4, <2>1 DEF Render, TypeOK, TaskType
<1>5. ASSUME NEW j \in Jobs, Save(j) PROVE TaskType'
  BY <1>5, PictureTypes, Constants DEF Save, TypeOK, TaskType, Jobs
<1>6. ASSUME NEW j \in Jobs, AskLease(j) PROVE TaskType'
  BY <1>6 DEF AskLease, TypeOK, TaskType
<1>7. ASSUME NEW j \in Jobs, Push(j) \/ Resume(j) PROVE TaskType'
  BY <1>7 DEF Push, Queue!Accept, Resume, TypeOK, TaskType
<1>8. ASSUME NEW c \in Calls, CallPreempts(c) PROVE TaskType'
  BY <1>8, PictureTypes DEF CallPreempts, Aborted, TypeOK, TaskType
<1>9. ASSUME NEW c \in Calls, CallArrives(c) \/ CallClaims(c) \/ CallQueues(c) PROVE TaskType'
  BY <1>9 DEF CallArrives, CallClaims, CallQueues, Queue!Accept, TypeOK, TaskType, jobs
<1>10. CASE Begin
  BY <1>10 DEF Begin, Queue!Start, TypeOK, TaskType, jobs
<1>11. CASE Complete \/ Fail
  BY <1>11 DEF Complete, Fail, ToldJob, TypeOK, TaskType
<1>12. CASE StopQueue
  BY <1>12 DEF StopQueue, TypeOK, TaskType
<1>13. CASE Retire \/ SessionTakes \/ SessionLeaves \/ LeaseHold \/ LeaseSet \/ EndTake \/
          EndFree \/ EndRead \/ EndQueues \/ EndRecord
  BY <1>13 DEF Retire, SessionTakes, Queue!Take, SessionLeaves, Queue!Leave, LeaseHold, LeaseSet,
     EndTake, EndFree, EndRead, EndQueues, Queue!Accept, EndRecord, TypeOK, TaskType, line,
     glass, jobs, calls, loan
<1>14. CASE UNCHANGED vars
  BY <1>14 DEF vars, jobs, TaskType, TypeOK
<1> QED
  BY <1>1, <1>2, <1>3, <1>4, <1>5, <1>6, <1>7, <1>8, <1>9, <1>10, <1>11, <1>12, <1>13, <1>14 DEF
     Next, JobTask, Caller, Turns, Lending

(* Calls are somewhere, and numbered.                                       *)
LEMMA CallStep == TypeOK /\ [Next]_vars => CallType'
<1> SUFFICES ASSUME TypeOK, [Next]_vars
             PROVE  CallType'
  OBVIOUS
<1>1. ASSUME NEW c \in Calls, CallArrives(c) \/ CallPreempts(c) PROVE CallType'
  <2>1. {k \in 1 .. started : ~alive'[k]} \subseteq Jobs
    BY Constants DEF TypeOK, Jobs
  <2> QED BY <1>1, <2>1 DEF CallArrives, CallPreempts, TypeOK, CallType
<1>2. ASSUME NEW c \in Calls, CallClaims(c) PROVE CallType'
  BY <1>2 DEF CallClaims, TypeOK, CallType
<1>3. ASSUME NEW c \in Calls, CallQueues(c) PROVE CallType'
  BY <1>3 DEF CallQueues, Queue!Accept, TypeOK, CallType
<1>4. ASSUME NEW j \in Jobs, Install(j) \/ Render(j) \/ Save(j) \/ AskLease(j) \/ Push(j) \/
             Resume(j)
      PROVE  CallType'
  BY <1>4 DEF Install, Aborted, Silenced, Render, Save, AskLease, Push, Queue!Accept, Resume,
     TypeOK, CallType, calls
<1>5. CASE Begin
  BY <1>5 DEF Begin, Queue!Start, TypeOK, CallType
<1>6. CASE Complete \/ Fail
  BY <1>6 DEF Complete, Fail, ToldCall, TypeOK, CallType
<1>7. CASE StopQueue
  BY <1>7 DEF StopQueue, TypeOK, CallType
<1>8. CASE Spawn \/ StopJob \/ Retire \/ SessionTakes \/ SessionLeaves \/ LeaseHold \/ LeaseSet
          \/ EndTake \/ EndFree \/ EndRead \/ EndQueues \/ EndRecord
  BY <1>8 DEF Spawn, StopJob, Aborted, Silenced, Retire, SessionTakes, Queue!Take, SessionLeaves,
     Queue!Leave, LeaseHold, LeaseSet, EndTake, EndFree, EndRead, EndQueues, Queue!Accept,
     EndRecord, TypeOK, CallType, line, glass, jobs, calls, loan
<1>9. CASE UNCHANGED vars
  BY <1>9 DEF vars, calls, CallType, TypeOK
<1> QED
  BY <1>1, <1>2, <1>3, <1>4, <1>5, <1>6, <1>7, <1>8, <1>9 DEF Next, JobTask, Caller, Turns,
     Lending

(* The lease is somewhere.                                                  *)
LEMMA LoanStep == TypeOK /\ [Next]_vars => LoanType'
<1> SUFFICES ASSUME TypeOK, [Next]_vars
             PROVE  LoanType'
  OBVIOUS
<1>1. ASSUME NEW j \in Jobs, Install(j) \/ Render(j) \/ Save(j) \/ AskLease(j) \/ Push(j) \/
             Resume(j)
      PROVE  LoanType'
  BY <1>1 DEF Install, Aborted, Silenced, Render, Save, AskLease, Push, Queue!Accept, Resume,
     TypeOK, LoanType, line, glass, jobs, calls, loan
<1>2. ASSUME NEW c \in Calls, CallArrives(c) \/ CallPreempts(c) \/ CallClaims(c) \/ CallQueues(c)
      PROVE  LoanType'
  BY <1>2 DEF CallArrives, CallPreempts, Aborted, Silenced, CallClaims, CallQueues, Queue!Accept,
     TypeOK,
     LoanType, line, glass, jobs, calls, loan
<1>3. CASE Complete \/ Fail \/ StopQueue
  BY <1>3 DEF Complete, Fail, StopQueue, TypeOK, LoanType
<1>4. CASE LeaseHold
  BY <1>4, PictureTypes DEF LeaseHold, TypeOK, LoanType
<1>5. CASE LeaseSet \/ EndTake
  BY <1>5 DEF LeaseSet, EndTake, TypeOK, LoanType, line, glass, jobs, calls, loan
<1>6. CASE EndFree
  BY <1>6 DEF EndFree, Queue!Leave, TypeOK, LoanType, line, glass, jobs, calls, loan
<1>7. CASE EndRead
  BY <1>7 DEF EndRead, TypeOK, LoanType, line, glass, jobs, calls, loan
<1>8. CASE EndQueues \/ EndRecord
  BY <1>8 DEF EndQueues, Queue!Accept, EndRecord, TypeOK, LoanType, line, glass, jobs, calls, loan
<1>9. CASE Spawn \/ StopJob \/ Retire \/ SessionTakes \/ SessionLeaves \/ Begin
  BY <1>9 DEF Spawn, StopJob, Aborted, Silenced, Retire, SessionTakes, Queue!Take, SessionLeaves,
     Queue!Leave, Begin, Queue!Start, TypeOK, LoanType, line, glass, jobs, calls, loan
<1>10. CASE UNCHANGED vars
  BY <1>10 DEF vars, loan, LoanType, TypeOK
<1> QED
  BY <1>1, <1>2, <1>3, <1>4, <1>5, <1>6, <1>7, <1>8, <1>9, <1>10 DEF Next, JobTask, Caller, Turns,
     Lending

(* A call whose image may be somewhere stays one.                           *)
LEMMA PastStep == TypeOK /\ [Next]_vars => \A c \in Calls : call[c] \in Past => call'[c] \in Past
<1> SUFFICES ASSUME TypeOK, [Next]_vars
             PROVE  \A c \in Calls : call[c] \in Past => call'[c] \in Past
  OBVIOUS
<1>1. ASSUME NEW d \in Calls, CallArrives(d) \/ CallPreempts(d) \/ CallClaims(d) \/ CallQueues(d)
      PROVE  \A c \in Calls : call[c] \in Past => call'[c] \in Past
  BY <1>1 DEF CallArrives, CallPreempts, jobs, line, glass, loan, Aborted, Silenced, CallClaims,
     CallQueues, Queue!Accept, TypeOK, Past
<1>2. ASSUME NEW j \in Jobs, Install(j) \/ Render(j) \/ Save(j) \/ AskLease(j) \/ Push(j) \/
             Resume(j)
      PROVE  \A c \in Calls : call[c] \in Past => call'[c] \in Past
  BY <1>2 DEF Install, Aborted, Silenced, Render, Save, AskLease, Push, Queue!Accept, Resume,
     calls
<1>3. CASE Begin
  BY <1>3 DEF Begin, Queue!Start, TypeOK, Past
<1>4. CASE Complete \/ Fail
  BY <1>4 DEF Complete, Fail, ToldCall, TypeOK, Past
<1>5. CASE StopQueue
  BY <1>5 DEF StopQueue, Queue!Close, TypeOK, Past
<1>6. CASE Spawn \/ StopJob \/ Retire \/ SessionTakes \/ SessionLeaves \/ LeaseHold \/ LeaseSet
          \/ EndTake \/ EndFree \/ EndRead \/ EndQueues \/ EndRecord
  BY <1>6 DEF Spawn, StopJob, Aborted, Silenced, Retire, SessionTakes, Queue!Take, SessionLeaves,
     Queue!Leave, LeaseHold, LeaseSet, EndTake, EndFree, EndRead, EndQueues, Queue!Accept,
     EndRecord, calls
<1>7. CASE UNCHANGED vars
  BY <1>7 DEF vars, calls
<1> QED
  BY <1>1, <1>2, <1>3, <1>4, <1>5, <1>6, <1>7 DEF Next, JobTask, Caller, Turns, Lending

(* What is queued stays sound.                                              *)
LEMMA PendingStep ==
    TypeOK /\ Queued /\ PendingSound /\ KeptSound /\ [Next]_vars =>
    PendingSound'
<1> SUFFICES ASSUME TypeOK, Queued, PendingSound, KeptSound, [Next]_vars
             PROVE  PendingSound'
  OBVIOUS
<1>1. ASSUME NEW j \in Jobs, Push(j) PROVE PendingSound'
  <2>1. Item("job", Frame(j, frame[j])) \in Items /\ NoToken \in Owned
    BY PictureTypes, Constants DEF TypeOK, Jobs, Owned
  <2>2. Item("job", Frame(j, frame[j])).from = "job"
        /\ Item("job", Frame(j, frame[j])).picture.by \notin Calls
    BY Constants DEF Item, Frame
  <2>3. UNCHANGED queue \/ Queue!Accept(Item("job", Frame(j, frame[j])), NoToken)
    BY <1>1 DEF Push, line
  <2>4. Pending' \subseteq Pending \cup {Item("job", Frame(j, frame[j]))}
    BY <2>1, <2>3, Joins DEF Pending
  <2> QED BY <2>2, <2>4, PastStep DEF PendingSound, Sound
<1>2. ASSUME NEW j \in Jobs, Install(j) \/ Render(j) \/ Save(j) \/ AskLease(j) \/ Resume(j)
      PROVE  PendingSound'
  BY <1>2, PastStep DEF Install, Aborted, Silenced, Render, Save, AskLease, Resume, PendingSound,
     Sound, Pending, line
<1>3. ASSUME NEW c \in Calls, CallQueues(c) PROVE PendingSound'
  <2>1. Item("call", Image(c)) \in Items /\ TokenOf[c] \in Owned
    BY PictureTypes, Constants
  <2>2. Item("call", Image(c)).from = "call" /\ Item("call", Image(c)).picture = Image(c)
    BY DEF Item
  <2>3. \/ UNCHANGED queue
        \/ call'[c] \in Past /\ Queue!Accept(Item("call", Image(c)), TokenOf[c])
    BY <1>3 DEF CallQueues, line, TypeOK, Past
  <2>4. \/ Pending' \subseteq Pending
        \/ call'[c] \in Past /\ Pending' \subseteq Pending \cup {Item("call", Image(c))}
    BY <2>1, <2>3, Joins DEF Pending
  <2> QED BY <2>2, <2>4, PastStep DEF PendingSound, Sound
<1>4. ASSUME NEW c \in Calls, CallArrives(c) \/ CallPreempts(c) \/ CallClaims(c) PROVE PendingSound'
  BY <1>4, PastStep DEF CallArrives, CallPreempts, jobs, glass, loan, Aborted, Silenced,
     CallClaims, PendingSound, Sound, Pending,
     line
<1>5. CASE EndQueues
  <2>1. Item("end", repaint) \in Items /\ NoToken \in Owned
    BY PictureTypes DEF TypeOK, Owned
  <2>2. Item("end", repaint).from = "end" /\ Item("end", repaint).picture.by \notin Calls
    BY DEF Item, KeptSound
  <2>3. UNCHANGED queue \/ Queue!Accept(Item("end", repaint), NoToken)
    BY <1>5 DEF EndQueues, line
  <2>4. Pending' \subseteq Pending \cup {Item("end", repaint)}
    BY <2>1, <2>3, Joins DEF Pending
  <2> QED BY <2>2, <2>4, PastStep DEF PendingSound, Sound
<1>6. CASE Begin
  BY <1>6, Begins, PastStep DEF Begin, PendingSound, Sound
<1>7. CASE StopQueue
  BY <1>7, Closes DEF StopQueue, PendingSound
<1>8. CASE Spawn \/ StopJob \/ Retire \/ SessionTakes \/ SessionLeaves \/ LeaseHold \/ LeaseSet
          \/ EndTake \/ EndFree \/ EndRead \/ EndRecord \/ Complete \/ Fail
  <2>1. UNCHANGED queue
    BY <1>8 DEF Spawn, StopJob, Retire, SessionTakes, SessionLeaves, LeaseHold, LeaseSet, EndTake,
       EndFree, EndRead, EndRecord, Complete, Fail, Queue!Take, Queue!Leave, Queue!Finish, line
  <2> QED BY <2>1, PastStep DEF PendingSound, Sound, Pending
<1>9. CASE UNCHANGED vars
  BY <1>9 DEF vars, line, calls, PendingSound, Sound, Pending
<1> QED
  BY <1>1, <1>2, <1>3, <1>4, <1>5, <1>6, <1>7, <1>8, <1>9 DEF Next, JobTask, Caller, Turns,
     Lending

(* What has the turn stays sound.                                           *)
LEMMA RunningStep ==
    TypeOK /\ Queued /\ PendingSound /\ RunningSound /\ [Next]_vars =>
    RunningSound'
<1> SUFFICES ASSUME TypeOK, Queued, PendingSound, RunningSound, [Next]_vars
             PROVE  RunningSound'
  OBVIOUS
<1>1. ASSUME NEW j \in Jobs, Install(j) \/ Render(j) \/ Save(j) \/ AskLease(j) \/ Push(j) \/
             Resume(j)
      PROVE  RunningSound'
  BY <1>1, PastStep DEF Install, Aborted, Silenced, Render, Save, AskLease, Push, Queue!Accept,
     Resume, RunningSound, Sound, line, glass
<1>2. ASSUME NEW c \in Calls, CallArrives(c) \/ CallPreempts(c) \/ CallClaims(c) \/ CallQueues(c)
      PROVE  RunningSound'
  BY <1>2, PastStep DEF CallArrives, CallPreempts, jobs, loan, Aborted, Silenced, CallClaims,
     CallQueues, Queue!Accept,
     RunningSound, Sound, line, glass
<1>3. CASE Begin
  <2>1. running' \in Pending /\ running' \in Items
    BY <1>3, Begins DEF Begin
  <2> QED BY <1>3, <2>1, PastStep DEF Begin, RunningSound, PendingSound, Sound
<1>4. CASE Complete \/ Fail
  BY <1>4 DEF Complete, Queue!Finish, ToldJob, ToldCall, Fail, RunningSound
<1>5. CASE StopQueue
  BY <1>5, PastStep DEF StopQueue, Queue!Close, RunningSound, Sound, glass
<1>6. CASE EndQueues
  BY <1>6, PastStep DEF EndQueues, Queue!Accept, RunningSound, Sound, line, glass
<1>7. CASE Spawn \/ StopJob \/ Retire \/ SessionTakes \/ SessionLeaves \/ LeaseHold \/ LeaseSet
          \/ EndTake \/ EndFree \/ EndRead \/ EndRecord
  BY <1>7, PastStep DEF Spawn, StopJob, Aborted, Silenced, Retire, SessionTakes, Queue!Take,
     SessionLeaves, Queue!Leave, LeaseHold, LeaseSet, EndTake, EndFree, EndRead, EndRecord,
     RunningSound, Sound, line, glass
<1>8. CASE UNCHANGED vars
  BY <1>8 DEF vars, line, glass, calls, RunningSound, Sound
<1> QED
  BY <1>1, <1>2, <1>3, <1>4, <1>5, <1>6, <1>7, <1>8 DEF Next, JobTask, Caller, Turns, Lending

(* An image the panel shows is of a call that queued it.                    *)
LEMMA PanelStep == TypeOK /\ RunningSound /\ PanelSound /\ [Next]_vars => PanelSound'
<1> SUFFICES ASSUME TypeOK, RunningSound, PanelSound, [Next]_vars
             PROVE  PanelSound'
  OBVIOUS
<1>1. ASSUME NEW j \in Jobs, Install(j) \/ Render(j) \/ Save(j) \/ AskLease(j) \/ Push(j) \/
             Resume(j)
      PROVE  PanelSound'
  BY <1>1, PastStep DEF Install, Aborted, Silenced, Render, Save, AskLease, Push, Queue!Accept,
     Resume, PanelSound, glass
<1>2. ASSUME NEW c \in Calls, CallArrives(c) \/ CallPreempts(c) \/ CallClaims(c) \/ CallQueues(c)
      PROVE  PanelSound'
  BY <1>2, PastStep DEF CallArrives, CallPreempts, jobs, line, loan, Aborted, Silenced,
     CallClaims, CallQueues, Queue!Accept,
     PanelSound, glass
<1>3. CASE Begin
  BY <1>3, PastStep DEF Begin, Queue!Start, PanelSound
<1>4. CASE Complete \/ Fail
  <2>1. panel' = panel \/ (drawing /\ panel' = running.picture)
    BY <1>4 DEF Complete, Fail
  <2>2. CASE panel' = panel
    BY <2>2, PastStep DEF PanelSound
  <2>3. CASE drawing /\ panel' = running.picture
    <3> SUFFICES ASSUME NEW c \in Calls, running.picture = Image(c)
                 PROVE  call[c] \in Past
      BY <2>3, PastStep DEF PanelSound
    <3>1. \A d : Image(c) = Image(d) => c = d
      BY DEF Image
    <3>2. Image(c).by = c
      BY DEF Image
    <3> QED BY <2>3, <3>1, <3>2 DEF RunningSound, Sound
  <2> QED BY <2>1, <2>2, <2>3
<1>5. CASE StopQueue
  BY <1>5, PastStep DEF StopQueue, Queue!Close, PanelSound, glass
<1>6. CASE Spawn \/ StopJob \/ Retire \/ SessionTakes \/ SessionLeaves \/ LeaseHold \/ LeaseSet
          \/ EndTake \/ EndFree \/ EndRead \/ EndQueues \/ EndRecord
  BY <1>6, PastStep DEF Spawn, StopJob, Aborted, Silenced, Retire, SessionTakes, Queue!Take,
     SessionLeaves, Queue!Leave, LeaseHold, LeaseSet, EndTake, EndFree, EndRead, EndQueues,
     Queue!Accept, EndRecord, PanelSound, glass
<1>7. CASE UNCHANGED vars
  BY <1>7 DEF vars, glass, calls, PanelSound
<1> QED
  BY <1>1, <1>2, <1>3, <1>4, <1>5, <1>6, <1>7 DEF Next, JobTask, Caller, Turns, Lending

(* What is kept of jobs and channels is no call's.                          *)
LEMMA KeptStep == TypeOK /\ KeptSound /\ [Next]_vars => KeptSound'
<1> SUFFICES ASSUME TypeOK, KeptSound, [Next]_vars
             PROVE  KeptSound'
  OBVIOUS
<1>1. ASSUME NEW j \in Jobs, Install(j) PROVE KeptSound'
  BY <1>1, Constants DEF Install, Aborted, Silenced, KeptSound, loan, Blank, Frame
<1>2. CASE StopJob
  BY <1>2, Constants DEF StopJob, Aborted, Silenced, KeptSound, loan, Blank, Frame
<1>3. ASSUME NEW j \in Jobs, Save(j) PROVE KeptSound'
  BY <1>3, Constants DEF Save, KeptSound, loan, Frame
<1>4. ASSUME NEW j \in Jobs, Render(j) \/ AskLease(j) \/ Push(j) \/ Resume(j) PROVE KeptSound'
  BY <1>4 DEF Render, AskLease, Push, Queue!Accept, Resume, KeptSound, loan, jobs
<1>5. ASSUME NEW c \in Calls, CallPreempts(c) PROVE KeptSound'
  BY <1>5, Constants DEF CallPreempts, Aborted, Silenced, KeptSound, loan, Blank, Frame
<1>6. ASSUME NEW c \in Calls, CallArrives(c) \/ CallClaims(c) \/ CallQueues(c) PROVE KeptSound'
  BY <1>6 DEF CallArrives, CallClaims, CallQueues, Queue!Accept, KeptSound, loan, jobs
<1>7. CASE LeaseHold
  BY <1>7, Constants DEF LeaseHold, jobs, KeptSound, Blank, Frame, Image
<1>8. CASE EndRead
  BY <1>8, Constants DEF EndRead, KeptSound, loan, jobs
<1>9. CASE Spawn \/ Retire \/ SessionTakes \/ SessionLeaves \/ LeaseSet \/ EndTake \/ EndFree \/
          EndQueues \/ EndRecord \/ Begin \/ Complete \/ Fail \/ StopQueue
  BY <1>9 DEF Spawn, Retire, SessionTakes, Queue!Take, SessionLeaves, Queue!Leave, LeaseSet,
     EndTake, EndFree, EndQueues, Queue!Accept, EndRecord, Begin, Queue!Start, Complete,
     Queue!Finish, ToldJob, ToldCall, Fail, StopQueue, Queue!Close, KeptSound, loan, jobs
<1>10. CASE UNCHANGED vars
  BY <1>10 DEF vars, loan, jobs, KeptSound
<1> QED
  BY <1>1, <1>2, <1>3, <1>4, <1>5, <1>6, <1>7, <1>8, <1>9, <1>10 DEF Next, JobTask, Caller, Turns,
     Lending

(* Jobs that are starting are not stopped.                                  *)
LEMMA ArrivingStep == JobType /\ Arriving /\ [Next]_vars => Arriving'
<1> SUFFICES ASSUME JobType, Arriving, [Next]_vars
             PROVE  Arriving'
  OBVIOUS
<1>1. CASE Spawn
  <2>1. /\ started' = started + 1 /\ started' \in Jobs /\ UNCHANGED job
        /\ arriving' = arriving \cup {started'} /\ alive' = [alive EXCEPT ![started'] = TRUE]
    BY <1>1, Constants DEF Spawn, JobType, Jobs
  <2>2. alive'[started'] /\ \A j \in Jobs : alive[j] => alive'[j]
    BY <2>1 DEF JobType
  <2>3. started' # job
    BY <2>1, Constants DEF JobType
  <2>4. arriving \subseteq Jobs
    BY Constants DEF JobType, Jobs
  <2> QED BY <2>1, <2>2, <2>3, <2>4 DEF Arriving
<1>2. CASE StopJob
  <2>1. arriving \subseteq Jobs /\ 0 \notin arriving
    BY Constants DEF JobType, Jobs
  <2> QED BY <1>2, <2>1 DEF StopJob, Arriving, Silenced
<1>3. ASSUME NEW k \in Jobs, Install(k) PROVE Arriving'
  <2>1. arriving \subseteq Jobs
    BY Constants DEF JobType, Jobs
  <2> QED BY <1>3, <2>1 DEF Install, Arriving, Silenced
<1>4. ASSUME NEW k \in Jobs, Render(k) \/ Save(k) \/ AskLease(k) \/ Push(k) \/ Resume(k)
      PROVE  Arriving'
  BY <1>4 DEF Render, Save, AskLease, Push, Queue!Accept, Resume, Arriving, jobs
<1>5. ASSUME NEW c \in Calls, CallPreempts(c) PROVE Arriving'
  <2>1. arriving \subseteq Jobs /\ 0 \notin arriving
    BY Constants DEF JobType, Jobs
  <2> QED BY <1>5, <2>1 DEF CallPreempts, Arriving, Silenced
<1>6. ASSUME NEW c \in Calls, CallArrives(c) \/ CallClaims(c) \/ CallQueues(c) PROVE Arriving'
  BY <1>6 DEF CallArrives, CallClaims, CallQueues, Queue!Accept, Arriving, jobs
<1>7. CASE Retire \/ SessionTakes \/ SessionLeaves \/ LeaseHold \/ LeaseSet \/ EndTake \/
          EndFree \/ EndRead \/ EndQueues \/ EndRecord \/ Begin \/ Complete \/ Fail \/ StopQueue
  BY <1>7 DEF Retire, SessionTakes, Queue!Take, SessionLeaves, Queue!Leave, LeaseHold, LeaseSet,
     EndTake, EndFree, EndRead, EndQueues, Queue!Accept, EndRecord, Begin, Queue!Start,
     Complete, Queue!Finish, ToldJob, ToldCall, Fail, StopQueue, Queue!Close, JobType, Arriving,
     Arriving, line, glass, jobs, calls, loan
<1>8. CASE UNCHANGED vars
  BY <1>8 DEF vars, jobs, Arriving
<1> QED
  BY <1>1, <1>2, <1>3, <1>4, <1>5, <1>6, <1>7, <1>8 DEF Next, JobTask, Caller, Turns, Lending

(* A job stopped for a call stays stopped.                                  *)
LEMMA FencedStep == JobType /\ TypeOK /\ Fenced /\ [Next]_vars => Fenced'
<1> SUFFICES ASSUME JobType, TypeOK, Fenced, [Next]_vars
             PROVE  Fenced'
  OBVIOUS
<1>1. CASE Spawn
  <2>1. /\ started' = started + 1 /\ started' \in Jobs /\ UNCHANGED fenced
        /\ alive' = [alive EXCEPT ![started'] = TRUE]
    BY <1>1, Constants DEF Spawn, JobType, Jobs, calls
  <2>2. \A j \in 1 .. started : j \in 1 .. started' /\ j \in Jobs /\ j # started'
    BY <2>1, Constants DEF JobType, Jobs
  <2>3. \A j \in 1 .. started : ~alive[j] => ~alive'[j]
    BY <2>1, <2>2 DEF JobType
  <2> QED BY <2>1, <2>2, <2>3 DEF Fenced
<1>2. CASE StopJob
  <2>1. \A j \in 1 .. started : j \in Jobs
    BY Constants DEF JobType, Jobs
  <2> QED BY <1>2, <2>1 DEF StopJob, Fenced, Silenced, calls
<1>3. ASSUME NEW k \in Jobs, Install(k) PROVE Fenced'
  <2>1. \A j \in 1 .. started : j \in Jobs
    BY Constants DEF JobType, Jobs
  <2> QED BY <1>3, <2>1 DEF Install, Fenced, Silenced, calls
<1>4. ASSUME NEW k \in Jobs, Render(k) \/ Save(k) \/ AskLease(k) \/ Push(k) \/ Resume(k)
      PROVE  Fenced'
  BY <1>4 DEF Render, Save, AskLease, Push, Queue!Accept, Resume, Fenced, jobs, calls
<1>5. ASSUME NEW c \in Calls, CallPreempts(c) PROVE Fenced'
  <2>1. \A j \in 1 .. started : j \in Jobs
    BY Constants DEF JobType, Jobs
  <2>2. /\ alive' = Silenced({job}) /\ UNCHANGED started
        /\ fenced' = [fenced EXCEPT ![c] = {j \in 1 .. started : ~alive'[j]}]
    BY <1>5 DEF CallPreempts
  <2>3. \A j \in 1 .. started : ~alive[j] => ~alive'[j]
    BY <2>1, <2>2 DEF Silenced
  <2>4. \A d \in Calls : \A j \in fenced'[d] :
           j \in fenced[d] \/ (j \in 1 .. started /\ ~alive'[j])
    BY <2>2 DEF TypeOK
  <2> QED BY <2>2, <2>3, <2>4 DEF Fenced
<1>6. ASSUME NEW c \in Calls, CallArrives(c) \/ CallClaims(c) \/ CallQueues(c) PROVE Fenced'
  BY <1>6 DEF CallArrives, CallClaims, CallQueues, Queue!Accept, Fenced, jobs
<1>7. CASE Retire \/ SessionTakes \/ SessionLeaves \/ LeaseHold \/ LeaseSet \/ EndTake \/
          EndFree \/ EndRead \/ EndQueues \/ EndRecord \/ Begin \/ Complete \/ Fail \/ StopQueue
  BY <1>7 DEF Retire, SessionTakes, Queue!Take, SessionLeaves, Queue!Leave, LeaseHold, LeaseSet,
     EndTake, EndFree, EndRead, EndQueues, Queue!Accept, EndRecord, Begin, Queue!Start,
     Complete, Queue!Finish, ToldJob, ToldCall, Fail, StopQueue, Queue!Close, JobType, TypeOK,
     Fenced, Fenced, line, glass, jobs, calls, loan
<1>8. CASE UNCHANGED vars
  BY <1>8 DEF vars, jobs, calls, Fenced
<1> QED
  BY <1>1, <1>2, <1>3, <1>4, <1>5, <1>6, <1>7, <1>8 DEF Next, JobTask, Caller, Turns, Lending

(* Nobody draws a frame of a job that was stopped for the image it covers.  *)
LEMMA FreshStep ==
    TypeOK /\ Queued /\ PanelSound /\ Fenced /\ DrawsFresh /\ [Next]_vars =>
    DrawsFresh'
<1> SUFFICES ASSUME TypeOK, Queued, PanelSound, Fenced, DrawsFresh, [Next]_vars
             PROVE  DrawsFresh'
  OBVIOUS
<1>1. ASSUME NEW k \in Jobs, Install(k) \/ Render(k) \/ Save(k) \/ AskLease(k) \/ Push(k) \/
             Resume(k)
      PROVE  DrawsFresh'
  BY <1>1 DEF Install, Aborted, Silenced, Render, Save, AskLease, Push, Queue!Accept, Resume,
     DrawsFresh, glass, line, calls
<1>2. ASSUME NEW c \in Calls, CallPreempts(c) PROVE DrawsFresh'
  <2>1. panel # Image(c)
    BY <1>2 DEF CallPreempts, PanelSound, Past
  <2>2. UNCHANGED <<drawing, running, panel>> /\ \A d \in Calls \ {c} : fenced'[d] = fenced[d]
    BY <1>2 DEF CallPreempts, TypeOK, line, glass
  <2> QED BY <2>1, <2>2 DEF DrawsFresh
<1>3. ASSUME NEW c \in Calls, CallArrives(c) \/ CallClaims(c) \/ CallQueues(c) PROVE DrawsFresh'
  BY <1>3 DEF CallArrives, CallClaims, CallQueues, Queue!Accept, DrawsFresh, glass, line, calls
<1>4. CASE Begin
  <2>1. drawing' /\ running'.from = "job" => alive[running'.picture.job]
    BY <1>4 DEF Begin, Draws
  <2> QED BY <1>4, <2>1 DEF Begin, jobs, calls, DrawsFresh, Fenced
<1>5. CASE Complete \/ Fail
  BY <1>5 DEF Complete, Queue!Finish, ToldJob, ToldCall, Fail, DrawsFresh
<1>6. CASE StopQueue
  BY <1>6 DEF StopQueue, Queue!Close, DrawsFresh, glass
<1>7. CASE Spawn \/ StopJob \/ Retire \/ SessionTakes \/ SessionLeaves \/ LeaseHold \/ LeaseSet
          \/ EndTake \/ EndFree \/ EndRead \/ EndQueues \/ EndRecord
  BY <1>7 DEF Spawn, StopJob, Aborted, Silenced, Retire, SessionTakes, Queue!Take, SessionLeaves,
     Queue!Leave, LeaseHold, LeaseSet, EndTake, EndFree, EndRead, EndQueues, Queue!Accept,
     EndRecord, DrawsFresh, glass, line, calls
<1>8. CASE UNCHANGED vars
  BY <1>8 DEF vars, glass, line, calls, DrawsFresh
<1> QED
  BY <1>1, <1>2, <1>3, <1>4, <1>5, <1>6, <1>7, <1>8 DEF Next, JobTask, Caller, Turns, Lending

(* Claims are made once, each above the last.                               *)
LEMMA ClaimStep == TypeOK /\ Queued /\ PendingSound /\ Claims /\ [Next]_vars => Claims'
<1> SUFFICES ASSUME TypeOK, Queued, PendingSound, Claims, [Next]_vars
             PROVE  Claims'
  OBVIOUS
<1>1. ASSUME NEW k \in Jobs, Install(k) \/ Render(k) \/ Save(k) \/ AskLease(k) \/ Push(k) \/
             Resume(k)
      PROVE  Claims'
  BY <1>1 DEF Install, Aborted, Silenced, Render, Save, AskLease, Push, Queue!Accept, Resume,
     Claims, calls
<1>2. ASSUME NEW c \in Calls, CallArrives(c) \/ CallPreempts(c) PROVE Claims'
  <2>1. /\ UNCHANGED <<gen, claim>> /\ call[c] \in {"new", "free"}
        /\ call'[c] \in {"free", "let", "refused"} /\ \A d \in Calls \ {c} : call'[d] = call[d]
    BY <1>2 DEF CallArrives, CallPreempts, TypeOK
  <2> QED BY <2>1 DEF Claims, Past
<1>3. ASSUME NEW c \in Calls, CallClaims(c) PROVE Claims'
  <2>1. gen \in Nat /\ gen' = gen + 1 /\ claim'[c] = gen + 1 /\ call'[c] = "claimed"
        /\ \A d \in Calls \ {c} : call'[d] = call[d] /\ claim'[d] = claim[d]
    BY <1>3 DEF CallClaims, TypeOK
  <2>2. \A d \in Calls : claim[d] \in Nat /\ claim[d] < gen + 1 /\ claim[d] <= gen + 1
    BY <2>1 DEF TypeOK, Claims
  <2> QED BY <2>1, <2>2 DEF Claims, Past
<1>4. ASSUME NEW c \in Calls, CallQueues(c) PROVE Claims'
  <2>1. UNCHANGED <<gen, claim>> /\ call[c] = "claimed" /\ call'[c] \in {"waiting", "refused"}
        /\ \A d \in Calls \ {c} : call'[d] = call[d]
    BY <1>4 DEF CallQueues, TypeOK
  <2> QED BY <2>1 DEF Claims, Past
<1>5. CASE Begin
  <2>1. UNCHANGED <<gen, claim>>
    BY <1>5 DEF Begin
  <2>2. \A c \in Calls : call'[c] = call[c] \/ (call[c] \in Past /\ call'[c] \in Past)
    <3>1. running' \in Pending /\ Sound(running')
      BY <1>5, Begins DEF Begin, PendingSound
    <3>2. CASE running'.from = "call"
      <4>1. PICK d \in Calls : running'.picture = Image(d) /\ call[d] \in Past
        BY <3>1, <3>2 DEF Sound
      <4>2. running'.picture.by = d
        BY <4>1 DEF Image
      <4>3. \A c \in Calls \ {d} : call'[c] = call[c]
        BY <1>5, <3>2, <4>2 DEF Begin, TypeOK
      <4>4. call'[d] \in Past
        BY <1>5, <3>2, <4>2 DEF Begin, TypeOK, Past
      <4> QED BY <4>1, <4>3, <4>4
    <3>3. CASE running'.from # "call"
      BY <1>5, <3>3 DEF Begin
    <3> QED BY <3>2, <3>3
  <2>3. \A c \in Calls : call'[c] \in {"new", "free", "let", "claimed"} => call'[c] = call[c]
    BY <2>2 DEF Past
  <2> QED BY <2>1, <2>2, <2>3 DEF Claims, Past
<1>6. CASE Complete \/ Fail
  <2>1. UNCHANGED <<gen, claim>>
        /\ \A c \in Calls : call'[c] = call[c] \/ (call[c] = "drawing" /\ call'[c] \in {"done", "lost"})
    BY <1>6 DEF Complete, Fail, ToldCall, TypeOK
  <2> QED BY <2>1 DEF Claims, Past
<1>7. CASE StopQueue
  <2>1. UNCHANGED <<gen, claim>>
        /\ \A c \in Calls : call'[c] = call[c] \/ (call[c] = "waiting" /\ call'[c] = "lost")
    BY <1>7 DEF StopQueue, TypeOK
  <2> QED BY <2>1 DEF Claims, Past
<1>8. CASE Spawn \/ StopJob \/ Retire \/ SessionTakes \/ SessionLeaves \/ LeaseHold \/ LeaseSet
          \/ EndTake \/ EndFree \/ EndRead \/ EndQueues \/ EndRecord
  BY <1>8 DEF Spawn, StopJob, Aborted, Silenced, Retire, SessionTakes, Queue!Take, SessionLeaves,
     Queue!Leave, LeaseHold, LeaseSet, EndTake, EndFree, EndRead, EndQueues, Queue!Accept,
     EndRecord, Claims, calls
<1>9. CASE UNCHANGED vars
  BY <1>9 DEF vars, calls, Claims
<1> QED
  BY <1>1, <1>2, <1>3, <1>4, <1>5, <1>6, <1>7, <1>8, <1>9 DEF Next, JobTask, Caller, Turns,
     Lending

(* A call that draws claimed after the one whose image it covers.           *)
LEMMA NewerStep ==
    TypeOK /\ Queued /\ PendingSound /\ RunningSound /\ PanelSound /\ Claims
    /\ DrawsNewer /\ [Next]_vars => DrawsNewer'
<1> SUFFICES ASSUME TypeOK, Queued, PendingSound, RunningSound, PanelSound, Claims, DrawsNewer,
                [Next]_vars
             PROVE  DrawsNewer'
  OBVIOUS
<1>1. ASSUME NEW k \in Jobs, Install(k) \/ Render(k) \/ Save(k) \/ AskLease(k) \/ Push(k) \/
             Resume(k)
      PROVE  DrawsNewer'
  BY <1>1 DEF Install, Aborted, Silenced, Render, Save, AskLease, Push, Queue!Accept, Resume,
     DrawsNewer, glass, line, calls
<1>2. ASSUME NEW c \in Calls, CallArrives(c) \/ CallPreempts(c) \/ CallQueues(c) PROVE DrawsNewer'
  BY <1>2 DEF CallArrives, CallPreempts, jobs, loan, Aborted, Silenced, CallQueues, Queue!Accept,
     DrawsNewer, glass, line
<1>3. ASSUME NEW c \in Calls, CallClaims(c) PROVE DrawsNewer'
  <2>1. panel # Image(c)
    BY <1>3 DEF CallClaims, PanelSound, Past
  <2>2. drawing /\ running.from = "call" => running.picture.by # c
    <3> SUFFICES ASSUME drawing, running.from = "call" PROVE running.picture.by # c
      OBVIOUS
    <3>1. PICK d \in Calls : running.picture = Image(d) /\ call[d] \in Past
      BY DEF RunningSound, Sound
    <3> QED BY <1>3, <3>1 DEF CallClaims, Image, Past
  <2>3. UNCHANGED <<drawing, running, panel>> /\ \A d : d # c => claim'[d] = claim[d]
    BY <1>3 DEF CallClaims, TypeOK, line, glass
  <2> QED BY <2>1, <2>2, <2>3 DEF DrawsNewer
<1>4. CASE Begin
  <2> SUFFICES ASSUME drawing', running'.from = "call", NEW c \in Calls, panel = Image(c),
                      running'.picture # Image(c)
               PROVE  claim[c] < claim[running'.picture.by]
    BY <1>4 DEF Begin, DrawsNewer
  <2>1. running' \in Pending /\ claim[running'.picture.by] = gen
    BY <1>4, Begins DEF Begin, Draws
  <2>2. PICK d \in Calls : running'.picture = Image(d) /\ call[d] \in Past
    BY <2>1 DEF PendingSound, Sound
  <2>3. d # c /\ running'.picture.by = d
    BY <2>2 DEF Image
  <2>4. call[c] \in Past
    BY DEF PanelSound
  <2>5. claim[c] > 0 /\ claim[c] <= gen /\ claim[c] # claim[d]
    BY <2>3, <2>4 DEF Claims, TypeOK
  <2> QED BY <2>1, <2>3, <2>5 DEF TypeOK
<1>5. CASE Complete \/ Fail
  BY <1>5 DEF Complete, Queue!Finish, ToldJob, ToldCall, Fail, DrawsNewer
<1>6. CASE StopQueue
  BY <1>6 DEF StopQueue, Queue!Close, DrawsNewer, glass
<1>7. CASE Spawn \/ StopJob \/ Retire \/ SessionTakes \/ SessionLeaves \/ LeaseHold \/ LeaseSet
          \/ EndTake \/ EndFree \/ EndRead \/ EndQueues \/ EndRecord
  BY <1>7 DEF Spawn, StopJob, Aborted, Silenced, Retire, SessionTakes, Queue!Take, SessionLeaves,
     Queue!Leave, LeaseHold, LeaseSet, EndTake, EndFree, EndRead, EndQueues, Queue!Accept,
     EndRecord, DrawsNewer, glass, line, calls
<1>8. CASE UNCHANGED vars
  BY <1>8 DEF vars, glass, line, calls, DrawsNewer
<1> QED
  BY <1>1, <1>2, <1>3, <1>4, <1>5, <1>6, <1>7, <1>8 DEF Next, JobTask, Caller, Turns, Lending

(* What is saved is as new as what the lease made its job keep.             *)
LEMMA SavedStep == TypeOK /\ SavedNewest /\ [Next]_vars => SavedNewest'
<1> SUFFICES ASSUME TypeOK, SavedNewest, [Next]_vars
             PROVE  SavedNewest'
  OBVIOUS
<1>1. CASE Spawn
  <2>1. UNCHANGED <<frame, heldBack, saved>>
        /\ \A j \in Jobs : task'[j] = "saved" => task[j] = "saved"
    BY <1>1 DEF Spawn, TypeOK
  <2> QED BY <2>1 DEF SavedNewest
<1>2. CASE StopJob
  <2>1. UNCHANGED <<frame, heldBack>> /\ (UNCHANGED saved \/ saved' = Blank)
        /\ \A j \in Jobs : task'[j] = "saved" => task[j] = "saved"
    BY <1>2 DEF StopJob, Aborted
  <2>2. \A j \in Jobs : j # 0
    BY DEF Jobs
  <2> QED BY <2>1, <2>2 DEF SavedNewest, Blank, Frame
<1>3. ASSUME NEW k \in Jobs, Install(k) PROVE SavedNewest'
  <2>1. UNCHANGED <<frame, heldBack>> /\ (UNCHANGED saved \/ saved' = Blank)
        /\ \A j \in Jobs : task'[j] = "saved" => task[j] = "saved"
    BY <1>3 DEF Install, Aborted
  <2>2. \A j \in Jobs : j # 0
    BY DEF Jobs
  <2> QED BY <2>1, <2>2 DEF SavedNewest, Blank, Frame
<1>4. ASSUME NEW k \in Jobs, Render(k) PROVE SavedNewest'
  <2>1. UNCHANGED <<heldBack, saved>> /\ frame'[k] = frame[k] + 1 /\ task'[k] # "saved"
        /\ \A j \in Jobs \ {k} : frame'[j] = frame[j] /\ task'[j] = task[j]
    BY <1>4 DEF Render, TypeOK
  <2>2. frame[k] \in Nat /\ heldBack[k] \in Nat
    BY Constants DEF TypeOK
  <2> QED BY <2>1, <2>2 DEF SavedNewest
<1>5. ASSUME NEW k \in Jobs, Save(k) PROVE SavedNewest'
  <2>1. UNCHANGED <<frame, heldBack>> /\ saved'.job = k /\ saved'.n = frame[k]
        /\ \A j \in Jobs \ {k} : saved'.job # j
    BY <1>5 DEF Save, Frame
  <2>2. frame[k] \in Nat /\ heldBack[k] \in Nat
    BY Constants DEF TypeOK
  <2> QED BY <2>1, <2>2 DEF SavedNewest
<1>6. ASSUME NEW k \in Jobs, AskLease(k) PROVE SavedNewest'
  <2>1. task[k] = "saved" /\ task'[k] # "saved" /\ UNCHANGED <<frame, saved>>
        /\ heldBack'[k] \in {heldBack[k], frame[k]}
        /\ \A j \in Jobs \ {k} : heldBack'[j] = heldBack[j] /\ task'[j] = task[j]
    BY <1>6 DEF AskLease, TypeOK
  <2>2. frame[k] \in Nat /\ heldBack[k] \in Nat
    BY Constants DEF TypeOK
  <2> QED BY <2>1, <2>2 DEF SavedNewest
<1>7. ASSUME NEW k \in Jobs, Push(k) \/ Resume(k) PROVE SavedNewest'
  <2>1. UNCHANGED <<frame, heldBack, saved>>
        /\ \A j \in Jobs : task'[j] = "saved" => task[j] = "saved"
    BY <1>7 DEF Push, Resume, TypeOK
  <2> QED BY <2>1 DEF SavedNewest
<1>8. ASSUME NEW c \in Calls, CallPreempts(c) PROVE SavedNewest'
  <2>1. UNCHANGED <<frame, heldBack>> /\ (UNCHANGED saved \/ saved' = Blank)
        /\ \A j \in Jobs : task'[j] = "saved" => task[j] = "saved"
    BY <1>8 DEF CallPreempts, Aborted
  <2>2. \A j \in Jobs : j # 0
    BY DEF Jobs
  <2> QED BY <2>1, <2>2 DEF SavedNewest, Blank, Frame
<1>9. ASSUME NEW c \in Calls, CallArrives(c) \/ CallClaims(c) \/ CallQueues(c) PROVE SavedNewest'
  BY <1>9 DEF CallArrives, CallClaims, CallQueues, Queue!Accept, SavedNewest, jobs
<1>10. CASE Complete \/ Fail
  <2>1. UNCHANGED <<frame, heldBack, saved>>
        /\ \A j \in Jobs : task'[j] = "saved" => task[j] = "saved"
    BY <1>10 DEF Complete, Fail, ToldJob
  <2> QED BY <2>1 DEF SavedNewest
<1>11. CASE StopQueue
  <2>1. UNCHANGED <<frame, heldBack, saved>>
        /\ \A j \in Jobs : task'[j] = "saved" => task[j] = "saved"
    BY <1>11 DEF StopQueue
  <2> QED BY <2>1 DEF SavedNewest
<1>12. CASE Retire \/ SessionTakes \/ SessionLeaves \/ LeaseHold \/ LeaseSet \/ EndTake \/
          EndFree \/ EndRead \/ EndQueues \/ EndRecord \/ Begin
  BY <1>12 DEF Retire, SessionTakes, Queue!Take, SessionLeaves, Queue!Leave, LeaseHold, LeaseSet,
     EndTake, EndFree, EndRead, EndQueues, Queue!Accept, EndRecord, Begin, Queue!Start, TypeOK,
     SavedNewest, SavedNewest, line, glass, jobs, calls, loan
<1>13. CASE UNCHANGED vars
  BY <1>13 DEF vars, jobs, SavedNewest
<1> QED
  BY <1>1, <1>2, <1>3, <1>4, <1>5, <1>6, <1>7, <1>8, <1>9, <1>10, <1>11, <1>12, <1>13 DEF Next,
     JobTask, Caller, Turns, Lending

(* An end that is queued or has the turn is waited for.                     *)
LEMMA EndStep == TypeOK /\ Queued /\ EndQueued /\ [Next]_vars => EndQueued'
<1> SUFFICES ASSUME TypeOK, Queued, EndQueued, [Next]_vars
             PROVE  EndQueued'
  OBVIOUS
<1>1. ASSUME NEW k \in Jobs, Push(k) PROVE EndQueued'
  <2>1. Item("job", Frame(k, frame[k])) \in Items /\ NoToken \in Owned
    BY PictureTypes, Constants DEF TypeOK, Jobs, Owned
  <2>2. Item("job", Frame(k, frame[k])).from = "job"
    BY DEF Item
  <2>3. UNCHANGED line \/ Queue!Accept(Item("job", Frame(k, frame[k])), NoToken)
    BY <1>1 DEF Push
  <2>4. Pending' \subseteq Pending \cup {Item("job", Frame(k, frame[k]))} /\ UNCHANGED running
    BY <2>1, <2>3, Joins DEF Pending, line
  <2> QED BY <1>1, <2>2, <2>4 DEF Push, loan, EndQueued
<1>2. ASSUME NEW k \in Jobs, Install(k) \/ Render(k) \/ Save(k) \/ AskLease(k) \/ Resume(k)
      PROVE  EndQueued'
  <2>1. UNCHANGED <<queue, running, ender>>
    BY <1>2 DEF Install, Render, Save, AskLease, Resume, line, loan
  <2> QED BY <2>1 DEF EndQueued, Pending
<1>3. ASSUME NEW c \in Calls, CallQueues(c) PROVE EndQueued'
  <2>1. Item("call", Image(c)) \in Items /\ TokenOf[c] \in Owned
    BY PictureTypes, Constants
  <2>2. Item("call", Image(c)).from = "call"
    BY DEF Item
  <2>3. UNCHANGED line \/ Queue!Accept(Item("call", Image(c)), TokenOf[c])
    BY <1>3 DEF CallQueues
  <2>4. Pending' \subseteq Pending \cup {Item("call", Image(c))} /\ UNCHANGED running
    BY <2>1, <2>3, Joins DEF Pending, line
  <2> QED BY <1>3, <2>2, <2>4 DEF CallQueues, loan, EndQueued
<1>4. ASSUME NEW c \in Calls, CallArrives(c) \/ CallPreempts(c) \/ CallClaims(c) PROVE EndQueued'
  BY <1>4 DEF CallArrives, CallPreempts, jobs, glass, Aborted, Silenced, CallClaims, EndQueued,
     Pending, line, loan
<1>5. CASE EndQueues
  <2>1. Item("end", repaint) \in Items /\ NoToken \in Owned
    BY PictureTypes DEF TypeOK, Owned
  <2>2. UNCHANGED line \/ Queue!Accept(Item("end", repaint), NoToken)
    BY <1>5 DEF EndQueues
  <2>3. UNCHANGED running
    BY <2>1, <2>2, Joins DEF line
  <2>4. ender' \in Late
    BY <1>5 DEF EndQueues, Late
  <2> QED BY <2>3, <2>4 DEF EndQueued
<1>6. CASE Begin
  BY <1>6, Begins DEF Begin, loan, EndQueued
<1>7. CASE Complete \/ Fail
  <2>1. UNCHANGED queue /\ running' = Nothing /\ (ender' = ender \/ ender' \in Late)
    BY <1>7 DEF Complete, Fail, Queue!Finish, Late
  <2> QED BY <2>1 DEF EndQueued, Pending
<1>8. CASE StopQueue
  <2>1. Pending' = {} /\ UNCHANGED running /\ (ender' = ender \/ ender' \in Late)
    BY <1>8, Closes DEF StopQueue, Late
  <2> QED BY <2>1 DEF EndQueued
<1>9. CASE Spawn \/ StopJob \/ Retire \/ SessionTakes \/ SessionLeaves \/ LeaseHold \/ LeaseSet
          \/ EndTake \/ EndFree \/ EndRead \/ EndRecord
  <2>1. UNCHANGED <<queue, running>> /\ (ender \in Late => ender' \in Late)
    BY <1>9 DEF Spawn, StopJob, Retire, SessionTakes, SessionLeaves, LeaseHold, LeaseSet, EndTake,
       EndFree, EndRead, EndRecord, Queue!Take, Queue!Leave, line, loan, Late
  <2> QED BY <2>1 DEF EndQueued, Pending
<1>10. CASE UNCHANGED vars
  BY <1>10 DEF vars, line, loan, EndQueued, Pending
<1> QED
  BY <1>1, <1>2, <1>3, <1>4, <1>5, <1>6, <1>7, <1>8, <1>9, <1>10 DEF Next, JobTask, Caller, Turns,
     Lending

(* The lease is in its slot only while somebody watches it.                 *)
LEMMA SlotStep == EndQueued /\ LeaseInSlot /\ [Next]_vars => LeaseInSlot'
<1> SUFFICES ASSUME EndQueued, LeaseInSlot, [Next]_vars
             PROVE  LeaseInSlot'
  OBVIOUS
<1>1. ASSUME NEW k \in Jobs, Install(k) \/ Render(k) \/ Save(k) \/ AskLease(k) \/ Push(k) \/
             Resume(k)
      PROVE  LeaseInSlot'
  BY <1>1 DEF Install, Aborted, Silenced, Render, Save, AskLease, Push, Queue!Accept, Resume,
     EndQueued, LeaseInSlot, LeaseInSlot, line, glass, jobs, calls, loan
<1>2. ASSUME NEW c \in Calls, CallArrives(c) \/ CallPreempts(c) \/ CallClaims(c) \/ CallQueues(c)
      PROVE  LeaseInSlot'
  BY <1>2 DEF CallArrives, CallPreempts, Aborted, Silenced, CallClaims, CallQueues, Queue!Accept,
     EndQueued,
     LeaseInSlot, LeaseInSlot, line, glass, jobs, calls, loan
<1>3. CASE Complete \/ Fail \/ StopQueue
  <2>1. UNCHANGED lease /\ (ender = "watching" => ender' = "watching")
    BY <1>3 DEF Complete, Fail, StopQueue, Queue!Finish, EndQueued, Late
  <2> QED BY <2>1 DEF LeaseInSlot
<1>4. CASE Spawn \/ StopJob \/ Retire \/ SessionTakes \/ SessionLeaves \/ LeaseHold \/ LeaseSet
          \/ EndTake \/ EndFree \/ EndRead \/ EndQueues \/ EndRecord \/ Begin
  BY <1>4 DEF Spawn, StopJob, Aborted, Silenced, Retire, SessionTakes, Queue!Take, SessionLeaves,
     Queue!Leave, LeaseHold, LeaseSet, EndTake, EndFree, EndRead, EndQueues, Queue!Accept,
     EndRecord, Begin, Queue!Start, LeaseInSlot, loan
<1>5. CASE UNCHANGED vars
  BY <1>5 DEF vars, loan, LeaseInSlot
<1> QED
  BY <1>1, <1>2, <1>3, <1>4, <1>5 DEF Next, JobTask, Caller, Turns, Lending

(* The repaint stays as new, and is so when it is looked up.                *)
LEMMA RepaintStep ==
    TypeOK /\ KeptSound /\ SavedNewest /\ LeaseInSlot /\ RepaintIsNewest /\
    [Next]_vars => RepaintIsNewest'
<1> SUFFICES ASSUME TypeOK, KeptSound, SavedNewest, LeaseInSlot, RepaintIsNewest, [Next]_vars
             PROVE  RepaintIsNewest'
  OBVIOUS
<1>1. ASSUME NEW k \in Jobs, AskLease(k) PROVE RepaintIsNewest'
  <2>1. ender \in {"read", "waiting"} => UNCHANGED heldBack
    BY <1>1 DEF AskLease, LeaseInSlot
  <2> QED BY <1>1, <2>1 DEF AskLease, loan, RepaintIsNewest
<1>2. ASSUME NEW k \in Jobs, Install(k) \/ Render(k) \/ Save(k) \/ Push(k) \/ Resume(k)
      PROVE  RepaintIsNewest'
  BY <1>2 DEF Install, Aborted, Silenced, Render, Save, Push, Queue!Accept, Resume, jobs, loan,
     RepaintIsNewest
<1>3. ASSUME NEW c \in Calls, CallArrives(c) \/ CallPreempts(c) \/ CallClaims(c) \/ CallQueues(c)
      PROVE  RepaintIsNewest'
  BY <1>3 DEF CallArrives, CallPreempts, line, glass, Aborted, Silenced, CallClaims, CallQueues,
     Queue!Accept, jobs, loan,
     RepaintIsNewest
<1>4. CASE EndRead
  <2>1. UNCHANGED heldBack /\ repaint' \in {saved, found}
    BY <1>4 DEF EndRead, jobs
  <2>2. repaint'.job # 0 => repaint' = saved /\ saved.job \in Jobs
    BY <2>1, Constants DEF KeptSound, TypeOK, Pictures, Jobs
  <2> QED BY <2>1, <2>2 DEF RepaintIsNewest, SavedNewest
<1>5. CASE Complete \/ Fail \/ StopQueue
  BY <1>5 DEF Complete, Queue!Finish, ToldJob, ToldCall, Fail, StopQueue, Queue!Close,
     RepaintIsNewest
<1>6. CASE Spawn \/ StopJob \/ Retire \/ SessionTakes \/ SessionLeaves \/ LeaseHold \/ LeaseSet
          \/ EndTake \/ EndFree \/ EndQueues \/ EndRecord \/ Begin
  BY <1>6 DEF Spawn, StopJob, Aborted, Silenced, Retire, SessionTakes, Queue!Take, SessionLeaves,
     Queue!Leave, LeaseHold, LeaseSet, EndTake, EndFree, EndQueues, Queue!Accept, EndRecord,
     Begin, Queue!Start, jobs, loan, RepaintIsNewest
<1>7. CASE UNCHANGED vars
  BY <1>7 DEF vars, jobs, loan, RepaintIsNewest
<1> QED
  BY <1>1, <1>2, <1>3, <1>4, <1>5, <1>6, <1>7 DEF Next, JobTask, Caller, Turns, Lending

-----------------------------------------------------------------------------
LEMMA InitIInv == Init => IInv
<1> SUFFICES ASSUME Init PROVE IInv
  OBVIOUS
<1> USE Constants DEF Init, Queue!Init
<1>1. Blank \in Pictures /\ Blank.by = Nothing /\ Blank.job = 0
  BY PictureTypes DEF Blank, Frame
<1>2. Queued /\ Pending = {} /\ DOMAIN queue = {}
  BY EmptySeq DEF Queued, Pending
<1>3. TypeOK
  <2>1. LineType /\ FlagType /\ GlassType
    BY <1>1 DEF LineType, Owned, FlagType, GlassType
  <2>2. JobType /\ TaskType
    BY <1>1 DEF JobType, TaskType, Jobs
  <2>3. CallType /\ LoanType
    BY <1>1 DEF CallType, LoanType
  <2> QED BY <1>2, <2>1, <2>2, <2>3
          DEF TypeOK, LineType, FlagType, GlassType, JobType, TaskType, CallType, LoanType, Owned
<1>4. PendingSound /\ RunningSound /\ KeptSound /\ Arriving /\ Fenced /\ DrawsFresh /\ DrawsNewer
  BY <1>1, <1>2 DEF PendingSound, RunningSound, KeptSound, Arriving, Fenced, DrawsFresh, DrawsNewer
<1>5. PanelSound
  BY DEF PanelSound, Blank, Frame, Image
<1>6. Claims /\ LeaseInSlot /\ RepaintIsNewest /\ EndQueued
  BY <1>2 DEF Claims, LeaseInSlot, RepaintIsNewest, EndQueued, Past
<1>7. SavedNewest
  BY <1>1 DEF SavedNewest, Jobs
<1> QED BY <1>2, <1>3, <1>4, <1>5, <1>6, <1>7 DEF IInv

LEMMA TypeStep == TypeOK /\ Queued /\ Arriving /\ [Next]_vars => TypeOK'
<1> SUFFICES ASSUME TypeOK, Queued, Arriving, [Next]_vars PROVE TypeOK'
  OBVIOUS
<1>1. FlagType /\ JobType
  BY DEF TypeOK, FlagType, JobType
<1>2. LineType' /\ Queued' /\ FlagType' /\ GlassType'
  BY <1>1, QueueStep, FlagStep, GlassStep
<1>3. JobType' /\ TaskType' /\ CallType' /\ LoanType'
  BY <1>1, JobStep, TaskStep, CallStep, LoanStep
<1>4. \A i \in DOMAIN queue' : queue'[i].job \in Items
  <2>1. queue' \in Seq([job : Items, token : Owned])
    BY <1>2 DEF Queued
  <2>2. DOMAIN queue' = 1 .. Len(queue')
    BY <2>1, LenProperties
  <2>3. \A i \in 1 .. Len(queue') : queue'[i] \in [job : Items, token : Owned]
    BY <2>1, ElementOfSeq
  <2> QED BY <2>2, <2>3
<1> QED BY <1>2, <1>3, <1>4
        DEF TypeOK, LineType, FlagType, GlassType, JobType, TaskType, CallType, LoanType, Owned

LEMMA Invariance == IInv /\ [Next]_vars => IInv'
<1> SUFFICES ASSUME IInv, [Next]_vars PROVE IInv'
  OBVIOUS
<1>1. /\ TypeOK /\ Queued /\ PendingSound /\ RunningSound /\ PanelSound /\ KeptSound
      /\ Arriving /\ Fenced /\ DrawsFresh /\ Claims /\ DrawsNewer /\ SavedNewest /\ EndQueued
      /\ LeaseInSlot /\ RepaintIsNewest
  BY DEF IInv
<1>2. JobType
  BY <1>1 DEF TypeOK, JobType
<1>3. TypeOK' /\ Queued'
  BY <1>1, TypeStep, QueueStep
<1>4. PendingSound' /\ RunningSound' /\ PanelSound' /\ KeptSound'
  BY <1>1, PendingStep, RunningStep, PanelStep, KeptStep
<1>5. Arriving' /\ Fenced' /\ DrawsFresh' /\ Claims' /\ DrawsNewer'
  BY <1>1, <1>2, ArrivingStep, FencedStep, FreshStep, ClaimStep, NewerStep
<1>6. SavedNewest' /\ EndQueued' /\ LeaseInSlot' /\ RepaintIsNewest'
  BY <1>1, SavedStep, EndStep, SlotStep, RepaintStep
<1> QED BY <1>3, <1>4, <1>5, <1>6 DEF IInv

(* Only the end of a turn changes what the panel shows, to what had it.     *)
LEMMA PanelChanges ==
    Queued /\ [Next]_vars =>
        panel' = panel \/ (drawing /\ running # Nothing /\ panel' = running.picture)
<1> SUFFICES ASSUME Queued, [Next]_vars
             PROVE  panel' = panel \/ (drawing /\ running # Nothing /\ panel' = running.picture)
  OBVIOUS
<1>1. CASE Complete \/ Fail
  BY <1>1 DEF Complete, Fail, Queue!Finish
<1>2. ASSUME NEW k \in Jobs, Install(k) \/ JobTask(k) PROVE panel' = panel
  BY <1>2 DEF Install, JobTask, Render, Save, AskLease, Push, Resume, glass
<1>3. ASSUME NEW c \in Calls, Caller(c) PROVE panel' = panel
  BY <1>3 DEF Caller, CallArrives, CallPreempts, CallClaims, CallQueues, glass
<1>4. CASE Spawn \/ StopJob \/ Begin \/ StopQueue \/ Retire \/ SessionTakes \/ SessionLeaves \/ Lending
  BY <1>4 DEF Spawn, StopJob, Begin, StopQueue, Retire, SessionTakes, SessionLeaves, Lending,
     LeaseHold, LeaseSet, EndTake, EndFree, EndRead, EndQueues, EndRecord, glass
<1>5. CASE UNCHANGED vars
  BY <1>5 DEF vars, glass
<1> QED BY <1>1, <1>2, <1>3, <1>4, <1>5 DEF Next, Turns

-----------------------------------------------------------------------------
(* Every variable has its type: what is queued, drawn, shown, saved and     *)
(* repainted is a picture, and the installed job is alive, whatever tasks   *)
(* are dropped where (live_jobs.rs, device.rs).                             *)
THEOREM TypeCorrect == Spec => []TypeOK
<1>1. IInv => TypeOK
  BY DEF IInv
<1> QED BY InitIInv, Invariance, <1>1, PTL DEF Spec

(* The repaint at the end of a lease is not older than any frame the lease  *)
(* made that job keep (live_jobs/frame.rs, lease.rs: end).                  *)
THEOREM RepaintNewest == Spec => []RepaintIsNewest
<1>1. IInv => RepaintIsNewest
  BY DEF IInv
<1> QED BY InitIInv, Invariance, <1>1, PTL DEF Spec

(* No job that was stopped by the time a call was let on draws over its     *)
(* image with a frame it pushed (live_jobs/frame.rs, daemon.rs).            *)
THEOREM ImageStays == Spec => UserImageStays
<1> DEFINE Stays == \A c \in Calls :
                      panel = Image(c) /\ panel'.job \in fenced[c] => running.from = "end"
<1>1. IInv /\ [Next]_vars => Stays
  <2> SUFFICES ASSUME IInv, [Next]_vars, NEW c \in Calls, panel = Image(c),
                      panel'.job \in fenced[c]
               PROVE  running.from = "end"
    OBVIOUS
  <2>1. panel'.job # 0
    BY Constants DEF IInv, Fenced, TypeOK, Jobs
  <2>2. drawing /\ running # Nothing /\ panel' = running.picture
    BY <2>1, PanelChanges DEF IInv, Image
  <2>3. running \in Items /\ Sound(running)
    BY <2>2 DEF IInv, TypeOK, RunningSound
  <2>4. running.from # "job"
    BY <2>2 DEF IInv, DrawsFresh
  <2>5. running.from # "call"
    <3>1. \A d : Image(d).job = 0
      BY DEF Image
    <3> QED BY <2>1, <2>2, <2>3, <3>1 DEF Sound
  <2> QED BY <2>3, <2>4, <2>5 DEF Items
<1>2. Spec => []IInv
  BY InitIInv, Invariance, PTL DEF Spec
<1>3. Spec => [][Stays]_vars
  BY <1>1, <1>2, PTL DEF Spec
<1> QED BY <1>3 DEF UserImageStays

(* Of two pushed images that were both drawn the later claim stays          *)
(* (daemon.rs: claim_frame, device/screen.rs).                              *)
THEOREM LaterClaimStays == Spec => NewerImageStays
<1> DEFINE Later == \A c, d \in Calls :
                      panel = Image(c) /\ panel' = Image(d) /\ c # d => claim[c] < claim[d]
<1>1. IInv /\ [Next]_vars => Later
  <2> SUFFICES ASSUME IInv, [Next]_vars, NEW c \in Calls, NEW d \in Calls, panel = Image(c),
                      panel' = Image(d), c # d
               PROVE  claim[c] < claim[d]
    OBVIOUS
  <2>1. Image(c) # Image(d) /\ Image(d).by = d
    BY DEF Image
  <2>2. drawing /\ running # Nothing /\ running.picture = Image(d)
    BY <2>1, PanelChanges DEF IInv
  <2>3. running.from = "call"
    BY <2>1, <2>2 DEF IInv, RunningSound, Sound
  <2> QED BY <2>1, <2>2, <2>3 DEF IInv, DrawsNewer
<1>2. Spec => []IInv
  BY InitIInv, Invariance, PTL DEF Spec
<1>3. Spec => [][Later]_vars
  BY <1>1, <1>2, PTL DEF Spec
<1> QED BY <1>3 DEF NewerImageStays
=============================================================================
