------------------------------ MODULE LiveScreen ------------------------------
(***************************************************************************)
(* What one panel shows (live_jobs/frame.rs, device.rs, lease.rs,          *)
(* daemon.rs, device/screen.rs).                                           *)
(*                                                                         *)
(* Three kinds of writer share a panel: its live job, which pushes frames  *)
(* from a task of its own; device_call requests that draw an image; and    *)
(* the end of a screen lease, which repaints what the lease covered. All   *)
(* of them draw through the link's command queue, of which this module     *)
(* uses the promise SerialQueue. What they read before they queue, and     *)
(* what they write after their turn, they do outside the queue.            *)
(*                                                                         *)
(* The module follows one connection. Reconnects are in ScreenLease; the   *)
(* queue's timeouts are in CommandQueue, and an item given up there shows  *)
(* here as a turn that fails.                                              *)
(***************************************************************************)
EXTENDS Naturals, Sequences

CONSTANTS Calls,      \* device_call requests, each drawing one image
          TokenOf,    \* the token each of them carries
          Holder,     \* the token of the screen lease
          Session,    \* the token of an exclusive session
          NoToken,    \* no token, and the owner of a free slot
          Nothing,    \* no item, no lease, no call
          Channel,    \* the firmware channel a lease found on the panel
          MaxJobs,    \* live jobs started in one behaviour
          MaxFrames   \* frames each of them renders

ASSUME LiveAssumption ==
    /\ MaxJobs \in Nat /\ MaxFrames \in Nat
    /\ TokenOf \in [Calls -> {Holder, Session, NoToken}]
    /\ Holder \notin {Session, NoToken} /\ Session # NoToken
    /\ Nothing \notin Calls \cup {Channel} /\ Channel \notin Calls

Jobs == 1 .. MaxJobs

(* What a panel may show: frame n of a job, a call's image, its channel.    *)
Frame(j, n) == [job |-> j, n |-> n, by |-> Nothing]
Image(c)    == [job |-> 0, n |-> 0, by |-> c]
Blank       == Frame(0, 0)
Pictures    == [job : 0 .. MaxJobs, n : 0 .. MaxFrames, by : Calls \cup {Nothing, Channel}]

(* What is queued: by whom, and what it draws.                              *)
Item(from, picture) == [from |-> from, picture |-> picture]
Items == [from : {"job", "call", "end"}, picture : Pictures]

VARIABLES
    queue, running, owner, leased, closed,  \* the link's queue: SerialQueue
    retired,    \* Link.retired
    drawing,    \* whether the item that is running draws
    panel,      \* what the panel shows
    screen,     \* Device.screen: what the daemon says it shows
    started,    \* live jobs spawned so far
    arriving,   \* those of them whose start has not installed them yet
    job,        \* Device.live: the installed live job, 0 for none
    alive,      \* per job: its alive flag
    task,       \* per job: where its task is in push_live_frame
    frame,      \* per job: the number of the frame it rendered last
    saved,      \* Device.job_frame
    heldBack,   \* per job: the newest frame the lease made it keep (history)
    gen,        \* Device.frame_gen
    call,       \* per call: how far it is
    claim,      \* per call: the frame number it claimed
    fenced,     \* per call: the jobs that were stopped when it was let on (history)
    lease,      \* Device.lease: Holder or Nothing
    found,      \* the channel read at acquire, Blank if the panel did not say
    ender,      \* how far the end of the lease is
    repaint     \* what it is about to draw

Queue == INSTANCE SerialQueue
           WITH Jobs <- Items, Tokens <- {Holder, Session}, NoJob <- Nothing

line  == <<queue, running, owner, leased, closed>>
glass == <<drawing, panel, screen>>
jobs  == <<started, arriving, job, alive, task, frame, saved, heldBack>>
calls == <<gen, call, claim, fenced>>
loan  == <<lease, found, ender, repaint>>
vars  == <<line, retired, glass, jobs, calls, loan>>

TypeOK ==
    /\ running \in Items \cup {Nothing} /\ owner \in {Holder, Session, NoToken}
    /\ \A i \in DOMAIN queue : queue[i].job \in Items
    /\ {leased, closed, retired, drawing} \subseteq BOOLEAN
    /\ {panel, screen, saved, found, repaint} \subseteq Pictures
    /\ started \in 0 .. MaxJobs /\ job \in 0 .. started /\ arriving \subseteq 1 .. started
    /\ alive \in [Jobs -> BOOLEAN] /\ (job # 0 => alive[job])
    /\ task \in [Jobs -> {"off", "asleep", "checked", "saved", "clear", "waiting",
                          "landed", "failed"}]
    /\ frame \in [Jobs -> 0 .. MaxFrames] /\ heldBack \in [Jobs -> 0 .. MaxFrames]
    /\ gen \in Nat /\ claim \in [Calls -> Nat]
    /\ call \in [Calls -> {"new", "free", "let", "claimed", "waiting", "drawing", "skipped", "done",
                           "refused", "lost"}]
    /\ fenced \in [Calls -> SUBSET Jobs]
    /\ lease \in {Holder, Nothing}
    /\ ender \in {"none", "held", "watching", "taken", "freed", "read", "waiting",
                  "painted", "done"}

Init ==
    /\ Queue!Init /\ retired = FALSE
    /\ drawing = FALSE /\ panel = Blank /\ screen = Blank
    /\ started = 0 /\ arriving = {} /\ job = 0 /\ saved = Blank
    /\ alive = [j \in Jobs |-> FALSE] /\ task = [j \in Jobs |-> "off"]
    /\ frame = [j \in Jobs |-> 0] /\ heldBack = [j \in Jobs |-> 0]
    /\ gen = 0 /\ claim = [c \in Calls |-> 0] /\ call = [c \in Calls |-> "new"]
    /\ fenced = [c \in Calls |-> {}]
    /\ lease = Nothing /\ found = Blank /\ ender = "none" /\ repaint = Blank

-----------------------------------------------------------------------------
(* The live job.                                                            *)

(* LiveJob::stop for the jobs in S: the flag first, then the abort, which   *)
(* drops a task where it waits and lets one that runs go on to its next     *)
(* await.                                                                   *)
Aborted(S) == [j \in Jobs |->
    IF j \in S /\ task[j] \in {"asleep", "waiting", "landed", "failed"} THEN "off" ELSE task[j]]
Silenced(S) == [j \in Jobs |-> alive[j] /\ j \notin S]

(* coordinator.start spawns the task ...                                    *)
Spawn ==
    /\ started < MaxJobs
    /\ started' = started + 1 /\ arriving' = arriving \cup {started'}
    /\ alive' = [alive EXCEPT ![started'] = TRUE]
    /\ task' = [task EXCEPT ![started'] = "asleep"]
    /\ UNCHANGED <<line, retired, glass, job, frame, saved, heldBack, calls, loan>>

(* ... and installs it, stopping the one it replaces.                       *)
Install(j) ==
    /\ j \in arriving
    /\ arriving' = arriving \ {j} /\ job' = j
    /\ alive' = Silenced({job}) /\ task' = Aborted({job})
    /\ saved' = Blank
    /\ UNCHANGED <<line, retired, glass, started, frame, heldBack, calls, loan>>

(* Mutant: the stopped job stays installed.                                 *)
StopJobInPlace ==
    /\ job # 0
    /\ alive' = Silenced({job}) /\ task' = Aborted({job}) /\ saved' = Blank
    /\ UNCHANGED <<line, retired, glass, started, arriving, job, frame, heldBack, calls, loan>>

(* live_job_stop: the installed job is taken out and stopped.               *)
StopJob ==
    /\ job # 0
    /\ job' = 0 /\ alive' = Silenced({job}) /\ task' = Aborted({job}) /\ saved' = Blank
    /\ UNCHANGED <<line, retired, glass, started, arriving, frame, heldBack, calls, loan>>

(* push_live_frame, first: a linked panel, a live job.                      *)
Render(j) ==
    /\ task[j] = "asleep" /\ frame[j] < MaxFrames /\ ~retired
    /\ frame' = [frame EXCEPT ![j] = @ + 1]
    /\ task' = [task EXCEPT ![j] = IF alive[j] THEN "checked" ELSE "off"]
    /\ UNCHANGED <<line, retired, glass, started, arriving, job, alive, saved, heldBack, calls, loan>>

(* Mutant: a frame is kept only if it may be sent.                          *)
SaveUnleased(j) ==
    /\ task[j] = "checked"
    /\ saved' = IF lease = Nothing THEN Frame(j, frame[j]) ELSE saved
    /\ task' = [task EXCEPT ![j] = "saved"]
    /\ UNCHANGED <<line, retired, glass, started, arriving, job, alive, frame, heldBack, calls, loan>>

(* The frame is kept, whether it lands or not.                              *)
Save(j) ==
    /\ task[j] = "checked"
    /\ saved' = Frame(j, frame[j])
    /\ task' = [task EXCEPT ![j] = "saved"]
    /\ UNCHANGED <<line, retired, glass, started, arriving, job, alive, frame, heldBack, calls, loan>>

(* While the screen is leased it goes no further.                           *)
AskLease(j) ==
    /\ task[j] = "saved"
    /\ IF lease = Nothing
         THEN task' = [task EXCEPT ![j] = "clear"] /\ UNCHANGED heldBack
         ELSE /\ heldBack' = [heldBack EXCEPT ![j] = frame[j]]
              /\ task' = [task EXCEPT ![j] = IF alive[j] THEN "asleep" ELSE "off"]
    /\ UNCHANGED <<line, retired, glass, started, arriving, job, alive, frame, saved, calls, loan>>

(* Link::run: queued without a token, unless the link is retired. A task    *)
(* aborted meanwhile is dropped once it waits.                              *)
Push(j) ==
    /\ task[j] = "clear"
    /\ IF retired \/ closed
         THEN /\ task' = [task EXCEPT ![j] = IF alive[j] THEN "asleep" ELSE "off"]
              /\ UNCHANGED line
         ELSE /\ Queue!Accept(Item("job", Frame(j, frame[j])), NoToken)
              /\ task' = [task EXCEPT ![j] = IF alive[j] THEN "waiting" ELSE "off"]
    /\ UNCHANGED <<retired, glass, started, arriving, job, alive, frame, saved, heldBack, calls, loan>>

(* The task resumes: a frame that landed is recorded, a failed one takes    *)
(* the link down (link_failed).                                             *)
Resume(j) ==
    /\ task[j] \in {"landed", "failed"}
    /\ task' = [task EXCEPT ![j] = "asleep"]
    /\ screen' = IF task[j] = "landed" THEN Frame(j, frame[j]) ELSE screen
    /\ retired' = (retired \/ task[j] = "failed")
    /\ UNCHANGED <<line, drawing, panel, started, arriving, job, alive, frame, saved, heldBack,
                   calls, loan>>

-----------------------------------------------------------------------------
(* device_call for a method that draws an image.                            *)

(* The lease is read: its holder's calls leave the job alone, anybody else's *)
(* are refused ...                                                          *)
CallArrives(c) ==
    /\ call[c] = "new" /\ ~retired
    /\ call' = [call EXCEPT ![c] = CASE lease # Holder       -> "free"
                                     [] TokenOf[c] = Holder  -> "let"
                                     [] OTHER                -> "refused"]
    /\ UNCHANGED <<line, retired, glass, jobs, gen, claim, fenced, loan>>

(* ... and without one the panel's live job is stopped, by which time a     *)
(* lease may have been granted.                                             *)
CallPreempts(c) ==
    /\ call[c] = "free"
    /\ call' = [call EXCEPT ![c] = "let"]
    /\ job' = 0 /\ alive' = Silenced({job}) /\ task' = Aborted({job})
    /\ fenced' = [fenced EXCEPT ![c] = {j \in 1 .. started : ~alive'[j]}]
    /\ saved' = IF job # 0 THEN Blank ELSE saved
    /\ UNCHANGED <<line, retired, glass, started, arriving, frame, heldBack, gen, claim, loan>>

(* It claims the next frame number ...                                      *)
CallClaims(c) ==
    /\ call[c] = "let"
    /\ gen' = gen + 1 /\ claim' = [claim EXCEPT ![c] = gen']
    /\ call' = [call EXCEPT ![c] = "claimed"]
    /\ UNCHANGED <<line, retired, glass, jobs, fenced, loan>>

(* ... and asks the queue for its turn, which a foreign owner refuses.      *)
CallQueues(c) ==
    /\ call[c] = "claimed"
    /\ IF ~closed /\ owner \in {NoToken, TokenOf[c]}
         THEN /\ Queue!Accept(Item("call", Image(c)), TokenOf[c])
              /\ call' = [call EXCEPT ![c] = "waiting"]
         ELSE /\ call' = [call EXCEPT ![c] = "refused"]
              /\ UNCHANGED line
    /\ UNCHANGED <<retired, glass, jobs, gen, claim, fenced, loan>>

-----------------------------------------------------------------------------
(* The queue's turns.                                                       *)

(* Mutants: the job's flag is not checked; an overtaken push is drawn.      *)
DrawsUnfenced(item) ==
    IF item.from = "call" THEN claim[item.picture.by] = gen ELSE ~retired

DrawsBacklog(item) ==
    item.from = "job" => alive[item.picture.job] /\ ~retired

(* What an item does when its turn comes: a job's frame checks the job and  *)
(* the link, a repaint the link, a call that it is the newest.              *)
Draws(item) ==
    CASE item.from = "job"  -> alive[item.picture.job] /\ ~retired
      [] item.from = "end"  -> ~retired
      [] item.from = "call" -> claim[item.picture.by] = gen

Begin ==
    /\ Queue!Start(0)
    /\ drawing' = Draws(running')
    /\ call' = IF running'.from = "call"
                 THEN [call EXCEPT ![running'.picture.by] =
                         IF drawing' THEN "drawing" ELSE "skipped"]
                 ELSE call
    /\ UNCHANGED <<retired, panel, screen, jobs, gen, claim, fenced, loan>>

(* The turn ends. Whoever waits for it is told, and a call records its      *)
(* image before it gives the turn up.                                       *)
ToldJob(said) == [j \in Jobs |->
    IF running.from = "job" /\ running.picture.job = j /\ task[j] = "waiting"
      THEN said ELSE task[j]]
ToldCall(said) == [c \in Calls |->
    IF running.from = "call" /\ running.picture.by = c /\ call[c] = "drawing"
      THEN said ELSE call[c]]

Complete ==
    /\ Queue!Finish
    /\ drawing' = FALSE
    /\ panel' = IF drawing THEN running.picture ELSE panel
    /\ screen' = IF drawing /\ running.from = "call" THEN running.picture ELSE screen
    /\ task' = ToldJob("landed") /\ call' = ToldCall("done")
    /\ ender' = IF running.from = "end" THEN (IF drawing THEN "painted" ELSE "done") ELSE ender
    /\ UNCHANGED <<retired, started, arriving, job, alive, frame, saved, heldBack, gen, claim,
                   fenced, lease, found, repaint>>

(* The write fails, or the call runs into its time limit. The picture may   *)
(* have reached the panel all the same.                                     *)
Fail ==
    /\ drawing /\ Queue!Finish
    /\ drawing' = FALSE
    /\ panel' \in {panel, running.picture}
    /\ task' = ToldJob("failed") /\ call' = ToldCall("lost")
    /\ ender' = IF running.from = "end" THEN "done" ELSE ender
    /\ UNCHANGED <<retired, screen, started, arriving, job, alive, frame, saved, heldBack, gen,
                   claim, fenced, lease, found, repaint>>

(* Link::retire: the flag, then the queue; what was pending does not run.   *)
Retire ==
    /\ retired' = TRUE /\ ~retired
    /\ UNCHANGED <<line, glass, jobs, calls, loan>>

StopQueue ==
    /\ retired /\ ~closed /\ Queue!Close
    /\ task' = [j \in Jobs |->
         IF \E i \in DOMAIN queue : queue[i].job = Item("job", Frame(j, frame[j]))
            /\ task[j] = "waiting" THEN "asleep" ELSE task[j]]
    /\ call' = [c \in Calls |-> IF call[c] = "waiting" THEN "lost" ELSE call[c]]
    /\ ender' = IF ender = "waiting" /\ running # Item("end", repaint) THEN "done" ELSE ender
    /\ UNCHANGED <<retired, glass, started, arriving, job, alive, frame, saved, heldBack, gen,
                   claim, fenced, lease, found, repaint>>

-----------------------------------------------------------------------------
(* Sessions and the lease.                                                  *)

SessionTakes ==
    /\ ~retired /\ Queue!Take(Session) /\ ~leased'
    /\ UNCHANGED <<retired, glass, jobs, calls, loan>>

SessionLeaves == Queue!Leave(Session) /\ UNCHANGED <<retired, glass, jobs, calls, loan>>

(* lease_acquire: the channel was read, the queue is held ...               *)
LeaseHold ==
    /\ ender = "none" /\ ~retired
    /\ Queue!Take(Holder) /\ leased'
    /\ found' \in {Blank, Image(Channel)}
    /\ ender' = "held"
    /\ UNCHANGED <<retired, glass, jobs, calls, lease, repaint>>

(* ... and the lease recorded.                                              *)
LeaseSet ==
    /\ ender = "held"
    /\ lease' = Holder /\ ender' = "watching"
    /\ UNCHANGED <<line, retired, glass, jobs, calls, found, repaint>>

(* end(): the lease is taken out of its slot, released or expired ...       *)
EndTake ==
    /\ ender = "watching"
    /\ lease' = Nothing /\ ender' = "taken"
    /\ UNCHANGED <<line, retired, glass, jobs, calls, found, repaint>>

(* ... the queue let go ...                                                 *)
EndFree ==
    /\ ender = "taken" /\ Queue!Leave(Holder)
    /\ ender' = "freed"
    /\ UNCHANGED <<retired, glass, jobs, calls, lease, found, repaint>>

(* ... and what the panel goes back to looked up: the job's newest frame,   *)
(* else the channel it was found on.                                        *)
EndRead ==
    /\ ender = "freed"
    /\ repaint' = IF job # 0 /\ saved # Blank THEN saved ELSE found
    /\ ender' = IF repaint' = Blank \/ retired THEN "done" ELSE "read"
    /\ UNCHANGED <<line, retired, glass, jobs, calls, lease, found>>

EndQueues ==
    /\ ender = "read"
    /\ IF retired \/ closed
         THEN ender' = "done" /\ UNCHANGED line
         ELSE Queue!Accept(Item("end", repaint), NoToken) /\ ender' = "waiting"
    /\ UNCHANGED <<retired, glass, jobs, calls, lease, found, repaint>>

(* A repainted job frame is recorded, a selected channel is not.            *)
EndRecord ==
    /\ ender = "painted"
    /\ screen' = IF repaint.by = Channel THEN screen ELSE repaint
    /\ ender' = "done"
    /\ UNCHANGED <<line, retired, drawing, panel, jobs, calls, lease, found, repaint>>

-----------------------------------------------------------------------------
JobTask(j) == Render(j) \/ Save(j) \/ AskLease(j) \/ Push(j) \/ Resume(j)
Caller(c) == CallArrives(c) \/ CallPreempts(c) \/ CallClaims(c) \/ CallQueues(c)
Turns == Begin \/ Complete \/ Fail \/ StopQueue
Lending == LeaseHold \/ LeaseSet \/ EndTake \/ EndFree \/ EndRead \/ EndQueues \/ EndRecord

Next ==
    \/ Spawn \/ StopJob \/ \E j \in Jobs : Install(j) \/ JobTask(j)
    \/ \E c \in Calls : Caller(c)
    \/ Turns \/ Retire \/ SessionTakes \/ SessionLeaves \/ Lending

Spec == Init /\ [][Next]_vars

-----------------------------------------------------------------------------
(* Properties.                                                              *)

(* An image the user asked for stays until somebody asks for something      *)
(* else: no job that was stopped by the time the call was let on draws over *)
(* it with a frame it pushed (live_jobs/frame.rs:16-20).                    *)
UserImageStays ==
    [][\A c \in Calls :
         panel = Image(c) /\ panel'.job \in fenced[c] => running.from = "end"]_vars

(* The repaint at the end of a lease is not older than any frame the lease  *)
(* made that job keep: the job saves before it looks at the lease, the end  *)
(* takes the lease before it looks at what was saved                        *)
(* (live_jobs/frame.rs:53-55, lease.rs:18-20).                              *)
RepaintIsNewest ==
    ender \in {"read", "waiting"} /\ repaint.job # 0 =>
        repaint.n >= heldBack[repaint.job]

(* Of two pushed images that were both drawn the later claim stays, in      *)
(* whatever order the two calls were queued (daemon.rs:212-214).            *)
NewerImageStays ==
    [][\A c, d \in Calls :
         panel = Image(c) /\ panel' = Image(d) /\ c # d => claim[c] < claim[d]]_vars
=============================================================================
