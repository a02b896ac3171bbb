------------------------------ MODULE SerialQueue ------------------------------
(****************************************************************************)
(* What the rest of the daemon relies on when it sends an operation through *)
(* a panel's command queue: one operation at a time, oldest first, and while *)
(* a session owns the slot only that session's operations start.  Time, the  *)
(* worker task, its wake-ups and the callers are not visible here;           *)
(* CommandQueue.tla models them and implements this specification.           *)
(****************************************************************************)
EXTENDS Integers, Sequences, SequencesExt

CONSTANTS
    Jobs,       \* the operations callers hand to the queue
    Tokens,     \* the session tokens a caller may present
    NoToken,    \* a caller without a session, and the owner of a free slot
    NoJob       \* nothing is running

VARIABLES
    queue,      \* operations accepted and not yet started, oldest first
    running,    \* the operation that has the device
    owner,      \* the session that owns the slot
    leased,     \* the owner holds by lease
    closed      \* the queue accepts nothing any more

absVars == <<queue, running, owner, leased, closed>>

Init ==
    /\ queue = <<>>
    /\ running = NoJob
    /\ owner = NoToken
    /\ leased = FALSE
    /\ closed = FALSE

(* An open queue accepts an operation behind all others. *)
Accept(j, t) ==
    /\ ~closed
    /\ queue' = Append(queue, [job |-> j, token |-> t])
    /\ UNCHANGED <<running, owner, leased, closed>>

(* What is left once the n oldest operations are given up: they waited too long. *)
Without(n) == SubSeq(queue, n + 1, Len(queue))

GiveUp(n) ==
    /\ queue' = Without(n)
    /\ UNCHANGED <<running, owner, leased, closed>>

(* The operation whose turn it is in s: the oldest of the owner's, or the     *)
(* oldest of all when the slot is free.                                      *)
Turn(s, i) ==
    IF owner = NoToken THEN i = 1
    ELSE /\ s[i].token = owner
         /\ \A k \in 1..(i - 1) : s[k].token # owner

Start(n) ==
    \E i \in 1..Len(Without(n)) :
        /\ running = NoJob
        /\ Turn(Without(n), i)
        /\ running' = Without(n)[i].job
        /\ queue' = RemoveAt(Without(n), i)
        /\ UNCHANGED <<owner, leased, closed>>

Finish ==
    /\ running # NoJob
    /\ running' = NoJob
    /\ UNCHANGED <<queue, owner, leased, closed>>

(* A session takes the slot if it is free or already its own; a lease stays one. *)
Take(t) ==
    /\ ~closed
    /\ owner \in {NoToken, t}
    /\ owner' = t
    /\ leased' \in {leased, TRUE}
    /\ UNCHANGED <<queue, running, closed>>

(* The owner gives the slot back. *)
Leave(t) ==
    /\ owner = t
    /\ owner' = NoToken
    /\ leased' = FALSE
    /\ UNCHANGED <<queue, running, closed>>

(* An idle owner loses the slot, never one that holds it by lease. *)
Reap(n) ==
    /\ owner # NoToken /\ ~leased
    /\ owner' = NoToken
    /\ queue' = Without(n)
    /\ UNCHANGED <<running, leased, closed>>

Close ==
    /\ closed' = TRUE
    /\ queue' = <<>>
    /\ UNCHANGED <<running, owner, leased>>

Next ==
    \/ \E j \in Jobs, t \in Tokens \cup {NoToken} : Accept(j, t)
    \/ \E n \in 0..Len(queue) : GiveUp(n) \/ Start(n) \/ Reap(n)
    \/ Finish
    \/ \E t \in Tokens : Take(t) \/ Leave(t)
    \/ Close

Spec == Init /\ [][Next]_absVars
=============================================================================
