------------------------------- MODULE BleLink -------------------------------
(***************************************************************************)
(* One panel's Bluetooth link in the Python library                        *)
(* (examples/divoom_legacy: ble_transport.py, ble_connection.py,           *)
(* ble_registry.py, connection.py, and the slots of wall.py).              *)
(*                                                                         *)
(* A panel used alone and as a slot of a wall has a transport for each     *)
(* use, and the radio gives the address one connection. Coroutines of one  *)
(* event loop connect (ensure_connected), send payloads, which reconnect   *)
(* on their own, and disconnect; they interleave at every await. A         *)
(* transport keeps three ideas of its link: what the OS says, the broken   *)
(* flag a callback or a failed write sets, and whether notifications are   *)
(* on. The registry knows whose connection the address has.                *)
(*                                                                         *)
(* The framing a payload is put in and what is in it are left out, and so  *)
(* is the classic Bluetooth transport.                                     *)
(***************************************************************************)
EXTENDS Naturals, FiniteSets

CONSTANTS Tasks,        \* coroutines
          Transports,   \* the transports of one address
          None,
          SendTries,    \* max_retries of send_payload
          EnsureTries,  \* attempts of ensure_connected
          MaxOps,       \* operations the coroutines begin
          MaxDrops      \* times the link drops

ASSUME BleLinkAssumption ==
    /\ None \notin Tasks \cup Transports
    /\ {SendTries, EnsureTries} \subseteq Nat \ {0}
    /\ {MaxOps, MaxDrops} \subseteq Nat

VARIABLES
    open,       \* the transports whose connection is up at the radio
    said,       \* those of which client.is_connected is true
    calling,    \* those whose disconnect callback is due
    subscribed, \* those whose notifications the OS delivers
    broken,     \* those with _connection_likely_broken
    notifying,  \* those with _notifications_started
    registered, \* the registry's transport for the address
    writer,     \* per transport: the task that holds _write_lock
    connector,  \* the task that holds the connect lock
    at,         \* per task: where it is
    op,         \* per task: what for
    on,         \* per task: on which transport
    victim,     \* per task: the transport it is disconnecting
    tries,      \* per task: attempts of its retry loop that have failed
    forced,     \* per task: it reconnects because of the flag
    left,       \* open connections whose disconnect was given up (history)
    ops, drops  \* operations begun, drops so far

radio == <<open, said, calling, subscribed, left, drops>>
flags == <<broken, notifying>>
locks == <<writer, connector>>
place == <<at, op, on, victim, tries, forced, ops>>
vars  == <<radio, flags, registered, locks, place>>

Ops     == {"none", "send", "ensure", "push", "close"}
Places  == {"idle", "wantWrite", "trying", "backoff", "writing", "wantLock", "locked", "pausing",
            "stopping", "hanging", "dialling", "subscribing", "settling"}

TypeOK ==
    /\ {open, said, calling, subscribed, broken, notifying, left} \subseteq SUBSET Transports
    /\ Cardinality(open) <= 1 /\ subscribed \cup left \subseteq open
    /\ registered \in Transports \cup {None}
    /\ writer \in [Transports -> Tasks \cup {None}] /\ connector \in Tasks \cup {None}
    /\ at \in [Tasks -> Places] /\ op \in [Tasks -> Ops]
    /\ on \in [Tasks -> Transports \cup {None}] /\ victim \in [Tasks -> Transports \cup {None}]
    /\ tries \in [Tasks -> Nat] /\ forced \in [Tasks -> BOOLEAN]
    /\ ops \in 0 .. MaxOps /\ drops \in 0 .. MaxDrops
    /\ \A k \in Tasks : (at[k] = "idle") <=> (on[k] = None)
    /\ \A t \in Transports : writer[t] # None => on[writer[t]] = t

Init ==
    /\ open = {} /\ said = {} /\ calling = {} /\ subscribed = {} /\ left = {} /\ drops = 0
    /\ broken = {} /\ notifying = {} /\ registered = None
    /\ writer = [t \in Transports |-> None] /\ connector = None
    /\ at = [k \in Tasks |-> "idle"] /\ op = [k \in Tasks |-> "none"]
    /\ on = [k \in Tasks |-> None] /\ victim = [k \in Tasks |-> None]
    /\ tries = [k \in Tasks |-> 0] /\ forced = [k \in Tasks |-> FALSE]
    /\ ops = 0

\* BLETransport.is_alive: connected as the OS says, and no drop signal pending.
Alive(t) == t \in said \ broken

At(k, p) == at[k] = p
Go(k, p) == at' = [at EXCEPT ![k] = p] /\ UNCHANGED <<op, on, victim, tries, forced, ops>>
Finish(k) ==
    /\ at' = [at EXCEPT ![k] = "idle"] /\ op' = [op EXCEPT ![k] = "none"]
    /\ on' = [on EXCEPT ![k] = None] /\ victim' = [victim EXCEPT ![k] = None]
    /\ tries' = [tries EXCEPT ![k] = 0] /\ forced' = [forced EXCEPT ![k] = FALSE]
    /\ UNCHANGED ops
\* One attempt more has failed: try again, or answer that nothing came of it.
Again(k, limit, p) ==
    IF tries[k] + 1 < limit
    THEN /\ at' = [at EXCEPT ![k] = p] /\ tries' = [tries EXCEPT ![k] = @ + 1]
         /\ victim' = [victim EXCEPT ![k] = None] /\ forced' = [forced EXCEPT ![k] = FALSE]
         /\ UNCHANGED <<op, on, ops>>
    ELSE Finish(k)

Connecting(k) == op[k] \in {"ensure", "push"}   \* inside ensure_connected
\* A slip in it: a sender that is done keeps the write lock.
ReleaseNothing(k) == UNCHANGED writer
Release(k) == writer' = [t \in Transports |-> IF writer[t] = k THEN None ELSE writer[t]]

-----------------------------------------------------------------------------
(* disconnect() of a transport: the registry lets go of it first, and what  *)
(* is awaited then is bounded and its failure swallowed.                    *)

Unregister(t) == registered' = IF registered = t THEN None ELSE registered

StartDisconnect(k, t, p) ==
    /\ Unregister(t)
    /\ at' = [at EXCEPT ![k] = p] /\ victim' = [victim EXCEPT ![k] = t]

\* The flags start afresh, whatever became of the link.
Reset(t) == broken' = broken \ {t} /\ notifying' = notifying \ {t}

\* The awaits of disconnect(): the subscription is released, or not in time, ...
StopNotify(k) ==
    /\ At(k, "stopping") /\ Go(k, "hanging")
    /\ \/ subscribed' = subscribed \ {victim[k]}
       \/ UNCHANGED subscribed
    /\ UNCHANGED <<open, said, calling, left, drops, flags, registered, locks>>

\* ... and the connection is closed, or left open when that takes too long.
Closes(t) ==
    /\ open' = open \ {t} /\ said' = said \ {t} /\ calling' = calling \ {t}
    /\ subscribed' = subscribed \ {t} /\ left' = left \ {t} /\ UNCHANGED drops
GivesUp(t) ==
    /\ left' = left \cup (open \cap {t})
    /\ UNCHANGED <<open, said, calling, subscribed, drops>>

FirstWait(t) == IF t \in notifying THEN "stopping" ELSE "hanging"

-----------------------------------------------------------------------------
(* connect() of a transport, for a task k that is in it.                    *)

\* What the caller does with a link: a sender writes, ensure_connected answers.
ConnectReturns(k) ==
    IF Connecting(k)
    THEN /\ connector' = None /\ UNCHANGED writer
         /\ IF on[k] \in said
            THEN /\ UNCHANGED <<flags, registered>>
                 /\ IF op[k] = "ensure"
                    THEN Finish(k)
                    ELSE /\ at' = [at EXCEPT ![k] = "wantWrite"] /\ op' = [op EXCEPT ![k] = "send"]
                         /\ tries' = [tries EXCEPT ![k] = 0]
                         /\ victim' = [victim EXCEPT ![k] = None]
                         /\ UNCHANGED <<on, forced, ops>>
            ELSE /\ Unregister(on[k]) /\ Reset(on[k])
                 /\ Again(k, EnsureTries, "pausing")
    ELSE Go(k, "writing") /\ UNCHANGED <<flags, registered, locks>>

\* A sender tries again; ensure_connected tears a half-open handle down first.
ConnectRaises(k) ==
    IF Connecting(k)
    THEN /\ connector' = None /\ UNCHANGED writer
         /\ IF on[k] \in said
            THEN /\ StartDisconnect(k, on[k], FirstWait(on[k])) /\ UNCHANGED flags
                 /\ UNCHANGED <<op, on, tries, forced, ops>>
            ELSE /\ Unregister(on[k]) /\ Reset(on[k])
                 /\ Again(k, EnsureTries, "pausing")
    ELSE /\ UNCHANGED <<connector, flags, registered>>
         /\ Again(k, SendTries, "trying")
         /\ IF tries[k] + 1 < SendTries THEN UNCHANGED writer ELSE Release(k)

\* connect() up to its first await: nothing to do for a transport the OS says is
\* connected; any other transport of the address is evicted first.
Evicting(t) == registered \notin {None, t}
EnterConnect(k) ==
    LET t == on[k] IN
    \/ /\ t \in said /\ ConnectReturns(k)
    \/ /\ t \notin said /\ Evicting(t) /\ registered \in said
       /\ StartDisconnect(k, registered, FirstWait(registered))
       /\ UNCHANGED <<op, on, tries, forced, ops, flags, locks>>
    \/ /\ t \notin said /\ Evicting(t) /\ registered \notin said
       /\ registered' = None /\ Reset(registered)
       /\ Go(k, "dialling") /\ UNCHANGED locks
    \/ /\ t \notin said /\ ~Evicting(t)
       /\ Go(k, "dialling") /\ UNCHANGED <<flags, registered, locks>>

\* The radio connects a transport while no other has the address (a callback of
\* its last connection has come by then); the task registers it and clears the flag.
\* A slip in it: the address stays with whoever had it.
RegisterIfFree(t) == registered' = IF registered = None THEN t ELSE registered
Register(t) == registered' = t
NextWait(t) == IF t \in notifying THEN "settling" ELSE "subscribing"
DialOpens(k) ==
    LET t == on[k] IN
    /\ At(k, "dialling") /\ t \notin calling /\ open \subseteq {t}
    /\ open' = {t} /\ said' = said \cup {t}
    /\ Register(t) /\ broken' = broken \ {t} /\ Go(k, NextWait(t))
    /\ UNCHANGED <<calling, subscribed, left, drops, notifying, locks>>

\* It does not, in time; so may the subscription.
DialFails(k) ==
    /\ at[k] \in {"dialling", "subscribing"} /\ ConnectRaises(k) /\ UNCHANGED radio

Subscribes(k) ==
    /\ At(k, "subscribing") /\ on[k] \in open \ subscribed
    /\ subscribed' = subscribed \cup {on[k]} /\ notifying' = notifying \cup {on[k]}
    /\ Go(k, "settling")
    /\ UNCHANGED <<open, said, calling, left, drops, broken, registered, locks>>

\* A disconnect ends: the caller's own, that of a failed attempt, or an eviction,
\* after which the task dials unless the transport has been connected meanwhile.
Evicted(k, p) ==
    /\ at' = [at EXCEPT ![k] = p] /\ victim' = [victim EXCEPT ![k] = None]
    /\ UNCHANGED <<op, on, tries, forced, ops>>
HangUp(k) ==
    LET v == victim[k]
    IN  /\ At(k, "hanging")
        /\ Closes(v) \/ GivesUp(v)
        /\ UNCHANGED locks
        /\ \/ /\ op[k] = "close" /\ Finish(k) /\ Reset(v) /\ UNCHANGED registered
           \/ /\ op[k] # "close" /\ v = on[k] /\ Reset(v)
              /\ Again(k, EnsureTries, "pausing") /\ UNCHANGED registered
           \/ /\ op[k] # "close" /\ v # on[k] /\ on[k] \notin said /\ Unregister(v)
              /\ Evicted(k, "dialling") /\ Reset(v)
           \/ /\ op[k] # "close" /\ v # on[k] /\ on[k] \in said /\ Register(on[k])
              /\ Evicted(k, NextWait(on[k]))
              /\ broken' = broken \ {v, on[k]} /\ notifying' = notifying \ {v}

\* The pause and the probe of the framing, which writes under none of the locks.
\* A slip in it: the probe sends its payload the way everyone does.
SettlesSending(k) ==
    /\ At(k, "settling") /\ writer[on[k]] = None /\ ConnectReturns(k) /\ UNCHANGED radio
Settles(k) == At(k, "settling") /\ ConnectReturns(k) /\ UNCHANGED radio

ConnectStep(k) ==
    \/ StopNotify(k) \/ HangUp(k) \/ DialOpens(k) \/ DialFails(k)
    \/ Subscribes(k) \/ Settles(k)

-----------------------------------------------------------------------------
(* ensure_connected: the handshake is serialised, the waits are not.        *)

Begin(k, t, for, p) ==
    /\ At(k, "idle") /\ ops < MaxOps /\ ops' = ops + 1
    /\ at' = [at EXCEPT ![k] = p] /\ op' = [op EXCEPT ![k] = for] /\ on' = [on EXCEPT ![k] = t]
    /\ UNCHANGED <<radio, flags, locks, tries, forced>>

Ensure(k, t) ==
    /\ ~Alive(t) /\ Begin(k, t, "ensure", "wantLock") /\ UNCHANGED <<registered, victim>>

\* A push to a slot of the wall revives the slot first.
PushSlot(k, t) ==
    /\ IF Alive(t) THEN Begin(k, t, "send", "wantWrite") ELSE Begin(k, t, "push", "wantLock")
    /\ UNCHANGED <<registered, victim>>

TakeLock(k) ==
    /\ At(k, "wantLock") /\ connector = None /\ connector' = k
    /\ Go(k, "locked") /\ UNCHANGED <<radio, flags, registered, writer>>

\* An attempt begins; the next one, after a pause, takes the lock anew.
Attempt(k) == At(k, "locked") /\ EnterConnect(k) /\ UNCHANGED radio
QueueAgain(k) ==
    /\ At(k, "pausing") /\ Go(k, "wantLock") /\ UNCHANGED <<radio, flags, registered, locks>>

\* The attempt's own limit cuts it short wherever it is; a disconnect of another
\* transport it was awaiting stays undone.
TimesOut(k) ==
    /\ Connecting(k) /\ connector = k
    /\ \/ /\ at[k] \in {"stopping", "hanging"} /\ GivesUp(victim[k])
       \/ /\ at[k] \in {"dialling", "subscribing", "settling"}
          /\ UNCHANGED radio
    /\ ConnectRaises(k)

-----------------------------------------------------------------------------
(* send_payload: one payload at a time per transport, and a reconnect first *)
(* when the link is down or was flagged.                                    *)

Send(k, t) == Begin(k, t, "send", "wantWrite") /\ UNCHANGED <<registered, victim>>

TakeWrite(k) ==
    /\ At(k, "wantWrite") /\ writer[on[k]] = None
    /\ writer' = [writer EXCEPT ![on[k]] = k]
    /\ Go(k, "trying") /\ UNCHANGED <<radio, flags, registered, connector>>

Try(k) ==
    LET t == on[k] IN
    /\ At(k, "trying")
    /\ \/ Alive(t) /\ Go(k, "writing") /\ UNCHANGED broken
       \/ /\ ~Alive(t) /\ broken' = broken \ {t}
          /\ at' = [at EXCEPT ![k] = "backoff"] /\ forced' = [forced EXCEPT ![k] = t \in broken]
          /\ UNCHANGED <<op, on, victim, tries, ops>>
    /\ UNCHANGED <<radio, notifying, registered, locks>>

Reconnect(k) ==
    /\ At(k, "backoff")
    /\ IF on[k] \notin said \/ forced[k]
       THEN EnterConnect(k)
       ELSE Go(k, "writing") /\ UNCHANGED <<flags, registered, locks>>
    /\ UNCHANGED radio

\* The link takes the payload, and the flag is cleared.
WriteLands(k) ==
    /\ At(k, "writing") /\ on[k] \in open
    /\ broken' = broken \ {on[k]} /\ Release(k) /\ Finish(k)
    /\ UNCHANGED <<radio, notifying, registered, connector>>

\* A write fails, with words that mean a lost connection or others.
WriteFails(k) ==
    /\ At(k, "writing")
    /\ broken' \in {broken, broken \cup {on[k]}}
    /\ Again(k, SendTries, "trying")
    /\ IF tries[k] + 1 < SendTries THEN UNCHANGED writer ELSE Release(k)
    /\ UNCHANGED <<radio, notifying, registered, connector>>

\* The owner lets go of the panel, in the middle of whatever others do with it.
Close(k, t) ==
    /\ t \in said /\ Begin(k, t, "close", FirstWait(t))
    /\ Unregister(t) /\ victim' = [victim EXCEPT ![k] = t]
CloseDead(k, t) ==
    /\ At(k, "idle") /\ t \notin said /\ Unregister(t) /\ Reset(t)
    /\ <<registered, flags>>' # <<registered, flags>> /\ UNCHANGED <<radio, locks, place>>

-----------------------------------------------------------------------------
(* The radio.                                                               *)

\* The link drops; is_connected and the callback follow, in either order.
Drops(t) ==
    /\ t \in open /\ drops < MaxDrops /\ drops' = drops + 1
    /\ open' = open \ {t} /\ subscribed' = subscribed \ {t} /\ left' = left \ {t}
    /\ calling' = calling \cup {t}
    /\ UNCHANGED <<said, flags, registered, locks, place>>
Notices(t) ==
    /\ t \in said \ open /\ said' = said \ {t}
    /\ UNCHANGED <<open, calling, subscribed, left, drops, flags, registered, locks, place>>
OnOsDisconnect(t) ==
    /\ t \in calling /\ calling' = calling \ {t}
    /\ broken' = broken \cup {t} /\ notifying' = notifying \ {t}
    /\ UNCHANGED <<open, said, subscribed, left, drops, registered, locks, place>>

TaskStep(k) ==
    \/ ConnectStep(k) \/ TakeLock(k) \/ Attempt(k) \/ QueueAgain(k) \/ TimesOut(k)
    \/ TakeWrite(k) \/ Try(k) \/ Reconnect(k)
    \/ WriteLands(k) \/ WriteFails(k)

Next ==
    \/ \E k \in Tasks : TaskStep(k)
    \/ \E k \in Tasks, t \in Transports :
          Ensure(k, t) \/ PushSlot(k, t) \/ Send(k, t) \/ Close(k, t) \/ CloseDead(k, t)
    \/ \E t \in Transports : Drops(t) \/ Notices(t) \/ OnOsDisconnect(t)

Spec == Init /\ [][Next]_vars

-----------------------------------------------------------------------------
(* Properties.                                                              *)

\* An open connection is the registered one: no transport holds the address
\* behind the registry's back, where an eviction would not find it. A task may be
\* closing it, and a disconnect that was given up leaves one the registry has
\* let go of (left)
\* (ble_registry.py: "one live connection per address").
LinkOwned ==
    \A t \in open \ left :
        registered = t \/ \E k \in Tasks : victim[k] = t

\* The coroutines never all wait for each other: a payload whose reconnect dials,
\* evicts and probes under the write lock, and a handshake that evicts under the
\* connect lock, wait for nothing that waits for them (ble_transport.py:260-270,
\* ble_connection.py:182). As retries are bounded, every operation then ends.
NobodyStuck == (\A k \in Tasks : At(k, "idle")) \/ \E k \in Tasks : ENABLED TaskStep(k)
=============================================================================
