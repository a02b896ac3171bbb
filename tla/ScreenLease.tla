----------------------------- MODULE ScreenLease -----------------------------
(***************************************************************************)
(* Screen leases of one Device (lease.rs, device/lease.rs, device.rs).     *)
(*                                                                         *)
(* A lease lives in two places: the device's lease slot says who borrowed  *)
(* the panel, and the command queue of the device's current link is HELD   *)
(* for the same token. Three kinds of actor move them without a common     *)
(* lock: callers (lease_acquire, lease_renew, lease_release), the expiry   *)
(* watcher each granted lease spawns, and the fleet, which replaces, drops *)
(* or forgets the link. Every critical section of those is one action.     *)
(*                                                                         *)
(* A token is drawn fresh by every lease_acquire, together with its        *)
(* generation, so an element of Agents stands for one call, its token and  *)
(* its generation.                                                         *)
(***************************************************************************)
EXTENDS Naturals, FiniteSets

CONSTANTS Agents,       \* the lease_acquire calls, one token each
          Session,      \* the token of an exclusive session (exclusive_start)
          None,         \* an empty slot
          Closed,       \* the lease slot of a forgotten device (Slot::Closed)
          MaxLinks,     \* connections made to the panel in one behaviour
          TTL,          \* ticks a lease lives unless renewed
          MaxRenewals   \* lease_renew calls in one behaviour

ASSUME LeaseAssumption ==
    /\ MaxLinks \in Nat \ {0} /\ TTL \in Nat \ {0} /\ MaxRenewals \in Nat
    /\ Session \notin Agents /\ None \notin Agents \cup {Session}
    /\ Closed \notin Agents \cup {Session, None}

Links  == 1 .. MaxLinks
NoLink == 0

VARIABLES
    link,       \* Device.link: the current connection, NoLink when unlinked
    made,       \* connections made so far; they are numbered in order
    owner,      \* per link: the token its queue's slot is taken for
    stopped,    \* per link: retired, its queue stopped
    incoming,   \* the link attach() made and has not put in place yet
    outgoing,   \* the link attach() took out and has not retired yet
    detached,   \* the links detach() took out and has not retired yet
    fate,       \* the device in the fleet: "known", "removed" or "forgotten"
    lease,      \* Device.lease
    left,       \* ticks until the lease in the slot expires
    renewals,   \* lease_renew calls so far
    acquire,    \* per agent: how far its lease_acquire is
    aim,        \* per agent: the link its lease_acquire looked up
    watcher,    \* per agent: how far the expiry watcher of its lease is
    nap,        \* per agent: ticks its watcher still sleeps
    release,    \* per agent: how far its lease_release is
    prey        \* per agent: the generation its lease_release means to end

links  == <<link, made, owner, stopped, incoming, outgoing, detached, fate>>
slot   == <<lease, left, renewals>>
agents == <<acquire, aim>>
enders == <<watcher, nap, release, prey>>
vars   == <<links, slot, agents, enders>>

TypeOK ==
    /\ link \in Links \cup {NoLink} /\ made \in Links \cup {NoLink}
    /\ incoming \in Links \cup {NoLink} /\ outgoing \in Links \cup {NoLink}
    /\ detached \subseteq Links
    /\ owner \in [Links -> Agents \cup {Session, None}]
    /\ stopped \in [Links -> BOOLEAN]
    /\ fate \in {"known", "removed", "forgotten"}
    /\ lease \in Agents \cup {None, Closed}
    /\ left \in 0 .. TTL /\ renewals \in 0 .. MaxRenewals
    /\ acquire \in [Agents -> {"idle", "looked", "held", "granted", "refused"}]
    /\ aim \in [Agents -> Links \cup {NoLink}]
    /\ watcher \in [Agents -> {"off", "nap", "end", "free", "done"}]
    /\ nap \in [Agents -> 0 .. TTL]
    /\ release \in [Agents -> {"off", "found", "end", "free", "done"}]
    /\ prey \in [Agents -> Agents \cup {None}]

Init ==
    /\ link = NoLink /\ made = 0 /\ incoming = NoLink /\ outgoing = NoLink
    /\ detached = {} /\ owner = [l \in Links |-> None] /\ stopped = [l \in Links |-> FALSE]
    /\ fate = "known" /\ lease = None /\ left = 0 /\ renewals = 0
    /\ acquire = [a \in Agents |-> "idle"] /\ aim = [a \in Agents |-> NoLink]
    /\ watcher = [a \in Agents |-> "off"] /\ nap = [a \in Agents |-> 0]
    /\ release = [a \in Agents |-> "off"] /\ prey = [a \in Agents |-> None]

-----------------------------------------------------------------------------
(* The queue of a link, as far as a lease uses it (CommandQueue).           *)

CanHold(l) == ~stopped[l] /\ owner[l] = None

\* CommandQueue::release on the current link, if there is one
Unheld(a) == IF link # NoLink /\ owner[link] = a
               THEN [owner EXCEPT ![link] = None] ELSE owner

(* An exclusive session takes and leaves the current link's queue.          *)
SessionTakes ==
    /\ link # NoLink /\ CanHold(link)
    /\ owner' = [owner EXCEPT ![link] = Session]
    /\ UNCHANGED <<link, made, stopped, incoming, outgoing, detached, fate, slot, agents, enders>>

SessionLeaves ==
    \E l \in Links :
        /\ owner[l] = Session
        /\ owner' = [owner EXCEPT ![l] = None]
        /\ UNCHANGED <<link, made, stopped, incoming, outgoing, detached, fate, slot, agents, enders>>

-----------------------------------------------------------------------------
(* lease_acquire.                                                           *)

(* The panel is resolved, its link looked up and its lease slot read. The   *)
(* call then asks the panel for its channel, which may take 1.5 s.          *)
AcquireLook(a) ==
    /\ acquire[a] = "idle" /\ fate = "known" /\ link # NoLink
    /\ IF lease \in Agents
         THEN /\ acquire' = [acquire EXCEPT ![a] = "refused"]
              /\ UNCHANGED aim
         ELSE /\ acquire' = [acquire EXCEPT ![a] = "looked"]
              /\ aim' = [aim EXCEPT ![a] = link]
    /\ UNCHANGED <<links, slot, enders>>

(* Mutant: the hold does not look at the owner.                             *)
AcquireHoldSteals(a) ==
    /\ acquire[a] = "looked"
    /\ IF ~stopped[aim[a]]
         THEN /\ owner' = [owner EXCEPT ![aim[a]] = a]
              /\ acquire' = [acquire EXCEPT ![a] = "held"]
         ELSE /\ acquire' = [acquire EXCEPT ![a] = "refused"]
              /\ UNCHANGED owner
    /\ UNCHANGED <<link, made, stopped, incoming, outgoing, detached, fate, slot, aim, enders>>

(* The queue of the link looked up is held, or the call is refused.         *)
AcquireHold(a) ==
    /\ acquire[a] = "looked"
    /\ IF CanHold(aim[a])
         THEN /\ owner' = [owner EXCEPT ![aim[a]] = a]
              /\ acquire' = [acquire EXCEPT ![a] = "held"]
         ELSE /\ acquire' = [acquire EXCEPT ![a] = "refused"]
              /\ UNCHANGED owner
    /\ UNCHANGED <<link, made, stopped, incoming, outgoing, detached, fate, slot, aim, enders>>

(* Slot::replace: a closed slot takes nothing any more.                     *)
SlotOpen == lease # Closed

(* The lease is put in the slot, over whatever is there, and its watcher    *)
(* spawned; a closed slot refuses it and the hold is given back.            *)
AcquireSet(a) ==
    /\ acquire[a] = "held"
    /\ IF SlotOpen
         THEN /\ lease' = a /\ left' = TTL
              /\ acquire' = [acquire EXCEPT ![a] = "granted"]
              /\ watcher' = [watcher EXCEPT ![a] = "nap"]
              /\ UNCHANGED owner
         ELSE /\ owner' = [owner EXCEPT ![aim[a]] = IF @ = a THEN None ELSE @]
              /\ acquire' = [acquire EXCEPT ![a] = "refused"]
              /\ UNCHANGED <<lease, left, watcher>>
    /\ UNCHANGED <<link, made, stopped, incoming, outgoing, detached, fate, renewals, aim,
                   nap, release, prey>>

-----------------------------------------------------------------------------
(* Mutant: a renewal adds to the time left instead of moving the end.       *)
RenewAdds(a) ==
    /\ acquire[a] = "granted" /\ lease = a /\ renewals < MaxRenewals
    /\ left' = left + TTL /\ renewals' = renewals + 1
    /\ UNCHANGED <<links, lease, agents, enders>>

(* Device::extend_lease: the end of the lease moves if the token holds it.  *)
Extend(a) == lease = a /\ left' = TTL

(* lease_renew: one critical section of the slot.                           *)
Renew(a) ==
    /\ acquire[a] = "granted" /\ renewals < MaxRenewals /\ Extend(a)
    /\ renewals' = renewals + 1
    /\ UNCHANGED <<links, lease, agents, enders>>

(* Time passes for the lease and for every sleeping watcher.                *)
Tick ==
    /\ \/ lease \in Agents /\ left > 0
       \/ \E a \in Agents : watcher[a] = "nap" /\ nap[a] > 0
    /\ left' = IF left > 0 THEN left - 1 ELSE 0
    /\ nap' = [a \in Agents |-> IF nap[a] > 0 THEN nap[a] - 1 ELSE 0]
    /\ UNCHANGED <<links, lease, renewals, agents, watcher, release, prey>>

-----------------------------------------------------------------------------
(* The expiry watcher of a lease, and lease_release: both end in end().     *)

(* Mutant: a watcher that finds its lease renewed stops watching.           *)
WatchLookQuits(a) ==
    /\ watcher[a] = "nap" /\ nap[a] = 0
    /\ watcher' = [watcher EXCEPT ![a] = IF lease = a /\ left = 0 THEN "end" ELSE "done"]
    /\ UNCHANGED <<links, slot, agents, nap, release, prey>>

WatchLook(a) ==
    /\ watcher[a] = "nap" /\ nap[a] = 0
    /\ IF lease # a
         THEN watcher' = [watcher EXCEPT ![a] = "done"] /\ UNCHANGED nap
         ELSE IF left = 0
           THEN watcher' = [watcher EXCEPT ![a] = "end"] /\ UNCHANGED nap
           ELSE nap' = [nap EXCEPT ![a] = left] /\ UNCHANGED watcher
    /\ UNCHANGED <<links, slot, agents, release, prey>>

(* Device::take_lease: the slot is emptied if it holds generation g.        *)
TakeLease(g) == IF lease = g THEN lease' = None ELSE UNCHANGED lease

WatchEnd(a) ==
    /\ watcher[a] = "end"
    /\ TakeLease(a)
    /\ watcher' = [watcher EXCEPT ![a] = IF lease = a THEN "free" ELSE "done"]
    /\ UNCHANGED <<links, left, renewals, agents, nap, release, prey>>

WatchFree(a) ==
    /\ watcher[a] = "free"
    /\ owner' = Unheld(a)
    /\ watcher' = [watcher EXCEPT ![a] = "done"]
    /\ UNCHANGED <<link, made, stopped, incoming, outgoing, detached, fate, slot, agents,
                   nap, release, prey>>

(* leased_device: the panel whose lease the token is.                       *)
ReleaseFind(a) ==
    /\ release[a] = "off" /\ acquire[a] = "granted"
    /\ release' = [release EXCEPT ![a] = IF lease = a THEN "found" ELSE "done"]
    /\ UNCHANGED <<links, slot, agents, watcher, nap, prey>>

(* The lease the slot holds by now is read for its generation.              *)
ReleaseRead(a) ==
    /\ release[a] = "found"
    /\ IF lease \in Agents
         THEN /\ prey' = [prey EXCEPT ![a] = lease]
              /\ release' = [release EXCEPT ![a] = "end"]
         ELSE /\ release' = [release EXCEPT ![a] = "done"]
              /\ UNCHANGED prey
    /\ UNCHANGED <<links, slot, agents, watcher, nap>>

ReleaseEnd(a) ==
    /\ release[a] = "end"
    /\ TakeLease(prey[a])
    /\ release' = [release EXCEPT ![a] = IF lease = prey[a] THEN "free" ELSE "done"]
    /\ UNCHANGED <<links, left, renewals, agents, watcher, nap, prey>>

(* Mutant: a released lease leaves its hold behind.                         *)
ReleaseFreeForgets(a) ==
    /\ release[a] = "free"
    /\ release' = [release EXCEPT ![a] = "done"]
    /\ UNCHANGED <<links, slot, agents, watcher, nap, prey>>

ReleaseFree(a) ==
    /\ release[a] = "free"
    /\ owner' = Unheld(prey[a])
    /\ release' = [release EXCEPT ![a] = "done"]
    /\ UNCHANGED <<link, made, stopped, incoming, outgoing, detached, fate, slot, agents,
                   watcher, nap, prey>>

-----------------------------------------------------------------------------
(* The fleet: adopt() attaches under the fleet's lock, which remove() needs *)
(* to take the device out, so neither runs inside the other.                *)

Adopting == incoming # NoLink \/ outgoing # NoLink

(* Mutant: the entry is not looked up again under the fleet's lock.         *)
AttachMakeUnlocked ==
    /\ ~Adopting /\ made < MaxLinks
    /\ made' = made + 1 /\ incoming' = made'
    /\ owner' = IF lease \in Agents THEN [owner EXCEPT ![made'] = lease] ELSE owner
    /\ UNCHANGED <<link, stopped, outgoing, detached, fate, slot, agents, enders>>

(* Link::new, held for the lease in the slot, before it is put in place.    *)
AttachMake ==
    /\ fate = "known" /\ ~Adopting /\ made < MaxLinks
    /\ made' = made + 1 /\ incoming' = made'
    /\ owner' = IF lease \in Agents THEN [owner EXCEPT ![made'] = lease] ELSE owner
    /\ UNCHANGED <<link, stopped, outgoing, detached, fate, slot, agents, enders>>

AttachSwap ==
    /\ incoming # NoLink
    /\ link' = incoming /\ incoming' = NoLink /\ outgoing' = link
    /\ UNCHANGED <<made, owner, stopped, detached, fate, slot, agents, enders>>

(* Mutant: the replaced link is dropped without being retired.              *)
AttachRetireNothing ==
    /\ outgoing # NoLink
    /\ outgoing' = NoLink
    /\ UNCHANGED <<link, made, owner, stopped, incoming, detached, fate, slot, agents, enders>>

(* The link attach() replaced is retired, its queue stopped.                *)
AttachRetire ==
    /\ outgoing # NoLink
    /\ stopped' = [stopped EXCEPT ![outgoing] = TRUE]
    /\ outgoing' = NoLink
    /\ UNCHANGED <<link, made, owner, incoming, detached, fate, slot, agents, enders>>

(* Device::detach, called by link_failed: the current link is taken out of  *)
(* its place under the link's lock ...                                      *)
Detach ==
    /\ link # NoLink
    /\ link' = NoLink /\ detached' = detached \cup {link}
    /\ UNCHANGED <<made, owner, stopped, incoming, outgoing, fate, slot, agents, enders>>

(* ... and retired after it.                                                *)
DetachRetire(l) ==
    /\ l \in detached
    /\ stopped' = [stopped EXCEPT ![l] = TRUE] /\ detached' = detached \ {l}
    /\ UNCHANGED <<link, made, owner, incoming, outgoing, fate, slot, agents, enders>>

(* Fleet::remove takes the device out of the map ...                        *)
Remove ==
    /\ fate = "known" /\ ~Adopting
    /\ fate' = "removed"
    /\ UNCHANGED <<link, made, owner, stopped, incoming, outgoing, detached, slot, agents,
                   enders>>

(* ... Device::forget closes its lease slot ...                             *)
CloseSlot ==
    /\ fate = "removed" /\ lease # Closed
    /\ lease' = Closed /\ left' = 0
    /\ UNCHANGED <<links, renewals, agents, enders>>

(* ... and detaches its link.                                               *)
Forget ==
    /\ fate = "removed" /\ lease = Closed
    /\ fate' = "forgotten" /\ link' = NoLink
    /\ detached' = detached \cup ({link} \ {NoLink})
    /\ UNCHANGED <<made, owner, stopped, incoming, outgoing, slot, agents, enders>>

-----------------------------------------------------------------------------
Caller(a) == AcquireLook(a) \/ AcquireHold(a) \/ AcquireSet(a) \/ Renew(a)
Watcher(a) == WatchLook(a) \/ WatchEnd(a) \/ WatchFree(a)
Releaser(a) == ReleaseFind(a) \/ ReleaseRead(a) \/ ReleaseEnd(a) \/ ReleaseFree(a)
TheFleet == AttachMake \/ AttachSwap \/ AttachRetire \/ Detach
            \/ (\E l \in Links : DetachRetire(l)) \/ Remove \/ CloseSlot \/ Forget

Next ==
    \/ \E a \in Agents : Caller(a) \/ Watcher(a) \/ Releaser(a)
    \/ SessionTakes \/ SessionLeaves \/ Tick \/ TheFleet

Spec == Init /\ [][Next]_vars

(* Spawned tasks and started handlers run on, and time passes; that anybody *)
(* calls, connects or disconnects is not promised. A session may stay.      *)
Fairness ==
    /\ WF_vars(Tick)
    /\ \A a \in Agents :
         /\ WF_vars(AcquireHold(a)) /\ WF_vars(AcquireSet(a))
         /\ WF_vars(Watcher(a))
         /\ WF_vars(ReleaseRead(a)) /\ WF_vars(ReleaseEnd(a)) /\ WF_vars(ReleaseFree(a))
    /\ WF_vars(AttachSwap) /\ WF_vars(AttachRetire)
    /\ WF_vars(CloseSlot) /\ WF_vars(Forget)
    /\ \A l \in Links : WF_vars(DetachRetire(l))

FairSpec == Spec /\ Fairness

-----------------------------------------------------------------------------
(* Properties.                                                              *)

(* A connection is reachable or retired: a link that is neither in place    *)
(* nor in the hands of whoever swaps it or takes it out has had its queue   *)
(* stopped, so whoever still holds it can draw nothing through it           *)
(* (device.rs:196-221).                                                     *)
OldLinksRetired ==
    \A l \in 1 .. made : ~stopped[l] => l \in {link, incoming, outgoing} \cup detached

(* Forgetting the device strands no link, however it races a reconnect      *)
(* (device/fleet.rs:135-138): afterwards every connection ever made to it   *)
(* is retired, or about to be by the detach() that took it out, and no      *)
(* lease is in its slot.                                                    *)
NothingStranded ==
    fate = "forgotten" =>
        /\ link = NoLink /\ lease = Closed
        /\ \A l \in 1 .. made : stopped[l] \/ l \in detached

(* While every call has looked up the current link (no reconnect has split  *)
(* them), a hold on it belongs to somebody who will let it go: to a call    *)
(* about to be granted, to the lease in the slot, or to one being ended. A  *)
(* hold has no deadline of its own, so any other would wedge the panel      *)
(* (command_queue.rs:266).                                                  *)
Ending(a) == watcher[a] = "free" \/ \E b \in Agents : release[b] = "free" /\ prey[b] = a
HoldAccountedFor ==
    \A a \in Agents :
        /\ aim[a] = link /\ link # NoLink /\ owner[link] = a
        /\ \A b \in Agents : aim[b] \in {NoLink, link}
        => acquire[a] = "held" \/ lease \in {a, Closed} \/ Ending(a)

(* On a panel that did not reconnect since the lease was asked for, a       *)
(* lease in the slot has the panel's queue held for it.                     *)
LeaseHoldsItsLink ==
    lease \in Agents /\ aim[lease] = link => owner[link] = lease

(* Every lease ends: nobody keeps the panel without renewing.               *)
LeaseEnds == \A a \in Agents : (lease = a) ~> (lease # a)
=============================================================================
