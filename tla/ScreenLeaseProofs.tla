-------------------------- MODULE ScreenLeaseProofs --------------------------
(***************************************************************************)
(* What holds of ScreenLease for any number of calls, connections, ticks   *)
(* and renewals. All of it rests on one inductive invariant: links are     *)
(* numbered in the order they were made, a call knows the link it looked   *)
(* up, only a granted call is found in the slot or on anybody's list of    *)
(* leases to end, and a call that holds a queue, or whose lease is in the  *)
(* slot, has the queue of the link it looked up.                           *)
(***************************************************************************)
EXTENDS ScreenLease, TLAPS

(* A link being put in place is newer than all that calls have seen, and    *)
(* attach() is at none any more once the device is removed.                 *)
Numbered ==
    /\ link <= made /\ \A a \in Agents : aim[a] <= made
    /\ incoming # NoLink => /\ incoming = made /\ outgoing = NoLink /\ link < made
                            /\ \A a \in Agents : aim[a] < made
    /\ fate # "known" => incoming = NoLink /\ outgoing = NoLink

Aimed ==
    \A a \in Agents : /\ acquire[a] = "idle" => aim[a] = NoLink
                      /\ acquire[a] \in {"looked", "held", "granted"} => aim[a] # NoLink

(* What leases are and were: the calls that were granted.                   *)
Granted ==
    \A a \in Agents :
        lease = a \/ watcher[a] # "off" \/ (\E b \in Agents : prey[b] = a)
            => acquire[a] = "granted"

(* Whoever owns a queue has asked for it and was not turned away; until it  *)
(* is granted that is the queue of the link it looked up, and no other.     *)
Owners ==
    \A a \in Agents, l \in Links :
        owner[l] = a => acquire[a] = "granted" \/ (acquire[a] = "held" /\ l = aim[a])

(* The hold of a call stays from the moment it is taken until the lease,    *)
(* taken out of the slot for good, gives it back.                           *)
Holds ==
    \A a \in Agents : /\ acquire[a] = "held" \/ lease = a => owner[aim[a]] = a
                      /\ Ending(a) => lease # a

IInv ==
    /\ TypeOK /\ Numbered /\ Aimed /\ Granted /\ Owners /\ Holds
    /\ OldLinksRetired /\ NothingStranded /\ HoldAccountedFor

-----------------------------------------------------------------------------

LEMMA Constants ==
    /\ MaxLinks \in Nat /\ TTL \in Nat /\ MaxRenewals \in Nat /\ MaxLinks > 0 /\ TTL > 0
    /\ Session \notin Agents /\ None \notin Agents /\ None # Session
    /\ Closed \notin Agents /\ Closed # Session /\ Closed # None
    /\ NoLink \notin Links
  BY LeaseAssumption DEF NoLink, Links

LEMMA InitIInv == Init => IInv
<1> SUFFICES ASSUME Init PROVE IInv
  OBVIOUS
<1> USE Constants DEF Init
<1>1. TypeOK
  BY DEF TypeOK, Links, NoLink
<1>2. Numbered /\ Aimed /\ Granted /\ Owners
  BY DEF Numbered, Aimed, Granted, Owners, Links, NoLink
<1>3. Holds
  BY DEF Holds, Ending
<1>4. OldLinksRetired /\ NothingStranded /\ HoldAccountedFor
  BY DEF OldLinksRetired, NothingStranded, HoldAccountedFor
<1> QED
  BY <1>1, <1>2, <1>3, <1>4 DEF IInv

(* Types are kept. *)
LEMMA TypeStep ==
    TypeOK /\ [Next]_vars => TypeOK'
<1> SUFFICES ASSUME TypeOK, [Next]_vars
             PROVE  TypeOK'
  OBVIOUS
<1> USE Constants DEF TypeOK, links, slot, agents, enders
<1>1. ASSUME NEW a \in Agents, AcquireLook(a) PROVE TypeOK'
  BY <1>1 DEF AcquireLook
<1>2. ASSUME NEW a \in Agents, AcquireHold(a) PROVE TypeOK'
  BY <1>2 DEF AcquireHold, CanHold
<1>3. ASSUME NEW a \in Agents, AcquireSet(a) PROVE TypeOK'
  <2>1. CASE SlotOpen
    BY <1>3, <2>1 DEF AcquireSet, SlotOpen
  <2>2. CASE ~SlotOpen /\ aim[a] \in Links
    BY <1>3, <2>2 DEF AcquireSet, SlotOpen
  <2>3. CASE ~SlotOpen /\ aim[a] \notin Links
    BY <1>3, <2>3 DEF AcquireSet, SlotOpen
  <2> QED
    BY <2>1, <2>2, <2>3
<1>4. ASSUME NEW a \in Agents, Renew(a) PROVE TypeOK'
  BY <1>4 DEF Renew, Extend
<1>5. ASSUME NEW a \in Agents, WatchLook(a) PROVE TypeOK'
  BY <1>5 DEF WatchLook
<1>6. ASSUME NEW a \in Agents, WatchEnd(a) PROVE TypeOK'
  BY <1>6 DEF WatchEnd, TakeLease
<1>7. ASSUME NEW a \in Agents, WatchFree(a) PROVE TypeOK'
  BY <1>7 DEF WatchFree, Unheld
<1>8. ASSUME NEW a \in Agents, ReleaseFind(a) PROVE TypeOK'
  BY <1>8 DEF ReleaseFind
<1>9. ASSUME NEW a \in Agents, ReleaseRead(a) PROVE TypeOK'
  <2>1. CASE lease \in Agents
    BY <1>9, <2>1 DEF ReleaseRead
  <2>2. CASE lease \notin Agents
    BY <1>9, <2>2 DEF ReleaseRead
  <2> QED
    BY <2>1, <2>2
<1>10. ASSUME NEW a \in Agents, ReleaseEnd(a) PROVE TypeOK'
  BY <1>10 DEF ReleaseEnd, TakeLease
<1>11. ASSUME NEW a \in Agents, ReleaseFree(a) PROVE TypeOK'
  BY <1>11 DEF ReleaseFree, Unheld
<1>12. CASE SessionTakes
  BY <1>12 DEF SessionTakes, CanHold
<1>13. CASE SessionLeaves
  BY <1>13 DEF SessionLeaves
<1>14. CASE Tick
  BY <1>14 DEF Tick
<1>15. CASE AttachMake
  BY <1>15 DEF AttachMake, Adopting, Links, NoLink
<1>16. CASE AttachSwap
  BY <1>16 DEF AttachSwap
<1>17. CASE AttachRetire
  BY <1>17 DEF AttachRetire
<1>18. CASE Detach \/ \E l \in Links : DetachRetire(l)
  BY <1>18 DEF Detach, DetachRetire
<1>19. CASE Remove
  BY <1>19 DEF Remove, Adopting
<1>20. CASE CloseSlot
  BY <1>20 DEF CloseSlot
<1>21. CASE Forget
  BY <1>21 DEF Forget
<1>22. CASE UNCHANGED vars
  BY <1>22 DEF vars
<1> QED
  BY <1>1, <1>2, <1>3, <1>4, <1>5, <1>6, <1>7, <1>8, <1>9, <1>10, <1>11, <1>12, <1>13, <1>14,
     <1>15, <1>16, <1>17, <1>18, <1>19, <1>20, <1>21, <1>22 DEF Next, Caller, Watcher, Releaser,
     TheFleet

(* A link is seen only after it was put in place, and the fleet's lock      *)
(* keeps a removal from a link that attach() is at.                         *)
LEMMA NumberedStep ==
    TypeOK /\ Numbered /\ [Next]_vars => Numbered'
<1> SUFFICES ASSUME TypeOK, Numbered, [Next]_vars
             PROVE  Numbered'
  OBVIOUS
<1> USE Constants DEF TypeOK, Numbered, Links, NoLink, links, slot, agents, enders
<1>1. ASSUME NEW a \in Agents, AcquireLook(a) PROVE Numbered'
  BY <1>1 DEF AcquireLook
<1>2. ASSUME NEW a \in Agents, AcquireHold(a) \/ AcquireSet(a) \/ Renew(a) \/ WatchLook(a) \/
             WatchEnd(a) \/ WatchFree(a) \/ ReleaseFind(a) \/ ReleaseRead(a) \/ ReleaseEnd(a) \/
             ReleaseFree(a)
      PROVE  Numbered'
  BY <1>2 DEF AcquireHold, CanHold, AcquireSet, SlotOpen, Renew, Extend, WatchLook, WatchEnd,
     TakeLease, WatchFree, Unheld, ReleaseFind, ReleaseRead, ReleaseEnd, ReleaseFree
<1>3. CASE SessionTakes \/ SessionLeaves \/ Tick \/ CloseSlot
  BY <1>3 DEF SessionTakes, CanHold, SessionLeaves, Tick, CloseSlot
<1>4. CASE AttachMake
  <2>1. /\ made' = made + 1 /\ incoming' = made' /\ incoming = NoLink /\ outgoing = NoLink
        /\ UNCHANGED <<link, outgoing, fate, aim>> /\ fate = "known"
    BY <1>4 DEF AttachMake, Adopting
  <2>2. made \in Nat /\ link \in Nat /\ \A a \in Agents : aim[a] \in Nat
    OBVIOUS
  <2> QED
    BY <2>1, <2>2 DEF Numbered
<1>5. CASE AttachSwap
  BY <1>5 DEF AttachSwap
<1>6. CASE AttachRetire \/ Detach \/ \E l \in Links : DetachRetire(l)
  BY <1>6 DEF AttachRetire, Detach, DetachRetire
<1>7. CASE Remove \/ Forget
  BY <1>7 DEF Remove, Adopting, Forget
<1>8. CASE UNCHANGED vars
  BY <1>8 DEF vars
<1> QED
  BY <1>1, <1>2, <1>3, <1>4, <1>5, <1>6, <1>7, <1>8 DEF Next, Caller, Watcher, Releaser, TheFleet

(* A call goes on only with a link it found.                                *)
LEMMA AimedStep ==
    TypeOK /\ Aimed /\ [Next]_vars => Aimed'
<1> SUFFICES ASSUME TypeOK, Aimed, [Next]_vars
             PROVE  Aimed'
  OBVIOUS
<1> USE Constants DEF TypeOK, Aimed, links, slot, agents, enders
<1>1. ASSUME NEW a \in Agents, AcquireLook(a) PROVE Aimed'
  BY <1>1 DEF AcquireLook
<1>2. ASSUME NEW a \in Agents, AcquireHold(a) \/ AcquireSet(a) PROVE Aimed'
  BY <1>2 DEF AcquireHold, CanHold, AcquireSet, SlotOpen
<1>3. ASSUME NEW a \in Agents, Renew(a) \/ WatchLook(a) \/ WatchEnd(a) \/ WatchFree(a) \/
             ReleaseFind(a) \/ ReleaseRead(a) \/ ReleaseEnd(a) \/ ReleaseFree(a)
      PROVE  Aimed'
  BY <1>3 DEF Renew, Extend, WatchLook, WatchEnd, TakeLease, WatchFree, Unheld, ReleaseFind,
     ReleaseRead, ReleaseEnd, ReleaseFree
<1>4. CASE SessionTakes \/ SessionLeaves \/ Tick \/ AttachMake \/ AttachSwap
  BY <1>4 DEF SessionTakes, CanHold, SessionLeaves, Tick, AttachMake, Adopting, AttachSwap
<1>5. CASE AttachRetire \/ Detach \/ (\E l \in Links : DetachRetire(l)) \/ Remove \/ CloseSlot
           \/ Forget
  BY <1>5 DEF AttachRetire, Detach, DetachRetire, Remove, Adopting, CloseSlot, Forget
<1>6. CASE UNCHANGED vars
  BY <1>6 DEF vars
<1> QED
  BY <1>1, <1>2, <1>3, <1>4, <1>5, <1>6 DEF Next, Caller, Watcher, Releaser, TheFleet

(* A lease comes into the slot with its call's grant, and is found only     *)
(* there.                                                                   *)
LEMMA GrantedStep ==
    TypeOK /\ Granted /\ [Next]_vars => Granted'
<1> SUFFICES ASSUME TypeOK, Granted, [Next]_vars
             PROVE  Granted'
  OBVIOUS
<1> USE Constants DEF TypeOK, Granted, links, slot, agents, enders
<1>1. ASSUME NEW a \in Agents, AcquireLook(a) \/ AcquireHold(a) \/ Renew(a) PROVE Granted'
  BY <1>1 DEF AcquireLook, AcquireHold, CanHold, Renew, Extend
<1>2. ASSUME NEW a \in Agents, AcquireSet(a) PROVE Granted'
  BY <1>2 DEF AcquireSet, SlotOpen
<1>3. ASSUME NEW a \in Agents, WatchLook(a) PROVE Granted'
  BY <1>3 DEF WatchLook
<1>4. ASSUME NEW a \in Agents, WatchEnd(a) PROVE Granted'
  BY <1>4 DEF WatchEnd, TakeLease
<1>5. ASSUME NEW a \in Agents, WatchFree(a) PROVE Granted'
  BY <1>5 DEF WatchFree, Unheld
<1>6. ASSUME NEW a \in Agents, ReleaseFind(a) \/ ReleaseFree(a) PROVE Granted'
  BY <1>6 DEF ReleaseFind, ReleaseFree, Unheld
<1>7. ASSUME NEW a \in Agents, ReleaseRead(a) PROVE Granted'
  BY <1>7 DEF ReleaseRead
<1>8. ASSUME NEW a \in Agents, ReleaseEnd(a) PROVE Granted'
  BY <1>8 DEF ReleaseEnd, TakeLease
<1>9. CASE SessionTakes \/ SessionLeaves \/ Tick \/ TheFleet
  BY <1>9 DEF TheFleet, SessionTakes, CanHold, SessionLeaves, Tick, AttachMake, Adopting,
     AttachSwap, AttachRetire, Detach, DetachRetire, Remove, CloseSlot, Forget
<1>10. CASE UNCHANGED vars
  BY <1>10 DEF vars
<1> QED
  BY <1>1, <1>2, <1>3, <1>4, <1>5, <1>6, <1>7, <1>8, <1>9, <1>10 DEF Next, Caller, Watcher,
     Releaser, TheFleet

(* A queue is held by a call that just took it, or for the lease in the     *)
(* slot when the link is made.                                              *)
LEMMA OwnersStep ==
    TypeOK /\ Aimed /\ Granted /\ Owners /\ Holds /\ [Next]_vars => Owners'
<1> SUFFICES ASSUME TypeOK, Aimed, Granted, Owners, Holds, [Next]_vars
             PROVE  Owners'
  OBVIOUS
<1> USE Constants DEF TypeOK, Aimed, Granted, Owners, Holds, links, slot, agents, enders
<1>1. ASSUME NEW a \in Agents, AcquireLook(a) PROVE Owners'
  BY <1>1 DEF AcquireLook
<1>2. ASSUME NEW a \in Agents, AcquireHold(a) PROVE Owners'
  BY <1>2 DEF AcquireHold, CanHold
<1>3. ASSUME NEW a \in Agents, AcquireSet(a) PROVE Owners'
  BY <1>3 DEF AcquireSet, SlotOpen
<1>4. ASSUME NEW a \in Agents, Renew(a) \/ WatchLook(a) \/ WatchEnd(a) \/ ReleaseFind(a) \/
             ReleaseRead(a) \/ ReleaseEnd(a)
      PROVE  Owners'
  BY <1>4 DEF Renew, Extend, WatchLook, WatchEnd, TakeLease, ReleaseFind, ReleaseRead, ReleaseEnd
<1>5. ASSUME NEW a \in Agents, WatchFree(a) \/ ReleaseFree(a) PROVE Owners'
  BY <1>5 DEF WatchFree, Unheld, ReleaseFree
<1>6. CASE SessionTakes \/ SessionLeaves
  BY <1>6 DEF SessionTakes, CanHold, SessionLeaves
<1>7. CASE AttachMake
  BY <1>7 DEF AttachMake, Adopting
<1>8. CASE Tick \/ AttachSwap \/ AttachRetire \/ Detach \/ (\E l \in Links : DetachRetire(l))
           \/ Remove \/ CloseSlot \/ Forget
  BY <1>8 DEF Tick, AttachSwap, AttachRetire, Detach, DetachRetire, Remove, Adopting, CloseSlot,
     Forget
<1>9. CASE UNCHANGED vars
  BY <1>9 DEF vars
<1> QED
  BY <1>1, <1>2, <1>3, <1>4, <1>5, <1>6, <1>7, <1>8, <1>9 DEF Next, Caller, Watcher, Releaser,
     TheFleet

(* No step of anybody else's takes a hold away: a free queue is taken, not  *)
(* an owned one, and only the owner's own end, after its lease has left     *)
(* the slot, frees it.                                                      *)
LEMMA HoldsStep ==
    TypeOK /\ Numbered /\ Aimed /\ Granted /\ Holds /\ [Next]_vars => Holds'
<1> SUFFICES ASSUME TypeOK, Numbered, Aimed, Granted, Holds, [Next]_vars
             PROVE  Holds'
  OBVIOUS
<1> USE Constants DEF TypeOK, Numbered, Aimed, Granted, Holds, Ending, links, slot, agents, enders
<1>1. ASSUME NEW a \in Agents, AcquireLook(a) PROVE Holds'
  BY <1>1 DEF AcquireLook
<1>2. ASSUME NEW a \in Agents, AcquireHold(a) PROVE Holds'
  BY <1>2 DEF AcquireHold, CanHold
<1>3. ASSUME NEW a \in Agents, AcquireSet(a) PROVE Holds'
  <2>1. ASSUME NEW b \in Agents, Ending(b)' PROVE b # a /\ Ending(b)
    BY <1>3, <2>1 DEF AcquireSet
  <2>2. ASSUME NEW b \in Agents, acquire'[b] = "held" PROVE b # a /\ acquire[b] = "held"
    BY <1>3, <2>2 DEF AcquireSet
  <2>3. CASE SlotOpen
    BY <1>3, <2>1, <2>2, <2>3 DEF AcquireSet
  <2>4. CASE ~SlotOpen
    BY <1>3, <2>1, <2>2, <2>4 DEF AcquireSet, SlotOpen
  <2> QED
    BY <2>3, <2>4
<1>4. ASSUME NEW a \in Agents, Renew(a) PROVE Holds'
  BY <1>4 DEF Renew, Extend
<1>5. ASSUME NEW a \in Agents, WatchLook(a) PROVE Holds'
  BY <1>5 DEF WatchLook
<1>6. ASSUME NEW a \in Agents, WatchEnd(a) PROVE Holds'
  BY <1>6 DEF WatchEnd, TakeLease
<1>7. ASSUME NEW a \in Agents, WatchFree(a) PROVE Holds'
  BY <1>7 DEF WatchFree, Unheld
<1>8. ASSUME NEW a \in Agents, ReleaseFind(a) PROVE Holds'
  BY <1>8 DEF ReleaseFind
<1>9. ASSUME NEW a \in Agents, ReleaseRead(a) PROVE Holds'
  <2>1. ASSUME NEW b \in Agents, Ending(b)' PROVE Ending(b)
    BY <1>9, <2>1 DEF ReleaseRead
  <2> QED
    BY <1>9, <2>1 DEF ReleaseRead
<1>10. ASSUME NEW a \in Agents, ReleaseEnd(a) PROVE Holds'
  BY <1>10 DEF ReleaseEnd, TakeLease
<1>11. ASSUME NEW a \in Agents, ReleaseFree(a) PROVE Holds'
  <2>1. ASSUME NEW b \in Agents, Ending(b)' PROVE Ending(b)
    BY <1>11, <2>1 DEF ReleaseFree
  <2>2. ASSUME NEW b \in Agents, acquire[b] = "held" \/ lease = b PROVE b # prey[a]
    BY <1>11, <2>2 DEF ReleaseFree
  <2>3. ASSUME NEW b \in Agents, NEW l \in Links, owner[l] = b, b # prey[a] PROVE owner'[l] = b
    BY <1>11, <2>3 DEF ReleaseFree, Unheld
  <2> QED
    BY <1>11, <2>1, <2>2, <2>3 DEF ReleaseFree
<1>12. CASE SessionTakes \/ SessionLeaves
  BY <1>12 DEF SessionTakes, CanHold, SessionLeaves
<1>13. CASE AttachMake
  <2>1. ASSUME NEW l \in Links, l <= made PROVE owner'[l] = owner[l]
    BY <1>13, <2>1 DEF AttachMake, Adopting, Links, NoLink
  <2> QED
    BY <1>13, <2>1 DEF AttachMake, Adopting
<1>14. CASE Tick \/ AttachSwap \/ AttachRetire \/ Detach \/ (\E l \in Links : DetachRetire(l))
            \/ Remove
  BY <1>14 DEF Tick, AttachSwap, AttachRetire, Detach, DetachRetire, Remove, Adopting
<1>15. CASE CloseSlot \/ Forget
  BY <1>15 DEF CloseSlot, Forget
<1>16. CASE UNCHANGED vars
  BY <1>16 DEF vars
<1> QED
  BY <1>1, <1>2, <1>3, <1>4, <1>5, <1>6, <1>7, <1>8, <1>9, <1>10, <1>11, <1>12, <1>13, <1>14,
     <1>15, <1>16 DEF Next, Caller, Watcher, Releaser, TheFleet

(* Whoever takes a link out of its place has it in hand until it is         *)
(* stopped.                                                                 *)
LEMMA RetiredStep ==
    TypeOK /\ Numbered /\ OldLinksRetired /\ [Next]_vars => OldLinksRetired'
<1> SUFFICES ASSUME TypeOK, Numbered, OldLinksRetired, [Next]_vars
             PROVE  OldLinksRetired'
  OBVIOUS
<1> USE Constants DEF TypeOK, Numbered, OldLinksRetired, Links, NoLink, links, slot, agents, enders
<1>1. ASSUME NEW a \in Agents, AcquireLook(a) \/ AcquireHold(a) \/ AcquireSet(a) \/ Renew(a) \/
             WatchLook(a) \/ WatchEnd(a) \/ WatchFree(a) \/ ReleaseFind(a) \/ ReleaseRead(a) \/
             ReleaseEnd(a) \/ ReleaseFree(a)
      PROVE  OldLinksRetired'
  BY <1>1 DEF AcquireLook, AcquireHold, CanHold, AcquireSet, SlotOpen, Renew, Extend, WatchLook,
     WatchEnd, TakeLease, WatchFree, Unheld, ReleaseFind, ReleaseRead, ReleaseEnd, ReleaseFree
<1>2. CASE SessionTakes \/ SessionLeaves \/ Tick \/ Remove \/ CloseSlot
  BY <1>2 DEF SessionTakes, CanHold, SessionLeaves, Tick, Remove, Adopting, CloseSlot
<1>3. CASE AttachMake
  BY <1>3 DEF AttachMake, Adopting
<1>4. CASE AttachSwap
  BY <1>4 DEF AttachSwap
<1>5. CASE AttachRetire
  BY <1>5 DEF AttachRetire
<1>6. CASE Detach \/ \E l \in Links : DetachRetire(l)
  BY <1>6 DEF Detach, DetachRetire
<1>7. CASE Forget
  BY <1>7 DEF Forget
<1>8. CASE UNCHANGED vars
  BY <1>8 DEF vars
<1> QED
  BY <1>1, <1>2, <1>3, <1>4, <1>5, <1>6, <1>7, <1>8 DEF Next, Caller, Watcher, Releaser, TheFleet

(* The slot is closed before the link is detached, and stays closed.        *)
LEMMA StrandedStep ==
    TypeOK /\ Numbered /\ OldLinksRetired /\ NothingStranded /\ [Next]_vars => NothingStranded'
<1> SUFFICES ASSUME TypeOK, Numbered, OldLinksRetired, NothingStranded, [Next]_vars
             PROVE  NothingStranded'
  OBVIOUS
<1> USE Constants DEF TypeOK, Numbered, OldLinksRetired, NothingStranded, Links, NoLink, links,
     slot, agents, enders
<1>1. ASSUME NEW a \in Agents, AcquireSet(a) \/ WatchEnd(a) \/ ReleaseEnd(a)
      PROVE  NothingStranded'
  BY <1>1 DEF AcquireSet, SlotOpen, WatchEnd, TakeLease, ReleaseEnd
<1>2. ASSUME NEW a \in Agents, AcquireLook(a) \/ AcquireHold(a) \/ Renew(a) \/ WatchLook(a) \/
             WatchFree(a) \/ ReleaseFind(a) \/ ReleaseRead(a) \/ ReleaseFree(a)
      PROVE  NothingStranded'
  BY <1>2 DEF AcquireLook, AcquireHold, CanHold, Renew, Extend, WatchLook, WatchFree, Unheld,
     ReleaseFind, ReleaseRead, ReleaseFree
<1>3. CASE SessionTakes \/ SessionLeaves \/ Tick \/ CloseSlot \/ Remove
  BY <1>3 DEF SessionTakes, CanHold, SessionLeaves, Tick, CloseSlot, Remove, Adopting
<1>4. CASE AttachMake \/ AttachSwap \/ AttachRetire
  BY <1>4 DEF AttachMake, Adopting, AttachSwap, AttachRetire
<1>5. CASE Detach \/ \E l \in Links : DetachRetire(l)
  BY <1>5 DEF Detach, DetachRetire
<1>6. CASE Forget
  BY <1>6 DEF Forget
<1>7. CASE UNCHANGED vars
  BY <1>7 DEF vars
<1> QED
  BY <1>1, <1>2, <1>3, <1>4, <1>5, <1>6, <1>7 DEF Next, Caller, Watcher, Releaser, TheFleet

(* A link just put in place is one no call has seen, so what is owed there  *)
(* starts afresh; on the link all of them have seen only the owner's own    *)
(* end gives its hold back.                                                 *)
LEMMA AccountStep ==
    TypeOK /\ Numbered /\ Aimed /\ Granted /\ Owners /\ Holds /\ HoldAccountedFor /\ [Next]_vars
        => HoldAccountedFor'
<1> SUFFICES ASSUME TypeOK, Numbered, Aimed, Granted, Owners, Holds, HoldAccountedFor, [Next]_vars
             PROVE  HoldAccountedFor'
  OBVIOUS
<1> USE Constants DEF TypeOK, Numbered, Aimed, Granted, Owners, Holds, HoldAccountedFor, Ending,
     Links, NoLink, links, slot, agents, enders
<1>1. ASSUME NEW a \in Agents, AcquireLook(a) PROVE HoldAccountedFor'
  <2>1. /\ UNCHANGED <<link, owner, lease, watcher, release, prey>>
        /\ acquire[a] = "idle" /\ aim[a] = NoLink
        /\ \A b \in Agents \ {a} : acquire'[b] = acquire[b] /\ aim'[b] = aim[b]
    BY <1>1 DEF AcquireLook
  <2>2. link # NoLink => owner[link] # a
    BY <2>1
  <2>3. ASSUME NEW b \in Agents, aim'[b] = link, link # NoLink, owner[link] = b,
               \A c \in Agents : aim'[c] \in {NoLink, link}
        PROVE  acquire'[b] = "held" \/ lease \in {b, Closed} \/ Ending(b)
    <3>1. b # a /\ aim[b] = link
      BY <2>1, <2>2, <2>3
    <3>2. \A c \in Agents : aim[c] \in {NoLink, link}
      BY <2>1, <2>3
    <3> QED
      BY <2>1, <2>3, <3>1, <3>2
  <2> QED
    BY <2>1, <2>3
<1>2. ASSUME NEW a \in Agents, AcquireHold(a) PROVE HoldAccountedFor'
  BY <1>2 DEF AcquireHold, CanHold
<1>3. ASSUME NEW a \in Agents, AcquireSet(a) PROVE HoldAccountedFor'
  BY <1>3 DEF AcquireSet, SlotOpen
<1>4. ASSUME NEW a \in Agents, Renew(a) PROVE HoldAccountedFor'
  BY <1>4 DEF Renew, Extend
<1>5. ASSUME NEW a \in Agents, WatchLook(a) PROVE HoldAccountedFor'
  BY <1>5 DEF WatchLook
<1>6. ASSUME NEW a \in Agents, WatchEnd(a) PROVE HoldAccountedFor'
  BY <1>6 DEF WatchEnd, TakeLease
<1>7. ASSUME NEW a \in Agents, WatchFree(a) PROVE HoldAccountedFor'
  BY <1>7 DEF WatchFree, Unheld
<1>8. ASSUME NEW a \in Agents, ReleaseFind(a) PROVE HoldAccountedFor'
  BY <1>8 DEF ReleaseFind
<1>9. ASSUME NEW a \in Agents, ReleaseRead(a) PROVE HoldAccountedFor'
  BY <1>9 DEF ReleaseRead
<1>10. ASSUME NEW a \in Agents, ReleaseEnd(a) PROVE HoldAccountedFor'
  BY <1>10 DEF ReleaseEnd, TakeLease
<1>11. ASSUME NEW a \in Agents, ReleaseFree(a) PROVE HoldAccountedFor'
  BY <1>11 DEF ReleaseFree, Unheld
<1>12. CASE SessionTakes \/ SessionLeaves
  BY <1>12 DEF SessionTakes, CanHold, SessionLeaves
<1>13. CASE AttachMake
  BY <1>13 DEF AttachMake, Adopting
<1>14. CASE AttachSwap
  BY <1>14 DEF AttachSwap
<1>15. CASE Tick \/ AttachRetire \/ Detach \/ (\E l \in Links : DetachRetire(l)) \/ Remove
  BY <1>15 DEF Tick, AttachRetire, Detach, DetachRetire, Remove, Adopting
<1>16. CASE CloseSlot \/ Forget
  BY <1>16 DEF CloseSlot, Forget
<1>17. CASE UNCHANGED vars
  BY <1>17 DEF vars
<1> QED
  BY <1>1, <1>2, <1>3, <1>4, <1>5, <1>6, <1>7, <1>8, <1>9, <1>10, <1>11, <1>12, <1>13, <1>14,
     <1>15, <1>16, <1>17 DEF Next, Caller, Watcher, Releaser, TheFleet

LEMMA Invariance == Spec => []IInv
<1>1. IInv /\ [Next]_vars => IInv'
  BY TypeStep, NumberedStep, AimedStep, GrantedStep, OwnersStep, HoldsStep, RetiredStep,
     StrandedStep, AccountStep DEF IInv
<1> QED
  BY InitIInv, <1>1, PTL DEF Spec

-----------------------------------------------------------------------------

(* Every variable has its type.                                             *)
THEOREM TypeCorrect == Spec => []TypeOK
<1>1. IInv => TypeOK
  BY DEF IInv
<1> QED
  BY Invariance, <1>1, PTL

(* A connection that is neither in place nor being swapped or taken out has *)
(* had its queue stopped.                                                   *)
THEOREM RetiredLinks == Spec => []OldLinksRetired
<1>1. IInv => OldLinksRetired
  BY DEF IInv
<1> QED
  BY Invariance, <1>1, PTL

(* Forgetting a device leaves no connection of its running and no lease in  *)
(* its slot: adopt() and remove() exclude each other, and a slot that is    *)
(* closed takes no lease a slow caller still comes with.                    *)
THEOREM ForgottenIsFree == Spec => []NothingStranded
<1>1. IInv => NothingStranded
  BY DEF IInv
<1> QED
  BY Invariance, <1>1, PTL

(* A hold on a link all callers have seen is one that somebody will give    *)
(* back.                                                                    *)
THEOREM HoldsAccounted == Spec => []HoldAccountedFor
<1>1. IInv => HoldAccountedFor
  BY DEF IInv
<1> QED
  BY Invariance, <1>1, PTL

(* A lease in the slot has the queue held on the link its call looked up,   *)
(* retired or not; so on a panel that did not reconnect it has the panel's. *)
THEOREM LeaseHolds == Spec => []LeaseHoldsItsLink
<1>1. IInv => LeaseHoldsItsLink
  BY DEF IInv, Holds, LeaseHoldsItsLink
<1> QED
  BY Invariance, <1>1, PTL
-----------------------------------------------------------------------------
(* A lease and an exclusive session use a connection's queue as SerialQueue *)
(* promises it: the slot is taken where it is free and the queue not        *)
(* stopped, and given back by its owner only. Seen is any one of the links; *)
(* items are not queued here.                                               *)
CONSTANT Seen

Slot == INSTANCE SerialQueue WITH
    Jobs <- {}, Tokens <- Agents \cup {Session}, NoToken <- None, NoJob <- None,
    queue <- <<>>, running <- None,
    owner <- owner[Seen], leased <- owner[Seen] \in Agents, closed <- stopped[Seen]

(* What a step may do to the queue of the link seen. *)
Takes(t)   == ~stopped[Seen] /\ owner[Seen] = None /\ owner'[Seen] = t /\ stopped'[Seen] = stopped[Seen]
Gives(t)   == owner[Seen] = t /\ owner'[Seen] = None /\ stopped'[Seen] = stopped[Seen]
Stops      == owner'[Seen] = owner[Seen] /\ stopped'[Seen]
Remains    == owner'[Seen] = owner[Seen] /\ stopped'[Seen] = stopped[Seen]
UsesSlot   == (\E t \in Agents \cup {Session} : Takes(t) \/ Gives(t)) \/ Stops \/ Remains

LEMMA SlotUsed ==
    ASSUME Seen \in Links, UsesSlot PROVE [Slot!Next]_(Slot!absVars)
<1> USE Constants
<1>1. ASSUME NEW t \in Agents \cup {Session}, Takes(t) PROVE Slot!Take(t)
  <2>1. ~stopped[Seen] /\ owner[Seen] \in {None, t} /\ owner'[Seen] = t /\ stopped'[Seen] = stopped[Seen]
    BY <1>1 DEF Takes
  <2>2. (owner'[Seen] \in Agents) \in {owner[Seen] \in Agents, TRUE}
    <3>1. CASE t \in Agents
      BY <2>1, <3>1
    <3>2. CASE t = Session
      <4>1. (owner'[Seen] \in Agents) = (owner[Seen] \in Agents)
        BY <2>1, <3>2
      <4> QED
        BY <4>1, Zenon
    <3> QED
      BY <3>1, <3>2
  <2> QED
    BY <2>1, <2>2 DEF Slot!Take
<1>2. ASSUME NEW t \in Agents \cup {Session}, Gives(t) PROVE Slot!Leave(t)
  BY <1>2 DEF Gives, Slot!Leave
<1>3. ASSUME Stops PROVE Slot!Close
  BY <1>3 DEF Stops, Slot!Close
<1>4. ASSUME Remains PROVE UNCHANGED Slot!absVars
  BY <1>4 DEF Remains, Slot!absVars
<1> QED
  BY <1>1, <1>2, <1>3, <1>4 DEF UsesSlot, Slot!Next

(* A link that is being made is nobody's yet, and is not stopped. *)
Unmade ==
    \A l \in Links : l > made => /\ owner[l] = None /\ ~stopped[l]
                                 /\ l # outgoing /\ l \notin detached

LEMMA UnmadeStep ==
    ASSUME IInv, Unmade, [Next]_vars PROVE Unmade'
<1> USE Constants DEF IInv, TypeOK, Aimed, Numbered, Unmade, Links, NoLink, links, slot, agents,
     enders
<1>1. ASSUME NEW a \in Agents,
             AcquireLook(a) \/ Renew(a) \/ WatchLook(a) \/ WatchEnd(a) \/ ReleaseFind(a) \/
             ReleaseRead(a) \/ ReleaseEnd(a)
      PROVE  UNCHANGED <<made, owner, stopped, outgoing, detached>>
  BY <1>1 DEF AcquireLook, Renew, WatchLook, WatchEnd, ReleaseFind, ReleaseRead, ReleaseEnd
<1>2. ASSUME NEW a \in Agents, AcquireHold(a) PROVE Unmade'
  BY <1>2 DEF AcquireHold, CanHold
<1>3. ASSUME NEW a \in Agents, AcquireSet(a) \/ WatchFree(a) \/ ReleaseFree(a) PROVE Unmade'
  BY <1>3 DEF AcquireSet, WatchFree, ReleaseFree, Unheld
<1>4. CASE SessionTakes \/ SessionLeaves
  BY <1>4 DEF SessionTakes, CanHold, SessionLeaves
<1>5. CASE Tick \/ AttachSwap \/ Remove \/ CloseSlot \/ UNCHANGED vars
  BY <1>5 DEF Tick, AttachSwap, Remove, CloseSlot, vars
<1>6. CASE AttachMake
  BY <1>6 DEF AttachMake, Adopting
<1>7. CASE AttachRetire \/ Detach \/ (\E l \in Links : DetachRetire(l)) \/ Forget
  BY <1>7 DEF AttachRetire, Detach, DetachRetire, Forget
<1> QED
  BY <1>1, <1>2, <1>3, <1>4, <1>5, <1>6, <1>7 DEF Next, Caller, Watcher, Releaser, TheFleet

LEMMA SlotStep ==
    ASSUME Seen \in Links, IInv, Unmade, [Next]_vars PROVE UsesSlot
<1> USE Constants DEF IInv, TypeOK, Links, NoLink, UsesSlot, Takes, Gives, Stops, Remains,
                      links, slot, agents, enders
<1>1. ASSUME NEW a \in Agents,
             AcquireLook(a) \/ Renew(a) \/ WatchLook(a) \/ WatchEnd(a) \/ ReleaseFind(a) \/
             ReleaseRead(a) \/ ReleaseEnd(a)
      PROVE  Remains
  BY <1>1 DEF AcquireLook, Renew, WatchLook, WatchEnd, ReleaseFind, ReleaseRead, ReleaseEnd
<1>2. ASSUME NEW a \in Agents, AcquireHold(a) PROVE Takes(a) \/ Remains
  BY <1>2 DEF AcquireHold, CanHold
<1>3. ASSUME NEW a \in Agents, AcquireSet(a) \/ WatchFree(a) PROVE Gives(a) \/ Remains
  BY <1>3 DEF AcquireSet, WatchFree, Unheld
<1>4. ASSUME NEW a \in Agents, ReleaseFree(a) PROVE UsesSlot
  BY <1>4 DEF ReleaseFree, Unheld
<1>5. CASE SessionTakes
  BY <1>5 DEF SessionTakes, CanHold
<1>6. CASE SessionLeaves
  BY <1>6 DEF SessionLeaves
<1>7. CASE Tick \/ AttachSwap \/ Remove \/ CloseSlot \/ UNCHANGED vars
  BY <1>7 DEF Tick, AttachSwap, Remove, CloseSlot, vars
<1>8. CASE AttachMake
  BY <1>8 DEF AttachMake, Unmade, Takes
<1>9. CASE AttachRetire \/ Detach \/ (\E l \in Links : DetachRetire(l)) \/ Forget
  BY <1>9 DEF AttachRetire, Detach, DetachRetire, Forget
<1> QED
  BY <1>1, <1>2, <1>3, <1>4, <1>5, <1>6, <1>7, <1>8, <1>9 DEF Next, Caller, Watcher, Releaser,
     TheFleet

(* Leases, sessions and the fleet together never do to the slot of a        *)
(* connection's queue what the queue does not offer: they take it over from *)
(* nobody, a release that comes late frees nobody else's, and none is taken *)
(* on a link that was retired.                                              *)
THEOREM SlotIsSerial == ASSUME Seen \in Links PROVE Spec => Slot!Spec
<1>1. Init => Unmade /\ Slot!Init
  BY Constants DEF Init, Unmade, NoLink, Links, Slot!Init
<1>2. IInv /\ Unmade /\ [Next]_vars => Unmade' /\ [Slot!Next]_(Slot!absVars)
  BY UnmadeStep, SlotStep, SlotUsed
<1> QED
  BY <1>1, <1>2, Invariance, PTL DEF Spec, Slot!Spec
=============================================================================
