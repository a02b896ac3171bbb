--------------------------- MODULE FleetLinksProofs ---------------------------
(***************************************************************************)
(* What holds of FleetLinks for any number of panels, clients, requests    *)
(* and links. All of it rests on one inductive invariant: TypeOK, where a  *)
(* task that works on one panel knows which, who has the radio, what a     *)
(* task with the radio may rely on, which tasks have links in hand, who    *)
(* will fill an active slot that is empty, and, for a panel whose requests *)
(* do not overlap, that it is linked and struck out by one task at a time. *)
(***************************************************************************)
EXTENDS FleetLinks, TLAPS

(* Where a connect has the radio, and where a task has links in hand.       *)
OnRadio == {"radio", "dialling", "dialled", "attached", "choosing", "adopted", "remembered"}
Holding == {"dialled", "removed", "unselecting", "passing", "selecting", "leaving"}

(* Where a task works on one panel.                                         *)
OnPanel == OnRadio \cup {"borrowing", "unheld", "asked", "waiting", "borrowed", "named",
                         "found", "removed", "unselecting", "passing", "selecting"}

Targeted == \A t \in Tasks : /\ at[t] \in OnPanel => panel[t] \in Panels
                             /\ At(t, "selecting") => next[t] \in Panels

Guarded == \A t \in Tasks : at[t] \in OnRadio <=> t \in radio

(* Once it has looked again, a connect's panel stays unlinked: only a task  *)
(* with the radio attaches a link.                                          *)
FreeToDial ==
    \A t \in Tasks : at[t] \in {"dialling", "dialled"} => link[panel[t]] = None

InHand ==
    \A t \in Tasks : /\ At(t, "dialled") => \A l, m \in hand[t] : l = m
                     /\ \A l \in Links : l \in hand[t] => at[t] \in Holding

(* An empty slot beside a linked panel is in somebody's hands: a connect    *)
(* that has yet to look at it, a remove that has yet to pass it on, a drain *)
(* that has yet to empty the fleet.                                         *)
Filling ==
    selected = None /\ (\E p \in Panels : Linked(p))
        => \E t \in Tasks : at[t] \in {"attached", "choosing", "passing", "selecting",
                                            "unselected"}

(* A panel whose requests do not overlap has one task at work on it.        *)
Alone == \A p \in Panels \ mixed : \A t, u \in WorkingOn(p) : t = u

(* While a task that dropped such a panel goes on, it has no link ...       *)
Dropping == {"removed", "unselecting", "passing", "selecting", "leaving", "hungUp"}
StaysUnlinked ==
    \A p \in Panels \ mixed, t \in Tasks :
        at[t] \in Dropping /\ panel[t] \in {p, None} => ~Linked(p)

(* ... and while it has one it is written down, or about to be.             *)
Listing == {"attached", "choosing", "adopted"}
ListedSoon ==
    \A p \in Panels \ mixed :
        Linked(p) => p \in wanted \/ \E t \in Tasks : panel[t] = p /\ at[t] \in Listing

IInv ==
    /\ TypeOK /\ Targeted /\ Guarded /\ FreeToDial /\ InHand /\ Filling /\ NothingStranded
    /\ Alone /\ StaysUnlinked /\ ListedSoon

(* None is no panel and no link.                                            *)
LEMMA NoneApart == None \notin Panels /\ None \notin Links
  BY FleetAssumption DEF None, Panels, Links

(* Types are kept: what a task writes it has from a typed variable.         *)
LEMMA TypeStep == TypeOK /\ Targeted /\ [Next]_vars => TypeOK'
<1> SUFFICES ASSUME TypeOK, Targeted, [Next]_vars PROVE TypeOK'
  OBVIOUS
<1> USE FleetAssumption, NoneApart DEF TypeOK, Targeted, OnRadio, OnPanel, Linked,
     Places, Kinds, At, Move, Go, Tasks
<1>1. CASE UNCHANGED vars
  BY <1>1 DEF vars, fleet, air, list, past, what
<1>2. ASSUME NEW c \in Clients, NEW p \in Panels,
           Connect(c, p) \/ Borrow(c, p) \/ Disconnect(c, p)
       PROVE  TypeOK'
  BY <1>2 DEF Connect, Borrow, Disconnect, Begin, fleet, air, list, past, what
<1>3. ASSUME NEW c \in Clients, DisconnectAll(c) PROVE TypeOK'
  BY <1>3 DEF DisconnectAll, Begin, fleet, air, list, past, what
<1>4. ASSUME NEW p \in Panels, SelectDevice(p) \/ RestoreNext(p) PROVE TypeOK'
  BY <1>4 DEF SelectDevice, RestoreNext, fleet, air, list, past, what
<1>5. ASSUME NEW t \in Tasks, ConnectStep(t) PROVE TypeOK'
  <2>1. CASE Ask(t)
    BY <2>1 DEF Ask, Answered, Finish, fleet, air, list, past, what
  <2>2. CASE TakeRadio(t)
    BY <2>2 DEF TakeRadio, fleet, air, list, past, what
  <2>3. CASE WaitEnds(t)
    BY <2>3 DEF WaitEnds, Answered, Finish, fleet, air, list, past, what
  <2>4. CASE LookAgain(t)
    BY <2>4 DEF LookAgain, Answered, Finish, fleet, air, list, past, what
  <2>5. CASE Dial(t)
    BY <2>5 DEF Dial, Links, fleet, air, list, past, what
  <2>6. CASE DialFails(t)
    BY <2>6 DEF DialFails, Answered, Finish, fleet, air, list, past, what
  <2>7. CASE Attach(t)
    BY <2>7 DEF Attach, fleet, air, list, past, what
  <2>8. CASE LookSelected(t)
    BY <2>8 DEF LookSelected, fleet, air, list, past, what
  <2>9. CASE SelectFirst(t)
    BY <2>9 DEF SelectFirst, fleet, air, list, past, what
  <2>10. CASE Remember(t)
    BY <2>10 DEF Remember, fleet, air, list, past, what
  <2>11. CASE PersistLinked(t)
    BY <2>11 DEF PersistLinked, Answered, Finish, fleet, air, list, past, what
  <2> QED
    BY <1>5, <2>1, <2>2, <2>3, <2>4, <2>5, <2>6, <2>7, <2>8, <2>9, <2>10, <2>11 DEF
       ConnectStep
<1>6. ASSUME NEW t \in Tasks, DisconnectStep(t) PROVE TypeOK'
  <2>1. CASE FindDevice(t)
    BY <2>1 DEF FindDevice, Finish, fleet, air, list, past, what
  <2>2. CASE RemoveEntry(t)
    BY <2>2 DEF RemoveEntry, fleet, air, list, past, what
  <2>3. CASE LookActive(t)
    BY <2>3 DEF LookActive, fleet, air, list, past, what
  <2>4. CASE Unselect(t)
    BY <2>4 DEF Unselect, fleet, air, list, past, what
  <2>5. CASE FindNext(t)
    BY <2>5 DEF FindNext, fleet, air, list, past, what
  <2>6. CASE SelectNext(t)
    BY <2>6 DEF SelectNext, fleet, air, list, past, what
  <2>7. CASE HangUp(t)
    BY <2>7 DEF HangUp, fleet, air, list, past, what
  <2>8. CASE Forget(t)
    BY <2>8 DEF Forget, Finish, Dropped, Named, fleet, air, list, past, what
  <2>9. CASE PersistDropped(t)
    BY <2>9 DEF PersistDropped, Finish, Dropped, Named, fleet, air, list, past, what
  <2>10. CASE UnselectAll(t)
    BY <2>10 DEF UnselectAll, fleet, air, list, past, what
  <2>11. CASE DrainEntries(t)
    BY <2>11 DEF DrainEntries, fleet, air, list, past, what
  <2> QED
    BY <1>6, <2>1, <2>2, <2>3, <2>4, <2>5, <2>6, <2>7, <2>8, <2>9, <2>10, <2>11 DEF
       DisconnectStep
<1>7. ASSUME NEW t \in Tasks, BorrowStep(t) PROVE TypeOK'
  <2>1. CASE LookHeld(t)
    BY <2>1 DEF LookHeld, Answered, Finish, fleet, air, list, past, what
  <2>2. CASE LookWanted(t)
    BY <2>2 DEF LookWanted, fleet, air, list, past, what
  <2>3. CASE GiveBack(t)
    BY <2>3 DEF GiveBack, Finish, fleet, air, list, past, what
  <2> QED
    BY <1>7, <2>1, <2>2, <2>3 DEF BorrowStep
<1>8. ASSUME NEW p \in Panels, LinkDies(p) \/ CallFails(p) \/ ReportGone(p) PROVE TypeOK'
  BY <1>8 DEF LinkDies, CallFails, ReportGone, fleet, air, list, past, what
<1> QED
  BY <1>1, <1>2, <1>3, <1>4, <1>5, <1>6, <1>7, <1>8 DEF Next

(* A task learns its panel when it begins and keeps it to its end.          *)
LEMMA TargetedStep == TypeOK /\ Targeted /\ [Next]_vars => Targeted'
<1> SUFFICES ASSUME TypeOK, Targeted, [Next]_vars PROVE Targeted'
  OBVIOUS
<1> USE FleetAssumption, NoneApart DEF TypeOK, Targeted, OnRadio, OnPanel, Linked, At,
     Move, Go, Tasks
<1>1. CASE UNCHANGED vars
  BY <1>1 DEF vars, fleet, air, list, past, what
<1>2. ASSUME NEW c \in Clients, NEW p \in Panels,
           Connect(c, p) \/ Borrow(c, p) \/ Disconnect(c, p)
       PROVE  Targeted'
  BY <1>2 DEF Connect, Borrow, Disconnect, Begin, fleet, air, list, past, what
<1>3. ASSUME NEW c \in Clients, DisconnectAll(c) PROVE Targeted'
  BY <1>3 DEF DisconnectAll, Begin, fleet, air, list, past, what
<1>4. ASSUME NEW p \in Panels, SelectDevice(p) \/ RestoreNext(p) PROVE Targeted'
  BY <1>4 DEF SelectDevice, RestoreNext, fleet, air, list, past, what
<1>5. ASSUME NEW t \in Tasks, ConnectStep(t) PROVE Targeted'
  BY <1>5 DEF ConnectStep, Ask, Answered, Finish, TakeRadio, WaitEnds, LookAgain,
     Dial, DialFails, Attach, LookSelected, SelectFirst, Remember, PersistLinked,
     fleet, air, list, past, what
<1>6. ASSUME NEW t \in Tasks, DisconnectStep(t) PROVE Targeted'
  <2>1. CASE RemoveEntry(t)
    BY <2>1 DEF RemoveEntry, fleet, air, list, past, what
  <2>2. CASE FindNext(t)
    BY <2>2 DEF FindNext, fleet, air, list, past, what
  <2>3. CASE SelectNext(t)
    BY <2>3 DEF SelectNext, fleet, air, list, past, what
  <2>4. CASE FindDevice(t) \/ LookActive(t) \/ Unselect(t) \/ HangUp(t) \/ Forget(t)
            \/ PersistDropped(t) \/ UnselectAll(t) \/ DrainEntries(t)
    BY <2>4 DEF FindDevice, Finish, LookActive, Unselect, HangUp, Forget, Dropped,
       Named, PersistDropped, UnselectAll, DrainEntries, fleet, air, list, past, what
  <2> QED
    BY <1>6, <2>1, <2>2, <2>3, <2>4 DEF DisconnectStep
<1>7. ASSUME NEW t \in Tasks, BorrowStep(t) PROVE Targeted'
  BY <1>7 DEF BorrowStep, LookHeld, Answered, Finish, LookWanted, GiveBack, fleet,
     air, list, past, what
<1>8. ASSUME NEW p \in Panels, LinkDies(p) \/ CallFails(p) \/ ReportGone(p) PROVE Targeted'
  BY <1>8 DEF LinkDies, CallFails, ReportGone, fleet, air, list, past, what
<1> QED
  BY <1>1, <1>2, <1>3, <1>4, <1>5, <1>6, <1>7, <1>8 DEF Next

(* The radio is taken only while it is free, and let go on every way out.   *)
LEMMA GuardedStep == TypeOK /\ Guarded /\ [Next]_vars => Guarded'
<1> SUFFICES ASSUME TypeOK, Guarded, [Next]_vars PROVE Guarded'
  OBVIOUS
<1> USE FleetAssumption, NoneApart DEF TypeOK, Guarded, OnRadio, At, Move, Go, Tasks
<1>1. CASE UNCHANGED vars
  BY <1>1 DEF vars, fleet, air, list, past, what
<1>2. ASSUME NEW c \in Clients, NEW p \in Panels,
           Connect(c, p) \/ Borrow(c, p) \/ Disconnect(c, p)
       PROVE  Guarded'
  BY <1>2 DEF Connect, Borrow, Disconnect, Begin, fleet, air, list, past, what
<1>3. ASSUME NEW c \in Clients, DisconnectAll(c) PROVE Guarded'
  BY <1>3 DEF DisconnectAll, Begin, fleet, air, list, past, what
<1>4. ASSUME NEW p \in Panels, SelectDevice(p) \/ RestoreNext(p) PROVE Guarded'
  BY <1>4 DEF SelectDevice, RestoreNext, fleet, air, list, past, what
<1>5. ASSUME NEW t \in Tasks, ConnectStep(t) PROVE Guarded'
  BY <1>5 DEF ConnectStep, Ask, Answered, Finish, TakeRadio, WaitEnds, LookAgain,
     Dial, DialFails, Attach, LookSelected, SelectFirst, Remember, PersistLinked,
     fleet, air, list, past, what
<1>6. ASSUME NEW t \in Tasks, DisconnectStep(t) PROVE Guarded'
  <2>1. CASE RemoveEntry(t)
    BY <2>1 DEF RemoveEntry, fleet, air, list, past, what
  <2>2. CASE FindNext(t)
    BY <2>2 DEF FindNext, fleet, air, list, past, what
  <2>3. CASE SelectNext(t)
    BY <2>3 DEF SelectNext, fleet, air, list, past, what
  <2>4. CASE FindDevice(t) \/ LookActive(t) \/ Unselect(t) \/ HangUp(t) \/ Forget(t)
            \/ PersistDropped(t) \/ UnselectAll(t) \/ DrainEntries(t)
    BY <2>4 DEF FindDevice, Finish, LookActive, Unselect, HangUp, Forget, Dropped,
       Named, PersistDropped, UnselectAll, DrainEntries, fleet, air, list, past, what
  <2> QED
    BY <1>6, <2>1, <2>2, <2>3, <2>4 DEF DisconnectStep
<1>7. ASSUME NEW t \in Tasks, BorrowStep(t) PROVE Guarded'
  BY <1>7 DEF BorrowStep, LookHeld, Answered, Finish, LookWanted, GiveBack, fleet,
     air, list, past, what
<1>8. ASSUME NEW p \in Panels, LinkDies(p) \/ CallFails(p) \/ ReportGone(p) PROVE Guarded'
  BY <1>8 DEF LinkDies, CallFails, ReportGone, fleet, air, list, past, what
<1> QED
  BY <1>1, <1>2, <1>3, <1>4, <1>5, <1>6, <1>7, <1>8 DEF Next

(* While a connect has the radio no other one attaches.                     *)
LEMMA FreeStep == TypeOK /\ Targeted /\ Guarded /\ FreeToDial /\ [Next]_vars => FreeToDial'
<1> SUFFICES ASSUME TypeOK, Targeted, Guarded, FreeToDial, [Next]_vars PROVE FreeToDial'
  OBVIOUS
<1> USE FleetAssumption, NoneApart DEF TypeOK, Targeted, Guarded, FreeToDial, Linked,
     OnRadio, OnPanel, At, Move, Go, Tasks
<1>1. CASE UNCHANGED vars
  BY <1>1 DEF vars, fleet, air, list, past, what
<1>2. ASSUME NEW c \in Clients, NEW p \in Panels,
           Connect(c, p) \/ Borrow(c, p) \/ Disconnect(c, p)
       PROVE  FreeToDial'
  BY <1>2 DEF Connect, Borrow, Disconnect, Begin, fleet, air, list, past, what
<1>3. ASSUME NEW c \in Clients, DisconnectAll(c) PROVE FreeToDial'
  BY <1>3 DEF DisconnectAll, Begin, fleet, air, list, past, what
<1>4. ASSUME NEW p \in Panels, SelectDevice(p) \/ RestoreNext(p) PROVE FreeToDial'
  BY <1>4 DEF SelectDevice, RestoreNext, fleet, air, list, past, what
<1>5. ASSUME NEW t \in Tasks, ConnectStep(t) PROVE FreeToDial'
  <2>1. CASE LookAgain(t)
    BY <2>1 DEF LookAgain, Answered, Finish, fleet, air, list, past, what
  <2>2. CASE Dial(t)
    BY <2>2 DEF Dial, fleet, air, list, past, what
  <2>3. CASE Attach(t)
    BY <2>3 DEF Attach, fleet, air, list, past, what
  <2>4. CASE Ask(t) \/ TakeRadio(t) \/ WaitEnds(t) \/ DialFails(t) \/ LookSelected(t)
            \/ SelectFirst(t) \/ Remember(t) \/ PersistLinked(t)
    BY <2>4 DEF Ask, Answered, Finish, TakeRadio, WaitEnds, DialFails, LookSelected,
       SelectFirst, Remember, PersistLinked, fleet, air, list, past, what
  <2> QED
    BY <1>5, <2>1, <2>2, <2>3, <2>4 DEF ConnectStep
<1>6. ASSUME NEW t \in Tasks, DisconnectStep(t) PROVE FreeToDial'
  <2>1. CASE RemoveEntry(t)
    BY <2>1 DEF RemoveEntry, fleet, air, list, past, what
  <2>2. CASE DrainEntries(t)
    BY <2>2 DEF DrainEntries, fleet, air, list, past, what
  <2>3. CASE FindDevice(t) \/ LookActive(t) \/ Unselect(t) \/ FindNext(t) \/
            SelectNext(t) \/ HangUp(t) \/ Forget(t) \/ PersistDropped(t) \/ UnselectAll(t)
    BY <2>3 DEF FindDevice, Finish, LookActive, Unselect, FindNext, SelectNext,
       HangUp, Forget, Dropped, Named, PersistDropped, UnselectAll, fleet, air, list,
       past, what
  <2> QED
    BY <1>6, <2>1, <2>2, <2>3 DEF DisconnectStep
<1>7. ASSUME NEW t \in Tasks, BorrowStep(t) PROVE FreeToDial'
  BY <1>7 DEF BorrowStep, LookHeld, Answered, Finish, LookWanted, GiveBack, fleet,
     air, list, past, what
<1>8. ASSUME NEW p \in Panels, LinkDies(p) \/ CallFails(p) \/ ReportGone(p) PROVE FreeToDial'
  BY <1>8 DEF LinkDies, CallFails, ReportGone, fleet, air, list, past, what
<1> QED
  BY <1>1, <1>2, <1>3, <1>4, <1>5, <1>6, <1>7, <1>8 DEF Next

(* Links are taken in hand by a dial, a remove and a drain, and leave the   *)
(* hand for the fleet or hung up.                                           *)
LEMMA InHandStep == TypeOK /\ Targeted /\ InHand /\ [Next]_vars => InHand'
<1> SUFFICES ASSUME TypeOK, Targeted, InHand, [Next]_vars PROVE InHand'
  OBVIOUS
<1> USE FleetAssumption, NoneApart DEF TypeOK, Targeted, InHand, Holding, OnRadio,
     OnPanel, At, Move, Go, Tasks
<1>1. CASE UNCHANGED vars
  BY <1>1 DEF vars, fleet, air, list, past, what
<1>2. ASSUME NEW c \in Clients, NEW p \in Panels,
           Connect(c, p) \/ Borrow(c, p) \/ Disconnect(c, p)
       PROVE  InHand'
  BY <1>2 DEF Connect, Borrow, Disconnect, Begin, fleet, air, list, past, what
<1>3. ASSUME NEW c \in Clients, DisconnectAll(c) PROVE InHand'
  BY <1>3 DEF DisconnectAll, Begin, fleet, air, list, past, what
<1>4. ASSUME NEW p \in Panels, SelectDevice(p) \/ RestoreNext(p) PROVE InHand'
  BY <1>4 DEF SelectDevice, RestoreNext, fleet, air, list, past, what
<1>5. ASSUME NEW t \in Tasks, ConnectStep(t) PROVE InHand'
  <2>1. CASE Dial(t)
    BY <2>1 DEF Dial, fleet, air, list, past, what
  <2>2. CASE Attach(t)
    BY <2>2 DEF Attach, fleet, air, list, past, what
  <2>3. CASE Ask(t) \/ TakeRadio(t) \/ WaitEnds(t) \/ LookAgain(t) \/ DialFails(t) \/
            LookSelected(t) \/ SelectFirst(t) \/ Remember(t) \/ PersistLinked(t)
    BY <2>3 DEF Ask, Answered, Finish, TakeRadio, WaitEnds, LookAgain, DialFails,
       LookSelected, SelectFirst, Remember, PersistLinked, fleet, air, list, past,
       what
  <2> QED
    BY <1>5, <2>1, <2>2, <2>3 DEF ConnectStep
<1>6. ASSUME NEW t \in Tasks, DisconnectStep(t) PROVE InHand'
  <2>1. CASE FindDevice(t)
    BY <2>1 DEF FindDevice, Finish, fleet, air, list, past, what
  <2>2. CASE RemoveEntry(t)
    BY <2>2 DEF RemoveEntry, fleet, air, list, past, what
  <2>3. CASE LookActive(t)
    BY <2>3 DEF LookActive, fleet, air, list, past, what
  <2>4. CASE Unselect(t)
    BY <2>4 DEF Unselect, fleet, air, list, past, what
  <2>5. CASE FindNext(t)
    BY <2>5 DEF FindNext, fleet, air, list, past, what
  <2>6. CASE SelectNext(t)
    BY <2>6 DEF SelectNext, fleet, air, list, past, what
  <2>7. CASE HangUp(t)
    BY <2>7 DEF HangUp, fleet, air, list, past, what
  <2>8. CASE Forget(t)
    BY <2>8 DEF Forget, Finish, Dropped, Named, fleet, air, list, past, what
  <2>9. CASE PersistDropped(t)
    BY <2>9 DEF PersistDropped, Finish, Dropped, Named, fleet, air, list, past, what
  <2>10. CASE UnselectAll(t)
    BY <2>10 DEF UnselectAll, fleet, air, list, past, what
  <2>11. CASE DrainEntries(t)
    BY <2>11 DEF DrainEntries, fleet, air, list, past, what
  <2> QED
    BY <1>6, <2>1, <2>2, <2>3, <2>4, <2>5, <2>6, <2>7, <2>8, <2>9, <2>10, <2>11 DEF
       DisconnectStep
<1>7. ASSUME NEW t \in Tasks, BorrowStep(t) PROVE InHand'
  BY <1>7 DEF BorrowStep, LookHeld, Answered, Finish, LookWanted, GiveBack, fleet,
     air, list, past, what
<1>8. ASSUME NEW p \in Panels, LinkDies(p) \/ CallFails(p) \/ ReportGone(p) PROVE InHand'
  BY <1>8 DEF LinkDies, CallFails, ReportGone, fleet, air, list, past, what
<1> QED
  BY <1>1, <1>2, <1>3, <1>4, <1>5, <1>6, <1>7, <1>8 DEF Next

(* Whoever empties the active slot, or links a panel beside an empty one,   *)
(* has a step ahead that fills it.                                          *)
LEMMA FillingStep == TypeOK /\ Targeted /\ Filling /\ [Next]_vars => Filling'
<1> SUFFICES ASSUME TypeOK, Targeted, Filling, [Next]_vars PROVE Filling'
  OBVIOUS
<1> USE FleetAssumption, NoneApart DEF TypeOK, Targeted, Filling, Linked, OnRadio,
     OnPanel, At, Move, Go, Tasks
<1>1. CASE UNCHANGED vars
  BY <1>1 DEF vars, fleet, air, list, past, what
<1>2. ASSUME NEW c \in Clients, NEW p \in Panels,
           Connect(c, p) \/ Borrow(c, p) \/ Disconnect(c, p)
       PROVE  Filling'
  BY <1>2 DEF Connect, Borrow, Disconnect, Begin, fleet, air, list, past, what
<1>3. ASSUME NEW c \in Clients, DisconnectAll(c) PROVE Filling'
  BY <1>3 DEF DisconnectAll, Begin, fleet, air, list, past, what
<1>4. ASSUME NEW p \in Panels, SelectDevice(p) \/ RestoreNext(p) PROVE Filling'
  BY <1>4 DEF SelectDevice, RestoreNext, fleet, air, list, past, what
<1>5. ASSUME NEW t \in Tasks, ConnectStep(t) PROVE Filling'
  <2>1. CASE LookSelected(t)
    BY <2>1 DEF LookSelected, fleet, air, list, past, what
  <2>2. CASE SelectFirst(t)
    BY <2>2 DEF SelectFirst, fleet, air, list, past, what
  <2>3. CASE Attach(t)
    BY <2>3 DEF Attach, fleet, air, list, past, what
  <2>4. CASE Ask(t) \/ TakeRadio(t) \/ WaitEnds(t) \/ LookAgain(t) \/ Dial(t) \/
            DialFails(t) \/ Remember(t) \/ PersistLinked(t)
    BY <2>4 DEF Ask, Answered, Finish, TakeRadio, WaitEnds, LookAgain, Dial,
       DialFails, Remember, PersistLinked, fleet, air, list, past, what
  <2> QED
    BY <1>5, <2>1, <2>2, <2>3, <2>4 DEF ConnectStep
<1>6. ASSUME NEW t \in Tasks, DisconnectStep(t) PROVE Filling'
  <2>1. CASE FindDevice(t)
    BY <2>1 DEF FindDevice, Finish, fleet, air, list, past, what
  <2>2. CASE RemoveEntry(t)
    BY <2>2 DEF RemoveEntry, fleet, air, list, past, what
  <2>3. CASE LookActive(t)
    BY <2>3 DEF LookActive, fleet, air, list, past, what
  <2>4. CASE Unselect(t)
    BY <2>4 DEF Unselect, fleet, air, list, past, what
  <2>5. CASE FindNext(t)
    BY <2>5 DEF FindNext, fleet, air, list, past, what
  <2>6. CASE SelectNext(t)
    BY <2>6 DEF SelectNext, fleet, air, list, past, what
  <2>7. CASE HangUp(t)
    BY <2>7 DEF HangUp, fleet, air, list, past, what
  <2>8. CASE Forget(t)
    BY <2>8 DEF Forget, Finish, Dropped, Named, fleet, air, list, past, what
  <2>9. CASE PersistDropped(t)
    BY <2>9 DEF PersistDropped, Finish, Dropped, Named, fleet, air, list, past, what
  <2>10. CASE UnselectAll(t)
    BY <2>10 DEF UnselectAll, fleet, air, list, past, what
  <2>11. CASE DrainEntries(t)
    BY <2>11 DEF DrainEntries, fleet, air, list, past, what
  <2> QED
    BY <1>6, <2>1, <2>2, <2>3, <2>4, <2>5, <2>6, <2>7, <2>8, <2>9, <2>10, <2>11 DEF
       DisconnectStep
<1>7. ASSUME NEW t \in Tasks, BorrowStep(t) PROVE Filling'
  BY <1>7 DEF BorrowStep, LookHeld, Answered, Finish, LookWanted, GiveBack, fleet,
     air, list, past, what
<1>8. ASSUME NEW p \in Panels, LinkDies(p) \/ CallFails(p) \/ ReportGone(p) PROVE Filling'
  BY <1>8 DEF LinkDies, CallFails, ReportGone, fleet, air, list, past, what
<1> QED
  BY <1>1, <1>2, <1>3, <1>4, <1>5, <1>6, <1>7, <1>8 DEF Next

(* An open link moves between hand and fleet, and is closed in hand only.   *)
LEMMA StrandedStep ==
    TypeOK /\ Targeted /\ FreeToDial /\ InHand /\ NothingStranded /\ [Next]_vars
        => NothingStranded'
<1> SUFFICES ASSUME TypeOK, Targeted, FreeToDial, InHand, NothingStranded, [Next]_vars
             PROVE  NothingStranded'
  OBVIOUS
<1> USE FleetAssumption, NoneApart DEF TypeOK, Targeted, FreeToDial, InHand,
     NothingStranded, Holding, OnRadio, OnPanel, At, Move, Go, Tasks
<1>1. CASE UNCHANGED vars
  BY <1>1 DEF vars, fleet, air, list, past, what
<1>2. ASSUME NEW c \in Clients, NEW p \in Panels,
           Connect(c, p) \/ Borrow(c, p) \/ Disconnect(c, p)
       PROVE  NothingStranded'
  BY <1>2 DEF Connect, Borrow, Disconnect, Begin, fleet, air, list, past, what
<1>3. ASSUME NEW c \in Clients, DisconnectAll(c) PROVE NothingStranded'
  BY <1>3 DEF DisconnectAll, Begin, fleet, air, list, past, what
<1>4. ASSUME NEW p \in Panels, SelectDevice(p) \/ RestoreNext(p) PROVE NothingStranded'
  BY <1>4 DEF SelectDevice, RestoreNext, fleet, air, list, past, what
<1>5. ASSUME NEW t \in Tasks, ConnectStep(t) PROVE NothingStranded'
  <2>1. CASE Ask(t)
    BY <2>1 DEF Ask, Answered, Finish, fleet, air, list, past, what
  <2>2. CASE TakeRadio(t)
    BY <2>2 DEF TakeRadio, fleet, air, list, past, what
  <2>3. CASE WaitEnds(t)
    BY <2>3 DEF WaitEnds, Answered, Finish, fleet, air, list, past, what
  <2>4. CASE LookAgain(t)
    BY <2>4 DEF LookAgain, Answered, Finish, fleet, air, list, past, what
  <2>5. CASE Dial(t)
    BY <2>5 DEF Dial, fleet, air, list, past, what
  <2>6. CASE DialFails(t)
    BY <2>6 DEF DialFails, Answered, Finish, fleet, air, list, past, what
  <2>7. CASE Attach(t)
    BY <2>7 DEF Attach, fleet, air, list, past, what
  <2>8. CASE LookSelected(t)
    BY <2>8 DEF LookSelected, fleet, air, list, past, what
  <2>9. CASE SelectFirst(t)
    BY <2>9 DEF SelectFirst, fleet, air, list, past, what
  <2>10. CASE Remember(t)
    BY <2>10 DEF Remember, fleet, air, list, past, what
  <2>11. CASE PersistLinked(t)
    BY <2>11 DEF PersistLinked, Answered, Finish, fleet, air, list, past, what
  <2> QED
    BY <1>5, <2>1, <2>2, <2>3, <2>4, <2>5, <2>6, <2>7, <2>8, <2>9, <2>10, <2>11 DEF
       ConnectStep
<1>6. ASSUME NEW t \in Tasks, DisconnectStep(t) PROVE NothingStranded'
  <2>1. CASE FindDevice(t)
    BY <2>1 DEF FindDevice, Finish, fleet, air, list, past, what
  <2>2. CASE RemoveEntry(t)
    BY <2>2 DEF RemoveEntry, fleet, air, list, past, what
  <2>3. CASE LookActive(t)
    BY <2>3 DEF LookActive, fleet, air, list, past, what
  <2>4. CASE Unselect(t)
    BY <2>4 DEF Unselect, fleet, air, list, past, what
  <2>5. CASE FindNext(t)
    BY <2>5 DEF FindNext, fleet, air, list, past, what
  <2>6. CASE SelectNext(t)
    BY <2>6 DEF SelectNext, fleet, air, list, past, what
  <2>7. CASE HangUp(t)
    BY <2>7 DEF HangUp, fleet, air, list, past, what
  <2>8. CASE Forget(t)
    BY <2>8 DEF Forget, Finish, Dropped, Named, fleet, air, list, past, what
  <2>9. CASE PersistDropped(t)
    BY <2>9 DEF PersistDropped, Finish, Dropped, Named, fleet, air, list, past, what
  <2>10. CASE UnselectAll(t)
    BY <2>10 DEF UnselectAll, fleet, air, list, past, what
  <2>11. CASE DrainEntries(t)
    BY <2>11 DEF DrainEntries, fleet, air, list, past, what
  <2> QED
    BY <1>6, <2>1, <2>2, <2>3, <2>4, <2>5, <2>6, <2>7, <2>8, <2>9, <2>10, <2>11 DEF
       DisconnectStep
<1>7. ASSUME NEW t \in Tasks, BorrowStep(t) PROVE NothingStranded'
  <2>1. CASE LookHeld(t)
    BY <2>1 DEF LookHeld, Answered, Finish, fleet, air, list, past, what
  <2>2. CASE LookWanted(t)
    BY <2>2 DEF LookWanted, fleet, air, list, past, what
  <2>3. CASE GiveBack(t)
    BY <2>3 DEF GiveBack, Finish, fleet, air, list, past, what
  <2> QED
    BY <1>7, <2>1, <2>2, <2>3 DEF BorrowStep
<1>8. ASSUME NEW p \in Panels, LinkDies(p) PROVE NothingStranded'
  BY <1>8 DEF LinkDies, fleet, air, list, past, what
<1>9. ASSUME NEW p \in Panels, CallFails(p) PROVE NothingStranded'
  BY <1>9 DEF CallFails, fleet, air, list, past, what
<1>10. ASSUME NEW p \in Panels, ReportGone(p) PROVE NothingStranded'
  <2> SUFFICES ASSUME NEW l \in open'
               PROVE  \/ \E q \in Panels : l = link'[q]
                      \/ \E t \in Tasks : l \in hand'[t]
                      \/ l \in cutOff'
    OBVIOUS
  <2>1. l \in open /\ hand' = hand
    BY <1>10 DEF ReportGone, what
  <2>2. CASE l = link[p]
    BY <1>10, <2>1, <2>2 DEF ReportGone
  <2>3. CASE l # link[p] /\ \E q \in Panels : l = link[q]
    BY <1>10, <2>3 DEF ReportGone
  <2>4. CASE l \in cutOff \/ \E t \in Tasks : l \in hand[t]
    BY <1>10, <2>1, <2>4 DEF ReportGone
  <2> QED
    BY <2>1, <2>2, <2>3, <2>4
<1> QED
  BY <1>1, <1>2, <1>3, <1>4, <1>5, <1>6, <1>7, <1>8, <1>9, <1>10 DEF Next

(* A task at work moves alone, on the panel it began with, until it is idle. *)
LEMMA TaskMoves ==
    ASSUME TypeOK, NEW t \in Tasks, ConnectStep(t) \/ DisconnectStep(t) \/ BorrowStep(t)
    PROVE  /\ at[t] # "idle" /\ (at'[t] = "idle" \/ panel'[t] = panel[t])
           /\ \A u \in Tasks \ {t} : at'[u] = at[u] /\ panel'[u] = panel[u]
           /\ UNCHANGED <<todo, mixed>>
<1> USE DEF TypeOK, At, Move, Go, Finish, Answered, list, past, what
<1>1. CASE ConnectStep(t)
  <2>1. CASE Ask(t) \/ WaitEnds(t) \/ LookAgain(t) \/ DialFails(t) \/ PersistLinked(t)
    BY <2>1 DEF Ask, WaitEnds, LookAgain, DialFails, PersistLinked
  <2>2. CASE TakeRadio(t) \/ Dial(t) \/ Attach(t) \/ LookSelected(t) \/ SelectFirst(t)
             \/ Remember(t)
    BY <2>2 DEF TakeRadio, Dial, Attach, LookSelected, SelectFirst, Remember
  <2> QED BY <1>1, <2>1, <2>2 DEF ConnectStep
<1>2. CASE DisconnectStep(t)
  <2>1. CASE FindDevice(t) \/ RemoveEntry(t) \/ LookActive(t) \/ Unselect(t) \/ FindNext(t)
             \/ SelectNext(t)
    BY <2>1 DEF FindDevice, RemoveEntry, LookActive, Unselect, FindNext, SelectNext
  <2>2. CASE HangUp(t) \/ Forget(t) \/ PersistDropped(t) \/ UnselectAll(t) \/ DrainEntries(t)
    BY <2>2 DEF HangUp, Forget, PersistDropped, Dropped, UnselectAll, DrainEntries
  <2> QED BY <1>2, <2>1, <2>2 DEF DisconnectStep
<1>3. CASE BorrowStep(t)
  BY <1>3 DEF BorrowStep, LookHeld, LookWanted, GiveBack
<1> QED BY <1>1, <1>2, <1>3

(* Where the steps that do not begin a request leave the panels.            *)
LEMMA LinkMoves ==
    ASSUME TypeOK, Targeted, NEW t \in Tasks, ConnectStep(t) \/ DisconnectStep(t) \/ BorrowStep(t)
    PROVE  /\ \/ Attach(t)
              \/ \A p \in Panels : link'[p] \in {link[p], None}
           /\ \/ at'[t] \notin Dropping
              \/ at[t] \in Dropping
              \/ \A p \in Panels : panel[t] \in {p, None} => link'[p] = None
           /\ \/ wanted \subseteq wanted'
              \/ at[t] = "hungUp" /\ wanted' = wanted \ Named(t)
<1> USE DEF TypeOK, Targeted, At, Move, Go, Finish, Answered, fleet, list, past, what, Dropping
<1>1. CASE ConnectStep(t)
  <2>1. CASE Ask(t) \/ WaitEnds(t) \/ LookAgain(t) \/ DialFails(t) \/ PersistLinked(t)
    BY <2>1 DEF Ask, WaitEnds, LookAgain, DialFails, PersistLinked
  <2>2. CASE TakeRadio(t) \/ Dial(t) \/ LookSelected(t) \/ SelectFirst(t) \/ Remember(t)
    BY <2>2 DEF TakeRadio, Dial, LookSelected, SelectFirst, Remember
  <2>3. CASE Attach(t)
    BY <2>3 DEF Attach
  <2> QED BY <1>1, <2>1, <2>2, <2>3 DEF ConnectStep
<1>2. CASE DisconnectStep(t)
  <2>1. CASE FindDevice(t) \/ LookActive(t) \/ Unselect(t) \/ FindNext(t) \/ SelectNext(t)
    BY <2>1 DEF FindDevice, LookActive, Unselect, FindNext, SelectNext
  <2>2. CASE RemoveEntry(t)
    BY <2>2, NoneApart DEF RemoveEntry, OnPanel, OnRadio
  <2>3. CASE HangUp(t) \/ Forget(t) \/ PersistDropped(t) \/ UnselectAll(t)
    BY <2>3 DEF HangUp, Forget, PersistDropped, UnselectAll
  <2>4. CASE DrainEntries(t)
    BY <2>4 DEF DrainEntries
  <2> QED BY <1>2, <2>1, <2>2, <2>3, <2>4 DEF DisconnectStep
<1>3. CASE BorrowStep(t)
  BY <1>3 DEF BorrowStep, LookHeld, LookWanted, GiveBack
<1> QED BY <1>1, <1>2, <1>3

(* Begin marks every panel somebody is at work on already; no other step    *)
(* puts a task to work on a panel.                                          *)
LEMMA AloneStep == TypeOK /\ Alone /\ [Next]_vars => Alone'
<1> SUFFICES ASSUME TypeOK, Alone, [Next]_vars PROVE Alone'
  OBVIOUS
<1>a. ASSUME NEW p \in Panels, mixed \subseteq mixed', WorkingOn(p)' \subseteq WorkingOn(p),
             NEW t \in WorkingOn(p)', NEW u \in WorkingOn(p)', p \notin mixed'
      PROVE  t = u
  BY <1>a DEF Alone
<1>1. CASE UNCHANGED vars
  BY <1>1 DEF vars, past, what, Alone, WorkingOn, At
<1>2. ASSUME NEW c \in Clients, NEW for, NEW place, NEW q \in Panels \cup {None},
             Begin(c, for, place, q)
      PROVE  Alone'
  <2>1. /\ mixed' = mixed \cup {p \in Panels : q \in {p, None} /\ WorkingOn(p) # {}}
        /\ UNCHANGED todo /\ panel'[c] = q
        /\ \A u \in Tasks \ {c} : at'[u] = at[u] /\ panel'[u] = panel[u]
    BY <1>2 DEF Begin, Move, TypeOK, Tasks
  <2> SUFFICES ASSUME NEW p \in Panels, p \notin mixed', NEW t \in WorkingOn(p)',
                      NEW u \in WorkingOn(p)'
               PROVE  t = u
    BY DEF Alone
  <2>2. CASE q \in {p, None}
    <3>1. WorkingOn(p) = {}
      BY <2>1, <2>2
    <3>2. WorkingOn(p)' \subseteq {c}
      BY <2>1, <3>1 DEF WorkingOn, At
    <3> QED BY <3>2
  <2>3. CASE q \notin {p, None}
    <3>1. WorkingOn(p)' \subseteq WorkingOn(p)
      BY <2>1, <2>3, FleetAssumption DEF WorkingOn, At
    <3> QED BY <1>a, <2>1, <3>1
  <2> QED BY <2>2, <2>3
<1>3. ASSUME NEW t \in Tasks, ConnectStep(t) \/ DisconnectStep(t) \/ BorrowStep(t) PROVE Alone'
  <2>1. \A p \in Panels : WorkingOn(p)' \subseteq WorkingOn(p)
    BY <1>3, TaskMoves DEF WorkingOn, At
  <2>2. UNCHANGED mixed
    BY <1>3, TaskMoves
  <2> QED BY <1>a, <2>1, <2>2 DEF Alone
<1>4. ASSUME NEW p \in Panels, RestoreNext(p) PROVE Alone'
  <2>1. \A q \in Panels : WorkingOn(q)' \subseteq WorkingOn(q)
    BY <1>4 DEF RestoreNext, Move, TypeOK, Tasks, WorkingOn, At, None, Panels
  <2>2. UNCHANGED mixed
    BY <1>4 DEF RestoreNext, past
  <2> QED BY <1>a, <2>1, <2>2 DEF Alone
<1>5. ASSUME NEW p \in Panels, SelectDevice(p) \/ LinkDies(p) \/ CallFails(p) \/ ReportGone(p)
      PROVE  Alone'
  <2>1. UNCHANGED <<at, panel, todo, mixed>>
    BY <1>5 DEF SelectDevice, LinkDies, CallFails, ReportGone, past, what
  <2> QED BY <2>1 DEF Alone, WorkingOn, At
<1>6. ASSUME NEW c \in Clients, NEW p \in Panels,
             DisconnectAll(c) \/ Connect(c, p) \/ Borrow(c, p) \/ Disconnect(c, p)
      PROVE  Alone'
  BY <1>2, <1>6 DEF DisconnectAll, Connect, Borrow, Disconnect
<1>7. ASSUME NEW c \in Clients, DisconnectAll(c) PROVE Alone'
  BY <1>2, <1>7 DEF DisconnectAll
<1> QED BY <1>1, <1>3, <1>4, <1>5, <1>6, <1>7 DEF Next

(* Nobody attaches a link where another task is dropping one.               *)
LEMMA UnlinkedStep ==
    TypeOK /\ Targeted /\ Alone /\ StaysUnlinked /\ [Next]_vars => StaysUnlinked'
<1> SUFFICES ASSUME TypeOK, Targeted, Alone, StaysUnlinked, [Next]_vars PROVE StaysUnlinked'
  OBVIOUS
<1>1. CASE UNCHANGED vars
  BY <1>1 DEF vars, fleet, past, what, StaysUnlinked, Linked
<1>2. ASSUME NEW c \in Clients, NEW p \in Panels \cup {None}, NEW for, NEW place,
             Begin(c, for, place, p), place \notin Dropping
      PROVE  StaysUnlinked'
  BY <1>2 DEF Begin, Move, TypeOK, Tasks, fleet, StaysUnlinked, Linked
<1>3. ASSUME NEW t \in Tasks, ConnectStep(t) \/ DisconnectStep(t) \/ BorrowStep(t)
      PROVE  StaysUnlinked'
  <2> SUFFICES ASSUME NEW p \in Panels, p \notin mixed', NEW u \in Tasks, at'[u] \in Dropping,
                      panel'[u] \in {p, None}
               PROVE  link'[p] = None
    BY DEF StaysUnlinked, Linked
  <2>1. p \notin mixed /\ at'[u] # "idle" /\ panel'[u] = panel[u]
    BY <1>3, TaskMoves DEF Dropping
  <2>2. at[u] \in Dropping => link[p] = None
    BY <2>1 DEF StaysUnlinked, Linked
  <2>3. CASE Attach(t)
    <3>1. at[t] = "dialled" /\ at'[t] = "attached" /\ panel[t] \in Panels
      BY <2>3 DEF Attach, At, Move, TypeOK, Targeted, OnPanel, OnRadio
    <3>2. u # t /\ at[u] \in Dropping
      BY <1>3, <3>1, TaskMoves DEF Dropping
    <3>3. panel[t] # p
      <4> SUFFICES ASSUME panel[t] = p PROVE FALSE
        OBVIOUS
      <4>1. t \in WorkingOn(p) /\ u \in WorkingOn(p)
        BY <2>1, <3>1, <3>2 DEF WorkingOn, At, Dropping
      <4> QED BY <2>1, <3>2, <4>1 DEF Alone
    <3>4. link'[p] = link[p]
      BY <2>3, <3>3 DEF Attach, TypeOK
    <3> QED BY <2>2, <3>2, <3>4
  <2>4. CASE ~Attach(t)
    <3>1. CASE at[u] \in Dropping
      BY <1>3, <2>2, <2>4, <3>1, LinkMoves
    <3>2. CASE at[u] \notin Dropping
      BY <1>3, <2>1, <3>2, TaskMoves, LinkMoves
    <3> QED BY <3>1, <3>2
  <2> QED BY <2>3, <2>4
<1>4. ASSUME NEW p \in Panels, RestoreNext(p) \/ SelectDevice(p) PROVE StaysUnlinked'
  BY <1>4 DEF RestoreNext, SelectDevice, Move, TypeOK, Tasks, fleet, past, what, StaysUnlinked,
     Linked, Dropping
<1>5. ASSUME NEW p \in Panels, LinkDies(p) \/ CallFails(p) \/ ReportGone(p) PROVE StaysUnlinked'
  BY <1>5 DEF LinkDies, CallFails, ReportGone, TypeOK, fleet, past, what, StaysUnlinked, Linked
<1>6. ASSUME NEW c \in Clients, NEW p \in Panels, Connect(c, p) \/ Borrow(c, p) \/ Disconnect(c, p)
      PROVE  StaysUnlinked'
  BY <1>2, <1>6 DEF Connect, Borrow, Disconnect, Dropping
<1>7. ASSUME NEW c \in Clients, DisconnectAll(c) PROVE StaysUnlinked'
  BY <1>2, <1>7 DEF DisconnectAll, Dropping
<1> QED BY <1>1, <1>3, <1>4, <1>5, <1>6, <1>7 DEF Next

(* A connect writes its panel down, and a panel is struck out only when it  *)
(* is unlinked.                                                             *)
LEMMA ListedStep ==
    TypeOK /\ Targeted /\ StaysUnlinked /\ ListedSoon /\ [Next]_vars => ListedSoon'
<1> SUFFICES ASSUME TypeOK, Targeted, StaysUnlinked, ListedSoon, [Next]_vars PROVE ListedSoon'
  OBVIOUS
<1>1. CASE UNCHANGED vars
  BY <1>1 DEF vars, fleet, list, past, what, ListedSoon, Linked
<1>2. ASSUME NEW c \in Clients, NEW p \in Panels \cup {None}, NEW for, NEW place,
             Begin(c, for, place, p)
      PROVE  ListedSoon'
  <2>1. /\ \A u \in Tasks \ {c} : at'[u] = at[u] /\ panel'[u] = panel[u]
        /\ at[c] = "idle" /\ mixed \subseteq mixed' /\ UNCHANGED <<link, wanted>>
    BY <1>2 DEF Begin, At, Move, TypeOK, Tasks, fleet, list
  <2> QED BY <2>1 DEF ListedSoon, Linked, Listing
<1>3. ASSUME NEW t \in Tasks, ConnectStep(t) \/ DisconnectStep(t) \/ BorrowStep(t)
      PROVE  ListedSoon'
  <2> SUFFICES ASSUME NEW p \in Panels, p \notin mixed', link'[p] # None
               PROVE  p \in wanted' \/ \E u \in Tasks : panel'[u] = p /\ at'[u] \in Listing
    BY DEF ListedSoon, Linked
  <2>1. p \notin mixed
    BY <1>3, TaskMoves
  <2>2. CASE Attach(t) /\ panel[t] = p
    BY <2>2 DEF Attach, Move, TypeOK, Listing
  <2>3. CASE ~(Attach(t) /\ panel[t] = p)
    <3>1. link[p] # None
      BY <1>3, <2>3, LinkMoves DEF Attach, TypeOK
    <3>2. CASE p \in wanted
      <4>1. CASE wanted \subseteq wanted'
        BY <3>2, <4>1
      <4>2. CASE at[t] = "hungUp" /\ wanted' = wanted \ Named(t)
        <5>1. panel[t] \notin {p, None}
          BY <2>1, <3>1, <4>2 DEF StaysUnlinked, Linked, Dropping
        <5> QED BY <3>2, <4>2, <5>1 DEF Named
      <4> QED BY <1>3, <4>1, <4>2, LinkMoves
    <3>3. ASSUME NEW u \in Tasks, panel[u] = p, at[u] \in Listing
          PROVE  p \in wanted' \/ (panel'[u] = p /\ at'[u] \in Listing)
      <4>1. CASE u # t
        BY <1>3, <3>3, <4>1, TaskMoves
      <4>2. CASE u = t
        <5>1. LookSelected(t) \/ SelectFirst(t) \/ Remember(t)
          BY <1>3, <3>3, <4>2 DEF Listing, At, ConnectStep, Ask, TakeRadio, WaitEnds, LookAgain,
             Dial, DialFails, Attach, PersistLinked, DisconnectStep, FindDevice, RemoveEntry,
             LookActive, Unselect, FindNext, SelectNext, HangUp, Forget, PersistDropped,
             UnselectAll, DrainEntries, BorrowStep, LookHeld, LookWanted, GiveBack
        <5> QED BY <3>3, <4>2, <5>1
                DEF LookSelected, SelectFirst, Remember, Go, Move, what, TypeOK, Listing
      <4> QED BY <4>1, <4>2
    <3> QED BY <2>1, <3>1, <3>2, <3>3 DEF ListedSoon, Linked
  <2> QED BY <2>2, <2>3
<1>4. ASSUME NEW p \in Panels, RestoreNext(p) PROVE ListedSoon'
  <2>1. /\ \A u \in Tasks \ {Restore} : at'[u] = at[u] /\ panel'[u] = panel[u]
        /\ at[Restore] = "idle" /\ UNCHANGED <<link, wanted, mixed>>
    BY <1>4 DEF RestoreNext, At, Move, TypeOK, Tasks, fleet, list, past
  <2> QED BY <2>1 DEF ListedSoon, Linked, Listing
<1>5. ASSUME NEW p \in Panels, SelectDevice(p) \/ LinkDies(p) \/ CallFails(p) \/ ReportGone(p)
      PROVE  ListedSoon'
  <2>1. /\ UNCHANGED <<at, panel, wanted, mixed>>
        /\ \A q \in Panels : link'[q] \in {link[q], None}
    BY <1>5 DEF SelectDevice, LinkDies, CallFails, ReportGone, TypeOK, fleet, list, past, what
  <2> QED BY <2>1 DEF ListedSoon, Linked
<1>6. ASSUME NEW c \in Clients, NEW p \in Panels, Connect(c, p) \/ Borrow(c, p) \/ Disconnect(c, p)
      PROVE  ListedSoon'
  BY <1>2, <1>6 DEF Connect, Borrow, Disconnect
<1>7. ASSUME NEW c \in Clients, DisconnectAll(c) PROVE ListedSoon'
  BY <1>2, <1>7 DEF DisconnectAll
<1> QED BY <1>1, <1>3, <1>4, <1>5, <1>6, <1>7 DEF Next

(* The invariant holds at the start ...                                     *)
LEMMA InitIInv == Init => IInv
<1> SUFFICES ASSUME Init PROVE IInv
  OBVIOUS
<1>1. TypeOK /\ Targeted /\ Guarded /\ FreeToDial /\ InHand /\ Filling /\ NothingStranded
  BY FleetAssumption DEF Init, TypeOK, Targeted, Guarded, FreeToDial, InHand, Filling,
     NothingStranded, Linked, At, Kinds, Places, Panels, Links, Tasks, None, OnRadio,
     OnPanel, Holding
<1>2. Alone
  BY DEF Init, Alone, WorkingOn, At
<1>3. StaysUnlinked /\ ListedSoon
  BY DEF Init, StaysUnlinked, ListedSoon, Linked
<1> QED BY <1>1, <1>2, <1>3 DEF IInv

(* ... is kept by every step ...                                            *)
LEMMA StepIInv == IInv /\ [Next]_vars => IInv'
  BY TypeStep, TargetedStep, GuardedStep, FreeStep, InHandStep, FillingStep, StrandedStep,
     AloneStep, UnlinkedStep, ListedStep DEF IInv

(* ... and so always holds.                                                 *)
LEMMA Invariance == Spec => []IInv
  BY InitIInv, StepIInv, PTL DEF Spec

(* Every variable of the fleet, the list and the tasks keeps its type, and  *)
(* one connect at a time has the radio.                                     *)
THEOREM TypeCorrect == Spec => []TypeOK
<1>1. IInv => TypeOK
  BY DEF IInv
<1> QED
  BY Invariance, <1>1, PTL

(* No open connection is lost track of, but by a report that comes late.    *)
THEOREM NoneStranded == Spec => []NothingStranded
<1>1. IInv => NothingStranded
  BY DEF IInv
<1> QED
  BY Invariance, <1>1, PTL

(* With nothing under way nobody is about to fill the active slot, so it is *)
(* empty only while no panel is linked.                                     *)
THEOREM SelectionKept == Spec => []SomethingSelected
<1>1. IInv => SomethingSelected
  BY DEF IInv, Filling, SomethingSelected, Quiet, At
<1> QED
  BY Invariance, <1>1, PTL

(* A link is only ever attached by a connect that has the radio, to a panel *)
(* it found unlinked after it took the radio.                               *)
THEOREM OneOwnerAlways == Spec => OneOwner
<1>1. IInv /\ [Next]_vars => [\A p \in Panels : Linked(p) => link'[p] \in {link[p], None}]_vars
  <2> SUFFICES ASSUME IInv, [Next]_vars, NEW p \in Panels, Linked(p)
               PROVE  link'[p] \in {link[p], None}
    OBVIOUS
  <2> USE NoneApart DEF IInv, TypeOK, Linked, At
  <2>1. ASSUME NEW t \in Tasks, Attach(t) PROVE link'[p] \in {link[p], None}
    BY <2>1 DEF Attach, Targeted, OnPanel, OnRadio, FreeToDial
  <2>2. ASSUME NEW t \in Tasks, RemoveEntry(t) \/ DrainEntries(t)
        PROVE  link'[p] \in {link[p], None}
    BY <2>2 DEF RemoveEntry, DrainEntries
  <2>3. ASSUME NEW q \in Panels, ReportGone(q) PROVE link'[p] \in {link[p], None}
    BY <2>3 DEF ReportGone
  <2>4. ASSUME link' = link PROVE link'[p] \in {link[p], None}
    BY <2>4
  <2>5. ASSUME NEW t \in Tasks, ConnectStep(t), ~Attach(t) PROVE link' = link
    BY <2>5 DEF ConnectStep, Ask, TakeRadio, WaitEnds, LookAgain, Dial, DialFails, LookSelected,
       SelectFirst, Remember, PersistLinked, fleet
  <2>6. ASSUME NEW t \in Tasks, DisconnectStep(t), ~RemoveEntry(t), ~DrainEntries(t)
        PROVE  link' = link
    BY <2>6 DEF DisconnectStep, FindDevice, LookActive, Unselect, FindNext, SelectNext, HangUp,
       Forget, PersistDropped, UnselectAll, fleet
  <2>7. ASSUME NEW t \in Tasks, BorrowStep(t) PROVE link' = link
    BY <2>7 DEF BorrowStep, LookHeld, LookWanted, GiveBack, fleet
  <2>8. ASSUME NEW c \in Clients, NEW q \in Panels,
               DisconnectAll(c) \/ Connect(c, q) \/ Borrow(c, q) \/ Disconnect(c, q)
        PROVE  link' = link
    BY <2>8 DEF DisconnectAll, Connect, Borrow, Disconnect, Begin, fleet
  <2>9. ASSUME NEW q \in Panels,
               SelectDevice(q) \/ RestoreNext(q) \/ LinkDies(q) \/ CallFails(q)
        PROVE  link' = link
    BY <2>9 DEF SelectDevice, RestoreNext, LinkDies, CallFails, fleet
  <2>10. ASSUME UNCHANGED vars PROVE link' = link
    BY <2>10 DEF vars, fleet
  <2> QED
    BY <2>1, <2>2, <2>3, <2>4, <2>5, <2>6, <2>7, <2>8, <2>9, <2>10 DEF Next
<1> QED
  BY Invariance, <1>1, PTL DEF Spec, OneOwner


(* A linked panel whose requests did not overlap is written down once       *)
(* nobody is at work on it: links.rs and the fleet agree.                   *)
THEOREM LinkedListed == Spec => []LinkedIsWanted
<1>1. IInv => LinkedIsWanted
  <2> SUFFICES ASSUME IInv, NEW p \in Panels, p \notin mixed, Linked(p), WorkingOn(p) = {}
               PROVE  p \in wanted
    BY DEF LinkedIsWanted
  <2>1. ASSUME NEW t \in Tasks, panel[t] = p, at[t] \in Listing PROVE FALSE
    BY <2>1 DEF WorkingOn, At, Listing
  <2> QED BY <2>1 DEF IInv, ListedSoon
<1> QED
  BY Invariance, <1>1, PTL
=============================================================================
