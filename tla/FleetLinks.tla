------------------------------ MODULE FleetLinks ------------------------------
(***************************************************************************)
(* Which panels the daemon holds, and which it remembers                   *)
(* (device/fleet.rs, daemon_connect.rs, daemon_connect/radio.rs, links.rs, *)
(* daemon/link.rs, monthly_best_link.rs).                                  *)
(*                                                                         *)
(* A connect takes the radio, dials, hands the link to the fleet, chooses  *)
(* the active panel if there is none, and writes the panel down; a         *)
(* disconnect undoes all of that. Each of these steps takes a lock of its  *)
(* own, and requests of several clients, the scheduled push that borrows a *)
(* link, the restore a daemon begins with and the report of a failed call  *)
(* interleave between them. A behaviour is one life of the daemon process, *)
(* which starts from whatever the file holds.                              *)
(*                                                                         *)
(* A link stands for a connection, so a mock panel, which has none and is  *)
(* relinked freely, is left out; so are the live jobs, leases and queues a *)
(* link carries, which LiveScreen, ScreenLease and CommandQueue follow.    *)
(***************************************************************************)
EXTENDS Naturals

CONSTANTS Clients,      \* tasks that serve requests
          Restore,      \* the task that brings the saved panels back
          NumPanels,    \* panels, numbered in the order of their ids
          MaxRequests,  \* requests the clients make
          MaxLinks,     \* links that are dialled
          MaxReports    \* calls that have failed on a panel and not said so yet

ASSUME FleetAssumption ==
    /\ Restore \notin Clients
    /\ NumPanels \in Nat /\ MaxRequests \in Nat /\ MaxLinks \in Nat /\ MaxReports \in Nat

None   == 0
Panels == 1 .. NumPanels
Links  == 1 .. MaxLinks
Tasks  == Clients \cup {Restore}

VARIABLES
    known,      \* Fleet.devices: the panels that have an entry
    link,       \* per panel: its entry's link, None while it has none
    selected,   \* Fleet.selected
    radio,      \* Daemon.connecting: the tasks that hold the radio
    open,       \* the links the radio holds open
    dialled,    \* links dialled so far
    cutOff,     \* links the fleet let go of open: a failed call's report took them out,
                \* or hanging them up failed (history)
    reports,    \* per panel: failed calls about to report the panel gone
    wanted,     \* Wanted.inner: the panels written down
    file,       \* the list on disk
    todo,       \* saved panels the restore has not come to
    at,         \* per task: where it is
    kind,       \* per task: what for
    panel,      \* per task: on which panel, None for all of them
    hand,       \* per task: the links it has in hand
    draft,      \* per task: the list it is about to write
    next,       \* per task: the panel it is about to select
    asked,      \* requests made so far
    mixed,      \* panels two tasks have worked on at once (history)
    dropped     \* panels disconnected by request, and not connected by one since (history)

fleet == <<known, link, selected>>
air   == <<radio, open, dialled, cutOff, reports>>
list  == <<wanted, file>>
past  == <<asked, mixed, dropped>>
what  == <<kind, panel, hand, draft, next>>
vars  == <<fleet, air, list, todo, at, what, past>>

Kinds  == {"none", "connect", "borrow", "use", "drop", "dropAll", "restore"}
Places == {"idle", "borrowing", "unheld", "asked", "waiting", "radio", "dialling", "dialled",
           "attached", "choosing", "adopted", "remembered", "borrowed",
           "named", "found", "removed", "unselecting", "passing", "selecting", "leaving",
           "hungUp", "forgot", "all", "unselected"}

TypeOK ==
    /\ known \subseteq Panels /\ link \in [Panels -> {None} \cup Links]
    /\ selected \in {None} \cup Panels
    /\ radio \subseteq Tasks /\ \A t, u \in radio : t = u
    /\ open \subseteq Links /\ dialled \in {0} \cup Links /\ cutOff \subseteq Links
    /\ reports \in [Panels -> 0 .. MaxReports]
    /\ wanted \subseteq Panels /\ file \subseteq Panels /\ todo \subseteq Panels
    /\ mixed \subseteq Panels /\ dropped \subseteq Panels
    /\ at \in [Tasks -> Places] /\ kind \in [Tasks -> Kinds]
    /\ panel \in [Tasks -> {None} \cup Panels] /\ next \in [Tasks -> {None} \cup Panels]
    /\ hand \in [Tasks -> SUBSET Links] /\ draft \in [Tasks -> SUBSET Panels]
    /\ asked \in 0 .. MaxRequests
    /\ \A p \in Panels \ known : link[p] = None

(* A daemon that starts: an empty fleet, the list from the file, and the    *)
(* restore still to run.                                                    *)
Init ==
    /\ known = {} /\ link = [p \in Panels |-> None] /\ selected = None
    /\ radio = {} /\ open = {} /\ dialled = 0 /\ cutOff = {}
    /\ reports = [p \in Panels |-> 0]
    /\ file \in SUBSET Panels /\ wanted = file /\ todo = file
    /\ at = [t \in Tasks |-> "idle"] /\ kind = [t \in Tasks |-> "none"]
    /\ panel = [t \in Tasks |-> None] /\ next = [t \in Tasks |-> None]
    /\ hand = [t \in Tasks |-> {}] /\ draft = [t \in Tasks |-> {}]
    /\ asked = 0 /\ mixed = {} /\ dropped = {}

Linked(p) == link[p] # None
At(t, place) == at[t] = place
Move(t, place) == at' = [at EXCEPT ![t] = place]
Go(t, place) == Move(t, place) /\ UNCHANGED what
Finish(t) ==
    /\ Move(t, "idle") /\ kind' = [kind EXCEPT ![t] = "none"]
    /\ panel' = [panel EXCEPT ![t] = None] /\ next' = [next EXCEPT ![t] = None]
    /\ hand' = [hand EXCEPT ![t] = {}] /\ draft' = [draft EXCEPT ![t] = {}]

(* The tasks at work on panel p, the restore from its start.                *)
WorkingOn(p) ==
    {t \in Tasks : ~At(t, "idle") /\ panel[t] \in {p, None}}
        \cup {t \in {Restore} : p \in todo}

-----------------------------------------------------------------------------
(* Requests.                                                                *)

Begin(c, for, place, p) ==
    /\ At(c, "idle") /\ asked < MaxRequests
    /\ asked' = asked + 1
    /\ mixed' = mixed \cup {q \in Panels : p \in {q, None} /\ WorkingOn(q) # {}}
    /\ Move(c, place) /\ kind' = [kind EXCEPT ![c] = for] /\ panel' = [panel EXCEPT ![c] = p]
    /\ UNCHANGED <<fleet, air, list, todo, hand, draft, next, dropped>>

Connect(c, p)    == Begin(c, "connect", "asked", p)
Borrow(c, p)     == Begin(c, "borrow", "borrowing", p)
Disconnect(c, p) == Begin(c, "drop", "named", p)
DisconnectAll(c) == Begin(c, "dropAll", "all", None)

(* select_device names any panel, linked or not.                            *)
SelectDevice(p) ==
    /\ asked < MaxRequests /\ asked' = asked + 1
    /\ selected' = p
    /\ UNCHANGED <<known, link, air, list, todo, at, what, mixed, dropped>>

(* The restore replays the connect of the next saved panel.                 *)
RestoreNext(p) ==
    /\ At(Restore, "idle") /\ p \in todo
    /\ todo' = todo \ {p}
    /\ Move(Restore, "asked") /\ kind' = [kind EXCEPT ![Restore] = "restore"]
    /\ panel' = [panel EXCEPT ![Restore] = p]
    /\ UNCHANGED <<fleet, air, list, hand, draft, next, past>>

(* A connect is answered: a request ends, a borrower goes on with the link, *)
(* as its own or, if the panel was linked already, as somebody else's.      *)
Answered(t, how) ==
    IF kind[t] \in {"borrow", "use"} /\ how # "failed"
    THEN /\ Move(t, "borrowed") /\ draft' = [draft EXCEPT ![t] = {}]
         /\ kind' = [kind EXCEPT ![t] = IF how = "already" THEN "use" ELSE @]
         /\ UNCHANGED <<panel, hand, next>>
    ELSE Finish(t)

-----------------------------------------------------------------------------
(* connect.                                                                 *)

Ask(t) ==
    /\ At(t, "asked")
    /\ IF Linked(panel[t]) THEN Answered(t, "already") ELSE Go(t, "waiting")
    /\ UNCHANGED <<fleet, air, list, todo, past>>

(* A slip in it: the radio taken without looking whether a connect has it.  *)
TakeRadioAnyway(t) ==
    /\ At(t, "waiting")
    /\ radio' = radio \cup {t} /\ Go(t, "radio")
    /\ UNCHANGED <<fleet, open, dialled, cutOff, reports, list, todo, past>>

TakeRadio(t) ==
    /\ At(t, "waiting") /\ radio = {}
    /\ radio' = {t} /\ Go(t, "radio")
    /\ UNCHANGED <<fleet, open, dialled, cutOff, reports, list, todo, past>>

(* While another connect has the radio: the panel may be linked by then, or *)
(* the wait may have been long enough.                                      *)
WaitEnds(t) ==
    /\ At(t, "waiting") /\ radio # {}
    /\ Answered(t, IF Linked(panel[t]) THEN "already" ELSE "failed")
    /\ UNCHANGED <<fleet, air, list, todo, past>>

(* A slip in it: no second look at the fleet once the radio is had.         *)
LookOnce(t) ==
    /\ At(t, "radio") /\ Go(t, "dialling")
    /\ UNCHANGED <<fleet, air, list, todo, past>>

LookAgain(t) ==
    /\ At(t, "radio")
    /\ IF Linked(panel[t])
       THEN Answered(t, "already") /\ radio' = radio \ {t}
       ELSE Go(t, "dialling") /\ UNCHANGED radio
    /\ UNCHANGED <<fleet, open, dialled, cutOff, reports, list, todo, past>>

Dial(t) ==
    /\ At(t, "dialling") /\ dialled < MaxLinks
    /\ dialled' = dialled + 1 /\ open' = open \cup {dialled'}
    /\ Move(t, "dialled") /\ hand' = [hand EXCEPT ![t] = {dialled'}]
    /\ UNCHANGED <<fleet, kind, panel, draft, next, radio, cutOff, reports, list, todo, past>>

(* No panel answers, or the request outruns its deadline.                   *)
DialFails(t) ==
    /\ At(t, "dialling")
    /\ Answered(t, "failed") /\ radio' = radio \ {t}
    /\ UNCHANGED <<fleet, open, dialled, cutOff, reports, list, todo, past>>

(* A slip in Attach: the entry is found before the lock under which the     *)
(* link is attached, and a remove takes it out in between.                  *)
AttachUnlocked(t) ==
    /\ At(t, "dialled")
    /\ \/ /\ known' = known \cup {panel[t]}
          /\ \E l \in hand[t] : link' = [link EXCEPT ![panel[t]] = l]
       \/ /\ \E d \in Tasks : At(d, "removed") /\ panel[d] = panel[t]
          /\ UNCHANGED <<known, link>>
    /\ Move(t, "attached") /\ hand' = [hand EXCEPT ![t] = {}]
    /\ dropped' = IF t = Restore THEN dropped ELSE dropped \ {panel[t]}
    /\ UNCHANGED <<selected, air, list, todo, kind, panel, draft, next, asked, mixed>>

(* Fleet::adopt: the entry is found or made and the link attached at once;  *)
(* a link the entry had is retired, and its connection left as it is.       *)
Attach(t) ==
    /\ At(t, "dialled")
    /\ known' = known \cup {panel[t]}
    /\ \E l \in hand[t] : link' = [link EXCEPT ![panel[t]] = l]
    /\ Move(t, "attached") /\ hand' = [hand EXCEPT ![t] = {}]
    /\ dropped' = IF t = Restore THEN dropped ELSE dropped \ {panel[t]}
    /\ UNCHANGED <<selected, air, list, todo, kind, panel, draft, next, asked, mixed>>

(* The first panel to link is the active one.                               *)
LookSelected(t) ==
    /\ At(t, "attached")
    /\ Go(t, IF selected = None THEN "choosing" ELSE "adopted")
    /\ UNCHANGED <<fleet, air, list, todo, past>>

SelectFirst(t) ==
    /\ At(t, "choosing")
    /\ selected' = panel[t] /\ Go(t, "adopted")
    /\ UNCHANGED <<known, link, air, list, todo, past>>

(* Wanted::remember_link: the list changes under its lock ...               *)
Remember(t) ==
    /\ At(t, "adopted")
    /\ wanted' = wanted \cup {panel[t]}
    /\ Move(t, "remembered") /\ draft' = [draft EXCEPT ![t] = wanted']
    /\ UNCHANGED <<fleet, air, file, todo, kind, panel, hand, next, past>>

(* ... and the file is written after it; then the radio is let go.          *)
PersistLinked(t) ==
    /\ At(t, "remembered")
    /\ file' = draft[t]
    /\ Answered(t, "linked") /\ radio' = radio \ {t}
    /\ UNCHANGED <<fleet, open, dialled, cutOff, reports, wanted, todo, past>>

ConnectStep(t) ==
    \/ Ask(t) \/ TakeRadio(t) \/ WaitEnds(t) \/ LookAgain(t) \/ Dial(t) \/ DialFails(t)
    \/ Attach(t) \/ LookSelected(t) \/ SelectFirst(t) \/ Remember(t) \/ PersistLinked(t)

-----------------------------------------------------------------------------
(* disconnect of one panel.                                                 *)

FindDevice(t) ==
    /\ At(t, "named")
    /\ IF panel[t] \in known THEN Go(t, "found") ELSE Finish(t)
    /\ UNCHANGED <<fleet, air, list, todo, past>>

(* Fleet::remove takes the entry out of the map; if it is gone by now, only *)
(* the list is left to change.                                              *)
RemoveEntry(t) ==
    LET p == panel[t] IN
    /\ At(t, "found")
    /\ known' = known \ {p} /\ link' = [link EXCEPT ![p] = None]
    /\ Move(t, IF p \in known THEN "removed" ELSE "hungUp")
    /\ hand' = [hand EXCEPT ![t] = {link[p]} \ {None}]
    /\ UNCHANGED <<selected, air, list, todo, kind, panel, draft, next, past>>

LookActive(t) ==
    /\ At(t, "removed")
    /\ Go(t, IF selected = panel[t] THEN "unselecting" ELSE "leaving")
    /\ UNCHANGED <<fleet, air, list, todo, past>>

Unselect(t) ==
    /\ At(t, "unselecting")
    /\ selected' = IF selected = panel[t] THEN None ELSE selected
    /\ Go(t, "passing")
    /\ UNCHANGED <<known, link, air, list, todo, past>>

(* A slip in FindNext: the active slot is left empty when its panel goes.   *)
FindNextNever(t) ==
    /\ At(t, "passing") /\ Go(t, "leaving")
    /\ UNCHANGED <<fleet, air, list, todo, past>>

(* The active slot passes to the first of the linked panels.                *)
FindNext(t) ==
    LET linked == {p \in Panels : Linked(p)} IN
    /\ At(t, "passing")
    /\ IF linked = {}
       THEN Go(t, "leaving")
       ELSE \E p \in linked :
              /\ \A q \in linked : p <= q
              /\ Move(t, "selecting") /\ next' = [next EXCEPT ![t] = p]
              /\ UNCHANGED <<kind, panel, hand, draft>>
    /\ UNCHANGED <<fleet, air, list, todo, past>>

SelectNext(t) ==
    /\ At(t, "selecting")
    /\ selected' = next[t]
    /\ Move(t, "leaving") /\ next' = [next EXCEPT ![t] = None]
    /\ UNCHANGED <<known, link, air, list, todo, kind, panel, hand, draft, past>>

(* Device::forget retires the links in hand and hang_up closes them, or     *)
(* takes no notice that it could not.                                       *)
HangUp(t) ==
    /\ At(t, "leaving")
    /\ \E closed \in SUBSET hand[t] :
         /\ open' = open \ closed
         /\ cutOff' = cutOff \cup ((hand[t] \cap open) \ closed)
    /\ Move(t, "hungUp") /\ hand' = [hand EXCEPT ![t] = {}]
    /\ UNCHANGED <<fleet, kind, panel, draft, next, radio, dialled, reports, list, todo, past>>

(* A slip in Named: one panel's disconnect forgets them all.                *)
NamedAll(t) == Panels

(* Wanted::forget_link and forget_all_links write the file only if there    *)
(* was something to forget.                                                 *)
Named(t) == IF panel[t] = None THEN Panels ELSE {panel[t]}

Dropped(t) == dropped' = dropped \cup Named(t) /\ UNCHANGED <<asked, mixed>>

Forget(t) ==
    /\ At(t, "hungUp")
    /\ wanted' = wanted \ Named(t)
    /\ IF wanted' = wanted
       THEN Finish(t) /\ Dropped(t)
       ELSE /\ Move(t, "forgot") /\ draft' = [draft EXCEPT ![t] = wanted']
            /\ UNCHANGED <<kind, panel, hand, next, past>>
    /\ UNCHANGED <<fleet, air, file, todo>>

PersistDropped(t) ==
    /\ At(t, "forgot")
    /\ file' = draft[t]
    /\ Finish(t) /\ Dropped(t)
    /\ UNCHANGED <<fleet, air, wanted, todo>>

(* disconnect of every panel: Fleet::drain, then as above.                  *)
UnselectAll(t) ==
    /\ At(t, "all")
    /\ selected' = None /\ Go(t, "unselected")
    /\ UNCHANGED <<known, link, air, list, todo, past>>

DrainEntries(t) ==
    /\ At(t, "unselected")
    /\ known' = {} /\ link' = [p \in Panels |-> None]
    /\ Move(t, "leaving")
    /\ hand' = [hand EXCEPT ![t] = {link[p] : p \in Panels} \ {None}]
    /\ UNCHANGED <<selected, air, list, todo, kind, panel, draft, next, past>>

DisconnectStep(t) ==
    \/ FindDevice(t) \/ RemoveEntry(t) \/ LookActive(t) \/ Unselect(t) \/ FindNext(t)
    \/ SelectNext(t) \/ HangUp(t) \/ Forget(t) \/ PersistDropped(t)
    \/ UnselectAll(t) \/ DrainEntries(t)

-----------------------------------------------------------------------------
(* The scheduled push borrows a link (monthly_best_link.rs).                *)

(* A panel the fleet holds is used as it is ...                             *)
LookHeld(t) ==
    /\ At(t, "borrowing")
    /\ IF Linked(panel[t]) THEN Answered(t, "already") ELSE Go(t, "unheld")
    /\ UNCHANGED <<fleet, air, list, todo, past>>

(* ... and one that is written down is connected but not given back.        *)
LookWanted(t) ==
    /\ At(t, "unheld")
    /\ Move(t, "asked")
    /\ kind' = [kind EXCEPT ![t] = IF panel[t] \in wanted THEN "use" ELSE "borrow"]
    /\ UNCHANGED <<fleet, air, list, todo, panel, hand, draft, next, past>>

(* release: cmd_disconnect_one, if the push opened the link.                *)
GiveBack(t) ==
    /\ At(t, "borrowed")
    /\ IF kind[t] = "borrow" THEN Go(t, "named") ELSE Finish(t)
    /\ UNCHANGED <<fleet, air, list, todo, past>>

BorrowStep(t) == LookHeld(t) \/ LookWanted(t) \/ GiveBack(t)

-----------------------------------------------------------------------------
(* Links that are lost.                                                     *)

LinkDies(p) ==
    /\ link[p] \in open
    /\ open' = open \ {link[p]}
    /\ UNCHANGED <<fleet, radio, dialled, cutOff, reports, list, todo, at, what, past>>

(* A call that could not be sent finds the link gone ...                    *)
CallFails(p) ==
    /\ Linked(p) /\ link[p] \notin open /\ reports[p] < MaxReports
    /\ reports' = [reports EXCEPT ![p] = @ + 1]
    /\ UNCHANGED <<fleet, radio, open, dialled, cutOff, list, todo, at, what, past>>

(* ... and link_failed detaches the link the panel has then.                *)
ReportGone(p) ==
    /\ reports[p] > 0
    /\ reports' = [reports EXCEPT ![p] = @ - 1]
    /\ link' = [link EXCEPT ![p] = None]
    /\ cutOff' = cutOff \cup ({link[p]} \cap open)
    /\ UNCHANGED <<known, selected, radio, open, dialled, list, todo, at, what, past>>

-----------------------------------------------------------------------------
Next ==
    \/ \E c \in Clients : DisconnectAll(c)
    \/ \E c \in Clients, p \in Panels : Connect(c, p) \/ Borrow(c, p) \/ Disconnect(c, p)
    \/ \E p \in Panels : SelectDevice(p) \/ RestoreNext(p)
    \/ \E t \in Tasks : ConnectStep(t) \/ DisconnectStep(t) \/ BorrowStep(t)
    \/ \E p \in Panels : LinkDies(p) \/ CallFails(p) \/ ReportGone(p)

Spec == Init /\ [][Next]_vars

-----------------------------------------------------------------------------
(* Properties.                                                              *)

Quiet == todo = {} /\ \A t \in Tasks : At(t, "idle")

(* A connection that is open can be reached through the fleet, or is in the *)
(* hands of a task that will put it there or hang it up: Fleet::adopt finds *)
(* the entry and attaches under one lock, so no remove between the two can  *)
(* leave a link "connected, unreachable, never hung up" (P5.9). The links a *)
(* late report of a failed call took away are counted apart: link_failed    *)
(* names a panel, and may detach a link newer than the one that failed. So  *)
(* are those whose disconnect failed, which hang_up does not try again.     *)
NothingStranded ==
    \A l \in open : \/ \E p \in Panels : l = link[p]
                    \/ \E t \in Tasks : l \in hand[t]
                    \/ l \in cutOff

(* One owner holds a panel's link (D.DV2c): however many connects for it    *)
(* wait for the radio, no link is ever put over one the fleet has.          *)
OneOwner ==
    [][\A p \in Panels : Linked(p) => link'[p] \in {link[p], None}]_vars

(* With nothing under way the active slot is not empty while a panel is     *)
(* linked: whoever empties it (Fleet::remove, Fleet::drain) and whoever     *)
(* fills it (Fleet::adopt, Fleet::remove) look at it and at the fleet under *)
(* different locks, and may not each leave it to the other.                 *)
SomethingSelected ==
    Quiet /\ (\E p \in Panels : Linked(p)) => selected # None

(* A panel that is linked is written down, whatever went on for the other   *)
(* panels meanwhile, so it comes back if the daemon restarts. Requests for  *)
(* one panel that overlap are left out: the fleet and the list change under *)
(* different locks, and the later of two may change the list first.         *)
LinkedIsWanted ==
    \A p \in Panels \ mixed : Linked(p) /\ WorkingOn(p) = {} => p \in wanted

(* What cmd_disconnect and cmd_disconnect_one say of the panels they drop:  *)
(* "none of them comes back on the next start". The restore does not ask    *)
(* the list again, and the file is written outside the list's lock.         *)
StaysDropped == Quiet => file \cap dropped = {}

=============================================================================
