------------------------------ MODULE HotUpdate ------------------------------
(***************************************************************************)
(* One session of the hot channel update (HotUpdate of                     *)
(* divoom_legacy/tools/hot_update.py, with the waiting and the listening   *)
(* of ble_notify.py; run_hot_session of divoomd/src/art_hot/session.rs).   *)
(*                                                                         *)
(* The host says which versions it has (0x9B); from then on the panel      *)
(* drives: it requests a file (0xF7), the host offers one (0x9D), the      *)
(* panel takes or declines it, the host streams its packets (0x9E), and    *)
(* the panel asks for packets again or says that the file is done. The     *)
(* host reads one queue, and a wait throws away what it does not look for. *)
(* The session ends when a wait runs out, when the panel pauses (0x9F) or  *)
(* requests what the host has not.                                         *)
(*                                                                         *)
(* The library and the daemon differ in what a failed packet write means.  *)
(* The panel is the one of the protocol's description (hot_update.py:12-30)*)
(* and of the exchange test_hot_update.py:3-6 replays: it asks for a       *)
(* vendor's next version until it has the newest one that was announced.   *)
(***************************************************************************)
EXTENDS Integers, Sequences, FiniteSets, FiniteSetsExt

CONSTANTS
    Vendors,      \* vendors of hot files
    Catalogue,    \* the files of the manifest: [vendor, version, packets]
    MaxDrops,     \* packets the panel loses on its way in
    MaxMishaps    \* failed writes, late answers, repeated requests, refusals, pauses

Request == [vendor : Vendors, version : Nat]
NoRequest == <<>>
NoFile == <<>>

ASSUME HotUpdateAssumption ==
    /\ IsFiniteSet(Catalogue)
    /\ Catalogue \subseteq [vendor : Vendors, version : Nat \ {0}, packets : Nat \ {0}]
    /\ \A f, g \in Catalogue : f.vendor = g.vendor /\ f.version = g.version => f = g
    /\ MaxDrops \in Nat /\ MaxMishaps \in Nat

VARIABLES
    lib,        \* whose session it is: "library" or "daemon"
    ear,        \* what a notification must be to be queued: "any", or one "listened" for
    listening,  \* the session's commands are in _listen_commands
    bodies,     \* the files that were downloaded
    pc,         \* where the session is
    pending,    \* _pending_request
    cur,        \* the file offered or streamed
    pkt,        \* the next packet of it
    served,     \* what the summary will list: [file, confirmed]
    inbox,      \* notification_queue
    air,        \* what was written and the panel has not read
    panel,      \* the panel: [phase, list, have, asked, file, got, wants, refused, stored]
    drops, mishaps

host == <<lib, ear, bodies>>
vars == <<lib, ear, listening, bodies, pc, pending, cur, pkt, served, inbox, air, panel, drops, mishaps>>

Frame == [cmd : {"request"}, req : Request]
    \cup [cmd : {"info"}, takes : BOOLEAN, start : Nat]
    \cup [cmd : {"data"}, done : BOOLEAN, idx : Nat]
    \cup [cmd : {"pause"}]
Written == [cmd : {"list"}, newest : [Vendors -> Nat]]
      \cup [cmd : {"info"}, file : Catalogue]
      \cup [cmd : {"data"}, file : Catalogue, idx : Nat]

TypeOK ==
    /\ lib \in {"library", "daemon"} /\ ear \in {"any", "listened"} /\ listening \in BOOLEAN
    /\ bodies \subseteq Catalogue
    /\ pc \in {"start", "list", "wait", "offer", "answer", "stream", "serve", "resend", "done", "failed"}
    /\ pending \in Request \cup {NoRequest}
    /\ cur \in bodies \cup {NoFile}
    /\ pkt \in Nat /\ (pc \in {"stream", "resend"} => pkt < cur.packets)
    /\ served \in Seq([file : bodies, confirmed : BOOLEAN])
    /\ inbox \in Seq(Frame) /\ air \in Seq(Written)
    /\ panel.phase \in {"fresh", "choosing", "asking", "receiving", "content"}
    /\ panel.got \subseteq Nat /\ panel.stored \subseteq bodies
    /\ drops \in 0 .. MaxDrops /\ mishaps \in 0 .. MaxMishaps

-----------------------------------------------------------------------------
(* The choice of files: what is announced, and what answers a request.      *)

\* _manifest_payload: the newest version of each vendor, 0 for no file at all.
Newest(v) == Max({f.version : f \in {g \in bodies : g.vendor = v}} \cup {0})

\* _pick_file: the version requested, else the lowest one above it.
\* A slip in it: only the very version is looked for.
ExactOnly(req) == {f \in bodies : f.vendor = req.vendor /\ f.version = req.version}
Picks(req) ==
    LET fit == {f \in bodies : f.vendor = req.vendor /\ f.version >= req.version}
    IN  {f \in fit : \A g \in fit : f.version <= g.version}

Fresh == [phase |-> "fresh", list |-> [v \in Vendors |-> 0], have |-> [v \in Vendors |-> 0],
          asked |-> NoRequest, file |-> NoFile, got |-> {}, wants |-> FALSE, refused |-> {}, stored |-> {}]

Leftovers == {<<>>} \cup {<<f>> : f \in [cmd : {"request"}, req : [vendor : Vendors, version : {1}]]
                                   \cup [cmd : {"info"}, takes : {TRUE}, start : {0}]
                                   \cup [cmd : {"data"}, done : {TRUE}, idx : {0}]
                                   \cup [cmd : {"pause"}]}

(* The manifest is loaded and some bodies are there. A frame of an earlier  *)
(* session may be left in the queue, which nothing empties: a mishap.       *)
Init ==
    /\ lib \in {"library", "daemon"}
    /\ ear \in (IF lib = "daemon" THEN {"any"} ELSE {"any", "listened"})
    /\ listening = FALSE
    /\ bodies \in (SUBSET Catalogue) \ {{}}
    /\ pc = "start"
    /\ pending = NoRequest /\ cur = NoFile /\ pkt = 0
    /\ served = <<>>
    /\ inbox \in Leftovers
    /\ air = <<>>
    /\ panel = Fresh
    /\ drops = 0
    /\ mishaps = Len(inbox)
    /\ mishaps <= MaxMishaps

-----------------------------------------------------------------------------
(* Writing and waiting.                                                     *)

Write(m) == air' = Append(air, m) /\ UNCHANGED mishaps
Mishap == mishaps < MaxMishaps /\ mishaps' = mishaps + 1
WriteFails == Mishap /\ UNCHANGED air
Calm == UNCHANGED <<drops, panel>>

\* What each wait looks for.
Wanted == CASE pc = "wait"   -> {"request", "pause"}
            [] pc = "answer" -> {"info", "request"}
            [] pc = "serve"  -> {"data", "request"}
            [] OTHER         -> {}

Reads(cmd) == inbox # <<>> /\ Head(inbox).cmd = cmd /\ cmd \in Wanted /\ inbox' = Tail(inbox)

(* wait_for_any_response takes a frame it was not asked for, and goes on.   *)
Skip ==
    /\ Wanted # {} /\ inbox # <<>> /\ Head(inbox).cmd \notin Wanted
    /\ pending = NoRequest
    /\ inbox' = Tail(inbox)
    /\ UNCHANGED <<host, listening, pc, pending, cur, pkt, served, air, mishaps>> /\ Calm

\* A packet is asked for once more when the stream has fallen still.
Lacks == 0 .. panel.file.packets - 1 \ panel.got
AsksAgain == panel.phase = "receiving" /\ air = <<>> /\ ~ panel.wants /\ pc # "stream"

\* Five seconds pass: the panel has nothing to say, or it is late.
PanelStill == air = <<>> /\ panel.phase # "choosing" /\ ~ AsksAgain
Silence == inbox = <<>> /\ pending = NoRequest /\ Calm
           /\ \/ PanelStill /\ UNCHANGED mishaps
              \/ Mishap

-----------------------------------------------------------------------------
(* The session.                                                             *)

\* The finally block: the library stops listening, the queue is left alone.
Ends(how) == pc' = how /\ listening' = FALSE

\* update listens before it writes the manifest.
Listen ==
    /\ pc = "start" /\ pc' = "list"
    /\ listening' = (ear = "listened")
    /\ UNCHANGED <<host, pending, cur, pkt, served, inbox, air, mishaps>> /\ Calm

SendList ==
    /\ pc = "list"
    /\ \/ Write([cmd |-> "list", newest |-> [v \in Vendors |-> Newest(v)]])
          /\ pc' = "wait" /\ UNCHANGED listening
       \/ WriteFails /\ Ends("failed")
    /\ UNCHANGED <<host, pending, cur, pkt, served, inbox>> /\ Calm

(* The request to serve: the one at hand, or the next in the queue.         *)
\* A slip in it: the one at hand stays there.
KeepRequest(req) ==
    \/ pending # NoRequest /\ req = pending /\ UNCHANGED <<pending, inbox>>
    \/ pending = NoRequest /\ Reads("request") /\ req = Head(inbox).req /\ UNCHANGED pending
TakeRequest(req) ==
    \/ pending # NoRequest /\ req = pending /\ pending' = NoRequest /\ UNCHANGED inbox
    \/ pending = NoRequest /\ Reads("request") /\ req = Head(inbox).req /\ UNCHANGED pending

NextRequest ==
    IF pending # NoRequest THEN {pending}
    ELSE IF inbox # <<>> /\ Head(inbox).cmd = "request" THEN {Head(inbox).req} ELSE {}

Serve ==
    /\ pc = "wait"
    /\ \E req \in NextRequest :
          /\ TakeRequest(req)
          /\ \/ \E f \in Picks(req) : pc' = "offer" /\ cur' = f /\ UNCHANGED listening
             \/ Picks(req) = {} /\ Ends("done") /\ UNCHANGED cur
    /\ UNCHANGED <<host, pkt, served, air, mishaps>> /\ Calm

WaitEnds ==
    /\ pc = "wait"
    /\ \/ pending = NoRequest /\ Reads("pause") /\ UNCHANGED mishaps /\ Calm
       \/ Silence /\ UNCHANGED inbox
    /\ Ends("done")
    /\ UNCHANGED <<host, pending, cur, pkt, served, air>>

Offer ==
    /\ pc = "offer"
    /\ \/ Write([cmd |-> "info", file |-> cur]) /\ pc' = "answer" /\ UNCHANGED listening
       \/ WriteFails /\ Ends("failed")
    /\ UNCHANGED <<host, pending, cur, pkt, served, inbox>> /\ Calm

Answered ==
    /\ pc = "answer"
    /\ \/ Reads("request") /\ pending' = Head(inbox).req /\ pc' = "wait" /\ UNCHANGED pkt
       \/ /\ Reads("info") /\ UNCHANGED pending
          /\ LET a == Head(inbox)
             IN  /\ pc' = IF ~ a.takes THEN "wait" ELSE IF a.start < cur.packets THEN "stream" ELSE "serve"
                 /\ pkt' = IF a.takes THEN a.start ELSE pkt
    /\ UNCHANGED <<host, listening, cur, served, air, mishaps>> /\ Calm

NotAnswered ==
    /\ pc = "answer" /\ Silence
    /\ Ends("done")
    /\ UNCHANGED <<host, pending, cur, pkt, served, inbox, air>>

\* A packet goes out.
\* A slip in it: the last one is not told apart.
StreamOn == pc' = "stream" /\ pkt' = pkt + 1
NextPacket ==
    /\ pkt' = pkt + 1
    /\ pc' = IF pkt + 1 < cur.packets THEN "stream" ELSE "serve"

(* After a failed write the library gives the file up; the daemon serves    *)
(* what the panel asks for.                                                 *)
AfterFailedWrite == IF lib = "daemon" THEN "serve" ELSE "wait"
Stream ==
    /\ pc = "stream"
    /\ \/ Write([cmd |-> "data", file |-> cur, idx |-> pkt]) /\ NextPacket
       \/ WriteFails /\ pc' = AfterFailedWrite /\ UNCHANGED pkt
    /\ UNCHANGED <<host, listening, pending, cur, served, inbox>> /\ Calm

FileEnds(ok) == served' = Append(served, [file |-> cur, confirmed |-> ok]) /\ pc' = "wait"

FileDone ==
    /\ pc = "serve"
    /\ \/ Reads("request") /\ pending' = Head(inbox).req
       \/ Reads("data") /\ Head(inbox).done /\ UNCHANGED pending
    /\ FileEnds(TRUE)
    /\ UNCHANGED <<host, listening, cur, pkt, air, mishaps>> /\ Calm

\* A slip in it: every packet was written, so the file is there.
FileQuietIsDone ==
    /\ pc = "serve" /\ Silence
    /\ FileEnds(TRUE)
    /\ UNCHANGED <<host, listening, pending, cur, pkt, inbox, air>>
FileQuiet ==
    /\ pc = "serve" /\ Silence
    /\ FileEnds(FALSE)
    /\ UNCHANGED <<host, listening, pending, cur, pkt, inbox, air>>

AskedAgain ==
    /\ pc = "serve" /\ Reads("data") /\ ~ Head(inbox).done
    /\ pc' = "resend" /\ pkt' = Head(inbox).idx
    /\ UNCHANGED <<host, listening, pending, cur, served, air, mishaps>> /\ Calm

\* Whether the write failed is not looked at.
Resend ==
    /\ pc = "resend" /\ pc' = "serve"
    /\ Write([cmd |-> "data", file |-> cur, idx |-> pkt]) \/ WriteFails
    /\ UNCHANGED <<host, listening, pending, cur, pkt, served, inbox>> /\ Calm

Session ==
    \/ Listen \/ SendList \/ Skip \/ Serve \/ WaitEnds \/ Offer \/ Answered \/ NotAnswered
    \/ Stream \/ FileDone \/ FileQuiet \/ AskedAgain \/ Resend

-----------------------------------------------------------------------------
(* The panel.                                                               *)

\* _handle_ios_le_notification drops what is not listened for.
Hears == ear = "any" \/ listening
Says(f) == inbox' = IF Hears THEN Append(inbox, f) ELSE inbox
Still == UNCHANGED <<host, listening, pc, pending, cur, pkt, served>>

Choosing == [panel EXCEPT !.phase = "choosing", !.asked = NoRequest, !.file = NoFile, !.got = {}, !.wants = FALSE]

ReadsList ==
    /\ Head(air).cmd = "list"
    /\ panel' = [Choosing EXCEPT !.list = Head(air).newest]
    /\ UNCHANGED <<inbox, drops, mishaps>>

\* It takes the file it asked for, from where an earlier transfer stopped,
\* or refuses; the offer of a file it is taking is answered once more.
ReadsOffer ==
    /\ Head(air).cmd = "info"
    /\ LET f == Head(air).file
           fits == \/ panel.phase = "asking" /\ f.vendor = panel.asked.vendor /\ f.version >= panel.asked.version
                   \/ panel.phase = "receiving" /\ f = panel.file
       IN  \/ /\ fits /\ UNCHANGED mishaps
              /\ \E k \in 0 .. f.packets - 1 :
                    /\ Says([cmd |-> "info", takes |-> TRUE, start |-> k])
                    /\ panel' = [panel EXCEPT !.phase = "receiving", !.file = f, !.got = 0 .. k - 1, !.wants = FALSE]
           \/ /\ fits /\ panel.phase = "asking" /\ Mishap
              /\ Says([cmd |-> "info", takes |-> FALSE, start |-> 0])
              /\ panel' = [Choosing EXCEPT !.refused = @ \cup {f.vendor}]
           \/ /\ ~ fits /\ UNCHANGED <<panel, mishaps>>
              /\ Says([cmd |-> "info", takes |-> FALSE, start |-> 0])
    /\ UNCHANGED drops

ReadsPacket ==
    /\ Head(air).cmd = "data"
    /\ LET now == panel.got \cup {Head(air).idx}
           f   == panel.file
       IN  IF panel.phase # "receiving" \/ f # Head(air).file
           THEN UNCHANGED <<panel, inbox, drops>>
           ELSE \/ /\ now # 0 .. f.packets - 1
                   /\ panel' = [panel EXCEPT !.got = now, !.wants = FALSE]
                   /\ UNCHANGED <<inbox, drops>>
                \/ /\ now = 0 .. f.packets - 1
                   /\ panel' = [Choosing EXCEPT !.have[f.vendor] = f.version, !.stored = @ \cup {f}]
                   /\ Says([cmd |-> "data", done |-> TRUE, idx |-> 0])
                   /\ UNCHANGED drops
                \/ /\ drops < MaxDrops /\ drops' = drops + 1
                   /\ panel' = [panel EXCEPT !.wants = FALSE]
                   /\ UNCHANGED inbox
    /\ UNCHANGED mishaps

PanelReads ==
    /\ air # <<>> /\ air' = Tail(air)
    /\ ReadsList \/ ReadsOffer \/ ReadsPacket
    /\ Still

Behind == {v \in Vendors \ panel.refused : panel.have[v] < panel.list[v]}

\* The next version it lacks; when it lacks none, one that is not there, or nothing.
PanelAsks ==
    /\ panel.phase = "choosing"
    /\ \/ \E v \in IF Behind # {} THEN Behind ELSE Vendors \ panel.refused :
             LET req == [vendor |-> v, version |-> panel.have[v] + 1]
             IN  Says([cmd |-> "request", req |-> req])
                 /\ panel' = [panel EXCEPT !.phase = "asking", !.asked = req]
       \/ Behind = {} /\ panel' = [panel EXCEPT !.phase = "content"] /\ UNCHANGED inbox
    /\ UNCHANGED <<air, drops, mishaps>> /\ Still

PanelAsksAgain ==
    /\ AsksAgain
    /\ Says([cmd |-> "data", done |-> FALSE, idx |-> Min(Lacks)])
    /\ panel' = [panel EXCEPT !.wants = TRUE]
    /\ UNCHANGED <<air, drops, mishaps>> /\ Still

\* It repeats a request that is not answered yet, or calls the update off.
PanelRepeats ==
    /\ Mishap
    /\ \/ panel.phase = "asking" /\ Says([cmd |-> "request", req |-> panel.asked]) /\ UNCHANGED panel
       \/ panel.phase \in {"choosing", "asking", "receiving"}
          /\ Says([cmd |-> "pause"]) /\ panel' = [panel EXCEPT !.phase = "content"]
    /\ UNCHANGED <<air, drops>> /\ Still

Panel == PanelReads \/ PanelAsks \/ PanelAsksAgain \/ PanelRepeats

Next == Session \/ Panel

Spec == Init /\ [][Next]_vars
(* The session runs on and its timeouts pass; a panel in reach reads what   *)
(* it is sent and says what it has to say.                                  *)
FairSpec == Spec /\ WF_vars(Session) /\ WF_vars(PanelReads \/ PanelAsks \/ PanelAsksAgain)

-----------------------------------------------------------------------------
(* A file the summary counts as confirmed is in the panel: no answer of an  *)
(* earlier file, an earlier offer or an earlier session, no repeated        *)
(* request and no failed write passes for it                                *)
(* (hot_update.py:207-215, 335-342; session.rs:122-131).                    *)
ConfirmedIsStored ==
    \A i \in DOMAIN served : served[i].confirmed => served[i].file \in panel.stored

(* When nothing goes wrong but packets lost on their way, a session that    *)
(* has ended left the panel with the newest file of every vendor it         *)
(* announced: nothing said in time is thrown away or left unread, and what  *)
(* is announced can be picked (hot_update.py:173-201, 284-330).             *)
CleanRunCompletes ==
    pc = "done" /\ mishaps = 0 => \A v \in Vendors : panel.have[v] = Newest(v)

(* Every session ends: no exchange of requests, offers and resends goes     *)
(* round for ever (hot_update.py:287-330).                                  *)
SessionEnds == <>(pc \in {"done", "failed"})
=============================================================================
