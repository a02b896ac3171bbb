--------------------------- MODULE HotUpdateProofs ---------------------------
(***************************************************************************)
(* What holds of HotUpdate for any vendors, any manifest of files and any  *)
(* number of lost packets and mishaps: its types, that a file the summary  *)
(* counts as confirmed is in the panel, and that a session in which only   *)
(* packets were lost leaves the panel with the newest of everything.       *)
(*                                                                         *)
(* The first argument is about the queue of notifications. Which file the  *)
(* host will have offered when it comes to a frame is decided by the last  *)
(* request before that frame; the panel's last request is the one it is    *)
(* asking; so a "takes it" is read only by a host that offered the file    *)
(* the panel took, and what the panel says behind it of the end of a file  *)
(* is about that file until it is stored. The second follows the exchange  *)
(* from stage to stage: without mishaps each side knows what the other     *)
(* waits for, and no wait runs out before the panel has all it wants.      *)
(***************************************************************************)
EXTENDS HotUpdate, FiniteSetTheorems, TLAPS

(* TypeOK, in parts.                                                        *)
HostType ==
    /\ lib \in {"library", "daemon"} /\ ear \in {"any", "listened"} /\ listening \in BOOLEAN
    /\ bodies \subseteq Catalogue
    /\ pc \in {"start", "list", "wait", "offer", "answer", "stream", "serve", "resend", "done", "failed"}
PendingType == pending \in Request \cup {NoRequest}
FileType == cur \in bodies \cup {NoFile} /\ pkt \in Nat
ServedType == served \in Seq([file : bodies, confirmed : BOOLEAN])
InboxType == inbox \in Seq(Frame)
AirType == air \in Seq(Written)
PanelType ==
    panel \in [phase : {"fresh", "choosing", "asking", "receiving", "content"},
               list : [Vendors -> Nat], have : [Vendors -> Nat], asked : Request \cup {NoRequest},
               file : bodies \cup {NoFile}, got : SUBSET Nat, wants : BOOLEAN,
               refused : SUBSET Vendors, stored : SUBSET bodies]
CountType == drops \in 0 .. MaxDrops /\ mishaps \in 0 .. MaxMishaps

(* Where the session is decides what it has at hand.                        *)
Over == pc \in {"done", "failed"}
HasFile == pc \in {"offer", "answer", "stream", "serve", "resend"} => cur \in bodies
PacketLeft == pc \in {"stream", "resend"} => pkt < cur.packets
PendingWaits == pending # NoRequest => pc = "wait"
HearsAll == ~ Over /\ pc # "start" => Hears
Silent == pc \in {"start", "list"} => air = <<>> /\ panel.phase = "fresh"

(* A request known to the host is for a version the panel has or lacks      *)
(* next; so the file it leads to is the panel's next of that vendor, if the *)
(* panel has not got it by then.                                            *)
KnownTo(r, have) == r.version <= have[r.vendor] + 1
NearTo(f, have) == \A g \in bodies : g.vendor = f.vendor /\ g.version > have[f.vendor] => f.version <= g.version
Known(r) == KnownTo(r, panel.have)
Near(f) == NearTo(f, panel.have)
Requests ==
    /\ \A i \in 1 .. Len(inbox) : inbox[i].cmd = "request" => Known(inbox[i].req)
    /\ pending # NoRequest => Known(pending)
Offers ==
    /\ \A i \in 1 .. Len(air) : air[i].cmd = "info" => air[i].file \in bodies /\ Near(air[i].file)
    /\ pc = "offer" => Near(cur)

(* The list is read first of all; a packet is one of its file's.            *)
ListFirst == \A i \in 1 .. Len(air) : air[i].cmd = "list" => i = 1 /\ panel.phase = "fresh"
Packets == \A i \in 1 .. Len(air) : air[i].cmd = "data" => air[i].idx < air[i].file.packets

(* What the panel asks is its next version, what it receives is the file    *)
(* that answers, of which it lacks a packet, and what it stored it has.     *)
AsksNext ==
    panel.phase \in {"asking", "receiving"} =>
        panel.asked \in Request /\ panel.asked.version = panel.have[panel.asked.vendor] + 1
Receives ==
    panel.phase = "receiving" =>
        /\ panel.file \in Picks(panel.asked)
        /\ panel.got \subseteq 0 .. panel.file.packets - 1 /\ Lacks # {}
StoredOld == \A f \in panel.stored : f.version <= panel.have[f.vendor]

(* The files that the host may have offered last when it comes to position  *)
(* i of the queue q: what the last request before it leads to, or, without  *)
(* one, what it has on its hands now (base).                                *)
Base == IF pending # NoRequest THEN Picks(pending)
        ELSE IF pc \in {"offer", "answer"} THEN {cur} ELSE {}
Asks(m) == m.cmd = "request"
LastAsk(q, j, i) == Asks(q[j]) /\ \A k \in j + 1 .. i - 1 : ~ Asks(q[k])
NoAsk(q, i) == \A k \in 1 .. i - 1 : ~ Asks(q[k])
Ahead(q, base, i) ==
    {f \in bodies : \/ \E j \in 1 .. i - 1 : LastAsk(q, j, i) /\ f \in Picks(q[j].req)
                    \/ NoAsk(q, i) /\ f \in base}

(* Behind position i of the queue nothing is said of the end of a file      *)
(* before f is stored, and no packet asked for again that f has not.        *)
IsTaken(m) == m.cmd = "info" /\ m.takes
IsAgain(m) == m.cmd = "data" /\ ~ m.done
Closes(m) == m.cmd = "request" \/ (m.cmd = "data" /\ m.done)
Kept(f, p) == (p.phase = "receiving" /\ p.file = f) \/ p.phase = "content"
ClosedBehind(q, i) == \E j \in i + 1 .. Len(q) : Closes(q[j])
ClosesStored(f, q, i, p) == \A j \in i + 1 .. Len(q) : Closes(q[j]) => f \in p.stored
AgainFits(f, q, i) ==
    \A j \in i + 1 .. Len(q) :
        IsAgain(q[j]) /\ (\A k \in i + 1 .. j - 1 : ~ Closes(q[k])) => q[j].idx < f.packets
Held(f, q, i, p) ==
    (Kept(f, p) \/ ClosedBehind(q, i)) /\ ClosesStored(f, q, i, p) /\ AgainFits(f, q, i)

(* At the end of the queue the host is on what the panel asks ...           *)
Last ==
    ~ Over /\ panel.phase \in {"asking", "receiving"} =>
        Ahead(inbox, Base, Len(inbox) + 1) \subseteq Picks(panel.asked)
(* ... so whoever reads that the panel takes the file has offered that one, *)
Taken ==
    ~ Over => \A i \in 1 .. Len(inbox) :
                 IsTaken(inbox[i]) => \A f \in Ahead(inbox, Base, i) : Held(f, inbox, i, panel)
(* and while it is sent its end is told once it is stored.                  *)
Safe == pc \in {"stream", "serve", "resend"} => Held(cur, inbox, 0, panel)

Types == /\ HostType /\ PendingType /\ FileType /\ ServedType /\ InboxType /\ AirType /\ PanelType
         /\ CountType /\ HasFile /\ PacketLeft
IInv ==
    /\ Types
    /\ PendingWaits /\ HearsAll /\ Silent /\ Requests /\ Offers /\ ListFirst /\ Packets
    /\ AsksNext /\ Receives /\ StoredOld /\ Last /\ Taken /\ Safe /\ ConfirmedIsStored

-----------------------------------------------------------------------------
(* Numbers and finite sets.                                                 *)

(* Every set of naturals has a least element: of the intervals below its    *)
(* members one is contained in all.                                         *)
LEMMA Least ==
    ASSUME NEW T, T \subseteq Nat, T # {}
    PROVE  \E x \in T : \A y \in T : x <= y
<1> DEFINE R == StrictSubsetOrdering(Nat)
           U == {0 .. x : x \in T}
<1>1. IsWellFoundedOn(R, FiniteSubsetsOf(Nat))
  BY FS_StrictSubsetOrderingWellFounded
<1>2. U \subseteq FiniteSubsetsOf(Nat) /\ U # {}
  <2>1. \A x \in T : 0 .. x \subseteq Nat /\ IsFiniteSet(0 .. x)
    BY FS_Interval
  <2> QED BY <2>1 DEF FiniteSubsetsOf
<1>3. \E X \in U : \A Y \in U : <<Y, X>> \notin R
  <2> HIDE DEF R, U
  <2> QED BY <1>1, <1>2, WFMin
<1>4. PICK x \in T : \A y \in T : <<0 .. y, 0 .. x>> \notin R
  BY <1>3
<1>5. ASSUME NEW y \in T, y < x PROVE FALSE
  <2>1. 0 .. y \subseteq 0 .. x /\ x \in 0 .. x /\ x \notin 0 .. y
    BY <1>5
  <2>2. 0 .. y \in SUBSET Nat /\ 0 .. x \in SUBSET Nat
    OBVIOUS
  <2>3. <<0 .. y, 0 .. x>> \in R
    BY <2>1, <2>2 DEF StrictSubsetOrdering
  <2> QED BY <2>3, <1>4
<1> QED BY <1>5

(* A finite one that is not empty has a greatest.                           *)
LEMMA Greatest ==
    ASSUME NEW T, T \subseteq Nat, T # {}, IsFiniteSet(T)
    PROVE  \E x \in T : \A y \in T : x >= y
<1> DEFINE R == StrictSubsetOrdering(Nat)
           Bad == {X \in FiniteSubsetsOf(Nat) : X # {} /\ ~ \E x \in X : \A y \in X : x >= y}
<1> SUFFICES ASSUME T \in Bad PROVE FALSE
  BY DEF FiniteSubsetsOf
<1>1. IsWellFoundedOn(R, FiniteSubsetsOf(Nat))
  BY FS_StrictSubsetOrderingWellFounded
<1>2. \E X \in Bad : \A Y \in Bad : <<Y, X>> \notin R
  <2>1. Bad \subseteq FiniteSubsetsOf(Nat) /\ Bad # {}
    OBVIOUS
  <2> HIDE DEF R, Bad
  <2> QED BY <1>1, <2>1, WFMin
<1>3. PICK X \in Bad : \A Y \in Bad : <<Y, X>> \notin R
  BY <1>2
<1>4. PICK a \in X : TRUE
  OBVIOUS
<1>5. X \ {a} \in FiniteSubsetsOf(Nat)
  <2>1. IsFiniteSet(X \ {a})
    BY FS_RemoveElement DEF FiniteSubsetsOf
  <2> QED BY <2>1 DEF FiniteSubsetsOf
<1>6. <<X \ {a}, X>> \in R
  BY DEF StrictSubsetOrdering, FiniteSubsetsOf
<1>7. X \ {a} \notin Bad
  BY <1>3, <1>6
<1>8. X \subseteq Nat
  BY DEF FiniteSubsetsOf
<1>9. CASE X \ {a} = {}
  <2>1. \A y \in X : a >= y
    BY <1>9, <1>8
  <2> QED BY <2>1
<1>10. CASE X \ {a} # {}
  <2>1. PICK b \in X \ {a} : \A y \in X \ {a} : b >= y
    BY <1>5, <1>7, <1>10
  <2>2. CASE a >= b
    <3>1. \A y \in X : a >= y
      BY <2>1, <2>2, <1>8
    <3> QED BY <3>1
  <2>3. CASE ~ a >= b
    <3>1. \A y \in X : b >= y
      BY <2>1, <2>3, <1>8
    <3> QED BY <3>1
  <2> QED BY <2>2, <2>3
<1> QED BY <1>9, <1>10

-----------------------------------------------------------------------------
(* Files, frames and queues.                                                *)

LEMMA Constants ==
    /\ IsFiniteSet(Catalogue)
    /\ \A f \in Catalogue : /\ f.vendor \in Vendors /\ f.version \in Nat /\ f.version > 0
                            /\ f.packets \in Nat /\ f.packets > 0
    /\ \A f, g \in Catalogue : f.vendor = g.vendor /\ f.version = g.version => f = g
    /\ MaxDrops \in Nat /\ MaxMishaps \in Nat
  BY HotUpdateAssumption

LEMMA RequestFacts == \A r \in Request : r.vendor \in Vendors /\ r.version \in Nat
  BY DEF Request

LEMMA FrameFacts ==
    \A m \in Frame : /\ m.cmd = "request" => m.req \in Request
                     /\ m.cmd = "info" => m.takes \in BOOLEAN /\ m.start \in Nat
                     /\ m.cmd = "data" => m.done \in BOOLEAN /\ m.idx \in Nat
  BY DEF Frame

LEMMA WrittenFacts ==
    \A m \in Written : /\ m.cmd = "list" => m.newest \in [Vendors -> Nat]
                       /\ m.cmd = "info" => m.file \in Catalogue
                       /\ m.cmd = "data" => m.file \in Catalogue /\ m.idx \in Nat
                       /\ m.cmd \in {"list", "info", "data"}
  BY DEF Written

LEMMA SeqAppend ==
    ASSUME NEW S, NEW q \in Seq(S), NEW m \in S
    PROVE  /\ Append(q, m) \in Seq(S) /\ Len(q) \in Nat /\ Len(Append(q, m)) = Len(q) + 1
           /\ \A i \in 1 .. Len(q) : Append(q, m)[i] = q[i]
           /\ Append(q, m)[Len(q) + 1] = m
  OBVIOUS

LEMMA SeqTail ==
    ASSUME NEW S, NEW q \in Seq(S), q # <<>>
    PROVE  /\ Tail(q) \in Seq(S) /\ Len(q) \in Nat /\ Len(q) > 0 /\ Len(Tail(q)) = Len(q) - 1
           /\ Head(q) \in S /\ Head(q) = q[1]
           /\ \A i \in 1 .. Len(q) - 1 : Tail(q)[i] = q[i + 1]
  OBVIOUS

(* A request leads to one file, the first there is from its version on.     *)
LEMMA PicksFacts ==
    ASSUME bodies \subseteq Catalogue, NEW r \in Request
    PROVE  /\ Picks(r) \subseteq bodies
           /\ \A f \in Picks(r) :
                 /\ f.vendor = r.vendor /\ f.version >= r.version
                 /\ \A g \in bodies : g.vendor = r.vendor /\ g.version >= r.version => f.version <= g.version
           /\ \A f \in bodies :
                 /\ f.vendor = r.vendor /\ f.version >= r.version
                 /\ \A g \in bodies : g.vendor = r.vendor /\ g.version >= r.version => f.version <= g.version
                 => f \in Picks(r)
           /\ \A f, g \in Picks(r) : f = g
<1>1. \A f, g \in Picks(r) : f.vendor = g.vendor /\ f.version = g.version /\ f \in Catalogue /\ g \in Catalogue
  BY Constants DEF Picks
<1>2. \A f, g \in Picks(r) : f = g
  BY <1>1, Constants
<1> QED BY <1>2 DEF Picks

(* The newest version of a vendor is a number: the files are finitely many. *)
LEMMA NewestFacts ==
    ASSUME bodies \subseteq Catalogue, NEW v
    PROVE  /\ Newest(v) \in Nat
           /\ \A f \in bodies : f.vendor = v => f.version <= Newest(v)
           /\ Newest(v) > 0 => \E f \in bodies : f.vendor = v /\ f.version = Newest(v)
<1> DEFINE B == {g \in bodies : g.vendor = v}
           V == {f.version : f \in B}
           F == [f \in B |-> f.version]
<1>1. IsFiniteSet(B)
  BY Constants, FS_Subset
<1>2. IsFiniteSet(V)
  <2>1. F \in Surjection(B, V)
    BY DEF Surjection
  <2> HIDE DEF B, V, F
  <2> QED BY <1>1, <2>1, FS_Surjection
<1>3. IsFiniteSet(V \cup {0})
  <2> HIDE DEF V
  <2> QED BY <1>2, FS_AddElement
<1>4. V \cup {0} \subseteq Nat
  BY Constants
<1>5. PICK x \in V \cup {0} : \A y \in V \cup {0} : x >= y
  <2> HIDE DEF V
  <2> QED BY <1>3, <1>4, Greatest
<1>6. Max(V \cup {0}) \in V \cup {0} /\ \A y \in V \cup {0} : Max(V \cup {0}) >= y
  <2> HIDE DEF V
  <2> QED BY <1>5 DEF Max
<1>7. Newest(v) = Max(V \cup {0})
  BY DEF Newest
<1>8. Newest(v) \in V \cup {0} /\ \A y \in V \cup {0} : Newest(v) >= y
  <2> HIDE DEF V
  <2> QED BY <1>6, <1>7
<1> QED BY <1>4, <1>8, Constants

(* Of the packets a panel lacks it asks for the first.                      *)
LEMMA MinFacts ==
    ASSUME NEW T, T \subseteq Nat, T # {}
    PROVE  Min(T) \in T
  BY Least DEF Min

(* The files ahead of a position do not change when the queue grows; at its *)
(* end they change with a request only, and then to what that leads to.     *)
LEMMA AheadGrows ==
    ASSUME NEW q \in Seq(Frame), NEW m \in Frame, NEW base, NEW i \in 1 .. Len(q) + 1
    PROVE  Ahead(Append(q, m), base, i) = Ahead(q, base, i)
<1> DEFINE r == Append(q, m)
<1>1. Len(q) \in Nat /\ \A k \in 1 .. i - 1 : r[k] = q[k]
  BY SeqAppend
<1> HIDE DEF r
<1>2. NoAsk(r, i) <=> NoAsk(q, i)
  BY <1>1 DEF NoAsk
<1>3. \A j \in 1 .. i - 1 : r[j] = q[j] /\ (LastAsk(r, j, i) <=> LastAsk(q, j, i))
  BY <1>1 DEF LastAsk
<1>4. Ahead(r, base, i) = Ahead(q, base, i)
  BY <1>2, <1>3 DEF Ahead
<1> QED BY <1>4 DEF r

LEMMA AheadEnds ==
    ASSUME NEW q \in Seq(Frame), NEW m \in Frame, NEW base
    PROVE  Ahead(Append(q, m), base, Len(q) + 2) \subseteq
               IF Asks(m) THEN Picks(m.req) ELSE Ahead(q, base, Len(q) + 1)
<1> DEFINE r == Append(q, m)
           n == Len(q)
<1>1. n \in Nat /\ r[n + 1] = m /\ \A k \in 1 .. n : r[k] = q[k]
  BY SeqAppend
<1> HIDE DEF r, n
<1> SUFFICES ASSUME NEW f \in Ahead(r, base, n + 2)
             PROVE  f \in IF Asks(m) THEN Picks(m.req) ELSE Ahead(q, base, n + 1)
  BY DEF r, n
<1>2. CASE Asks(m)
  <2>1. ~ NoAsk(r, n + 2)
    BY <1>1, <1>2 DEF NoAsk
  <2>2. PICK j \in 1 .. n + 1 : LastAsk(r, j, n + 2) /\ f \in Picks(r[j].req)
    BY <2>1, <1>1 DEF Ahead
  <2>3. j = n + 1
    BY <2>2, <1>1, <1>2 DEF LastAsk
  <2> QED BY <2>2, <2>3, <1>1, <1>2
<1>3. CASE ~ Asks(m)
  <2>1. NoAsk(r, n + 2) => NoAsk(q, n + 1)
    BY <1>1 DEF NoAsk
  <2>2. \A j \in 1 .. n + 1 : LastAsk(r, j, n + 2) => j \in 1 .. n /\ LastAsk(q, j, n + 1) /\ r[j] = q[j]
    BY <1>1, <1>3 DEF LastAsk
  <2>3. f \in Ahead(q, base, n + 1)
    BY <2>1, <2>2, <1>1 DEF Ahead
  <2> QED BY <2>3, <1>3
<1> QED BY <1>2, <1>3

(* Nor do they when the host takes the first frame: a request in front      *)
(* becomes what it has on its hands.                                        *)
LEMMA AheadMoves ==
    ASSUME NEW q \in Seq(Frame), q # <<>>, NEW base, NEW new,
           new \subseteq IF Asks(Head(q)) THEN Picks(Head(q).req) ELSE base,
           NEW i \in 1 .. Len(q)
    PROVE  Ahead(Tail(q), new, i) \subseteq Ahead(q, base, i + 1)
<1> DEFINE r == Tail(q)
<1>1. /\ Len(q) \in Nat /\ Head(q) = q[1]
      /\ \A k \in 1 .. i - 1 : r[k] = q[k + 1]
  BY SeqTail
<1> HIDE DEF r
<1> SUFFICES ASSUME NEW f \in Ahead(r, new, i) PROVE f \in Ahead(q, base, i + 1)
  BY DEF r
<1>2. ASSUME NEW j \in 1 .. i - 1, LastAsk(r, j, i), f \in Picks(r[j].req)
      PROVE  f \in Ahead(q, base, i + 1)
  <2>1. j + 1 \in 1 .. i /\ r[j] = q[j + 1]
    BY <1>1
  <2>2. LastAsk(q, j + 1, i + 1)
    <3>1. \A k \in (j + 1) + 1 .. (i + 1) - 1 : k - 1 \in j + 1 .. i - 1 /\ r[k - 1] = q[k]
      BY <1>1
    <3> QED BY <3>1, <2>1, <1>2 DEF LastAsk
  <2> QED BY <2>1, <2>2, <1>2 DEF Ahead
<1>3. ASSUME NoAsk(r, i), f \in new PROVE f \in Ahead(q, base, i + 1)
  <2>1. \A k \in 2 .. i : ~ Asks(q[k])
    <3>1. \A k \in 2 .. i : k - 1 \in 1 .. i - 1 /\ r[k - 1] = q[k]
      BY <1>1
    <3> QED BY <3>1, <1>3 DEF NoAsk
  <2>2. CASE Asks(Head(q))
    <3>1. LastAsk(q, 1, i + 1)
      BY <2>1, <2>2, <1>1 DEF LastAsk
    <3>2. f \in Picks(q[1].req)
      BY <1>3, <2>2, <1>1
    <3> QED BY <3>1, <3>2, <1>1 DEF Ahead
  <2>3. CASE ~ Asks(Head(q))
    <3>1. NoAsk(q, i + 1)
      <4>1. \A k \in 1 .. (i + 1) - 1 : k = 1 \/ k \in 2 .. i
        BY <1>1
      <4> QED BY <4>1, <2>1, <2>3, <1>1 DEF NoAsk
    <3> QED BY <3>1, <1>3, <2>3 DEF Ahead
  <2> QED BY <2>2, <2>3
<1>4. f \in bodies /\ ((\E j \in 1 .. i - 1 : LastAsk(r, j, i) /\ f \in Picks(r[j].req)) \/ (NoAsk(r, i) /\ f \in new))
  BY DEF Ahead
<1> QED BY <1>2, <1>3, <1>4

LEMMA AheadShrinks ==
    ASSUME NEW q, NEW base, NEW new, new \subseteq base, NEW i
    PROVE  Ahead(q, new, i) \subseteq Ahead(q, base, i)
  BY DEF Ahead

(* In front of the queue it is what the host has on its hands.              *)
LEMMA AheadFirst == ASSUME NEW q, NEW base PROVE Ahead(q, base, 1) = bodies \cap base
  BY DEF Ahead, NoAsk

(* What is held of a file stays so when the panel says something that does  *)
(* not contradict it, ...                                                   *)
LEMMA HeldSaid ==
    ASSUME NEW q \in Seq(Frame), NEW m \in Frame, NEW f, NEW i \in 0 .. Len(q), NEW p, NEW s,
           Held(f, q, i, p), p.stored \subseteq s.stored,
           Kept(f, p) => /\ Kept(f, s) \/ Closes(m)
                         /\ Closes(m) => f \in s.stored
                         /\ IsAgain(m) => m.idx < f.packets
    PROVE  Held(f, Append(q, m), i, s)
<1> DEFINE r == Append(q, m)
           n == Len(q)
<1>1. /\ n \in Nat /\ Len(r) = n + 1 /\ r[n + 1] = m /\ \A k \in 1 .. n : r[k] = q[k]
  BY SeqAppend
<1>2. i \in Nat /\ i <= n
  BY <1>1
<1> HIDE DEF r, n
<1>3. ClosedBehind(q, i) => ClosedBehind(r, i)
  <2>1. \A j \in i + 1 .. n : j \in i + 1 .. Len(r) /\ r[j] = q[j]
    BY <1>1, <1>2
  <2> QED BY <2>1 DEF ClosedBehind, n
<1>4. Closes(m) => ClosedBehind(r, i)
  <2>1. n + 1 \in i + 1 .. Len(r)
    BY <1>1, <1>2
  <2> QED BY <2>1, <1>1 DEF ClosedBehind
<1>5. ClosedBehind(q, i) => f \in p.stored
  BY DEF ClosedBehind, ClosesStored, Held
<1>6. \A j \in i + 1 .. Len(r) : j = n + 1 \/ (j \in i + 1 .. Len(q) /\ r[j] = q[j])
  BY <1>1, <1>2 DEF n
<1>7. ClosesStored(f, r, i, s)
  BY <1>1, <1>5, <1>6 DEF ClosesStored, Held
<1>8. AgainFits(f, r, i)
  <2> SUFFICES ASSUME NEW j \in i + 1 .. Len(r), IsAgain(r[j]), \A k \in i + 1 .. j - 1 : ~ Closes(r[k])
               PROVE  r[j].idx < f.packets
    BY DEF AgainFits
  <2>1. CASE j = n + 1
    <3>1. \A k \in i + 1 .. n : ~ Closes(q[k])
      BY <2>1, <1>1, <1>2
    <3>2. ~ ClosedBehind(q, i)
      BY <3>1 DEF ClosedBehind, n
    <3> QED BY <3>2, <2>1, <1>1 DEF Held
  <2>2. CASE j \in i + 1 .. Len(q) /\ r[j] = q[j]
    <3>1. \A k \in i + 1 .. j - 1 : ~ Closes(q[k])
      BY <2>2, <1>1, <1>2 DEF n
    <3> QED BY <3>1, <2>2 DEF Held, AgainFits
  <2> QED BY <2>1, <2>2, <1>6
<1>9. Kept(f, s) \/ ClosedBehind(r, i)
  BY <1>3, <1>4 DEF Held
<1> QED BY <1>7, <1>8, <1>9 DEF Held, r

(* ... when it goes on in silence, ...                                      *)
LEMMA HeldStays ==
    ASSUME NEW q, NEW f, NEW i, NEW p, NEW s, Held(f, q, i, p),
           p.stored \subseteq s.stored, Kept(f, p) => Kept(f, s)
    PROVE  Held(f, q, i, s)
  BY DEF Held, ClosesStored

(* ... and when the host reads what stands before.                          *)
LEMMA HeldMoves ==
    ASSUME NEW q \in Seq(Frame), q # <<>>, NEW f, NEW p, NEW i \in 1 .. Len(q), Held(f, q, i, p)
    PROVE  Held(f, Tail(q), i - 1, p)
<1> DEFINE r == Tail(q)
           n == Len(q)
<1>1. n \in Nat /\ Len(r) = n - 1 /\ \A k \in 1 .. n - 1 : r[k] = q[k + 1]
  BY SeqTail
<1>2. i \in Nat /\ i >= 1 /\ i <= n
  BY <1>1
<1> HIDE DEF r, n
<1>3. \A j \in i .. n - 1 : j + 1 \in i + 1 .. n /\ r[j] = q[j + 1]
  BY <1>1, <1>2
<1>4. \A j \in i + 1 .. n : j - 1 \in i .. n - 1 /\ r[j - 1] = q[j]
  BY <1>1, <1>2
<1>5. (i - 1) + 1 = i /\ Len(r) = n - 1
  BY <1>1, <1>2
<1>6. ClosedBehind(q, i) => ClosedBehind(r, i - 1)
  BY <1>4, <1>5 DEF ClosedBehind, n
<1>7. ClosesStored(f, r, i - 1, p)
  BY <1>3, <1>5 DEF ClosesStored, Held, n
<1>8. AgainFits(f, r, i - 1)
  <2> SUFFICES ASSUME NEW j \in i .. n - 1, IsAgain(r[j]), \A k \in i .. j - 1 : ~ Closes(r[k])
               PROVE  r[j].idx < f.packets
    BY <1>5 DEF AgainFits
  <2>1. \A k \in i + 1 .. (j + 1) - 1 : k - 1 \in i .. j - 1 /\ r[k - 1] = q[k]
    BY <1>4, <1>2, <1>1
  <2> QED BY <2>1, <1>3 DEF AgainFits, Held, n
<1> QED BY <1>6, <1>7, <1>8 DEF Held, r

LEMMA HeldSkips ==
    ASSUME NEW q \in Seq(Frame), q # <<>>, NEW f, NEW p, Held(f, q, 0, p), ~ Closes(Head(q))
    PROVE  Held(f, Tail(q), 0, p)
<1> DEFINE r == Tail(q)
           n == Len(q)
<1>1. n \in Nat /\ n > 0 /\ Len(r) = n - 1 /\ Head(q) = q[1] /\ \A k \in 1 .. n - 1 : r[k] = q[k + 1]
  BY SeqTail
<1> HIDE DEF r, n
<1>2. \A j \in 1 .. n - 1 : j + 1 \in 1 .. n /\ r[j] = q[j + 1]
  BY <1>1
<1>3. \A j \in 1 .. n : j = 1 \/ (j - 1 \in 1 .. n - 1 /\ r[j - 1] = q[j])
  BY <1>1
<1>4. 0 + 1 = 1 /\ Len(r) = n - 1
  BY <1>1
<1>5. ClosedBehind(q, 0) => ClosedBehind(r, 0)
  BY <1>1, <1>3, <1>4 DEF ClosedBehind, n
<1>6. ClosesStored(f, r, 0, p)
  BY <1>2, <1>4 DEF ClosesStored, Held, n
<1>7. AgainFits(f, r, 0)
  <2> SUFFICES ASSUME NEW j \in 1 .. n - 1, IsAgain(r[j]), \A k \in 1 .. j - 1 : ~ Closes(r[k])
               PROVE  r[j].idx < f.packets
    BY <1>4 DEF AgainFits
  <2>1. \A k \in 1 .. (j + 1) - 1 : ~ Closes(q[k])
    <3>1. \A k \in 1 .. (j + 1) - 1 : k = 1 \/ (k - 1 \in 1 .. j - 1 /\ r[k - 1] = q[k])
      BY <1>3, <1>1
    <3> QED BY <3>1, <1>1
  <2> QED BY <2>1, <1>2, <1>4 DEF AgainFits, Held, n
<1> QED BY <1>5, <1>6, <1>7 DEF Held, r

-----------------------------------------------------------------------------
(* Types.                                                                   *)

LEMMA InitIInv == Init => IInv
<1> SUFFICES ASSUME Init PROVE IInv
  OBVIOUS
<1> USE DEF Init
<1>1. inbox \in Seq(Frame) /\ Len(inbox) \in {0, 1}
  <2> DEFINE L == [cmd : {"request"}, req : [vendor : Vendors, version : {1}]]
                  \cup [cmd : {"info"}, takes : {TRUE}, start : {0}]
                  \cup [cmd : {"data"}, done : {TRUE}, idx : {0}] \cup [cmd : {"pause"}]
  <2>1. [vendor : Vendors, version : {1}] \subseteq Request
    BY DEF Request
  <2>2. /\ \A f \in [cmd : {"request"}, req : [vendor : Vendors, version : {1}]] : f \in [cmd : {"request"}, req : Request]
        /\ \A f \in [cmd : {"info"}, takes : {TRUE}, start : {0}] : f \in [cmd : {"info"}, takes : BOOLEAN, start : Nat]
        /\ \A f \in [cmd : {"data"}, done : {TRUE}, idx : {0}] : f \in [cmd : {"data"}, done : BOOLEAN, idx : Nat]
    <3>1. {TRUE} \subseteq BOOLEAN /\ {0} \subseteq Nat
      OBVIOUS
    <3> QED BY <2>1, <3>1
  <2>3. L \subseteq Frame
    BY <2>2 DEF Frame
  <2>4. inbox = <<>> \/ \E f \in L : inbox = <<f>>
    BY DEF Leftovers
  <2> HIDE DEF L
  <2>5. <<>> \in Seq(Frame) /\ Len(<<>>) = 0
    OBVIOUS
  <2>6. \A f \in Frame : <<f>> \in Seq(Frame) /\ Len(<<f>>) = 1
    OBVIOUS
  <2> QED BY <2>3, <2>4, <2>5, <2>6
<1>2. Types
  <2>1. PanelType
    BY DEF PanelType, Fresh
  <2>2. ServedType /\ AirType /\ CountType
    BY <1>1, Constants DEF ServedType, AirType, CountType
  <2> QED BY <1>1, <2>1, <2>2 DEF Types, HostType, PendingType, FileType, InboxType, HasFile, PacketLeft
<1>3. Requests
  <2>1. ASSUME NEW i \in 1 .. Len(inbox), inbox[i].cmd = "request"
        PROVE  inbox[i].req \in [vendor : Vendors, version : {1}]
    <3>1. inbox # <<>> /\ i = 1
      BY <1>1
    <3>2. PICK f \in [cmd : {"request"}, req : [vendor : Vendors, version : {1}]]
                \cup [cmd : {"info"}, takes : {TRUE}, start : {0}]
                \cup [cmd : {"data"}, done : {TRUE}, idx : {0}] \cup [cmd : {"pause"}] : inbox = <<f>>
      BY <3>1 DEF Leftovers
    <3>3. inbox[1] = f
      BY <3>2
    <3> QED BY <2>1, <3>1, <3>2, <3>3
  <2>2. \A r \in [vendor : Vendors, version : {1}] : Known(r)
    BY DEF Known, KnownTo, Fresh
  <2> QED BY <2>1, <2>2 DEF Requests, Known
<1>4. PendingWaits /\ HearsAll /\ Silent /\ Offers /\ ListFirst /\ Packets
  BY DEF PendingWaits, HearsAll, Silent, Offers, ListFirst, Packets, Fresh
<1>5. AsksNext /\ Receives /\ StoredOld /\ Last
  BY DEF AsksNext, Receives, StoredOld, Last, Fresh
<1>6. Taken
  <2>1. Base = {}
    BY DEF Base
  <2>2. \A i \in 1 .. Len(inbox) : i = 1
    BY <1>1
  <2>3. Ahead(inbox, Base, 1) = {}
    BY <2>1, AheadFirst
  <2> QED BY <2>2, <2>3 DEF Taken
<1>7. Safe /\ ConfirmedIsStored
  BY DEF Safe, ConfirmedIsStored
<1> QED BY <1>2, <1>3, <1>4, <1>5, <1>6, <1>7 DEF IInv

(* What a wait reads is the first frame, and that frame is typed.           *)
LEMMA ReadsFirst ==
    ASSUME InboxType, inbox # <<>>
    PROVE  /\ Head(inbox) \in Frame /\ Tail(inbox) \in Seq(Frame)
           /\ Head(inbox).cmd = "request" => Head(inbox).req \in Request
           /\ Head(inbox).cmd = "info" => Head(inbox).takes \in BOOLEAN /\ Head(inbox).start \in Nat
           /\ Head(inbox).cmd = "data" => Head(inbox).done \in BOOLEAN /\ Head(inbox).idx \in Nat
  BY SeqTail, FrameFacts DEF InboxType

LEMMA AirFirst ==
    ASSUME AirType, air # <<>>
    PROVE  /\ Head(air) \in Written /\ Tail(air) \in Seq(Written)
           /\ Head(air).cmd = "list" => Head(air).newest \in [Vendors -> Nat]
           /\ Head(air).cmd = "info" => Head(air).file \in Catalogue
           /\ Head(air).cmd = "data" => Head(air).file \in Catalogue /\ Head(air).idx \in Nat
  BY SeqTail, WrittenFacts DEF AirType

(* The host moves on, or the panel does; neither touches what is the        *)
(* other's.                                                                 *)
LEMMA HostStill == Session => UNCHANGED <<panel, drops, lib, ear, bodies>>
  BY DEF Session, Listen, SendList, Skip, Serve, WaitEnds, Offer, Answered, NotAnswered, Stream,
         FileDone, FileQuiet, AskedAgain, Resend, Calm, Silence, host

LEMMA PanelStays == Panel => UNCHANGED <<lib, ear, bodies, listening, pc, pending, cur, pkt, served>>
  BY DEF Panel, PanelReads, PanelAsks, PanelAsksAgain, PanelRepeats, Still, host

LEMMA HostTypeStep == HostType /\ [Next]_vars => HostType'
<1> SUFFICES ASSUME HostType, [Next]_vars PROVE HostType'
  OBVIOUS
<1>1. CASE Session
  <2>1. UNCHANGED <<lib, ear, bodies>>
    BY <1>1, HostStill
  <2>2. pc' \in {"start", "list", "wait", "offer", "answer", "stream", "serve", "resend", "done", "failed"}
    BY <1>1 DEF HostType, Session, Listen, SendList, Skip, Serve, WaitEnds, Offer, Answered, NotAnswered, Stream,
         FileDone, FileQuiet, AskedAgain, Resend, Ends, NextPacket, AfterFailedWrite, FileEnds
  <2>3. listening' \in BOOLEAN
    BY <1>1 DEF HostType, Session, Listen, SendList, Skip, Serve, WaitEnds, Offer, Answered, NotAnswered, Stream,
         FileDone, FileQuiet, AskedAgain, Resend, Ends
  <2> QED BY <2>1, <2>2, <2>3 DEF HostType
<1>2. CASE Panel
  BY <1>2, PanelStays DEF HostType
<1>3. CASE UNCHANGED vars
  BY <1>3 DEF vars, HostType
<1> QED BY <1>1, <1>2, <1>3 DEF Next

LEMMA PendingTypeStep == PendingType /\ InboxType /\ [Next]_vars => PendingType'
<1> SUFFICES ASSUME PendingType, InboxType, [Next]_vars PROVE PendingType'
  OBVIOUS
<1>1. CASE Session
  BY <1>1, ReadsFirst DEF PendingType, Session, Listen, SendList, Skip, Serve, TakeRequest, WaitEnds, Offer, Answered,
         NotAnswered, Stream, FileDone, FileQuiet, AskedAgain, Resend, Reads, NoRequest
<1>2. CASE Panel
  BY <1>2, PanelStays DEF PendingType
<1>3. CASE UNCHANGED vars
  BY <1>3 DEF vars, PendingType
<1> QED BY <1>1, <1>2, <1>3 DEF Next

(* Serving a request picks one of the bodies.                               *)
LEMMA PicksBodies == \A r : Picks(r) \subseteq bodies
  BY DEF Picks

LEMMA FileTypeStep == FileType /\ InboxType /\ [Next]_vars => FileType'
<1> SUFFICES ASSUME FileType, InboxType, [Next]_vars PROVE FileType'
  OBVIOUS
<1>1. CASE Session
  <2>1. cur' \in bodies \cup {NoFile}
    BY <1>1, PicksBodies DEF FileType, Session, Listen, SendList, Skip, Serve, WaitEnds, Offer, Answered,
         NotAnswered, Stream, FileDone, FileQuiet, AskedAgain, Resend
  <2>2. ASSUME Answered PROVE pkt' \in Nat
    <3>1. pkt' = pkt \/ (Reads("info") /\ pkt' = Head(inbox).start)
      BY <2>2 DEF Answered
    <3> QED BY <3>1, ReadsFirst DEF Reads, FileType
  <2>3. ASSUME ~ Answered PROVE pkt' \in Nat
    <3>1. \/ pkt' = pkt \/ pkt' = pkt + 1
          \/ Reads("data") /\ pkt' = Head(inbox).idx
      BY <1>1, <2>3 DEF Session, Listen, SendList, Skip, Serve, WaitEnds, Offer, NotAnswered, Stream,
         NextPacket, FileDone, FileQuiet, AskedAgain, Resend
    <3> QED BY <3>1, ReadsFirst DEF Reads, FileType
  <2>4. pkt' \in Nat
    BY <2>2, <2>3
  <2> QED BY <2>1, <2>4, <1>1, HostStill DEF FileType
<1>2. CASE Panel
  BY <1>2, PanelStays DEF FileType
<1>3. CASE UNCHANGED vars
  BY <1>3 DEF vars, FileType
<1> QED BY <1>1, <1>2, <1>3 DEF Next

LEMMA CountTypeStep == CountType /\ [Next]_vars => CountType'
<1> SUFFICES ASSUME CountType, [Next]_vars PROVE CountType'
  OBVIOUS
<1>1. \A a \in 0 .. MaxMishaps : a < MaxMishaps => a + 1 \in 0 .. MaxMishaps
  BY Constants
<1>2. \A a \in 0 .. MaxDrops : a < MaxDrops => a + 1 \in 0 .. MaxDrops
  BY Constants
<1>3. CASE Session
  <2>1. UNCHANGED drops
    BY <1>3, HostStill
  <2>2. UNCHANGED mishaps \/ Mishap
    BY <1>3 DEF Session, Listen, SendList, Skip, Serve, WaitEnds, Offer, Answered, NotAnswered, Stream,
         FileDone, FileQuiet, AskedAgain, Resend, Write, WriteFails, Silence
  <2> QED BY <1>1, <2>1, <2>2 DEF CountType, Mishap
<1>4. CASE Panel
  <2>1. UNCHANGED drops \/ (drops < MaxDrops /\ drops' = drops + 1)
    BY <1>4 DEF Panel, PanelReads, ReadsList, ReadsOffer, ReadsPacket, PanelAsks, PanelAsksAgain, PanelRepeats
  <2>2. UNCHANGED mishaps \/ Mishap
    BY <1>4 DEF Panel, PanelReads, ReadsList, ReadsOffer, ReadsPacket, PanelAsks, PanelAsksAgain, PanelRepeats
  <2> QED BY <1>1, <1>2, <2>1, <2>2 DEF CountType, Mishap
<1>5. CASE UNCHANGED vars
  BY <1>5 DEF vars, CountType
<1> QED BY <1>3, <1>4, <1>5 DEF Next

LEMMA ServedTypeStep == ServedType /\ HasFile /\ [Next]_vars => ServedType'
<1> SUFFICES ASSUME ServedType, HasFile, [Next]_vars PROVE ServedType'
  OBVIOUS
<1>1. ASSUME NEW ok \in BOOLEAN, FileEnds(ok), pc = "serve", UNCHANGED bodies
      PROVE  ServedType'
  BY <1>1 DEF ServedType, FileEnds, HasFile
<1>2. CASE FileDone
  BY <1>1, <1>2 DEF FileDone, host
<1>3. CASE FileQuiet
  BY <1>1, <1>3 DEF FileQuiet, host
<1>4. CASE ~ (FileDone \/ FileQuiet) /\ Session
  BY <1>4 DEF ServedType, Session, Listen, SendList, Skip, Serve, WaitEnds, Offer, Answered, NotAnswered, Stream,
         AskedAgain, Resend, host
<1>5. CASE Panel
  BY <1>5, PanelStays DEF ServedType
<1>6. CASE UNCHANGED vars
  BY <1>6 DEF vars, ServedType
<1> QED BY <1>2, <1>3, <1>4, <1>5, <1>6 DEF Next

-----------------------------------------------------------------------------
(* What a step writes, reads and says.                                      *)

(* The host takes one frame from the queue or none.                         *)
LEMMA HostReads ==
    ASSUME Session PROVE inbox' = inbox \/ (inbox # <<>> /\ inbox' = Tail(inbox))
  BY DEF Session, Listen, SendList, Skip, Serve, TakeRequest, WaitEnds, Offer, Answered, NotAnswered, Stream,
         FileDone, FileQuiet, AskedAgain, Resend, Reads

(* It writes the list, an offer of its file, a packet of it, or nothing.    *)
WritesList(w)   == w.cmd = "list" /\ pc = "list"
WritesOffer(w)  == w.cmd = "info" /\ w.file = cur /\ pc = "offer"
WritesPacket(w) == w.cmd = "data" /\ w.file = cur /\ w.idx = pkt /\ pc \in {"stream", "resend"}
LEMMA HostWrites ==
    ASSUME Session, HostType, FileType, HasFile, PacketLeft
    PROVE  \/ air' = air
           \/ \E w \in Written : air' = Append(air, w) /\ (WritesList(w) \/ WritesOffer(w) \/ WritesPacket(w))
<1> DEFINE L == [cmd |-> "list", newest |-> [v \in Vendors |-> Newest(v)]]
           O == [cmd |-> "info", file |-> cur]
           D == [cmd |-> "data", file |-> cur, idx |-> pkt]
<1>1. L \in Written
  <2>1. [v \in Vendors |-> Newest(v)] \in [Vendors -> Nat]
    BY NewestFacts DEF HostType
  <2> QED BY <2>1 DEF Written
<1>2. CASE SendList
  BY <1>1, <1>2 DEF SendList, Write, WriteFails, WritesList
<1>3. CASE Offer
  <2>1. O \in Written
    BY <1>3 DEF Offer, HasFile, HostType, Written
  <2> QED BY <1>3, <2>1 DEF Offer, Write, WriteFails, WritesOffer
<1>4. CASE Stream \/ Resend
  <2>1. D \in Written
    BY <1>4 DEF Stream, Resend, HasFile, HostType, FileType, Written
  <2>2. air' = Append(air, D) \/ air' = air
    BY <1>4 DEF Stream, Resend, Write, WriteFails
  <2>3. WritesPacket(D)
    BY <1>4 DEF Stream, Resend, WritesPacket
  <2> QED BY <2>1, <2>2, <2>3
<1>5. CASE ~ (SendList \/ Offer \/ Stream \/ Resend)
  BY <1>5 DEF Session, Listen, Skip, Serve, WaitEnds, Answered, NotAnswered, FileDone, FileQuiet, AskedAgain
<1> QED BY <1>2, <1>3, <1>4, <1>5

(* What the host has on its hands follows from the frame it read.           *)
LEMMA HandMoves ==
    ASSUME Session, InboxType, PendingWaits
    PROVE  \/ Over'
           \/ inbox' = inbox /\ Base' \subseteq Base
           \/ /\ inbox # <<>> /\ inbox' = Tail(inbox)
              /\ Base' \subseteq IF Asks(Head(inbox)) THEN Picks(Head(inbox).req) ELSE Base
<1>1. UNCHANGED bodies /\ \A r : Picks(r)' = Picks(r)
  BY HostStill DEF Picks
<1>2. CASE Listen \/ SendList \/ Offer \/ Stream \/ Resend \/ FileQuiet
  <2>1. Over' \/ (inbox' = inbox /\ Base' \subseteq Base)
    BY <1>1, <1>2 DEF Listen, SendList, Offer, Stream, NextPacket, Resend, FileQuiet, FileEnds, Silence, Ends, Over,
       Base, PendingWaits, AfterFailedWrite
  <2> QED BY <2>1
<1>3. CASE WaitEnds \/ NotAnswered
  BY <1>3 DEF WaitEnds, NotAnswered, Ends, Over
<1>4. CASE Skip
  <2>1. Head(inbox).cmd # "request"
    BY <1>4 DEF Skip, Wanted
  <2>2. Base' = Base
    BY <1>1, <1>4 DEF Skip, Base
  <2> QED BY <2>1, <2>2, <1>4 DEF Skip, Asks
<1>5. CASE Serve
  <2>1. PICK r \in NextRequest : /\ TakeRequest(r)
                                 /\ \/ \E f \in Picks(r) : pc' = "offer" /\ cur' = f
                                    \/ Picks(r) = {} /\ pc' = "done"
    BY <1>5 DEF Serve, Ends
  <2>2. CASE pc' = "done"
    BY <2>2 DEF Over
  <2>3. CASE pc' = "offer" /\ cur' \in Picks(r)
    <3>1. pending' = NoRequest /\ Base' = {cur'} /\ Base' \subseteq Picks(r)
      BY <2>1, <2>3 DEF TakeRequest, Base
    <3>2. CASE pending # NoRequest
      BY <3>1, <3>2, <2>1 DEF TakeRequest, Base
    <3>3. CASE pending = NoRequest
      BY <3>1, <3>3, <2>1 DEF TakeRequest, Reads, Asks
    <3> QED BY <3>2, <3>3
  <2> QED BY <2>1, <2>2, <2>3
<1>6. CASE Answered
  <2>1. CASE Reads("request") /\ pending' = Head(inbox).req /\ pc' = "wait"
    <3>1. Base' \subseteq Picks(Head(inbox).req)
      BY <2>1, <1>1 DEF Base
    <3> QED BY <3>1, <2>1 DEF Reads, Asks
  <2>2. CASE Reads("info") /\ UNCHANGED pending /\ pc' \in {"wait", "stream", "serve"}
    <3>1. pending = NoRequest
      BY <1>6 DEF Answered, PendingWaits
    <3>2. Base' = {}
      BY <2>2, <3>1 DEF Base
    <3> QED BY <2>2, <3>2 DEF Reads, Asks
  <2> QED BY <1>6, <2>1, <2>2 DEF Answered
<1>7. CASE FileDone
  <2>1. CASE Reads("request") /\ pending' = Head(inbox).req
    <3>1. Base' \subseteq Picks(Head(inbox).req)
      BY <2>1, <1>1, <1>7 DEF Base, FileDone, FileEnds
    <3> QED BY <3>1, <2>1 DEF Reads, Asks
  <2>2. CASE Reads("data") /\ UNCHANGED pending
    <3>1. pending = NoRequest
      BY <1>7 DEF FileDone, PendingWaits
    <3>2. Base' = {}
      BY <2>2, <3>1, <1>7 DEF Base, FileDone, FileEnds
    <3> QED BY <2>2, <3>2 DEF Reads, Asks
  <2> QED BY <1>7, <2>1, <2>2 DEF FileDone
<1>8. CASE AskedAgain
  <2>1. pending = NoRequest /\ pending' = NoRequest
    BY <1>8 DEF AskedAgain, PendingWaits
  <2>2. Base' = {}
    BY <1>8, <2>1 DEF AskedAgain, Base
  <2> QED BY <1>8, <2>2 DEF AskedAgain, Reads, Asks
<1> QED BY <1>2, <1>3, <1>4, <1>5, <1>6, <1>7, <1>8 DEF Session

(* The steps of the panel: it reads the list, takes the file k packets on,  *)
(* refuses it, declines an offer, ignores a packet, gathers one, has the    *)
(* file complete, loses a packet, asks for a vendor's file, rests, asks     *)
(* back for a packet, repeats its request, or calls the update off.         *)
Taking(k) == [cmd |-> "info", takes |-> TRUE, start |-> k]
Declining == [cmd |-> "info", takes |-> FALSE, start |-> 0]
Done == [cmd |-> "data", done |-> TRUE, idx |-> 0]
Again(n) == [cmd |-> "data", done |-> FALSE, idx |-> n]
Asking(r) == [cmd |-> "request", req |-> r]
Pausing == [cmd |-> "pause"]
NextOf(v) == [vendor |-> v, version |-> panel.have[v] + 1]
Fits(f) ==
    \/ panel.phase = "asking" /\ f.vendor = panel.asked.vendor /\ f.version >= panel.asked.version
    \/ panel.phase = "receiving" /\ f = panel.file

Lists ==
    /\ panel.phase = "fresh" /\ inbox' = inbox
    /\ \E n \in [Vendors -> Nat] : panel' = [Choosing EXCEPT !.list = n]
Takes(f, k) ==
    /\ Fits(f) /\ Says(Taking(k))
    /\ panel' = [panel EXCEPT !.phase = "receiving", !.file = f, !.got = 0 .. k - 1, !.wants = FALSE]
Refuses(f) ==
    /\ panel.phase = "asking" /\ f.vendor = panel.asked.vendor /\ Says(Declining)
    /\ panel' = [Choosing EXCEPT !.refused = @ \cup {f.vendor}]
Declines == Says(Declining) /\ UNCHANGED panel
Ignores == UNCHANGED <<inbox, panel>>
Gathers(n) ==
    /\ panel.phase = "receiving" /\ n \in 0 .. panel.file.packets - 1
    /\ panel.got \cup {n} # 0 .. panel.file.packets - 1
    /\ panel' = [panel EXCEPT !.got = panel.got \cup {n}, !.wants = FALSE] /\ UNCHANGED inbox
Completes ==
    /\ panel.phase = "receiving" /\ Says(Done)
    /\ panel' = [Choosing EXCEPT !.have[panel.file.vendor] = panel.file.version, !.stored = @ \cup {panel.file}]
Loses ==
    /\ panel.phase = "receiving"
    /\ panel' = [panel EXCEPT !.wants = FALSE] /\ UNCHANGED inbox
AsksFor(v) ==
    /\ panel.phase = "choosing" /\ Says(Asking(NextOf(v)))
    /\ panel' = [panel EXCEPT !.phase = "asking", !.asked = NextOf(v)]
Rests == panel.phase = "choosing" /\ panel' = [panel EXCEPT !.phase = "content"] /\ UNCHANGED inbox
AsksBack ==
    /\ panel.phase = "receiving" /\ Says(Again(Min(Lacks)))
    /\ panel' = [panel EXCEPT !.wants = TRUE]
Repeats == panel.phase = "asking" /\ Says(Asking(panel.asked)) /\ UNCHANGED panel
Pauses ==
    /\ panel.phase \in {"choosing", "asking", "receiving"} /\ Says(Pausing)
    /\ panel' = [panel EXCEPT !.phase = "content"]

LEMMA PanelCases ==
    ASSUME Panel, AirType, ListFirst, Offers, Packets
    PROVE  \/ Lists \/ Declines \/ Ignores \/ Completes \/ Loses \/ Rests \/ AsksBack \/ Repeats \/ Pauses
           \/ \E f \in bodies : Near(f) /\ (Refuses(f) \/ \E k \in 0 .. f.packets - 1 : Takes(f, k))
           \/ \E n \in Nat : Gathers(n)
           \/ \E v \in Vendors : AsksFor(v)
<1>1. CASE PanelReads
  <2>1. /\ air # <<>> /\ Len(air) \in Nat /\ 1 \in 1 .. Len(air) /\ Head(air) = air[1]
    BY <1>1, SeqTail DEF PanelReads, AirType
  <2>2. CASE ReadsList
    <3>1. Head(air).newest \in [Vendors -> Nat] /\ panel.phase = "fresh"
      BY <2>1, <2>2, AirFirst DEF ReadsList, ListFirst
    <3> QED BY <3>1, <2>2 DEF ReadsList, Lists
  <2>3. CASE ReadsOffer
    <3> DEFINE f == Head(air).file
    <3>1. f \in bodies /\ Near(f)
      BY <2>1, <2>3 DEF ReadsOffer, Offers
    <3>2. \/ Fits(f) /\ \E k \in 0 .. f.packets - 1 :
                 /\ Says(Taking(k))
                 /\ panel' = [panel EXCEPT !.phase = "receiving", !.file = f, !.got = 0 .. k - 1, !.wants = FALSE]
          \/ /\ Fits(f) /\ panel.phase = "asking" /\ Says(Declining)
             /\ panel' = [Choosing EXCEPT !.refused = @ \cup {f.vendor}]
          \/ UNCHANGED panel /\ Says(Declining)
      BY <2>3 DEF ReadsOffer, Fits, Taking, Declining
    <3> HIDE DEF f
    <3>3. CASE Fits(f) /\ \E k \in 0 .. f.packets - 1 :
                 /\ Says(Taking(k))
                 /\ panel' = [panel EXCEPT !.phase = "receiving", !.file = f, !.got = 0 .. k - 1, !.wants = FALSE]
      <4>1. \E k \in 0 .. f.packets - 1 : Takes(f, k)
        BY <3>3 DEF Takes
      <4> QED BY <3>1, <4>1
    <3>4. CASE /\ Fits(f) /\ panel.phase = "asking" /\ Says(Declining)
               /\ panel' = [Choosing EXCEPT !.refused = @ \cup {f.vendor}]
      <4>1. Refuses(f)
        BY <3>4 DEF Refuses, Fits
      <4> QED BY <3>1, <4>1
    <3>5. CASE UNCHANGED panel /\ Says(Declining)
      BY <3>5 DEF Declines
    <3> QED BY <3>2, <3>3, <3>4, <3>5
  <2>4. CASE ReadsPacket
    <3> DEFINE n == Head(air).idx
               f == panel.file
    <3>1. Head(air).file = f => n \in Nat /\ n < f.packets /\ n \in 0 .. f.packets - 1
      <4>1. Head(air).file \in Catalogue /\ n \in Nat /\ n < Head(air).file.packets
        BY <2>1, <2>4, AirFirst DEF ReadsPacket, Packets
      <4>2. Head(air).file.packets \in Nat
        BY <4>1, Constants
      <4> QED BY <4>1, <4>2
    <3>2. \/ UNCHANGED <<panel, inbox>>
          \/ /\ panel.phase = "receiving" /\ Head(air).file = f
             /\ \/ /\ panel.got \cup {n} # 0 .. f.packets - 1 /\ UNCHANGED inbox
                   /\ panel' = [panel EXCEPT !.got = panel.got \cup {n}, !.wants = FALSE]
                \/ /\ Says(Done)
                   /\ panel' = [Choosing EXCEPT !.have[f.vendor] = f.version, !.stored = @ \cup {f}]
                \/ panel' = [panel EXCEPT !.wants = FALSE] /\ UNCHANGED inbox
      BY <2>4 DEF ReadsPacket, Done
    <3> HIDE DEF n
    <3>3. CASE UNCHANGED <<panel, inbox>>
      BY <3>3 DEF Ignores
    <3>4. CASE /\ panel.phase = "receiving" /\ Head(air).file = f
               /\ panel.got \cup {n} # 0 .. f.packets - 1 /\ UNCHANGED inbox
               /\ panel' = [panel EXCEPT !.got = panel.got \cup {n}, !.wants = FALSE]
      <4>1. Gathers(n)
        BY <3>1, <3>4 DEF Gathers
      <4> QED BY <4>1, <3>1, <3>4
    <3>5. CASE /\ panel.phase = "receiving" /\ Says(Done)
               /\ panel' = [Choosing EXCEPT !.have[f.vendor] = f.version, !.stored = @ \cup {f}]
      BY <3>5 DEF Completes
    <3>6. CASE panel.phase = "receiving" /\ panel' = [panel EXCEPT !.wants = FALSE] /\ UNCHANGED inbox
      BY <3>6 DEF Loses
    <3> QED BY <3>2, <3>3, <3>4, <3>5, <3>6
  <2> QED BY <1>1, <2>2, <2>3, <2>4 DEF PanelReads
<1>2. CASE PanelAsks
  <2>1. ASSUME NEW v \in IF Behind # {} THEN Behind ELSE Vendors \ panel.refused
        PROVE  v \in Vendors
    BY DEF Behind
  <2>2. (\E v \in Vendors : AsksFor(v)) \/ Rests
    BY <1>2, <2>1 DEF PanelAsks, AsksFor, Rests, NextOf, Asking
  <2> QED BY <2>2
<1>3. CASE PanelAsksAgain
  BY <1>3 DEF PanelAsksAgain, AsksAgain, AsksBack, Again
<1>4. CASE PanelRepeats
  BY <1>4 DEF PanelRepeats, Repeats, Pauses, Asking, Pausing
<1> QED BY <1>1, <1>2, <1>3, <1>4 DEF Panel

(* What such a step leaves in the panel's fields.                           *)
KeepsHave == panel'.have = panel.have /\ panel'.stored = panel.stored
KeepsFile == /\ panel'.phase = panel.phase /\ panel'.asked = panel.asked
             /\ panel'.file = panel.file /\ panel'.got = panel.got /\ KeepsHave

LEMMA PanelFields ==
    ASSUME PanelType
    PROVE  /\ Lists => panel'.phase = "choosing" /\ KeepsHave
           /\ Loses \/ AsksBack \/ Declines \/ Ignores \/ Repeats => KeepsFile
           /\ Rests \/ Pauses => panel'.phase = "content" /\ KeepsHave
           /\ Completes => /\ panel'.phase = "choosing"
                           /\ panel'.have = [panel.have EXCEPT ![panel.file.vendor] = panel.file.version]
                           /\ panel'.stored = panel.stored \cup {panel.file}
           /\ \A f : Refuses(f) => panel'.phase = "choosing" /\ KeepsHave
           /\ \A f, k : Takes(f, k) => /\ panel'.phase = "receiving" /\ panel'.asked = panel.asked
                                       /\ panel'.file = f /\ panel'.got = 0 .. k - 1 /\ KeepsHave
           /\ \A n : Gathers(n) => /\ panel'.phase = panel.phase /\ panel'.asked = panel.asked
                                   /\ panel'.file = panel.file /\ panel'.got = panel.got \cup {n} /\ KeepsHave
           /\ \A v : AsksFor(v) => panel'.phase = "asking" /\ panel'.asked = NextOf(v) /\ KeepsHave
<1> USE DEF PanelType, KeepsHave, KeepsFile
<1>1. Lists => panel'.phase = "choosing" /\ KeepsHave
  BY DEF Lists, Choosing
<1>2. Loses \/ AsksBack \/ Declines \/ Ignores \/ Repeats => KeepsFile
  BY DEF Loses, AsksBack, Declines, Ignores, Repeats
<1>3. Rests \/ Pauses => panel'.phase = "content" /\ KeepsHave
  BY DEF Rests, Pauses
<1>4. Completes => /\ panel'.phase = "choosing"
                   /\ panel'.have = [panel.have EXCEPT ![panel.file.vendor] = panel.file.version]
                   /\ panel'.stored = panel.stored \cup {panel.file}
  BY DEF Completes, Choosing
<1>5. ASSUME NEW f, Refuses(f) PROVE panel'.phase = "choosing" /\ KeepsHave
  BY <1>5 DEF Refuses, Choosing
<1>6. ASSUME NEW f, NEW k, Takes(f, k)
      PROVE  /\ panel'.phase = "receiving" /\ panel'.asked = panel.asked
             /\ panel'.file = f /\ panel'.got = 0 .. k - 1 /\ KeepsHave
  BY <1>6 DEF Takes
<1>7. ASSUME NEW n, Gathers(n)
      PROVE  /\ panel'.phase = panel.phase /\ panel'.asked = panel.asked
             /\ panel'.file = panel.file /\ panel'.got = panel.got \cup {n} /\ KeepsHave
  BY <1>7 DEF Gathers
<1>8. ASSUME NEW v, AsksFor(v) PROVE panel'.phase = "asking" /\ panel'.asked = NextOf(v) /\ KeepsHave
  BY <1>8 DEF AsksFor
<1> QED BY <1>1, <1>2, <1>3, <1>4, <1>5, <1>6, <1>7, <1>8

LEMMA PanelTypeStep ==
    ASSUME Panel, PanelType, HostType, AirType, ListFirst, Offers, Packets, Receives, AsksNext
    PROVE  PanelType'
<1>1. UNCHANGED bodies
  BY PanelStays
<1>2. ASSUME NEW v \in Vendors PROVE NextOf(v) \in Request
  BY <1>2 DEF NextOf, Request, PanelType
<1>3. panel.phase = "receiving" => panel.file \in bodies /\ panel.file.vendor \in Vendors /\ panel.file.version \in Nat
  BY PicksBodies, Constants DEF Receives, HostType
<1>4. \A f \in bodies : f.vendor \in Vendors
  BY Constants DEF HostType
<1> USE DEF PanelType
<1>5. CASE Lists
  <2>1. PICK n \in [Vendors -> Nat] : panel' = [Choosing EXCEPT !.list = n]
    BY <1>5 DEF Lists
  <2> QED BY <2>1, <1>1 DEF Choosing
<1>6. CASE Declines \/ Ignores \/ Loses \/ Rests \/ AsksBack \/ Repeats \/ Pauses
  <2>1. CASE Declines \/ Ignores \/ Repeats
    BY <1>1, <2>1 DEF Declines, Ignores, Repeats
  <2>2. CASE Rests \/ Pauses
    <3>1. panel' = [panel EXCEPT !.phase = "content"]
      BY <2>2 DEF Rests, Pauses
    <3> QED BY <1>1, <3>1
  <2>3. CASE Loses \/ AsksBack
    <3>1. \E w \in BOOLEAN : panel' = [panel EXCEPT !.wants = w]
      BY <2>3 DEF Loses, AsksBack
    <3> QED BY <1>1, <3>1
  <2> QED BY <1>6, <2>1, <2>2, <2>3
<1>7. CASE Completes
  <2>1. [panel.have EXCEPT ![panel.file.vendor] = panel.file.version] \in [Vendors -> Nat]
    BY <1>7, <1>3 DEF Completes
  <2>2. panel.stored \cup {panel.file} \in SUBSET bodies
    BY <1>7, <1>3 DEF Completes
  <2>3. panel' = [Choosing EXCEPT !.have = [panel.have EXCEPT ![panel.file.vendor] = panel.file.version],
                                  !.stored = panel.stored \cup {panel.file}]
    BY <1>7 DEF Completes, Choosing
  <2> QED BY <2>1, <2>2, <2>3, <1>1 DEF Choosing
<1>8. ASSUME NEW f \in bodies, Refuses(f) PROVE PanelType'
  <2>1. panel.refused \cup {f.vendor} \in SUBSET Vendors
    BY <1>4
  <2>2. panel' = [Choosing EXCEPT !.refused = panel.refused \cup {f.vendor}]
    BY <1>8 DEF Refuses, Choosing
  <2> QED BY <2>1, <2>2, <1>1 DEF Choosing
<1>9. ASSUME NEW f \in bodies, NEW k \in 0 .. f.packets - 1, Takes(f, k) PROVE PanelType'
  <2>1. 0 .. k - 1 \in SUBSET Nat
    OBVIOUS
  <2> QED BY <1>9, <1>1, <2>1 DEF Takes
<1>10. ASSUME NEW n \in Nat, Gathers(n) PROVE PanelType'
  BY <1>10, <1>1 DEF Gathers
<1>11. ASSUME NEW v \in Vendors, AsksFor(v) PROVE PanelType'
  BY <1>11, <1>2, <1>1 DEF AsksFor
<1> QED BY PanelCases, <1>5, <1>6, <1>7, <1>8, <1>9, <1>10, <1>11

(* What the panel has only grows, and so does what it stored.               *)
LEMMA HaveGrows ==
    ASSUME Panel, PanelType, HostType, AirType, ListFirst, Offers, Packets, Receives, AsksNext
    PROVE  /\ \A v \in Vendors : panel.have[v] \in Nat /\ panel'.have[v] \in Nat /\ panel.have[v] <= panel'.have[v]
           /\ panel.stored \subseteq panel'.stored
<1>1. PanelType'
  BY PanelTypeStep
<1>2. \A v \in Vendors : panel.have[v] \in Nat /\ panel'.have[v] \in Nat
  BY <1>1 DEF PanelType
<1>3. CASE KeepsHave
  BY <1>2, <1>3 DEF KeepsHave
<1>4. CASE Completes
  <2>1. /\ panel'.have = [panel.have EXCEPT ![panel.file.vendor] = panel.file.version]
        /\ panel'.stored = panel.stored \cup {panel.file}
    BY <1>4, PanelFields
  <2>2. /\ panel.file \in Picks(panel.asked) /\ panel.asked \in Request
        /\ panel.asked.version = panel.have[panel.asked.vendor] + 1
    BY <1>4 DEF Completes, Receives, AsksNext
  <2>3. panel.file \in bodies /\ panel.file.vendor = panel.asked.vendor /\ panel.file.version >= panel.asked.version
    BY <2>2, PicksFacts DEF HostType
  <2>4. panel.asked.vendor \in Vendors /\ panel.file.version \in Nat /\ panel.asked.version \in Nat
    BY <2>2, <2>3, RequestFacts, Constants DEF HostType
  <2>5. panel.have[panel.file.vendor] <= panel.file.version
    BY <2>2, <2>3, <2>4, <1>2
  <2> QED BY <2>1, <2>3, <2>4, <2>5, <1>2 DEF PanelType
<1> QED BY PanelCases, PanelFields, <1>3, <1>4 DEF KeepsFile


-----------------------------------------------------------------------------
(* What the panel says, and how it bears on what is held.                   *)

(* A panel that moves is heard, as long as the session lasts.               *)
LEMMA PanelHeard == ASSUME Panel, HearsAll, Silent, ~ Over PROVE Hears
<1>1. air # <<>> \/ panel.phase # "fresh"
  BY DEF Panel, PanelReads, PanelAsks, PanelAsksAgain, AsksAgain, PanelRepeats
<1> QED BY <1>1 DEF HearsAll, Silent

LEMMA PanelAir ==
    ASSUME Panel PROVE (air # <<>> /\ air' = Tail(air)) \/ (air' = air /\ panel.phase # "fresh")
  BY DEF Panel, PanelReads, PanelAsks, PanelAsksAgain, AsksAgain, PanelRepeats

(* The file it takes is the one that answers its request.                   *)
LEMMA TakesItsOwn ==
    ASSUME PanelType, HostType, AsksNext, Receives, NEW f \in bodies, Near(f), Fits(f)
    PROVE  f \in Picks(panel.asked)
<1>1. panel.asked \in Request /\ panel.asked.version = panel.have[panel.asked.vendor] + 1
  BY DEF Fits, AsksNext
<1>2. CASE panel.phase = "receiving" /\ f = panel.file
  BY <1>2 DEF Receives
<1>3. CASE panel.phase = "asking" /\ f.vendor = panel.asked.vendor /\ f.version >= panel.asked.version
  <2>1. panel.asked.vendor \in Vendors /\ panel.have[panel.asked.vendor] \in Nat
    BY <1>1, RequestFacts DEF PanelType
  <2>2. \A g \in bodies : g.version \in Nat
    BY Constants DEF HostType
  <2>3. \A g \in bodies : g.vendor = panel.asked.vendor /\ g.version >= panel.asked.version => f.version <= g.version
    BY <1>1, <1>3, <2>1, <2>2 DEF Near, NearTo
  <2> QED BY <1>1, <1>3, <2>3, PicksFacts DEF HostType
<1> QED BY <1>2, <1>3 DEF Fits

(* A step in silence leaves it on its request and its file; what is said is *)
(* the request it is on, or keeps it there; it takes the one file that      *)
(* answers; it closes a file that it has stored, and asks again for a       *)
(* packet of its file.                                                      *)
Busy == panel.phase \in {"asking", "receiving"}
StaysOn == Busy' => Busy /\ panel'.asked = panel.asked
Quiet == (\A f : Kept(f, panel) => Kept(f, panel')) /\ StaysOn
Spoken(m) ==
    /\ Asks(m) => panel'.phase = "asking" /\ m.req = panel'.asked
    /\ ~ Asks(m) => StaysOn
    /\ IsTaken(m) => Busy /\ panel'.phase = "receiving" /\ \A f \in Picks(panel.asked) : f = panel'.file
    /\ \A f : Kept(f, panel) => /\ Kept(f, panel') \/ Closes(m)
                                /\ Closes(m) => f \in panel'.stored
                                /\ IsAgain(m) => m.idx < f.packets

LEMMA PanelSpeaks ==
    ASSUME Panel, PanelType, HostType, AirType, ListFirst, Offers, Packets, Receives, AsksNext
    PROVE  (UNCHANGED inbox /\ Quiet) \/ \E m \in Frame : Says(m) /\ Spoken(m)
<1> USE DEF StaysOn, Busy, Kept
<1>1. CASE Lists \/ Ignores \/ Loses \/ Rests
  <2>1. UNCHANGED inbox
    BY <1>1 DEF Lists, Ignores, Loses, Rests
  <2>2. Quiet
    BY <1>1, PanelFields DEF Lists, Loses, Rests, Quiet, KeepsFile
  <2> QED BY <2>1, <2>2
<1>2. CASE Declines
  <2>1. Declining \in Frame
    BY DEF Declining, Frame
  <2>2. Spoken(Declining)
    BY <1>2, PanelFields DEF Spoken, Declining, Asks, IsTaken, Closes, IsAgain, KeepsFile
  <2> QED BY <2>1, <2>2, <1>2 DEF Declines
<1>3. CASE Completes
  <2>1. Done \in Frame
    BY DEF Done, Frame
  <2>2. Spoken(Done)
    BY <1>3, PanelFields DEF Completes, Spoken, Done, Asks, IsTaken, Closes, IsAgain
  <2> QED BY <2>1, <2>2, <1>3 DEF Completes
<1>4. CASE AsksBack
  <2> DEFINE n == Min(Lacks)
  <2>1. panel.file.packets \in Nat /\ Lacks # {} /\ Lacks \subseteq 0 .. panel.file.packets - 1
    BY <1>4, PicksBodies, Constants DEF AsksBack, Receives, Lacks, HostType
  <2>2. n \in Lacks
    <3>1. Lacks \subseteq Nat
      BY <2>1
    <3> QED BY <2>1, <3>1, MinFacts
  <2> HIDE DEF n
  <2>3. n \in Nat /\ n < panel.file.packets
    BY <2>1, <2>2
  <2>4. Again(n) \in Frame
    BY <2>3 DEF Again, Frame
  <2>5. Spoken(Again(n))
    BY <1>4, <2>3, PanelFields DEF AsksBack, Spoken, Again, Asks, IsTaken, Closes, IsAgain, KeepsFile
  <2> QED BY <2>4, <2>5, <1>4 DEF AsksBack, n
<1>5. CASE Repeats
  <2>1. panel.asked \in Request
    BY <1>5 DEF Repeats, AsksNext
  <2>2. Asking(panel.asked) \in Frame
    BY <2>1 DEF Asking, Frame
  <2>3. Spoken(Asking(panel.asked))
    BY <1>5, PanelFields DEF Repeats, Spoken, Asking, Asks, IsTaken, Closes, IsAgain, KeepsFile
  <2> QED BY <2>2, <2>3, <1>5 DEF Repeats
<1>6. CASE Pauses
  <2>1. Pausing \in Frame
    BY DEF Pausing, Frame
  <2>2. Spoken(Pausing)
    BY <1>6, PanelFields DEF Pauses, Spoken, Pausing, Asks, IsTaken, Closes, IsAgain
  <2> QED BY <2>1, <2>2, <1>6 DEF Pauses
<1>7. ASSUME NEW f \in bodies, Refuses(f) PROVE \E m \in Frame : Says(m) /\ Spoken(m)
  <2>1. Declining \in Frame
    BY DEF Declining, Frame
  <2>2. Spoken(Declining)
    BY <1>7, PanelFields DEF Refuses, Spoken, Declining, Asks, IsTaken, Closes, IsAgain
  <2> QED BY <2>1, <2>2, <1>7 DEF Refuses
<1>8. ASSUME NEW f \in bodies, Near(f), NEW k \in 0 .. f.packets - 1, Takes(f, k)
      PROVE  \E m \in Frame : Says(m) /\ Spoken(m)
  <2>1. Taking(k) \in Frame
    BY DEF Taking, Frame
  <2>2. f \in Picks(panel.asked) /\ Busy /\ panel.asked \in Request
    BY <1>8, TakesItsOwn DEF Takes, Fits, AsksNext
  <2>3. \A g \in Picks(panel.asked) : g = f
    BY <2>2, PicksFacts DEF HostType
  <2>4. \A g : Kept(g, panel) => Kept(g, panel')
    BY <1>8, PanelFields DEF Takes, Fits
  <2>5. Spoken(Taking(k))
    BY <1>8, <2>2, <2>3, <2>4, PanelFields DEF Spoken, Taking, Asks, Closes, IsAgain
  <2> QED BY <2>1, <2>5, <1>8 DEF Takes
<1>9. ASSUME NEW n \in Nat, Gathers(n) PROVE UNCHANGED inbox /\ Quiet
  BY <1>9, PanelFields DEF Gathers, Quiet
<1>10. ASSUME NEW v \in Vendors, AsksFor(v) PROVE \E m \in Frame : Says(m) /\ Spoken(m)
  <2>1. NextOf(v) \in Request
    BY <1>10 DEF NextOf, Request, PanelType
  <2>2. Asking(NextOf(v)) \in Frame
    BY <2>1 DEF Asking, Frame
  <2>3. Spoken(Asking(NextOf(v)))
    <3>1. panel.phase = "choosing" /\ panel'.phase = "asking" /\ panel'.asked = NextOf(v)
      BY <1>10, PanelFields DEF AsksFor
    <3> QED BY <3>1 DEF Spoken, Asking, Asks, IsTaken, Closes, IsAgain
  <2> QED BY <2>2, <2>3, <1>10 DEF AsksFor
<1> QED BY PanelCases, <1>1, <1>2, <1>3, <1>4, <1>5, <1>6, <1>7, <1>8, <1>9, <1>10

-----------------------------------------------------------------------------
(* The parts of the invariant, each after a step.                           *)

LEMMA IInvParts ==
    ASSUME IInv
    PROVE  /\ HostType /\ PendingType /\ FileType /\ ServedType /\ InboxType /\ AirType /\ PanelType
           /\ CountType /\ HasFile /\ PacketLeft
           /\ PendingWaits /\ HearsAll /\ Silent /\ Requests /\ Offers /\ ListFirst /\ Packets
           /\ AsksNext /\ Receives /\ StoredOld /\ Last /\ Taken /\ Safe /\ ConfirmedIsStored
  BY DEF IInv, Types

(* The session is not over when it moves.                                   *)
LEMMA NotOver == Session => ~ Over
  BY DEF Session, Listen, SendList, Skip, Wanted, Serve, WaitEnds, Offer, Answered, NotAnswered, Stream,
         FileDone, FileQuiet, AskedAgain, Resend, Over

LEMMA InboxTypeStep == ASSUME IInv, Next PROVE InboxType'
<1>1. CASE Session
  BY <1>1, IInvParts, HostReads, ReadsFirst DEF InboxType
<1>2. CASE Panel
  <2>1. UNCHANGED inbox \/ \E m \in Frame : Says(m)
    BY <1>2, IInvParts, PanelSpeaks
  <2>2. inbox' = inbox \/ \E m \in Frame : inbox' = Append(inbox, m)
    BY <2>1 DEF Says
  <2> QED BY <2>2, IInvParts, SeqAppend DEF InboxType
<1> QED BY <1>1, <1>2 DEF Next

LEMMA AirTypeStep == ASSUME IInv, Next PROVE AirType'
<1>1. CASE Session
  <2>1. air' = air \/ \E w \in Written : air' = Append(air, w)
    BY <1>1, IInvParts, HostWrites
  <2> QED BY <2>1, IInvParts, SeqAppend DEF AirType
<1>2. CASE Panel
  BY <1>2, PanelAir, IInvParts, AirFirst DEF AirType
<1> QED BY <1>1, <1>2 DEF Next

LEMMA HasFileStep == ASSUME IInv, Next PROVE HasFile'
<1>1. CASE Session
  <2>1. CASE Serve
    BY <2>1, <1>1, PicksBodies, HostStill DEF Serve, Ends, HasFile
  <2>2. CASE ~ Serve
    <3>1. UNCHANGED <<cur, bodies>>
      BY <1>1, <2>2, HostStill DEF Session, Listen, SendList, Skip, WaitEnds, Offer, Answered, NotAnswered, Stream,
         FileDone, FileQuiet, AskedAgain, Resend
    <3>2. pc' \in {"offer", "answer", "stream", "serve", "resend"}
             => pc \in {"offer", "answer", "stream", "serve", "resend"}
      BY <1>1, <2>2 DEF Session, Listen, SendList, Skip, WaitEnds, Offer, Answered, NotAnswered, Stream,
         FileDone, FileQuiet, AskedAgain, Resend, Ends, FileEnds
    <3> QED BY <3>1, <3>2, IInvParts DEF HasFile
  <2> QED BY <2>1, <2>2
<1>2. CASE Panel
  BY <1>2, PanelStays, IInvParts DEF HasFile
<1> QED BY <1>1, <1>2 DEF Next

LEMMA PendingWaitsStep == ASSUME IInv, Next PROVE PendingWaits'
<1>1. PendingWaits
  BY IInvParts
<1>2. CASE Session
  BY <1>1, <1>2 DEF PendingWaits, Session, Listen, SendList, Skip, Serve, TakeRequest, WaitEnds, Offer, Answered,
     NotAnswered, Stream, FileDone, FileQuiet, FileEnds, AskedAgain, Resend, Silence
<1>3. CASE Panel
  BY <1>1, <1>3, PanelStays DEF PendingWaits
<1> QED BY <1>2, <1>3 DEF Next

LEMMA HearsAllStep == ASSUME IInv, Next PROVE HearsAll'
<1>1. HearsAll /\ ear \in {"any", "listened"}
  BY IInvParts DEF HostType
<1>2. CASE Session
  <2>1. UNCHANGED ear
    BY <1>2, HostStill
  <2>2. CASE Listen
    BY <1>1, <2>1, <2>2 DEF Listen, HearsAll, Hears
  <2>3. CASE ~ Listen
    <3>1. Over' \/ (UNCHANGED listening /\ ~ Over /\ pc # "start")
      BY <1>2, <2>3 DEF Session, SendList, Skip, Wanted, Serve, WaitEnds, Offer, Answered, NotAnswered, Stream,
         FileDone, FileQuiet, AskedAgain, Resend, Ends, Over
    <3> QED BY <1>1, <2>1, <3>1 DEF HearsAll, Hears
  <2> QED BY <2>2, <2>3
<1>3. CASE Panel
  BY <1>1, <1>3, PanelStays DEF HearsAll, Hears, Over
<1> QED BY <1>2, <1>3 DEF Next

LEMMA SilentStep == ASSUME IInv, Next PROVE Silent'
<1>1. Silent
  BY IInvParts
<1>2. CASE Session
  <2>1. CASE Listen
    BY <1>1, <2>1 DEF Listen, Silent, Calm
  <2>2. CASE ~ Listen
    <3>1. pc' \notin {"start", "list"}
      BY <1>2, <2>2 DEF Session, SendList, Skip, Wanted, Serve, WaitEnds, Offer, Answered, NotAnswered, Stream,
         NextPacket, AfterFailedWrite, FileDone, FileQuiet, FileEnds, AskedAgain, Resend, Ends
    <3> QED BY <3>1 DEF Silent
  <2> QED BY <2>1, <2>2
<1>3. CASE Panel
  <2>1. air # <<>> \/ panel.phase # "fresh"
    BY <1>3, PanelAir
  <2> QED BY <1>1, <1>3, <2>1, PanelStays DEF Silent
<1> QED BY <1>2, <1>3 DEF Next

(* A write at the end of the air, a reading at its front.                   *)
LEMMA AirMoves ==
    ASSUME IInv, Next, NEW i \in 1 .. Len(air')
    PROVE  \/ i \in 1 .. Len(air) /\ air'[i] = air[i]
           \/ Session /\ air'[i] \in Written /\ i = Len(air) + 1
              /\ (WritesList(air'[i]) \/ WritesOffer(air'[i]) \/ WritesPacket(air'[i]))
           \/ Panel /\ i + 1 \in 1 .. Len(air) /\ air'[i] = air[i + 1]
<1>1. air \in Seq(Written) /\ Len(air) \in Nat
  BY IInvParts DEF AirType
<1>2. CASE Session
  <2>1. CASE air' = air
    BY <2>1
  <2>2. ASSUME NEW w \in Written, air' = Append(air, w), WritesList(w) \/ WritesOffer(w) \/ WritesPacket(w)
        PROVE  \/ i \in 1 .. Len(air) /\ air'[i] = air[i]
               \/ Session /\ air'[i] \in Written /\ i = Len(air) + 1
                  /\ (WritesList(air'[i]) \/ WritesOffer(air'[i]) \/ WritesPacket(air'[i]))
    <3>1. Len(air') = Len(air) + 1 /\ air'[Len(air) + 1] = w /\ \A k \in 1 .. Len(air) : air'[k] = air[k]
      BY <1>1, <2>2, SeqAppend
    <3>2. i \in 1 .. Len(air) \/ i = Len(air) + 1
      BY <1>1, <3>1
    <3> QED BY <1>2, <2>2, <3>1, <3>2
  <2> QED BY <1>2, <2>1, <2>2, IInvParts, HostWrites
<1>3. CASE Panel
  <2>1. CASE air' = air
    BY <2>1
  <2>2. CASE air # <<>> /\ air' = Tail(air)
    <3>1. Len(air') = Len(air) - 1 /\ \A k \in 1 .. Len(air) - 1 : air'[k] = air[k + 1]
      BY <1>1, <2>2, SeqTail
    <3>2. i \in 1 .. Len(air) - 1 /\ i + 1 \in 1 .. Len(air)
      BY <1>1, <3>1
    <3> QED BY <1>3, <3>1, <3>2
  <2> QED BY <1>3, <2>1, <2>2, PanelAir
<1> QED BY <1>2, <1>3 DEF Next

LEMMA ListFirstStep == ASSUME IInv, Next PROVE ListFirst'
<1> SUFFICES ASSUME NEW i \in 1 .. Len(air'), air'[i].cmd = "list" PROVE i = 1 /\ panel'.phase = "fresh"
  BY DEF ListFirst
<1>1. ListFirst /\ Silent /\ Len(air) \in Nat
  BY IInvParts DEF AirType
<1>2. CASE i \in 1 .. Len(air) /\ air'[i] = air[i]
  <2>1. i = 1 /\ panel.phase = "fresh" /\ air # <<>>
    BY <1>1, <1>2 DEF ListFirst
  <2>2. CASE Session
    BY <2>1, <2>2, HostStill
  <2>3. CASE Panel
    <3>1. air' = Tail(air)
      BY <2>1, <2>3, PanelAir
    <3>2. Len(air') = Len(air) - 1 /\ \A k \in 1 .. Len(air) - 1 : Tail(air)[k] = air[k + 1]
      BY <2>1, <3>1, IInvParts, SeqTail DEF AirType
    <3>3. i + 1 \in 1 .. Len(air) /\ air[i + 1].cmd = "list"
      BY <3>1, <3>2, <1>1, <2>1
    <3>4. i + 1 = 1
      BY <3>3, <1>1 DEF ListFirst
    <3> QED BY <2>1, <3>4
  <2> QED BY <2>2, <2>3 DEF Next
<1>3. CASE Session /\ i = Len(air) + 1 /\ (WritesList(air'[i]) \/ WritesOffer(air'[i]) \/ WritesPacket(air'[i]))
  <2>1. pc = "list"
    BY <1>3 DEF WritesList, WritesOffer, WritesPacket
  <2>2. air = <<>> /\ panel.phase = "fresh"
    BY <1>1, <2>1 DEF Silent
  <2> QED BY <1>3, <2>2, HostStill
<1>4. CASE i + 1 \in 1 .. Len(air) /\ air'[i] = air[i + 1]
  BY <1>1, <1>4 DEF ListFirst
<1> QED BY AirMoves, <1>2, <1>3, <1>4

LEMMA PacketsStep == ASSUME IInv, Next PROVE Packets'
<1> SUFFICES ASSUME NEW i \in 1 .. Len(air'), air'[i].cmd = "data" PROVE air'[i].idx < air'[i].file.packets
  BY DEF Packets
<1>1. Packets /\ PacketLeft
  BY IInvParts
<1>2. CASE WritesList(air'[i]) \/ WritesOffer(air'[i]) \/ WritesPacket(air'[i])
  BY <1>1, <1>2 DEF WritesList, WritesOffer, WritesPacket, PacketLeft
<1> QED BY <1>1, <1>2, AirMoves DEF Packets

(* The panel's knowledge of versions only grows, so what is near stays so.  *)
LEMMA NearStays ==
    ASSUME IInv, Next
    PROVE  /\ \A f \in bodies : Near(f) => NearTo(f, panel'.have)
           /\ \A r \in Request : Known(r) => KnownTo(r, panel'.have)
<1>1. UNCHANGED bodies
  BY HostStill, PanelStays DEF Next
<1>2. \A v \in Vendors : panel.have[v] \in Nat /\ panel'.have[v] \in Nat /\ panel.have[v] <= panel'.have[v]
  <2>1. CASE Session
    <3>1. UNCHANGED panel
      BY <2>1, HostStill
    <3> QED BY <3>1, IInvParts DEF PanelType
  <2>2. CASE Panel
    BY <2>2, HaveGrows, IInvParts
  <2> QED BY <2>1, <2>2 DEF Next
<1>3. \A f \in bodies : f.vendor \in Vendors /\ f.version \in Nat
  BY Constants, IInvParts DEF HostType
<1>4. ASSUME NEW f \in bodies, Near(f) PROVE NearTo(f, panel'.have)
  <2>1. \A g \in bodies : g.vendor = f.vendor /\ g.version > panel'.have[f.vendor] => f.version <= g.version
    <3>1. f.vendor \in Vendors
      BY <1>3
    <3> QED BY <1>2, <1>3, <1>4, <3>1 DEF Near, NearTo
  <2> QED BY <1>1, <2>1 DEF Near, NearTo
<1>5. ASSUME NEW r \in Request, Known(r) PROVE KnownTo(r, panel'.have)
  <2>1. r.vendor \in Vendors /\ r.version \in Nat
    BY RequestFacts
  <2>2. r.version <= panel'.have[r.vendor] + 1
    BY <1>2, <1>5, <2>1 DEF Known, KnownTo
  <2> QED BY <2>2 DEF Known, KnownTo
<1> QED BY <1>4, <1>5

LEMMA OffersStep == ASSUME IInv, Next PROVE Offers'
<1>1. Offers /\ Requests /\ HasFile /\ HostType /\ PendingWaits
  BY IInvParts
<1>2. UNCHANGED bodies
  BY HostStill, PanelStays DEF Next
<1>3. ASSUME NEW i \in 1 .. Len(air'), air'[i].cmd = "info" PROVE air'[i].file \in bodies /\ NearTo(air'[i].file, panel'.have)
  <2>1. air'[i].file \in bodies /\ Near(air'[i].file)
    <3>1. CASE WritesList(air'[i]) \/ WritesOffer(air'[i]) \/ WritesPacket(air'[i])
      BY <1>1, <1>3, <3>1 DEF WritesList, WritesOffer, WritesPacket, HasFile, Offers
    <3> QED BY <1>1, <1>3, <3>1, AirMoves DEF Offers
  <2> QED BY <2>1, NearStays
<1>4. ASSUME pc' = "offer" PROVE NearTo(cur', panel'.have)
  <2>1. CASE Session
    <3>1. Serve \/ (Skip /\ pc = "offer")
      BY <1>4, <2>1 DEF Session, Listen, SendList, Skip, WaitEnds, Offer, Answered, NotAnswered, Stream,
         NextPacket, AfterFailedWrite, FileDone, FileQuiet, FileEnds, AskedAgain, Resend, Ends
    <3>2. Serve
      BY <3>1 DEF Skip, Wanted
    <3>3. PICK r \in NextRequest : cur' \in Picks(r) /\ TakeRequest(r)
      BY <1>4, <3>2 DEF Serve, Ends
    <3>4. r \in Request /\ Known(r)
      <4>1. CASE pending # NoRequest
        BY <1>1, <3>3, <4>1, IInvParts DEF TakeRequest, Requests, PendingType
      <4>2. CASE pending = NoRequest
        <5>1. inbox # <<>> /\ Head(inbox).cmd = "request" /\ r = Head(inbox).req
          BY <3>3, <4>2 DEF TakeRequest, Reads
        <5>2. Len(inbox) \in Nat /\ Len(inbox) > 0 /\ Head(inbox) = inbox[1]
          BY <5>1, IInvParts, SeqTail DEF InboxType
        <5> QED BY <1>1, <5>1, <5>2, IInvParts, ReadsFirst DEF Requests
      <4> QED BY <4>1, <4>2
    <3>5. cur' \in bodies /\ cur'.vendor = r.vendor
          /\ \A g \in bodies : g.vendor = r.vendor /\ g.version >= r.version => cur'.version <= g.version
      BY <1>1, <3>3, <3>4, PicksFacts DEF HostType
    <3>6. r.version \in Nat /\ panel.have[r.vendor] \in Nat /\ \A g \in bodies : g.version \in Nat
      BY <1>1, <3>4, RequestFacts, Constants, IInvParts DEF HostType, PanelType
    <3>7. \A g \in bodies : g.vendor = cur'.vendor /\ g.version > panel.have[cur'.vendor] => cur'.version <= g.version
      BY <3>4, <3>5, <3>6 DEF Known, KnownTo
    <3> QED BY <3>7, <1>2, <2>1, HostStill DEF Near, NearTo
  <2>2. CASE Panel
    <3>1. pc = "offer" /\ cur' = cur
      BY <1>4, <2>2, PanelStays
    <3>2. cur \in bodies /\ Near(cur)
      BY <1>1, <3>1 DEF HasFile, Offers
    <3>3. \A f \in bodies : Near(f) => NearTo(f, panel'.have)
      BY NearStays
    <3> QED BY <3>1, <3>2, <3>3
  <2> QED BY <2>1, <2>2 DEF Next
<1> QED BY <1>2, <1>3, <1>4 DEF Offers, Near, NearTo

LEMMA AsksNextStep == ASSUME IInv, Next PROVE AsksNext'
<1>1. AsksNext /\ PanelType
  BY IInvParts
<1>2. CASE Session
  BY <1>1, <1>2, HostStill DEF AsksNext
<1>3. CASE Panel
  <2>1. CASE Lists \/ Completes \/ Rests \/ Pauses \/ \E f \in bodies : Refuses(f)
    BY <1>1, <2>1, PanelFields DEF AsksNext
  <2>2. CASE KeepsFile
    BY <1>1, <2>2 DEF KeepsFile, KeepsHave, AsksNext
  <2>3. CASE \E f \in bodies : \E k \in 0 .. f.packets - 1 : Takes(f, k)
    BY <1>1, <2>3, PanelFields DEF Takes, Fits, AsksNext, KeepsHave
  <2>4. CASE \E n \in Nat : Gathers(n)
    BY <1>1, <2>4, PanelFields DEF AsksNext, KeepsHave
  <2>5. CASE \E v \in Vendors : AsksFor(v)
    <3>1. PICK v \in Vendors : AsksFor(v)
      BY <2>5
    <3>2. NextOf(v) \in Request /\ NextOf(v).vendor = v /\ NextOf(v).version = panel.have[v] + 1
      BY <1>1 DEF NextOf, Request, PanelType
    <3>3. panel'.asked = NextOf(v) /\ panel'.have = panel.have
      BY <1>1, <3>1, PanelFields DEF KeepsHave
    <3> QED BY <3>2, <3>3 DEF AsksNext
  <2> QED BY <1>1, <1>3, <2>1, <2>2, <2>3, <2>4, <2>5, PanelCases, PanelFields, IInvParts
<1> QED BY <1>2, <1>3 DEF Next

LEMMA RequestsStep == ASSUME IInv, Next PROVE Requests'
<1>1. Requests /\ InboxType /\ PendingType
  BY IInvParts
<1>2. \A r \in Request : Known(r) => KnownTo(r, panel'.have)
  BY NearStays
<1>3. \A i \in 1 .. Len(inbox) : inbox[i].cmd = "request" => inbox[i].req \in Request /\ Known(inbox[i].req)
  BY <1>1, FrameFacts DEF InboxType, Requests
<1>4. CASE Session
  <2>1. ASSUME NEW i \in 1 .. Len(inbox'), inbox'[i].cmd = "request" PROVE KnownTo(inbox'[i].req, panel'.have)
    <3>1. CASE inbox' = inbox
      BY <1>2, <1>3, <2>1, <3>1
    <3>2. CASE inbox # <<>> /\ inbox' = Tail(inbox)
      <4>1. Len(inbox) \in Nat /\ Len(inbox') = Len(inbox) - 1 /\ \A k \in 1 .. Len(inbox) - 1 : inbox'[k] = inbox[k + 1]
        BY <1>1, <3>2, SeqTail DEF InboxType
      <4>2. i + 1 \in 1 .. Len(inbox) /\ inbox'[i] = inbox[i + 1]
        BY <4>1
      <4> QED BY <1>2, <1>3, <2>1, <4>2
    <3> QED BY <1>4, <3>1, <3>2, HostReads
  <2>2. ASSUME pending' # NoRequest PROVE KnownTo(pending', panel'.have)
    <3>1. pending' = pending \/ (Reads("request") /\ pending' = Head(inbox).req)
      BY <1>4, <2>2 DEF Session, Listen, SendList, Skip, Serve, TakeRequest, WaitEnds, Offer, Answered,
         NotAnswered, Stream, FileDone, FileQuiet, AskedAgain, Resend
    <3>2. CASE pending' = pending
      <4>1. pending \in Request /\ Known(pending)
        BY <1>1, <2>2, <3>2 DEF Requests, PendingType
      <4> QED BY <1>2, <3>2, <4>1
    <3>3. CASE Reads("request") /\ pending' = Head(inbox).req
      <4>1. inbox # <<>> /\ Head(inbox).cmd = "request"
        BY <3>3 DEF Reads
      <4>2. Len(inbox) \in Nat /\ Len(inbox) > 0 /\ Head(inbox) = inbox[1]
        BY <1>1, <4>1, SeqTail DEF InboxType
      <4>3. Head(inbox).req \in Request /\ Known(Head(inbox).req)
        BY <1>3, <4>1, <4>2
      <4> QED BY <1>2, <3>3, <4>3
    <3> QED BY <3>1, <3>2, <3>3
  <2> QED BY <2>1, <2>2 DEF Requests, Known
<1>5. CASE Panel
  <2>1. UNCHANGED pending
    BY <1>5, PanelStays
  <2>2. pending' # NoRequest => KnownTo(pending', panel'.have)
    BY <1>1, <1>2, <2>1 DEF Requests, PendingType
  <2>3. ASSUME NEW i \in 1 .. Len(inbox'), inbox'[i].cmd = "request" PROVE KnownTo(inbox'[i].req, panel'.have)
    <3>1. UNCHANGED inbox \/ \E m \in Frame : Says(m) /\ Spoken(m)
      BY <1>5, IInvParts, PanelSpeaks
    <3>2. CASE inbox' = inbox
      BY <1>2, <1>3, <2>3, <3>2
    <3>3. ASSUME NEW m \in Frame, inbox' = Append(inbox, m), Spoken(m) PROVE KnownTo(inbox'[i].req, panel'.have)
      <4>1. Len(inbox) \in Nat /\ Len(inbox') = Len(inbox) + 1 /\ inbox'[Len(inbox) + 1] = m
            /\ \A k \in 1 .. Len(inbox) : inbox'[k] = inbox[k]
        BY <1>1, <3>3, SeqAppend DEF InboxType
      <4>2. CASE i \in 1 .. Len(inbox) /\ inbox'[i] = inbox[i]
        BY <1>2, <1>3, <2>3, <4>2
      <4>3. CASE inbox'[i] = m
        <5>1. m.req = panel'.asked /\ panel'.phase = "asking"
          BY <2>3, <3>3, <4>3 DEF Spoken, Asks
        <5>2. panel'.asked \in Request /\ panel'.asked.version = panel'.have[panel'.asked.vendor] + 1
          BY <5>1, AsksNextStep DEF AsksNext
        <5>3. panel'.have[panel'.asked.vendor] \in Nat
          BY <5>2, RequestFacts, <1>5, IInvParts, HaveGrows
        <5>4. panel'.asked.version <= panel'.have[panel'.asked.vendor] + 1
          BY <5>2, <5>3
        <5> QED BY <4>3, <5>1, <5>4 DEF Known, KnownTo
      <4> QED BY <4>1, <4>2, <4>3
    <3> QED BY <3>1, <3>2, <3>3 DEF Says
  <2> QED BY <2>2, <2>3 DEF Requests, Known
<1> QED BY <1>4, <1>5 DEF Next

LEMMA ReceivesStep == ASSUME IInv, Next PROVE Receives'
<1>1. Receives /\ PanelType /\ AsksNext /\ HostType
  BY IInvParts
<1>2. UNCHANGED bodies /\ \A r : Picks(r)' = Picks(r)
  BY HostStill, PanelStays DEF Next, Picks
<1>3. CASE Session
  <2>1. UNCHANGED panel
    BY <1>3, HostStill
  <2> QED BY <1>1, <1>2, <2>1 DEF Receives, Lacks
<1>4. CASE Panel
  <2>1. CASE Lists \/ Completes \/ Rests \/ Pauses \/ (\E f \in bodies : Refuses(f)) \/ (\E v \in Vendors : AsksFor(v))
    BY <1>1, <2>1, PanelFields DEF Receives
  <2>2. CASE KeepsFile
    <3>1. /\ panel'.phase = panel.phase /\ panel'.asked = panel.asked
          /\ panel'.file = panel.file /\ panel'.got = panel.got
      BY <2>2 DEF KeepsFile
    <3> QED BY <1>1, <1>2, <3>1 DEF Receives, Lacks
  <2>3. ASSUME NEW f \in bodies, Near(f), NEW k \in 0 .. f.packets - 1, Takes(f, k) PROVE Receives'
    <3>1. panel'.asked = panel.asked /\ panel'.file = f /\ panel'.got = 0 .. k - 1
      BY <1>1, <2>3, PanelFields
    <3>2. f \in Picks(panel.asked)
      BY <1>1, <2>3, TakesItsOwn DEF Takes
    <3>3. f.packets \in Nat
      BY <1>1, Constants DEF HostType
    <3>4. 0 .. k - 1 \subseteq 0 .. f.packets - 1 /\ k \in (0 .. f.packets - 1) \ (0 .. k - 1)
      BY <3>3
    <3> QED BY <1>2, <3>1, <3>2, <3>4 DEF Receives, Lacks
  <2>4. ASSUME NEW n \in Nat, Gathers(n) PROVE Receives'
    <3>1. panel'.asked = panel.asked /\ panel'.file = panel.file /\ panel'.got = panel.got \cup {n}
          /\ panel.phase = "receiving"
      BY <1>1, <2>4, PanelFields DEF Gathers
    <3>2. panel.file \in Picks(panel.asked) /\ panel.got \subseteq 0 .. panel.file.packets - 1
      BY <1>1, <3>1 DEF Receives
    <3>3. panel.got \cup {n} \subseteq 0 .. panel.file.packets - 1
          /\ (0 .. panel.file.packets - 1) \ (panel.got \cup {n}) # {}
      BY <2>4, <3>2 DEF Gathers
    <3> QED BY <1>2, <3>1, <3>2, <3>3 DEF Receives, Lacks
  <2> QED BY <1>1, <1>4, <2>1, <2>2, <2>3, <2>4, PanelCases, PanelFields, IInvParts
<1> QED BY <1>3, <1>4 DEF Next

LEMMA StoredOldStep == ASSUME IInv, Next PROVE StoredOld'
<1>1. StoredOld /\ PanelType /\ HostType
  BY IInvParts
<1>2. CASE Session
  BY <1>1, <1>2, HostStill DEF StoredOld
<1>3. CASE Panel
  <2>1. CASE Completes
    <3>1. panel'.have = [panel.have EXCEPT ![panel.file.vendor] = panel.file.version]
          /\ panel'.stored = panel.stored \cup {panel.file}
      BY <1>1, <2>1, PanelFields
    <3>2. panel.file \in bodies
      BY <2>1, IInvParts, PicksBodies DEF Completes, Receives
    <3>3. panel.file.vendor \in Vendors /\ panel.file.version \in Nat
      BY <1>1, <3>2, Constants DEF HostType
    <3>4. panel'.have[panel.file.vendor] = panel.file.version
      BY <1>1, <3>1, <3>3 DEF PanelType
    <3>5. ASSUME NEW f \in panel.stored PROVE f.version <= panel'.have[f.vendor]
      <4>1. f \in bodies /\ f.version <= panel.have[f.vendor]
        BY <1>1 DEF StoredOld, PanelType
      <4>2. f.vendor \in Vendors /\ f.version \in Nat
        BY <1>1, <4>1, Constants DEF HostType
      <4> QED BY <1>3, <4>1, <4>2, HaveGrows, IInvParts
    <3> QED BY <3>1, <3>3, <3>4, <3>5 DEF StoredOld
  <2>2. CASE KeepsHave
    BY <1>1, <2>2 DEF StoredOld, KeepsHave
  <2> QED BY <1>1, <1>3, <2>1, <2>2, PanelCases, PanelFields, IInvParts DEF KeepsFile
<1> QED BY <1>2, <1>3 DEF Next

(* How the queue and what the host has on its hands move together.          *)
LEMMA QueueMoves ==
    ASSUME IInv, Session, ~ Over'
    PROVE  \/ inbox' = inbox /\ Base' \subseteq Base
           \/ /\ inbox # <<>> /\ inbox' = Tail(inbox)
              /\ Base' \subseteq IF Asks(Head(inbox)) THEN Picks(Head(inbox).req) ELSE Base
  BY HandMoves, IInvParts

LEMMA AheadSame == ASSUME Next PROVE \A q, base, i : Ahead(q, base, i)' = Ahead(q, base, i)
<1>1. UNCHANGED bodies /\ \A r : Picks(r)' = Picks(r)
  BY HostStill, PanelStays DEF Next, Picks
<1> QED BY <1>1 DEF Ahead

LEMMA LastStep == ASSUME IInv, Next PROVE Last'
<1> SUFFICES ASSUME ~ Over', panel'.phase \in {"asking", "receiving"}
             PROVE  Ahead(inbox', Base', Len(inbox') + 1) \subseteq Picks(panel'.asked)
  <2>1. \A r : Picks(r)' = Picks(r)
    BY HostStill, PanelStays DEF Next, Picks
  <2> QED BY <2>1, AheadSame DEF Last
<1>1. Last /\ inbox \in Seq(Frame) /\ Len(inbox) \in Nat
  BY IInvParts DEF InboxType
<1>2. CASE Session
  <2>1. ~ Over /\ UNCHANGED panel
    BY <1>2, NotOver, HostStill
  <2>2. Ahead(inbox, Base, Len(inbox) + 1) \subseteq Picks(panel.asked)
    BY <1>1, <2>1 DEF Last
  <2>3. CASE inbox' = inbox /\ Base' \subseteq Base
    BY <2>1, <2>2, <2>3, AheadShrinks
  <2>4. CASE /\ inbox # <<>> /\ inbox' = Tail(inbox)
             /\ Base' \subseteq IF Asks(Head(inbox)) THEN Picks(Head(inbox).req) ELSE Base
    <3>1. Len(inbox) \in 1 .. Len(inbox) /\ Len(inbox') + 1 = Len(inbox)
      BY <1>1, <2>4, SeqTail
    <3>2. Ahead(inbox', Base', Len(inbox)) \subseteq Ahead(inbox, Base, Len(inbox) + 1)
      BY <1>1, <2>4, <3>1, AheadMoves
    <3> QED BY <2>1, <2>2, <3>1, <3>2
  <2> QED BY <1>2, <2>3, <2>4, QueueMoves
<1>3. CASE Panel
  <2>1. UNCHANGED <<pc, pending, cur, bodies>>
    BY <1>3, PanelStays
  <2>2. ~ Over /\ Base' = Base
    BY <2>1 DEF Over, Base, Picks
  <2>3. Hears
    BY <1>3, <2>2, PanelHeard, IInvParts
  <2>4. Busy /\ panel'.asked = panel.asked => Ahead(inbox, Base, Len(inbox) + 1) \subseteq Picks(panel'.asked)
    BY <1>1, <2>2 DEF Last, Busy
  <2>5. CASE inbox' = inbox /\ Quiet
    BY <2>2, <2>4, <2>5 DEF Quiet, StaysOn, Busy
  <2>6. ASSUME NEW m \in Frame, inbox' = Append(inbox, m), Spoken(m)
        PROVE  Ahead(inbox', Base', Len(inbox') + 1) \subseteq Picks(panel'.asked)
    <3>1. Len(inbox') + 1 = Len(inbox) + 2
      BY <1>1, <2>6, SeqAppend
    <3>2. Ahead(inbox', Base', Len(inbox) + 2) \subseteq
              IF Asks(m) THEN Picks(m.req) ELSE Ahead(inbox, Base, Len(inbox) + 1)
      BY <1>1, <2>2, <2>6, AheadEnds
    <3>3. CASE Asks(m)
      BY <2>6, <3>1, <3>2, <3>3 DEF Spoken
    <3>4. CASE ~ Asks(m)
      <4>1. Busy /\ panel'.asked = panel.asked
        BY <2>6, <3>4 DEF Spoken, StaysOn, Busy
      <4> QED BY <2>4, <3>1, <3>2, <3>4, <4>1
    <3> QED BY <3>3, <3>4
  <2> QED BY <1>3, <2>3, <2>5, <2>6, PanelSpeaks, IInvParts DEF Says
<1> QED BY <1>2, <1>3 DEF Next

LEMMA TakenStep == ASSUME IInv, Next PROVE Taken'
<1> SUFFICES ASSUME ~ Over', NEW i \in 1 .. Len(inbox'), IsTaken(inbox'[i]), NEW f \in Ahead(inbox', Base', i)
             PROVE  Held(f, inbox', i, panel')
  BY AheadSame DEF Taken
<1>1. Taken /\ Last /\ inbox \in Seq(Frame) /\ Len(inbox) \in Nat
  BY IInvParts DEF InboxType
<1>2. CASE Session
  <2>1. ~ Over /\ panel' = panel
    BY <1>2, NotOver, HostStill
  <2>2. CASE inbox' = inbox /\ Base' \subseteq Base
    <3>1. f \in Ahead(inbox, Base, i)
      BY <2>2, AheadShrinks
    <3> QED BY <1>1, <2>1, <2>2, <3>1 DEF Taken
  <2>3. CASE /\ inbox # <<>> /\ inbox' = Tail(inbox)
             /\ Base' \subseteq IF Asks(Head(inbox)) THEN Picks(Head(inbox).req) ELSE Base
    <3>1. Len(inbox') = Len(inbox) - 1 /\ \A k \in 1 .. Len(inbox) - 1 : inbox'[k] = inbox[k + 1]
      BY <1>1, <2>3, SeqTail
    <3>2. i \in 1 .. Len(inbox) /\ i + 1 \in 1 .. Len(inbox) /\ (i + 1) - 1 = i /\ inbox'[i] = inbox[i + 1]
      BY <1>1, <3>1
    <3>3. f \in Ahead(inbox, Base, i + 1)
      BY <1>1, <2>3, <3>2, AheadMoves
    <3>4. Held(f, inbox, i + 1, panel)
      BY <1>1, <2>1, <3>2, <3>3 DEF Taken
    <3>5. Held(f, Tail(inbox), (i + 1) - 1, panel)
      BY <1>1, <2>3, <3>2, <3>4, HeldMoves
    <3> QED BY <2>1, <2>3, <3>2, <3>5
  <2> QED BY <1>2, <2>2, <2>3, QueueMoves
<1>3. CASE Panel
  <2>1. UNCHANGED <<pc, pending, cur, bodies>>
    BY <1>3, PanelStays
  <2>2. ~ Over /\ Base' = Base
    BY <2>1 DEF Over, Base, Picks
  <2>3. Hears /\ panel.stored \subseteq panel'.stored
    BY <1>3, <2>2, PanelHeard, HaveGrows, IInvParts
  <2>4. CASE inbox' = inbox /\ Quiet
    <3>1. Held(f, inbox, i, panel)
      BY <1>1, <2>2, <2>4 DEF Taken
    <3> QED BY <2>3, <2>4, <3>1, HeldStays DEF Quiet
  <2>5. ASSUME NEW m \in Frame, inbox' = Append(inbox, m), Spoken(m) PROVE Held(f, inbox', i, panel')
    <3>1. Len(inbox') = Len(inbox) + 1 /\ inbox'[Len(inbox) + 1] = m /\ \A k \in 1 .. Len(inbox) : inbox'[k] = inbox[k]
      BY <1>1, <2>5, SeqAppend
    <3>2. i \in 1 .. Len(inbox) + 1
      BY <3>1
    <3>3. f \in Ahead(inbox, Base, i)
      BY <1>1, <2>2, <2>5, <3>2, AheadGrows
    <3>4. CASE i \in 1 .. Len(inbox)
      <4>1. Held(f, inbox, i, panel) /\ i \in 0 .. Len(inbox)
        BY <1>1, <2>2, <3>1, <3>3, <3>4 DEF Taken
      <4> QED BY <1>1, <2>3, <2>5, <4>1, HeldSaid DEF Spoken
    <3>5. CASE i = Len(inbox) + 1
      <4>1. Busy /\ panel'.phase = "receiving" /\ \A g \in Picks(panel.asked) : g = panel'.file
        BY <2>5, <3>1, <3>5 DEF Spoken
      <4>2. f \in Picks(panel.asked)
        BY <1>1, <2>2, <3>3, <3>5, <4>1 DEF Last, Busy
      <4>3. Kept(f, panel')
        BY <4>1, <4>2 DEF Kept
      <4>4. \A j \in i + 1 .. Len(inbox') : FALSE
        BY <1>1, <3>1, <3>5
      <4> QED BY <4>3, <4>4 DEF Held, ClosesStored, AgainFits
    <3> QED BY <1>1, <3>2, <3>4, <3>5
  <2> QED BY <1>3, <2>3, <2>4, <2>5, PanelSpeaks, IInvParts DEF Says
<1> QED BY <1>2, <1>3 DEF Next

LEMMA SafeStep == ASSUME IInv, Next PROVE Safe'
<1> SUFFICES ASSUME pc' \in {"stream", "serve", "resend"} PROVE Held(cur', inbox', 0, panel')
  BY DEF Safe
<1>1. Safe /\ Taken /\ inbox \in Seq(Frame) /\ Len(inbox) \in Nat /\ PendingWaits /\ HasFile
  BY IInvParts DEF InboxType
<1>2. CASE Session
  <2>1. panel' = panel
    BY <1>2, HostStill
  <2>2. CASE Answered
    <3>1. /\ pc = "answer" /\ inbox # <<>> /\ inbox' = Tail(inbox) /\ cur' = cur
          /\ Head(inbox).cmd = "info" /\ Head(inbox).takes
      BY <2>2 DEF Answered, Reads
    <3>2. Len(inbox) > 0 /\ Head(inbox) = inbox[1] /\ 1 \in 1 .. Len(inbox)
      BY <1>1, <3>1, SeqTail
    <3>3. cur \in Ahead(inbox, Base, 1)
      <4>1. Base = {cur} /\ cur \in bodies
        BY <1>1, <3>1 DEF Base, PendingWaits, HasFile
      <4> QED BY <4>1, AheadFirst
    <3>4. ~ Over /\ IsTaken(inbox[1])
      BY <3>1, <3>2 DEF Over, IsTaken
    <3>5. Held(cur, inbox, 1, panel)
      BY <1>1, <3>2, <3>3, <3>4 DEF Taken
    <3>6. Held(cur, Tail(inbox), 1 - 1, panel)
      BY <1>1, <3>1, <3>2, <3>5, HeldMoves
    <3> QED BY <2>1, <3>1, <3>6
  <2>3. CASE ~ Answered
    <3>1. /\ pc \in {"stream", "serve", "resend"} /\ cur' = cur
          /\ \/ inbox' = inbox
             \/ inbox # <<>> /\ inbox' = Tail(inbox) /\ ~ Closes(Head(inbox))
      BY <1>2, <2>3 DEF Session, Listen, SendList, Skip, Wanted, Serve, WaitEnds, Offer, NotAnswered, Stream,
         FileDone, FileQuiet, FileEnds, AskedAgain, Resend, Ends, Reads, Closes
    <3>2. Held(cur, inbox, 0, panel)
      BY <1>1, <3>1 DEF Safe
    <3> QED BY <1>1, <2>1, <3>1, <3>2, HeldSkips
  <2> QED BY <2>2, <2>3
<1>3. CASE Panel
  <2>1. UNCHANGED <<pc, cur>>
    BY <1>3, PanelStays
  <2>2. ~ Over /\ Held(cur, inbox, 0, panel)
    BY <1>1, <2>1 DEF Over, Safe
  <2>3. Hears /\ panel.stored \subseteq panel'.stored
    BY <1>3, <2>2, PanelHeard, HaveGrows, IInvParts
  <2>4. CASE inbox' = inbox /\ Quiet
    BY <2>1, <2>2, <2>3, <2>4, HeldStays DEF Quiet
  <2>5. ASSUME NEW m \in Frame, inbox' = Append(inbox, m), Spoken(m) PROVE Held(cur', inbox', 0, panel')
    <3>1. 0 \in 0 .. Len(inbox)
      BY <1>1
    <3> QED BY <1>1, <2>1, <2>2, <2>3, <2>5, <3>1, HeldSaid DEF Spoken
  <2> QED BY <1>3, <2>3, <2>4, <2>5, PanelSpeaks, IInvParts DEF Says
<1> QED BY <1>2, <1>3 DEF Next

(* A packet asked for again, or the one to go on from, is one of the file.  *)
LEMMA PacketLeftStep == ASSUME IInv, Next PROVE PacketLeft'
<1>1. PacketLeft /\ Safe /\ HasFile /\ inbox \in Seq(Frame)
  BY IInvParts DEF InboxType
<1>2. CASE Session
  <2>1. CASE AskedAgain
    <3>1. /\ pc = "serve" /\ inbox # <<>> /\ cur' = cur /\ pkt' = Head(inbox).idx
          /\ Head(inbox).cmd = "data" /\ ~ Head(inbox).done
      BY <2>1 DEF AskedAgain, Reads
    <3>2. Len(inbox) \in Nat /\ Head(inbox) = inbox[1] /\ 1 \in 0 + 1 .. Len(inbox)
      BY <1>1, <3>1, SeqTail
    <3>3. AgainFits(cur, inbox, 0)
      BY <1>1, <3>1 DEF Safe, Held
    <3>4. IsAgain(inbox[1]) /\ \A k \in 0 + 1 .. 1 - 1 : ~ Closes(inbox[k])
      BY <3>1, <3>2 DEF IsAgain
    <3>5. inbox[1].idx < cur.packets
      BY <3>2, <3>3, <3>4 DEF AgainFits
    <3> QED BY <3>1, <3>2, <3>5 DEF PacketLeft
  <2>2. CASE Answered
    <3>1. pc' = "stream" => pkt' < cur.packets
      BY <2>2 DEF Answered
    <3>2. pc' # "resend" /\ cur' = cur
      BY <2>2 DEF Answered
    <3> QED BY <3>1, <3>2 DEF PacketLeft
  <2>3. CASE Stream
    <3>1. pc' = "stream" => pkt' < cur.packets
      BY <2>3 DEF Stream, NextPacket, AfterFailedWrite
    <3>2. pc' # "resend" /\ cur' = cur
      BY <2>3 DEF Stream, NextPacket, AfterFailedWrite
    <3> QED BY <3>1, <3>2 DEF PacketLeft
  <2>4. CASE ~ (AskedAgain \/ Answered \/ Stream)
    <3>1. pc' \notin {"stream", "resend"}
      BY <1>2, <2>4 DEF Session, Listen, SendList, Skip, Wanted, Serve, WaitEnds, Offer, NotAnswered,
         FileDone, FileQuiet, FileEnds, Resend, Ends
    <3> QED BY <3>1 DEF PacketLeft
  <2> QED BY <2>1, <2>2, <2>3, <2>4
<1>3. CASE Panel
  BY <1>1, <1>3, PanelStays DEF PacketLeft
<1> QED BY <1>2, <1>3 DEF Next

LEMMA ConfirmedStep == ASSUME IInv, Next PROVE ConfirmedIsStored'
<1>1. ConfirmedIsStored /\ served \in Seq([file : bodies, confirmed : BOOLEAN]) /\ Safe /\ HasFile
      /\ inbox \in Seq(Frame)
  BY IInvParts DEF ServedType, InboxType
<1>2. ASSUME NEW ok \in BOOLEAN, FileEnds(ok), UNCHANGED panel, cur \in bodies, ok => cur \in panel.stored
      PROVE  ConfirmedIsStored'
  <2> DEFINE e == [file |-> cur, confirmed |-> ok]
  <2>1. e \in [file : bodies, confirmed : BOOLEAN] /\ served' = Append(served, e)
    BY <1>2 DEF FileEnds
  <2>2. /\ Len(served) \in Nat /\ DOMAIN served = 1 .. Len(served) /\ DOMAIN served' = 1 .. Len(served) + 1
        /\ \A k \in 1 .. Len(served) : served'[k] = served[k]
        /\ served'[Len(served) + 1] = e
    <3> HIDE DEF e
    <3> QED BY <1>1, <2>1
  <2>3. \A i \in 1 .. Len(served) + 1 : i \in 1 .. Len(served) \/ i = Len(served) + 1
    BY <2>2
  <2>4. e.confirmed => e.file \in panel'.stored
    BY <1>2
  <2> HIDE DEF e
  <2> QED BY <1>1, <1>2, <2>2, <2>3, <2>4 DEF ConfirmedIsStored
<1>3. CASE Session
  <2>1. UNCHANGED panel
    BY <1>3, HostStill
  <2>2. CASE FileDone
    <3>1. pc = "serve" /\ inbox # <<>> /\ Closes(Head(inbox)) /\ FileEnds(TRUE)
      BY <2>2 DEF FileDone, Reads, Closes
    <3>2. Len(inbox) \in Nat /\ Head(inbox) = inbox[1] /\ 1 \in 0 + 1 .. Len(inbox)
      BY <1>1, <3>1, SeqTail
    <3>3. ClosesStored(cur, inbox, 0, panel) /\ cur \in bodies
      BY <1>1, <3>1 DEF Safe, Held, HasFile
    <3>4. cur \in panel.stored
      BY <3>1, <3>2, <3>3 DEF ClosesStored
    <3> QED BY <1>2, <2>1, <3>1, <3>3, <3>4
  <2>3. CASE FileQuiet
    BY <1>1, <1>2, <2>1, <2>3 DEF FileQuiet, HasFile
  <2>4. CASE ~ (FileDone \/ FileQuiet)
    <3>1. UNCHANGED served
      BY <1>3, <2>4 DEF Session, Listen, SendList, Skip, Serve, WaitEnds, Offer, Answered, NotAnswered, Stream,
         AskedAgain, Resend
    <3> QED BY <1>1, <2>1, <3>1 DEF ConfirmedIsStored
  <2> QED BY <2>2, <2>3, <2>4
<1>4. CASE Panel
  BY <1>1, <1>4, PanelStays, HaveGrows, IInvParts DEF ConfirmedIsStored
<1> QED BY <1>3, <1>4 DEF Next

-----------------------------------------------------------------------------
LEMMA IInvNext == ASSUME IInv, Next PROVE IInv'
<1>1. HostType' /\ PendingType' /\ FileType' /\ CountType' /\ ServedType'
  BY IInvParts, HostTypeStep, PendingTypeStep, FileTypeStep, CountTypeStep, ServedTypeStep
<1>2. PanelType'
  <2>1. CASE Session
    BY <2>1, HostStill, IInvParts DEF PanelType
  <2>2. CASE Panel
    BY <2>2, PanelTypeStep, IInvParts
  <2> QED BY <2>1, <2>2 DEF Next
<1>3. Types'
  BY <1>1, <1>2, InboxTypeStep, AirTypeStep, HasFileStep, PacketLeftStep DEF Types
<1> QED BY <1>3, PendingWaitsStep, HearsAllStep, SilentStep, RequestsStep, OffersStep, ListFirstStep, PacketsStep,
       AsksNextStep, ReceivesStep, StoredOldStep, LastStep, TakenStep, SafeStep, ConfirmedStep DEF IInv

LEMMA IInvStutter == IInv /\ UNCHANGED vars => IInv'
  BY DEF vars, IInv, Types, HostType, PendingType, FileType, ServedType, InboxType, AirType, PanelType, CountType,
     HasFile, PacketLeft, PendingWaits, HearsAll, Silent, Requests, Offers, ListFirst, Packets, AsksNext, Receives,
     StoredOld, Last, Taken, Safe, ConfirmedIsStored, Over, Hears, Known, KnownTo, Near, NearTo, Picks, Lacks, Ahead,
     Base, Held, Kept, ClosedBehind, ClosesStored, AgainFits

(* For any vendors, any manifest and any bounds, the parts of the invariant *)
(* hold in every state of a session.                                        *)
THEOREM Invariant == Spec => []IInv
<1>1. IInv /\ [Next]_vars => IInv'
  BY IInvNext, IInvStutter
<1> QED BY InitIInv, <1>1, PTL DEF Spec

(* The session's data keep their types; what is streamed or sent again is   *)
(* a packet of the file on hand (hot_update.py:217-244, 309-323).           *)
THEOREM TypeCorrect == Spec => []TypeOK
<1>1. IInv => TypeOK
  <2> SUFFICES ASSUME IInv PROVE TypeOK
    OBVIOUS
  <2>1. /\ panel.phase \in {"fresh", "choosing", "asking", "receiving", "content"}
        /\ panel.got \subseteq Nat /\ panel.stored \subseteq bodies
    BY IInvParts DEF PanelType
  <2> QED BY <2>1, IInvParts DEF TypeOK, HostType, PendingType, FileType, ServedType, InboxType, AirType, CountType,
         PacketLeft
<1> QED BY Invariant, <1>1, PTL

(* A file that the summary counts as confirmed is in the panel, whatever    *)
(* was left in the queue, repeated, refused, late or not written            *)
(* (hot_update.py:207-215, 335-342; session.rs:122-131).                    *)
THEOREM ConfirmedStored == Spec => []ConfirmedIsStored
<1>1. IInv => ConfirmedIsStored
  BY IInvParts
<1> QED BY Invariant, <1>1, PTL

-----------------------------------------------------------------------------
(* A session in which nothing but packets is lost. The panel and the host   *)
(* go through the same exchange; what is under way between them is all that *)
(* is in the queue and in the air, and each knows what the other waits for. *)

Newests == [v \in Vendors |-> Newest(v)]
IsDone(m) == m.cmd = "data" /\ m.done
OnlyData(a) == \A i \in 1 .. Len(a) : a[i].cmd = "data"
DataOf(f, a) == \A i \in 1 .. Len(a) : a[i].cmd = "data" /\ a[i].file = f
OnlyAgain(q) == \A i \in 1 .. Len(q) : IsAgain(q[i])

(* Behind the first n frames of the queue there is the request it asks, if  *)
(* it asks.                                                                 *)
Between(n) ==
    \/ panel.phase \in {"choosing", "content"} /\ Len(inbox) = n
    \/ panel.phase = "asking" /\ Len(inbox) = n + 1 /\ Asks(inbox[n + 1]) /\ inbox[n + 1].req = panel.asked

(* The stages of the exchange.                                              *)
Starting  == pc \in {"start", "list"} /\ panel.phase = "fresh" /\ inbox = <<>> /\ air = <<>>
Announced ==
    /\ pc = "wait" /\ panel.phase = "fresh" /\ inbox = <<>>
    /\ Len(air) = 1 /\ air[1].cmd = "list" /\ air[1].newest = Newests
Waiting  == pc = "wait" /\ OnlyData(air) /\ Between(0)
Offering == pc = "offer" /\ panel.phase = "asking" /\ cur \in Picks(panel.asked) /\ inbox = <<>> /\ OnlyData(air)
Offered  ==
    /\ pc = "answer" /\ panel.phase = "asking" /\ cur \in Picks(panel.asked) /\ inbox = <<>>
    /\ air # <<>> /\ air[Len(air)].cmd = "info" /\ air[Len(air)].file = cur
    /\ \A i \in 1 .. Len(air) - 1 : air[i].cmd = "data"
Accepted ==
    /\ pc = "answer" /\ panel.phase = "receiving" /\ panel.file = cur /\ air = <<>>
    /\ inbox # <<>> /\ IsTaken(inbox[1]) /\ inbox[1].start < cur.packets
    /\ \A i \in 2 .. Len(inbox) : IsAgain(inbox[i])
Sending ==
    /\ pc \in {"stream", "serve", "resend"} /\ panel.phase = "receiving" /\ panel.file = cur
    /\ OnlyAgain(inbox) /\ DataOf(cur, air)
    /\ panel.wants => inbox # <<>> \/ pc # "serve" \/ air # <<>>
Closing ==
    /\ pc \in {"stream", "serve", "resend"} /\ OnlyData(air)
    /\ \E n \in 1 .. Len(inbox) : (\A i \in 1 .. n - 1 : IsAgain(inbox[i])) /\ IsDone(inbox[n]) /\ Between(n)
Ended ==
    /\ pc = "done" /\ panel.phase \in {"asking", "content"} /\ OnlyData(air)
    /\ \A v \in Vendors : panel.have[v] = Newest(v)

(* What the panel wants follows from the list it was sent.                  *)
Wishes ==
    /\ panel.refused = {}
    /\ panel.phase # "fresh" => panel.list = Newests
    /\ panel.phase = "content" => Behind = {}
    /\ panel.phase = "asking" => Behind = {} \/ panel.asked.vendor \in Behind
HaveBelow == \A v \in Vendors : panel.have[v] <= Newest(v)

InStep ==
    \/ Starting \/ Announced \/ Waiting \/ Offering \/ Offered \/ Accepted \/ Sending \/ Closing \/ Ended
CInv == HaveBelow /\ (mishaps = 0 => pending = NoRequest /\ Wishes /\ InStep)

(* Where there is a file that would do, there is one to pick.               *)
LEMMA PicksSome ==
    ASSUME bodies \subseteq Catalogue, NEW r \in Request, NEW f \in bodies,
           f.vendor = r.vendor, f.version >= r.version
    PROVE  Picks(r) # {}
<1> DEFINE fit == {g \in bodies : g.vendor = r.vendor /\ g.version >= r.version}
           T == {g.version : g \in fit}
<1>1. T \subseteq Nat /\ T # {}
  BY Constants
<1>2. PICK x \in T : \A y \in T : x <= y
  <2> HIDE DEF T
  <2> QED BY <1>1, Least
<1>3. PICK g \in fit : g.version = x
  OBVIOUS
<1>4. \A h \in fit : g.version <= h.version
  BY <1>2, <1>3
<1> QED BY <1>3, <1>4 DEF Picks

(* The panel has nothing newer than what there is, ...                      *)
LEMMA HaveBelowStep == ASSUME IInv, HaveBelow, Next PROVE HaveBelow'
<1>1. UNCHANGED bodies /\ \A v : Newest(v)' = Newest(v)
  BY HostStill, PanelStays DEF Next, Newest
<1>2. PanelType /\ HostType /\ Receives
  BY IInvParts
<1>3. CASE Session
  BY <1>1, <1>3, HostStill DEF HaveBelow
<1>4. CASE Panel
  <2>1. CASE KeepsHave
    BY <1>1, <2>1 DEF HaveBelow, KeepsHave
  <2>2. CASE Completes
    <3>1. panel'.have = [panel.have EXCEPT ![panel.file.vendor] = panel.file.version]
      BY <1>2, <2>2, PanelFields
    <3>2. panel.file \in bodies
      BY <1>2, <2>2, PicksBodies DEF Completes, Receives
    <3>3. panel.file.version <= Newest(panel.file.vendor)
      BY <1>2, <3>2, NewestFacts DEF HostType
    <3> QED BY <1>1, <1>2, <3>1, <3>3 DEF HaveBelow, PanelType
  <2> QED BY <1>2, <1>4, <2>1, <2>2, PanelCases, PanelFields, IInvParts DEF KeepsFile
<1> QED BY <1>3, <1>4 DEF Next

(* ... so when it is behind on nothing it has all of it.                    *)
LEMMA BehindNothing ==
    ASSUME PanelType, HostType, HaveBelow, Wishes, panel.phase # "fresh", Behind = {}
    PROVE  \A v \in Vendors : panel.have[v] = Newest(v)
<1> TAKE v \in Vendors
<1>1. panel.list[v] = Newest(v) /\ v \notin panel.refused
  BY DEF Wishes, Newests
<1>2. ~ (panel.have[v] < panel.list[v])
  BY <1>1 DEF Behind
<1>3. panel.have[v] \in Nat /\ Newest(v) \in Nat /\ panel.have[v] <= Newest(v)
  BY NewestFacts DEF PanelType, HostType, HaveBelow
<1> QED BY <1>1, <1>2, <1>3

(* A request that no file answers is one of a panel that has everything.    *)
LEMMA NoneToPick ==
    ASSUME PanelType, HostType, AsksNext, HaveBelow, Wishes, panel.phase = "asking", Picks(panel.asked) = {}
    PROVE  \A v \in Vendors : panel.have[v] = Newest(v)
<1> DEFINE w == panel.asked.vendor
<1>1. panel.asked \in Request /\ panel.asked.version = panel.have[w] + 1 /\ w \in Vendors
  BY RequestFacts DEF AsksNext
<1>2. w \notin Behind
  <2> SUFFICES ASSUME w \in Behind PROVE FALSE
    OBVIOUS
  <2>1. panel.have[w] < Newest(w)
    BY <1>1 DEF Behind, Wishes, Newests
  <2>2. panel.have[w] \in Nat /\ Newest(w) \in Nat
    BY <1>1, NewestFacts DEF PanelType, HostType
  <2>3. PICK f \in bodies : f.vendor = w /\ f.version = Newest(w)
    BY <2>1, <2>2, NewestFacts DEF HostType
  <2>4. f.version >= panel.asked.version
    BY <1>1, <2>1, <2>2, <2>3
  <2> QED BY <1>1, <2>3, <2>4, PicksSome DEF HostType
<1>3. Behind = {}
  BY <1>2 DEF Wishes
<1> QED BY <1>3, BehindNothing

LEMMA Single == \A n \in Nat : 1 \in 1 .. n => n = 1 \/ 1 \in 1 .. n - 1
  OBVIOUS

(* A step of the host leads from one stage to the next.                     *)
LEMMA CleanHost ==
    ASSUME IInv, Session, HaveBelow, mishaps = 0, mishaps' = 0, pending = NoRequest, Wishes, InStep
    PROVE  pending' = NoRequest /\ InStep'
<1>1. /\ UNCHANGED <<panel, bodies>>
      /\ \A v : Newest(v)' = Newest(v)
      /\ Newests' = Newests
      /\ \A r : Picks(r)' = Picks(r)
  BY HostStill DEF Newest, Newests, Picks
<1>2. inbox \in Seq(Frame) /\ Len(inbox) \in Nat /\ air \in Seq(Written) /\ Len(air) \in Nat
      /\ PanelType /\ HostType /\ AsksNext
  BY IInvParts DEF InboxType, AirType
<1>3. ~ Mishap /\ ~ WriteFails
  BY DEF Mishap, WriteFails
<1>4. inbox # <<>> => Len(inbox) > 0 /\ Head(inbox) = inbox[1] /\ Len(Tail(inbox)) = Len(inbox) - 1
                      /\ \A i \in 1 .. Len(inbox) - 1 : Tail(inbox)[i] = inbox[i + 1]
  BY <1>2, SeqTail
<1>5. Silence => inbox = <<>> /\ air = <<>> /\ panel.phase # "choosing" /\ ~ AsksAgain
  BY <1>3 DEF Silence, PanelStill
<1>6. ASSUME NEW w, air' = Append(air, w)
      PROVE  /\ Len(air') = Len(air) + 1 /\ air'[Len(air) + 1] = w /\ air' # <<>>
             /\ \A i \in 1 .. Len(air) : air'[i] = air[i]
  BY <1>2, <1>6
<1>7. CASE Starting
  <2>1. CASE Listen
    BY <1>1, <1>7, <2>1 DEF Listen, Starting, InStep, Calm
  <2>2. CASE SendList
    <3> DEFINE w == [cmd |-> "list", newest |-> [v \in Vendors |-> Newest(v)]]
    <3>1. air' = Append(air, w) /\ pc' = "wait" /\ UNCHANGED <<pending, inbox>>
      BY <1>3, <2>2 DEF SendList, Write
    <3>2. w.cmd = "list" /\ w.newest = Newests
      BY DEF Newests
    <3> HIDE DEF w
    <3>3. Len(air) = 0
      BY <1>7 DEF Starting
    <3>4. Len(air') = 1 /\ air'[1] = w
      BY <1>6, <3>1, <3>3
    <3>5. Announced'
      BY <1>1, <1>7, <3>1, <3>2, <3>4 DEF Starting, Announced
    <3> QED BY <3>1, <3>5 DEF InStep
  <2>3. Listen \/ SendList
    BY <1>7 DEF Starting, Session, Skip, Wanted, Serve, WaitEnds, Offer, Answered, NotAnswered, Stream,
       FileDone, FileQuiet, AskedAgain, Resend
  <2> QED BY <2>1, <2>2, <2>3
<1>8. CASE Announced
  <2>1. Skip \/ Serve \/ WaitEnds
    BY <1>8 DEF Announced, Session, Listen, SendList, Offer, Answered, NotAnswered, Stream,
       FileDone, FileQuiet, AskedAgain, Resend
  <2>2. inbox = <<>> /\ air # <<>>
    BY <1>8 DEF Announced
  <2> QED BY <1>5, <2>1, <2>2 DEF Skip, Serve, NextRequest, WaitEnds, Reads
<1>9. CASE Waiting
  <2>1. Skip \/ Serve \/ WaitEnds
    BY <1>9 DEF Waiting, Session, Listen, SendList, Offer, Answered, NotAnswered, Stream,
       FileDone, FileQuiet, AskedAgain, Resend
  <2>2. inbox # <<>> => panel.phase = "asking" /\ Len(inbox) = 1
                        /\ Head(inbox).cmd = "request" /\ Head(inbox).req = panel.asked
    BY <1>4, <1>9 DEF Waiting, Between, Asks
  <2>3. ~ Skip
    BY <1>9, <2>2 DEF Waiting, Skip, Wanted
  <2>4. CASE Serve
    <3>1. PICK r \in NextRequest : /\ TakeRequest(r) /\ UNCHANGED air
                                   /\ \/ \E f \in Picks(r) : pc' = "offer" /\ cur' = f
                                      \/ Picks(r) = {} /\ pc' = "done"
      BY <2>4 DEF Serve, Ends
    <3>2. inbox # <<>> /\ r = Head(inbox).req /\ inbox' = Tail(inbox) /\ pending' = NoRequest
      BY <3>1 DEF NextRequest, TakeRequest, Reads
    <3>3. r = panel.asked /\ panel.phase = "asking" /\ inbox' = <<>>
      BY <1>2, <2>2, <3>2
    <3>4. CASE pc' = "offer" /\ cur' \in Picks(r)
      <4>1. Offering'
        BY <1>1, <1>9, <3>1, <3>3, <3>4 DEF Waiting, Offering, OnlyData
      <4> QED BY <3>2, <4>1 DEF InStep
    <3>5. CASE Picks(r) = {} /\ pc' = "done"
      <4>1. \A v \in Vendors : panel.have[v] = Newest(v)
        BY <1>2, <3>3, <3>5, NoneToPick
      <4>2. Ended'
        BY <1>1, <1>9, <3>1, <3>3, <3>5, <4>1 DEF Waiting, Ended, OnlyData
      <4> QED BY <3>2, <4>2 DEF InStep
    <3> QED BY <3>1, <3>4, <3>5
  <2>5. CASE WaitEnds
    <3>1. Silence /\ UNCHANGED <<pending, air>> /\ pc' = "done"
      BY <2>2, <2>5 DEF WaitEnds, Reads, Ends
    <3>2. panel.phase = "content"
      BY <1>5, <1>9, <3>1 DEF Waiting, Between
    <3>3. \A v \in Vendors : panel.have[v] = Newest(v)
      BY <1>2, <3>2, BehindNothing DEF Wishes
    <3>4. Ended'
      BY <1>1, <1>9, <3>1, <3>2, <3>3 DEF Waiting, Ended, OnlyData
    <3> QED BY <3>1, <3>4 DEF InStep
  <2> QED BY <2>1, <2>3, <2>4, <2>5
<1>10. CASE Offering
  <2>1. Offer
    BY <1>10 DEF Offering, Session, Listen, SendList, Skip, Wanted, Serve, WaitEnds, Answered, NotAnswered, Stream,
       FileDone, FileQuiet, AskedAgain, Resend
  <2> DEFINE w == [cmd |-> "info", file |-> cur]
  <2>2. air' = Append(air, w) /\ pc' = "answer" /\ UNCHANGED <<pending, inbox, cur>>
    BY <1>3, <2>1 DEF Offer, Write
  <2>3. w.cmd = "info" /\ w.file = cur
    OBVIOUS
  <2> HIDE DEF w
  <2>4. Len(air') = Len(air) + 1 /\ air'[Len(air')] = w /\ air' # <<>>
        /\ \A i \in 1 .. Len(air') - 1 : air'[i].cmd = "data"
    BY <1>2, <1>6, <1>10, <2>2 DEF Offering, OnlyData
  <2>5. Offered'
    BY <1>1, <1>10, <2>2, <2>3, <2>4 DEF Offering, Offered
  <2> QED BY <2>2, <2>5 DEF InStep
<1>11. CASE Offered
  <2>1. Skip \/ Answered \/ NotAnswered
    BY <1>11 DEF Offered, Session, Listen, SendList, Serve, WaitEnds, Offer, Stream,
       FileDone, FileQuiet, AskedAgain, Resend
  <2>2. inbox = <<>> /\ air # <<>>
    BY <1>11 DEF Offered
  <2> QED BY <1>5, <2>1, <2>2 DEF Skip, Answered, NotAnswered, Reads
<1>12. CASE Accepted
  <2>1. Skip \/ Answered \/ NotAnswered
    BY <1>12 DEF Accepted, Session, Listen, SendList, Serve, WaitEnds, Offer, Stream,
       FileDone, FileQuiet, AskedAgain, Resend
  <2>2. inbox # <<>> /\ Head(inbox).cmd = "info" /\ Head(inbox).takes /\ Head(inbox).start < cur.packets
    BY <1>4, <1>12 DEF Accepted, IsTaken
  <2>3. Answered
    BY <1>5, <1>12, <2>1, <2>2 DEF Accepted, Skip, Wanted, NotAnswered
  <2>4. inbox' = Tail(inbox) /\ pc' = "stream" /\ UNCHANGED <<pending, cur, air>>
    BY <2>2, <2>3 DEF Answered, Reads
  <2>5. \A i \in 1 .. Len(inbox') : IsAgain(inbox'[i])
    <3>1. \A i \in 1 .. Len(inbox') : i + 1 \in 2 .. Len(inbox) /\ inbox'[i] = inbox[i + 1]
      BY <1>2, <1>4, <2>2, <2>4
    <3> QED BY <1>12, <3>1 DEF Accepted
  <2>6. Sending'
    <3>1. \A i \in 1 .. Len(air') : FALSE
      BY <1>12, <2>4 DEF Accepted
    <3> QED BY <1>1, <1>12, <2>4, <2>5, <3>1 DEF Accepted, Sending, OnlyAgain, DataOf
  <2> QED BY <2>4, <2>6 DEF InStep
<1>13. CASE Sending \/ Closing
  <2>1. Skip \/ Stream \/ FileDone \/ FileQuiet \/ AskedAgain \/ Resend
    BY <1>13 DEF Sending, Closing, Session, Listen, SendList, Serve, WaitEnds, Offer, Answered, NotAnswered
  <2>2. inbox # <<>> => Head(inbox).cmd = "data"
    BY <1>2, <1>4, <1>13 DEF Sending, Closing, OnlyAgain, IsAgain, IsDone
  <2>3. ~ Skip
    BY <1>13, <2>2 DEF Sending, Closing, Skip, Wanted
  <2>4. ~ FileQuiet
    <3> SUFFICES ASSUME FileQuiet PROVE FALSE
      OBVIOUS
    <3>1. pc = "serve" /\ inbox = <<>> /\ air = <<>> /\ ~ AsksAgain
      BY <1>5 DEF FileQuiet
    <3>2. Sending
      <4>1. ~ Closing
        BY <1>2, <3>1 DEF Closing
      <4> QED BY <1>13, <4>1
    <3> QED BY <3>1, <3>2 DEF Sending, AsksAgain
  <2>5. CASE Stream \/ Resend
    <3> DEFINE w == [cmd |-> "data", file |-> cur, idx |-> pkt]
    <3>1. air' = Append(air, w) /\ pc' \in {"stream", "serve", "resend"} /\ UNCHANGED <<pending, inbox, cur>>
      BY <1>3, <2>5 DEF Stream, Resend, Write, NextPacket
    <3>2. w.cmd = "data" /\ w.file = cur
      OBVIOUS
    <3> HIDE DEF w
    <3>3. \A i \in 1 .. Len(air') : air'[i] = w \/ (i \in 1 .. Len(air) /\ air'[i] = air[i])
      BY <1>2, <1>6, <3>1
    <3>4. CASE Sending
      <4>1. DataOf(cur', air') /\ air' # <<>>
        BY <1>6, <3>1, <3>2, <3>3, <3>4 DEF Sending, DataOf
      <4>2. Sending'
        BY <1>1, <3>1, <3>4, <4>1 DEF Sending, OnlyAgain, DataOf
      <4> QED BY <3>1, <4>2 DEF InStep
    <3>5. CASE Closing
      <4>1. OnlyData(air')
        BY <3>2, <3>3, <3>5 DEF Closing, OnlyData
      <4>2. Closing'
        BY <1>1, <3>1, <3>5, <4>1 DEF Closing, OnlyData, Between
      <4> QED BY <3>1, <4>2 DEF InStep
    <3> QED BY <1>13, <3>4, <3>5
  <2>6. CASE AskedAgain
    <3>1. /\ inbox # <<>> /\ inbox' = Tail(inbox) /\ IsAgain(inbox[1]) /\ pc' = "resend"
          /\ UNCHANGED <<pending, cur, air>>
      BY <1>4, <2>6 DEF AskedAgain, Reads, IsAgain
    <3>2. Len(inbox') = Len(inbox) - 1 /\ \A i \in 1 .. Len(inbox') : i + 1 \in 1 .. Len(inbox) /\ inbox'[i] = inbox[i + 1]
      BY <1>2, <1>4, <3>1
    <3>3. CASE Sending
      <4>1. \A i \in 1 .. Len(inbox') : IsAgain(inbox'[i])
        BY <3>2, <3>3 DEF Sending, OnlyAgain
      <4>2. Sending'
        BY <1>1, <3>1, <3>3, <4>1 DEF Sending, OnlyAgain, DataOf
      <4> QED BY <3>1, <4>2 DEF InStep
    <3>4. CASE Closing
      <4>1. PICK n \in 1 .. Len(inbox) : (\A i \in 1 .. n - 1 : IsAgain(inbox[i])) /\ IsDone(inbox[n]) /\ Between(n)
        BY <3>4 DEF Closing
      <4>2. n # 1
        BY <3>1, <4>1 DEF IsAgain, IsDone
      <4>3. n - 1 \in 1 .. Len(inbox') /\ n \in Nat
        BY <1>2, <3>2, <4>2
      <4>4. \A i \in 1 .. (n - 1) - 1 : IsAgain(inbox'[i])
        <5>1. \A i \in 1 .. (n - 1) - 1 : i \in 1 .. Len(inbox') /\ i + 1 \in 1 .. n - 1
          BY <4>3
        <5> QED BY <3>2, <4>1, <5>1
      <4>5. IsDone(inbox'[n - 1])
        <5>1. inbox'[n - 1] = inbox[(n - 1) + 1] /\ (n - 1) + 1 = n
          BY <3>2, <4>3
        <5> QED BY <4>1, <5>1
      <4>7. \/ panel.phase \in {"choosing", "content"} /\ Len(inbox') = n - 1
            \/ panel.phase = "asking" /\ Len(inbox') = (n - 1) + 1 /\ Asks(inbox'[(n - 1) + 1])
               /\ inbox'[(n - 1) + 1].req = panel.asked
        <5>1. CASE panel.phase \in {"choosing", "content"} /\ Len(inbox) = n
          BY <3>2, <5>1
        <5>2. CASE panel.phase = "asking" /\ Len(inbox) = n + 1 /\ Asks(inbox[n + 1]) /\ inbox[n + 1].req = panel.asked
          <6>1. Len(inbox') = n /\ (n - 1) + 1 = n /\ n \in 1 .. Len(inbox')
            BY <3>2, <4>3, <5>2
          <6>2. inbox'[n] = inbox[n + 1]
            BY <3>2, <6>1
          <6> QED BY <5>2, <6>1, <6>2
        <5> QED BY <4>1, <5>1, <5>2 DEF Between
      <4>8. Closing'
        BY <1>1, <3>1, <3>4, <4>3, <4>4, <4>5, <4>7 DEF Closing, OnlyData, Between
      <4> QED BY <3>1, <4>8 DEF InStep
    <3> QED BY <1>13, <3>3, <3>4
  <2>7. CASE FileDone
    <3>1. /\ inbox # <<>> /\ inbox' = Tail(inbox) /\ IsDone(inbox[1]) /\ pc' = "wait"
          /\ UNCHANGED <<pending, air>>
      BY <1>4, <2>2, <2>7 DEF FileDone, FileEnds, Reads, IsDone
    <3>2. Closing
      <4>1. ~ Sending
        BY <1>2, <1>4, <3>1 DEF Sending, OnlyAgain, IsAgain, IsDone
      <4> QED BY <1>13, <4>1
    <3>3. PICK n \in 1 .. Len(inbox) : (\A i \in 1 .. n - 1 : IsAgain(inbox[i])) /\ Between(n)
      BY <3>2 DEF Closing
    <3>4. n = 1
      <4>1. ~ (1 \in 1 .. n - 1)
        BY <3>1, <3>3 DEF IsAgain, IsDone
      <4> QED BY <1>2, <4>1
    <3>5. Len(inbox') = Len(inbox) - 1 /\ (Len(inbox) = 2 => inbox'[1] = inbox[2])
      BY <1>2, <1>4, <3>1
    <3>6. Between(1)
      BY <3>3, <3>4
    <3>7. \/ panel.phase \in {"choosing", "content"} /\ Len(inbox') = 0
          \/ panel.phase = "asking" /\ Len(inbox') = 0 + 1 /\ Asks(inbox'[0 + 1]) /\ inbox'[0 + 1].req = panel.asked
      BY <3>5, <3>6 DEF Between
    <3>8. Waiting'
      BY <1>1, <3>1, <3>2, <3>7 DEF Closing, Waiting, OnlyData, Between
    <3> QED BY <3>1, <3>8 DEF InStep
  <2> QED BY <2>1, <2>3, <2>4, <2>5, <2>6, <2>7
<1>14. CASE Ended
  BY <1>14, NotOver DEF Ended, Over
<1> QED BY <1>7, <1>8, <1>9, <1>10, <1>11, <1>12, <1>13, <1>14 DEF InStep

(* And so does a step of the panel.                                         *)
LEMMA CleanPanel ==
    ASSUME IInv, Panel, HaveBelow, mishaps = 0, mishaps' = 0, pending = NoRequest, Wishes, InStep
    PROVE  pending' = NoRequest /\ Wishes' /\ InStep'
<1>1. /\ UNCHANGED <<pc, pending, cur, bodies>>
      /\ \A v : Newest(v)' = Newest(v)
      /\ Newests' = Newests
      /\ \A r : Picks(r)' = Picks(r)
  BY PanelStays DEF Newest, Newests, Picks
<1>2. inbox \in Seq(Frame) /\ Len(inbox) \in Nat /\ air \in Seq(Written) /\ Len(air) \in Nat
      /\ PanelType /\ HostType /\ AsksNext /\ HasFile
  BY IInvParts DEF InboxType, AirType
<1>3. ~ Mishap
  BY DEF Mishap
<1>4. ~ Over => Hears
  BY PanelHeard, IInvParts
<1>5. ASSUME NEW m, Says(m), ~ Over
      PROVE  /\ Len(inbox') = Len(inbox) + 1 /\ inbox'[Len(inbox) + 1] = m /\ inbox' # <<>>
             /\ \A i \in 1 .. Len(inbox) : inbox'[i] = inbox[i]
  <2>1. inbox' = Append(inbox, m)
    BY <1>4, <1>5 DEF Says
  <2> QED BY <1>2, <2>1
<1>6. air # <<>> /\ air' = Tail(air) =>
          /\ Len(air) > 0 /\ Head(air) = air[1] /\ Len(air') = Len(air) - 1
          /\ \A i \in 1 .. Len(air') : i + 1 \in 1 .. Len(air) /\ air'[i] = air[i + 1]
  BY <1>2, SeqTail
<1>7. panel'.refused = panel.refused /\ panel'.list = panel.list /\ panel'.have = panel.have => Behind' = Behind
  BY DEF Behind
<1>13. Len(air) \in Nat
  BY <1>2
<1> USE DEF PanelType
<1>8. CASE PanelReads /\ ReadsList
  <2>1. air # <<>> /\ air' = Tail(air) /\ Head(air).cmd = "list" /\ UNCHANGED inbox
        /\ panel' = [Choosing EXCEPT !.list = Head(air).newest]
    BY <1>8 DEF PanelReads, ReadsList
  <2>2. air[1].cmd = "list" /\ 1 \in 1 .. Len(air)
    BY <1>2, <1>6, <2>1
  <2>3. Announced
    <3>1. ~ Offered
      <4>1. Len(air) = 1 \/ 1 \in 1 .. Len(air) - 1
        BY <2>2, <1>13, Single
      <4> QED BY <2>2, <4>1 DEF Offered
    <3> QED BY <2>1, <2>2, <3>1 DEF InStep, Starting, Waiting, Offering, Accepted, Sending, Closing, Ended, OnlyData, DataOf
  <2>4. Len(air) = 1 /\ Head(air).newest = Newests
    BY <1>6, <2>1, <2>3 DEF Announced
  <2>5. panel'.phase = "choosing" /\ panel'.list = Newests /\ panel'.refused = panel.refused
    BY <1>2, <2>1, <2>4 DEF Choosing
  <2>6. Waiting'
    <3>1. \A i \in 1 .. Len(air') : FALSE
      BY <1>6, <2>1, <2>4
    <3>2. Len(inbox') = 0
      BY <2>1, <2>3 DEF Announced
    <3> QED BY <1>1, <2>3, <2>5, <3>1, <3>2 DEF Announced, Waiting, OnlyData, Between
  <2>7. Wishes'
    BY <1>1, <2>5 DEF Wishes
  <2> QED BY <1>1, <2>6, <2>7 DEF InStep
<1>9. CASE PanelReads /\ ReadsOffer
  <2>1. air # <<>> /\ air' = Tail(air) /\ Head(air).cmd = "info"
    BY <1>9 DEF PanelReads, ReadsOffer
  <2>2. air[1].cmd = "info" /\ 1 \in 1 .. Len(air)
    BY <1>2, <1>6, <2>1
  <2>3. Offered
    BY <1>2, <2>1, <2>2 DEF InStep, Starting, Announced, Waiting, Offering, Accepted, Sending, Closing, Ended, OnlyData, DataOf
  <2>4. Len(air) = 1 /\ Head(air).file = cur
    <3>1. ~ (1 \in 1 .. Len(air) - 1)
      BY <2>2, <2>3 DEF Offered
    <3>2. Len(air) = 1
      BY <2>2, <3>1, <1>13
    <3> QED BY <1>6, <2>1, <2>3, <3>2 DEF Offered
  <2>5. cur \in Picks(panel.asked) /\ panel.asked \in Request /\ panel.phase = "asking" /\ cur \in bodies
    BY <1>2, <2>3, PicksBodies DEF Offered, AsksNext
  <2>6. cur.vendor = panel.asked.vendor /\ cur.version >= panel.asked.version
    BY <1>2, <2>5, PicksFacts DEF HostType
  <2>7. PICK k \in 0 .. cur.packets - 1 : /\ Says([cmd |-> "info", takes |-> TRUE, start |-> k])
                                          /\ panel' = [panel EXCEPT !.phase = "receiving", !.file = cur, !.got = 0 .. k - 1, !.wants = FALSE]
    BY <1>3, <1>9, <2>4, <2>5, <2>6 DEF ReadsOffer
  <2>8. /\ panel'.phase = "receiving" /\ panel'.file = cur /\ panel'.list = panel.list /\ panel'.refused = panel.refused
    BY <1>2, <2>7
  <2>9. cur.packets \in Nat /\ k < cur.packets
    BY <1>2, <2>5, Constants DEF HostType
  <2>10. Len(inbox') = 1 /\ inbox' # <<>> /\ inbox'[1] = [cmd |-> "info", takes |-> TRUE, start |-> k]
    <3>1. Len(inbox) = 0 /\ ~ Over
      BY <2>3 DEF Offered, Over
    <3> QED BY <1>5, <2>7, <3>1
  <2>11. IsTaken(inbox'[1]) /\ inbox'[1].start = k
    BY <2>10 DEF IsTaken
  <2>12. air' = <<>>
    BY <1>2, <1>6, <2>1, <2>4
  <2>13. Accepted'
    BY <1>1, <2>3, <2>8, <2>9, <2>10, <2>11, <2>12 DEF Offered, Accepted
  <2>14. Wishes'
    BY <1>1, <2>3, <2>8 DEF Wishes, Offered
  <2> QED BY <1>1, <2>13, <2>14 DEF InStep
<1>10. CASE PanelReads /\ ReadsPacket
  <2>1. air # <<>> /\ air' = Tail(air) /\ Head(air).cmd = "data"
    BY <1>10 DEF PanelReads, ReadsPacket
  <2>2. air[1].cmd = "data" /\ 1 \in 1 .. Len(air)
    BY <1>2, <1>6, <2>1
  <2>3. OnlyData(air) => OnlyData(air')
    BY <1>6, <2>1 DEF OnlyData
  <2>4. \A f : DataOf(f, air) => DataOf(f, air') /\ Head(air).file = f
    BY <1>6, <2>1, <2>2 DEF DataOf
  <2>5. CASE panel.phase # "receiving" /\ UNCHANGED <<panel, inbox>>
    <3>1. Wishes'
      BY <1>1, <1>7, <2>5 DEF Wishes
    <3>2. CASE Waiting
      BY <1>1, <2>3, <2>5, <3>1, <3>2 DEF Waiting, Between, InStep
    <3>3. CASE Offering
      <4>1. Offering'
        BY <1>1, <2>3, <2>5, <3>3 DEF Offering
      <4> QED BY <1>1, <3>1, <4>1 DEF InStep
    <3>4. CASE Offered
      <4>1. Len(air) > 1
        <5>1. Len(air) = 1 => air[1].cmd = "info"
          BY <3>4 DEF Offered
        <5> QED BY <2>2, <5>1, <1>13
      <4>2. Len(air') \in 1 .. Len(air') /\ Len(air') + 1 = Len(air) /\ air' # <<>>
        <5>1. Len(air') = Len(air) - 1
          BY <1>6, <2>1
        <5>2. Len(<<>>) = 0
          OBVIOUS
        <5> QED BY <4>1, <5>1, <5>2, <1>13
      <4>3. air'[Len(air')] = air[Len(air)]
        BY <1>6, <2>1, <4>2
      <4>4. \A i \in 1 .. Len(air') - 1 : i \in 1 .. Len(air') /\ i + 1 \in 1 .. Len(air) - 1
        BY <1>2, <4>2
      <4>5. \A i \in 1 .. Len(air') - 1 : air'[i].cmd = "data"
        BY <1>6, <2>1, <3>4, <4>4 DEF Offered
      <4>6. Offered'
        BY <1>1, <2>5, <3>4, <4>2, <4>3, <4>5 DEF Offered
      <4> QED BY <1>1, <3>1, <4>6 DEF InStep
    <3>5. CASE Closing
      <4>1. Closing'
        BY <1>1, <2>3, <2>5, <3>5 DEF Closing, Between
      <4> QED BY <1>1, <3>1, <4>1 DEF InStep
    <3>6. CASE Ended
      <4>1. Ended'
        BY <1>1, <2>3, <2>5, <3>6 DEF Ended
      <4> QED BY <1>1, <3>1, <4>1 DEF InStep
    <3> QED BY <2>1, <2>2, <2>5, <3>2, <3>3, <3>4, <3>5, <3>6 DEF InStep, Starting, Announced, Accepted, Sending
  <2>6. CASE panel.phase = "receiving"
    <3>1. Sending
      BY <2>1, <2>6 DEF InStep, Starting, Announced, Waiting, Offering, Offered, Accepted, Closing, Ended, Between
    <3>2. Head(air).file = cur /\ panel.file = cur /\ DataOf(cur', air') /\ ~ Over
      BY <1>1, <2>4, <3>1 DEF Sending, Over
    <3>3. \/ /\ UNCHANGED inbox
             /\ \E g \in SUBSET Nat : panel' = [panel EXCEPT !.got = g, !.wants = FALSE]
          \/ /\ Says([cmd |-> "data", done |-> TRUE, idx |-> 0])
             /\ panel' = [Choosing EXCEPT !.have[panel.file.vendor] = panel.file.version, !.stored = @ \cup {panel.file}]
      <4>1. panel.got \cup {Head(air).idx} \in SUBSET Nat
        BY <1>2, <2>1, IInvParts, AirFirst
      <4>2. panel' = [panel EXCEPT !.wants = FALSE] => panel' = [panel EXCEPT !.got = panel.got, !.wants = FALSE]
        BY <1>2
      <4> QED BY <1>2, <1>10, <2>6, <3>2, <4>1, <4>2 DEF ReadsPacket
    <3>4. CASE UNCHANGED inbox /\ \E g \in SUBSET Nat : panel' = [panel EXCEPT !.got = g, !.wants = FALSE]
      <4>1. panel'.phase = "receiving" /\ panel'.file = panel.file /\ ~ panel'.wants
            /\ panel'.list = panel.list /\ panel'.refused = panel.refused
        BY <1>2, <2>6, <3>4
      <4>2. Sending'
        BY <1>1, <3>1, <3>2, <3>4, <4>1 DEF Sending, OnlyAgain
      <4>3. Wishes'
        BY <1>1, <2>6, <4>1 DEF Wishes
      <4> QED BY <1>1, <4>2, <4>3 DEF InStep
    <3>5. CASE /\ Says([cmd |-> "data", done |-> TRUE, idx |-> 0])
               /\ panel' = [Choosing EXCEPT !.have[panel.file.vendor] = panel.file.version, !.stored = @ \cup {panel.file}]
      <4> DEFINE n == Len(inbox) + 1
                 m == [cmd |-> "data", done |-> TRUE, idx |-> 0]
      <4>1. panel'.phase = "choosing" /\ panel'.list = panel.list /\ panel'.refused = panel.refused
        BY <1>2, <3>5 DEF Choosing
      <4>2. Len(inbox') = n /\ inbox'[n] = m /\ \A i \in 1 .. Len(inbox) : inbox'[i] = inbox[i]
        BY <1>5, <3>2, <3>5
      <4>3. IsDone(m)
        BY DEF IsDone
      <4> HIDE DEF m
      <4>4. n \in 1 .. Len(inbox') /\ \A i \in 1 .. n - 1 : IsAgain(inbox'[i])
        BY <1>2, <3>1, <4>2 DEF Sending, OnlyAgain
      <4>5. OnlyData(air')
        BY <3>2 DEF OnlyData, DataOf
      <4>6. Closing'
        <5>1. panel'.phase \in {"choosing", "content"} /\ Len(inbox') = n
          BY <4>1, <4>2
        <5>2. IsDone(inbox'[n])
          BY <4>2, <4>3
        <5> HIDE DEF n
        <5> QED BY <1>1, <3>1, <4>4, <4>5, <5>1, <5>2 DEF Sending, Closing, Between
      <4>7. Wishes'
        BY <1>1, <2>6, <4>1 DEF Wishes
      <4> QED BY <1>1, <4>6, <4>7 DEF InStep
    <3> QED BY <3>3, <3>4, <3>5
  <2> QED BY <1>10, <2>5, <2>6 DEF ReadsPacket
<1>11. CASE PanelAsks
  <2>1. panel.phase = "choosing" /\ UNCHANGED air
    BY <1>11 DEF PanelAsks
  <2>2. Waiting \/ Closing
    BY <2>1 DEF InStep, Starting, Announced, Offering, Offered, Accepted, Sending, Ended
  <2>3. ~ Over
    BY <2>2 DEF Waiting, Closing, Over
  <2>4. CASE Behind = {} /\ panel' = [panel EXCEPT !.phase = "content"] /\ UNCHANGED inbox
    <3>1. panel'.phase = "content" /\ panel'.list = panel.list /\ panel'.refused = panel.refused
          /\ panel'.have = panel.have
      BY <1>2, <2>4
    <3>2. Wishes'
      BY <1>1, <1>7, <2>1, <2>4, <3>1 DEF Wishes
    <3>4. (Waiting \/ Closing)'
      <4>1. CASE Waiting
        BY <1>1, <2>1, <2>4, <3>1, <4>1 DEF Waiting, OnlyData, Between
      <4>2. CASE Closing
        BY <1>1, <2>1, <2>4, <3>1, <4>2 DEF Closing, OnlyData, Between
      <4> QED BY <2>2, <4>1, <4>2
    <3> QED BY <1>1, <3>2, <3>4 DEF InStep
  <2>5. CASE \E v \in IF Behind # {} THEN Behind ELSE Vendors \ panel.refused :
                LET req == [vendor |-> v, version |-> panel.have[v] + 1]
                IN  Says([cmd |-> "request", req |-> req])
                    /\ panel' = [panel EXCEPT !.phase = "asking", !.asked = req]
    <3>1. PICK v \in IF Behind # {} THEN Behind ELSE Vendors \ panel.refused :
                    /\ Says([cmd |-> "request", req |-> [vendor |-> v, version |-> panel.have[v] + 1]])
                    /\ panel' = [panel EXCEPT !.phase = "asking", !.asked = [vendor |-> v, version |-> panel.have[v] + 1]]
      BY <2>5
    <3> DEFINE r == [vendor |-> v, version |-> panel.have[v] + 1]
               m == [cmd |-> "request", req |-> r]
    <3>2. r.vendor = v /\ m.cmd = "request" /\ m.req = r
      OBVIOUS
    <3>3. Says(m) /\ panel' = [panel EXCEPT !.phase = "asking", !.asked = r]
      BY <3>1
    <3> HIDE DEF r, m
    <3>4. panel'.phase = "asking" /\ panel'.asked = r /\ panel'.list = panel.list
          /\ panel'.refused = panel.refused /\ panel'.have = panel.have
      BY <1>2, <3>3
    <3>5. Wishes'
      <4>1. Behind' = Behind
        BY <1>7, <3>4
      <4>2. Behind = {} \/ v \in Behind
        OBVIOUS
      <4> QED BY <1>1, <2>1, <3>2, <3>4, <4>1, <4>2 DEF Wishes
    <3>6. Len(inbox') = Len(inbox) + 1 /\ inbox'[Len(inbox) + 1] = m
          /\ \A i \in 1 .. Len(inbox) : inbox'[i] = inbox[i]
      BY <1>5, <2>3, <3>3
    <3>7. ASSUME NEW n, Between(n)
          PROVE  Len(inbox) = n /\ Asks(inbox'[n + 1]) /\ inbox'[n + 1].req = panel'.asked /\ Len(inbox') = n + 1
      <4>1. Len(inbox) = n
        BY <2>1, <3>7 DEF Between
      <4> QED BY <3>2, <3>4, <3>6, <4>1 DEF Asks
    <3>8. CASE Waiting
      <4>1. Waiting'
        BY <1>1, <2>1, <3>4, <3>7, <3>8 DEF Waiting, OnlyData, Between
      <4> QED BY <1>1, <3>5, <4>1 DEF InStep
    <3>9. CASE Closing
      <4>1. PICK n \in 1 .. Len(inbox) : (\A i \in 1 .. n - 1 : IsAgain(inbox[i])) /\ IsDone(inbox[n]) /\ Between(n)
        BY <3>9 DEF Closing
      <4>2. n \in 1 .. Len(inbox') /\ (\A i \in 1 .. n - 1 : IsAgain(inbox'[i])) /\ IsDone(inbox'[n])
        <5>1. \A i \in 1 .. n - 1 : i \in 1 .. Len(inbox)
          BY <1>2
        <5>2. \A i \in 1 .. n - 1 : IsAgain(inbox'[i])
          BY <3>6, <4>1, <5>1
        <5>3. n \in 1 .. Len(inbox')
          BY <1>2, <3>6
        <5> QED BY <3>6, <4>1, <5>2, <5>3
      <4>3. Len(inbox') = n + 1 /\ Asks(inbox'[n + 1]) /\ inbox'[n + 1].req = panel'.asked
        BY <3>7, <4>1
      <4>4. Closing'
        BY <1>1, <2>1, <3>4, <3>9, <4>2, <4>3 DEF Closing, OnlyData, Between
      <4> QED BY <1>1, <3>5, <4>4 DEF InStep
    <3> QED BY <2>2, <3>8, <3>9
  <2> QED BY <1>11, <2>4, <2>5 DEF PanelAsks
<1>12. CASE PanelAsksAgain
  <2> DEFINE m == [cmd |-> "data", done |-> FALSE, idx |-> Min(Lacks)]
  <2>1. panel.phase = "receiving" /\ UNCHANGED air /\ Says(m) /\ panel' = [panel EXCEPT !.wants = TRUE]
    BY <1>12 DEF PanelAsksAgain, AsksAgain
  <2>2. IsAgain(m)
    BY DEF IsAgain
  <2> HIDE DEF m
  <2>3. Accepted \/ Sending
    BY <2>1 DEF InStep, Starting, Announced, Waiting, Offering, Offered, Closing, Ended, Between
  <2>4. ~ Over
    BY <2>3 DEF Accepted, Sending, Over
  <2>5. panel'.phase = "receiving" /\ panel'.file = panel.file /\ panel'.list = panel.list /\ panel'.refused = panel.refused
    BY <1>2, <2>1
  <2>6. Wishes'
    BY <1>1, <2>1, <2>5 DEF Wishes
  <2>7. /\ Len(inbox') = Len(inbox) + 1 /\ inbox'[Len(inbox) + 1] = m /\ inbox' # <<>>
        /\ \A i \in 1 .. Len(inbox) : inbox'[i] = inbox[i]
    BY <1>5, <2>1, <2>4
  <2>8. \A i \in 1 .. Len(inbox') : i \in 1 .. Len(inbox) \/ i = Len(inbox) + 1
    BY <1>2, <2>7
  <2>9. CASE Accepted
    <3>1. 1 \in 1 .. Len(inbox)
      BY <1>2, <2>9 DEF Accepted
    <3>2. \A i \in 2 .. Len(inbox') : i = Len(inbox) + 1 \/ (i \in 1 .. Len(inbox) /\ i \in 2 .. Len(inbox))
      BY <1>2, <2>7
    <3>3. \A i \in 2 .. Len(inbox') : IsAgain(inbox'[i])
      BY <2>2, <2>7, <2>9, <3>2 DEF Accepted
    <3>4. Accepted'
      BY <1>1, <2>1, <2>5, <2>7, <2>9, <3>1, <3>3 DEF Accepted
    <3> QED BY <1>1, <2>6, <3>4 DEF InStep
  <2>10. CASE Sending
    <3>1. \A i \in 1 .. Len(inbox') : IsAgain(inbox'[i])
      BY <2>2, <2>7, <2>8, <2>10 DEF Sending, OnlyAgain
    <3>2. Sending'
      BY <1>1, <2>1, <2>5, <2>7, <2>10, <3>1 DEF Sending, OnlyAgain, DataOf
    <3> QED BY <1>1, <2>6, <3>2 DEF InStep
  <2> QED BY <2>3, <2>9, <2>10
<1> QED BY <1>3, <1>8, <1>9, <1>10, <1>11, <1>12 DEF Panel, PanelReads, PanelRepeats

LEMMA EmptySeq == ASSUME NEW S, NEW q \in Seq(S), Len(q) = 0 PROVE q = <<>>
  OBVIOUS

LEMMA CInvInit == Init => CInv
<1> SUFFICES ASSUME Init PROVE CInv
  OBVIOUS
<1>1. IInv
  BY InitIInv
<1>2. HaveBelow
  <2>1. \A v \in Vendors : Newest(v) \in Nat /\ panel.have[v] = 0
    BY <1>1, IInvParts, NewestFacts DEF Init, Fresh, HostType
  <2> QED BY <2>1 DEF HaveBelow
<1>3. mishaps = 0 => inbox = <<>>
  <2>1. inbox \in Seq(Frame) /\ mishaps = Len(inbox)
    BY <1>1, IInvParts DEF Init, InboxType
  <2> QED BY <2>1, EmptySeq
<1>4. mishaps = 0 => pending = NoRequest /\ Wishes /\ Starting
  BY <1>3 DEF Init, Fresh, Wishes, Starting
<1> QED BY <1>2, <1>4 DEF CInv, InStep

LEMMA CInvNext == IInv /\ CInv /\ [Next]_vars => CInv'
<1> SUFFICES ASSUME IInv, CInv, [Next]_vars PROVE CInv'
  OBVIOUS
<1>1. CASE Next
  <2>1. HaveBelow'
    BY <1>1, HaveBelowStep DEF CInv
  <2>2. ASSUME mishaps' = 0 PROVE pending' = NoRequest /\ Wishes' /\ InStep'
    <3>1. mishaps = 0
      <4>1. mishaps' = mishaps \/ mishaps' = mishaps + 1
        BY <1>1 DEF Next, Session, Listen, SendList, Skip, Serve, WaitEnds, Offer, Answered, NotAnswered, Stream,
           FileDone, FileQuiet, AskedAgain, Resend, Write, WriteFails, Silence, Mishap,
           Panel, PanelReads, ReadsList, ReadsOffer, ReadsPacket, PanelAsks, PanelAsksAgain, PanelRepeats
      <4>2. mishaps \in Nat
        BY IInvParts, Constants DEF CountType
      <4> QED BY <2>2, <4>1, <4>2
    <3>2. CASE Session
      <4>1. pending' = NoRequest /\ InStep'
        BY <2>2, <3>1, <3>2, CleanHost DEF CInv
      <4>2. UNCHANGED <<panel, bodies>>
        BY <3>2, HostStill
      <4>3. Wishes'
        BY <3>1, <4>2 DEF CInv, Wishes, Behind, Newests, Newest
      <4> QED BY <4>1, <4>3
    <3>3. CASE Panel
      BY <2>2, <3>1, <3>3, CleanPanel DEF CInv
    <3> QED BY <1>1, <3>2, <3>3 DEF Next
  <2> QED BY <2>1, <2>2 DEF CInv
<1>2. CASE UNCHANGED vars
  BY <1>2 DEF vars, CInv, HaveBelow, Newest, Wishes, Behind, Newests, InStep, Starting, Announced, Waiting, Offering,
     Offered, Accepted, Sending, Closing, Ended, OnlyData, DataOf, OnlyAgain, Between, Picks
<1> QED BY <1>1, <1>2

(* A session in which only packets were lost on their way ends with the     *)
(* newest file of every announced vendor in the panel, for any vendors, any *)
(* manifest and any losses (hot_update.py:173-201, 284-330).                *)
THEOREM CleanRunComplete == Spec => []CleanRunCompletes
<1>1. CInv => CleanRunCompletes
  BY DEF CInv, CleanRunCompletes, InStep, Starting, Announced, Waiting, Offering, Offered, Accepted, Sending, Closing, Ended
<1> QED BY Invariant, CInvInit, CInvNext, <1>1, PTL DEF Spec
=====
