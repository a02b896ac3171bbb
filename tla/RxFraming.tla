------------------------------ MODULE RxFraming ------------------------------
(***************************************************************************)
(* Reading the two wire framings out of a byte stream                      *)
(* (divoom_lib/framing.py and the receive side of                          *)
(* divoom_lib/bt_spp_rfcomm.py, whose Basic half ble_notify.py of the      *)
(* legacy library and divoomd/src/framing.rs share).                       *)
(*                                                                         *)
(* A panel sends frames; a radio adds noise between them and hands the     *)
(* bytes over in pieces of any size. _on_data puts a piece behind what it  *)
(* has kept, takes the iOS-LE frames that stand in front, and gives what   *)
(* does not begin with that framing's header to the Basic parser. One      *)
(* step here is one turn of one of the two loops.                          *)
(*                                                                         *)
(* Bytes are numbers below Base (256 in the code): two of them, low byte   *)
(* first, are a length. What the panel sends is one of Scripts.            *)
(*                                                                         *)
(* What every specification has (RxInit, RxNext, ...) is named apart from  *)
(* SppBridge's, whose bridge process holds this reader: one module speaks  *)
(* of both.                                                                *)
(***************************************************************************)
EXTENDS Integers, Sequences, SequencesExt

CONSTANTS
    Scripts,    \* what a panel may send: sequences of pieces [bytes, says]
    Base,       \* values of a byte: 256
    MaxFrame    \* MAX_BASIC_FRAME and _MAX_IOS_LE_FRAME: 8192

Byte == 0 .. Base - 1
START == 1
END == 2
HEADER == <<254, 239, 170, 85>>     \* IOS_LE_HEADER
IosMin == 11                        \* IOS_LE_MIN_DATA_LENGTH
BasicMin == 7
Silence == <<>>                     \* says nothing: noise

Message == [cmd : Byte, payload : Seq(Byte)]
Piece == [bytes : Seq(Byte), says : Message \cup {Silence}]

ASSUME RxFramingAssumption ==
    /\ Base \in Nat /\ Base > 255
    /\ MaxFrame \in Nat /\ MaxFrame >= IosMin
    /\ Scripts \subseteq Seq(Piece)

VARIABLES
    script,     \* what the panel sends
    sent,       \* bytes of it handed over so far
    buf,        \* _rx_buf
    queue,      \* messages put in the receive queue
    loop        \* the loop _on_data is in: "idle" outside it

rxVars == <<script, sent, buf, queue, loop>>

Stream(s) == FlattenSeq([i \in 1 .. Len(s) |-> s[i].bytes])

RxInit ==
    /\ script \in Scripts
    /\ sent = 0
    /\ buf = <<>>
    /\ queue = <<>>
    /\ loop = "idle"

-----------------------------------------------------------------------------
(* The layouts. Both lengths count from behind the bytes that carry them.   *)

Word(lo, hi) == lo + Base * hi
Sum(b, from, to) == FoldLeft(+, 0, SubSeq(b, from, to)) % (Base * Base)
\* A slip in it: the bytes are taken off the other end.
DropLast(b, n) == SubSeq(b, 1, Len(b) - n)
Drop(b, n) == SubSeq(b, n + 1, Len(b))

BasicLength(b) == 4 + Word(b[2], b[3])
IosLength(b) == Word(b[5], b[6]) + 7
\* A slip in it: a length that noise made up is believed.
AnyLength(n) == FALSE
TooLong(n) == n > MaxFrame

\* _parse_basic_message: m is the whole candidate.
BasicValid(m) ==
    /\ Len(m) >= BasicMin
    /\ m[Len(m)] = END
    /\ Word(m[Len(m) - 2], m[Len(m) - 1]) = Sum(m, 2, Len(m) - 3)
IsAck(m) == m[4] = 4 /\ m[6] = 85
BasicMessage(m) ==
    IF IsAck(m) THEN [cmd |-> m[5], payload |-> SubSeq(m, 7, Len(m) - 3)]
                ELSE [cmd |-> m[4], payload |-> SubSeq(m, 5, Len(m) - 3)]

\* parse_ios_le_notification: the checksum is handed on, not compared.
HasHeader(b) == Len(b) >= 4 /\ SubSeq(b, 1, 4) = HEADER
IosValid(m) == Len(m) >= IosMin /\ HasHeader(m) /\ m[Len(m)] = END
IosMessage(m) == [cmd |-> m[8], payload |-> SubSeq(m, 9, Len(m) - 3)]

-----------------------------------------------------------------------------
(* The next bytes arrive: however many the radio hands over at once.        *)

Receive ==
    /\ loop = "idle"
    /\ \E n \in 1 .. Len(Stream(script)) - sent :
          /\ buf' = buf \o SubSeq(Stream(script), sent + 1, sent + n)
          /\ sent' = sent + n
    /\ loop' = "ios"
    /\ UNCHANGED <<script, queue>>

Turn == UNCHANGED <<script, sent, loop>>
Leave(where) == loop' = where /\ UNCHANGED <<script, sent, queue>>

(* The iOS-LE loop: as long as the header and a shortest frame's worth of   *)
(* bytes stand in front.                                                    *)
IosGoesOn == loop = "ios" /\ Len(buf) >= IosMin /\ HasHeader(buf)
IosWhole == ~ TooLong(IosLength(buf)) /\ Len(buf) >= IosLength(buf)
IosCandidate == SubSeq(buf, 1, IosLength(buf))

IosTake ==
    /\ IosGoesOn /\ IosWhole /\ IosValid(IosCandidate)
    /\ queue' = Append(queue, IosMessage(IosCandidate))
    /\ buf' = Drop(buf, IosLength(buf))
    /\ Turn

IosResync ==
    /\ IosGoesOn
    /\ TooLong(IosLength(buf)) \/ (IosWhole /\ ~ IosValid(IosCandidate))
    /\ buf' = Drop(buf, 1)
    /\ UNCHANGED queue /\ Turn

\* What is left is the Basic parser's, unless it is an iOS-LE frame begun.
IosLeave ==
    /\ loop = "ios"
    /\ IosGoesOn => ~ TooLong(IosLength(buf)) /\ Len(buf) < IosLength(buf)
    /\ Leave(IF buf # <<>> /\ ~ HasHeader(buf) THEN "basic" ELSE "idle")
    /\ UNCHANGED buf

(* The Basic loop.                                                          *)
BasicGoesOn == loop = "basic" /\ Len(buf) >= BasicMin
Starts == {i \in 1 .. Len(buf) : buf[i] = START}
\* The buffer from its first start byte on; every later line works on that.
FromStart == Drop(buf, (CHOOSE i \in Starts : \A j \in Starts : i <= j) - 1)
InStep == BasicGoesOn /\ Starts # {} /\ Len(FromStart) >= 4
BasicWhole == ~ TooLong(BasicLength(FromStart)) /\ Len(FromStart) >= BasicLength(FromStart)
Candidate == SubSeq(FromStart, 1, BasicLength(FromStart))

\* Fewer bytes than any frame has: they are kept for the next piece.
BasicShort == loop = "basic" /\ Len(buf) < BasicMin /\ Leave("idle") /\ UNCHANGED buf
BasicNoStart == BasicGoesOn /\ Starts = {} /\ buf' = <<>> /\ Leave("idle")

\* Not yet a length to read, or not yet all the bytes the length asks for.
BasicWait ==
    /\ BasicGoesOn /\ Starts # {}
    /\ Len(FromStart) >= 4 =>
          ~ TooLong(BasicLength(FromStart)) /\ Len(FromStart) < BasicLength(FromStart)
    /\ buf' = FromStart
    /\ Leave("idle")

\* A slip in it: the whole span of a candidate that fails is let go.
LetSpanGo(b) == Drop(b, IF TooLong(BasicLength(b)) THEN 1 ELSE BasicLength(b))
StepOver(b) == Drop(b, 1)

BasicResync ==
    /\ InStep
    /\ TooLong(BasicLength(FromStart)) \/ (BasicWhole /\ ~ BasicValid(Candidate))
    /\ buf' = StepOver(FromStart)
    /\ UNCHANGED queue /\ Turn

BasicTake ==
    /\ InStep /\ BasicWhole /\ BasicValid(Candidate)
    /\ queue' = Append(queue, BasicMessage(Candidate))
    /\ buf' = Drop(FromStart, BasicLength(FromStart))
    /\ Turn

OnData == IosTake \/ IosResync \/ IosLeave
       \/ BasicShort \/ BasicNoStart \/ BasicWait \/ BasicResync \/ BasicTake
\* Nothing is left to send, and no loop is running: the only rest there is.
AllSent == loop = "idle" /\ sent = Len(Stream(script)) /\ UNCHANGED rxVars

RxNext == Receive \/ OnData \/ AllSent
RxSpec == RxInit /\ [][RxNext]_rxVars

-----------------------------------------------------------------------------
(* Every variable has its type, and the buffer is the end of what has been  *)
(* handed over: nothing is reordered or made up (bt_spp_rfcomm.py:158).     *)
RxTypeOK ==
    /\ script \in Scripts
    /\ sent \in 0 .. Len(Stream(script)) /\ Len(buf) <= sent
    /\ buf = SubSeq(Stream(script), sent - Len(buf) + 1, sent)
    /\ \A i \in 1 .. Len(queue) : queue[i].cmd \in Byte
    /\ loop \in {"idle", "ios", "basic"}

End(s, i) == Len(Stream(SubSeq(s, 1, i)))
\* The frames that lie wholly in the first n bytes.
Arrived(s, n) == {i \in 1 .. Len(s) : s[i].says # Silence /\ End(s, i) <= n}
\* The queue holds what these frames say, each once and in their order.
Reads(frames) ==
    \E at \in [1 .. Len(queue) -> frames] :
        /\ \A i, j \in 1 .. Len(queue) : i < j => at[i] < at[j]
        /\ \A f \in frames : \E i \in 1 .. Len(queue) : at[i] = f
        /\ \A i \in 1 .. Len(queue) : queue[i] = script[at[i]].says

(* Between two pieces of the stream exactly the frames that lie wholly      *)
(* before the bytes still kept have been read, each once and in order:      *)
(* however the stream was cut and whatever noise stood between the frames,  *)
(* a made-up length swallows no frame behind it (framing.py:128-141).       *)
SentIsRead == loop = "idle" => Reads(Arrived(script, sent - Len(buf)))

(* What is kept between two pieces is always shorter than the bound: a      *)
(* corrupt length never makes the reader wait for more than one frame of    *)
(* the largest size (framing.py:118-126, bt_spp_rfcomm.py:166-173).         *)
WaitBounded == loop = "idle" => Len(buf) < MaxFrame
=============================================================================
