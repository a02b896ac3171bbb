---------------------------- MODULE SppBridgeProofs ----------------------------
(***************************************************************************)
(* What holds of SppBridge for any number of bridges, frames and commands  *)
(* and any room in its pipes: the panel's channel has one holder, the      *)
(* frames on their way to the daemon stay in order, whichever of them a    *)
(* late wait lets go, and a bridge stops reading commands behind the       *)
(* goodbye or behind the last of them, whatever is written after it.       *)
(*                                                                         *)
(* And of RxFraming, the reader those frames come out of in the bridge's   *)
(* process: however a stream is cut, it makes no frame up and never waits  *)
(* for more than the largest one, and in a stream of one framing it reads  *)
(* each frame once and in order.                                           *)
(***************************************************************************)
EXTENDS SppBridge, RxFraming, FunctionTheorems, FiniteSetTheorems, SequenceTheorems, TLAPS

-----------------------------------------------------------------------------
(* What the pipe and the queues do to frames in order.                      *)
ToldOf(lines) == [i \in Notified(lines) |-> lines[i].n]

LEMMA ToldType ==
    ASSUME NEW s \in Seq(Line)
    PROVE  \A i \in Notified(s) : i \in 1 .. Len(s) /\ s[i].n \in Nat
  BY DEF Notified, Line

(* A line that is no frame leaves the order alone.                          *)
LEMMA OtherKeepsOrder ==
    ASSUME NEW s \in Seq(Line), NEW x \in Line, x.type # "notification",
           NEW w, NEW t, NEW h, NEW g, InOrder(s, w, t, h, g)
    PROVE  InOrder(Append(s, x), w, t, h, g)
<1> DEFINE more == Append(s, x)
<1>1. /\ Len(more) = Len(s) + 1 /\ Len(s) \in Nat /\ more[Len(s) + 1] = x
      /\ \A i \in 1 .. Len(s) : more[i] = s[i]
  OBVIOUS
<1>2. Notified(more) = Notified(s) /\ Notified(s) \subseteq 1 .. Len(s)
  BY <1>1 DEF Notified
<1>3. ToldOf(more) = ToldOf(s)
  BY <1>1, <1>2 DEF ToldOf
<1> QED
  BY <1>3 DEF InOrder, ToldOf

(* The line in front taken off, the others move up by one place; the frame  *)
(* it may hold is the last the reader has had.                              *)
LEMMA ReadKeepsOrder ==
    ASSUME NEW s \in Seq(Line), s # <<>>, NEW w \in Seq(Nat), NEW t \in Nat, NEW h \in Nat,
           NEW g, InOrder(s, w, t, h, g)
    PROVE  InOrder(Tail(s), w, IF Head(s).type = "notification" THEN Head(s).n ELSE t, h, g)
<1> DEFINE rest == Tail(s)
           told == ToldOf(s)
           left == ToldOf(rest)
           u    == IF Head(s).type = "notification" THEN Head(s).n ELSE t
<1>1. /\ Len(rest) = Len(s) - 1 /\ Len(s) \in Nat \ {0} /\ Head(s) = s[1]
      /\ \A i \in 1 .. Len(s) - 1 : rest[i] = s[i + 1]
  OBVIOUS
<1>2. /\ Rising(told, DOMAIN told) /\ Rising(w, DOMAIN w)
      /\ \A i \in DOMAIN told, j \in DOMAIN w : told[i] < w[j]
      /\ t <= h /\ Range(told) \cup Range(w) = (t + 1 .. h) \ g
  BY DEF InOrder, ToldOf
<1>3. \A i \in DOMAIN told : i \in 1 .. Len(s) /\ told[i] = s[i].n /\ told[i] \in Nat
  BY ToldType DEF ToldOf
<1>4. \A i \in DOMAIN left : i \in Nat /\ i + 1 \in DOMAIN told /\ left[i] = told[i + 1]
  BY <1>1 DEF ToldOf, Notified
<1>5. \A i \in DOMAIN told : i # 1 => i - 1 \in DOMAIN left /\ left[i - 1] = told[i]
  BY <1>1, <1>3 DEF ToldOf, Notified
<1>6. 1 \in DOMAIN told <=> Head(s).type = "notification"
  BY <1>1 DEF ToldOf, Notified
<1>7. u \in Nat /\ (1 \in DOMAIN told => u = told[1]) /\ (1 \notin DOMAIN told => u = t)
  BY <1>1, <1>3, <1>6
<1> HIDE DEF told, left, u, rest
<1>8. Rising(left, DOMAIN left) /\ \A i \in DOMAIN left, j \in DOMAIN w : left[i] < w[j]
  <2>1. ASSUME NEW i \in DOMAIN left, NEW j \in DOMAIN left, i < j PROVE left[i] < left[j]
    <3>1. i + 1 < j + 1
      BY <1>4, <2>1
    <3> QED
      BY <1>2, <1>4, <3>1 DEF Rising
  <2> QED
    BY <1>2, <1>4, <2>1 DEF Rising
<1>9. \A x : x \in Range(told) \cup Range(w) <=> x \in Range(left) \cup Range(w) \/ (1 \in DOMAIN told /\ x = u)
  BY <1>4, <1>5, <1>7 DEF Range
<1>10. \A x \in Range(left) \cup Range(w) : 1 \in DOMAIN told => u < x
  <2>1. ASSUME NEW i \in DOMAIN left, 1 \in DOMAIN told PROVE u < left[i]
    <3>1. 1 < i + 1
      BY <1>3, <1>4
    <3> QED
      BY <1>2, <1>4, <1>7, <2>1, <3>1 DEF Rising
  <2> QED
    BY <1>2, <1>7, <2>1 DEF Range
<1>11. 1 \in DOMAIN told => u \in t + 1 .. h
  BY <1>2, <1>7, <1>9
<1>12. u <= h /\ Range(left) \cup Range(w) = (u + 1 .. h) \ g
  <2>1. CASE 1 \notin DOMAIN told
    BY <1>2, <1>7, <1>9, <2>1
  <2>2. CASE 1 \in DOMAIN told
    <3>1. u <= h /\ t < u
      BY <1>11, <1>7, <2>2
    <3>2. ASSUME NEW x \in Range(left) \cup Range(w) PROVE x \in (u + 1 .. h) \ g
      <4>1. x \in (t + 1 .. h) \ g /\ u < x
        BY <1>2, <1>9, <1>10, <2>2
      <4> QED
        BY <1>7, <4>1
    <3>3. ASSUME NEW x \in (u + 1 .. h) \ g PROVE x \in Range(left) \cup Range(w)
      <4>1. x \in (t + 1 .. h) \ g /\ x # u
        BY <1>7, <3>1
      <4> QED
        BY <1>2, <1>9, <4>1
    <3> QED
      BY <3>1, <3>2, <3>3
  <2> QED
    BY <2>1, <2>2
<1> QED
  BY <1>2, <1>8, <1>12 DEF InOrder, ToldOf, left, rest, u

(* The first frame that waits goes behind the lines.                        *)
LEMMA PrintKeepsOrder ==
    ASSUME NEW s \in Seq(Line), NEW w \in Seq(Nat), w # <<>>, NEW t, NEW h, NEW g,
           InOrder(s, w, t, h, g)
    PROVE  InOrder(Append(s, [type |-> "notification", n |-> Head(w)]), Tail(w), t, h, g)
<1> DEFINE x == [type |-> "notification", n |-> Head(w)]
           more == Append(s, x)
           rest == Tail(w)
           told == ToldOf(s)
           said == ToldOf(more)
           last == Len(s) + 1
<1>1. /\ Len(more) = Len(s) + 1 /\ Len(s) \in Nat /\ more[Len(s) + 1] = x /\ x.n = w[1]
      /\ x.type = "notification" /\ \A i \in 1 .. Len(s) : more[i] = s[i]
  OBVIOUS
<1>2. /\ Len(rest) = Len(w) - 1 /\ Len(w) \in Nat \ {0} /\ \A i \in 1 .. Len(w) - 1 : rest[i] = w[i + 1]
      /\ DOMAIN rest = 1 .. Len(w) - 1 /\ DOMAIN w = 1 .. Len(w)
  OBVIOUS
<1>3. /\ Rising(told, DOMAIN told) /\ Rising(w, DOMAIN w)
      /\ \A i \in DOMAIN told, j \in DOMAIN w : told[i] < w[j]
      /\ t <= h /\ Range(told) \cup Range(w) = (t + 1 .. h) \ g
  BY DEF InOrder, ToldOf
<1>4. \A i \in DOMAIN told : i \in Nat /\ i < last
  BY <1>1 DEF ToldOf, Notified
<1>5. DOMAIN said = DOMAIN told \cup {last} /\ said[last] = w[1] /\ \A i \in DOMAIN told : said[i] = told[i]
  <2>1. Notified(more) = Notified(s) \cup {last} /\ Notified(s) \subseteq 1 .. Len(s)
    BY <1>1 DEF Notified
  <2> QED
    BY <1>1, <2>1 DEF ToldOf
<1> HIDE DEF told, said, rest, more, last
<1>6. 1 \in DOMAIN w /\ \A j \in DOMAIN rest : j + 1 \in DOMAIN w /\ 1 < j + 1 /\ rest[j] = w[j + 1] /\ w[1] < rest[j]
  <2>1. ASSUME NEW j \in DOMAIN rest PROVE j + 1 \in DOMAIN w /\ 1 < j + 1 /\ rest[j] = w[j + 1]
    BY <1>2
  <2>2. 1 \in DOMAIN w
    BY <1>2
  <2> QED
    BY <1>3, <2>1, <2>2 DEF Rising
<1>7. Rising(said, DOMAIN said)
  <2> SUFFICES ASSUME NEW i \in DOMAIN said, NEW j \in DOMAIN said, i < j PROVE said[i] < said[j]
    BY DEF Rising
  <2>1. i # last
    <3> SUFFICES ASSUME i = last PROVE FALSE
      OBVIOUS
    <3>1. last \in Nat
      BY <1>1 DEF last
    <3>2. j = last \/ (j \in Nat /\ j < last)
      BY <1>4, <1>5
    <3> QED
      BY <3>1, <3>2
  <2>2. i \in DOMAIN told
    BY <1>5, <2>1
  <2> QED
    BY <1>3, <1>5, <1>6, <2>2 DEF Rising
<1>8. Rising(rest, DOMAIN rest)
  <2> SUFFICES ASSUME NEW i \in DOMAIN rest, NEW j \in DOMAIN rest, i < j PROVE rest[i] < rest[j]
    BY DEF Rising
  <2>1. i + 1 < j + 1
    BY <1>2
  <2> QED
    BY <1>3, <1>6, <2>1 DEF Rising
<1>9. \A i \in DOMAIN said, j \in DOMAIN rest : said[i] < rest[j]
  BY <1>3, <1>5, <1>6
<1>10. Range(said) \cup Range(rest) = Range(told) \cup Range(w)
  <2>1. \A j \in DOMAIN w : j = 1 \/ \E i \in DOMAIN rest : w[j] = rest[i]
    <3>1. ASSUME NEW j \in DOMAIN w, j # 1 PROVE j - 1 \in DOMAIN rest /\ w[j] = rest[j - 1]
      BY <1>2, <3>1
    <3> QED
      BY <3>1
  <2> QED
    BY <1>5, <1>6, <2>1 DEF Range
<1> QED
  BY <1>3, <1>7, <1>8, <1>9, <1>10 DEF InOrder, ToldOf, said, rest, more, x

(* A frame the panel sends waits behind all others.                         *)
LEMMA HearKeepsOrder ==
    ASSUME NEW s \in Seq(Line), NEW w \in Seq(Nat), NEW t \in Nat, NEW h \in Nat,
           NEW g \in SUBSET (1 .. h), InOrder(s, w, t, h, g)
    PROVE  InOrder(s, Append(w, h + 1), t, h + 1, g)
<1> DEFINE told == ToldOf(s)
           more == Append(w, h + 1)
<1>1. /\ DOMAIN more = 1 .. Len(w) + 1 /\ DOMAIN w = 1 .. Len(w) /\ Len(w) \in Nat
      /\ more[Len(w) + 1] = h + 1 /\ \A i \in 1 .. Len(w) : more[i] = w[i]
  OBVIOUS
<1>2. /\ Rising(told, DOMAIN told) /\ Rising(w, DOMAIN w)
      /\ \A i \in DOMAIN told, j \in DOMAIN w : told[i] < w[j]
      /\ t <= h /\ Range(told) \cup Range(w) = (t + 1 .. h) \ g
  BY DEF InOrder, ToldOf
<1> HIDE DEF told, more
<1>3. \A x \in Range(told) \cup Range(w) : x \in Nat /\ x < h + 1
  BY <1>2
<1>4. (\A i \in DOMAIN told : told[i] < h + 1) /\ (\A j \in DOMAIN w : w[j] < h + 1)
  BY <1>3 DEF Range
<1>5. Rising(more, DOMAIN more)
  <2> SUFFICES ASSUME NEW i \in DOMAIN more, NEW j \in DOMAIN more, i < j PROVE more[i] < more[j]
    BY DEF Rising
  <2>1. i \in DOMAIN w
    BY <1>1
  <2>2. j \in DOMAIN w \/ j = Len(w) + 1
    BY <1>1
  <2> QED
    BY <1>1, <1>2, <1>4, <2>1, <2>2 DEF Rising
<1>6. \A i \in DOMAIN told, j \in DOMAIN more : told[i] < more[j]
  <2>1. \A j \in DOMAIN more : j \in DOMAIN w \/ j = Len(w) + 1
    BY <1>1
  <2> QED
    BY <1>1, <1>2, <1>4, <2>1
<1>7. Range(more) = Range(w) \cup {h + 1}
  <2>1. DOMAIN more = DOMAIN w \cup {Len(w) + 1}
    BY <1>1
  <2> QED
    BY <1>1, <2>1 DEF Range
<1>8. (t + 1 .. h + 1) \ g = ((t + 1 .. h) \ g) \cup {h + 1}
  BY <1>2
<1>9. t <= h + 1
  BY <1>2
<1> QED
  BY <1>2, <1>5, <1>6, <1>7, <1>8, <1>9 DEF InOrder, ToldOf, told, more

(* A frame that waits behind others may be let go: the rest stay in order.  *)
LEMMA LetGoKeepsOrder ==
    ASSUME NEW s \in Seq(Line), NEW a \in Seq(Nat), NEW x \in Nat, NEW b \in Seq(Nat),
           NEW t, NEW h, NEW g, InOrder(s, Append(a, x) \o b, t, h, g)
    PROVE  InOrder(s, a \o b, t, h, g \cup {x})
<1> DEFINE told == ToldOf(s)
           f    == Append(a, x)
           w    == f \o b
           v    == a \o b
           n    == Len(a)
           m    == Len(b)
           up(j) == IF j <= n THEN j ELSE j + 1
<1>1. /\ f \in Seq(Nat) /\ Len(f) = n + 1 /\ f[n + 1] = x
      /\ \A j \in 1 .. n : f[j] = a[j]
  OBVIOUS
<1>2. n \in Nat /\ m \in Nat
  OBVIOUS
<1>3. /\ v \in Seq(Nat) /\ DOMAIN v = 1 .. n + m
      /\ \A j \in 1 .. n + m : v[j] = IF j <= n THEN a[j] ELSE b[j - n]
  BY ConcatProperties
<1> HIDE DEF f
<1>4. /\ w \in Seq(Nat) /\ DOMAIN w = 1 .. n + 1 + m
      /\ \A j \in 1 .. n + 1 + m : w[j] = IF j <= n + 1 THEN f[j] ELSE b[j - (n + 1)]
  <2>1. /\ w \in Seq(Nat) /\ Len(w) = Len(f) + m
        /\ \A j \in 1 .. Len(f) + m : w[j] = IF j <= Len(f) THEN f[j] ELSE b[j - Len(f)]
    BY <1>1, ConcatProperties
  <2>2. DOMAIN w = 1 .. Len(w)
    BY <2>1
  <2> HIDE DEF w, n, m
  <2> QED
    BY <1>1, <2>1, <2>2
<1>5. /\ Rising(told, DOMAIN told) /\ Rising(w, DOMAIN w)
      /\ \A i \in DOMAIN told, j \in DOMAIN w : told[i] < w[j]
      /\ t <= h /\ Range(told) \cup Range(w) = (t + 1 .. h) \ g
  BY DEF InOrder, ToldOf, f
<1> HIDE DEF told, w, v, n, m
<1>6. n + 1 \in DOMAIN w /\ w[n + 1] = x
  <2>1. n + 1 \in 1 .. n + 1 + m /\ n + 1 <= n + 1
    BY <1>2
  <2> QED
    BY <1>1, <1>4, <2>1
<1>7. \A j \in DOMAIN v : up(j) \in DOMAIN w /\ up(j) # n + 1 /\ v[j] = w[up(j)]
  <2> SUFFICES ASSUME NEW j \in DOMAIN v PROVE up(j) \in DOMAIN w /\ up(j) # n + 1 /\ v[j] = w[up(j)]
    OBVIOUS
  <2>1. j \in 1 .. n + m
    BY <1>3
  <2>2. CASE j <= n
    <3>1. j \in 1 .. n /\ j \in 1 .. n + 1 + m /\ j <= n + 1 /\ j # n + 1 /\ up(j) = j
      BY <1>2, <2>1, <2>2
    <3> QED
      BY <1>1, <1>3, <1>4, <2>1, <2>2, <3>1
  <2>3. CASE ~ (j <= n)
    <3>1. j + 1 \in 1 .. n + 1 + m /\ ~ (j + 1 <= n + 1) /\ (j + 1) - (n + 1) = j - n
          /\ j + 1 # n + 1 /\ up(j) = j + 1
      BY <1>2, <2>1, <2>3
    <3> QED
      BY <1>3, <1>4, <2>1, <2>3, <3>1
  <2> QED
    BY <2>2, <2>3
<1>8. \A i, j \in DOMAIN v : i < j => up(i) < up(j)
  BY <1>2, <1>3
<1>9. \A j \in DOMAIN w : j # n + 1 => \E i \in DOMAIN v : j = up(i)
  <2> SUFFICES ASSUME NEW j \in DOMAIN w, j # n + 1 PROVE \E i \in DOMAIN v : j = up(i)
    OBVIOUS
  <2>1. CASE j <= n
    BY <1>2, <1>3, <1>4, <2>1
  <2>2. CASE ~ (j <= n)
    <3>1. j \in 1 .. n + 1 + m
      BY <1>4
    <3>2. j - 1 \in 1 .. n + m /\ ~ (j - 1 <= n) /\ (j - 1) + 1 = j
      BY <1>2, <2>2, <3>1
    <3> QED
      BY <1>3, <3>2
  <2> QED
    BY <2>1, <2>2
<1>10. \A j \in DOMAIN w : w[j] \in Nat /\ j \in Nat
  BY <1>2, <1>4
<1>11. \A j \in DOMAIN v : v[j] # x
  <2>1. ASSUME NEW j \in DOMAIN w, j # n + 1 PROVE w[j] # x
    <3>1. j < n + 1 \/ n + 1 < j
      BY <1>2, <1>10, <2>1
    <3> QED
      BY <1>5, <1>6, <1>10, <3>1 DEF Rising
  <2> QED
    BY <1>7, <2>1
<1> HIDE DEF up
<1>12. Rising(v, DOMAIN v) /\ \A i \in DOMAIN told, j \in DOMAIN v : told[i] < v[j]
  BY <1>5, <1>7, <1>8 DEF Rising
<1>13. \A i \in DOMAIN told : told[i] # x
  BY <1>5, <1>6
<1>14. Range(told) \cup Range(v) = (Range(told) \cup Range(w)) \ {x}
  <2>1. \A y : y \in Range(v) <=> y \in Range(w) /\ y # x
    BY <1>6, <1>7, <1>9, <1>11 DEF Range
  <2>2. x \notin Range(told)
    BY <1>13 DEF Range
  <2> QED
    BY <2>1, <2>2
<1> QED
  BY <1>5, <1>12, <1>14 DEF InOrder, ToldOf, told, v

-----------------------------------------------------------------------------
(* Two queues in a row.                                                     *)

(* Whatever moves from the one behind to the end of the one in front keeps  *)
(* its place.                                                               *)
LEMMA MovesAlong ==
    ASSUME NEW s \in Seq(Nat), NEW r \in Seq(Nat), r # <<>>
    PROVE  Append(s, Head(r)) \o Tail(r) = s \o r
<1> DEFINE front == Append(s, Head(r))
           back  == Tail(r)
<1>1. /\ front \in Seq(Nat) /\ Len(front) = Len(s) + 1 /\ front[Len(s) + 1] = r[1]
      /\ \A i \in 1 .. Len(s) : front[i] = s[i]
  OBVIOUS
<1>2. /\ back \in Seq(Nat) /\ Len(back) = Len(r) - 1 /\ Len(r) \in Nat \ {0} /\ Len(s) \in Nat
      /\ \A i \in 1 .. Len(r) - 1 : back[i] = r[i + 1]
  OBVIOUS
<1> HIDE DEF front, back
<1>3. /\ front \o back \in Seq(Nat) /\ s \o r \in Seq(Nat)
      /\ Len(front \o back) = Len(s) + Len(r) /\ Len(s \o r) = Len(s) + Len(r)
  <2>1. front \o back \in Seq(Nat) /\ Len(front \o back) = Len(front) + Len(back)
    BY <1>1, <1>2, ConcatProperties
  <2>2. s \o r \in Seq(Nat) /\ Len(s \o r) = Len(s) + Len(r)
    BY ConcatProperties
  <2>3. Len(front) + Len(back) = Len(s) + Len(r)
    BY <1>1, <1>2
  <2> QED
    BY <2>1, <2>2, <2>3
<1>4. ASSUME NEW i \in 1 .. Len(s) + Len(r) PROVE (front \o back)[i] = (s \o r)[i]
  <2>1. (s \o r)[i] = IF i <= Len(s) THEN s[i] ELSE r[i - Len(s)]
    BY ConcatProperties
  <2>2. (front \o back)[i] = IF i <= Len(s) + 1 THEN front[i] ELSE back[i - (Len(s) + 1)]
    <3>1. i \in 1 .. Len(front) + Len(back)
      BY <1>1, <1>2
    <3>2. (front \o back)[i] = IF i <= Len(front) THEN front[i] ELSE back[i - Len(front)]
      BY <3>1, <1>1, <1>2, ConcatProperties
    <3> QED
      BY <3>2, <1>1
  <2>3. CASE i <= Len(s)
    BY <1>1, <1>2, <2>1, <2>2, <2>3
  <2>4. CASE i = Len(s) + 1
    BY <1>1, <1>2, <2>1, <2>2, <2>4
  <2>5. CASE i > Len(s) + 1
    <3>1. i - (Len(s) + 1) \in 1 .. Len(r) - 1 /\ (i - (Len(s) + 1)) + 1 = i - Len(s)
      BY <1>2, <2>5
    <3>2. (s \o r)[i] = r[i - Len(s)] /\ (front \o back)[i] = back[i - (Len(s) + 1)]
      BY <1>2, <2>1, <2>2, <2>5
    <3> QED
      BY <1>2, <3>1, <3>2
  <2>6. i <= Len(s) \/ i = Len(s) + 1 \/ i > Len(s) + 1
    BY <1>2
  <2> QED
    BY <2>3, <2>4, <2>5, <2>6
<1>5. front \o back = s \o r
  BY <1>3, <1>4, SeqEqual
<1> QED
  BY <1>5 DEF front, back

LEMMA FirstOfTwo ==
    ASSUME NEW s \in Seq(Nat), NEW r \in Seq(Nat), s # <<>>
    PROVE  s \o r # <<>> /\ Head(s \o r) = Head(s) /\ Tail(s \o r) = Tail(s) \o r
<1>1. /\ Tail(s) \in Seq(Nat) /\ Len(Tail(s)) = Len(s) - 1 /\ Len(s) \in Nat \ {0} /\ Len(r) \in Nat
      /\ \A i \in 1 .. Len(s) - 1 : Tail(s)[i] = s[i + 1]
  OBVIOUS
<1>2. s \o r \in Seq(Nat) /\ Len(s \o r) = Len(s) + Len(r)
      /\ \A i \in 1 .. Len(s) + Len(r) : (s \o r)[i] = IF i <= Len(s) THEN s[i] ELSE r[i - Len(s)]
  BY ConcatProperties
<1>3. s \o r # <<>> /\ Head(s \o r) = Head(s)
  BY <1>1, <1>2
<1>4. /\ Tail(s \o r) \in Seq(Nat) /\ Len(Tail(s \o r)) = Len(s) + Len(r) - 1
      /\ \A i \in 1 .. Len(s) + Len(r) - 1 : Tail(s \o r)[i] = (s \o r)[i + 1]
  BY <1>1, <1>2, <1>3
<1>5. /\ Tail(s) \o r \in Seq(Nat) /\ Len(Tail(s) \o r) = Len(s) + Len(r) - 1
      /\ \A i \in 1 .. Len(s) + Len(r) - 1 :
            (Tail(s) \o r)[i] = IF i <= Len(s) - 1 THEN Tail(s)[i] ELSE r[i - (Len(s) - 1)]
  BY <1>1, ConcatProperties
<1>6. ASSUME NEW i \in 1 .. Len(s) + Len(r) - 1 PROVE Tail(s \o r)[i] = (Tail(s) \o r)[i]
  <2>1. Tail(s \o r)[i] = (s \o r)[i + 1] /\ i + 1 \in 1 .. Len(s) + Len(r)
    BY <1>1, <1>4
  <2>2. CASE i <= Len(s) - 1
    BY <1>1, <1>2, <1>5, <2>1, <2>2
  <2>3. CASE i > Len(s) - 1
    <3>1. (i + 1) - Len(s) = i - (Len(s) - 1) /\ ~ (i + 1 <= Len(s)) /\ ~ (i <= Len(s) - 1)
      BY <1>1, <2>3
    <3> QED
      BY <1>2, <1>5, <2>1, <3>1
  <2> QED
    BY <1>1, <2>2, <2>3
<1> QED
  BY <1>3, <1>4, <1>5, <1>6, SeqEqual

LEMMA LastOfTwo ==
    ASSUME NEW s \in Seq(Nat), NEW r \in Seq(Nat), NEW x \in Nat
    PROVE  s \o Append(r, x) = Append(s \o r, x)
<1>1. /\ Append(r, x) \in Seq(Nat) /\ Len(Append(r, x)) = Len(r) + 1 /\ Len(r) \in Nat /\ Len(s) \in Nat
      /\ Append(r, x)[Len(r) + 1] = x /\ \A i \in 1 .. Len(r) : Append(r, x)[i] = r[i]
  OBVIOUS
<1>2. s \o r \in Seq(Nat) /\ Len(s \o r) = Len(s) + Len(r)
      /\ \A i \in 1 .. Len(s) + Len(r) : (s \o r)[i] = IF i <= Len(s) THEN s[i] ELSE r[i - Len(s)]
  BY ConcatProperties
<1>3. /\ s \o Append(r, x) \in Seq(Nat) /\ Len(s \o Append(r, x)) = Len(s) + Len(r) + 1
      /\ \A i \in 1 .. Len(s) + Len(r) + 1 :
            (s \o Append(r, x))[i] = IF i <= Len(s) THEN s[i] ELSE Append(r, x)[i - Len(s)]
  <2>1. Len(s) + Len(Append(r, x)) = Len(s) + Len(r) + 1
    BY <1>1
  <2>2. Append(r, x) \in Seq(Nat)
    BY <1>1
  <2>3. /\ s \o Append(r, x) \in Seq(Nat) /\ Len(s \o Append(r, x)) = Len(s) + Len(Append(r, x))
        /\ \A i \in 1 .. Len(s) + Len(Append(r, x)) :
              (s \o Append(r, x))[i] = IF i <= Len(s) THEN s[i] ELSE Append(r, x)[i - Len(s)]
    BY <2>2, ConcatProperties, Zenon
  <2> QED
    BY <2>1, <2>3
<1>4. /\ Append(s \o r, x) \in Seq(Nat) /\ Len(Append(s \o r, x)) = Len(s) + Len(r) + 1
      /\ Append(s \o r, x)[Len(s) + Len(r) + 1] = x
      /\ \A i \in 1 .. Len(s) + Len(r) : Append(s \o r, x)[i] = (s \o r)[i]
  BY <1>1, <1>2
<1>5. ASSUME NEW i \in 1 .. Len(s) + Len(r) + 1
      PROVE  (s \o Append(r, x))[i] = Append(s \o r, x)[i]
  <2>1. CASE i <= Len(s)
    BY <1>1, <1>2, <1>3, <1>4, <2>1
  <2>2. CASE i = Len(s) + Len(r) + 1
    <3>1. i - Len(s) = Len(r) + 1 /\ ~ (i <= Len(s))
      BY <1>1, <2>2
    <3> QED
      BY <1>1, <1>3, <1>4, <2>2, <3>1
  <2>3. CASE i > Len(s) /\ i <= Len(s) + Len(r)
    <3>1. i - Len(s) \in 1 .. Len(r) /\ ~ (i <= Len(s)) /\ i \in 1 .. Len(s) + Len(r)
      BY <1>1, <2>3
    <3> QED
      BY <1>1, <1>2, <1>3, <1>4, <3>1
  <2> QED
    BY <1>1, <2>1, <2>2, <2>3
<1> QED
  BY <1>3, <1>4, <1>5, SeqEqual

(* The pipe to a bridge that has read k of w commands: the others are in    *)
(* it, in order, and those written ahead of the goodbye lie ahead of it.    *)
Ahead(s) == {i \in DOMAIN s : s[i] \notin {Disconnect, Spoilt}}
Pipe(s, k, w, b) ==
    /\ k \in 0 .. w
    /\ Rising(s, Ahead(s)) /\ {s[i] : i \in Ahead(s)} = k + 1 .. w
    /\ b = None => \A g \in DOMAIN s : s[g] # Disconnect
    /\ b # None => /\ k <= b /\ b <= w
                   /\ \E g \in DOMAIN s : s[g] = Disconnect
                   /\ \A g \in DOMAIN s, i \in Ahead(s) : s[g] = Disconnect => (i < g <=> s[i] <= b)

Text == Nat \cup {Spoilt}

(* A command goes to the end.                                               *)
LEMMA PipeWrites ==
    ASSUME NEW s \in Seq(Text), NEW k \in Nat, NEW w \in Nat, NEW b \in Nat \cup {None}, Pipe(s, k, w, b)
    PROVE  Pipe(Append(s, w + 1), k, w + 1, b)
<1> DEFINE n == Len(s)
           more == Append(s, w + 1)
<1>1. /\ DOMAIN more = 1 .. n + 1 /\ DOMAIN s = 1 .. n /\ n \in Nat /\ more[n + 1] = w + 1
      /\ \A i \in 1 .. n : more[i] = s[i]
  OBVIOUS
<1>2. w + 1 \notin {Disconnect, Spoilt} /\ Spoilt \notin Nat /\ None \notin Nat
  BY SppBridgeAssumption DEF Disconnect
<1> HIDE DEF n, more
<1>3. Ahead(more) = Ahead(s) \cup {n + 1}
  BY <1>1, <1>2 DEF Ahead
<1>4. \A i \in Ahead(s) : i \in 1 .. n /\ more[i] = s[i] /\ s[i] \in k + 1 .. w
  BY <1>1 DEF Ahead, Pipe
<1>5. Rising(more, Ahead(more))
  <2> SUFFICES ASSUME NEW i \in Ahead(more), NEW j \in Ahead(more), i < j PROVE more[i] < more[j]
    BY DEF Rising
  <2>1. i \in Ahead(s)
    BY <1>1, <1>3, <1>4
  <2> QED
    BY <1>1, <1>3, <1>4, <2>1 DEF Rising, Pipe
<1>6. {more[i] : i \in Ahead(more)} = k + 1 .. w + 1
  <2>1. {more[i] : i \in Ahead(more)} = {s[i] : i \in Ahead(s)} \cup {w + 1}
    BY <1>1, <1>3, <1>4
  <2>2. k \in 0 .. w /\ {s[i] : i \in Ahead(s)} = k + 1 .. w
    BY DEF Pipe
  <2> QED
    BY <2>1, <2>2
<1>7. k \in 0 .. w + 1
  BY DEF Pipe
<1>8. \A g \in DOMAIN more : more[g] = Disconnect => g \in DOMAIN s /\ s[g] = Disconnect
  BY <1>1, <1>2
<1>9. ASSUME b # None
      PROVE  /\ k <= b /\ b <= w + 1 /\ \E g \in DOMAIN more : more[g] = Disconnect
             /\ \A g \in DOMAIN more, i \in Ahead(more) : more[g] = Disconnect => (i < g <=> more[i] <= b)
  <2>1. /\ k <= b /\ b <= w /\ b \in Nat /\ \E g \in DOMAIN s : s[g] = Disconnect
        /\ \A g \in DOMAIN s, i \in Ahead(s) : s[g] = Disconnect => (i < g <=> s[i] <= b)
    BY <1>9 DEF Pipe
  <2>2. b <= w + 1 /\ \E g \in DOMAIN more : more[g] = Disconnect
    BY <1>1, <2>1
  <2>3. ASSUME NEW g \in DOMAIN more, NEW i \in Ahead(more), more[g] = Disconnect
        PROVE  i < g <=> more[i] <= b
    <3>1. CASE i \in Ahead(s)
      BY <1>4, <1>8, <2>1, <2>3, <3>1
    <3>2. CASE i = n + 1
      <4>1. g \in 1 .. n
        BY <1>1, <1>8, <2>3
      <4> QED
        BY <1>1, <2>1, <3>2, <4>1
    <3> QED
      BY <1>3, <3>1, <3>2
  <2> QED
    BY <2>1, <2>2, <2>3
<1>10. b = None => \A g \in DOMAIN more : more[g] # Disconnect
  BY <1>8 DEF Pipe
<1> QED
  BY <1>5, <1>6, <1>7, <1>9, <1>10 DEF Pipe, more

(* The goodbye goes to the end, once.                                       *)
LEMMA PipeBye ==
    ASSUME NEW s \in Seq(Text), NEW k \in Nat, NEW w \in Nat, Pipe(s, k, w, None)
    PROVE  Pipe(Append(s, Disconnect), k, w, w)
<1> DEFINE n == Len(s)
           more == Append(s, Disconnect)
<1>1. /\ DOMAIN more = 1 .. n + 1 /\ DOMAIN s = 1 .. n /\ n \in Nat /\ more[n + 1] = Disconnect
      /\ \A i \in 1 .. n : more[i] = s[i]
  BY DEF Disconnect, Text
<1> HIDE DEF n, more
<1>2. Ahead(more) = Ahead(s)
  BY <1>1 DEF Ahead
<1>3. \A i \in Ahead(s) : i \in 1 .. n /\ more[i] = s[i] /\ s[i] \in k + 1 .. w
  BY <1>1 DEF Ahead, Pipe
<1>4. Rising(more, Ahead(more)) /\ {more[i] : i \in Ahead(more)} = {s[i] : i \in Ahead(s)}
  BY <1>2, <1>3 DEF Rising, Pipe
<1>5. \A g \in DOMAIN more : more[g] = Disconnect => g = n + 1
  BY <1>1 DEF Pipe
<1>6. \A i \in Ahead(more) : i < n + 1 /\ more[i] <= w
  BY <1>1, <1>2, <1>3
<1>7. w # None
  BY SppBridgeAssumption
<1>8. n + 1 \in DOMAIN more /\ k <= w /\ k \in 0 .. w /\ w <= w
  BY <1>1 DEF Pipe
<1> QED
  BY <1>1, <1>4, <1>5, <1>6, <1>7, <1>8 DEF Pipe, more

(* A spoilt goodbye is none.                                                *)
LEMMA PipeSpoilt ==
    ASSUME NEW s \in Seq(Text), NEW k \in Nat, NEW w \in Nat, NEW b \in Nat \cup {None}, Pipe(s, k, w, b)
    PROVE  Pipe(Append(s, Spoilt), k, w, b)
<1> DEFINE n == Len(s)
           more == Append(s, Spoilt)
<1>1. /\ DOMAIN more = 1 .. n + 1 /\ DOMAIN s = 1 .. n /\ n \in Nat /\ more[n + 1] = Spoilt
      /\ \A i \in 1 .. n : more[i] = s[i]
  BY DEF Text
<1>2. Spoilt # Disconnect
  BY SppBridgeAssumption DEF Disconnect
<1> HIDE DEF n, more
<1>3. Ahead(more) = Ahead(s) /\ \A i \in Ahead(s) : more[i] = s[i]
  BY <1>1 DEF Ahead
<1>4. Rising(more, Ahead(more)) /\ {more[i] : i \in Ahead(more)} = {s[i] : i \in Ahead(s)}
  BY <1>3 DEF Rising, Pipe
<1>5. \A g : g \in DOMAIN more /\ more[g] = Disconnect <=> g \in DOMAIN s /\ s[g] = Disconnect
  BY <1>1, <1>2
<1> QED
  BY <1>3, <1>4, <1>5 DEF Pipe, more

(* The line in front is read: the next command, a spoilt goodbye, or the    *)
(* goodbye, with all commands it was written behind read before.            *)
LEMMA PipeReads ==
    ASSUME NEW s \in Seq(Text), s # <<>>, NEW k \in Nat, NEW w \in Nat, NEW b \in Nat \cup {None},
           Pipe(s, k, w, b)
    PROVE  /\ Head(s) = Disconnect => b # None /\ k = b
           /\ Head(s) = Spoilt => Pipe(Tail(s), k, w, b)
           /\ Head(s) \notin {Disconnect, Spoilt} => Head(s) = k + 1 /\ Pipe(Tail(s), k + 1, w, b)
<1> DEFINE n == Len(s)
           rest == Tail(s)
           x == Head(s)
<1>1. /\ n \in Nat \ {0} /\ DOMAIN s = 1 .. n /\ DOMAIN rest = 1 .. n - 1 /\ x = s[1]
      /\ \A i \in 1 .. n - 1 : rest[i] = s[i + 1]
  OBVIOUS
<1>2. Spoilt # Disconnect /\ None \notin Nat /\ Spoilt \notin Nat
  BY SppBridgeAssumption DEF Disconnect
<1>3. /\ k \in 0 .. w /\ Rising(s, Ahead(s)) /\ {s[i] : i \in Ahead(s)} = k + 1 .. w
      /\ b = None => \A g \in DOMAIN s : s[g] # Disconnect
      /\ b # None => /\ k <= b /\ b <= w /\ b \in Nat
                     /\ \E g \in DOMAIN s : s[g] = Disconnect
                     /\ \A g \in DOMAIN s, i \in Ahead(s) : s[g] = Disconnect => (i < g <=> s[i] <= b)
  BY DEF Pipe
<1> HIDE DEF n, rest, x
<1>4. \A i \in Ahead(s) : i \in 1 .. n /\ s[i] \in k + 1 .. w
  <2>1. Ahead(s) \subseteq 1 .. n
    BY <1>1 DEF Ahead
  <2> QED
    BY <1>3, <2>1
<1>5. \A i \in Ahead(rest) : i \in 1 .. n - 1 /\ i + 1 \in Ahead(s) /\ rest[i] = s[i + 1]
  BY <1>1 DEF Ahead
<1>6. \A i \in Ahead(s) : i # 1 => i - 1 \in Ahead(rest) /\ rest[i - 1] = s[i]
  BY <1>1 DEF Ahead
<1>7. \A g \in DOMAIN rest : g \in Nat /\ g + 1 \in DOMAIN s /\ rest[g] = s[g + 1]
  BY <1>1
<1>8. Rising(rest, Ahead(rest))
  <2> SUFFICES ASSUME NEW i \in Ahead(rest), NEW j \in Ahead(rest), i < j PROVE rest[i] < rest[j]
    BY DEF Rising
  <2>1. i + 1 < j + 1
    BY <1>5
  <2> QED
    BY <1>3, <1>5, <2>1 DEF Rising
<1>9. b = None => \A g \in DOMAIN rest : rest[g] # Disconnect
  BY <1>3, <1>7
<1>10. ASSUME b # None
       PROVE  \A g \in DOMAIN rest, i \in Ahead(rest) : rest[g] = Disconnect => (i < g <=> rest[i] <= b)
  <2> SUFFICES ASSUME NEW g \in DOMAIN rest, NEW i \in Ahead(rest), rest[g] = Disconnect
               PROVE  i < g <=> rest[i] <= b
    OBVIOUS
  <2>1. i + 1 < g + 1 <=> s[i + 1] <= b
    BY <1>3, <1>5, <1>7, <1>10
  <2>2. i + 1 < g + 1 <=> i < g
    BY <1>5, <1>7
  <2> QED
    BY <1>5, <2>1, <2>2
<1>11. ASSUME x # Disconnect, b # None PROVE \E g \in DOMAIN rest : rest[g] = Disconnect
  <2>1. PICK g \in DOMAIN s : s[g] = Disconnect
    BY <1>3, <1>11
  <2>2. g - 1 \in DOMAIN rest /\ rest[g - 1] = s[g]
    BY <1>1, <1>11, <2>1
  <2> QED
    BY <2>1, <2>2
<1>12. ASSUME x = Disconnect PROVE b # None /\ k = b
  <2>1. 1 \in DOMAIN s /\ s[1] = Disconnect
    BY <1>1, <1>12
  <2>2. b # None
    BY <1>3, <2>1
  <2>3. \A i \in Ahead(s) : ~ (s[i] <= b)
    BY <1>3, <1>4, <2>1, <2>2
  <2>4. \A y \in k + 1 .. w : ~ (y <= b)
    BY <1>3, <2>3
  <2>5. k <= b /\ b <= w /\ b \in Nat
    BY <1>3, <2>2
  <2>6. ~ (b \in k + 1 .. w)
    BY <2>4, <2>5
  <2> QED
    BY <2>2, <2>5, <2>6
<1>13. ASSUME x = Spoilt PROVE Pipe(rest, k, w, b)
  <2>1. 1 \notin Ahead(s)
    BY <1>1, <1>13 DEF Ahead
  <2>2. {rest[i] : i \in Ahead(rest)} = {s[i] : i \in Ahead(s)}
    BY <1>5, <1>6, <2>1
  <2>3. x # Disconnect
    BY <1>2, <1>13
  <2> QED
    BY <1>3, <1>8, <1>9, <1>10, <1>11, <2>2, <2>3 DEF Pipe
<1>14. ASSUME x \notin {Disconnect, Spoilt} PROVE x = k + 1 /\ Pipe(rest, k + 1, w, b)
  <2>0. 1 \in Ahead(s)
    BY <1>1, <1>14 DEF Ahead
  <2>1. 1 \in Ahead(s) /\ x \in k + 1 .. w
    BY <1>1, <1>4, <2>0
  <2>2. \A i \in Ahead(s) : i # 1 => x < s[i]
    <3>1. \A i \in Ahead(s) : i # 1 => 1 < i
      BY <1>1, <1>4
    <3>2. \A i, j \in Ahead(s) : i < j => s[i] < s[j]
      BY <1>3 DEF Rising
    <3> QED
      BY <1>1, <2>1, <3>1, <3>2
  <2>3. {s[i] : i \in Ahead(s)} = {rest[i] : i \in Ahead(rest)} \cup {x}
    <3>1. \A i \in Ahead(s) : s[i] = x \/ \E j \in Ahead(rest) : s[i] = rest[j]
      <4>1. \A i \in Ahead(s) : i # 1 => \E j \in Ahead(rest) : s[i] = rest[j]
        BY <1>6
      <4> QED
        BY <1>1, <4>1
    <3>2. \A j \in Ahead(rest) : \E i \in Ahead(s) : rest[j] = s[i]
      BY <1>5
    <3>3. \E i \in Ahead(s) : x = s[i]
      BY <1>1, <2>1
    <3> QED
      BY <3>1, <3>2, <3>3
  <2>4. \A i \in Ahead(rest) : x < rest[i]
    <3> SUFFICES ASSUME NEW i \in Ahead(rest) PROVE x < rest[i]
      OBVIOUS
    <3>1. i + 1 # 1
      BY <1>5
    <3> QED
      BY <1>5, <2>2, <3>1
  <2>5. x = k + 1
    <3>1. k + 1 \in k + 1 .. w
      BY <2>1
    <3>2. k + 1 = x \/ \E i \in Ahead(rest) : k + 1 = rest[i]
      BY <1>3, <2>3, <3>1
    <3> QED
      BY <2>1, <2>4, <3>2
  <2>6. {rest[i] : i \in Ahead(rest)} = k + 1 + 1 .. w
    <3>1. \A i \in Ahead(rest) : x < rest[i] /\ rest[i] \in k + 1 .. w
      <4>1. \A i \in Ahead(rest) : s[i + 1] \in k + 1 .. w
        BY <1>4, <1>5
      <4> QED
        BY <1>5, <2>4, <4>1
    <3>2. \A y \in k + 1 + 1 .. w : y \in {rest[i] : i \in Ahead(rest)}
      <4>1. \A y \in k + 1 + 1 .. w : y \in k + 1 .. w /\ y # x
        BY <2>5
      <4>2. \A y \in k + 1 .. w : y = x \/ y \in {rest[i] : i \in Ahead(rest)}
        BY <1>3, <2>3
      <4> QED
        BY <4>1, <4>2
    <3> QED
      BY <1>3, <2>5, <3>1, <3>2
  <2>7. b # None => k + 1 <= b
    <3> SUFFICES ASSUME b # None PROVE k + 1 <= b
      OBVIOUS
    <3>1. PICK g \in DOMAIN s : s[g] = Disconnect
      BY <1>3
    <3>2. 1 < g
      BY <1>1, <1>14, <3>1
    <3> QED
      BY <1>1, <1>3, <2>1, <2>5, <3>1, <3>2
  <2>8. k + 1 \in 0 .. w
    BY <2>1, <1>3
  <2> QED
    BY <1>3, <1>8, <1>9, <1>10, <1>11, <1>14, <2>5, <2>6, <2>7, <2>8 DEF Pipe
<1> QED
  BY <1>12, <1>13, <1>14 DEF rest, x

LEMMA PipeEmpty ==
    ASSUME NEW k \in Nat, NEW w \in Nat, NEW b, Pipe(<<>>, k, w, b)
    PROVE  b = None /\ k = w
<1>1. Ahead(<<>>) = {} /\ DOMAIN <<>> = {}
  BY DEF Ahead
<1>2. {} = k + 1 .. w /\ k \in 0 .. w
  BY <1>1 DEF Pipe
<1>3. ~ (w \in k + 1 .. w)
  BY <1>2
<1> QED
  BY <1>1, <1>2, <1>3 DEF Pipe

-----------------------------------------------------------------------------
(* The inductive invariant. TypeOK, in parts: the daemon, the pipes, the    *)
(* tasks of a bridge and their queues, the panel, and what is counted.      *)
Nats == Seq(Nat)

DaemonType ==
    /\ alive \in BOOLEAN /\ {opening, link} \subseteq Procs \cup {None} /\ leaving \subseteq Procs
    /\ call \in [Procs -> {"none", "busy", "drained", "waiting"}]
RxType     == rx \in [Procs -> Nats] /\ \A p \in Procs : Len(rx[p]) <= RxCap
StdinType  == stdin \in [Procs -> Seq(Text)] /\ \A p \in Procs : Len(stdin[p]) <= InCap
TornType   == torn \in [Procs -> BOOLEAN]
StdoutType == stdout \in [Procs -> Seq(Line)] /\ \A p \in Procs : Len(stdout[p]) <= OutCap
TaskType ==
    /\ main \in [Procs -> {"unused", "connecting", "running", "closing", "exited"}]
    /\ notifier \in [Procs -> {"waiting", "ended"}]
    /\ mover \in [Procs -> {"starting", "getting", "late", "ended"}]
    /\ printing \in [Procs -> Line \cup {None}]
ReaderType ==
    /\ reader \in [Procs -> {"reading", "writing", "done"}]
    /\ current \in [Procs -> Nat \cup {None}]
    /\ \A p \in Procs : reader[p] = "writing" <=> current[p] # None
QueueType ==
    /\ rxQueue \in [Procs -> Nats] /\ notes \in [Procs -> Nats]
    /\ hand \in [Procs -> Nat \cup {None}]
PanelType ==
    /\ radio \in [Procs -> {"none", "rfcomm", "serial", "closed", "deadSerial"}]
    /\ \A p, q \in Procs :
          radio[p] \in {"rfcomm", "serial"} /\ radio[q] \in {"rfcomm", "serial"} => p = q
CountType ==
    /\ heard \in [Procs -> Nat] /\ taken \in [Procs -> Nat] /\ writes \in [Procs -> Nat]
    /\ bye \in [Procs -> Nat \cup {None}]
    /\ done \in [Procs -> SUBSET Nat] /\ lost \in [Procs -> SUBSET Nat]

(* What _rx_loop gets, has and has let go are frames that were heard, and   *)
(* it has none in hand before it asks and after its end.                    *)
HeardOnly ==
    \A p \in Procs :
        /\ hand[p] \in (1 .. heard[p]) \cup {None} /\ lost[p] \subseteq 1 .. heard[p]
        /\ \A i \in DOMAIN rxQueue[p] : rxQueue[p][i] \in 1 .. heard[p]
        /\ mover[p] \in {"starting", "ended"} => hand[p] = None

(* A bridge that is not running yet has done nothing.                       *)
Unborn ==
    \A p \in Procs :
        /\ main[p] = "unused" => opening # p
        /\ main[p] \in {"unused", "connecting"} =>
              /\ stdin[p] = <<>> /\ stdout[p] = <<>> /\ notes[p] = <<>> /\ rxQueue[p] = <<>>
              /\ hand[p] = None /\ lost[p] = {} /\ printing[p] = None
              /\ heard[p] = 0 /\ taken[p] = 0
              /\ reader[p] # "done" /\ bye[p] = None /\ ~ Held(p)

(* A bridge is opened, linked and told goodbye in this order and once; one  *)
(* that has read the end of its pipe is held by nobody.                     *)
Linked ==
    \A p \in Procs :
        /\ opening = p => link # p /\ p \notin leaving
        /\ p \in leaving => link # p
        /\ bye[p] # None => opening # p /\ link # p /\ p \notin leaving
        /\ reader[p] = "done" /\ bye[p] = None => opening # p /\ ~ Held(p)

(* Each command goes from the pipe to the hand and is done.                 *)
Commands ==
    \A p \in Procs :
        /\ reader[p] = "reading" =>
              \E k \in Nat : done[p] = 1 .. k /\ Pipe(stdin[p], k, writes[p], bye[p])
        /\ reader[p] = "writing" =>
              \E k \in Nat : /\ current[p] = k + 1 /\ done[p] = 1 .. k
                             /\ Pipe(stdin[p], k + 1, writes[p], bye[p])
        /\ reader[p] = "done" =>
              /\ bye[p] \in (0 .. writes[p]) \cup {None}
              /\ done[p] = 1 .. IF bye[p] = None THEN writes[p] ELSE bye[p]

IInv ==
    /\ DaemonType /\ RxType /\ StdinType /\ TornType /\ StdoutType /\ TaskType /\ ReaderType
    /\ QueueType /\ PanelType /\ CountType
    /\ HeardOnly /\ Unborn /\ Linked /\ Commands /\ FramesInOrder

LEMMA Constants ==
    /\ None \notin Procs /\ None \notin Nat /\ None \notin Line /\ Spoilt \notin Nat
    /\ RxCap \in Nat /\ OutCap \in Nat /\ InCap \in Nat /\ RxCap > 0 /\ OutCap > 0 /\ InCap > 0
  BY SppBridgeAssumption

(* What an action may do to the type of a torn pipe and of a channel.       *)
LEMMA TearsType == ASSUME NEW W, Tears(W) PROVE TornType'
<1>1. PICK P \in SUBSET {p \in W : ~ Room(p)} : torn' = [p \in Procs |-> torn[p] \/ p \in P]
  BY DEF Tears
<1>2. \A p \in Procs : (torn[p] \/ p \in P) \in BOOLEAN
  OBVIOUS
<1> QED
  BY <1>1, <1>2 DEF TornType

LEMMA LetsGoType == ASSUME NEW p \in Procs, RxType, LetsGo(p) PROVE RxType'
<1>1. rx' = rx \/ rx' = [rx EXCEPT ![p] = <<>>]
  BY DEF LetsGo
<1>2. <<>> \in Nats /\ Len(<<>>) <= RxCap
  BY Constants DEF Nats
<1> QED
  BY <1>1, <1>2 DEF RxType

(* The daemon waits for one bridge, or has one, or none. *)
LEMMA DaemonStep == DaemonType /\ [Next]_vars => DaemonType'
<1> SUFFICES ASSUME DaemonType, [Next]_vars
             PROVE  DaemonType'
  OBVIOUS
<1> USE Constants DEF Nats
<1>1. ASSUME NEW p \in Procs, Spawn(p) PROVE DaemonType'
  BY <1>1 DEF Spawn, DaemonType, fleet, calls, pipe, written, daemon, loops, queues, panel, bridge
<1>2. ASSUME NEW p \in Procs, Connected(p) PROVE DaemonType'
  BY <1>2 DEF Connected, FirstLine, Spoken, DaemonType, fleet, calls, pipe, written, daemon,
     loops, queues, panel, bridge
<1>3. ASSUME NEW p \in Procs, NotConnected(p) PROVE DaemonType'
  BY <1>3 DEF NotConnected, FirstLine, Gone, DaemonType, fleet, calls, pipe, written, daemon,
     loops, queues, panel, bridge
<1>4. ASSUME NEW p \in Procs, Call(p) PROVE DaemonType'
  BY <1>4 DEF Call, DaemonType, fleet, calls, pipe, written, daemon, loops, queues, panel, bridge
<1>5. ASSUME NEW p \in Procs, Drain(p) PROVE DaemonType'
  BY <1>5 DEF Drain, DaemonType, fleet, calls, pipe, written, daemon, loops, queues, panel, bridge
<1>6. ASSUME NEW p \in Procs, Ask(p) PROVE DaemonType'
  BY <1>6 DEF Ask, WriteLine, Room, DaemonType, fleet, calls, pipe, written, daemon, loops,
     queues, panel, bridge
<1>7. ASSUME NEW p \in Procs, Waits(p) PROVE DaemonType'
  BY <1>7 DEF Waits, DaemonType, fleet, calls, pipe, written, daemon, loops, queues, panel, bridge
<1>8. ASSUME NEW p \in Procs, CallEnds(p) PROVE DaemonType'
  BY <1>8 DEF CallEnds, DaemonType, fleet, calls, pipe, written, daemon, loops, queues, panel,
     bridge
<1>9. ASSUME NEW p \in Procs, TakesOut(p) PROVE DaemonType'
  BY <1>9 DEF TakesOut, DaemonType, fleet, calls, pipe, written, daemon, loops, queues, panel,
     bridge
<1>10. ASSUME NEW p \in Procs, HangUp(p) PROVE DaemonType'
  BY <1>10 DEF HangUp, Leaves, Room, DaemonType, fleet, calls, pipe, written, daemon, loops,
     queues, panel, bridge
<1>11. ASSUME NEW p \in Procs, HangUpCut(p) PROVE DaemonType'
  BY <1>11 DEF HangUpCut, Leaves, Room, DaemonType, fleet, calls, pipe, written, daemon, loops,
     queues, panel, bridge
<1>12. ASSUME NEW p \in Procs, Detach(p) PROVE DaemonType'
  BY <1>12 DEF Detach, DaemonType, fleet, calls, pipe, written, daemon, loops, queues, panel,
     bridge
<1>13. ASSUME NEW p \in Procs, DaemonReads(p) \/ Send(p) \/ Opens(p) \/ OpenFails(p) \/
             ReadLine(p) \/ ReadEnd(p) \/ WriteEnds(p) \/ Prints(p) \/ PrintBreaks(p) \/
             GatherEnds(p) \/ Closes(p) \/ MoverStarts(p) \/ ThreadTakes(p) \/
             ThreadFindsNone(p) \/ MoverPuts(p) \/ WaitRunsOut(p) \/ MoverLate(p) \/ Notify(p)
             \/ Hears(p) \/ Drops(p)
      PROVE  DaemonType'
  <2>1. UNCHANGED <<alive, opening, link, leaving, call>>
    BY <1>13 DEF DaemonReads, Send, Opens, OpenFails, ReadLine, ReadEnd, WriteEnds, Prints,
       PrintBreaks, GatherEnds, Closes, MoverStarts, ThreadTakes, ThreadFindsNone, MoverPuts,
       WaitRunsOut, MoverLate, Notify, Hears, Drops, Moved, fleet, calls, pipe, written, daemon,
       loops, queues, panel, bridge
  <2> QED
    BY <2>1 DEF DaemonType
<1>14. CASE DaemonDies
  BY <1>14 DEF DaemonDies, DaemonType, fleet, calls, pipe, written, daemon, loops, queues, panel,
     bridge
<1>15. CASE UNCHANGED vars
  <2>1. UNCHANGED <<alive, opening, link, leaving, call>>
    BY <1>15 DEF vars, fleet, calls, pipe, written, daemon, loops, queues, panel, bridge
  <2> QED
    BY <2>1 DEF DaemonType
<1> QED
  BY <1>1, <1>2, <1>3, <1>4, <1>5, <1>6, <1>7, <1>8, <1>9, <1>10, <1>11, <1>12, <1>13, <1>14,
     <1>15 DEF Next, Connects, Bridge, Moves, Calls, Unlinks

(* The channel to the callers has room for what the reader puts in. *)
LEMMA RxStep == StdoutType /\ RxType /\ [Next]_vars => RxType'
<1> SUFFICES ASSUME StdoutType, RxType, [Next]_vars
             PROVE  RxType'
  OBVIOUS
<1> USE Constants DEF Nats
<1>1. ASSUME NEW p \in Procs, DaemonReads(p) PROVE RxType'
  <2> DEFINE line == Head(stdout[p])
  <2>1. line \in Line /\ (line.type = "notification" => line.n \in Nat)
    BY <1>1 DEF DaemonReads, StdoutType, Line
  <2>2. \/ rx' = rx
        \/ /\ line.type = "notification" /\ Len(rx[p]) < RxCap
           /\ rx' = [rx EXCEPT ![p] = Append(@, line.n)]
    BY <1>1 DEF DaemonReads
  <2>3. line.n \in Nat /\ Len(rx[p]) < RxCap =>
            Append(rx[p], line.n) \in Nats /\ Len(Append(rx[p], line.n)) <= RxCap
    BY DEF RxType
  <2> QED
    BY <2>1, <2>2, <2>3 DEF RxType
<1>2. ASSUME NEW p \in Procs, Drain(p) PROVE RxType'
  <2>1. PICK k \in 0 .. Len(rx[p]) : rx' = [rx EXCEPT ![p] = SubSeq(rx[p], k + 1, Len(rx[p]))]
    BY <1>2 DEF Drain
  <2>2. rx[p] \in Seq(Nat) /\ Len(rx[p]) \in Nat /\ Len(rx[p]) <= RxCap
    BY DEF RxType, Nats
  <2>3. SubSeq(rx[p], k + 1, Len(rx[p])) \in Nats /\ Len(SubSeq(rx[p], k + 1, Len(rx[p]))) <= RxCap
    BY <2>2, Constants DEF Nats
  <2> QED
    BY <2>1, <2>3 DEF RxType
<1>3. ASSUME NEW p \in Procs, Waits(p) PROVE RxType'
  <2>1. rx' = rx \/ (rx[p] # <<>> /\ rx' = [rx EXCEPT ![p] = Tail(@)])
    BY <1>3 DEF Waits
  <2>2. rx[p] # <<>> => Tail(rx[p]) \in Nats /\ Len(Tail(rx[p])) <= RxCap
    BY DEF RxType
  <2> QED
    BY <2>1, <2>2 DEF RxType
<1>4. ASSUME NEW p \in Procs, CallEnds(p) PROVE RxType'
  <2>1. LetsGo(p)
    BY <1>4 DEF CallEnds
  <2> QED
    BY <2>1, LetsGoType
<1>5. ASSUME NEW p \in Procs, HangUp(p) PROVE RxType'
  <2>1. LetsGo(p)
    BY <1>5 DEF HangUp, Leaves
  <2> QED
    BY <2>1, LetsGoType
<1>6. ASSUME NEW p \in Procs, HangUpCut(p) PROVE RxType'
  <2>1. LetsGo(p)
    BY <1>6 DEF HangUpCut, Leaves
  <2> QED
    BY <2>1, LetsGoType
<1>7. ASSUME NEW p \in Procs, Detach(p) PROVE RxType'
  <2>1. LetsGo(p)
    BY <1>7 DEF Detach
  <2> QED
    BY <2>1, LetsGoType
<1>8. ASSUME NEW p \in Procs, Spawn(p) \/ Connected(p) \/ NotConnected(p) \/ Call(p) \/ Send(p)
             \/ Ask(p) \/ TakesOut(p) \/ Opens(p) \/ OpenFails(p) \/ ReadLine(p) \/ ReadEnd(p)
             \/ WriteEnds(p) \/ Prints(p) \/ PrintBreaks(p) \/ GatherEnds(p) \/ Closes(p) \/
             MoverStarts(p) \/ ThreadTakes(p) \/ ThreadFindsNone(p) \/ MoverPuts(p) \/
             WaitRunsOut(p) \/ MoverLate(p) \/ Notify(p) \/ Hears(p) \/ Drops(p)
      PROVE  RxType'
  <2>1. UNCHANGED rx
    BY <1>8 DEF Spawn, Connected, NotConnected, Call, Send, Ask, TakesOut, Opens, OpenFails,
       ReadLine, ReadEnd, WriteEnds, Prints, PrintBreaks, GatherEnds, Closes, MoverStarts,
       ThreadTakes, ThreadFindsNone, MoverPuts, WaitRunsOut, MoverLate, Notify, Hears, Drops,
       Moved, fleet, calls, pipe, written, daemon, loops, queues, panel, bridge
  <2> QED
    BY <2>1 DEF RxType
<1>9. CASE DaemonDies
  BY <1>9 DEF DaemonDies, RxType, fleet, calls, pipe, written, daemon, loops, queues, panel,
     bridge
<1>10. CASE UNCHANGED vars
  <2>1. UNCHANGED rx
    BY <1>10 DEF vars, fleet, calls, pipe, written, daemon, loops, queues, panel, bridge
  <2> QED
    BY <2>1 DEF RxType
<1> QED
  BY <1>1, <1>2, <1>3, <1>4, <1>5, <1>6, <1>7, <1>8, <1>9, <1>10 DEF Next, Connects, Bridge,
     Moves, Calls, Unlinks

(* Only a line the pipe has room for is written. *)
LEMMA StdinStep == CountType /\ StdinType /\ [Next]_vars => StdinType'
<1> SUFFICES ASSUME CountType, StdinType, [Next]_vars
             PROVE  StdinType'
  OBVIOUS
<1> USE Constants DEF Nats
<1>1. ASSUME NEW p \in Procs, Send(p) PROVE StdinType'
  <2>1. /\ stdin' = [stdin EXCEPT ![p] = Append(@, writes[p] + 1)] /\ Len(stdin[p]) < InCap
        /\ writes[p] + 1 \in Text
    BY <1>1 DEF Send, WriteLine, Room, CountType, Text
  <2> QED
    BY <2>1 DEF StdinType
<1>2. ASSUME NEW p \in Procs, Ask(p) PROVE StdinType'
  <2>1. /\ stdin' = [stdin EXCEPT ![p] = Append(@, writes[p] + 1)] /\ Len(stdin[p]) < InCap
        /\ writes[p] + 1 \in Text
    BY <1>2 DEF Ask, WriteLine, Room, CountType, Text
  <2> QED
    BY <2>1 DEF StdinType
<1>3. ASSUME NEW p \in Procs, HangUp(p) PROVE StdinType'
  <2>1. PICK line \in Text : stdin' = [stdin EXCEPT ![p] = Append(@, line)] /\ Len(stdin[p]) < InCap
    BY <1>3 DEF HangUp, Room, Disconnect, Text
  <2> QED
    BY <2>1 DEF StdinType
<1>4. ASSUME NEW p \in Procs, ReadLine(p) PROVE StdinType'
  <2>1. stdin[p] # <<>> /\ stdin' = [stdin EXCEPT ![p] = Tail(@)]
    BY <1>4 DEF ReadLine
  <2> QED
    BY <2>1 DEF StdinType
<1>5. ASSUME NEW p \in Procs, Spawn(p) \/ Connected(p) \/ NotConnected(p) \/ DaemonReads(p) \/
             Call(p) \/ Drain(p) \/ Waits(p) \/ CallEnds(p) \/ TakesOut(p) \/ HangUpCut(p) \/
             Detach(p) \/ Opens(p) \/ OpenFails(p) \/ ReadEnd(p) \/ WriteEnds(p) \/ Prints(p) \/
             PrintBreaks(p) \/ GatherEnds(p) \/ Closes(p) \/ MoverStarts(p) \/ ThreadTakes(p) \/
             ThreadFindsNone(p) \/ MoverPuts(p) \/ WaitRunsOut(p) \/ MoverLate(p) \/ Notify(p)
             \/ Hears(p) \/ Drops(p)
      PROVE  StdinType'
  <2>1. UNCHANGED stdin
    BY <1>5 DEF Spawn, Connected, NotConnected, DaemonReads, Call, Drain, Waits, CallEnds,
       TakesOut, HangUpCut, Detach, Opens, OpenFails, ReadEnd, WriteEnds, Prints, PrintBreaks,
       GatherEnds, Closes, MoverStarts, ThreadTakes, ThreadFindsNone, MoverPuts, WaitRunsOut,
       MoverLate, Notify, Hears, Drops, Leaves, Moved, fleet, calls, pipe, written, daemon, loops,
       queues, panel, bridge
  <2> QED
    BY <2>1 DEF StdinType
<1>6. CASE DaemonDies
  <2>1. UNCHANGED stdin
    BY <1>6 DEF DaemonDies, fleet, calls, pipe, written, daemon, loops, queues, panel, bridge
  <2> QED
    BY <2>1 DEF StdinType
<1>7. CASE UNCHANGED vars
  <2>1. UNCHANGED stdin
    BY <1>7 DEF vars, fleet, calls, pipe, written, daemon, loops, queues, panel, bridge
  <2> QED
    BY <2>1 DEF StdinType
<1> QED
  BY <1>1, <1>2, <1>3, <1>4, <1>5, <1>6, <1>7 DEF Next, Connects, Bridge, Moves, Calls, Unlinks

(* A pipe ends in a piece of a line or it does not. *)
LEMMA TornStep == TornType /\ [Next]_vars => TornType'
<1> SUFFICES ASSUME TornType, [Next]_vars
             PROVE  TornType'
  OBVIOUS
<1> USE Constants DEF Nats
<1>1. ASSUME NEW p \in Procs, Send(p) PROVE TornType'
  BY <1>1 DEF Send, WriteLine, TornType
<1>2. ASSUME NEW p \in Procs, Ask(p) PROVE TornType'
  BY <1>2 DEF Ask, WriteLine, TornType
<1>3. ASSUME NEW p \in Procs, CallEnds(p) PROVE TornType'
  BY <1>3, TearsType DEF CallEnds
<1>4. ASSUME NEW p \in Procs, HangUp(p) PROVE TornType'
  BY <1>4 DEF HangUp, TornType
<1>5. ASSUME NEW p \in Procs, HangUpCut(p) PROVE TornType'
  BY <1>5, TearsType DEF HangUpCut
<1>6. ASSUME NEW p \in Procs, ReadEnd(p) PROVE TornType'
  BY <1>6 DEF ReadEnd, TornType
<1>7. ASSUME NEW p \in Procs, Spawn(p) \/ Connected(p) \/ NotConnected(p) \/ DaemonReads(p) \/
             Call(p) \/ Drain(p) \/ Waits(p) \/ TakesOut(p) \/ Detach(p) \/ Opens(p) \/
             OpenFails(p) \/ ReadLine(p) \/ WriteEnds(p) \/ Prints(p) \/ PrintBreaks(p) \/
             GatherEnds(p) \/ Closes(p) \/ MoverStarts(p) \/ ThreadTakes(p) \/
             ThreadFindsNone(p) \/ MoverPuts(p) \/ WaitRunsOut(p) \/ MoverLate(p) \/ Notify(p)
             \/ Hears(p) \/ Drops(p)
      PROVE  TornType'
  <2>1. UNCHANGED torn
    BY <1>7 DEF Spawn, Connected, NotConnected, DaemonReads, Call, Drain, Waits, TakesOut, Detach,
       Opens, OpenFails, ReadLine, WriteEnds, Prints, PrintBreaks, GatherEnds, Closes,
       MoverStarts, ThreadTakes, ThreadFindsNone, MoverPuts, WaitRunsOut, MoverLate, Notify,
       Hears, Drops, Moved, fleet, calls, pipe, written, daemon, loops, queues, panel, bridge
  <2> QED
    BY <2>1 DEF TornType
<1>8. CASE DaemonDies
  BY <1>8, TearsType DEF DaemonDies
<1>9. CASE UNCHANGED vars
  <2>1. UNCHANGED torn
    BY <1>9 DEF vars, fleet, calls, pipe, written, daemon, loops, queues, panel, bridge
  <2> QED
    BY <2>1 DEF TornType
<1> QED
  BY <1>1, <1>2, <1>3, <1>4, <1>5, <1>6, <1>7, <1>8, <1>9 DEF Next, Connects, Bridge, Moves,
     Calls, Unlinks

(* A bridge prints its first line into an empty pipe, and later ones when there is room. *)
LEMMA StdoutStep == TaskType /\ Unborn /\ StdoutType /\ [Next]_vars => StdoutType'
<1> SUFFICES ASSUME TaskType, Unborn, StdoutType, [Next]_vars
             PROVE  StdoutType'
  OBVIOUS
<1> USE Constants DEF Nats
<1>1. ASSUME NEW p \in Procs, Connected(p) PROVE StdoutType'
  BY <1>1 DEF Connected, FirstLine, Spoken, Line, TaskType, Unborn, StdoutType, fleet, calls,
     pipe, written, daemon, loops, queues, panel, bridge
<1>2. ASSUME NEW p \in Procs, NotConnected(p) PROVE StdoutType'
  BY <1>2 DEF NotConnected, FirstLine, Gone, Line, TaskType, Unborn, StdoutType, fleet, calls,
     pipe, written, daemon, loops, queues, panel, bridge
<1>3. ASSUME NEW p \in Procs, DaemonReads(p) PROVE StdoutType'
  BY <1>3 DEF DaemonReads, Spoken, Line, TaskType, Unborn, StdoutType, fleet, calls, pipe,
     written, daemon, loops, queues, panel, bridge
<1>4. ASSUME NEW p \in Procs, Opens(p) PROVE StdoutType'
  BY <1>4 DEF Opens, ChannelFree, Line, TaskType, Unborn, StdoutType, fleet, calls, pipe, written,
     daemon, loops, queues, panel, bridge
<1>5. ASSUME NEW p \in Procs, OpenFails(p) PROVE StdoutType'
  BY <1>5 DEF OpenFails, Gone, Line, TaskType, Unborn, StdoutType, fleet, calls, pipe, written,
     daemon, loops, queues, panel, bridge
<1>6. ASSUME NEW p \in Procs, Prints(p) PROVE StdoutType'
  BY <1>6 DEF Prints, HasRoom, Line, TaskType, Unborn, StdoutType, fleet, calls, pipe, written,
     daemon, loops, queues, panel, bridge
<1>7. ASSUME NEW p \in Procs, Spawn(p) \/ Call(p) \/ Send(p) \/ Drain(p) \/ Ask(p) \/ Waits(p)
             \/ CallEnds(p) \/ TakesOut(p) \/ HangUp(p) \/ HangUpCut(p) \/ Detach(p) \/
             ReadLine(p) \/ ReadEnd(p) \/ WriteEnds(p) \/ PrintBreaks(p) \/ GatherEnds(p) \/
             Closes(p) \/ MoverStarts(p) \/ ThreadTakes(p) \/ ThreadFindsNone(p) \/ MoverPuts(p)
             \/ WaitRunsOut(p) \/ MoverLate(p) \/ Notify(p) \/ Hears(p) \/ Drops(p)
      PROVE  StdoutType'
  <2>1. UNCHANGED stdout
    BY <1>7 DEF Spawn, Call, Send, Drain, Ask, Waits, CallEnds, TakesOut, HangUp, HangUpCut,
       Detach, ReadLine, ReadEnd, WriteEnds, PrintBreaks, GatherEnds, Closes, MoverStarts,
       ThreadTakes, ThreadFindsNone, MoverPuts, WaitRunsOut, MoverLate, Notify, Hears, Drops,
       Leaves, Moved, fleet, calls, pipe, written, daemon, loops, queues, panel, bridge
  <2> QED
    BY <2>1 DEF StdoutType
<1>8. CASE DaemonDies
  <2>1. UNCHANGED stdout
    BY <1>8 DEF DaemonDies, fleet, calls, pipe, written, daemon, loops, queues, panel, bridge
  <2> QED
    BY <2>1 DEF StdoutType
<1>9. CASE UNCHANGED vars
  <2>1. UNCHANGED stdout
    BY <1>9 DEF vars, fleet, calls, pipe, written, daemon, loops, queues, panel, bridge
  <2> QED
    BY <2>1 DEF StdoutType
<1> QED
  BY <1>1, <1>2, <1>3, <1>4, <1>5, <1>6, <1>7, <1>8, <1>9 DEF Next, Connects, Bridge, Moves,
     Calls, Unlinks

(* Where the tasks of a bridge are, and the line one of them prints. *)
LEMMA TaskStep == QueueType /\ TaskType /\ [Next]_vars => TaskType'
<1> SUFFICES ASSUME QueueType, TaskType, [Next]_vars
             PROVE  TaskType'
  OBVIOUS
<1> USE Constants DEF Nats
<1>1. ASSUME NEW p \in Procs, Spawn(p) PROVE TaskType'
  BY <1>1 DEF Spawn, Line, QueueType, TaskType, fleet, calls, pipe, written, daemon, loops,
     queues, panel, bridge
<1>2. ASSUME NEW p \in Procs, NotConnected(p) PROVE TaskType'
  BY <1>2 DEF NotConnected, FirstLine, Gone, Line, QueueType, TaskType, fleet, calls, pipe,
     written, daemon, loops, queues, panel, bridge
<1>3. ASSUME NEW p \in Procs, Opens(p) PROVE TaskType'
  BY <1>3 DEF Opens, ChannelFree, Line, QueueType, TaskType, fleet, calls, pipe, written, daemon,
     loops, queues, panel, bridge
<1>4. ASSUME NEW p \in Procs, OpenFails(p) PROVE TaskType'
  BY <1>4 DEF OpenFails, Gone, Line, QueueType, TaskType, fleet, calls, pipe, written, daemon,
     loops, queues, panel, bridge
<1>5. ASSUME NEW p \in Procs, ReadLine(p) PROVE TaskType'
  <2>1. UNCHANGED <<main, notifier, mover>> /\ (UNCHANGED printing \/ Complains(p))
    BY <1>5 DEF ReadLine
  <2>2. [type |-> "error"] \in Line
    BY DEF Line
  <2> QED
    BY <2>1, <2>2 DEF TaskType, Complains
<1>6. ASSUME NEW p \in Procs, ReadEnd(p) PROVE TaskType'
  <2>1. UNCHANGED <<main, notifier, mover>> /\ (UNCHANGED printing \/ Complains(p))
    BY <1>6 DEF ReadEnd
  <2>2. [type |-> "error"] \in Line
    BY DEF Line
  <2> QED
    BY <2>1, <2>2 DEF TaskType, Complains
<1>7. ASSUME NEW p \in Procs, WriteEnds(p) PROVE TaskType'
  <2>1. UNCHANGED <<main, notifier, mover>> /\ (UNCHANGED printing \/ Complains(p))
    BY <1>7 DEF WriteEnds
  <2>2. [type |-> "error"] \in Line
    BY DEF Line
  <2> QED
    BY <2>1, <2>2 DEF TaskType, Complains
<1>8. ASSUME NEW p \in Procs, Prints(p) PROVE TaskType'
  BY <1>8 DEF Prints, HasRoom, Line, QueueType, TaskType, fleet, calls, pipe, written, daemon,
     loops, queues, panel, bridge
<1>9. ASSUME NEW p \in Procs, PrintBreaks(p) PROVE TaskType'
  BY <1>9 DEF PrintBreaks, Line, QueueType, TaskType, fleet, calls, pipe, written, daemon, loops,
     queues, panel, bridge
<1>10. ASSUME NEW p \in Procs, GatherEnds(p) PROVE TaskType'
  BY <1>10 DEF GatherEnds, Runs, Line, QueueType, TaskType, fleet, calls, pipe, written, daemon,
     loops, queues, panel, bridge
<1>11. ASSUME NEW p \in Procs, Closes(p) PROVE TaskType'
  BY <1>11 DEF Closes, Gone, Line, QueueType, TaskType, fleet, calls, pipe, written, daemon,
     loops, queues, panel, bridge
<1>12. ASSUME NEW p \in Procs, MoverStarts(p) PROVE TaskType'
  BY <1>12 DEF MoverStarts, Runs, GoesOn, Moved, Line, QueueType, TaskType, fleet, calls, pipe,
     written, daemon, loops, queues, panel, bridge
<1>13. ASSUME NEW p \in Procs, ThreadFindsNone(p) PROVE TaskType'
  BY <1>13 DEF ThreadFindsNone, Runs, GoesOn, Moved, Line, QueueType, TaskType, fleet, calls,
     pipe, written, daemon, loops, queues, panel, bridge
<1>14. ASSUME NEW p \in Procs, MoverPuts(p) PROVE TaskType'
  BY <1>14 DEF MoverPuts, Runs, PutFrame, GoesOn, Moved, Line, QueueType, TaskType, fleet, calls,
     pipe, written, daemon, loops, queues, panel, bridge
<1>15. ASSUME NEW p \in Procs, WaitRunsOut(p) PROVE TaskType'
  BY <1>15 DEF WaitRunsOut, Moved, Line, QueueType, TaskType, fleet, calls, pipe, written, daemon,
     loops, queues, panel, bridge
<1>16. ASSUME NEW p \in Procs, MoverLate(p) PROVE TaskType'
  BY <1>16 DEF MoverLate, Runs, LetGo, GoesOn, Moved, Line, QueueType, TaskType, fleet, calls,
     pipe, written, daemon, loops, queues, panel, bridge
<1>17. ASSUME NEW p \in Procs, Notify(p) PROVE TaskType'
  BY <1>17 DEF Notify, Runs, Line, QueueType, TaskType, fleet, calls, pipe, written, daemon,
     loops, queues, panel, bridge
<1>18. ASSUME NEW p \in Procs, Connected(p) \/ DaemonReads(p) \/ Call(p) \/ Send(p) \/ Drain(p)
             \/ Ask(p) \/ Waits(p) \/ CallEnds(p) \/ TakesOut(p) \/ HangUp(p) \/ HangUpCut(p) \/
             Detach(p) \/ ThreadTakes(p) \/ Hears(p) \/ Drops(p)
      PROVE  TaskType'
  <2>1. UNCHANGED <<main, notifier, mover, printing>>
    BY <1>18 DEF Connected, DaemonReads, Call, Send, Drain, Ask, Waits, CallEnds, TakesOut,
       HangUp, HangUpCut, Detach, ThreadTakes, Hears, Drops, Leaves, Moved, fleet, calls, pipe,
       written, daemon, loops, queues, panel, bridge
  <2> QED
    BY <2>1 DEF TaskType
<1>19. CASE DaemonDies
  <2>1. UNCHANGED <<main, notifier, mover, printing>>
    BY <1>19 DEF DaemonDies, fleet, calls, pipe, written, daemon, loops, queues, panel, bridge
  <2> QED
    BY <2>1 DEF TaskType
<1>20. CASE UNCHANGED vars
  <2>1. UNCHANGED <<main, notifier, mover, printing>>
    BY <1>20 DEF vars, fleet, calls, pipe, written, daemon, loops, queues, panel, bridge
  <2> QED
    BY <2>1 DEF TaskType
<1> QED
  BY <1>1, <1>2, <1>3, <1>4, <1>5, <1>6, <1>7, <1>8, <1>9, <1>10, <1>11, <1>12, <1>13, <1>14,
     <1>15, <1>16, <1>17, <1>18, <1>19, <1>20 DEF Next, Connects, Bridge, Moves, Calls, Unlinks

(* A command is in hand from its reading to its end. *)
LEMMA ReaderStep == StdinType /\ ReaderType /\ [Next]_vars => ReaderType'
<1> SUFFICES ASSUME StdinType, ReaderType, [Next]_vars
             PROVE  ReaderType'
  OBVIOUS
<1> USE Constants DEF Nats
<1>1. ASSUME NEW p \in Procs, ReadLine(p) PROVE ReaderType'
  <2>1. Head(stdin[p]) \in Text
    BY <1>1 DEF ReadLine, StdinType
  <2>2. /\ reader[p] = "reading"
        /\ \/ reader' = [reader EXCEPT ![p] = "done"] /\ current' = current
           \/ reader' = reader /\ current' = current
           \/ /\ reader' = [reader EXCEPT ![p] = "writing"] /\ Head(stdin[p]) # Spoilt
              /\ current' = [current EXCEPT ![p] = Head(stdin[p])]
    BY <1>1 DEF ReadLine
  <2> QED
    BY <2>1, <2>2 DEF ReaderType, Text
<1>2. ASSUME NEW p \in Procs, ReadEnd(p) PROVE ReaderType'
  BY <1>2 DEF ReadEnd, ReaderType, daemon
<1>3. ASSUME NEW p \in Procs, WriteEnds(p) PROVE ReaderType'
  BY <1>3 DEF WriteEnds, ReaderType, daemon
<1>4. ASSUME NEW p \in Procs, Spawn(p) \/ Connected(p) \/ NotConnected(p) \/ DaemonReads(p) \/
             Call(p) \/ Send(p) \/ Drain(p) \/ Ask(p) \/ Waits(p) \/ CallEnds(p) \/ TakesOut(p)
             \/ HangUp(p) \/ HangUpCut(p) \/ Detach(p) \/ Opens(p) \/ OpenFails(p) \/ Prints(p)
             \/ PrintBreaks(p) \/ GatherEnds(p) \/ Closes(p) \/ MoverStarts(p) \/ ThreadTakes(p)
             \/ ThreadFindsNone(p) \/ MoverPuts(p) \/ WaitRunsOut(p) \/ MoverLate(p) \/
             Notify(p) \/ Hears(p) \/ Drops(p)
      PROVE  ReaderType'
  <2>1. UNCHANGED <<reader, current>>
    BY <1>4 DEF Spawn, Connected, NotConnected, DaemonReads, Call, Send, Drain, Ask, Waits,
       CallEnds, TakesOut, HangUp, HangUpCut, Detach, Opens, OpenFails, Prints, PrintBreaks,
       GatherEnds, Closes, MoverStarts, ThreadTakes, ThreadFindsNone, MoverPuts, WaitRunsOut,
       MoverLate, Notify, Hears, Drops, Leaves, Moved, fleet, calls, pipe, written, daemon, loops,
       queues, panel, bridge
  <2> QED
    BY <2>1 DEF ReaderType
<1>5. CASE DaemonDies
  <2>1. UNCHANGED <<reader, current>>
    BY <1>5 DEF DaemonDies, fleet, calls, pipe, written, daemon, loops, queues, panel, bridge
  <2> QED
    BY <2>1 DEF ReaderType
<1>6. CASE UNCHANGED vars
  <2>1. UNCHANGED <<reader, current>>
    BY <1>6 DEF vars, fleet, calls, pipe, written, daemon, loops, queues, panel, bridge
  <2> QED
    BY <2>1 DEF ReaderType
<1> QED
  BY <1>1, <1>2, <1>3, <1>4, <1>5, <1>6 DEF Next, Connects, Bridge, Moves, Calls, Unlinks

(* Frames are numbers. *)
LEMMA QueueStep == CountType /\ QueueType /\ [Next]_vars => QueueType'
<1> SUFFICES ASSUME CountType, QueueType, [Next]_vars
             PROVE  QueueType'
  OBVIOUS
<1> USE Constants DEF Nats
<1>1. ASSUME NEW p \in Procs, ThreadTakes(p) PROVE QueueType'
  BY <1>1 DEF ThreadTakes, Moved, CountType, QueueType, fleet, calls, pipe, written, daemon,
     loops, queues, panel, bridge
<1>2. ASSUME NEW p \in Procs, MoverPuts(p) PROVE QueueType'
  BY <1>2 DEF MoverPuts, Runs, PutFrame, GoesOn, Moved, CountType, QueueType, fleet, calls, pipe,
     written, daemon, loops, queues, panel, bridge
<1>3. ASSUME NEW p \in Procs, MoverLate(p) PROVE QueueType'
  BY <1>3 DEF MoverLate, Runs, LetGo, GoesOn, Moved, CountType, QueueType, fleet, calls, pipe,
     written, daemon, loops, queues, panel, bridge
<1>4. ASSUME NEW p \in Procs, Notify(p) PROVE QueueType'
  BY <1>4 DEF Notify, Runs, CountType, QueueType, fleet, calls, pipe, written, daemon, loops,
     queues, panel, bridge
<1>5. ASSUME NEW p \in Procs, Hears(p) PROVE QueueType'
  BY <1>5 DEF Hears, CountType, QueueType, fleet, calls, pipe, written, daemon, loops, queues,
     panel, bridge
<1>6. ASSUME NEW p \in Procs, Spawn(p) \/ Connected(p) \/ NotConnected(p) \/ DaemonReads(p) \/
             Call(p) \/ Send(p) \/ Drain(p) \/ Ask(p) \/ Waits(p) \/ CallEnds(p) \/ TakesOut(p)
             \/ HangUp(p) \/ HangUpCut(p) \/ Detach(p) \/ Opens(p) \/ OpenFails(p) \/
             ReadLine(p) \/ ReadEnd(p) \/ WriteEnds(p) \/ Prints(p) \/ PrintBreaks(p) \/
             GatherEnds(p) \/ Closes(p) \/ MoverStarts(p) \/ ThreadFindsNone(p) \/
             WaitRunsOut(p) \/ Drops(p)
      PROVE  QueueType'
  <2>1. UNCHANGED <<rxQueue, notes, hand>>
    BY <1>6 DEF Spawn, Connected, NotConnected, DaemonReads, Call, Send, Drain, Ask, Waits,
       CallEnds, TakesOut, HangUp, HangUpCut, Detach, Opens, OpenFails, ReadLine, ReadEnd,
       WriteEnds, Prints, PrintBreaks, GatherEnds, Closes, MoverStarts, ThreadFindsNone,
       WaitRunsOut, Drops, Leaves, Moved, fleet, calls, pipe, written, daemon, loops, queues,
       panel, bridge
  <2> QED
    BY <2>1 DEF QueueType
<1>7. CASE DaemonDies
  <2>1. UNCHANGED <<rxQueue, notes, hand>>
    BY <1>7 DEF DaemonDies, fleet, calls, pipe, written, daemon, loops, queues, panel, bridge
  <2> QED
    BY <2>1 DEF QueueType
<1>8. CASE UNCHANGED vars
  <2>1. UNCHANGED <<rxQueue, notes, hand>>
    BY <1>8 DEF vars, fleet, calls, pipe, written, daemon, loops, queues, panel, bridge
  <2> QED
    BY <2>1 DEF QueueType
<1> QED
  BY <1>1, <1>2, <1>3, <1>4, <1>5, <1>6, <1>7, <1>8 DEF Next, Connects, Bridge, Moves, Calls,
     Unlinks

(* A bridge opens the channel only while no other has it. *)
LEMMA PanelStep == PanelType /\ [Next]_vars => PanelType'
<1> SUFFICES ASSUME PanelType, [Next]_vars
             PROVE  PanelType'
  OBVIOUS
<1> USE Constants DEF Nats
<1>1. ASSUME NEW p \in Procs, NotConnected(p) PROVE PanelType'
  BY <1>1 DEF NotConnected, FirstLine, Gone, PanelType, fleet, calls, pipe, written, daemon,
     loops, queues, panel, bridge
<1>2. ASSUME NEW p \in Procs, Opens(p) PROVE PanelType'
  BY <1>2 DEF Opens, ChannelFree, PanelType, fleet, calls, pipe, written, daemon, loops, queues,
     panel, bridge
<1>3. ASSUME NEW p \in Procs, OpenFails(p) PROVE PanelType'
  BY <1>3 DEF OpenFails, Gone, PanelType, fleet, calls, pipe, written, daemon, loops, queues,
     panel, bridge
<1>4. ASSUME NEW p \in Procs, Closes(p) PROVE PanelType'
  BY <1>4 DEF Closes, Gone, PanelType, fleet, calls, pipe, written, daemon, loops, queues, panel,
     bridge
<1>5. ASSUME NEW p \in Procs, Drops(p) PROVE PanelType'
  BY <1>5 DEF Drops, PanelType, fleet, calls, pipe, written, daemon, loops, queues, panel, bridge
<1>6. ASSUME NEW p \in Procs, Spawn(p) \/ Connected(p) \/ DaemonReads(p) \/ Call(p) \/ Send(p)
             \/ Drain(p) \/ Ask(p) \/ Waits(p) \/ CallEnds(p) \/ TakesOut(p) \/ HangUp(p) \/
             HangUpCut(p) \/ Detach(p) \/ ReadLine(p) \/ ReadEnd(p) \/ WriteEnds(p) \/ Prints(p)
             \/ PrintBreaks(p) \/ GatherEnds(p) \/ MoverStarts(p) \/ ThreadTakes(p) \/
             ThreadFindsNone(p) \/ MoverPuts(p) \/ WaitRunsOut(p) \/ MoverLate(p) \/ Notify(p)
             \/ Hears(p)
      PROVE  PanelType'
  <2>1. UNCHANGED radio
    BY <1>6 DEF Spawn, Connected, DaemonReads, Call, Send, Drain, Ask, Waits, CallEnds, TakesOut,
       HangUp, HangUpCut, Detach, ReadLine, ReadEnd, WriteEnds, Prints, PrintBreaks, GatherEnds,
       MoverStarts, ThreadTakes, ThreadFindsNone, MoverPuts, WaitRunsOut, MoverLate, Notify,
       Hears, Leaves, Moved, fleet, calls, pipe, written, daemon, loops, queues, panel, bridge
  <2> QED
    BY <2>1 DEF PanelType
<1>7. CASE DaemonDies
  <2>1. UNCHANGED radio
    BY <1>7 DEF DaemonDies, fleet, calls, pipe, written, daemon, loops, queues, panel, bridge
  <2> QED
    BY <2>1 DEF PanelType
<1>8. CASE UNCHANGED vars
  <2>1. UNCHANGED radio
    BY <1>8 DEF vars, fleet, calls, pipe, written, daemon, loops, queues, panel, bridge
  <2> QED
    BY <2>1 DEF PanelType
<1> QED
  BY <1>1, <1>2, <1>3, <1>4, <1>5, <1>6, <1>7, <1>8 DEF Next, Connects, Bridge, Moves, Calls,
     Unlinks

(* What is counted. *)
LEMMA CountStep ==
    StdoutType /\ ReaderType /\ QueueType /\ CountType /\ [Next]_vars => CountType'
<1> SUFFICES ASSUME StdoutType, ReaderType, QueueType, CountType, [Next]_vars
             PROVE  CountType'
  OBVIOUS
<1> USE Constants DEF Nats
<1>1. ASSUME NEW p \in Procs, DaemonReads(p) PROVE CountType'
  <2> DEFINE line == Head(stdout[p])
  <2>1. line \in Line /\ (line.type = "notification" => line.n \in Nat)
    BY <1>1 DEF DaemonReads, StdoutType, Line
  <2>2. /\ UNCHANGED <<heard, writes, bye, done, lost>>
        /\ \/ taken' = taken
           \/ line.type = "notification" /\ taken' = [taken EXCEPT ![p] = line.n]
    BY <1>1 DEF DaemonReads, written, queues, panel
  <2> QED
    BY <2>1, <2>2 DEF CountType
<1>2. ASSUME NEW p \in Procs, Send(p) PROVE CountType'
  BY <1>2 DEF Send, WriteLine, Room, QueueType, CountType, fleet, calls, pipe, written, daemon,
     loops, queues, panel, bridge
<1>3. ASSUME NEW p \in Procs, Ask(p) PROVE CountType'
  BY <1>3 DEF Ask, WriteLine, Room, QueueType, CountType, fleet, calls, pipe, written, daemon,
     loops, queues, panel, bridge
<1>4. ASSUME NEW p \in Procs, HangUp(p) PROVE CountType'
  BY <1>4 DEF HangUp, Leaves, Room, QueueType, CountType, fleet, calls, pipe, written, daemon,
     loops, queues, panel, bridge
<1>5. ASSUME NEW p \in Procs, WriteEnds(p) PROVE CountType'
  <2>1. /\ UNCHANGED <<heard, taken, writes, bye, lost>> /\ reader[p] = "writing"
        /\ done' = [done EXCEPT ![p] = @ \cup {current[p]}]
    BY <1>5 DEF WriteEnds, daemon, calls, written, queues, panel
  <2>2. current[p] \in Nat
    BY <2>1 DEF ReaderType
  <2> QED
    BY <2>1, <2>2 DEF CountType
<1>6. ASSUME NEW p \in Procs, MoverLate(p) PROVE CountType'
  BY <1>6 DEF MoverLate, Runs, LetGo, GoesOn, Moved, QueueType, CountType, fleet, calls, pipe,
     written, daemon, loops, queues, panel, bridge
<1>7. ASSUME NEW p \in Procs, Hears(p) PROVE CountType'
  BY <1>7 DEF Hears, QueueType, CountType, fleet, calls, pipe, written, daemon, loops, queues,
     panel, bridge
<1>8. ASSUME NEW p \in Procs, Spawn(p) \/ Connected(p) \/ NotConnected(p) \/ Call(p) \/ Drain(p)
             \/ Waits(p) \/ CallEnds(p) \/ TakesOut(p) \/ HangUpCut(p) \/ Detach(p) \/ Opens(p)
             \/ OpenFails(p) \/ ReadLine(p) \/ ReadEnd(p) \/ Prints(p) \/ PrintBreaks(p) \/
             GatherEnds(p) \/ Closes(p) \/ MoverStarts(p) \/ ThreadTakes(p) \/
             ThreadFindsNone(p) \/ MoverPuts(p) \/ WaitRunsOut(p) \/ Notify(p) \/ Drops(p)
      PROVE  CountType'
  <2>1. UNCHANGED <<heard, taken, writes, bye, done, lost>>
    BY <1>8 DEF Spawn, Connected, NotConnected, Call, Drain, Waits, CallEnds, TakesOut, HangUpCut,
       Detach, Opens, OpenFails, ReadLine, ReadEnd, Prints, PrintBreaks, GatherEnds, Closes,
       MoverStarts, ThreadTakes, ThreadFindsNone, MoverPuts, WaitRunsOut, Notify, Drops, Leaves,
       Moved, fleet, calls, pipe, written, daemon, loops, queues, panel, bridge
  <2> QED
    BY <2>1 DEF CountType
<1>9. CASE DaemonDies
  <2>1. UNCHANGED <<heard, taken, writes, bye, done, lost>>
    BY <1>9 DEF DaemonDies, fleet, calls, pipe, written, daemon, loops, queues, panel, bridge
  <2> QED
    BY <2>1 DEF CountType
<1>10. CASE UNCHANGED vars
  <2>1. UNCHANGED <<heard, taken, writes, bye, done, lost>>
    BY <1>10 DEF vars, fleet, calls, pipe, written, daemon, loops, queues, panel, bridge
  <2> QED
    BY <2>1 DEF CountType
<1> QED
  BY <1>1, <1>2, <1>3, <1>4, <1>5, <1>6, <1>7, <1>8, <1>9, <1>10 DEF Next, Connects, Bridge,
     Moves, Calls, Unlinks

(* A frame is taken from those that wait, and let go from the hand. *)
LEMMA HeardOnlyStep ==
    TaskType /\ QueueType /\ CountType /\ HeardOnly /\ [Next]_vars => HeardOnly'
<1> SUFFICES ASSUME TaskType, QueueType, CountType, HeardOnly, [Next]_vars
             PROVE  HeardOnly'
  OBVIOUS
<1> USE Constants DEF Nats
<1>1. ASSUME NEW p \in Procs, MoverStarts(p) PROVE HeardOnly'
  BY <1>1 DEF MoverStarts, Runs, GoesOn, Moved, TaskType, QueueType, CountType, HeardOnly, fleet,
     calls, pipe, written, daemon, loops, queues, panel, bridge
<1>2. ASSUME NEW p \in Procs, ThreadTakes(p) PROVE HeardOnly'
  <2>1. /\ hand[p] = None /\ rxQueue[p] # <<>> /\ mover[p] = "getting"
        /\ hand' = [hand EXCEPT ![p] = Head(rxQueue[p])]
        /\ rxQueue' = [rxQueue EXCEPT ![p] = Tail(@)] /\ UNCHANGED <<lost, heard, mover>>
    BY <1>2 DEF ThreadTakes, Moved, panel
  <2>2. rxQueue[p] \in Seq(Nat)
    BY DEF QueueType
  <2>3. /\ Head(rxQueue[p]) \in 1 .. heard[p]
        /\ \A i \in DOMAIN Tail(rxQueue[p]) : Tail(rxQueue[p])[i] \in 1 .. heard[p]
    <3>1. 1 \in DOMAIN rxQueue[p] /\ Head(rxQueue[p]) = rxQueue[p][1]
      BY <2>1, <2>2
    <3>2. \A i \in DOMAIN Tail(rxQueue[p]) :
              i + 1 \in DOMAIN rxQueue[p] /\ Tail(rxQueue[p])[i] = rxQueue[p][i + 1]
      BY <2>1, <2>2
    <3> QED
      BY <3>1, <3>2 DEF HeardOnly
  <2> QED
    BY <2>1, <2>3 DEF HeardOnly, QueueType
<1>3. ASSUME NEW p \in Procs, ThreadFindsNone(p) PROVE HeardOnly'
  BY <1>3 DEF ThreadFindsNone, Runs, GoesOn, Moved, TaskType, QueueType, CountType, HeardOnly,
     fleet, calls, pipe, written, daemon, loops, queues, panel, bridge
<1>4. ASSUME NEW p \in Procs, MoverPuts(p) PROVE HeardOnly'
  BY <1>4 DEF MoverPuts, Runs, PutFrame, GoesOn, Moved, TaskType, QueueType, CountType, HeardOnly,
     fleet, calls, pipe, written, daemon, loops, queues, panel, bridge
<1>5. ASSUME NEW p \in Procs, WaitRunsOut(p) PROVE HeardOnly'
  BY <1>5 DEF WaitRunsOut, Moved, TaskType, QueueType, CountType, HeardOnly, fleet, calls, pipe,
     written, daemon, loops, queues, panel, bridge
<1>6. ASSUME NEW p \in Procs, MoverLate(p) PROVE HeardOnly'
  BY <1>6 DEF MoverLate, Runs, LetGo, GoesOn, Moved, TaskType, QueueType, CountType, HeardOnly,
     fleet, calls, pipe, written, daemon, loops, queues, panel, bridge
<1>7. ASSUME NEW p \in Procs, Hears(p) PROVE HeardOnly'
  <2>1. /\ heard' = [heard EXCEPT ![p] = @ + 1] /\ rxQueue' = [rxQueue EXCEPT ![p] = Append(@, heard[p] + 1)]
        /\ UNCHANGED <<hand, lost, mover>>
    BY <1>7 DEF Hears, loops
  <2>2. rxQueue[p] \in Seq(Nat) /\ heard[p] \in Nat
    BY DEF QueueType, CountType
  <2>3. 1 .. heard[p] \subseteq 1 .. heard[p] + 1 /\ heard[p] + 1 \in 1 .. heard[p] + 1
    BY <2>2
  <2>4. \A i \in DOMAIN Append(rxQueue[p], heard[p] + 1) :
            Append(rxQueue[p], heard[p] + 1)[i] \in 1 .. heard[p] + 1
    <3>1. \A i \in DOMAIN Append(rxQueue[p], heard[p] + 1) :
              \/ i \in DOMAIN rxQueue[p] /\ Append(rxQueue[p], heard[p] + 1)[i] = rxQueue[p][i]
              \/ Append(rxQueue[p], heard[p] + 1)[i] = heard[p] + 1
      BY <2>2
    <3> QED
      BY <2>3, <3>1 DEF HeardOnly
  <2>5. /\ heard'[p] = heard[p] + 1 /\ rxQueue'[p] = Append(rxQueue[p], heard[p] + 1)
        /\ \A q \in Procs : q # p => heard'[q] = heard[q] /\ rxQueue'[q] = rxQueue[q]
    BY <2>1 DEF QueueType, CountType
  <2>6. hand[p] \in (1 .. heard[p] + 1) \cup {None} /\ lost[p] \subseteq 1 .. heard[p] + 1
    BY <2>3 DEF HeardOnly
  <2> QED
    BY <2>1, <2>4, <2>5, <2>6 DEF HeardOnly
<1>8. ASSUME NEW p \in Procs, Spawn(p) \/ Connected(p) \/ NotConnected(p) \/ DaemonReads(p) \/
             Call(p) \/ Send(p) \/ Drain(p) \/ Ask(p) \/ Waits(p) \/ CallEnds(p) \/ TakesOut(p)
             \/ HangUp(p) \/ HangUpCut(p) \/ Detach(p) \/ Opens(p) \/ OpenFails(p) \/
             ReadLine(p) \/ ReadEnd(p) \/ WriteEnds(p) \/ Prints(p) \/ PrintBreaks(p) \/
             GatherEnds(p) \/ Closes(p) \/ Notify(p) \/ Drops(p)
      PROVE  HeardOnly'
  <2>1. UNCHANGED <<hand, lost, rxQueue, heard, mover>>
    BY <1>8 DEF Spawn, Connected, NotConnected, DaemonReads, Call, Send, Drain, Ask, Waits,
       CallEnds, TakesOut, HangUp, HangUpCut, Detach, Opens, OpenFails, ReadLine, ReadEnd,
       WriteEnds, Prints, PrintBreaks, GatherEnds, Closes, Notify, Drops, Leaves, fleet, calls,
       pipe, written, daemon, loops, queues, panel, bridge
  <2> QED
    BY <2>1 DEF HeardOnly
<1>9. CASE DaemonDies
  <2>1. UNCHANGED <<hand, lost, rxQueue, heard, mover>>
    BY <1>9 DEF DaemonDies, fleet, calls, pipe, written, daemon, loops, queues, panel, bridge
  <2> QED
    BY <2>1 DEF HeardOnly
<1>10. CASE UNCHANGED vars
  <2>1. UNCHANGED <<hand, lost, rxQueue, heard, mover>>
    BY <1>10 DEF vars, fleet, calls, pipe, written, daemon, loops, queues, panel, bridge
  <2> QED
    BY <2>1 DEF HeardOnly
<1> QED
  BY <1>1, <1>2, <1>3, <1>4, <1>5, <1>6, <1>7, <1>8, <1>9, <1>10 DEF Next, Connects, Bridge,
     Moves, Calls, Unlinks

(* Nothing happens in a bridge before it runs. *)
LEMMA UnbornStep ==
    DaemonType /\ StdinType /\ StdoutType /\ QueueType /\ TaskType /\ ReaderType /\
    CountType /\ Unborn /\ [Next]_vars => Unborn'
<1> SUFFICES ASSUME DaemonType, StdinType, StdoutType, QueueType, TaskType, ReaderType,
                CountType, Unborn, [Next]_vars
             PROVE  Unborn'
  OBVIOUS
<1> USE Constants DEF Nats
<1>1. ASSUME NEW p \in Procs, Spawn(p) PROVE Unborn'
  BY <1>1 DEF Spawn, DaemonType, TaskType, Unborn, Held, fleet, calls, pipe, written, daemon,
     loops, queues, panel, bridge
<1>2. ASSUME NEW p \in Procs, Connected(p) PROVE Unborn'
  BY <1>2 DEF Connected, FirstLine, Spoken, DaemonType, StdoutType, TaskType, Unborn, Held,
     fleet, calls, pipe, written, daemon, loops, queues, panel, bridge
<1>3. ASSUME NEW p \in Procs, NotConnected(p) PROVE Unborn'
  BY <1>3 DEF NotConnected, FirstLine, Gone, DaemonType, StdoutType, TaskType, Unborn, Held,
     fleet, calls, pipe, written, daemon, loops, queues, panel, bridge
<1>4. ASSUME NEW p \in Procs, DaemonReads(p) PROVE Unborn'
  BY <1>4 DEF DaemonReads, Spoken, StdoutType, CountType, Unborn, Held, fleet, calls, pipe,
     written, daemon, loops, queues, panel, bridge
<1>5. ASSUME NEW p \in Procs, Call(p) PROVE Unborn'
  BY <1>5 DEF Call, DaemonType, Unborn, Held, fleet, calls, pipe, written, daemon, loops,
     queues, panel, bridge
<1>6. ASSUME NEW p \in Procs, Send(p) PROVE Unborn'
  BY <1>6 DEF Send, WriteLine, Room, StdinType, CountType, Unborn, Held, fleet, calls, pipe,
     written, daemon, loops, queues, panel, bridge
<1>7. ASSUME NEW p \in Procs, Drain(p) PROVE Unborn'
  BY <1>7 DEF Drain, DaemonType, Unborn, Held, fleet, calls, pipe, written, daemon, loops,
     queues, panel, bridge
<1>8. ASSUME NEW p \in Procs, Ask(p) PROVE Unborn'
  BY <1>8 DEF Ask, WriteLine, Room, DaemonType, StdinType, CountType, Unborn, Held, fleet,
     calls, pipe, written, daemon, loops, queues, panel, bridge
<1>9. ASSUME NEW p \in Procs, Waits(p) PROVE Unborn'
  BY <1>9 DEF Waits, DaemonType, Unborn, Held, fleet, calls, pipe, written, daemon, loops,
     queues, panel, bridge
<1>10. ASSUME NEW p \in Procs, CallEnds(p) PROVE Unborn'
  BY <1>10 DEF CallEnds, DaemonType, Unborn, Held, fleet, calls, pipe, written, daemon, loops,
     queues, panel, bridge
<1>11. ASSUME NEW p \in Procs, TakesOut(p) PROVE Unborn'
  BY <1>11 DEF TakesOut, DaemonType, Unborn, Held, fleet, calls, pipe, written, daemon, loops,
     queues, panel, bridge
<1>12. ASSUME NEW p \in Procs, HangUp(p) PROVE Unborn'
  BY <1>12 DEF HangUp, Leaves, Room, DaemonType, StdinType, CountType, Unborn, Held, fleet,
     calls, pipe, written, daemon, loops, queues, panel, bridge
<1>13. ASSUME NEW p \in Procs, HangUpCut(p) PROVE Unborn'
  BY <1>13 DEF HangUpCut, Leaves, Room, DaemonType, Unborn, Held, fleet, calls, pipe, written,
     daemon, loops, queues, panel, bridge
<1>14. ASSUME NEW p \in Procs, Detach(p) PROVE Unborn'
  BY <1>14 DEF Detach, DaemonType, Unborn, Held, fleet, calls, pipe, written, daemon, loops,
     queues, panel, bridge
<1>15. ASSUME NEW p \in Procs, Opens(p) PROVE Unborn'
  BY <1>15 DEF Opens, ChannelFree, StdoutType, TaskType, Unborn, Held, fleet, calls, pipe,
     written, daemon, loops, queues, panel, bridge
<1>16. ASSUME NEW p \in Procs, OpenFails(p) PROVE Unborn'
  BY <1>16 DEF OpenFails, Gone, StdoutType, TaskType, Unborn, Held, fleet, calls, pipe, written,
     daemon, loops, queues, panel, bridge
<1>17. ASSUME NEW p \in Procs, ReadLine(p) PROVE Unborn'
  BY <1>17 DEF ReadLine, Runs, Complains, StdinType, ReaderType, TaskType, Unborn, Held, fleet,
     calls, pipe, written, daemon, loops, queues, panel, bridge
<1>18. ASSUME NEW p \in Procs, ReadEnd(p) PROVE Unborn'
  BY <1>18 DEF ReadEnd, Runs, PipeEnds, Complains, ReaderType, TaskType, Unborn, Held, fleet,
     calls, pipe, written, daemon, loops, queues, panel, bridge
<1>19. ASSUME NEW p \in Procs, WriteEnds(p) PROVE Unborn'
  BY <1>19 DEF WriteEnds, Runs, IsConnected, Complains, TaskType, ReaderType, Unborn, Held,
     fleet, calls, pipe, written, daemon, loops, queues, panel, bridge
<1>20. ASSUME NEW p \in Procs, Prints(p) PROVE Unborn'
  BY <1>20 DEF Prints, HasRoom, StdoutType, TaskType, Unborn, Held, fleet, calls, pipe, written,
     daemon, loops, queues, panel, bridge
<1>21. ASSUME NEW p \in Procs, PrintBreaks(p) PROVE Unborn'
  BY <1>21 DEF PrintBreaks, TaskType, Unborn, Held, fleet, calls, pipe, written, daemon, loops,
     queues, panel, bridge
<1>22. ASSUME NEW p \in Procs, GatherEnds(p) PROVE Unborn'
  BY <1>22 DEF GatherEnds, Runs, TaskType, Unborn, Held, fleet, calls, pipe, written, daemon,
     loops, queues, panel, bridge
<1>23. ASSUME NEW p \in Procs, Closes(p) PROVE Unborn'
  BY <1>23 DEF Closes, Gone, TaskType, Unborn, Held, fleet, calls, pipe, written, daemon, loops,
     queues, panel, bridge
<1>24. ASSUME NEW p \in Procs, ThreadTakes(p) PROVE Unborn'
  BY <1>24 DEF ThreadTakes, Moved, QueueType, Unborn, Held, fleet, calls, pipe, written, daemon,
     loops, queues, panel, bridge
<1>25. ASSUME NEW p \in Procs, MoverPuts(p) PROVE Unborn'
  BY <1>25 DEF MoverPuts, Runs, PutFrame, GoesOn, Moved, QueueType, Unborn, Held, fleet, calls,
     pipe, written, daemon, loops, queues, panel, bridge
<1>26. ASSUME NEW p \in Procs, MoverLate(p) PROVE Unborn'
  BY <1>26 DEF MoverLate, Runs, LetGo, GoesOn, Moved, QueueType, CountType, Unborn, Held, fleet,
     calls, pipe, written, daemon, loops, queues, panel, bridge
<1>27. ASSUME NEW p \in Procs, Notify(p) PROVE Unborn'
  BY <1>27 DEF Notify, Runs, QueueType, TaskType, Unborn, Held, fleet, calls, pipe, written,
     daemon, loops, queues, panel, bridge
<1>28. ASSUME NEW p \in Procs, Hears(p) PROVE Unborn'
  BY <1>28 DEF Hears, QueueType, CountType, Unborn, Held, fleet, calls, pipe, written, daemon,
     loops, queues, panel, bridge
<1>29. ASSUME NEW p \in Procs, MoverStarts(p) \/ ThreadFindsNone(p) \/ WaitRunsOut(p) \/
             Drops(p)
      PROVE  Unborn'
  <2>1. UNCHANGED <<stdin, stdout, notes, rxQueue, hand, lost, printing, heard, taken, reader, bye, opening, link, leaving, call, main>>
    BY <1>29 DEF MoverStarts, ThreadFindsNone, WaitRunsOut, Drops, Moved, fleet, calls, pipe,
       written, daemon, loops, queues, panel, bridge
  <2> QED
    BY <2>1 DEF Unborn, Held
<1>30. CASE DaemonDies
  BY <1>30 DEF DaemonDies, DaemonType, Unborn, Held, fleet, calls, pipe, written, daemon, loops,
     queues, panel, bridge
<1>31. CASE UNCHANGED vars
  <2>1. UNCHANGED <<stdin, stdout, notes, rxQueue, hand, lost, printing, heard, taken, reader, bye, opening, link, leaving, call, main>>
    BY <1>31 DEF vars, fleet, calls, pipe, written, daemon, loops, queues, panel, bridge
  <2> QED
    BY <2>1 DEF Unborn, Held
<1> QED
  BY <1>1, <1>2, <1>3, <1>4, <1>5, <1>6, <1>7, <1>8, <1>9, <1>10, <1>11, <1>12, <1>13, <1>14,
     <1>15, <1>16, <1>17, <1>18, <1>19, <1>20, <1>21, <1>22, <1>23, <1>24, <1>25, <1>26, <1>27,
     <1>28, <1>29, <1>30, <1>31 DEF Next, Connects, Bridge, Moves, Calls, Unlinks

(* Whoever is told goodbye is held no more, and nobody else reads an end. *)
LEMMA LinkedStep ==
    DaemonType /\ StdinType /\ ReaderType /\ CountType /\ Unborn /\ Linked /\ Commands /\
    [Next]_vars => Linked'
<1> SUFFICES ASSUME DaemonType, StdinType, ReaderType, CountType, Unborn, Linked, Commands,
                [Next]_vars
             PROVE  Linked'
  OBVIOUS
<1> USE Constants DEF Nats
<1>1. ASSUME NEW p \in Procs, Spawn(p) PROVE Linked'
  BY <1>1 DEF Spawn, DaemonType, Unborn, Linked, Held, fleet, calls, pipe, written, daemon,
     loops, queues, panel, bridge
<1>2. ASSUME NEW p \in Procs, Connected(p) PROVE Linked'
  BY <1>2 DEF Connected, FirstLine, Spoken, DaemonType, Linked, Held, fleet, calls, pipe,
     written, daemon, loops, queues, panel, bridge
<1>3. ASSUME NEW p \in Procs, NotConnected(p) PROVE Linked'
  BY <1>3 DEF NotConnected, FirstLine, Gone, DaemonType, Linked, Held, fleet, calls, pipe,
     written, daemon, loops, queues, panel, bridge
<1>4. ASSUME NEW p \in Procs, Call(p) PROVE Linked'
  BY <1>4 DEF Call, DaemonType, Linked, Held, fleet, calls, pipe, written, daemon, loops,
     queues, panel, bridge
<1>5. ASSUME NEW p \in Procs, Drain(p) PROVE Linked'
  BY <1>5 DEF Drain, DaemonType, Linked, Held, fleet, calls, pipe, written, daemon, loops,
     queues, panel, bridge
<1>6. ASSUME NEW p \in Procs, Ask(p) PROVE Linked'
  BY <1>6 DEF Ask, WriteLine, Room, DaemonType, Linked, Held, fleet, calls, pipe, written,
     daemon, loops, queues, panel, bridge
<1>7. ASSUME NEW p \in Procs, Waits(p) PROVE Linked'
  BY <1>7 DEF Waits, DaemonType, Linked, Held, fleet, calls, pipe, written, daemon, loops,
     queues, panel, bridge
<1>8. ASSUME NEW p \in Procs, CallEnds(p) PROVE Linked'
  BY <1>8 DEF CallEnds, DaemonType, Linked, Held, fleet, calls, pipe, written, daemon, loops,
     queues, panel, bridge
<1>9. ASSUME NEW p \in Procs, TakesOut(p) PROVE Linked'
  BY <1>9 DEF TakesOut, DaemonType, Linked, Held, fleet, calls, pipe, written, daemon, loops,
     queues, panel, bridge
<1>10. ASSUME NEW p \in Procs, HangUp(p) PROVE Linked'
  BY <1>10 DEF HangUp, Leaves, Room, DaemonType, CountType, Linked, Held, fleet, calls, pipe,
     written, daemon, loops, queues, panel, bridge
<1>11. ASSUME NEW p \in Procs, HangUpCut(p) PROVE Linked'
  BY <1>11 DEF HangUpCut, Leaves, Room, DaemonType, Linked, Held, fleet, calls, pipe, written,
     daemon, loops, queues, panel, bridge
<1>12. ASSUME NEW p \in Procs, Detach(p) PROVE Linked'
  BY <1>12 DEF Detach, DaemonType, Linked, Held, fleet, calls, pipe, written, daemon, loops,
     queues, panel, bridge
<1>13. ASSUME NEW p \in Procs, ReadLine(p) PROVE Linked'
  <2>1. /\ stdin[p] # <<>> /\ reader[p] = "reading" /\ UNCHANGED <<opening, link, leaving, call, bye>>
        /\ \A q \in Procs : q # p => reader'[q] = reader[q]
        /\ reader'[p] = "done" => Head(stdin[p]) = Disconnect
    BY <1>13 DEF ReadLine, ReaderType, daemon, fleet, calls, written
  <2>2. PICK k \in Nat : Pipe(stdin[p], k, writes[p], bye[p])
    BY <2>1 DEF Commands
  <2>3. stdin[p] \in Seq(Text) /\ writes[p] \in Nat /\ bye[p] \in Nat \cup {None}
    BY DEF StdinType, CountType
  <2>4. reader'[p] = "done" => bye[p] # None
    BY <2>1, <2>2, <2>3, PipeReads
  <2> QED
    BY <2>1, <2>4 DEF Linked, Held
<1>14. ASSUME NEW p \in Procs, ReadEnd(p) PROVE Linked'
  BY <1>14 DEF ReadEnd, Runs, PipeEnds, Complains, ReaderType, Linked, Held, fleet, calls, pipe,
     written, daemon, loops, queues, panel, bridge
<1>15. ASSUME NEW p \in Procs, WriteEnds(p) PROVE Linked'
  BY <1>15 DEF WriteEnds, Runs, IsConnected, Complains, ReaderType, Linked, Held, fleet, calls,
     pipe, written, daemon, loops, queues, panel, bridge
<1>16. ASSUME NEW p \in Procs, DaemonReads(p) \/ Send(p) \/ Opens(p) \/ OpenFails(p) \/
             Prints(p) \/ PrintBreaks(p) \/ GatherEnds(p) \/ Closes(p) \/ MoverStarts(p) \/
             ThreadTakes(p) \/ ThreadFindsNone(p) \/ MoverPuts(p) \/ WaitRunsOut(p) \/
             MoverLate(p) \/ Notify(p) \/ Hears(p) \/ Drops(p)
      PROVE  Linked'
  <2>1. UNCHANGED <<opening, link, leaving, call, bye, reader>>
    BY <1>16 DEF DaemonReads, Send, Opens, OpenFails, Prints, PrintBreaks, GatherEnds, Closes,
       MoverStarts, ThreadTakes, ThreadFindsNone, MoverPuts, WaitRunsOut, MoverLate, Notify,
       Hears, Drops, Moved, fleet, calls, pipe, written, daemon, loops, queues, panel, bridge
  <2> QED
    BY <2>1 DEF Linked, Held
<1>17. CASE DaemonDies
  BY <1>17 DEF DaemonDies, DaemonType, Linked, Held, fleet, calls, pipe, written, daemon, loops,
     queues, panel, bridge
<1>18. CASE UNCHANGED vars
  <2>1. UNCHANGED <<opening, link, leaving, call, bye, reader>>
    BY <1>18 DEF vars, fleet, calls, pipe, written, daemon, loops, queues, panel, bridge
  <2> QED
    BY <2>1 DEF Linked, Held
<1> QED
  BY <1>1, <1>2, <1>3, <1>4, <1>5, <1>6, <1>7, <1>8, <1>9, <1>10, <1>11, <1>12, <1>13, <1>14,
     <1>15, <1>16, <1>17, <1>18 DEF Next, Connects, Bridge, Moves, Calls, Unlinks

(* A command that is written by who holds the bridge goes to the end of its *)
(* pipe, or behind the goodbye that has been read.                          *)
LEMMA CommandsWrite ==
    ASSUME StdinType, CountType, Linked, Commands, NEW p \in Procs, Held(p),
           stdin' = [stdin EXCEPT ![p] = Append(@, writes[p] + 1)],
           writes' = [writes EXCEPT ![p] = @ + 1], UNCHANGED <<bye, reader, current, done>>
    PROVE  Commands'
<1>1. stdin[p] \in Seq(Text) /\ writes[p] \in Nat /\ bye[p] \in Nat \cup {None} /\ None \notin Nat
  BY Constants DEF StdinType, CountType
<1>2. /\ stdin'[p] = Append(stdin[p], writes[p] + 1) /\ writes'[p] = writes[p] + 1
      /\ \A q \in Procs : q # p => stdin'[q] = stdin[q] /\ writes'[q] = writes[q]
  BY DEF StdinType, CountType
<1>3. ASSUME NEW k \in Nat, Pipe(stdin[p], k, writes[p], bye[p])
      PROVE  Pipe(stdin'[p], k, writes'[p], bye[p])
  BY <1>1, <1>2, <1>3, PipeWrites
<1>4. ASSUME reader[p] = "done"
      PROVE  bye[p] # None /\ bye[p] \in 0 .. writes'[p] /\ done[p] = 1 .. bye[p]
  <2>1. bye[p] # None
    BY <1>4 DEF Linked
  <2>2. bye[p] \in 0 .. writes[p] /\ done[p] = 1 .. bye[p]
    BY <1>4, <2>1 DEF Commands
  <2> QED
    BY <1>1, <1>2, <2>1, <2>2
<1>5. \A k \in Nat : k + 1 \in Nat
  OBVIOUS
<1> QED
  BY <1>2, <1>3, <1>4, <1>5 DEF Commands

(* Each command goes from the pipe to the hand and is done, up to the goodbye. *)
LEMMA CommandsStep ==
    StdinType /\ TornType /\ ReaderType /\ CountType /\ Linked /\ Commands /\ [Next]_vars =>
    Commands'
<1> SUFFICES ASSUME StdinType, TornType, ReaderType, CountType, Linked, Commands, [Next]_vars
             PROVE  Commands'
  OBVIOUS
<1> USE Constants DEF Nats
<1>1. ASSUME NEW p \in Procs, Send(p) PROVE Commands'
  <2>1. /\ Held(p) /\ stdin' = [stdin EXCEPT ![p] = Append(@, writes[p] + 1)]
        /\ writes' = [writes EXCEPT ![p] = @ + 1] /\ UNCHANGED <<bye, reader, current, done>>
    BY <1>1 DEF Send, WriteLine, Held, bridge, loops
  <2> QED
    BY <2>1, CommandsWrite
<1>2. ASSUME NEW p \in Procs, Ask(p) PROVE Commands'
  <2>1. /\ Held(p) /\ stdin' = [stdin EXCEPT ![p] = Append(@, writes[p] + 1)]
        /\ writes' = [writes EXCEPT ![p] = @ + 1] /\ UNCHANGED <<bye, reader, current, done>>
    BY <1>2 DEF Ask, WriteLine, Held, bridge, loops
  <2> QED
    BY <2>1, CommandsWrite
<1>3. ASSUME NEW p \in Procs, HangUp(p) PROVE Commands'
  <2>1. p \in leaving /\ UNCHANGED <<writes, reader, current, done>>
    BY <1>3 DEF HangUp, Leaves, bridge, loops
  <2>2. bye[p] = None /\ reader[p] # "done"
    BY <2>1 DEF Linked, Held
  <2>3. stdin[p] \in Seq(Text) /\ writes[p] \in Nat /\ bye[p] \in Nat \cup {None}
    BY DEF StdinType, CountType
  <2>4. PICK b, line : /\ stdin' = [stdin EXCEPT ![p] = Append(@, line)]
                       /\ bye' = [bye EXCEPT ![p] = b]
                       /\ \/ line = Spoilt /\ b = None
                          \/ line = Disconnect /\ b = writes[p]
    <3>1. CASE torn[p]
      <4>1. bye' = [bye EXCEPT ![p] = None]
        BY <1>3, <2>2, <3>1 DEF HangUp, CountType
      <4> QED
        BY <1>3, <3>1, <4>1 DEF HangUp
    <3>2. CASE ~ torn[p]
      BY <1>3, <3>2 DEF HangUp
    <3> QED
      BY <3>1, <3>2
  <2>5. ASSUME NEW k \in Nat, Pipe(stdin[p], k, writes[p], bye[p])
        PROVE  Pipe(stdin'[p], k, writes[p], bye'[p])
    <3>1. stdin'[p] = Append(stdin[p], line) /\ bye'[p] = b
      BY <2>4 DEF StdinType, CountType
    <3>2. Pipe(Append(stdin[p], Spoilt), k, writes[p], None) /\ Pipe(Append(stdin[p], Disconnect), k, writes[p], writes[p])
      BY <2>2, <2>3, <2>5, PipeSpoilt, PipeBye
    <3> QED
      BY <2>4, <3>1, <3>2
  <2>6. \A q \in Procs : q # p => stdin'[q] = stdin[q] /\ bye'[q] = bye[q]
    BY <2>4 DEF StdinType, CountType
  <2>7. \A k \in Nat : k + 1 \in Nat
    OBVIOUS
  <2> QED
    BY <2>1, <2>2, <2>5, <2>6, <2>7 DEF Commands
<1>4. ASSUME NEW p \in Procs, ReadLine(p) PROVE Commands'
  <2>1. /\ stdin[p] # <<>> /\ reader[p] = "reading" /\ stdin' = [stdin EXCEPT ![p] = Tail(@)]
        /\ UNCHANGED <<writes, bye, done>>
    BY <1>4 DEF ReadLine, daemon, written
  <2>2. PICK k \in Nat : done[p] = 1 .. k /\ Pipe(stdin[p], k, writes[p], bye[p])
    BY <2>1 DEF Commands
  <2>3. stdin[p] \in Seq(Text) /\ writes[p] \in Nat /\ bye[p] \in Nat \cup {None} /\ Spoilt # Disconnect
    BY Constants DEF StdinType, CountType, Disconnect
  <2>4. /\ Head(stdin[p]) = Disconnect => bye[p] # None /\ k = bye[p]
        /\ Head(stdin[p]) = Spoilt => Pipe(Tail(stdin[p]), k, writes[p], bye[p])
        /\ Head(stdin[p]) \notin {Disconnect, Spoilt} =>
               Head(stdin[p]) = k + 1 /\ Pipe(Tail(stdin[p]), k + 1, writes[p], bye[p])
    BY <2>1, <2>2, <2>3, PipeReads
  <2>5. /\ stdin'[p] = Tail(stdin[p])
        /\ \A q \in Procs : q # p => /\ stdin'[q] = stdin[q] /\ reader'[q] = reader[q]
                                     /\ current'[q] = current[q]
    BY <1>4, <2>1 DEF ReadLine, StdinType, ReaderType
  <2>6. CASE Head(stdin[p]) = Disconnect
    <3>1. reader'[p] = "done"
      BY <1>4, <2>3, <2>6 DEF ReadLine, ReaderType
    <3>2. bye[p] \in 0 .. writes[p] /\ done[p] = 1 .. bye[p] /\ bye[p] # None
      BY <2>2, <2>3, <2>4, <2>6 DEF Pipe
    <3> QED
      BY <2>1, <2>5, <3>1, <3>2 DEF Commands
  <2>7. CASE Head(stdin[p]) = Spoilt
    <3>1. reader'[p] = "reading"
      BY <1>4, <2>3, <2>7 DEF ReadLine, ReaderType
    <3> QED
      BY <2>1, <2>2, <2>4, <2>5, <2>7, <3>1 DEF Commands
  <2>8. CASE Head(stdin[p]) \notin {Disconnect, Spoilt}
    <3>1. reader'[p] = "writing" /\ current'[p] = Head(stdin[p])
      BY <1>4, <2>8 DEF ReadLine, ReaderType
    <3> QED
      BY <2>1, <2>2, <2>4, <2>5, <2>8, <3>1 DEF Commands
  <2> QED
    BY <2>6, <2>7, <2>8
<1>5. ASSUME NEW p \in Procs, ReadEnd(p) PROVE Commands'
  <2>1. /\ reader[p] = "reading" /\ stdin[p] = <<>>
        /\ reader' = reader \/ reader' = [reader EXCEPT ![p] = "done"]
        /\ UNCHANGED <<stdin, writes, bye, current, done>>
    BY <1>5 DEF ReadEnd, PipeEnds, daemon, written
  <2>2. PICK k \in Nat : done[p] = 1 .. k /\ Pipe(<<>>, k, writes[p], bye[p])
    BY <2>1 DEF Commands
  <2>3. bye[p] = None /\ done[p] = 1 .. writes[p]
    <3>1. writes[p] \in Nat
      BY DEF CountType
    <3> QED
      BY <2>2, <3>1, PipeEmpty
  <2> QED
    BY <2>1, <2>3 DEF Commands, ReaderType
<1>6. ASSUME NEW p \in Procs, WriteEnds(p) PROVE Commands'
  <2>1. /\ reader[p] = "writing" /\ reader' = [reader EXCEPT ![p] = "reading"]
        /\ done' = [done EXCEPT ![p] = @ \cup {current[p]}]
        /\ current' = [current EXCEPT ![p] = None] /\ UNCHANGED <<stdin, writes, bye>>
    BY <1>6 DEF WriteEnds, daemon, pipe, written
  <2>2. PICK k \in Nat : /\ current[p] = k + 1 /\ done[p] = 1 .. k
                         /\ Pipe(stdin[p], k + 1, writes[p], bye[p])
    BY <2>1 DEF Commands
  <2>3. k + 1 \in Nat /\ done[p] \cup {current[p]} = 1 .. k + 1
    BY <2>2
  <2>4. /\ reader'[p] = "reading" /\ done'[p] = done[p] \cup {current[p]}
        /\ \A q \in Procs : q # p => /\ reader'[q] = reader[q] /\ current'[q] = current[q]
                                     /\ done'[q] = done[q]
    BY <2>1 DEF ReaderType, CountType
  <2>5. done'[p] = 1 .. k + 1 /\ Pipe(stdin'[p], k + 1, writes'[p], bye'[p])
    BY <2>1, <2>2, <2>3, <2>4
  <2> QED
    BY <2>1, <2>3, <2>4, <2>5 DEF Commands
<1>7. ASSUME NEW p \in Procs, Spawn(p) \/ Connected(p) \/ NotConnected(p) \/ DaemonReads(p) \/
             Call(p) \/ Drain(p) \/ Waits(p) \/ CallEnds(p) \/ TakesOut(p) \/ HangUpCut(p) \/
             Detach(p) \/ Opens(p) \/ OpenFails(p) \/ Prints(p) \/ PrintBreaks(p) \/
             GatherEnds(p) \/ Closes(p) \/ MoverStarts(p) \/ ThreadTakes(p) \/
             ThreadFindsNone(p) \/ MoverPuts(p) \/ WaitRunsOut(p) \/ MoverLate(p) \/ Notify(p)
             \/ Hears(p) \/ Drops(p)
      PROVE  Commands'
  <2>1. UNCHANGED <<stdin, writes, bye, reader, current, done>>
    BY <1>7 DEF Spawn, Connected, NotConnected, DaemonReads, Call, Drain, Waits, CallEnds,
       TakesOut, HangUpCut, Detach, Opens, OpenFails, Prints, PrintBreaks, GatherEnds, Closes,
       MoverStarts, ThreadTakes, ThreadFindsNone, MoverPuts, WaitRunsOut, MoverLate, Notify,
       Hears, Drops, Leaves, Moved, fleet, calls, pipe, written, daemon, loops, queues, panel,
       bridge
  <2> QED
    BY <2>1 DEF Commands
<1>8. CASE DaemonDies
  <2>1. UNCHANGED <<stdin, writes, bye, reader, current, done>>
    BY <1>8 DEF DaemonDies, fleet, calls, pipe, written, daemon, loops, queues, panel, bridge
  <2> QED
    BY <2>1 DEF Commands
<1>9. CASE UNCHANGED vars
  <2>1. UNCHANGED <<stdin, writes, bye, reader, current, done>>
    BY <1>9 DEF vars, fleet, calls, pipe, written, daemon, loops, queues, panel, bridge
  <2> QED
    BY <2>1 DEF Commands
<1> QED
  BY <1>1, <1>2, <1>3, <1>4, <1>5, <1>6, <1>7, <1>8, <1>9 DEF Next, Connects, Bridge, Moves,
     Calls, Unlinks

-----------------------------------------------------------------------------
(* Frames stay in order if those of one bridge do and nothing else moves.   *)
Kept(q) == /\ stdout'[q] = stdout[q] /\ printing'[q] = printing[q] /\ notes'[q] = notes[q]
           /\ hand'[q] = hand[q] /\ rxQueue'[q] = rxQueue[q] /\ lost'[q] = lost[q]
           /\ taken'[q] = taken[q] /\ heard'[q] = heard[q] /\ main'[q] = main[q]

LEMMA OneBridge ==
    ASSUME NEW p \in Procs, FramesInOrder, alive' => alive, \A q \in Procs : q # p => Kept(q),
           alive' /\ main'[p] = "running" =>
               InOrder(Lines(p)', Way(p)', taken'[p], heard'[p], lost'[p])
    PROVE  FramesInOrder'
<1>1. ASSUME NEW q \in Procs, alive', main'[q] = "running"
      PROVE  InOrder(Lines(q)', Way(q)', taken'[q], heard'[q], lost'[q])
  <2>1. CASE q = p
    BY <1>1, <2>1
  <2>2. CASE q # p
    <3>1. Lines(q)' = Lines(q) /\ Way(q)' = Way(q) /\ Kept(q)
      BY <2>2 DEF Lines, Way, InHand, Kept
    <3>2. InOrder(Lines(q), Way(q), taken[q], heard[q], lost[q])
      BY <1>1, <3>1 DEF FramesInOrder, Kept
    <3> QED
      BY <3>1, <3>2 DEF Kept
  <2> QED
    BY <2>1, <2>2
<1> QED
  BY <1>1 DEF FramesInOrder

(* A frame in hand is behind the notes and ahead of the queue.              *)
LEMMA WayIs ==
    ASSUME NEW n \in Seq(Nat), NEW x \in Nat \cup {None}, NEW r \in Seq(Nat)
    PROVE  /\ x = None => (n \o (IF x = None THEN <<>> ELSE <<x>>)) \o r = n \o r
           /\ x # None => (n \o (IF x = None THEN <<>> ELSE <<x>>)) \o r = Append(n, x) \o r
<1>1. n \o <<>> = n
  BY ConcatEmptySeq
<1>2. x # None => n \o <<x>> = Append(n, x)
  BY AppendIsConcat
<1> QED
  BY <1>1, <1>2

LEMMA WayType ==
    ASSUME StdoutType, TaskType, QueueType, CountType, NEW p \in Procs
    PROVE  /\ Lines(p) \in Seq(Line) /\ stdout[p] \in Seq(Line) /\ Way(p) \in Seq(Nat)
           /\ notes[p] \in Seq(Nat) /\ rxQueue[p] \in Seq(Nat) /\ taken[p] \in Nat /\ heard[p] \in Nat
           /\ InHand(p) \in Seq(Nat)
           /\ hand[p] = None => Way(p) = notes[p] \o rxQueue[p]
           /\ hand[p] # None => hand[p] \in Nat /\ Way(p) = Append(notes[p], hand[p]) \o rxQueue[p]
<1>1. stdout[p] \in Seq(Line) /\ printing[p] \in Line \cup {None}
  BY DEF StdoutType, TaskType
<1>2. Lines(p) \in Seq(Line)
  BY <1>1 DEF Lines
<1>3. notes[p] \in Seq(Nat) /\ rxQueue[p] \in Seq(Nat) /\ hand[p] \in Nat \cup {None}
  BY DEF QueueType, Nats
<1>4. InHand(p) \in Seq(Nat)
  <2>1. CASE hand[p] = None
    BY <2>1 DEF InHand
  <2>2. CASE hand[p] # None
    <3>1. hand[p] \in Nat
      BY <1>3, <2>2
    <3> QED
      BY <2>2, <3>1 DEF InHand
  <2> QED
    BY <2>1, <2>2
<1>5. /\ hand[p] = None => Way(p) = notes[p] \o rxQueue[p]
      /\ hand[p] # None => Way(p) = Append(notes[p], hand[p]) \o rxQueue[p]
  BY <1>3, WayIs DEF Way, InHand
<1>6. Way(p) \in Seq(Nat)
  <2>1. hand[p] # None => Append(notes[p], hand[p]) \in Seq(Nat)
    BY <1>3
  <2> QED
    BY <1>3, <1>5, <2>1, ConcatProperties
<1> QED
  BY <1>1, <1>2, <1>3, <1>5, <1>6, <1>4 DEF CountType

(* The daemon takes the line in front.                                      *)
LEMMA ReadInOrder ==
    ASSUME StdoutType, TaskType, QueueType, CountType, FramesInOrder, NEW p \in Procs,
           stdout[p] # <<>>, stdout' = [stdout EXCEPT ![p] = Tail(@)],
           UNCHANGED <<alive, main, printing, notes, hand, rxQueue, lost, heard>>,
           \/ Head(stdout[p]).type # "notification" /\ UNCHANGED taken
           \/ /\ Head(stdout[p]).type = "notification"
              /\ taken' = [taken EXCEPT ![p] = Head(stdout[p]).n]
    PROVE  FramesInOrder'
<1>1. \A q \in Procs : q # p => Kept(q)
  BY DEF Kept, StdoutType, CountType
<1>2. /\ Lines(p) # <<>> /\ Head(Lines(p)) = Head(stdout[p]) /\ Lines(p)' = Tail(Lines(p))
  <2>1. stdout'[p] = Tail(stdout[p]) /\ stdout[p] \in Seq(Line)
    BY DEF StdoutType
  <2>2. \A x : /\ Append(stdout[p], x) # <<>> /\ Head(Append(stdout[p], x)) = Head(stdout[p])
               /\ Append(Tail(stdout[p]), x) = Tail(Append(stdout[p], x))
    BY <2>1
  <2> QED
    BY <2>1, <2>2 DEF Lines
<1>3. ASSUME alive, main[p] = "running"
      PROVE  InOrder(Lines(p)', Way(p)', taken'[p], heard'[p], lost'[p])
  <2>1. InOrder(Lines(p), Way(p), taken[p], heard[p], lost[p])
    BY <1>3 DEF FramesInOrder
  <2>2. InOrder(Tail(Lines(p)), Way(p),
                IF Head(Lines(p)).type = "notification" THEN Head(Lines(p)).n ELSE taken[p],
                heard[p], lost[p])
    BY <1>2, <2>1, WayType, ReadKeepsOrder
  <2>3. taken'[p] = IF Head(Lines(p)).type = "notification" THEN Head(Lines(p)).n ELSE taken[p]
    BY <1>2 DEF CountType
  <2>4. Way(p)' = Way(p)
    BY DEF Way, InHand
  <2> QED
    BY <1>2, <2>2, <2>3, <2>4
<1> QED
  BY <1>1, <1>3, OneBridge

(* A task prints a line that is no frame, or none.                          *)
LEMMA ComplainsInOrder ==
    ASSUME StdoutType, TaskType, QueueType, CountType, FramesInOrder, NEW p \in Procs,
           main[p] = "running", printing[p] = None, UNCHANGED printing \/ Complains(p),
           UNCHANGED <<alive, main, stdout, notes, hand, rxQueue, lost, taken, heard>>
    PROVE  FramesInOrder'
<1> DEFINE line == [type |-> "error"]
<1>1. \A q \in Procs : q # p => Kept(q)
  BY DEF Kept, TaskType, Complains
<1>2. ASSUME alive PROVE InOrder(Lines(p), Way(p), taken[p], heard[p], lost[p])
  BY <1>2 DEF FramesInOrder
<1>3. line \in Line /\ line.type # "notification" /\ line # None
  BY Constants DEF Line
<1>4. /\ Lines(p) = stdout[p] /\ (Lines(p)' = stdout[p] \/ Lines(p)' = Append(stdout[p], line))
      /\ Way(p)' = Way(p)
  BY <1>3 DEF Lines, TaskType, Complains, Way, InHand
<1>5. ASSUME alive PROVE InOrder(Append(stdout[p], line), Way(p), taken[p], heard[p], lost[p])
  BY <1>2, <1>3, <1>4, <1>5, WayType, OtherKeepsOrder
<1> QED
  BY <1>1, <1>2, <1>4, <1>5, OneBridge

(* A frame moves from queue to queue and into the pipe, the one in front first. *)
LEMMA FramesStep ==
    StdoutType /\ TaskType /\ QueueType /\ CountType /\ HeardOnly /\ Unborn /\ FramesInOrder
    /\ [Next]_vars => FramesInOrder'
<1> SUFFICES ASSUME StdoutType, TaskType, QueueType, CountType, HeardOnly, Unborn,
                FramesInOrder, [Next]_vars
             PROVE  FramesInOrder'
  OBVIOUS
<1>1. ASSUME NEW p \in Procs, Spawn(p) PROVE FramesInOrder'
  <2>1. main'[p] # "running" /\ alive' = alive
    BY <1>1 DEF Spawn, TaskType, daemon, fleet
  <2>2. \A q \in Procs : q # p => Kept(q)
    BY <1>1 DEF Kept, Spawn, TaskType, StdoutType, daemon, calls, queues, panel
  <2> QED
    BY <2>1, <2>2, OneBridge
<1>2. ASSUME NEW p \in Procs, Connected(p) PROVE FramesInOrder'
  <2>1. /\ stdout[p] # <<>> /\ Head(stdout[p]).type # "notification"
        /\ stdout' = [stdout EXCEPT ![p] = Tail(@)]
        /\ UNCHANGED <<alive, main, printing, notes, hand, rxQueue, lost, heard, taken>>
    BY <1>2 DEF Connected, FirstLine, Spoken, calls, queues, panel
  <2> QED
    BY <2>1, ReadInOrder
<1>3. ASSUME NEW p \in Procs, NotConnected(p) PROVE FramesInOrder'
  <2>1. main'[p] # "running" /\ alive' = alive
    BY <1>3 DEF NotConnected, Gone, TaskType, daemon, fleet
  <2>2. \A q \in Procs : q # p => Kept(q)
    BY <1>3 DEF Kept, NotConnected, Gone, TaskType, StdoutType, daemon, calls, queues, panel
  <2> QED
    BY <2>1, <2>2, OneBridge
<1>4. ASSUME NEW p \in Procs, DaemonReads(p) PROVE FramesInOrder'
  <2>1. /\ stdout[p] # <<>> /\ stdout' = [stdout EXCEPT ![p] = Tail(@)]
        /\ UNCHANGED <<alive, main, printing, notes, hand, rxQueue, lost, heard>>
        /\ \/ Head(stdout[p]).type # "notification" /\ UNCHANGED taken
           \/ /\ Head(stdout[p]).type = "notification"
              /\ taken' = [taken EXCEPT ![p] = Head(stdout[p]).n]
    BY <1>4 DEF DaemonReads, Spoken, fleet, queues, panel
  <2> QED
    BY <2>1, ReadInOrder
<1>5. ASSUME NEW p \in Procs, Opens(p) PROVE FramesInOrder'
  <2>0. /\ Lines(p) \in Seq(Line) /\ stdout[p] \in Seq(Line) /\ Way(p) \in Seq(Nat)
        /\ notes[p] \in Seq(Nat) /\ rxQueue[p] \in Seq(Nat) /\ taken[p] \in Nat /\ heard[p] \in Nat
        /\ InHand(p) \in Seq(Nat) /\ (hand[p] = None => Way(p) = notes[p] \o rxQueue[p])
        /\ hand[p] # None => hand[p] \in Nat /\ Way(p) = Append(notes[p], hand[p]) \o rxQueue[p]
    BY WayType
  <2> DEFINE line == [type |-> "connected"]
  <2>1. /\ stdout[p] = <<>> /\ printing[p] = None /\ notes[p] = <<>> /\ rxQueue[p] = <<>>
        /\ hand[p] = None /\ lost[p] = {} /\ heard[p] = 0 /\ taken[p] = 0
    BY <1>5 DEF Opens, Unborn
  <2>2. /\ stdout' = [stdout EXCEPT ![p] = Append(@, line)]
        /\ UNCHANGED <<alive, printing, notes, hand, rxQueue, lost, taken, heard>>
        /\ \A q \in Procs : q # p => main'[q] = main[q]
    BY <1>5 DEF Opens, TaskType, daemon, fleet, calls, queues
  <2>3. InOrder(<<>>, <<>>, 0, 0, {})
    <3>1. Notified(<<>>) = {} /\ DOMAIN <<>> = {} /\ 0 + 1 .. 0 = {}
      BY DEF Notified
    <3>2. \A f : DOMAIN f = {} => Range(f) = {}
      BY DEF Range
    <3>3. DOMAIN ToldOf(<<>>) = {}
      BY <3>1 DEF ToldOf
    <3>4. Range(ToldOf(<<>>)) \cup Range(<<>>) = (0 + 1 .. 0) \ {}
      BY <3>1, <3>2, <3>3
    <3>5. Rising(ToldOf(<<>>), DOMAIN ToldOf(<<>>)) /\ Rising(<<>>, DOMAIN <<>>)
      BY <3>1, <3>3 DEF Rising
    <3>6. \A i \in DOMAIN ToldOf(<<>>), j \in DOMAIN <<>> : ToldOf(<<>>)[i] < <<>>[j]
      BY <3>3
    <3> QED
      BY <3>4, <3>5, <3>6 DEF InOrder, ToldOf
  <2>4. InOrder(Append(<<>>, line), <<>>, 0, 0, {})
    <3>1. line \in Line /\ line.type # "notification" /\ <<>> \in Seq(Line)
      BY DEF Line
    <3> QED
      BY <2>3, <3>1, OtherKeepsOrder
  <2>5. /\ Lines(p)' = Append(<<>>, line) /\ Way(p)' = Way(p) /\ Way(p) = <<>>
        /\ taken'[p] = 0 /\ heard'[p] = 0 /\ lost'[p] = {}
    <3>1. <<>> \o <<>> = <<>>
      OBVIOUS
    <3> QED
      BY <2>0, <2>1, <2>2, <3>1 DEF Lines, StdoutType, Way, InHand
  <2>6. \A q \in Procs : q # p => Kept(q)
    BY <2>2 DEF Kept, StdoutType
  <2> QED
    BY <2>2, <2>4, <2>5, <2>6, OneBridge
<1>6. ASSUME NEW p \in Procs, OpenFails(p) PROVE FramesInOrder'
  <2>1. main'[p] # "running" /\ alive' = alive
    BY <1>6 DEF OpenFails, Gone, TaskType, daemon, fleet
  <2>2. \A q \in Procs : q # p => Kept(q)
    BY <1>6 DEF Kept, OpenFails, Gone, TaskType, StdoutType, daemon, calls, queues, panel
  <2> QED
    BY <2>1, <2>2, OneBridge
<1>7. ASSUME NEW p \in Procs, ReadLine(p) PROVE FramesInOrder'
  <2>1. /\ main[p] = "running" /\ printing[p] = None /\ (UNCHANGED printing \/ Complains(p))
        /\ UNCHANGED <<alive, main, stdout, notes, hand, rxQueue, lost, taken, heard>>
    BY <1>7 DEF ReadLine, Runs, daemon, fleet, calls, queues, panel
  <2> QED
    BY <2>1, ComplainsInOrder
<1>8. ASSUME NEW p \in Procs, ReadEnd(p) PROVE FramesInOrder'
  <2>1. /\ main[p] = "running" /\ printing[p] = None /\ (UNCHANGED printing \/ Complains(p))
        /\ UNCHANGED <<alive, main, stdout, notes, hand, rxQueue, lost, taken, heard>>
    BY <1>8 DEF ReadEnd, Runs, daemon, fleet, calls, queues, panel
  <2> QED
    BY <2>1, ComplainsInOrder
<1>9. ASSUME NEW p \in Procs, WriteEnds(p) PROVE FramesInOrder'
  <2>1. /\ main[p] = "running" /\ printing[p] = None /\ (UNCHANGED printing \/ Complains(p))
        /\ UNCHANGED <<alive, main, stdout, notes, hand, rxQueue, lost, taken, heard>>
    BY <1>9 DEF WriteEnds, Runs, daemon, fleet, calls, queues, panel
  <2> QED
    BY <2>1, ComplainsInOrder
<1>10. ASSUME NEW p \in Procs, Prints(p) PROVE FramesInOrder'
  <2>1. /\ main[p] = "running" /\ printing[p] # None
        /\ stdout' = [stdout EXCEPT ![p] = Append(@, printing[p])]
        /\ printing' = [printing EXCEPT ![p] = None]
        /\ UNCHANGED <<alive, main, notes, hand, rxQueue, lost, taken, heard>>
    BY <1>10 DEF Prints, HasRoom, fleet, calls, pipe, written, daemon, loops, queues, panel, bridge
  <2>2. \A q \in Procs : q # p => Kept(q)
    BY <2>1 DEF Kept, TaskType, StdoutType
  <2>3. ASSUME alive PROVE InOrder(Lines(p), Way(p), taken[p], heard[p], lost[p])
    BY <2>1, <2>3 DEF FramesInOrder
  <2>4. Lines(p)' = Lines(p) /\ Way(p)' = Way(p)
    BY <2>1 DEF Lines, TaskType, StdoutType, Way, InHand
  <2> QED
    BY <2>1, <2>2, <2>3, <2>4, OneBridge
<1>11. ASSUME NEW p \in Procs, PrintBreaks(p) PROVE FramesInOrder'
  <2>1. ~ alive'
    BY <1>11 DEF PrintBreaks, daemon, fleet
  <2> QED
    BY <2>1 DEF FramesInOrder
<1>12. ASSUME NEW p \in Procs, GatherEnds(p) PROVE FramesInOrder'
  <2>1. main'[p] # "running" /\ alive' = alive
    BY <1>12 DEF GatherEnds, TaskType, daemon, fleet
  <2>2. \A q \in Procs : q # p => Kept(q)
    BY <1>12 DEF Kept, GatherEnds, TaskType, StdoutType, daemon, calls, queues, panel
  <2> QED
    BY <2>1, <2>2, OneBridge
<1>13. ASSUME NEW p \in Procs, Closes(p) PROVE FramesInOrder'
  <2>1. main'[p] # "running" /\ alive' = alive
    BY <1>13 DEF Closes, Gone, TaskType, daemon, fleet
  <2>2. \A q \in Procs : q # p => Kept(q)
    BY <1>13 DEF Kept, Closes, Gone, TaskType, StdoutType, daemon, calls, queues, panel
  <2> QED
    BY <2>1, <2>2, OneBridge
<1>14. ASSUME NEW p \in Procs, ThreadTakes(p) PROVE FramesInOrder'
  <2>0. /\ Lines(p) \in Seq(Line) /\ stdout[p] \in Seq(Line) /\ Way(p) \in Seq(Nat)
        /\ notes[p] \in Seq(Nat) /\ rxQueue[p] \in Seq(Nat) /\ taken[p] \in Nat /\ heard[p] \in Nat
        /\ InHand(p) \in Seq(Nat) /\ (hand[p] = None => Way(p) = notes[p] \o rxQueue[p])
        /\ hand[p] # None => hand[p] \in Nat /\ Way(p) = Append(notes[p], hand[p]) \o rxQueue[p]
    BY WayType
  <2>1. /\ main[p] = "running" /\ hand[p] = None /\ rxQueue[p] # <<>>
        /\ hand' = [hand EXCEPT ![p] = Head(rxQueue[p])] /\ rxQueue' = [rxQueue EXCEPT ![p] = Tail(@)]
        /\ UNCHANGED <<alive, main, stdout, printing, notes, lost, taken, heard>>
    BY <1>14 DEF ThreadTakes, Moved, fleet, calls, pipe, written, daemon, loops, queues, panel, bridge
  <2>2. \A q \in Procs : q # p => Kept(q)
    BY <2>1 DEF Kept, QueueType
  <2>3. ASSUME alive PROVE InOrder(Lines(p), Way(p), taken[p], heard[p], lost[p])
    BY <2>1, <2>3 DEF FramesInOrder
  <2>4. Append(notes[p], Head(rxQueue[p])) \o Tail(rxQueue[p]) = notes[p] \o rxQueue[p]
    BY <2>0, <2>1, MovesAlong
  <2>5. Head(rxQueue[p]) \in Nat /\ Tail(rxQueue[p]) \in Seq(Nat)
    BY <2>0, <2>1
  <2>6. hand'[p] = Head(rxQueue[p]) /\ rxQueue'[p] = Tail(rxQueue[p]) /\ notes'[p] = notes[p]
    BY <2>1 DEF QueueType
  <2>7. Way(p)' = Way(p) /\ Lines(p)' = Lines(p)
    <3>1. Head(rxQueue[p]) # None
      BY <2>5, Constants
    <3>2. InHand(p)' = <<Head(rxQueue[p])>>
      BY <2>6, <3>1 DEF InHand
    <3>3. notes[p] \o <<Head(rxQueue[p])>> = Append(notes[p], Head(rxQueue[p]))
      BY <2>0, <2>5, AppendIsConcat
    <3>4. Way(p)' = Append(notes[p], Head(rxQueue[p])) \o Tail(rxQueue[p])
      BY <2>6, <3>2, <3>3 DEF Way
    <3> QED
      BY <2>0, <2>1, <2>4, <3>4 DEF Lines
  <2> QED
    BY <2>1, <2>2, <2>3, <2>7, OneBridge
<1>15. ASSUME NEW p \in Procs, MoverPuts(p) PROVE FramesInOrder'
  <2>0. /\ Lines(p) \in Seq(Line) /\ stdout[p] \in Seq(Line) /\ Way(p) \in Seq(Nat)
        /\ notes[p] \in Seq(Nat) /\ rxQueue[p] \in Seq(Nat) /\ taken[p] \in Nat /\ heard[p] \in Nat
        /\ InHand(p) \in Seq(Nat) /\ (hand[p] = None => Way(p) = notes[p] \o rxQueue[p])
        /\ hand[p] # None => hand[p] \in Nat /\ Way(p) = Append(notes[p], hand[p]) \o rxQueue[p]
    BY WayType
  <2>1. /\ main[p] = "running" /\ hand[p] # None
        /\ hand' = [hand EXCEPT ![p] = None] /\ notes' = [notes EXCEPT ![p] = Append(@, hand[p])]
        /\ UNCHANGED <<alive, main, stdout, printing, rxQueue, lost, taken, heard>>
    BY <1>15 DEF MoverPuts, Runs, PutFrame, GoesOn, Moved, fleet, calls, pipe, written, daemon, loops, queues, panel, bridge
  <2>2. \A q \in Procs : q # p => Kept(q)
    BY <2>1 DEF Kept, QueueType
  <2>3. ASSUME alive PROVE InOrder(Lines(p), Way(p), taken[p], heard[p], lost[p])
    BY <2>1, <2>3 DEF FramesInOrder
  <2>4. hand'[p] = None /\ rxQueue'[p] = rxQueue[p] /\ notes'[p] = Append(notes[p], hand[p])
    BY <2>1 DEF QueueType
  <2>5. Append(notes[p], hand[p]) \in Seq(Nat)
    <3>1. hand[p] \in Nat /\ notes[p] \in Seq(Nat)
      BY <2>0, <2>1
    <3> QED
      BY <3>1
  <2>6. Way(p)' = Way(p) /\ Lines(p)' = Lines(p)
    <3>1. Append(notes[p], hand[p]) \o <<>> = Append(notes[p], hand[p])
      BY <2>5, ConcatEmptySeq
    <3> QED
      BY <2>0, <2>1, <2>4, <3>1 DEF Way, InHand, Lines
  <2> QED
    BY <2>1, <2>2, <2>3, <2>6, OneBridge
<1>16. ASSUME NEW p \in Procs, MoverLate(p) PROVE FramesInOrder'
  <2>0. /\ Lines(p) \in Seq(Line) /\ stdout[p] \in Seq(Line) /\ Way(p) \in Seq(Nat)
        /\ notes[p] \in Seq(Nat) /\ rxQueue[p] \in Seq(Nat) /\ taken[p] \in Nat /\ heard[p] \in Nat
        /\ InHand(p) \in Seq(Nat) /\ (hand[p] = None => Way(p) = notes[p] \o rxQueue[p])
        /\ hand[p] # None => hand[p] \in Nat /\ Way(p) = Append(notes[p], hand[p]) \o rxQueue[p]
    BY WayType
  <2>1. /\ main[p] = "running" /\ hand' = [hand EXCEPT ![p] = None]
        /\ lost' = [lost EXCEPT ![p] = @ \cup ({hand[p]} \ {None})]
        /\ UNCHANGED <<alive, main, stdout, printing, notes, rxQueue, taken, heard>>
    BY <1>16 DEF MoverLate, Runs, LetGo, GoesOn, Moved, fleet, calls, pipe, written, daemon, loops, queues, panel, bridge
  <2>2. \A q \in Procs : q # p => Kept(q)
    BY <2>1 DEF Kept, QueueType, CountType
  <2>3. ASSUME alive PROVE InOrder(Lines(p), Way(p), taken[p], heard[p], lost[p])
    BY <2>1, <2>3 DEF FramesInOrder
  <2>4. /\ hand'[p] = None /\ rxQueue'[p] = rxQueue[p] /\ notes'[p] = notes[p]
        /\ lost'[p] = lost[p] \cup ({hand[p]} \ {None})
    BY <2>1 DEF QueueType, CountType
  <2>5. Way(p)' = notes[p] \o rxQueue[p] /\ Lines(p)' = Lines(p)
    <3>1. notes[p] \o <<>> = notes[p]
      BY <2>0, ConcatEmptySeq
    <3> QED
      BY <2>1, <2>4, <3>1 DEF Way, InHand, Lines
  <2>6. CASE hand[p] = None
    <3>1. lost'[p] = lost[p]
      BY <2>4, <2>6
    <3> QED
      BY <2>0, <2>1, <2>2, <2>3, <2>5, <2>6, <3>1, OneBridge
  <2>7. CASE hand[p] # None
    <3>1. lost'[p] = lost[p] \cup {hand[p]}
      BY <2>4, <2>7
    <3>2. ASSUME alive PROVE InOrder(Lines(p), notes[p] \o rxQueue[p], taken[p], heard[p], lost[p] \cup {hand[p]})
      BY <2>0, <2>3, <2>7, <3>2, LetGoKeepsOrder
    <3> QED
      BY <2>1, <2>2, <2>5, <3>1, <3>2, OneBridge
  <2> QED
    BY <2>6, <2>7
<1>17. ASSUME NEW p \in Procs, Notify(p) PROVE FramesInOrder'
  <2>0. /\ Lines(p) \in Seq(Line) /\ stdout[p] \in Seq(Line) /\ Way(p) \in Seq(Nat)
        /\ notes[p] \in Seq(Nat) /\ rxQueue[p] \in Seq(Nat) /\ taken[p] \in Nat /\ heard[p] \in Nat
        /\ InHand(p) \in Seq(Nat) /\ (hand[p] = None => Way(p) = notes[p] \o rxQueue[p])
        /\ hand[p] # None => hand[p] \in Nat /\ Way(p) = Append(notes[p], hand[p]) \o rxQueue[p]
    BY WayType
  <2> DEFINE line == [type |-> "notification", n |-> Head(notes[p])]
  <2>1. /\ main[p] = "running" /\ printing[p] = None /\ notes[p] # <<>>
        /\ printing' = [printing EXCEPT ![p] = line] /\ notes' = [notes EXCEPT ![p] = Tail(@)]
        /\ UNCHANGED <<alive, main, stdout, hand, rxQueue, lost, taken, heard>>
    BY <1>17 DEF Notify, Runs, daemon, fleet, calls, panel
  <2>2. \A q \in Procs : q # p => Kept(q)
    BY <2>1 DEF Kept, QueueType, TaskType
  <2>3. ASSUME alive PROVE InOrder(Lines(p), Way(p), taken[p], heard[p], lost[p])
    BY <2>1, <2>3 DEF FramesInOrder
  <2>4. Way(p) # <<>> /\ Head(Way(p)) = Head(notes[p]) /\ Tail(Way(p)) = Way(p)'
    <3> DEFINE front == notes[p] \o InHand(p)
    <3>1. InHand(p) \in Seq(Nat) /\ front \in Seq(Nat)
      BY <2>0, ConcatProperties
    <3>2. front # <<>> /\ Head(front) = Head(notes[p]) /\ Tail(front) = Tail(notes[p]) \o InHand(p)
      BY <2>0, <2>1, <3>1, FirstOfTwo
    <3>3. Way(p) = front \o rxQueue[p] /\ Way(p)' = (Tail(notes[p]) \o InHand(p)) \o rxQueue[p]
      BY <2>1 DEF Way, InHand, QueueType
    <3> HIDE DEF front
    <3>4. /\ front \o rxQueue[p] # <<>> /\ Head(front \o rxQueue[p]) = Head(front)
          /\ Tail(front \o rxQueue[p]) = Tail(front) \o rxQueue[p]
      BY <2>0, <3>1, <3>2, FirstOfTwo
    <3> QED
      BY <3>2, <3>3, <3>4
  <2>5. line # None
    <3>1. line \in Line
      BY <2>0, <2>1 DEF Line
    <3> QED
      BY <3>1, Constants
  <2>6. Lines(p) = stdout[p] /\ Lines(p)' = Append(stdout[p], line)
    BY <2>1, <2>5 DEF Lines, TaskType
  <2>7. ASSUME alive PROVE InOrder(Append(stdout[p], line), Tail(Way(p)), taken[p], heard[p], lost[p])
    BY <2>0, <2>3, <2>4, <2>6, <2>7, PrintKeepsOrder
  <2> QED
    BY <2>1, <2>2, <2>4, <2>6, <2>7, OneBridge
<1>18. ASSUME NEW p \in Procs, Hears(p) PROVE FramesInOrder'
  <2>0. /\ Lines(p) \in Seq(Line) /\ stdout[p] \in Seq(Line) /\ Way(p) \in Seq(Nat)
        /\ notes[p] \in Seq(Nat) /\ rxQueue[p] \in Seq(Nat) /\ taken[p] \in Nat /\ heard[p] \in Nat
        /\ InHand(p) \in Seq(Nat) /\ (hand[p] = None => Way(p) = notes[p] \o rxQueue[p])
        /\ hand[p] # None => hand[p] \in Nat /\ Way(p) = Append(notes[p], hand[p]) \o rxQueue[p]
    BY WayType
  <2>1. /\ main[p] = "running" /\ heard' = [heard EXCEPT ![p] = @ + 1]
        /\ rxQueue' = [rxQueue EXCEPT ![p] = Append(@, heard[p] + 1)]
        /\ UNCHANGED <<alive, main, stdout, printing, notes, hand, lost, taken>>
    BY <1>18 DEF Hears, fleet, calls, pipe, written, daemon, loops, queues, panel, bridge
  <2>2. \A q \in Procs : q # p => Kept(q)
    BY <2>1 DEF Kept, QueueType, CountType
  <2>3. ASSUME alive PROVE InOrder(Lines(p), Way(p), taken[p], heard[p], lost[p])
    BY <2>1, <2>3 DEF FramesInOrder
  <2>4. Way(p)' = Append(Way(p), heard[p] + 1)
    <3> DEFINE front == notes[p] \o InHand(p)
    <3>1. front \in Seq(Nat) /\ heard[p] + 1 \in Nat
      BY <2>0, ConcatProperties
    <3>2. Way(p) = front \o rxQueue[p] /\ Way(p)' = front \o Append(rxQueue[p], heard[p] + 1)
      BY <2>1 DEF Way, InHand, QueueType
    <3> HIDE DEF front
    <3>3. front \o Append(rxQueue[p], heard[p] + 1) = Append(front \o rxQueue[p], heard[p] + 1)
      BY <2>0, <3>1, LastOfTwo
    <3> QED
      BY <3>2, <3>3
  <2>5. Lines(p)' = Lines(p) /\ heard'[p] = heard[p] + 1 /\ lost[p] \in SUBSET (1 .. heard[p])
    BY <2>1 DEF Lines, CountType, HeardOnly
  <2>6. ASSUME alive PROVE InOrder(Lines(p), Append(Way(p), heard[p] + 1), taken[p], heard[p] + 1, lost[p])
    BY <2>0, <2>3, <2>5, <2>6, HearKeepsOrder
  <2> QED
    BY <2>1, <2>2, <2>4, <2>5, <2>6, OneBridge
<1>19. ASSUME NEW p \in Procs, Call(p) \/ Send(p) \/ Drain(p) \/ Ask(p) \/ Waits(p) \/
             CallEnds(p) \/ TakesOut(p) \/ HangUp(p) \/ HangUpCut(p) \/ Detach(p) \/
             MoverStarts(p) \/ ThreadFindsNone(p) \/ WaitRunsOut(p) \/ Drops(p)
      PROVE  FramesInOrder'
  <2>1. UNCHANGED <<alive, main, stdout, printing, notes, hand, rxQueue, lost, taken, heard>>
    BY <1>19 DEF Call, Send, Drain, Ask, Waits, CallEnds, TakesOut, HangUp, HangUpCut, Detach,
       MoverStarts, ThreadFindsNone, WaitRunsOut, Drops, Leaves, Moved, fleet, calls, pipe,
       written, daemon, loops, queues, panel, bridge
  <2> QED
    BY <2>1 DEF FramesInOrder, Lines, Way, InHand
<1>20. CASE DaemonDies
  BY <1>20 DEF DaemonDies, FramesInOrder
<1>21. CASE UNCHANGED vars
  <2>1. UNCHANGED <<alive, main, stdout, printing, notes, hand, rxQueue, lost, taken, heard>>
    BY <1>21 DEF vars, fleet, calls, pipe, written, daemon, loops, queues, panel, bridge
  <2> QED
    BY <2>1 DEF FramesInOrder, Lines, Way, InHand
<1> QED
  BY <1>1, <1>2, <1>3, <1>4, <1>5, <1>6, <1>7, <1>8, <1>9, <1>10, <1>11, <1>12, <1>13, <1>14,
     <1>15, <1>16, <1>17, <1>18, <1>19, <1>20, <1>21 DEF Next, Connects, Bridge, Moves, Calls,
     Unlinks

-----------------------------------------------------------------------------
LEMMA InitInv == Init => IInv
<1> SUFFICES ASSUME Init PROVE IInv
  OBVIOUS
<1> USE Constants DEF Init
<1>1. DaemonType /\ TornType /\ TaskType /\ ReaderType /\ PanelType /\ CountType
  BY DEF DaemonType, TornType, TaskType, ReaderType, PanelType, CountType
<1>2. RxType /\ StdinType /\ StdoutType /\ QueueType
  BY DEF RxType, StdinType, StdoutType, QueueType, Nats
<1>3. HeardOnly /\ Unborn /\ Linked /\ FramesInOrder
  BY DEF HeardOnly, Unborn, Linked, Held, FramesInOrder
<1>4. Commands
  <2>1. Ahead(<<>>) = {} /\ DOMAIN <<>> = {} /\ 1 .. 0 = {} /\ 0 + 1 = 1 /\ 0 \in 0 .. 0
    BY DEF Ahead
  <2>2. Pipe(<<>>, 0, 0, None)
    BY <2>1 DEF Pipe, Rising
  <2> QED
    BY <2>1, <2>2 DEF Commands
<1> QED
  BY <1>1, <1>2, <1>3, <1>4 DEF IInv

(* Each part is kept with the parts its lemma names.                        *)
LEMMA InvStep == IInv /\ [Next]_vars => IInv'
<1> SUFFICES ASSUME IInv, [Next]_vars PROVE IInv'
  OBVIOUS
<1> USE DEF IInv
<1>1. DaemonType' /\ RxType' /\ StdinType' /\ TornType' /\ StdoutType'
  BY DaemonStep, RxStep, StdinStep, TornStep, StdoutStep
<1>2. TaskType' /\ ReaderType' /\ QueueType' /\ PanelType' /\ CountType'
  BY TaskStep, ReaderStep, QueueStep, PanelStep, CountStep
<1>3. HeardOnly' /\ Unborn' /\ Linked' /\ Commands' /\ FramesInOrder'
  BY HeardOnlyStep, UnbornStep, LinkedStep, CommandsStep, FramesStep
<1> QED
  BY <1>1, <1>2, <1>3

LEMMA InvGoodbye == IInv => GoodbyeIsLast
  BY DEF IInv, Commands, GoodbyeIsLast

LEMMA InvTypeOK == IInv => TypeOK
<1> SUFFICES ASSUME IInv PROVE TypeOK
  OBVIOUS
<1>1. Cardinality({p \in Procs : radio[p] \in {"rfcomm", "serial"}}) <= 1
  <2> DEFINE holders == {p \in Procs : radio[p] \in {"rfcomm", "serial"}}
  <2>1. CASE holders = {}
    BY <2>1, FS_EmptySet
  <2>2. CASE holders # {}
    <3>1. PICK p \in holders : TRUE
      BY <2>2
    <3>2. holders = {p}
      BY <3>1 DEF IInv, PanelType
    <3>3. Cardinality({p}) = 1
      BY FS_Singleton
    <3> QED
      BY <3>2, <3>3
  <2> QED
    BY <2>1, <2>2
<1>2. ASSUME NEW p \in Procs PROVE done[p] \subseteq 1 .. writes[p] /\ bye[p] \in (0 .. writes[p]) \cup {None}
  <2>0. writes[p] \in Nat /\ bye[p] \in Nat \cup {None}
    BY DEF IInv, CountType
  <2>1. CASE reader[p] = "done"
    <3>1. /\ bye[p] \in (0 .. writes[p]) \cup {None}
          /\ done[p] = 1 .. IF bye[p] = None THEN writes[p] ELSE bye[p]
      BY <2>1 DEF IInv, Commands
    <3> QED
      BY <2>0, <3>1
  <2>2. CASE reader[p] # "done"
    <3>1. PICK k \in Nat, j \in Nat : done[p] = 1 .. k /\ k <= j /\ Pipe(stdin[p], j, writes[p], bye[p])
      <4>1. reader[p] = "reading" \/ reader[p] = "writing"
        BY <2>2 DEF IInv, ReaderType
      <4>2. \A k \in Nat : k + 1 \in Nat /\ k <= k + 1 /\ k <= k
        OBVIOUS
      <4> QED
        BY <4>1, <4>2 DEF IInv, Commands
    <3>2. j <= writes[p] /\ (bye[p] # None => bye[p] <= writes[p])
      BY <2>0, <3>1 DEF Pipe
    <3> QED
      BY <2>0, <3>1, <3>2
  <2> QED
    BY <2>1, <2>2
<1>3. ASSUME NEW p \in Procs
      PROVE  /\ Len(rx[p]) <= RxCap /\ Len(stdout[p]) <= OutCap /\ Len(stdin[p]) <= InCap
             /\ \A i \in 1 .. Len(stdout[p]) : stdout[p][i] \in Line
  <2>1. stdout[p] \in Seq(Line)
    BY DEF IInv, StdoutType
  <2>2. \A i \in 1 .. Len(stdout[p]) : stdout[p][i] \in Line
    BY <2>1, ElementOfSeq
  <2> QED
    BY <2>2 DEF IInv, RxType, StdinType, StdoutType
<1>4. ASSUME NEW p \in Procs
      PROVE  /\ main[p] \in {"unused", "connecting", "running", "closing", "exited"}
             /\ reader[p] \in {"reading", "writing", "done"}
             /\ reader[p] = "writing" <=> current[p] # None
             /\ notifier[p] \in {"waiting", "ended"} /\ printing[p] \in Line \cup {None}
             /\ mover[p] \in {"starting", "getting", "late", "ended"}
  BY DEF IInv, TaskType, ReaderType
<1>5. ASSUME NEW p \in Procs
      PROVE  /\ mover[p] \in {"starting", "ended"} => hand[p] = None
             /\ hand[p] \in Nat \cup {None} /\ lost[p] \subseteq 1 .. heard[p]
             /\ radio[p] \in {"none", "rfcomm", "serial", "closed", "deadSerial"}
             /\ heard[p] \in Nat /\ writes[p] \in Nat
  BY DEF IInv, HeardOnly, QueueType, PanelType, CountType
<1>6. ASSUME NEW p \in Procs PROVE torn[p] \in BOOLEAN
  BY DEF IInv, TornType
<1>7. ASSUME NEW p \in Procs PROVE call[p] \in {"none", "busy", "drained", "waiting"}
  BY DEF IInv, DaemonType
<1>8. alive \in BOOLEAN /\ {opening, link} \subseteq Procs \cup {None} /\ leaving \subseteq Procs
  BY DEF IInv, DaemonType
<1> QED
  BY <1>1, <1>2, <1>3, <1>4, <1>5, <1>6, <1>7, <1>8 DEF TypeOK

(* Every variable has its type, no pipe holds more lines than it has room   *)
(* for, and the panel's channel is with one process at most.                *)
THEOREM TypeCorrect == Spec => []TypeOK
  BY InitInv, InvStep, InvTypeOK, PTL DEF Spec

(* However full the pipe is, whoever prints, whenever the thread takes a    *)
(* frame and the wait for it ends: the frames between the panel and the     *)
(* daemon are the ones heard, not had and not let go by a late wait, each   *)
(* once, in the order they came in.                                         *)
THEOREM FramesOrdered == Spec => []FramesInOrder
<1>1. IInv => FramesInOrder
  BY DEF IInv
<1> QED
  BY <1>1, InitInv, InvStep, PTL DEF Spec

(* A bridge that reads no more has carried out, or refused, the commands    *)
(* written ahead of the goodbye and nothing a call in flight wrote behind   *)
(* it; without a goodbye, all of them.                                      *)
THEOREM GoodbyeLast == Spec => []GoodbyeIsLast
  BY InitInv, InvStep, InvGoodbye, PTL DEF Spec
-----------------------------------------------------------------------------
(***************************************************************************)
(* What the bridge's reader makes of the bytes of its radio                *)
(* (bt_spp_rfcomm.py:156-194, framing.py:98-143), for any stream of pieces *)
(* and any way of cutting it.                                              *)
(*                                                                         *)
(* What FlattenSeq joins is found by the least counterexample; from then   *)
(* on the stream is known by where its pieces lie in it.                   *)
(***************************************************************************)
(* Every set of naturals has a least element: of the intervals below its    *)
(* members one is contained in all.                                         *)
LEMMA Least ==
    ASSUME NEW T, T \subseteq Nat, T # {}
    PROVE  \E x \in T : \A y \in T : x <= y
<1> DEFINE R == StrictSubsetOrdering(Nat)
           U == {0 .. x : x \in T}
<1>1. IsWellFoundedOn(R, FiniteSubsetsOf(Nat))
  BY FS_StrictSubsetOrderingWellFounded
<1>2. U \subseteq FiniteSubsetsOf(Nat) /\ U # {}
  <2>1. \A x \in T : 0 .. x \subseteq Nat /\ IsFiniteSet(0 .. x)
    BY FS_Interval
  <2> QED BY <2>1 DEF FiniteSubsetsOf
<1>3. \E X \in U : \A Y \in U : <<Y, X>> \notin R
  <2> HIDE DEF R, U
  <2> QED BY <1>1, <1>2, WFMin
<1>4. PICK x \in T : \A y \in T : <<0 .. y, 0 .. x>> \notin R
  BY <1>3
<1>5. ASSUME NEW y \in T, y < x PROVE FALSE
  <2>1. 0 .. y \subseteq 0 .. x /\ x \in 0 .. x /\ x \notin 0 .. y
    BY <1>5
  <2>2. 0 .. y \in SUBSET Nat /\ 0 .. x \in SUBSET Nat
    OBVIOUS
  <2>3. <<0 .. y, 0 .. x>> \in R
    BY <2>1, <2>2 DEF StrictSubsetOrdering
  <2> QED BY <2>3, <1>4
<1> QED BY <1>5

(* g joins the first n sequences of ss, one after the other.               *)
Joins(ss, n, g) ==
    g = [i \in 1 .. n |-> IF i = 1 THEN ss[i] ELSE g[i - 1] \o ss[i]]

(* There is such a g for every n: the least n without one would have one.  *)
LEMMA JoinsExists == ASSUME NEW ss, NEW n \in Nat PROVE \E g : Joins(ss, n, g)
<1> DEFINE T == {m \in Nat : ~ \E g : Joins(ss, m, g)}
<1> SUFFICES ASSUME T # {} PROVE FALSE
  OBVIOUS
<1>1. PICK x \in T : \A y \in T : x <= y
  <2> HIDE DEF T
  <2>1. T \subseteq Nat
    BY DEF T
  <2> QED BY <2>1, Least
<1>2. x # 0
  <2>1. Joins(ss, 0, [i \in 1 .. 0 |-> 0])
    BY DEF Joins
  <2> QED BY <2>1
<1>3. x - 1 \in Nat /\ x - 1 \notin T
  BY <1>1, <1>2
<1>4. PICK g : Joins(ss, x - 1, g)
  BY <1>3
<1> DEFINE h == [i \in 1 .. x |-> IF i = x THEN (IF x = 1 THEN ss[1] ELSE g[x - 1] \o ss[x]) ELSE g[i]]
<1>5. ASSUME NEW i \in 1 .. x PROVE h[i] = IF i = 1 THEN ss[i] ELSE h[i - 1] \o ss[i]
  <2>1. CASE i = x /\ x = 1
    BY <2>1
  <2>2. CASE i = x /\ x # 1
    <3>0. x \in Nat /\ x # 1 /\ x # 0
      BY <1>2, <2>2
    <3>a. h[i] = g[x - 1] \o ss[x]
      BY <3>0, <2>2
    <3>b. x - 1 \in 1 .. x /\ x - 1 # x
      <4> HIDE DEF T, h
      <4> QED BY <3>0
    <3>1. h[i] = g[x - 1] \o ss[x] /\ x - 1 \in 1 .. x /\ x - 1 # x
      BY <3>a, <3>b
    <3>2. h[x - 1] = g[x - 1]
      BY <3>1
    <3> QED BY <3>1, <3>2, <2>2
  <2>3. CASE i # x
    <3>1. i \in 1 .. x - 1 /\ h[i] = g[i]
      BY <2>3
    <3>2. g[i] = IF i = 1 THEN ss[i] ELSE g[i - 1] \o ss[i]
      BY <1>4, <3>1 DEF Joins
    <3>3. CASE i = 1
      BY <3>1, <3>2, <3>3
    <3>4. CASE i # 1
      <4>1. i - 1 \in 1 .. x /\ i - 1 # x
        BY <3>1, <3>4
      <4>2. h[i - 1] = g[i - 1]
        BY <4>1
      <4> QED BY <3>1, <3>2, <3>4, <4>2
    <3> QED BY <3>3, <3>4
  <2> QED BY <2>1, <2>2, <2>3
<1>6. h = [i \in 1 .. x |-> IF i = 1 THEN ss[i] ELSE h[i - 1] \o ss[i]]
  <2>1. h = [i \in 1 .. x |-> h[i]]
    OBVIOUS
  <2> HIDE DEF h
  <2> QED BY <1>5, <2>1
<1>7. Joins(ss, x, h)
  <2> HIDE DEF h
  <2> QED BY <1>6 DEF Joins
<1> QED BY <1>7

\* What a join is at each of its places.
LEMMA JoinsAt ==
    ASSUME NEW ss, NEW n \in Nat, NEW g, Joins(ss, n, g), NEW i \in 1 .. n
    PROVE  /\ i = 1 => g[i] = ss[i]
           /\ i # 1 => g[i] = g[i - 1] \o ss[i]
  BY DEF Joins

Alike(ss, tt, k) == \A i \in 1 .. k : ss[i] = tt[i]

(* Two joins agree as far as what they join does.                          *)
LEMMA JoinsAgree ==
    ASSUME NEW ss, NEW tt, NEW k \in Nat, NEW n \in Nat, NEW g, NEW h,
           Joins(ss, k, g), Joins(tt, n, h), k <= n, Alike(ss, tt, k)
    PROVE  Alike(g, h, k)
<1> DEFINE T == {i \in 1 .. k : g[i] # h[i]}
<1> SUFFICES ASSUME T # {} PROVE FALSE
  BY DEF Alike
<1>1. PICK x \in T : \A y \in T : x <= y
  <2>1. T \subseteq Nat
    OBVIOUS
  <2> HIDE DEF T
  <2> QED BY <2>1, Least
<1>2. /\ g[x] = IF x = 1 THEN ss[x] ELSE g[x - 1] \o ss[x]
      /\ h[x] = IF x = 1 THEN tt[x] ELSE h[x - 1] \o tt[x]
      /\ ss[x] = tt[x]
  <2>1. x \in 1 .. k /\ x \in 1 .. n
    OBVIOUS
  <2> QED BY <2>1 DEF Joins, Alike
<1>3. x # 1
  BY <1>2
<1>4. g[x - 1] = h[x - 1]
  <2>1. x - 1 \in 1 .. k /\ x - 1 \notin T
    BY <1>1, <1>3
  <2> QED BY <2>1
<1> QED BY <1>2, <1>3, <1>4

\* Sequences over S are joined into sequences over S.
LEMMA JoinsType ==
    ASSUME NEW S, NEW ss \in Seq(Seq(S)), NEW g, Joins(ss, Len(ss), g)
    PROVE  \A i \in 1 .. Len(ss) : g[i] \in Seq(S)
<1> DEFINE T == {i \in 1 .. Len(ss) : g[i] \notin Seq(S)}
<1> SUFFICES ASSUME T # {} PROVE FALSE
  OBVIOUS
<1>0. Len(ss) \in Nat /\ \A i \in 1 .. Len(ss) : ss[i] \in Seq(S)
  OBVIOUS
<1>1. PICK x \in T : \A y \in T : x <= y
  <2>1. T \subseteq Nat
    BY <1>0
  <2> HIDE DEF T
  <2> QED BY <2>1, Least
<1>2. g[x] = IF x = 1 THEN ss[x] ELSE g[x - 1] \o ss[x]
  BY DEF Joins
<1>3. x \in Nat /\ x # 1 /\ ss[x] \in Seq(S)
  BY <1>0, <1>2
<1>4. g[x - 1] \in Seq(S)
  <2>1. x - 1 \in 1 .. Len(ss) /\ x - 1 \notin T
    BY <1>0, <1>1, <1>3
  <2> QED BY <2>1
<1>5. g[x - 1] \o ss[x] \in Seq(S)
  BY <1>3, <1>4, ConcatProperties
<1> QED BY <1>2, <1>3, <1>5

\* FlattenSeq gives the last place of a join.
LEMMA FlattenJoins ==
    ASSUME NEW ss, Len(ss) \in Nat, Len(ss) # 0
    PROVE  \E g : Joins(ss, Len(ss), g) /\ FlattenSeq(ss) = g[Len(ss)]
<1> DEFINE c == CHOOSE g : g = [i \in 1 .. Len(ss) |-> IF i = 1 THEN ss[i] ELSE g[i - 1] \o ss[i]]
<1>1. \E g : g = [i \in 1 .. Len(ss) |-> IF i = 1 THEN ss[i] ELSE g[i - 1] \o ss[i]]
  BY JoinsExists DEF Joins
<1>2. c = [i \in 1 .. Len(ss) |-> IF i = 1 THEN ss[i] ELSE c[i - 1] \o ss[i]]
  BY <1>1
<1>3. FlattenSeq(ss) = c[Len(ss)]
  BY DEF FlattenSeq
<1> HIDE DEF c
<1> QED BY <1>2, <1>3 DEF Joins

(* Joining one sequence more appends it to what was joined before.         *)
LEMMA FlattenMore ==
    ASSUME NEW S, NEW k \in Nat, NEW a \in Seq(Seq(S)), Len(a) = k,
           NEW n \in Nat, n = k + 1,
           NEW b \in Seq(Seq(S)), Len(b) = n, \A i \in 1 .. k : a[i] = b[i]
    PROVE  /\ FlattenSeq(a) \in Seq(S)
           /\ FlattenSeq(b) = FlattenSeq(a) \o b[n]
<1>1. n # 0 /\ n \in 1 .. n /\ n - 1 = k /\ (n = 1 <=> k = 0) /\ k <= n /\ b[n] \in Seq(S)
  OBVIOUS
<1>2. PICK h : Joins(b, n, h) /\ FlattenSeq(b) = h[n]
  BY <1>1, FlattenJoins
<1>3. /\ n = 1 => h[n] = b[n]
      /\ n # 1 => h[n] = h[n - 1] \o b[n]
  BY <1>1, <1>2, JoinsAt
<1>4. CASE k = 0
  <2>1. a = <<>> /\ FlattenSeq(a) = a
    BY <1>4 DEF FlattenSeq
  <2>2. <<>> \in Seq(S) /\ <<>> \o b[n] = b[n]
    BY <1>1, ConcatEmptySeq
  <2> QED BY <2>1, <2>2, <1>1, <1>2, <1>3, <1>4
<1>5. CASE k # 0
  <2>1. PICK g : Joins(a, k, g) /\ FlattenSeq(a) = g[k]
    BY <1>5, FlattenJoins
  <2>2. g[k] \in Seq(S)
    <3>1. k \in 1 .. Len(a)
      BY <1>5
    <3> QED BY <2>1, <3>1, JoinsType
  <2>3. Alike(g, h, k)
    <3>1. Joins(a, k, g) /\ Joins(b, n, h) /\ k <= n
      BY <2>1, <1>1, <1>2
    <3>2. Alike(a, b, k)
      BY DEF Alike
    <3> QED BY <3>1, <3>2, JoinsAgree
  <2>4. g[k] = h[k] /\ n # 1 /\ h[n - 1] = h[k]
    BY <2>3, <1>1, <1>5 DEF Alike
  <2> QED BY <2>1, <2>2, <2>4, <1>2, <1>3
<1> QED BY <1>4, <1>5

-----------------------------------------------------------------------------
(* The stream is the pieces, one behind the other.                          *)

\* The stream of the first k pieces.
Upto(s, k) == Stream(SubSeq(s, 1, k))

LEMMA PieceType ==
    ASSUME NEW s \in Seq(Piece), NEW i \in 1 .. Len(s)
    PROVE  s[i].bytes \in Seq(Byte) /\ s[i].bytes = s[i].bytes
<1>1. s[i] \in Piece
  BY ElementOfSeq
<1> QED BY <1>1 DEF Piece

LEMMA UptoNone == ASSUME NEW s \in Seq(Piece) PROVE Upto(s, 0) = <<>>
<1>1. Len(SubSeq(s, 1, 0)) = 0
  BY SubSeqProperties
<1> DEFINE f == [i \in 1 .. Len(SubSeq(s, 1, 0)) |-> SubSeq(s, 1, 0)[i].bytes]
<1>2. f = <<>>
  BY <1>1
<1>3. FlattenSeq(<<>>) = <<>>
  BY DEF FlattenSeq
<1> QED BY <1>2, <1>3 DEF Upto, Stream

LEMMA UptoAll == ASSUME NEW s \in Seq(Piece) PROVE Upto(s, Len(s)) = Stream(s)
  BY SubSeqFull DEF Upto

LEMMA UptoStep ==
    ASSUME NEW s \in Seq(Piece), NEW k \in Nat, k < Len(s)
    PROVE  /\ Upto(s, k) \in Seq(Byte)
           /\ Upto(s, k + 1) = Upto(s, k) \o s[k + 1].bytes
<1> DEFINE Cut(n) == SubSeq(s, 1, n)
           Of(n) == [i \in 1 .. Len(Cut(n)) |-> Cut(n)[i].bytes]
<1>1. ASSUME NEW n \in Nat, n <= Len(s)
      PROVE  /\ Of(n) \in Seq(Seq(Byte)) /\ Len(Of(n)) = n
             /\ \A i \in 1 .. n : Of(n)[i] = s[i].bytes
  <2>1. Len(Cut(n)) = n /\ \A i \in 1 .. n : Cut(n)[i] = s[i]
    BY <1>1
  <2>2. \A i \in 1 .. n : s[i].bytes \in Seq(Byte)
    <3>1. \A i \in 1 .. n : i \in 1 .. Len(s)
      BY <1>1
    <3> QED BY <3>1, PieceType
  <2> HIDE DEF Cut
  <2>3. Of(n) = [i \in 1 .. n |-> s[i].bytes]
    BY <2>1
  <2> DEFINE f == [i \in 1 .. n |-> s[i].bytes]
  <2>4. f \in Seq(Seq(Byte)) /\ Len(f) = n /\ \A i \in 1 .. n : f[i] = s[i].bytes
    BY <2>2
  <2> HIDE DEF f, Of
  <2> QED BY <2>3, <2>4 DEF f
<1> DEFINE a == Of(k)
           n == k + 1
           b == Of(n)
<1>2. /\ a \in Seq(Seq(Byte)) /\ Len(a) = k /\ b \in Seq(Seq(Byte)) /\ Len(b) = n
      /\ \A i \in 1 .. k : a[i] = b[i]
      /\ b[n] = s[n].bytes
      /\ n \in Nat /\ n = k + 1
  <2>1. k <= Len(s) /\ n <= Len(s) /\ n \in Nat /\ n \in 1 .. n /\ \A i \in 1 .. k : i \in 1 .. n
    OBVIOUS
  <2> HIDE DEF Of, n
  <2> QED BY <2>1, <1>1 DEF n
<1>3. Upto(s, k) = FlattenSeq(a) /\ Upto(s, k + 1) = FlattenSeq(b)
  BY DEF Upto, Stream
<1> HIDE DEF a, b, n
<1>4. FlattenSeq(a) \in Seq(Byte) /\ FlattenSeq(b) = FlattenSeq(a) \o b[n]
  BY <1>2, FlattenMore
<1> QED BY <1>2, <1>3, <1>4

LEMMA UptoType ==
    ASSUME NEW s \in Seq(Piece), NEW k \in 0 .. Len(s)
    PROVE  Upto(s, k) \in Seq(Byte) /\ End(s, k) \in Nat /\ End(s, k) = Len(Upto(s, k))
<1>1. Upto(s, k) \in Seq(Byte)
  <2>1. CASE k = 0
    <3>1. Upto(s, 0) = <<>> /\ <<>> \in Seq(Byte)
      BY UptoNone, EmptySeq
    <3> QED BY <2>1, <3>1
  <2>2. CASE k # 0
    <3>1. k - 1 \in Nat /\ k - 1 < Len(s) /\ k - 1 + 1 = k
      BY <2>2
    <3>2. Upto(s, k - 1) \in Seq(Byte) /\ Upto(s, k) = Upto(s, k - 1) \o s[k].bytes
      BY <3>1, UptoStep
    <3>3. s[k].bytes \in Seq(Byte)
      BY <2>2, PieceType
    <3> QED BY <3>2, <3>3, ConcatProperties
  <2> QED BY <2>1, <2>2
<1> QED BY <1>1, LenProperties DEF Upto, End

(* One piece more: its bytes stand behind those before it.                  *)
LEMMA EndStep ==
    ASSUME NEW s \in Seq(Piece), NEW k \in Nat, k < Len(s)
    PROVE  /\ End(s, k + 1) = End(s, k) + Len(s[k + 1].bytes)
           /\ End(s, k) \in Nat /\ Len(s[k + 1].bytes) \in Nat
           /\ \A q \in 1 .. End(s, k) : Upto(s, k + 1)[q] = Upto(s, k)[q]
           /\ \A m \in 1 .. Len(s[k + 1].bytes) :
                 Upto(s, k + 1)[End(s, k) + m] = s[k + 1].bytes[m]
<1>1. Upto(s, k) \in Seq(Byte) /\ Upto(s, k + 1) = Upto(s, k) \o s[k + 1].bytes
  BY UptoStep
<1>2. s[k + 1].bytes \in Seq(Byte)
  BY PieceType
<1>3. End(s, k) = Len(Upto(s, k)) /\ End(s, k + 1) = Len(Upto(s, k + 1))
  BY DEF Upto, End
<1> DEFINE a == Upto(s, k)
           b == s[k + 1].bytes
<1> HIDE DEF a, b
<1>4. a \in Seq(Byte) /\ b \in Seq(Byte)
  BY <1>1, <1>2 DEF a, b
<1>5. /\ Len(a \o b) = Len(a) + Len(b) /\ Len(a) \in Nat /\ Len(b) \in Nat
      /\ \A q \in 1 .. Len(a) : (a \o b)[q] = a[q]
      /\ \A m \in 1 .. Len(b) : (a \o b)[Len(a) + m] = b[m]
  BY <1>4
<1> QED BY <1>1, <1>3, <1>5 DEF a, b

(* The stream of fewer pieces is the beginning of that of more.             *)
LEMMA UptoPrefix ==
    ASSUME NEW s \in Seq(Piece), NEW k \in 0 .. Len(s), NEW n \in k .. Len(s)
    PROVE  /\ End(s, k) <= End(s, n)
           /\ \A q \in 1 .. End(s, k) : Upto(s, n)[q] = Upto(s, k)[q]
<1> DEFINE Good(m) == /\ End(s, k) <= End(s, m)
                      /\ \A q \in 1 .. End(s, k) : Upto(s, m)[q] = Upto(s, k)[q]
           T == {m \in k .. Len(s) : ~ Good(m)}
<1> HIDE DEF Good
<1> SUFFICES ASSUME T # {} PROVE FALSE
  BY DEF Good
<1>1. PICK x \in T : \A y \in T : x <= y
  <2>1. T \subseteq Nat
    OBVIOUS
  <2> HIDE DEF T
  <2> QED BY <2>1, Least
<1>2. x # k
  <2>1. End(s, k) \in Nat
    BY UptoType
  <2> QED BY <2>1 DEF Good
<1>3. x - 1 \in k .. Len(s) /\ x - 1 \in Nat /\ x - 1 < Len(s) /\ x - 1 + 1 = x /\ x - 1 < x
  BY <1>2
<1>4. Good(x - 1)
  BY <1>1, <1>3
<1>5. /\ End(s, x) = End(s, x - 1) + Len(s[x].bytes)
      /\ End(s, x - 1) \in Nat /\ Len(s[x].bytes) \in Nat
      /\ \A q \in 1 .. End(s, x - 1) : Upto(s, x)[q] = Upto(s, x - 1)[q]
  BY <1>3, EndStep
<1>6. End(s, k) \in Nat
  BY UptoType
<1>7. Good(x)
  <2>1. End(s, k) <= End(s, x)
    BY <1>4, <1>5, <1>6 DEF Good
  <2>2. ASSUME NEW q \in 1 .. End(s, k) PROVE Upto(s, x)[q] = Upto(s, k)[q]
    <3>1. q \in 1 .. End(s, x - 1)
      BY <1>4, <1>5, <1>6 DEF Good
    <3> QED BY <3>1, <1>4, <1>5 DEF Good
  <2> QED BY <2>1, <2>2 DEF Good
<1> QED BY <1>7

(* Where the pieces lie.                                                    *)
LEMMA Layout ==
    ASSUME NEW s \in Seq(Piece)
    PROVE  /\ Stream(s) \in Seq(Byte) /\ Len(Stream(s)) = End(s, Len(s))
           /\ End(s, 0) = 0
           /\ \A k \in 0 .. Len(s) : End(s, k) \in Nat
           /\ \A k, n \in 0 .. Len(s) : k <= n => End(s, k) <= End(s, n)
<1>1. Upto(s, Len(s)) = Stream(s) /\ Len(s) \in 0 .. Len(s)
  BY UptoAll
<1>2. Stream(s) \in Seq(Byte) /\ Len(Stream(s)) = End(s, Len(s))
  BY <1>1, UptoType
<1>3. End(s, 0) = 0
  <2>1. Upto(s, 0) = <<>> /\ 0 \in 0 .. Len(s)
    BY UptoNone
  <2>2. End(s, 0) = Len(Upto(s, 0))
    BY <2>1, UptoType
  <2> QED BY <2>1, <2>2
<1>4. \A k \in 0 .. Len(s) : End(s, k) \in Nat
  BY UptoType
<1>5. ASSUME NEW k \in 0 .. Len(s), NEW n \in 0 .. Len(s), k <= n
      PROVE  End(s, k) <= End(s, n)
  <2>1. n \in k .. Len(s)
    BY <1>5
  <2> QED BY <2>1, UptoPrefix
<1> QED BY <1>2, <1>3, <1>4, <1>5

(* The bytes of a piece stand behind those of the pieces before it.         *)
LEMMA PieceLies ==
    ASSUME NEW s \in Seq(Piece), NEW i \in 1 .. Len(s)
    PROVE  /\ End(s, i) = End(s, i - 1) + Len(s[i].bytes)
           /\ Len(s[i].bytes) \in Nat
           /\ \A m \in 1 .. Len(s[i].bytes) :
                 Stream(s)[End(s, i - 1) + m] = s[i].bytes[m]
<1>1. i - 1 \in Nat /\ i - 1 < Len(s) /\ i - 1 + 1 = i
  OBVIOUS
<1>2. /\ End(s, i) = End(s, i - 1) + Len(s[i].bytes)
      /\ End(s, i - 1) \in Nat /\ Len(s[i].bytes) \in Nat
      /\ \A m \in 1 .. Len(s[i].bytes) : Upto(s, i)[End(s, i - 1) + m] = s[i].bytes[m]
  BY <1>1, EndStep
<1>3. i \in 0 .. Len(s) /\ Len(s) \in i .. Len(s)
  OBVIOUS
<1>4. \A q \in 1 .. End(s, i) : Upto(s, Len(s))[q] = Upto(s, i)[q]
  BY <1>3, UptoPrefix
<1>5. ASSUME NEW m \in 1 .. Len(s[i].bytes)
      PROVE  Stream(s)[End(s, i - 1) + m] = s[i].bytes[m]
  <2>1. End(s, i - 1) + m \in 1 .. End(s, i)
    BY <1>2
  <2>2. Upto(s, Len(s))[End(s, i - 1) + m] = Upto(s, i)[End(s, i - 1) + m]
    BY <2>1, <1>4
  <2> QED BY <2>2, <1>2, UptoAll
<1> QED BY <1>2, <1>5

(* Each byte of the stream lies in a piece.                                 *)
LEMMA Lies ==
    ASSUME NEW s \in Seq(Piece), NEW q \in 1 .. Len(Stream(s))
    PROVE  \E i \in 1 .. Len(s) : End(s, i - 1) < q /\ q <= End(s, i)
<1> DEFINE T == {k \in 0 .. Len(s) : q <= End(s, k)}
<1>0. Len(s) \in Nat
  OBVIOUS
<1>1. T \subseteq Nat /\ Len(s) \in T
  BY <1>0, Layout
<1>2. PICK x \in T : \A y \in T : x <= y
  <2> HIDE DEF T
  <2> QED BY <1>1, Least
<1>3. x # 0
  <2>1. End(s, 0) = 0
    BY Layout
  <2> QED BY <2>1
<1>4. x \in 1 .. Len(s) /\ x - 1 \in 0 .. Len(s) /\ x - 1 < x
  BY <1>3, <1>0
<1>5. ~ q <= End(s, x - 1)
  BY <1>2, <1>4
<1>6. End(s, x - 1) \in Nat
  BY <1>4, Layout
<1>7. End(s, x - 1) < q
  BY <1>5, <1>6
<1> QED BY <1>4, <1>7

-----------------------------------------------------------------------------
(* What the reader's steps do to its buffer: bytes come in behind, and go   *)
(* in front.                                                                *)

\* What RxFramingAssumption says of the constants, for the lemmas to name.
RxBounds ==
    /\ Base \in Nat /\ Base > 255
    /\ MaxFrame \in Nat /\ MaxFrame >= IosMin
    /\ Scripts \subseteq Seq(Piece)

LEMMA Bounds == RxBounds
  BY RxFramingAssumption DEF RxBounds

\* The buffer holds the last bytes handed over.
RxTypes ==
    /\ script \in Scripts /\ sent \in 0 .. Len(Stream(script))
    /\ buf \in Seq(Byte) /\ Len(buf) <= sent
    /\ \A i \in 1 .. Len(buf) : buf[i] = Stream(script)[sent - Len(buf) + i]
    /\ queue \in Seq(Message)
    /\ loop \in {"idle", "ios", "basic"}

\* The first byte of the stream that is still to be read is behind this one.
Passed == sent - Len(buf)
\* A step that lets the first n of the kept bytes go.
Lets(n) ==
    /\ n \in 0 .. Len(buf) /\ Len(buf') = Len(buf) - n
    /\ \A i \in 1 .. Len(buf) - n : buf'[i] = buf[n + i]
    /\ buf' \in Seq(Byte)
    /\ sent' = sent /\ script' = script

LEMMA DropIs ==
    ASSUME NEW b \in Seq(Byte), NEW n \in 0 .. Len(b)
    PROVE  /\ Drop(b, n) \in Seq(Byte) /\ Len(Drop(b, n)) = Len(b) - n
           /\ \A i \in 1 .. Len(b) - n : Drop(b, n)[i] = b[n + i]
  BY DEF Drop

LEMMA FrontIs ==
    ASSUME NEW b \in Seq(Byte), NEW n \in 0 .. Len(b)
    PROVE  /\ SubSeq(b, 1, n) \in Seq(Byte) /\ Len(SubSeq(b, 1, n)) = n
           /\ \A i \in 1 .. n : SubSeq(b, 1, n)[i] = b[i]
  OBVIOUS

LEMMA MiddleIs ==
    ASSUME NEW b \in Seq(Byte), NEW p \in Nat, NEW n \in Nat, NEW q \in Nat, q = p + n, q <= Len(b)
    PROVE  /\ SubSeq(b, p + 1, q) \in Seq(Byte) /\ Len(SubSeq(b, p + 1, q)) = n
           /\ \A i \in 1 .. n : SubSeq(b, p + 1, q)[i] = b[p + i]
  OBVIOUS

LEMMA WordType ==
    ASSUME RxBounds, NEW lo \in Byte, NEW hi \in Byte
    PROVE  Word(lo, hi) \in Nat
<1>1. lo \in Nat /\ hi \in Nat /\ Base \in Nat
  BY DEF RxBounds, Byte
<1>2. Base * hi \in Nat
  BY <1>1
<1> QED BY <1>1, <1>2 DEF Word

LEMMA LengthType ==
    ASSUME RxBounds, NEW b \in Seq(Byte)
    PROVE  /\ Len(b) >= 3 => BasicLength(b) \in Nat /\ BasicLength(b) >= 4
           /\ Len(b) >= 6 => IosLength(b) \in Nat /\ IosLength(b) >= 7
<1>1. ASSUME Len(b) >= 3 PROVE BasicLength(b) \in Nat /\ BasicLength(b) >= 4
  <2>1. b[2] \in Byte /\ b[3] \in Byte
    BY <1>1
  <2>2. Word(b[2], b[3]) \in Nat
    BY <2>1, WordType
  <2> QED BY <2>2 DEF BasicLength
<1>2. ASSUME Len(b) >= 6 PROVE IosLength(b) \in Nat /\ IosLength(b) >= 7
  <2>1. b[5] \in Byte /\ b[6] \in Byte
    BY <1>2
  <2>2. Word(b[5], b[6]) \in Nat
    BY <2>1, WordType
  <2> QED BY <2>2 DEF IosLength
<1> QED BY <1>1, <1>2

(* The bytes before the first start byte are what FromStart lets go.        *)
LEMMA FromStartIs ==
    ASSUME RxTypes, Starts # {}
    PROVE  \E j \in 0 .. Len(buf) - 1 :
              /\ FromStart \in Seq(Byte) /\ Len(FromStart) = Len(buf) - j
              /\ \A i \in 1 .. Len(buf) - j : FromStart[i] = buf[j + i]
              /\ buf[j + 1] = 1
              /\ \A i \in 1 .. j : buf[i] # 1
<1>0. buf \in Seq(Byte) /\ Len(buf) \in Nat
  BY DEF RxTypes
<1> DEFINE c == CHOOSE i \in Starts : \A j \in Starts : i <= j
<1>1. \E x \in Starts : \A y \in Starts : x <= y
  <2>1. Starts \subseteq Nat
    BY <1>0 DEF Starts
  <2> QED BY <2>1, Least
<1>2. c \in Starts /\ \A j \in Starts : c <= j
  BY <1>1
<1>3. FromStart = Drop(buf, c - 1)
  BY DEF FromStart
<1> HIDE DEF c
<1>4. c \in 1 .. Len(buf) /\ buf[c] = 1
  BY <1>2 DEF Starts, START
<1>5. \A i \in 1 .. c - 1 : buf[i] # 1
  <2>1. \A i \in 1 .. c - 1 : i \in 1 .. Len(buf) /\ ~ c <= i
    BY <1>0, <1>4
  <2>2. \A i \in 1 .. c - 1 : i \notin Starts
    BY <2>1, <1>2
  <2> QED BY <2>1, <2>2 DEF Starts, START
<1> DEFINE j == c - 1
<1>6. j \in 0 .. Len(buf) - 1 /\ j \in 0 .. Len(buf) /\ j + 1 = c
  BY <1>0, <1>4
<1> HIDE DEF j
<1>7. FromStart = Drop(buf, j) /\ buf[j + 1] = 1 /\ \A i \in 1 .. j : buf[i] # 1
  BY <1>3, <1>4, <1>5, <1>6 DEF j
<1>8. /\ Drop(buf, j) \in Seq(Byte) /\ Len(Drop(buf, j)) = Len(buf) - j
      /\ \A i \in 1 .. Len(buf) - j : Drop(buf, j)[i] = buf[j + i]
  BY <1>0, <1>6, DropIs
<1> QED BY <1>6, <1>7, <1>8

(* Bytes that go behind the first start byte.                               *)
LEMMA LetsBehind ==
    ASSUME RxTypes, NEW j \in 0 .. Len(buf) - 1,
           FromStart \in Seq(Byte), Len(FromStart) = Len(buf) - j,
           \A i \in 1 .. Len(buf) - j : FromStart[i] = buf[j + i],
           NEW n \in 0 .. Len(FromStart), buf' = Drop(FromStart, n),
           sent' = sent, script' = script
    PROVE  Lets(j + n)
<1>0. Len(buf) \in Nat
  BY DEF RxTypes
<1> DEFINE f == FromStart
<1>1. f \in Seq(Byte) /\ Len(f) = Len(buf) - j /\ \A i \in 1 .. Len(buf) - j : f[i] = buf[j + i]
  OBVIOUS
<1> HIDE DEF f
<1>2. /\ Drop(f, n) \in Seq(Byte) /\ Len(Drop(f, n)) = Len(f) - n
      /\ \A i \in 1 .. Len(f) - n : Drop(f, n)[i] = f[n + i]
  <2>1. n \in 0 .. Len(f)
    BY DEF f
  <2> QED BY <1>1, <2>1, DropIs
<1>3. n \in 0 .. Len(buf) - j /\ buf' = Drop(f, n)
  BY <1>1 DEF f
<1>4. j + n \in 0 .. Len(buf) /\ Len(buf') = Len(buf) - (j + n)
  <2>1. j + n \in 0 .. Len(buf) /\ Len(buf) - (j + n) = (Len(buf) - j) - n
    BY <1>0, <1>3
  <2>2. Len(buf') = (Len(buf) - j) - n
    BY <1>1, <1>2, <1>3
  <2> QED BY <2>1, <2>2
<1>5. ASSUME NEW i \in 1 .. Len(buf) - (j + n) PROVE buf'[i] = buf[(j + n) + i]
  <2>1. i \in 1 .. Len(f) - n /\ n + i \in 1 .. Len(buf) - j
    BY <1>0, <1>1, <1>3
  <2>2. buf'[i] = f[n + i] /\ f[n + i] = buf[j + (n + i)]
    BY <2>1, <1>1, <1>2, <1>3
  <2>3. j + (n + i) = (j + n) + i
    BY <1>3
  <2> QED BY <2>2, <2>3
<1> QED BY <1>1, <1>2, <1>3, <1>4, <1>5 DEF Lets

(* What stays is still the end of what has been handed over.                *)
LEMMA LetsTypes ==
    ASSUME RxTypes, NEW n, Lets(n), queue' \in Seq(Message),
           loop' \in {"idle", "ios", "basic"}
    PROVE  RxTypes' /\ Passed' = Passed + n /\ Passed \in Nat /\ n \in Nat
<1>0. /\ Len(buf) \in Nat /\ Len(buf) <= sent /\ sent \in Nat /\ n \in Nat
      /\ Len(buf') = Len(buf) - n /\ n <= Len(buf) /\ sent' = sent /\ script' = script
  BY DEF RxTypes, Lets
<1>1. /\ script' \in Scripts /\ sent' \in 0 .. Len(Stream(script))
      /\ buf' \in Seq(Byte) /\ Len(buf') <= sent'
  BY <1>0 DEF RxTypes, Lets
<1>2. ASSUME NEW i \in 1 .. Len(buf')
      PROVE  buf'[i] = Stream(script)[sent - Len(buf') + i]
  <2>1. i \in 1 .. Len(buf) - n /\ n + i \in 1 .. Len(buf)
        /\ sent - Len(buf) + (n + i) = sent - Len(buf') + i
    BY <1>0
  <2>2. buf'[i] = buf[n + i] /\ buf[n + i] = Stream(script)[sent - Len(buf) + (n + i)]
    BY <2>1 DEF RxTypes, Lets
  <2> QED BY <2>1, <2>2
<1>3. Stream(script)' = Stream(script)
  BY <1>0 DEF Stream
<1>4. RxTypes'
  BY <1>0, <1>1, <1>2, <1>3 DEF RxTypes
<1>5. Passed' = Passed + n /\ Passed \in Nat
  BY <1>0 DEF Passed
<1> QED BY <1>0, <1>4, <1>5

LEMMA IosMessageType ==
    ASSUME NEW m \in Seq(Byte), Len(m) >= IosMin
    PROVE  IosMessage(m) \in Message
<1>1. m[8] \in Byte /\ SubSeq(m, 9, Len(m) - 3) \in Seq(Byte)
  BY DEF IosMin
<1> QED BY <1>1 DEF IosMessage, Message

LEMMA BasicMessageType ==
    ASSUME NEW m \in Seq(Byte), Len(m) >= BasicMin
    PROVE  BasicMessage(m) \in Message
<1>1. /\ m[4] \in Byte /\ m[5] \in Byte
      /\ SubSeq(m, 5, Len(m) - 3) \in Seq(Byte) /\ SubSeq(m, 7, Len(m) - 3) \in Seq(Byte)
  BY DEF BasicMin
<1> QED BY <1>1 DEF BasicMessage, Message

(* A whole candidate is the front of the kept bytes.                        *)
LEMMA IosCandidateIs ==
    ASSUME RxBounds, RxTypes, IosGoesOn
    PROVE  /\ IosLength(buf) \in Nat /\ IosLength(buf) >= 7
           /\ IosWhole =>
                 /\ IosLength(buf) \in 0 .. Len(buf) /\ IosLength(buf) <= MaxFrame
                 /\ IosCandidate \in Seq(Byte) /\ Len(IosCandidate) = IosLength(buf)
                 /\ \A i \in 1 .. IosLength(buf) : IosCandidate[i] = buf[i]
<1>1. buf \in Seq(Byte) /\ Len(buf) \in Nat /\ Len(buf) >= 6
  BY DEF RxTypes, IosGoesOn, IosMin
<1>2. IosLength(buf) \in Nat /\ IosLength(buf) >= 7
  BY <1>1, LengthType
<1>3. ASSUME IosWhole
      PROVE  IosLength(buf) \in 0 .. Len(buf) /\ IosLength(buf) <= MaxFrame
  BY <1>1, <1>2, <1>3 DEF IosWhole, TooLong, RxBounds
<1> QED BY <1>1, <1>2, <1>3, FrontIs DEF IosCandidate

LEMMA CandidateIs ==
    ASSUME RxBounds, FromStart \in Seq(Byte), Len(FromStart) >= 4
    PROVE  /\ BasicLength(FromStart) \in Nat /\ BasicLength(FromStart) >= 4
           /\ BasicWhole =>
                 /\ BasicLength(FromStart) \in 0 .. Len(FromStart)
                 /\ BasicLength(FromStart) <= MaxFrame
                 /\ Candidate \in Seq(Byte) /\ Len(Candidate) = BasicLength(FromStart)
                 /\ \A i \in 1 .. BasicLength(FromStart) : Candidate[i] = FromStart[i]
<1> DEFINE f == FromStart
<1>1. f \in Seq(Byte) /\ Len(f) \in Nat /\ Len(f) >= 3
  OBVIOUS
<1> HIDE DEF f
<1>2. BasicLength(f) \in Nat /\ BasicLength(f) >= 4
  BY <1>1, LengthType
<1>3. ASSUME ~ TooLong(BasicLength(f)) /\ Len(f) >= BasicLength(f)
      PROVE  BasicLength(f) \in 0 .. Len(f) /\ BasicLength(f) <= MaxFrame
  BY <1>1, <1>2, <1>3 DEF TooLong, RxBounds
<1>4. BasicWhole <=> ~ TooLong(BasicLength(f)) /\ Len(f) >= BasicLength(f)
  BY DEF BasicWhole, f
<1>5. Candidate = SubSeq(f, 1, BasicLength(f))
  BY DEF Candidate, f
<1>6. ASSUME BasicWhole
      PROVE  /\ BasicLength(f) \in 0 .. Len(f) /\ BasicLength(f) <= MaxFrame
             /\ Candidate \in Seq(Byte) /\ Len(Candidate) = BasicLength(f)
             /\ \A i \in 1 .. BasicLength(f) : Candidate[i] = f[i]
  BY <1>1, <1>3, <1>4, <1>5, <1>6, FrontIs
<1> QED BY <1>2, <1>6 DEF f

-----------------------------------------------------------------------------
(* The turns of the two loops, one by one.                                  *)

\* The buffer from its first start byte on, which j bytes stand before.
Found(j) ==
    /\ j \in 0 .. Len(buf) - 1
    /\ FromStart \in Seq(Byte) /\ Len(FromStart) = Len(buf) - j
    /\ \A i \in 1 .. Len(buf) - j : FromStart[i] = buf[j + i]
    /\ buf[j + 1] = 1
    /\ \A i \in 1 .. j : buf[i] # 1
\* A step that puts the message m in the queue.
Puts(m) == m \in Message /\ queue' = Append(queue, m)

LEMMA PutsType == ASSUME RxTypes, NEW m, Puts(m) PROVE queue' \in Seq(Message)
<1>1. queue \in Seq(Message) /\ m \in Message /\ queue' = Append(queue, m)
  BY DEF RxTypes, Puts
<1> QED BY <1>1, AppendProperties

LEMMA FindsStart == ASSUME RxTypes, Starts # {} PROVE \E j \in Nat : Found(j)
<1>1. \E j \in 0 .. Len(buf) - 1 :
              /\ FromStart \in Seq(Byte) /\ Len(FromStart) = Len(buf) - j
              /\ \A i \in 1 .. Len(buf) - j : FromStart[i] = buf[j + i]
              /\ buf[j + 1] = 1
              /\ \A i \in 1 .. j : buf[i] # 1
  BY FromStartIs
<1>2. \A j \in 0 .. Len(buf) - 1 : j \in Nat
  OBVIOUS
<1> QED BY <1>1, <1>2 DEF Found

LEMMA IosTakes ==
    ASSUME RxBounds, RxTypes, IosTake
    PROVE  /\ Lets(IosLength(buf)) /\ Puts(IosMessage(IosCandidate)) /\ loop' = loop
           /\ IosGoesOn /\ IosWhole /\ IosValid(IosCandidate)
<1>1. IosGoesOn /\ IosWhole /\ IosValid(IosCandidate)
  BY DEF IosTake
<1>2. /\ IosLength(buf) \in 0 .. Len(buf)
      /\ IosCandidate \in Seq(Byte) /\ buf \in Seq(Byte)
  BY <1>1, IosCandidateIs DEF RxTypes
<1>3. IosMessage(IosCandidate) \in Message
  BY <1>1, <1>2, IosMessageType DEF IosValid
<1>4. /\ buf' = Drop(buf, IosLength(buf)) /\ sent' = sent /\ script' = script /\ loop' = loop
      /\ queue' = Append(queue, IosMessage(IosCandidate))
  BY DEF IosTake, Turn
<1>5. Lets(IosLength(buf))
  BY <1>2, <1>4, DropIs DEF Lets
<1> QED BY <1>1, <1>3, <1>4, <1>5 DEF Puts

LEMMA IosResyncs ==
    ASSUME RxBounds, RxTypes, IosResync
    PROVE  /\ Lets(1) /\ queue' = queue /\ loop' = loop
           /\ IosGoesOn
           /\ TooLong(IosLength(buf)) \/ (IosWhole /\ ~ IosValid(IosCandidate))
<1>1. buf \in Seq(Byte) /\ 1 \in 0 .. Len(buf)
  BY DEF RxTypes, IosResync, IosGoesOn, IosMin
<1>2. buf' = Drop(buf, 1) /\ sent' = sent /\ script' = script
  BY DEF IosResync, Turn
<1>3. Lets(1)
  BY <1>1, <1>2, DropIs DEF Lets
<1> QED BY <1>3 DEF IosResync, Turn

LEMMA LetsNone ==
    ASSUME RxTypes, buf' = buf, sent' = sent, script' = script
    PROVE  Lets(0)
<1>1. buf \in Seq(Byte) /\ Len(buf) \in Nat
  BY DEF RxTypes
<1>2. 0 \in 0 .. Len(buf) /\ Len(buf) - 0 = Len(buf) /\ \A i \in 1 .. Len(buf) : 0 + i = i
  BY <1>1
<1> QED BY <1>1, <1>2 DEF Lets

LEMMA IosLeaves ==
    ASSUME RxBounds, RxTypes, IosLeave
    PROVE  Lets(0) /\ queue' = queue /\ loop' \in {"basic", "idle"}
<1>1. buf' = buf /\ sent' = sent /\ script' = script /\ queue' = queue /\ loop' \in {"basic", "idle"}
  BY DEF IosLeave, Leave
<1> QED BY <1>1, LetsNone

LEMMA ShortStays ==
    ASSUME RxBounds, RxTypes, BasicShort
    PROVE  Lets(0) /\ queue' = queue /\ loop' = "idle" /\ Len(buf) < 7 /\ buf' = buf
<1>1. /\ buf' = buf /\ sent' = sent /\ script' = script /\ queue' = queue /\ loop' = "idle"
      /\ Len(buf) < 7
  BY DEF BasicShort, Leave, BasicMin
<1> QED BY <1>1, LetsNone

LEMMA NoStartGoes ==
    ASSUME RxBounds, RxTypes, BasicNoStart
    PROVE  /\ Lets(Len(buf)) /\ queue' = queue /\ loop' = "idle" /\ buf' = <<>> /\ Len(buf) >= 7
           /\ \A i \in 1 .. Len(buf) : buf[i] # 1
<1>1. /\ buf' = <<>> /\ sent' = sent /\ script' = script /\ queue' = queue /\ loop' = "idle"
      /\ Starts = {} /\ Len(buf) >= 7
  BY DEF BasicNoStart, Leave, BasicGoesOn, BasicMin
<1>2. \A i \in 1 .. Len(buf) : buf[i] # 1
  BY <1>1 DEF Starts, START
<1>3. Len(buf) \in Nat /\ buf' \in Seq(Byte) /\ Len(buf') = 0
  BY <1>1, EmptySeq DEF RxTypes
<1>4. Lets(Len(buf))
  BY <1>1, <1>3 DEF Lets
<1> QED BY <1>1, <1>2, <1>4

LEMMA WaitStays ==
    ASSUME RxBounds, RxTypes, BasicWait
    PROVE  /\ queue' = queue /\ loop' = "idle" /\ Len(buf) >= 7 /\ buf' = FromStart
           /\ Len(FromStart) >= 4 =>
                 /\ Len(FromStart) < BasicLength(FromStart)
                 /\ BasicLength(FromStart) <= MaxFrame
           /\ \E j \in Nat : Found(j) /\ Lets(j)
<1>1. /\ buf' = FromStart /\ sent' = sent /\ script' = script /\ queue' = queue /\ loop' = "idle"
      /\ Starts # {} /\ Len(buf) >= 7
      /\ Len(FromStart) >= 4 =>
            ~ TooLong(BasicLength(FromStart)) /\ Len(FromStart) < BasicLength(FromStart)
  BY DEF BasicWait, Leave, BasicGoesOn, BasicMin
<1>2. PICK j \in Nat : Found(j)
  BY <1>1, FindsStart
<1>3. Lets(j)
  <2>1. j \in 0 .. Len(buf) /\ Len(buf) \in Nat
    BY <1>2 DEF Found, RxTypes
  <2> QED BY <2>1, <1>1, <1>2 DEF Lets, Found
<1>4. Len(FromStart) >= 4 => BasicLength(FromStart) <= MaxFrame
  <2>1. Len(FromStart) >= 4 => BasicLength(FromStart) \in Nat
    BY <1>2, CandidateIs DEF Found
  <2> QED BY <2>1, <1>1 DEF TooLong, RxBounds
<1> QED BY <1>1, <1>2, <1>3, <1>4

LEMMA BasicResyncs ==
    ASSUME RxBounds, RxTypes, BasicResync
    PROVE  /\ queue' = queue /\ loop' = loop /\ InStep
           /\ \/ TooLong(BasicLength(FromStart))
              \/ BasicWhole /\ ~ BasicValid(Candidate)
           /\ \E j \in Nat : Found(j) /\ Lets(j + 1)
<1>1. /\ buf' = Drop(FromStart, 1) /\ sent' = sent /\ script' = script
      /\ queue' = queue /\ loop' = loop /\ InStep /\ Starts # {} /\ Len(FromStart) >= 4
  BY DEF BasicResync, Turn, StepOver, InStep
<1>2. PICK j \in Nat : Found(j)
  BY <1>1, FindsStart
<1>3. 1 \in 0 .. Len(FromStart)
  BY <1>1, <1>2 DEF Found
<1>4. Lets(j + 1)
  BY <1>1, <1>2, <1>3, LetsBehind DEF Found
<1> QED BY <1>1, <1>2, <1>4 DEF BasicResync

LEMMA BasicTakes ==
    ASSUME RxBounds, RxTypes, BasicTake
    PROVE  /\ Puts(BasicMessage(Candidate)) /\ loop' = loop
           /\ InStep /\ BasicWhole /\ BasicValid(Candidate)
           /\ \E j \in Nat : Found(j) /\ Lets(j + BasicLength(FromStart))
<1>1. /\ buf' = Drop(FromStart, BasicLength(FromStart)) /\ sent' = sent /\ script' = script
      /\ queue' = Append(queue, BasicMessage(Candidate)) /\ loop' = loop
      /\ InStep /\ BasicWhole /\ BasicValid(Candidate)
      /\ Starts # {} /\ Len(FromStart) >= 4
  BY DEF BasicTake, Turn, InStep
<1>2. PICK j \in Nat : Found(j)
  BY <1>1, FindsStart
<1>3. BasicLength(FromStart) \in 0 .. Len(FromStart) /\ Candidate \in Seq(Byte)
  BY <1>1, <1>2, CandidateIs DEF Found
<1>4. Lets(j + BasicLength(FromStart))
  BY <1>1, <1>2, <1>3, LetsBehind DEF Found
<1>5. BasicMessage(Candidate) \in Message
  BY <1>1, <1>3, BasicMessageType DEF BasicValid
<1> QED BY <1>1, <1>2, <1>4, <1>5 DEF Puts

(* More bytes behind the kept ones.                                         *)
LEMMA Receives ==
    ASSUME RxBounds, RxTypes, Receive
    PROVE  /\ RxTypes' /\ Passed' = Passed /\ script' = script /\ queue' = queue /\ loop' = "ios"
           /\ sent' >= sent
<1> DEFINE all == Stream(script)
<1>1. all \in Seq(Byte) /\ Len(all) \in Nat
  BY Layout DEF RxTypes, RxBounds
<1> HIDE DEF all
<1>2. PICK n \in 1 .. Len(all) - sent :
         buf' = buf \o SubSeq(all, sent + 1, sent + n) /\ sent' = sent + n
  BY DEF Receive, all
<1>3. script' = script /\ queue' = queue /\ loop' = "ios"
  BY DEF Receive
<1>4. /\ buf \in Seq(Byte) /\ Len(buf) \in Nat /\ sent \in Nat /\ sent <= Len(all) /\ Len(buf) <= sent
      /\ \A i \in 1 .. Len(buf) : buf[i] = all[sent - Len(buf) + i]
  BY <1>1 DEF RxTypes, all
<1>5. n \in Nat /\ sent + n <= Len(all) /\ n >= 1
  BY <1>1, <1>2, <1>4
<1> DEFINE more == SubSeq(all, sent + 1, sent + n)
<1>6. more \in Seq(Byte) /\ Len(more) = n /\ \A i \in 1 .. n : more[i] = all[sent + i]
  BY <1>1, <1>4, <1>5, MiddleIs
<1> HIDE DEF more
<1>7. /\ buf' \in Seq(Byte) /\ Len(buf') = Len(buf) + n
      /\ \A i \in 1 .. Len(buf) + n : buf'[i] = IF i <= Len(buf) THEN buf[i] ELSE more[i - Len(buf)]
  <2>1. buf' = buf \o more
    BY <1>2 DEF more
  <2> QED BY <2>1, <1>4, <1>6, ConcatProperties
<1>8. ASSUME NEW i \in 1 .. Len(buf) + n PROVE buf'[i] = all[sent - Len(buf) + i]
  <2>1. CASE i <= Len(buf)
    BY <2>1, <1>4, <1>7
  <2>2. CASE ~ i <= Len(buf)
    <3>1. i - Len(buf) \in 1 .. n /\ sent + (i - Len(buf)) = sent - Len(buf) + i
      BY <2>2, <1>4, <1>5
    <3> QED BY <3>1, <2>2, <1>6, <1>7
  <2> QED BY <2>1, <2>2
<1>9. sent' - Len(buf') = sent - Len(buf) /\ Len(buf') <= sent' /\ sent' \in 0 .. Len(all)
  BY <1>1, <1>2, <1>4, <1>5, <1>7
<1>10. \A i \in 1 .. Len(buf') : buf'[i] = all[sent' - Len(buf') + i]
  BY <1>7, <1>8, <1>9
<1>11. Stream(script)' = all
  BY <1>3 DEF Stream, all
<1> QED BY <1>2, <1>3, <1>4, <1>5, <1>7, <1>9, <1>10, <1>11 DEF RxTypes, Passed

(* Every step keeps the types, and no loop rests on more than a frame.      *)
LEMMA BoundedStep ==
    ASSUME RxBounds, RxTypes, [RxNext]_rxVars
    PROVE  RxTypes' /\ (WaitBounded => WaitBounded')
<1>1. CASE Receive
  BY <1>1, Receives DEF WaitBounded
<1>2. CASE IosTake
  <2>1. /\ Lets(IosLength(buf)) /\ Puts(IosMessage(IosCandidate)) /\ loop' = "ios"
    BY <1>2, IosTakes DEF IosGoesOn
  <2>2. RxTypes'
    BY <2>1, PutsType, LetsTypes
  <2> QED BY <2>1, <2>2 DEF WaitBounded
<1>3. CASE IosResync
  <2>1. queue' \in Seq(Message) /\ loop' = "ios"
    BY <1>3, IosResyncs DEF RxTypes, IosGoesOn
  <2>2. RxTypes'
    BY <2>1, <1>3, IosResyncs, LetsTypes
  <2> QED BY <2>1, <2>2 DEF WaitBounded
<1>4. CASE IosLeave
  <2>1. queue' \in Seq(Message) /\ loop' \in {"basic", "idle"}
    BY <1>4, IosLeaves DEF RxTypes
  <2>2. RxTypes'
    BY <2>1, <1>4, IosLeaves, LetsTypes
  <2>3. ASSUME loop' = "idle" PROVE Len(buf') < MaxFrame
    <3>0. Len(buf) \in Nat /\ buf' = buf /\ MaxFrame \in Nat /\ MaxFrame >= 11
          /\ (buf = <<>> \/ HasHeader(buf)) /\ loop = "ios"
          /\ (IosGoesOn => ~ TooLong(IosLength(buf)) /\ Len(buf) < IosLength(buf))
      BY <2>3, <1>4 DEF RxTypes, RxBounds, IosMin, IosLeave, Leave
    <3>1. CASE buf = <<>>
      BY <3>0, <3>1, EmptySeq
    <3>2. CASE IosGoesOn
      <4>1. IosLength(buf) \in Nat
        BY <3>2, IosCandidateIs
      <4> QED BY <3>0, <3>2, <4>1 DEF TooLong
    <3>3. CASE HasHeader(buf) /\ ~ IosGoesOn
      BY <3>0, <3>3 DEF IosGoesOn, IosMin
    <3> QED BY <3>0, <3>1, <3>2, <3>3
  <2> QED BY <2>2, <2>3 DEF WaitBounded
<1>5. CASE BasicShort
  <2>1. queue' \in Seq(Message) /\ loop' = "idle"
    BY <1>5, ShortStays DEF RxTypes
  <2>2. RxTypes'
    BY <2>1, <1>5, ShortStays, LetsTypes
  <2>3. Len(buf') < MaxFrame
    BY <1>5, ShortStays DEF RxBounds, IosMin, RxTypes
  <2> QED BY <2>2, <2>3 DEF WaitBounded
<1>6. CASE BasicNoStart
  <2>1. queue' \in Seq(Message) /\ loop' = "idle" /\ Len(buf') = 0
    BY <1>6, NoStartGoes, EmptySeq DEF RxTypes
  <2>2. RxTypes'
    BY <2>1, <1>6, NoStartGoes, LetsTypes
  <2> QED BY <2>1, <2>2 DEF WaitBounded, RxBounds, IosMin
<1>7. CASE BasicWait
  <2>1. queue' \in Seq(Message) /\ loop' = "idle"
    BY <1>7, WaitStays DEF RxTypes
  <2>2. PICK j \in Nat : Found(j) /\ Lets(j)
    BY <1>7, WaitStays
  <2>3. RxTypes'
    BY <2>1, <2>2, LetsTypes
  <2>4. Len(buf') < MaxFrame
    <3>1. /\ buf' = FromStart
          /\ Len(FromStart) >= 4 =>
                 /\ Len(FromStart) < BasicLength(FromStart)
                 /\ BasicLength(FromStart) <= MaxFrame
                 /\ BasicLength(FromStart) \in Nat
      BY <1>7, <2>2, WaitStays, CandidateIs DEF Found
    <3>2. Len(FromStart) \in Nat /\ MaxFrame \in Nat /\ MaxFrame >= 11
      BY <2>2 DEF Found, RxBounds, IosMin
    <3> QED BY <3>1, <3>2
  <2> QED BY <2>3, <2>4 DEF WaitBounded
<1>8. CASE BasicResync
  <2>1. queue' \in Seq(Message) /\ loop' = "basic"
    BY <1>8, BasicResyncs DEF RxTypes, InStep, BasicGoesOn
  <2>2. PICK j \in Nat : Lets(j + 1)
    BY <1>8, BasicResyncs
  <2>3. RxTypes'
    BY <2>1, <2>2, LetsTypes
  <2> QED BY <2>1, <2>3 DEF WaitBounded
<1>9. CASE BasicTake
  <2>0. Puts(BasicMessage(Candidate)) /\ loop' = "basic"
    BY <1>9, BasicTakes DEF InStep, BasicGoesOn
  <2>1. queue' \in Seq(Message) /\ loop' = "basic"
    BY <2>0, PutsType
  <2>2. PICK j \in Nat : Lets(j + BasicLength(FromStart))
    BY <1>9, BasicTakes
  <2>3. RxTypes'
    BY <2>1, <2>2, LetsTypes
  <2> QED BY <2>1, <2>3 DEF WaitBounded
<1>10. CASE UNCHANGED rxVars
  <2>1. script' = script /\ sent' = sent /\ buf' = buf /\ queue' = queue /\ loop' = loop
    BY <1>10 DEF rxVars
  <2>2. Stream(script)' = Stream(script)
    BY <2>1 DEF Stream
  <2> QED BY <2>1, <2>2 DEF RxTypes, WaitBounded
<1>11. CASE AllSent
  BY <1>10, <1>11 DEF AllSent
<1> QED BY <1>1, <1>2, <1>3, <1>4, <1>5, <1>6, <1>7, <1>8, <1>9, <1>10, <1>11 DEF RxNext, OnData

LEMMA TypesAtFirst == ASSUME RxBounds, RxInit PROVE RxTypes /\ WaitBounded
<1>1. buf \in Seq(Byte) /\ Len(buf) = 0 /\ queue \in Seq(Message) /\ sent = 0
      /\ script \in Scripts /\ loop = "idle"
  BY EmptySeq DEF RxInit
<1>2. Len(Stream(script)) \in Nat
  <2>1. Stream(script) \in Seq(Byte)
    BY <1>1, Layout DEF RxBounds
  <2> QED BY <2>1
<1>3. 0 < MaxFrame
  BY DEF RxBounds, IosMin
<1> QED BY <1>1, <1>2, <1>3 DEF RxTypes, WaitBounded

LEMMA RxTypesOK == ASSUME RxBounds, RxTypes PROVE RxTypeOK
<1> DEFINE all == Stream(script)
<1>1. all \in Seq(Byte) /\ Len(all) \in Nat
  BY Layout DEF RxTypes, RxBounds
<1>2. /\ buf \in Seq(Byte) /\ Len(buf) \in Nat /\ sent \in Nat /\ sent <= Len(all) /\ Len(buf) <= sent
      /\ \A i \in 1 .. Len(buf) : buf[i] = all[sent - Len(buf) + i]
  BY <1>1 DEF RxTypes
<1> HIDE DEF all
<1> DEFINE end == SubSeq(all, sent - Len(buf) + 1, sent)
<1>3. end \in Seq(Byte) /\ Len(end) = Len(buf) /\ \A i \in 1 .. Len(buf) : end[i] = all[sent - Len(buf) + i]
  <2> DEFINE p == sent - Len(buf)
  <2>1. p \in Nat /\ p + Len(buf) = sent
    BY <1>2
  <2> HIDE DEF p
  <2>3. /\ SubSeq(all, p + 1, sent) \in Seq(Byte)
        /\ Len(SubSeq(all, p + 1, sent)) = Len(buf)
        /\ \A i \in 1 .. Len(buf) : SubSeq(all, p + 1, sent)[i] = all[p + i]
    BY <1>1, <1>2, <2>1, MiddleIs
  <2> QED BY <2>3 DEF p
<1> HIDE DEF end
<1>4. buf = end
  BY <1>2, <1>3, SeqEqual
<1>5. \A i \in 1 .. Len(queue) : queue[i].cmd \in Byte
  <2>1. \A i \in 1 .. Len(queue) : queue[i] \in Message
    BY ElementOfSeq DEF RxTypes
  <2> QED BY <2>1 DEF Message
<1> QED BY <1>4, <1>5 DEF RxTypeOK, RxTypes, all, end

(* Whatever a panel sends and however it is cut: the buffer is the end of   *)
(* what has been handed over, and the queue holds messages                  *)
(* (bt_spp_rfcomm.py:156-158).                                              *)
THEOREM RxTypeCorrect == RxSpec => []RxTypeOK
<1> USE Bounds
<1>1. RxInit => RxTypes
  BY TypesAtFirst
<1>2. RxTypes /\ [RxNext]_rxVars => RxTypes'
  BY BoundedStep
<1>3. RxTypes => RxTypeOK
  BY RxTypesOK
<1> QED BY <1>1, <1>2, <1>3, PTL DEF RxSpec

(* Whatever noise there is: no length it makes up keeps the reader waiting  *)
(* for more than a frame of the largest size (framing.py:118-126,           *)
(* bt_spp_rfcomm.py:166-173).                                               *)
THEOREM RxWaitBounded == RxSpec => []WaitBounded
<1> USE Bounds
<1>1. RxInit => RxTypes /\ WaitBounded
  BY TypesAtFirst
<1>2. RxTypes /\ WaitBounded /\ [RxNext]_rxVars => RxTypes' /\ WaitBounded'
  BY BoundedStep
<1> QED BY <1>1, <1>2, PTL DEF RxSpec

-----------------------------------------------------------------------------
(* Streams of one framing: whole frames, and noise between Basic ones that  *)
(* is no frame itself.                                                      *)

\* What the reader takes for the frame it is, once it stands in front.
BasicFrame(p) ==
    /\ BasicValid(p.bytes) /\ p.bytes[1] = START
    /\ BasicLength(p.bytes) = Len(p.bytes) /\ ~ TooLong(Len(p.bytes))
    /\ p.says = BasicMessage(p.bytes)
IosFrame(p) ==
    /\ IosValid(p.bytes)
    /\ IosLength(p.bytes) = Len(p.bytes) /\ ~ TooLong(Len(p.bytes))
    /\ p.says = IosMessage(p.bytes)

AllBasic(s) == \A i \in 1 .. Len(s) : BasicFrame(s[i]) \/ s[i].says = Silence
AllIos(s) == \A i \in 1 .. Len(s) : IosFrame(s[i])
Framed(s) == AllBasic(s) \/ AllIos(s)

Speaks(s, i) == s[i].says # Silence
\* The first p bytes of the stream end in no frame.
Outside(s, p) ==
    \A i \in 1 .. Len(s) : Speaks(s, i) => p <= End(s, i - 1) \/ p >= End(s, i)
\* A frame begins behind the first p bytes.
Begins(s, p) == \E i \in 1 .. Len(s) : Speaks(s, i) /\ p = End(s, i - 1)

\* What a reader would take for the beginning of an iOS-LE frame or for a Basic frame.
Looks(c) ==
    HasHeader(c) \/ (BasicValid(c) /\ c[1] = START /\ BasicLength(c) = Len(c))
\* Noise may hold start bytes and lengths of any kind, as long as it makes up no
\* frame, checksum and end byte included, by itself or with the frames behind it.
NothingForged(s) ==
    \A p, r \in 0 .. Len(Stream(s)) :
        p < r /\ Outside(s, p) /\ Looks(SubSeq(Stream(s), p + 1, r)) => Begins(s, p)
OneFraming(s) == AllIos(s) \/ (AllBasic(s) /\ NothingForged(s))

\* Noise without a start byte.
Quiet(s) ==
    \A i \in 1 .. Len(s) : ~ Speaks(s, i) =>
        \A m \in 1 .. Len(s[i].bytes) : s[i].bytes[m] # START
\* No frame that does not lie in the first p bytes lies in the first n.
NoneBetween(s, p, n) ==
    \A i \in 1 .. Len(s) : Speaks(s, i) /\ End(s, i) <= n => End(s, i) <= p

LEMMA MessageSpeaks == ASSUME NEW m \in Message PROVE m # Silence
<1>1. DOMAIN m = {"cmd", "payload"}
  BY DEF Message
<1>2. DOMAIN Silence = {}
  BY DEF Silence
<1>3. "cmd" \in {"cmd", "payload"} /\ "cmd" \notin {}
  OBVIOUS
<1> QED BY <1>1, <1>2, <1>3

(* A frame says something and is no shorter than the shortest of its kind.  *)
LEMMA FrameIs ==
    ASSUME NEW s \in Seq(Piece), Framed(s), NEW i \in 1 .. Len(s)
    PROVE  /\ s[i].bytes \in Seq(Byte) /\ Len(s[i].bytes) \in Nat
           /\ Speaks(s, i) => Len(s[i].bytes) >= 7
           /\ AllBasic(s) /\ Speaks(s, i) => BasicFrame(s[i])
           /\ AllIos(s) => Speaks(s, i) /\ IosFrame(s[i]) /\ Len(s[i].bytes) >= 11
<1>1. s[i].bytes \in Seq(Byte) /\ Len(s[i].bytes) \in Nat
  BY PieceType
<1>2. ASSUME BasicFrame(s[i]) PROVE Len(s[i].bytes) >= 7 /\ Speaks(s, i)
  <2>1. Len(s[i].bytes) >= BasicMin
    BY <1>2 DEF BasicFrame, BasicValid
  <2>2. s[i].says \in Message
    BY <1>1, <1>2, <2>1, BasicMessageType DEF BasicFrame
  <2> QED BY <2>1, <2>2, MessageSpeaks DEF Speaks, BasicMin
<1>3. ASSUME IosFrame(s[i]) PROVE Len(s[i].bytes) >= 11 /\ Speaks(s, i)
  <2>1. Len(s[i].bytes) >= IosMin
    BY <1>3 DEF IosFrame, IosValid
  <2>2. s[i].says \in Message
    BY <1>1, <1>3, <2>1, IosMessageType DEF IosFrame
  <2> QED BY <2>1, <2>2, MessageSpeaks DEF Speaks, IosMin
<1>4. s[i].says = Silence => ~ Speaks(s, i)
  BY DEF Speaks
<1>5. AllBasic(s) => BasicFrame(s[i]) \/ s[i].says = Silence
  BY DEF AllBasic
<1>6. AllIos(s) => IosFrame(s[i])
  BY DEF AllIos
<1>7. Speaks(s, i) => Len(s[i].bytes) >= 7
  BY <1>1, <1>2, <1>3, <1>4, <1>5, <1>6 DEF Framed
<1> QED BY <1>1, <1>2, <1>3, <1>4, <1>5, <1>6, <1>7

(* Bytes none of which starts a frame pass none.                            *)
LEMMA NoStartNoFrame ==
    ASSUME NEW s \in Seq(Piece), AllBasic(s), NEW p \in Nat, NEW r \in Nat, p <= r,
           Outside(s, p), \A q \in p + 1 .. r : Stream(s)[q] # 1
    PROVE  Outside(s, r) /\ Arrived(s, r) = Arrived(s, p) /\ NoneBetween(s, p, r)
<1>1. ASSUME NEW i \in 1 .. Len(s), Speaks(s, i)
      PROVE  /\ End(s, i - 1) \in Nat /\ End(s, i) \in Nat /\ End(s, i - 1) < End(s, i)
             /\ r <= End(s, i - 1) \/ p >= End(s, i)
  <2>1. BasicFrame(s[i]) /\ Len(s[i].bytes) >= 7
    BY <1>1, FrameIs DEF Framed
  <2>2. /\ End(s, i) = End(s, i - 1) + Len(s[i].bytes) /\ Len(s[i].bytes) \in Nat
        /\ \A m \in 1 .. Len(s[i].bytes) : Stream(s)[End(s, i - 1) + m] = s[i].bytes[m]
    BY PieceLies
  <2>3. End(s, i - 1) \in Nat /\ End(s, i) \in Nat
    <3>1. i \in 0 .. Len(s) /\ i - 1 \in 0 .. Len(s)
      OBVIOUS
    <3> QED BY <3>1, Layout
  <2>4. Stream(s)[End(s, i - 1) + 1] = 1
    <3>1. 1 \in 1 .. Len(s[i].bytes)
      BY <2>1, <2>2
    <3> QED BY <3>1, <2>1, <2>2 DEF BasicFrame, START
  <2>5. p <= End(s, i - 1) \/ p >= End(s, i)
    BY <1>1 DEF Outside
  <2>6. End(s, i - 1) + 1 \notin p + 1 .. r
    BY <2>4
  <2> QED BY <2>1, <2>2, <2>3, <2>5, <2>6
<1>2. Outside(s, r)
  BY <1>1 DEF Outside
<1>3. \A i \in 1 .. Len(s) : Speaks(s, i) => (End(s, i) <= r <=> End(s, i) <= p)
  BY <1>1
<1> QED BY <1>2, <1>3 DEF Arrived, NoneBetween, Speaks

(* Nor does one byte of noise.                                              *)
LEMMA NoiseNoFrame ==
    ASSUME NEW s \in Seq(Piece), AllBasic(s), NEW p \in Nat, NEW r \in Nat, r = p + 1,
           Outside(s, p), ~ Begins(s, p)
    PROVE  Outside(s, r) /\ Arrived(s, r) = Arrived(s, p)
<1>1. ASSUME NEW i \in 1 .. Len(s), Speaks(s, i)
      PROVE  /\ r <= End(s, i - 1) \/ p >= End(s, i)
             /\ End(s, i - 1) \in Nat /\ End(s, i) \in Nat /\ End(s, i - 1) < End(s, i)
  <2>1. End(s, i) = End(s, i - 1) + Len(s[i].bytes)
    BY PieceLies
  <2>2. Len(s[i].bytes) \in Nat /\ Len(s[i].bytes) >= 7
    BY <1>1, FrameIs DEF Framed
  <2>3. End(s, i - 1) \in Nat /\ End(s, i) \in Nat
    <3>1. i \in 0 .. Len(s) /\ i - 1 \in 0 .. Len(s)
      OBVIOUS
    <3> QED BY <3>1, Layout
  <2>4. p <= End(s, i - 1) \/ p >= End(s, i)
    BY <1>1 DEF Outside
  <2>5. p # End(s, i - 1)
    BY <1>1 DEF Begins
  <2> QED BY <2>1, <2>2, <2>3, <2>4, <2>5
<1>2. Outside(s, r)
  <2>1. \A i \in 1 .. Len(s) : Speaks(s, i) => r <= End(s, i - 1) \/ r >= End(s, i)
    BY <1>1
  <2> QED BY <2>1 DEF Outside
<1>3. \A i \in 1 .. Len(s) : Speaks(s, i) => (End(s, i) <= r <=> End(s, i) <= p)
  BY <1>1
<1> QED BY <1>2, <1>3 DEF Arrived, Speaks

(* Whoever is outside the frames and has a byte of one before him is at its *)
(* beginning ...                                                            *)
LEMMA AtItsBeginning ==
    ASSUME NEW s \in Seq(Piece), NEW p \in Nat, Outside(s, p), NEW i \in 1 .. Len(s), Speaks(s, i),
           End(s, i - 1) < p + 1, p + 1 <= End(s, i)
    PROVE  p = End(s, i - 1)
<1>1. End(s, i - 1) \in Nat /\ End(s, i) \in Nat
  <2>1. i \in 0 .. Len(s) /\ i - 1 \in 0 .. Len(s)
    OBVIOUS
  <2> QED BY <2>1, Layout
<1>2. p <= End(s, i - 1) \/ p >= End(s, i)
  BY DEF Outside
<1> QED BY <1>1, <1>2

(* ... and behind it has passed that frame and no other.                    *)
LEMMA BehindIt ==
    ASSUME NEW s \in Seq(Piece), Framed(s), NEW i \in 1 .. Len(s), Speaks(s, i)
    PROVE  /\ Outside(s, End(s, i))
           /\ Arrived(s, End(s, i)) = Arrived(s, End(s, i - 1)) \cup {i}
           /\ \A f \in Arrived(s, End(s, i - 1)) : f \in 1 .. Len(s) /\ f < i
<1>0. Len(s) \in Nat
  OBVIOUS
<1>1. ASSUME NEW k \in 1 .. Len(s), Speaks(s, k)
      PROVE  /\ End(s, k - 1) \in Nat /\ End(s, k) \in Nat /\ End(s, k - 1) < End(s, k)
             /\ k < i => End(s, k) <= End(s, i - 1)
             /\ k > i => End(s, i) <= End(s, k - 1)
  <2>1. k \in 0 .. Len(s) /\ k - 1 \in 0 .. Len(s) /\ i \in 0 .. Len(s) /\ i - 1 \in 0 .. Len(s)
    BY <1>0
  <2>2. End(s, k - 1) \in Nat /\ End(s, k) \in Nat
    BY <2>1, Layout
  <2>3. End(s, k) = End(s, k - 1) + Len(s[k].bytes)
    BY PieceLies
  <2>4. Len(s[k].bytes) \in Nat /\ Len(s[k].bytes) >= 7
    BY <1>1, FrameIs
  <2>5. ASSUME k < i PROVE End(s, k) <= End(s, i - 1)
    <3>1. k <= i - 1
      BY <2>5
    <3> QED BY <2>1, <3>1, Layout
  <2>6. ASSUME k > i PROVE End(s, i) <= End(s, k - 1)
    <3>1. i <= k - 1
      BY <2>6
    <3> QED BY <2>1, <3>1, Layout
  <2> QED BY <2>2, <2>3, <2>4, <2>5, <2>6
<1>2. End(s, i - 1) \in Nat /\ End(s, i) \in Nat /\ End(s, i - 1) < End(s, i)
  BY <1>1
<1>3. Outside(s, End(s, i))
  <2> SUFFICES ASSUME NEW k \in 1 .. Len(s), Speaks(s, k)
               PROVE  End(s, i) <= End(s, k - 1) \/ End(s, i) >= End(s, k)
    BY DEF Outside
  <2>1. CASE k < i
    BY <2>1, <1>1, <1>2
  <2>2. CASE k > i
    BY <2>2, <1>1, <1>2
  <2>3. CASE k = i
    BY <2>3, <1>1, <1>2
  <2> QED BY <2>1, <2>2, <2>3
<1>4. ASSUME NEW k \in 1 .. Len(s), Speaks(s, k)
      PROVE  /\ End(s, k) <= End(s, i) <=> k <= i
             /\ End(s, k) <= End(s, i - 1) <=> k < i
  <2>1. CASE k < i
    BY <2>1, <1>1, <1>2, <1>4
  <2>2. CASE k > i
    BY <2>2, <1>1, <1>2, <1>4
  <2>3. CASE k = i
    BY <2>3, <1>1, <1>2, <1>4
  <2> QED BY <2>1, <2>2, <2>3
<1>5. \A k \in 1 .. Len(s) : k <= i <=> k < i \/ k = i
  BY <1>0
<1>6. Arrived(s, End(s, i)) = {k \in 1 .. Len(s) : Speaks(s, k) /\ k <= i}
  BY <1>4 DEF Arrived, Speaks
<1>7. Arrived(s, End(s, i - 1)) = {k \in 1 .. Len(s) : Speaks(s, k) /\ k < i}
  BY <1>4 DEF Arrived, Speaks
<1> QED BY <1>3, <1>5, <1>6, <1>7

(* A frame that has begun is wholly there only if its bytes are.            *)
LEMMA NoneFits ==
    ASSUME NEW s \in Seq(Piece), Framed(s), NEW p \in Nat, NEW n \in Nat, Outside(s, p),
           NEW i \in 1 .. Len(s), Speaks(s, i), p = End(s, i - 1), n < p + Len(s[i].bytes)
    PROVE  NoneBetween(s, p, n)
<1>0. Len(s) \in Nat
  OBVIOUS
<1>1. End(s, i) = p + Len(s[i].bytes)
  BY PieceLies
<1>2. ASSUME NEW k \in 1 .. Len(s), Speaks(s, k), End(s, k) <= n PROVE End(s, k) <= p
  <2>1. /\ k \in 0 .. Len(s) /\ k - 1 \in 0 .. Len(s) /\ i \in 0 .. Len(s) /\ i - 1 \in 0 .. Len(s)
    BY <1>0
  <2>2. End(s, k) \in Nat /\ End(s, i) \in Nat
    BY <2>1, Layout
  <2>3. CASE k >= i
    <3>1. End(s, i) <= End(s, k)
      BY <2>1, <2>3, Layout
    <3> QED BY <3>1, <2>2, <1>1, <1>2
  <2>4. CASE k <= i - 1
    BY <2>1, <2>4, Layout
  <2> QED BY <2>3, <2>4, <1>0
<1> QED BY <1>2 DEF NoneBetween

LEMMA NoneInFew ==
    ASSUME NEW s \in Seq(Piece), Framed(s), NEW p \in Nat, NEW n \in Nat, Outside(s, p),
           n < p + 7 \/ (AllIos(s) /\ n < p + 11)
    PROVE  NoneBetween(s, p, n)
<1>1. ASSUME NEW k \in 1 .. Len(s), Speaks(s, k), End(s, k) <= n PROVE End(s, k) <= p
  <2>1. End(s, k) \in Nat /\ End(s, k - 1) \in Nat
    <3>1. k \in 0 .. Len(s) /\ k - 1 \in 0 .. Len(s)
      OBVIOUS
    <3> QED BY <3>1, Layout
  <2>2. End(s, k) = End(s, k - 1) + Len(s[k].bytes)
    BY PieceLies
  <2>3. Len(s[k].bytes) \in Nat /\ Len(s[k].bytes) >= 7 /\ (AllIos(s) => Len(s[k].bytes) >= 11)
    BY <1>1, FrameIs
  <2>4. p <= End(s, k - 1) \/ p >= End(s, k)
    BY <1>1 DEF Outside
  <2> QED BY <1>1, <2>1, <2>2, <2>3, <2>4
<1> QED BY <1>1 DEF NoneBetween

(* The queue with one more message holds what one frame more says.          *)
ReadsOf(q, s, frames) ==
    \E at \in [1 .. Len(q) -> frames] :
        /\ \A i, j \in 1 .. Len(q) : i < j => at[i] < at[j]
        /\ \A f \in frames : \E i \in 1 .. Len(q) : at[i] = f
        /\ \A i \in 1 .. Len(q) : q[i] = s[at[i]].says

LEMMA ReadsMore ==
    ASSUME NEW q \in Seq(Message), NEW s, NEW frames, ReadsOf(q, s, frames),
           frames \subseteq Nat, NEW i \in Nat, \A f \in frames : f < i,
           s[i].says \in Message
    PROVE  ReadsOf(Append(q, s[i].says), s, frames \cup {i})
<1> DEFINE n == Len(q)
           r == Append(q, s[i].says)
<1>1. n \in Nat /\ Len(r) = n + 1 /\ (\A k \in 1 .. n : r[k] = q[k]) /\ r[n + 1] = s[i].says
  BY AppendProperties
<1>2. PICK at \in [1 .. n -> frames] :
         /\ \A k, j \in 1 .. n : k < j => at[k] < at[j]
         /\ \A f \in frames : \E k \in 1 .. n : at[k] = f
         /\ \A k \in 1 .. n : q[k] = s[at[k]].says
  BY DEF ReadsOf
<1> HIDE DEF n, r
<1> DEFINE to == [k \in 1 .. n + 1 |-> IF k = n + 1 THEN i ELSE at[k]]
<1>3. \A k \in 1 .. n + 1 : k = n + 1 \/ k \in 1 .. n
  BY <1>1
<1>4. \A k \in 1 .. n : k \in 1 .. n + 1 /\ k # n + 1 /\ at[k] \in frames /\ at[k] \in Nat /\ at[k] < i
  <2>1. \A k \in 1 .. n : k \in 1 .. n + 1 /\ k # n + 1
    BY <1>1
  <2>2. \A k \in 1 .. n : at[k] \in frames
    BY <1>2
  <2> QED BY <2>1, <2>2
<1>5. to[n + 1] = i /\ \A k \in 1 .. n : to[k] = at[k]
  BY <1>1, <1>4
<1>6. to \in [1 .. n + 1 -> frames \cup {i}]
  BY <1>3, <1>4
<1> HIDE DEF to
<1>7. ASSUME NEW k \in 1 .. n + 1, NEW j \in 1 .. n + 1, k < j PROVE to[k] < to[j]
  <2>1. k \in 1 .. n
    BY <1>1, <1>7
  <2>2. CASE j = n + 1
    BY <2>1, <2>2, <1>4, <1>5
  <2>3. CASE j \in 1 .. n
    BY <2>1, <2>3, <1>2, <1>5, <1>7
  <2> QED BY <2>2, <2>3, <1>3
<1>8. ASSUME NEW f \in frames \cup {i} PROVE \E k \in 1 .. n + 1 : to[k] = f
  <2>1. CASE f = i
    <3>1. n + 1 \in 1 .. n + 1
      BY <1>1
    <3> QED BY <2>1, <3>1, <1>5
  <2>2. CASE f \in frames
    <3>1. PICK k \in 1 .. n : at[k] = f
      BY <2>2, <1>2
    <3> QED BY <3>1, <1>4, <1>5
  <2> QED BY <2>1, <2>2
<1>9. ASSUME NEW k \in 1 .. n + 1 PROVE r[k] = s[to[k]].says
  <2>1. CASE k = n + 1
    BY <2>1, <1>1, <1>5
  <2>2. CASE k \in 1 .. n
    <3>1. r[k] = q[k] /\ q[k] = s[at[k]].says /\ to[k] = at[k]
      BY <2>2, <1>1, <1>2, <1>5
    <3> QED BY <3>1
  <2> QED BY <2>1, <2>2, <1>3
<1>10. ReadsOf(r, s, frames \cup {i})
  <2>1. to \in [1 .. Len(r) -> frames \cup {i}]
    BY <1>1, <1>6
  <2>2. \A k, j \in 1 .. Len(r) : k < j => to[k] < to[j]
    BY <1>1, <1>7
  <2>3. \A f \in frames \cup {i} : \E k \in 1 .. Len(r) : to[k] = f
    BY <1>1, <1>8
  <2>4. \A k \in 1 .. Len(r) : r[k] = s[to[k]].says
    BY <1>1, <1>9
  <2> QED BY ONLY <2>1, <2>2, <2>3, <2>4 DEF ReadsOf
<1> QED BY <1>10 DEF r

(* The inductive invariant: what has been let go is whole frames and noise, *)
(* the queue holds what those frames say, and where noise has no start byte *)
(* a loop rests only where no whole frame is left.                          *)
ReadInv ==
    /\ Outside(script, Passed)
    /\ ReadsOf(queue, script, Arrived(script, Passed))
    /\ loop = "basic" /\ AllIos(script) => Len(buf) < 4
    /\ Quiet(script) /\ loop = "idle" => NoneBetween(script, Passed, sent)

(* Where the kept bytes lie in the stream.                                  *)
LEMMA Where ==
    ASSUME RxBounds, RxTypes
    PROVE  /\ script \in Seq(Piece)
           /\ Len(Stream(script)) \in Nat /\ sent \in Nat /\ sent <= Len(Stream(script))
           /\ buf \in Seq(Byte) /\ Len(buf) \in Nat /\ Passed \in Nat /\ sent = Passed + Len(buf)
           /\ \A i \in 1 .. Len(buf) : buf[i] = Stream(script)[Passed + i]
<1>1. script \in Seq(Piece)
  BY DEF RxTypes, RxBounds
<1>2. Len(Stream(script)) \in Nat
  <2>1. Stream(script) \in Seq(Byte)
    BY <1>1, Layout
  <2> QED BY <2>1
<1>3. sent \in Nat /\ sent <= Len(Stream(script)) /\ Len(buf) \in Nat /\ Len(buf) <= sent
  BY <1>2 DEF RxTypes
<1> QED BY <1>1, <1>2, <1>3 DEF RxTypes, Passed

(* Outside the frames and with a byte of a frame before it, the buffer      *)
(* holds that frame's bytes as far as it goes.                              *)
LEMMA HoldsFrame ==
    ASSUME RxBounds, RxTypes, Framed(script), NEW j \in Nat, j < Len(buf),
           Outside(script, Passed + j), AllIos(script) \/ Begins(script, Passed + j)
    PROVE  \E i \in 1 .. Len(script) :
              /\ Speaks(script, i) /\ Passed + j = End(script, i - 1)
              /\ End(script, i) = Passed + j + Len(script[i].bytes)
              /\ \A m \in 1 .. Len(script[i].bytes) : m <= Len(buf) - j => buf[j + m] = script[i].bytes[m]
<1> DEFINE q == Passed + j + 1
<1>1. /\ script \in Seq(Piece) /\ Passed \in Nat /\ Len(buf) \in Nat /\ sent = Passed + Len(buf)
      /\ q \in 1 .. Len(Stream(script)) /\ Passed + j \in Nat /\ q = (Passed + j) + 1
      /\ Stream(script)[q] = buf[j + 1]
  <2>1. j + 1 \in 1 .. Len(buf) /\ Passed + (j + 1) = q
    BY Where
  <2>2. buf[j + 1] = Stream(script)[Passed + (j + 1)]
    BY <2>1, Where
  <2> QED BY <2>1, <2>2, Where
<1>2. PICK i \in 1 .. Len(script) : Speaks(script, i) /\ Passed + j = End(script, i - 1)
  <2>1. CASE Begins(script, Passed + j)
    BY <2>1 DEF Begins
  <2>2. CASE AllIos(script)
    <3>1. PICK i \in 1 .. Len(script) : End(script, i - 1) < q /\ q <= End(script, i)
      BY <1>1, Lies
    <3>2. Speaks(script, i)
      BY <2>2, <1>1, FrameIs
    <3>3. Passed + j = End(script, i - 1)
      BY <1>1, <3>1, <3>2, AtItsBeginning
    <3> QED BY <3>2, <3>3
  <2> QED BY <2>1, <2>2
<1>3. /\ End(script, i) = End(script, i - 1) + Len(script[i].bytes) /\ Len(script[i].bytes) \in Nat
      /\ \A m \in 1 .. Len(script[i].bytes) :
            Stream(script)[End(script, i - 1) + m] = script[i].bytes[m]
  BY <1>1, PieceLies
<1>7. ASSUME NEW m \in 1 .. Len(script[i].bytes), m <= Len(buf) - j
      PROVE  buf[j + m] = script[i].bytes[m]
  <2>1. j + m \in 1 .. Len(buf) /\ Passed + (j + m) = (Passed + j) + m
    BY <1>1, <1>3, <1>7
  <2>2. buf[j + m] = Stream(script)[(Passed + j) + m]
    BY <2>1, Where
  <2> QED BY <2>2, <1>2, <1>3
<1> QED BY <1>2, <1>3, <1>7

(* What stands in front is read as the frame it is.                         *)
LEMMA IosFront ==
    ASSUME RxBounds, RxTypes, AllIos(script), Outside(script, Passed), Len(buf) >= 1
    PROVE  \E i \in 1 .. Len(script) :
              /\ Speaks(script, i) /\ IosFrame(script[i]) /\ Len(script[i].bytes) \in Nat
              /\ Len(script[i].bytes) >= 11
              /\ Passed = End(script, i - 1) /\ End(script, i) = Passed + Len(script[i].bytes)
              /\ Len(buf) >= 4 => HasHeader(buf)
              /\ Len(buf) >= 6 => IosLength(buf) = Len(script[i].bytes)
              /\ Len(buf) >= Len(script[i].bytes) => IosCandidate = script[i].bytes
<1>0. Passed + 0 = Passed /\ 0 < Len(buf) /\ \A m \in Nat : 0 + m = m
  BY Where
<1>1. PICK i \in 1 .. Len(script) :
         /\ Speaks(script, i) /\ Passed + 0 = End(script, i - 1)
         /\ End(script, i) = Passed + 0 + Len(script[i].bytes)
         /\ \A m \in 1 .. Len(script[i].bytes) : m <= Len(buf) - 0 => buf[0 + m] = script[i].bytes[m]
  <2>1. Outside(script, Passed + 0) /\ Framed(script)
    BY <1>0 DEF Framed
  <2> QED BY <1>0, <2>1, HoldsFrame
<1> DEFINE bytes == script[i].bytes
<1>2. bytes \in Seq(Byte) /\ Len(bytes) \in Nat /\ Len(bytes) >= 11 /\ IosFrame(script[i])
  BY Where, FrameIs DEF Framed
<1>3. buf \in Seq(Byte) /\ Len(buf) \in Nat
  BY Where
<1>4. \A m \in 1 .. Len(bytes) : m <= Len(buf) => buf[m] = bytes[m]
  BY <1>1, <1>2, <1>3
<1>5. IosLength(bytes) = Len(bytes) /\ HasHeader(bytes)
  BY <1>2 DEF IosFrame, IosValid
<1> HIDE DEF bytes
<1>6. ASSUME Len(buf) >= 4 PROVE HasHeader(buf)
  <2>1. SubSeq(buf, 1, 4) = SubSeq(bytes, 1, 4)
    <3>1. \A m \in 1 .. 4 : buf[m] = bytes[m]
      BY <1>2, <1>4, <1>6
    <3>2. /\ SubSeq(buf, 1, 4) \in Seq(Byte) /\ Len(SubSeq(buf, 1, 4)) = 4
          /\ \A m \in 1 .. 4 : SubSeq(buf, 1, 4)[m] = buf[m]
          /\ SubSeq(bytes, 1, 4) \in Seq(Byte) /\ Len(SubSeq(bytes, 1, 4)) = 4
          /\ \A m \in 1 .. 4 : SubSeq(bytes, 1, 4)[m] = bytes[m]
      BY <1>2, <1>3, <1>6, FrontIs
    <3> QED BY <3>1, <3>2, SeqEqual
  <2> QED BY <1>5, <1>6, <2>1 DEF HasHeader
<1>7. ASSUME Len(buf) >= 6 PROVE IosLength(buf) = Len(bytes)
  <2>1. buf[5] = bytes[5] /\ buf[6] = bytes[6]
    BY <1>2, <1>4, <1>7
  <2> QED BY <2>1, <1>5 DEF IosLength
<1>8. ASSUME Len(buf) >= Len(bytes) PROVE IosCandidate = bytes
  <2> DEFINE n == Len(bytes)
  <2>1. IosCandidate = SubSeq(buf, 1, n)
    BY <1>2, <1>3, <1>7, <1>8 DEF IosCandidate
  <2>2. /\ SubSeq(buf, 1, n) \in Seq(Byte) /\ Len(SubSeq(buf, 1, n)) = n
        /\ \A m \in 1 .. n : SubSeq(buf, 1, n)[m] = buf[m]
    <3>1. n \in 0 .. Len(buf)
      BY <1>2, <1>3, <1>8
    <3> QED BY <3>1, <1>3, FrontIs
  <2>3. \A m \in 1 .. n : SubSeq(buf, 1, n)[m] = bytes[m]
    BY <2>2, <1>2, <1>3, <1>4, <1>8
  <2>4. SubSeq(buf, 1, n) = bytes
    BY <2>2, <2>3, <1>2, SeqEqual
  <2> QED BY <2>1, <2>4
<1>9. Passed = End(script, i - 1) /\ End(script, i) = Passed + Len(bytes) /\ Speaks(script, i)
  BY <1>0, <1>1 DEF bytes
<1> QED BY <1>2, <1>6, <1>7, <1>8, <1>9 DEF bytes

LEMMA BasicFront ==
    ASSUME RxBounds, RxTypes, AllBasic(script), NEW j \in Nat, Found(j), Outside(script, Passed + j),
           Begins(script, Passed + j)
    PROVE  \E i \in 1 .. Len(script) :
              /\ Speaks(script, i) /\ BasicFrame(script[i]) /\ Len(script[i].bytes) \in Nat
              /\ Len(script[i].bytes) >= 7
              /\ Passed + j = End(script, i - 1)
              /\ End(script, i) = Passed + j + Len(script[i].bytes)
              /\ Len(FromStart) >= 4 => BasicLength(FromStart) = Len(script[i].bytes)
              /\ Len(FromStart) >= Len(script[i].bytes) => Candidate = script[i].bytes
<1>1. PICK i \in 1 .. Len(script) :
         /\ Speaks(script, i) /\ Passed + j = End(script, i - 1)
         /\ End(script, i) = Passed + j + Len(script[i].bytes)
         /\ \A m \in 1 .. Len(script[i].bytes) : m <= Len(buf) - j => buf[j + m] = script[i].bytes[m]
  <2>1. j < Len(buf) /\ Framed(script)
    BY Where DEF Found, Framed
  <2> QED BY <2>1, HoldsFrame
<1> DEFINE bytes == script[i].bytes
           f == FromStart
<1>2. bytes \in Seq(Byte) /\ Len(bytes) \in Nat /\ Len(bytes) >= 7 /\ BasicFrame(script[i])
  BY <1>1, Where, FrameIs DEF Framed
<1>3. f \in Seq(Byte) /\ Len(f) \in Nat /\ Len(f) = Len(buf) - j
      /\ \A m \in 1 .. Len(f) : f[m] = buf[j + m]
  BY DEF Found
<1>4. BasicLength(bytes) = Len(bytes) /\ Candidate = SubSeq(f, 1, BasicLength(f))
  BY <1>2 DEF BasicFrame, Candidate
<1>5. \A m \in 1 .. Len(bytes) : m <= Len(f) => f[m] = bytes[m]
  <2>1. \A m \in 1 .. Len(bytes) : m <= Len(f) => m \in 1 .. Len(f)
    BY <1>2, <1>3
  <2> QED BY <1>1, <1>3, <2>1
<1>6. Passed + j = End(script, i - 1) /\ End(script, i) = Passed + j + Len(bytes)
      /\ Speaks(script, i)
  BY <1>1
<1> HIDE DEF bytes, f
<1>7. ASSUME Len(f) >= 4 PROVE BasicLength(f) = Len(bytes)
  <2>1. f[2] = bytes[2] /\ f[3] = bytes[3]
    BY <1>2, <1>5, <1>7
  <2> QED BY <2>1, <1>4 DEF BasicLength
<1>8. ASSUME Len(f) >= Len(bytes) PROVE Candidate = bytes
  <2> DEFINE n == Len(bytes)
  <2>1. Candidate = SubSeq(f, 1, n)
    BY <1>2, <1>3, <1>4, <1>7, <1>8
  <2>2. /\ SubSeq(f, 1, n) \in Seq(Byte) /\ Len(SubSeq(f, 1, n)) = n
        /\ \A m \in 1 .. n : SubSeq(f, 1, n)[m] = f[m]
    <3>1. n \in 0 .. Len(f)
      BY <1>2, <1>3, <1>8
    <3> QED BY <3>1, <1>3, FrontIs
  <2>3. \A m \in 1 .. n : SubSeq(f, 1, n)[m] = bytes[m]
    BY <2>2, <1>2, <1>3, <1>5, <1>8
  <2>4. SubSeq(f, 1, n) = bytes
    BY <2>2, <2>3, <1>2, SeqEqual
  <2> QED BY <2>1, <2>4
<1> QED BY <1>2, <1>6, <1>7, <1>8 DEF bytes, f

(* The front frame goes and its message comes.                              *)
LEMMA TakesFrame ==
    ASSUME RxBounds, RxTypes, Framed(script), script' = script,
           NEW i \in 1 .. Len(script), Speaks(script, i),
           ReadsOf(queue, script, Arrived(script, End(script, i - 1))),
           Puts(script[i].says), Passed' = End(script, i)
    PROVE  /\ Outside(script', Passed')
           /\ ReadsOf(queue', script', Arrived(script', Passed'))
<1>1. script \in Seq(Piece) /\ queue \in Seq(Message) /\ i \in Nat
  BY Where DEF RxTypes
<1> DEFINE told == Arrived(script, End(script, i - 1))
<1>2. /\ Outside(script, End(script, i))
      /\ Arrived(script, End(script, i)) = told \cup {i}
      /\ \A f \in told : f \in 1 .. Len(script) /\ f < i
  BY <1>1, BehindIt
<1>3. ReadsOf(queue, script, told)
  OBVIOUS
<1> HIDE DEF told
<1>4. told \subseteq Nat
  BY <1>2
<1>5. ReadsOf(Append(queue, script[i].says), script, told \cup {i})
  BY <1>1, <1>2, <1>3, <1>4, ReadsMore DEF Puts
<1> QED BY <1>2, <1>5 DEF Puts

(* Bytes that go without a frame in them.                                   *)
LEMMA SkipsNoFrame ==
    ASSUME RxBounds, RxTypes, ReadInv, AllBasic(script), NEW j \in Nat, j <= Len(buf),
           \A i \in 1 .. j : buf[i] # 1
    PROVE  /\ Outside(script, Passed + j) /\ Arrived(script, Passed + j) = Arrived(script, Passed)
           /\ NoneBetween(script, Passed, Passed + j)
<1> DEFINE p == Passed
           r == Passed + j
<1>1. /\ script \in Seq(Piece) /\ p \in Nat /\ r \in Nat /\ p <= r /\ r = p + j
      /\ Len(buf) \in Nat /\ Outside(script, p)
      /\ \A i \in 1 .. Len(buf) : buf[i] = Stream(script)[p + i]
  BY Where DEF ReadInv
<1> HIDE DEF p, r
<1>2. ASSUME NEW q \in p + 1 .. r PROVE Stream(script)[q] # 1
  <2> DEFINE i == q - p
  <2>1. i \in 1 .. j /\ i \in 1 .. Len(buf) /\ p + i = q
    BY <1>1
  <2> HIDE DEF i
  <2> QED BY <2>1, <1>1
<1>3. Outside(script, r) /\ Arrived(script, r) = Arrived(script, p) /\ NoneBetween(script, p, r)
  BY <1>1, <1>2, NoStartNoFrame
<1> QED BY <1>3 DEF p, r

(* A turn that lets nothing go.                                             *)
LEMMA NothingGoes ==
    ASSUME RxBounds, RxTypes, ReadInv, Lets(0), queue' = queue,
           loop' = "basic" /\ AllIos(script) => Len(buf) < 4,
           Quiet(script) /\ loop' = "idle" => NoneBetween(script, Passed, sent)
    PROVE  ReadInv'
<1>1. script' = script /\ sent' = sent /\ Len(buf') = Len(buf) - 0 /\ Len(buf) \in Nat
  BY Where DEF Lets
<1>2. Len(buf') = Len(buf) /\ Passed' = Passed
  BY <1>1 DEF Passed
<1>3. Outside(script', Passed') /\ ReadsOf(queue', script', Arrived(script', Passed'))
  BY <1>1, <1>2 DEF ReadInv
<1> QED BY <1>1, <1>2, <1>3 DEF ReadInv, AllIos, NoneBetween, Speaks, Outside, Quiet

(* In a stream of iOS-LE frames only what may begin one gets to the Basic   *)
(* loop, and is too short for it.                                           *)
LEMMA IosReadStep ==
    ASSUME RxBounds, RxTypes, ReadInv, AllIos(script), OnData
    PROVE  ReadInv'
<1>0. Framed(script) /\ Outside(script, Passed) /\ script \in Seq(Piece)
      /\ Passed \in Nat /\ sent \in Nat /\ Len(buf) \in Nat /\ sent = Passed + Len(buf)
      /\ ReadsOf(queue, script, Arrived(script, Passed))
  BY Where DEF Framed, ReadInv
<1>1. CASE IosTake
  <2>1. /\ Lets(IosLength(buf)) /\ Puts(IosMessage(IosCandidate)) /\ loop' = "ios"
        /\ Len(buf) >= 11 /\ IosWhole
    BY <1>1, IosTakes DEF IosGoesOn, IosMin
  <2>2. PICK i \in 1 .. Len(script) :
              /\ Speaks(script, i) /\ IosFrame(script[i]) /\ Len(script[i].bytes) \in Nat
              /\ Passed = End(script, i - 1) /\ End(script, i) = Passed + Len(script[i].bytes)
              /\ IosLength(buf) = Len(script[i].bytes)
              /\ Len(buf) >= Len(script[i].bytes) => IosCandidate = script[i].bytes
    BY <1>0, <2>1, IosFront
  <2>3. IosCandidate = script[i].bytes /\ Puts(script[i].says)
    BY <2>1, <2>2 DEF IosWhole, IosFrame
  <2>4. script' = script /\ Passed' = End(script, i)
    <3>1. queue' \in Seq(Message) /\ loop' \in {"idle", "ios", "basic"}
      BY <2>1, PutsType DEF RxTypes
    <3>2. Passed' = Passed + IosLength(buf)
      BY <2>1, <3>1, LetsTypes
    <3> QED BY <2>1, <2>2, <3>2 DEF Lets
  <2>5. Outside(script', Passed') /\ ReadsOf(queue', script', Arrived(script', Passed'))
    BY <1>0, <2>2, <2>3, <2>4, TakesFrame
  <2> QED BY <2>1, <2>5 DEF ReadInv, Outside, Speaks
<1>2. CASE IosResync
  <2>1. IosGoesOn /\ Len(buf) >= 11
        /\ (TooLong(IosLength(buf)) \/ (IosWhole /\ ~ IosValid(IosCandidate)))
    BY <1>2, IosResyncs DEF IosGoesOn, IosMin
  <2>2. PICK i \in 1 .. Len(script) :
              /\ IosFrame(script[i]) /\ IosLength(buf) = Len(script[i].bytes)
              /\ Len(buf) >= Len(script[i].bytes) => IosCandidate = script[i].bytes
    BY <1>0, <2>1, IosFront
  <2>3. FALSE
    BY <2>1, <2>2 DEF IosFrame, IosWhole
  <2> QED BY <2>3
<1>3. CASE IosLeave
  <2>1. Lets(0) /\ queue' = queue /\ loop' \in {"basic", "idle"}
    BY <1>3, IosLeaves
  <2>2. /\ loop' = IF buf # <<>> /\ ~ HasHeader(buf) THEN "basic" ELSE "idle"
        /\ IosGoesOn => Len(buf) < IosLength(buf)
        /\ loop = "ios"
    BY <1>3 DEF IosLeave, Leave
  <2>3. Len(buf) >= 4 => HasHeader(buf)
    BY <1>0, IosFront
  <2>4. loop' = "basic" => Len(buf) < 4
    BY <2>2, <2>3, <1>0
  <2>5. NoneBetween(script, Passed, sent)
    <3>1. CASE Len(buf) < 11
      <4>1. sent < Passed + 11
        BY <1>0, <3>1
      <4> QED BY <1>0, <4>1, NoneInFew
    <3>2. CASE Len(buf) >= 11
      <4>1. PICK i \in 1 .. Len(script) :
              /\ Speaks(script, i) /\ Len(script[i].bytes) \in Nat
              /\ Passed = End(script, i - 1) /\ IosLength(buf) = Len(script[i].bytes)
        BY <1>0, <3>2, IosFront
      <4>2. IosGoesOn
        BY <2>2, <2>3, <3>2, <1>0 DEF IosGoesOn, IosMin
      <4>3. sent < Passed + Len(script[i].bytes)
        BY <1>0, <2>2, <4>1, <4>2
      <4> QED BY <1>0, <4>1, <4>3, NoneFits
    <3> QED BY <3>1, <3>2, <1>0
  <2> QED BY <2>1, <2>4, <2>5, NothingGoes
<1>4. CASE BasicShort
  <2>1. Lets(0) /\ queue' = queue /\ loop' = "idle" /\ Len(buf) < 7
    BY <1>4, ShortStays
  <2>2. sent < Passed + 7
    BY <1>0, <2>1
  <2>3. NoneBetween(script, Passed, sent)
    BY <1>0, <2>2, NoneInFew
  <2> QED BY <2>1, <2>3, NothingGoes
<1>5. CASE BasicNoStart \/ BasicWait \/ BasicResync \/ BasicTake
  <2>1. loop = "basic" /\ Len(buf) >= 7
    BY <1>5 DEF BasicNoStart, BasicWait, BasicResync, BasicTake, InStep,
                BasicGoesOn, BasicMin
  <2>2. Len(buf) < 4
    BY <2>1 DEF ReadInv
  <2> QED BY <2>1, <2>2, <1>0
<1> QED BY <1>1, <1>2, <1>3, <1>4, <1>5 DEF OnData

(* What the reader holds is a span of the stream.                           *)
LEMMA Span ==
    ASSUME RxBounds, RxTypes, NEW j \in Nat, NEW n \in Nat, j + n <= Len(buf),
           NEW c \in Seq(Byte), Len(c) = n, \A i \in 1 .. n : c[i] = buf[j + i]
    PROVE  /\ SubSeq(Stream(script), Passed + j + 1, Passed + j + n) = c
           /\ Passed + j \in 0 .. Len(Stream(script)) /\ Passed + j + n \in 0 .. Len(Stream(script))
<1> DEFINE all == Stream(script)
           p == Passed + j
           r == p + n
<1>1. /\ all \in Seq(Byte) /\ Len(all) \in Nat /\ Passed \in Nat /\ sent = Passed + Len(buf)
      /\ sent <= Len(all) /\ Len(buf) \in Nat
      /\ \A i \in 1 .. Len(buf) : buf[i] = all[Passed + i]
  BY Where, Layout
<1> HIDE DEF all
<1>2. p \in Nat /\ r \in Nat /\ p <= r /\ r <= Len(all) /\ \A i \in Nat : Passed + (j + i) = p + i
  BY <1>1
<1>3. ASSUME NEW i \in 1 .. n PROVE c[i] = all[p + i]
  <2>1. j + i \in 1 .. Len(buf) /\ i \in Nat
    BY <1>1
  <2> QED BY <2>1, <1>1, <1>2
<1>4. r = p + n
  OBVIOUS
<1> HIDE DEF p, r
<1>5. /\ SubSeq(all, p + 1, r) \in Seq(Byte) /\ Len(SubSeq(all, p + 1, r)) = n
      /\ \A i \in 1 .. n : SubSeq(all, p + 1, r)[i] = all[p + i]
  BY <1>1, <1>2, <1>4, MiddleIs
<1>6. SubSeq(all, p + 1, r) = c
  BY <1>3, <1>5, SeqEqual
<1>7. p \in 0 .. Len(all) /\ r \in 0 .. Len(all)
  BY <1>1, <1>2
<1> QED BY <1>6, <1>7 DEF p, r, all

(* So what looks like a frame is the beginning of one.                      *)
LEMMA LooksTrue ==
    ASSUME RxBounds, RxTypes, NothingForged(script), NEW j \in Nat, NEW n \in Nat, n >= 1,
           j + n <= Len(buf), Outside(script, Passed + j),
           NEW c \in Seq(Byte), Len(c) = n, \A i \in 1 .. n : c[i] = buf[j + i], Looks(c)
    PROVE  Begins(script, Passed + j)
<1> DEFINE p == Passed + j
           r == p + n
<1>1. SubSeq(Stream(script), p + 1, r) = c /\ p \in 0 .. Len(Stream(script)) /\ r \in 0 .. Len(Stream(script))
  BY Span
<1>2. p < r
  BY Where
<1>3. Outside(script, p) /\ Looks(SubSeq(Stream(script), p + 1, r))
  BY <1>1
<1> HIDE DEF p, r
<1>4. Begins(script, p)
  BY <1>1, <1>2, <1>3 DEF NothingForged
<1> QED BY <1>4 DEF p

(* In a stream of Basic frames the iOS-LE loop finds no header.             *)
LEMMA NoHeader ==
    ASSUME RxBounds, RxTypes, AllBasic(script), NothingForged(script), Outside(script, Passed)
    PROVE  ~ HasHeader(buf)
<1> SUFFICES ASSUME HasHeader(buf) PROVE FALSE
  OBVIOUS
<1>0. /\ script \in Seq(Piece) /\ Passed \in Nat /\ Len(buf) \in Nat /\ buf \in Seq(Byte)
      /\ \A i \in 1 .. Len(buf) : buf[i] = Stream(script)[Passed + i]
  BY Where
<1>1. Len(buf) >= 4 /\ SubSeq(buf, 1, 4) = HEADER
  BY DEF HasHeader
<1>2. buf[1] = 254
  <2>1. SubSeq(buf, 1, 4)[1] = buf[1]
    BY <1>0, <1>1, FrontIs
  <2>2. HEADER[1] = 254
    BY DEF HEADER
  <2> QED BY <1>1, <2>1, <2>2
<1>3. Begins(script, Passed)
  <2> DEFINE n == Len(buf)
  <2>1. n \in Nat /\ n >= 1 /\ 0 + n <= Len(buf) /\ Passed + 0 = Passed
        /\ \A i \in 1 .. n : buf[i] = buf[0 + i]
    BY <1>0, <1>1
  <2>2. Looks(buf) /\ Outside(script, Passed + 0)
    BY <2>1 DEF Looks
  <2>3. Len(buf) = n
    OBVIOUS
  <2> HIDE DEF n
  <2>4. Begins(script, Passed + 0)
    BY <1>0, <2>1, <2>2, <2>3, LooksTrue
  <2> QED BY <2>1, <2>4
<1>4. PICK i \in 1 .. Len(script) : Speaks(script, i) /\ Passed = End(script, i - 1)
  BY <1>3 DEF Begins
<1>5. BasicFrame(script[i]) /\ Len(script[i].bytes) \in Nat /\ Len(script[i].bytes) >= 7
  BY <1>0, <1>4, FrameIs DEF Framed
<1>6. script[i].bytes[1] = 1 /\ 1 \in 1 .. Len(script[i].bytes)
  BY <1>5 DEF BasicFrame, START
<1>7. Stream(script)[Passed + 1] = 1
  BY <1>0, <1>4, <1>6, PieceLies
<1>8. buf[1] = Stream(script)[Passed + 1]
  BY <1>0, <1>1
<1> QED BY <1>2, <1>7, <1>8

(* Where noise has no start byte, the first one found begins a frame.       *)
LEMMA QuietBegins ==
    ASSUME RxBounds, RxTypes, AllBasic(script), Quiet(script), NEW j \in Nat, Found(j),
           Outside(script, Passed + j)
    PROVE  Begins(script, Passed + j)
<1> DEFINE q == Passed + j + 1
<1>1. /\ script \in Seq(Piece) /\ Passed \in Nat /\ Passed + j \in Nat
      /\ q \in 1 .. Len(Stream(script)) /\ q = (Passed + j) + 1 /\ Stream(script)[q] = 1
  <2>1. j + 1 \in 1 .. Len(buf) /\ Passed + (j + 1) = q
    BY Where DEF Found
  <2>2. buf[j + 1] = Stream(script)[Passed + (j + 1)] /\ buf[j + 1] = 1
    BY <2>1, Where DEF Found
  <2> QED BY <2>1, <2>2, Where
<1>2. PICK i \in 1 .. Len(script) : End(script, i - 1) < q /\ q <= End(script, i)
  BY <1>1, Lies
<1>3. /\ End(script, i) = End(script, i - 1) + Len(script[i].bytes) /\ Len(script[i].bytes) \in Nat
      /\ \A m \in 1 .. Len(script[i].bytes) :
            Stream(script)[End(script, i - 1) + m] = script[i].bytes[m]
  BY <1>1, PieceLies
<1>4. End(script, i - 1) \in Nat
  <2>1. i - 1 \in 0 .. Len(script)
    BY <1>1
  <2> QED BY <2>1, <1>1, Layout
<1>5. Speaks(script, i)
  <2> SUFFICES ASSUME ~ Speaks(script, i) PROVE FALSE
    OBVIOUS
  <2> DEFINE e == End(script, i - 1)
             m == q - e
  <2>1. e \in Nat /\ e < q /\ q <= e + Len(script[i].bytes) /\ q \in Nat
    BY <1>1, <1>2, <1>3, <1>4
  <2> HIDE DEF e, q
  <2>2. m \in 1 .. Len(script[i].bytes) /\ e + m = q
    BY <2>1, <1>3
  <2> HIDE DEF m
  <2>3. script[i].bytes[m] = 1
    BY <2>2, <1>1, <1>3 DEF e
  <2> QED BY <2>2, <2>3 DEF Quiet, START
<1>6. Passed + j = End(script, i - 1)
  BY <1>1, <1>2, <1>5, AtItsBeginning
<1> QED BY <1>5, <1>6 DEF Begins

LEMMA Adds ==
    ASSUME NEW p \in Nat, NEW j \in Nat, NEW n \in Nat
    PROVE  /\ p + (j + n) = p + j + n
           /\ \A k \in Nat, s \in Nat : s = p + k /\ k - j < n => s < p + j + n
  OBVIOUS

(* In a stream of Basic frames the loop finds each at its start byte.       *)
LEMMA BasicReadStep ==
    ASSUME RxBounds, RxTypes, ReadInv, AllBasic(script), NothingForged(script), ~ AllIos(script), OnData
    PROVE  ReadInv'
<1>0. Framed(script) /\ Outside(script, Passed) /\ script \in Seq(Piece)
      /\ Passed \in Nat /\ sent \in Nat /\ Len(buf) \in Nat /\ sent = Passed + Len(buf)
      /\ ReadsOf(queue, script, Arrived(script, Passed)) /\ ~ HasHeader(buf)
  BY Where, NoHeader DEF Framed, ReadInv
<1>1. CASE IosTake \/ IosResync
  BY <1>0, <1>1 DEF IosTake, IosResync, IosGoesOn
<1>2. CASE IosLeave
  <2>1. Lets(0) /\ queue' = queue
    BY <1>2, IosLeaves
  <2>2. loop' = "idle" => Len(buf) = 0
    BY <1>0, <1>2, EmptySeq DEF IosLeave, Leave
  <2>3. loop' = "idle" => sent < Passed + 7
    BY <2>2, <1>0
  <2>4. loop' = "idle" => NoneBetween(script, Passed, sent)
    BY <1>0, <2>3, NoneInFew
  <2> QED BY <1>0, <2>1, <2>4, NothingGoes
<1>3. CASE BasicShort
  <2>1. Lets(0) /\ queue' = queue /\ loop' = "idle" /\ Len(buf) < 7
    BY <1>3, ShortStays
  <2>2. sent < Passed + 7
    BY <1>0, <2>1
  <2>3. NoneBetween(script, Passed, sent)
    BY <1>0, <2>2, NoneInFew
  <2> QED BY <2>1, <2>3, NothingGoes
<1>4. CASE BasicNoStart
  <2>1. /\ Lets(Len(buf)) /\ queue' = queue /\ loop' = "idle"
        /\ \A i \in 1 .. Len(buf) : buf[i] # 1
    BY <1>4, NoStartGoes
  <2>2. Outside(script, Passed + Len(buf)) /\ Arrived(script, Passed + Len(buf)) = Arrived(script, Passed)
    BY <1>0, <2>1, SkipsNoFrame
  <2>3. script' = script /\ sent' = sent /\ Passed' = sent
    <3>1. queue' \in Seq(Message) /\ loop' \in {"idle", "ios", "basic"}
      BY <2>1 DEF RxTypes
    <3>2. Passed' = Passed + Len(buf)
      BY <2>1, <3>1, LetsTypes
    <3> QED BY <2>1, <3>2, <1>0 DEF Lets
  <2>4. NoneBetween(script, sent, sent)
    BY DEF NoneBetween
  <2> QED BY <1>0, <2>1, <2>2, <2>3, <2>4 DEF ReadInv, NoneBetween, Outside, Speaks, AllIos, Quiet
<1>5. CASE BasicWait
  <2>1. /\ queue' = queue /\ loop' = "idle"
        /\ Len(FromStart) >= 4 => Len(FromStart) < BasicLength(FromStart)
    BY <1>5, WaitStays
  <2>2. PICK j \in Nat : Found(j) /\ Lets(j)
    BY <1>5, WaitStays
  <2>3. j <= Len(buf) /\ Len(FromStart) = Len(buf) - j /\ \A i \in 1 .. j : buf[i] # 1
    BY <2>2, <1>0 DEF Found
  <2>4. Outside(script, Passed + j) /\ Arrived(script, Passed + j) = Arrived(script, Passed)
    BY <2>3, SkipsNoFrame
  <2>5. script' = script /\ sent' = sent /\ Passed' = Passed + j
    <3>1. queue' \in Seq(Message) /\ loop' \in {"idle", "ios", "basic"}
      BY <2>1 DEF RxTypes
    <3> QED BY <2>2, <3>1, LetsTypes DEF Lets
  <2>6. ASSUME Quiet(script) PROVE NoneBetween(script, Passed + j, sent)
    <3>0. Passed + j \in Nat
      BY <1>0
    <3>1. CASE Len(FromStart) < 4
      <4>1. sent < Passed + j + 7
        BY <1>0, <2>3, <3>1
      <4> QED BY <1>0, <2>4, <3>0, <4>1, NoneInFew
    <3>2. CASE Len(FromStart) >= 4
      <4>1. PICK i \in 1 .. Len(script) :
              /\ Speaks(script, i) /\ Len(script[i].bytes) \in Nat
              /\ Passed + j = End(script, i - 1)
              /\ BasicLength(FromStart) = Len(script[i].bytes)
        <5>1. Begins(script, Passed + j)
          BY <2>2, <2>4, <2>6, QuietBegins
        <5> QED BY <2>2, <2>4, <3>2, <5>1, BasicFront
      <4>2. sent < Passed + j + Len(script[i].bytes)
        <5>1. Len(buf) - j < Len(script[i].bytes)
          BY <2>1, <2>3, <3>2, <4>1
        <5> QED BY <1>0, <4>1, <5>1, Adds
      <4> QED BY <1>0, <2>4, <3>0, <4>1, <4>2, NoneFits
    <3> QED BY <3>1, <3>2, <2>3, <1>0
  <2>7. /\ Outside(script', Passed') /\ ReadsOf(queue', script', Arrived(script', Passed'))
        /\ Quiet(script) => NoneBetween(script', Passed', sent')
    BY <1>0, <2>1, <2>4, <2>5, <2>6
  <2> QED BY <2>1, <2>5, <2>7 DEF ReadInv, NoneBetween, Outside, Speaks, Quiet, AllIos
<1>6. CASE BasicResync
  <2>1. /\ TooLong(BasicLength(FromStart)) \/ (BasicWhole /\ ~ BasicValid(Candidate))
        /\ Len(FromStart) >= 4 /\ queue' = queue /\ loop' = "basic"
    BY <1>6, BasicResyncs DEF InStep, BasicGoesOn
  <2>2. PICK j \in Nat : Found(j) /\ Lets(j + 1)
    BY <1>6, BasicResyncs
  <2>3. j <= Len(buf) /\ \A i \in 1 .. j : buf[i] # 1
    BY <2>2, <1>0 DEF Found
  <2>4. Outside(script, Passed + j) /\ Arrived(script, Passed + j) = Arrived(script, Passed)
    BY <2>3, SkipsNoFrame
  <2>5. ASSUME Begins(script, Passed + j) PROVE FALSE
    <3>1. PICK i \in 1 .. Len(script) :
              /\ BasicFrame(script[i]) /\ BasicLength(FromStart) = Len(script[i].bytes)
              /\ Len(FromStart) >= Len(script[i].bytes) => Candidate = script[i].bytes
      BY <2>1, <2>2, <2>4, <2>5, BasicFront
    <3> QED BY <2>1, <3>1 DEF BasicFrame, BasicWhole
  <2> DEFINE p == Passed + j
             r == Passed + (j + 1)
  <2>6. p \in Nat /\ r \in Nat /\ r = p + 1
    BY <1>0
  <2>7. script' = script /\ Passed' = r
    <3>1. queue' \in Seq(Message) /\ loop' \in {"idle", "ios", "basic"}
      BY <2>1 DEF RxTypes
    <3> QED BY <2>2, <3>1, LetsTypes DEF Lets
  <2>8. Outside(script, p) /\ Arrived(script, p) = Arrived(script, Passed) /\ ~ Begins(script, p)
    BY <2>4, <2>5
  <2> HIDE DEF p, r
  <2>9. Outside(script, r) /\ Arrived(script, r) = Arrived(script, Passed)
    BY <1>0, <2>6, <2>8, NoiseNoFrame
  <2>10. Outside(script', Passed') /\ ReadsOf(queue', script', Arrived(script', Passed'))
    BY <1>0, <2>1, <2>7, <2>9
  <2> QED BY <1>0, <2>1, <2>7, <2>10 DEF ReadInv, Outside, Speaks, AllIos
<1>7. CASE BasicTake
  <2>1. /\ Puts(BasicMessage(Candidate)) /\ loop' = loop /\ loop = "basic"
        /\ Len(FromStart) >= 4 /\ BasicWhole /\ BasicValid(Candidate)
    BY <1>7, BasicTakes DEF InStep, BasicGoesOn
  <2>2. PICK j \in Nat : Found(j) /\ Lets(j + BasicLength(FromStart))
    BY <1>7, BasicTakes
  <2>3. j <= Len(buf) /\ \A i \in 1 .. j : buf[i] # 1
    BY <2>2, <1>0 DEF Found
  <2>4. Outside(script, Passed + j) /\ Arrived(script, Passed + j) = Arrived(script, Passed)
    BY <2>3, SkipsNoFrame
  <2>10. Begins(script, Passed + j)
    <3> DEFINE n == BasicLength(FromStart)
               c == Candidate
    <3>1. /\ n \in Nat /\ n >= 4 /\ n <= Len(FromStart)
          /\ c \in Seq(Byte) /\ Len(c) = n /\ \A i \in 1 .. n : c[i] = FromStart[i]
      BY <2>1, <2>2, CandidateIs DEF Found
    <3>2. /\ Len(FromStart) = Len(buf) - j /\ \A i \in 1 .. Len(buf) - j : FromStart[i] = buf[j + i]
          /\ buf[j + 1] = 1
      BY <2>2 DEF Found
    <3>3. Looks(c)
      <4>1. \A i \in 1 .. 3 : c[i] = FromStart[i]
        BY <3>1
      <4>2. BasicLength(c) = n
        BY <4>1 DEF BasicLength
      <4>3. c[1] = 1
        <5>1. 1 \in 1 .. Len(buf) - j /\ 1 \in 1 .. 3
          BY <3>1, <3>2
        <5> QED BY <5>1, <4>1, <3>2
      <4> QED BY <2>1, <3>1, <4>2, <4>3 DEF Looks, START
    <3> HIDE DEF n, c
    <3>4. j + n <= Len(buf) /\ n >= 1 /\ \A i \in 1 .. n : i \in 1 .. Len(buf) - j
      BY <1>0, <2>3, <3>1, <3>2
    <3>5. \A i \in 1 .. n : c[i] = buf[j + i]
      BY <3>1, <3>2, <3>4
    <3> QED BY <2>4, <3>1, <3>3, <3>4, <3>5, LooksTrue
  <2>5. PICK i \in 1 .. Len(script) :
              /\ Speaks(script, i) /\ BasicFrame(script[i]) /\ Len(script[i].bytes) \in Nat
              /\ Passed + j = End(script, i - 1)
              /\ End(script, i) = Passed + j + Len(script[i].bytes)
              /\ BasicLength(FromStart) = Len(script[i].bytes)
              /\ Len(FromStart) >= Len(script[i].bytes) => Candidate = script[i].bytes
    BY <2>1, <2>2, <2>4, <2>10, BasicFront
  <2>6. Puts(script[i].says)
    BY <2>1, <2>5 DEF BasicWhole, BasicFrame
  <2>7. script' = script /\ Passed' = End(script, i)
    <3>1. queue' \in Seq(Message) /\ loop' \in {"idle", "ios", "basic"}
      BY <2>1, PutsType DEF RxTypes
    <3>2. Passed' = Passed + (j + BasicLength(FromStart))
      BY <2>2, <3>1, LetsTypes
    <3>3. Passed' = Passed + (j + Len(script[i].bytes))
      BY <2>5, <3>2
    <3>4. Passed' = Passed + j + Len(script[i].bytes)
      <4> DEFINE n == Len(script[i].bytes)
      <4>1. n \in Nat /\ Passed \in Nat /\ Passed' = Passed + (j + n)
        BY <2>5, <3>3, <1>0
      <4> HIDE DEF n
      <4>2. Passed' = Passed + j + n
        BY <4>1, Adds
      <4> QED BY <4>2 DEF n
    <3> QED BY <2>2, <2>5, <3>4 DEF Lets
  <2>8. ReadsOf(queue, script, Arrived(script, End(script, i - 1)))
    BY <1>0, <2>4, <2>5
  <2>9. Outside(script', Passed') /\ ReadsOf(queue', script', Arrived(script', Passed'))
    BY <1>0, <2>5, <2>6, <2>7, <2>8, TakesFrame
  <2> QED BY <1>0, <2>1, <2>7, <2>9 DEF ReadInv, Outside, Speaks, AllIos
<1> QED BY <1>1, <1>2, <1>3, <1>4, <1>5, <1>6, <1>7 DEF OnData

\* A panel sends what it sends.
LEMMA SameScript == ASSUME [RxNext]_rxVars PROVE script' = script
  BY DEF RxNext, Receive, OnData, IosTake, IosResync, IosLeave, BasicShort, BasicNoStart,
         BasicWait, BasicResync, BasicTake, AllSent, Turn, Leave, rxVars

LEMMA ReadStep ==
    ASSUME RxBounds, RxTypes, ReadInv, OneFraming(script), [RxNext]_rxVars
    PROVE  ReadInv' /\ OneFraming(script)'
<1>0. script' = script
  BY SameScript
<1>1. OneFraming(script)'
  BY <1>0 DEF OneFraming, AllBasic, AllIos, NothingForged, Outside, Begins, Speaks
<1>2. CASE OnData
  BY <1>1, <1>2, IosReadStep, BasicReadStep DEF OneFraming
<1>3. CASE Receive
  <2>1. Passed' = Passed /\ queue' = queue /\ loop' = "ios"
    BY <1>3, Receives
  <2>2. Outside(script', Passed') /\ ReadsOf(queue', script', Arrived(script', Passed'))
    BY <2>1, <1>0 DEF ReadInv
  <2> QED BY <2>1, <2>2, <1>1 DEF ReadInv, Outside, Speaks
<1>4. CASE UNCHANGED rxVars
  <2>1. sent' = sent /\ buf' = buf /\ queue' = queue /\ loop' = loop
    BY <1>4 DEF rxVars
  <2>2. Passed' = Passed
    BY <2>1 DEF Passed
  <2>3. /\ Outside(script', Passed') /\ ReadsOf(queue', script', Arrived(script', Passed'))
        /\ loop' = "basic" /\ AllIos(script') => Len(buf') < 4
        /\ Quiet(script) /\ loop' = "idle" => NoneBetween(script', Passed', sent')
    BY <2>1, <2>2, <1>0 DEF ReadInv
  <2> QED BY <2>3, <1>0 DEF ReadInv, Outside, Speaks, AllIos, NoneBetween, Quiet
<1>5. CASE AllSent
  BY <1>4, <1>5 DEF AllSent
<1> QED BY <1>2, <1>3, <1>4, <1>5 DEF RxNext

LEMMA ReadInit ==
    ASSUME RxBounds, OneFraming(script), RxInit
    PROVE  ReadInv
<1>1. script \in Seq(Piece) /\ Len(buf) = 0 /\ sent = 0 /\ queue = <<>> /\ loop = "idle" /\ Passed = 0
  <2>1. script \in Seq(Piece) /\ buf = <<>> /\ sent = 0 /\ queue = <<>> /\ loop = "idle"
    BY DEF RxInit, RxBounds
  <2>2. Len(buf) = 0
    BY <2>1
  <2>3. \A b \in Nat, n \in Nat : b = 0 /\ n = 0 => n - b = 0
    OBVIOUS
  <2>4. Passed = 0
    BY <2>1, <2>2, <2>3 DEF Passed
  <2> QED BY <2>1, <2>2, <2>4
<1>2. ASSUME NEW i \in 1 .. Len(script), Speaks(script, i)
      PROVE  End(script, i - 1) \in Nat /\ End(script, i) >= 7
  <2>1. i - 1 \in 0 .. Len(script)
    BY <1>1
  <2>2. End(script, i - 1) \in Nat
    BY <2>1, <1>1, Layout
  <2>3. End(script, i) = End(script, i - 1) + Len(script[i].bytes)
    BY <1>1, PieceLies
  <2>4. Len(script[i].bytes) \in Nat /\ Len(script[i].bytes) >= 7
    BY <1>1, <1>2, FrameIs DEF Framed, OneFraming
  <2> QED BY <2>2, <2>3, <2>4
<1>3. ASSUME NEW i \in 1 .. Len(script), Speaks(script, i) PROVE ~ End(script, i) <= 0
  <2>1. i \in 0 .. Len(script)
    BY <1>1
  <2>2. End(script, i) \in Nat
    BY <2>1, <1>1, Layout
  <2> QED BY <2>2, <1>2, <1>3
<1>4. Arrived(script, 0) = {}
  BY <1>3 DEF Arrived, Speaks
<1>5. Outside(script, 0)
  BY <1>2 DEF Outside
<1>6. NoneBetween(script, 0, 0)
  BY DEF NoneBetween
<1>7. ReadsOf(<<>>, script, {})
  <2>1. Len(<<>>) = 0 /\ <<>> \in [1 .. 0 -> {}]
    OBVIOUS
  <2>2. \A i \in 1 .. 0 : FALSE
    OBVIOUS
  <2> QED BY <2>1, <2>2 DEF ReadsOf
<1> QED BY <1>1, <1>4, <1>5, <1>6, <1>7 DEF ReadInv

\* All that has been handed over has been read.
AllRead == loop = "idle" => Reads(Arrived(script, sent))

LEMMA ReadAtRest ==
    ASSUME RxBounds, RxTypes, ReadInv PROVE SentIsRead /\ (Quiet(script) => AllRead)
<1> SUFFICES ASSUME loop = "idle"
             PROVE  /\ Reads(Arrived(script, Passed))
                    /\ Quiet(script) => Reads(Arrived(script, sent))
  BY DEF SentIsRead, AllRead, Passed
<1>1. Reads(Arrived(script, Passed))
  BY DEF ReadInv, ReadsOf, Reads
<1>2. ASSUME Quiet(script) PROVE Arrived(script, sent) = Arrived(script, Passed)
  <2>1. NoneBetween(script, Passed, sent)
    BY <1>2 DEF ReadInv
  <2>2. script \in Seq(Piece) /\ Passed \in Nat /\ sent \in Nat /\ Passed <= sent
    BY Where
  <2>3. \A i \in 1 .. Len(script) : End(script, i) \in Nat
    <3>1. \A i \in 1 .. Len(script) : i \in 0 .. Len(script)
      BY <2>2
    <3> QED BY <3>1, <2>2, Layout
  <2>4. \A i \in 1 .. Len(script) :
           Speaks(script, i) => (End(script, i) <= sent <=> End(script, i) <= Passed)
    BY <2>1, <2>2, <2>3 DEF NoneBetween
  <2> QED BY <2>4 DEF Arrived, Speaks
<1> QED BY <1>1, <1>2

(* In a stream of one framing, however it is cut and whatever lengths the   *)
(* noise between Basic frames makes up: between two pieces exactly the      *)
(* frames before the kept bytes have been read, each once and in order; no  *)
(* made-up length swallows one (framing.py:128-141).                        *)
THEOREM RxSentIsRead == RxSpec /\ OneFraming(script) => []SentIsRead
<1> USE Bounds
<1>1. RxInit /\ OneFraming(script) => RxTypes /\ ReadInv /\ OneFraming(script)
  BY TypesAtFirst, ReadInit
<1>2. RxTypes /\ ReadInv /\ OneFraming(script) /\ [RxNext]_rxVars
      => RxTypes' /\ ReadInv' /\ OneFraming(script)'
  BY BoundedStep, ReadStep
<1>3. RxTypes /\ ReadInv => SentIsRead
  BY ReadAtRest
<1> QED BY <1>1, <1>2, <1>3, PTL DEF RxSpec

(* No frame is kept back either, as long as the noise holds no start byte:  *)
(* each that has wholly come in has been read, whatever follows it          *)
(* (bt_spp_rfcomm.py:156-194).                                              *)
THEOREM RxAllRead == RxSpec /\ OneFraming(script) /\ Quiet(script) => []AllRead
<1> USE Bounds
<1>1. RxInit /\ OneFraming(script) => RxTypes /\ ReadInv /\ OneFraming(script)
  BY TypesAtFirst, ReadInit
<1>2. RxTypes /\ ReadInv /\ OneFraming(script) /\ [RxNext]_rxVars
      => RxTypes' /\ ReadInv' /\ OneFraming(script)'
  BY BoundedStep, ReadStep
<1>3. Quiet(script) /\ [RxNext]_rxVars => Quiet(script)'
  <2> SUFFICES ASSUME Quiet(script), [RxNext]_rxVars PROVE Quiet(script)'
    OBVIOUS
  <2>1. script' = script
    BY SameScript
  <2> QED BY <2>1 DEF Quiet, Speaks
<1>4. RxTypes /\ ReadInv /\ Quiet(script) => AllRead
  BY ReadAtRest
<1> QED BY <1>1, <1>2, <1>3, <1>4, PTL DEF RxSpec

-----------------------------------------------------------------------------
(* Whatever comes: every message is read out of the stream, and no byte     *)
(* twice.                                                                   *)

Decodes(c, m) ==
    \/ IosValid(c) /\ m = IosMessage(c)
    \/ BasicValid(c) /\ m = BasicMessage(c)
\* The messages of q lie in the first p bytes of a stream, apart and in order.
Lie(q, all, p) ==
    \E from, to \in [1 .. Len(q) -> 0 .. p] :
        /\ \A i \in 1 .. Len(q) : from[i] < to[i] /\ Decodes(SubSeq(all, from[i] + 1, to[i]), q[i])
        /\ \A i, j \in 1 .. Len(q) : i < j => to[i] <= from[j]
\* The messages read lie in what has been let go.
NothingMadeUp == Lie(queue, Stream(script), Passed)

LEMMA LieFurther ==
    ASSUME NEW q, NEW all, NEW p \in Nat, NEW r \in Nat, p <= r, Lie(q, all, p)
    PROVE  Lie(q, all, r)
<1>1. PICK from \in [1 .. Len(q) -> 0 .. p], to \in [1 .. Len(q) -> 0 .. p] :
        /\ \A i \in 1 .. Len(q) : from[i] < to[i] /\ Decodes(SubSeq(all, from[i] + 1, to[i]), q[i])
        /\ \A i, j \in 1 .. Len(q) : i < j => to[i] <= from[j]
  BY DEF Lie
<1>2. 0 .. p \subseteq 0 .. r
  OBVIOUS
<1>3. from \in [1 .. Len(q) -> 0 .. r] /\ to \in [1 .. Len(q) -> 0 .. r]
  BY <1>1, <1>2
<1> QED BY <1>1, <1>3 DEF Lie

LEMMA LieMore ==
    ASSUME NEW q \in Seq(Message), NEW all, NEW p \in Nat, Lie(q, all, p),
           NEW a \in Nat, NEW b \in Nat, p <= a, a < b, NEW m \in Message,
           Decodes(SubSeq(all, a + 1, b), m)
    PROVE  Lie(Append(q, m), all, b)
<1> DEFINE n == Len(q)
           r == Append(q, m)
<1>1. n \in Nat /\ Len(r) = n + 1 /\ (\A k \in 1 .. n : r[k] = q[k]) /\ r[n + 1] = m
  BY AppendProperties
<1>2. PICK from \in [1 .. n -> 0 .. p], to \in [1 .. n -> 0 .. p] :
        /\ \A i \in 1 .. n : from[i] < to[i] /\ Decodes(SubSeq(all, from[i] + 1, to[i]), q[i])
        /\ \A i, j \in 1 .. n : i < j => to[i] <= from[j]
  BY DEF Lie
<1> HIDE DEF n, r
<1> DEFINE from1 == [k \in 1 .. n + 1 |-> IF k = n + 1 THEN a ELSE from[k]]
           to1 == [k \in 1 .. n + 1 |-> IF k = n + 1 THEN b ELSE to[k]]
<1>3. \A k \in 1 .. n + 1 : k = n + 1 \/ k \in 1 .. n
  BY <1>1
<1>4. \A k \in 1 .. n : k \in 1 .. n + 1 /\ k # n + 1
  BY <1>1
<1>5. \A k \in 1 .. n : from[k] \in 0 .. p /\ to[k] \in 0 .. p
  BY <1>2
<1>6. n + 1 \in 1 .. n + 1
  BY <1>1
<1>7. /\ from1[n + 1] = a /\ to1[n + 1] = b
      /\ \A k \in 1 .. n : from1[k] = from[k] /\ to1[k] = to[k]
  BY <1>4, <1>6
<1>8. 0 .. p \subseteq 0 .. b /\ a \in 0 .. b /\ b \in 0 .. b
  OBVIOUS
<1>9. from1 \in [1 .. n + 1 -> 0 .. b] /\ to1 \in [1 .. n + 1 -> 0 .. b]
  BY <1>3, <1>5, <1>8
<1> HIDE DEF from1, to1
<1>10. ASSUME NEW k \in 1 .. n + 1
       PROVE  from1[k] < to1[k] /\ Decodes(SubSeq(all, from1[k] + 1, to1[k]), r[k])
  <2>1. CASE k = n + 1
    BY <2>1, <1>1, <1>7
  <2>2. CASE k \in 1 .. n
    BY <2>2, <1>1, <1>2, <1>7
  <2> QED BY <2>1, <2>2, <1>3
<1>11. ASSUME NEW k \in 1 .. n + 1, NEW j \in 1 .. n + 1, k < j PROVE to1[k] <= from1[j]
  <2>1. k \in 1 .. n
    BY <1>1, <1>11
  <2>2. CASE j = n + 1
    <3>1. to1[k] \in 0 .. p
      BY <2>1, <1>5, <1>7
    <3> QED BY <3>1, <2>2, <1>7
  <2>3. CASE j \in 1 .. n
    BY <2>1, <2>3, <1>2, <1>7, <1>11
  <2> QED BY <2>2, <2>3, <1>3
<1>12. Lie(r, all, b)
  <2>1. from1 \in [1 .. Len(r) -> 0 .. b] /\ to1 \in [1 .. Len(r) -> 0 .. b]
    BY <1>1, <1>9
  <2>2. \A k \in 1 .. Len(r) : from1[k] < to1[k] /\ Decodes(SubSeq(all, from1[k] + 1, to1[k]), r[k])
    BY <1>1, <1>10
  <2>3. \A k, j \in 1 .. Len(r) : k < j => to1[k] <= from1[j]
    BY <1>1, <1>11
  <2> QED BY ONLY <2>1, <2>2, <2>3 DEF Lie
<1> QED BY <1>12 DEF r

LEMMA MadeUpStep ==
    ASSUME RxBounds, RxTypes, NothingMadeUp, [RxNext]_rxVars
    PROVE  NothingMadeUp'
<1> DEFINE all == Stream(script)
<1>1. /\ all \in Seq(Byte) /\ Len(all) \in Nat
      /\ sent \in Nat /\ sent <= Len(all) /\ buf \in Seq(Byte) /\ Len(buf) \in Nat
      /\ Passed \in Nat /\ sent = Passed + Len(buf)
      /\ \A i \in 1 .. Len(buf) : buf[i] = all[Passed + i]
      /\ queue \in Seq(Message) /\ Lie(queue, all, Passed)
  BY Where, Layout DEF RxTypes, NothingMadeUp
<1> HIDE DEF all
<1>2. script' = script => Stream(script)' = all
  BY DEF all, Stream
\* What goes without a message.
<1>3. ASSUME NEW n \in Nat, Lets(n), queue' = queue, loop' \in {"idle", "ios", "basic"}
      PROVE  NothingMadeUp'
  <2>1. Passed' = Passed + n /\ script' = script
    BY <1>1, <1>3, LetsTypes DEF Lets
  <2>2. Lie(queue, all, Passed + n)
    <3>1. Passed \in Nat /\ Passed + n \in Nat /\ Passed <= Passed + n /\ Lie(queue, all, Passed)
      BY <1>1
    <3> QED BY ONLY <3>1, LieFurther
  <2> QED BY <2>1, <2>2, <1>2, <1>3 DEF NothingMadeUp
\* A candidate of n bytes, behind j that go before it, and its message.
<1>4. ASSUME NEW j \in Nat, NEW n \in Nat, n > 0, j + n <= Len(buf), Lets(j + n), NEW m, Puts(m),
             loop' \in {"idle", "ios", "basic"}, NEW c \in Seq(Byte), Len(c) = n,
             \A i \in 1 .. n : c[i] = buf[j + i], Decodes(c, m)
      PROVE  NothingMadeUp'
  <2>1. queue' \in Seq(Message) /\ m \in Message /\ queue' = Append(queue, m)
    BY <1>4, PutsType DEF Puts
  <2>2. Passed' = Passed + (j + n) /\ script' = script
    BY <1>4, <2>1, LetsTypes DEF Lets
  <2> DEFINE a == Passed + j
             b == Passed + (j + n)
  <2>3. a \in Nat /\ b \in Nat /\ b = a + n /\ b <= Len(all) /\ Passed <= a /\ a < b
    BY <1>1, <1>4
  <2>4. \A i \in 1 .. n : c[i] = all[a + i]
    <3>1. \A i \in 1 .. n : j + i \in 1 .. Len(buf) /\ Passed + (j + i) = a + i
      BY <1>1, <1>4
    <3>2. \A i \in 1 .. n : buf[j + i] = all[Passed + (j + i)]
      BY <1>1, <3>1
    <3> QED BY <1>4, <3>1, <3>2
  <2> HIDE DEF a, b
  <2>5. SubSeq(all, a + 1, b) = c
    <3>1. /\ SubSeq(all, a + 1, b) \in Seq(Byte) /\ Len(SubSeq(all, a + 1, b)) = n
          /\ \A i \in 1 .. n : SubSeq(all, a + 1, b)[i] = all[a + i]
      <4>1. all \in Seq(Byte) /\ a \in Nat /\ b \in Nat /\ b = a + n /\ b <= Len(all)
        BY <1>1, <2>3
      <4> QED BY ONLY <4>1, n \in Nat, MiddleIs
    <3> QED BY <3>1, <2>4, <1>4, SeqEqual
  <2>6. Lie(Append(queue, m), all, b)
    BY <1>1, <1>4, <2>1, <2>3, <2>5, LieMore
  <2> QED BY <2>1, <2>2, <2>6, <1>2 DEF NothingMadeUp, b
<1>5. CASE Receive
  BY <1>1, <1>2, <1>5, Receives DEF NothingMadeUp
<1>6. CASE IosTake
  <2>1. /\ Lets(IosLength(buf)) /\ Puts(IosMessage(IosCandidate)) /\ loop' = "ios"
        /\ IosGoesOn /\ IosWhole /\ IosValid(IosCandidate)
    BY <1>6, IosTakes DEF IosGoesOn
  <2>2. /\ IosLength(buf) \in Nat /\ IosLength(buf) > 0 /\ IosLength(buf) <= Len(buf)
        /\ IosCandidate \in Seq(Byte) /\ Len(IosCandidate) = IosLength(buf)
        /\ \A i \in 1 .. IosLength(buf) : IosCandidate[i] = buf[i]
    BY <2>1, IosCandidateIs
  <2> DEFINE n == IosLength(buf)
  <2>3. 0 + n = n /\ 0 + n <= Len(buf) /\ \A i \in 1 .. n : 0 + i = i
    BY <2>2
  <2>4. Decodes(IosCandidate, IosMessage(IosCandidate))
    BY <2>1 DEF Decodes
  <2>5. Lets(0 + n) /\ \A i \in 1 .. n : IosCandidate[i] = buf[0 + i]
    BY <2>1, <2>2, <2>3
  <2> HIDE DEF n
  <2>6. n \in Nat /\ n > 0 /\ Len(IosCandidate) = n
    BY <2>2 DEF n
  <2> QED BY <2>1, <2>2, <2>3, <2>4, <2>5, <2>6, <1>4
<1>7. CASE IosResync
  <2>1. Lets(1) /\ queue' = queue /\ loop' = "ios"
    BY <1>7, IosResyncs DEF IosGoesOn
  <2> QED BY <2>1, <1>3
<1>8. CASE IosLeave
  BY <1>3, <1>8, IosLeaves
<1>9. CASE BasicShort
  BY <1>3, <1>9, ShortStays
<1>10. CASE BasicNoStart
  BY <1>1, <1>3, <1>10, NoStartGoes
<1>11. CASE BasicWait
  BY <1>3, <1>11, WaitStays
<1>12. CASE BasicResync
  <2>1. PICK j \in Nat : Lets(j + 1)
    BY <1>12, BasicResyncs
  <2>2. queue' = queue /\ loop' = "basic" /\ j + 1 \in Nat
    BY <1>12, BasicResyncs DEF InStep, BasicGoesOn
  <2> QED BY <2>1, <2>2, <1>3
<1>13. CASE BasicTake
  <2>1. /\ Puts(BasicMessage(Candidate)) /\ loop' = "basic"
        /\ Len(FromStart) >= 4 /\ BasicWhole /\ BasicValid(Candidate)
    BY <1>13, BasicTakes DEF InStep, BasicGoesOn
  <2> DEFINE n == BasicLength(FromStart)
  <2>2. PICK j \in Nat : Found(j) /\ Lets(j + n)
    BY <1>13, BasicTakes
  <2>3. /\ n \in Nat /\ n > 0 /\ n <= Len(buf) - j
        /\ Candidate \in Seq(Byte) /\ Len(Candidate) = n
        /\ \A i \in 1 .. n : Candidate[i] = FromStart[i]
    <3>1. FromStart \in Seq(Byte) /\ Len(FromStart) = Len(buf) - j
      BY <2>2 DEF Found
    <3>2. n \in Nat /\ n >= 4 /\ n \in 0 .. Len(FromStart)
      BY <2>1, <3>1, CandidateIs
    <3>3. /\ Candidate \in Seq(Byte) /\ Len(Candidate) = n
          /\ \A i \in 1 .. n : Candidate[i] = FromStart[i]
      BY <2>1, <3>1, CandidateIs
    <3> HIDE DEF n
    <3> QED BY <3>1, <3>2, <3>3, <1>1
  <2> HIDE DEF n
  <2>4. \A i \in 1 .. n : Candidate[i] = buf[j + i]
    <3>1. \A i \in 1 .. n : i \in 1 .. Len(buf) - j
      BY <2>3, <1>1
    <3> QED BY <3>1, <2>2, <2>3 DEF Found
  <2>5. j + n <= Len(buf)
    BY <2>3, <1>1
  <2>6. Decodes(Candidate, BasicMessage(Candidate))
    BY <2>1 DEF Decodes
  <2> QED BY <2>1, <2>2, <2>3, <2>4, <2>5, <2>6, <1>4
<1>14. CASE UNCHANGED rxVars
  <2>1. script' = script /\ queue' = queue /\ Passed' = Passed
    BY <1>14 DEF rxVars, Passed
  <2> QED BY <2>1, <1>1, <1>2 DEF NothingMadeUp
<1>15. CASE AllSent
  BY <1>14, <1>15 DEF AllSent
<1> QED BY <1>5, <1>6, <1>7, <1>8, <1>9, <1>10, <1>11, <1>12, <1>13, <1>14, <1>15 DEF RxNext, OnData

(* Of any stream, noise or not: a message that is read decodes a valid      *)
(* frame of it, and none of those bytes is read twice or still kept         *)
(* (framing.py:128-141, bt_spp_rfcomm.py:176-186).                          *)
THEOREM RxNothingMadeUp == RxSpec => []NothingMadeUp
<1> USE Bounds
<1>1. RxInit => RxTypes /\ NothingMadeUp
  <2> SUFFICES ASSUME RxInit PROVE NothingMadeUp
    BY TypesAtFirst
  <2>1. RxTypes /\ queue = <<>>
    BY TypesAtFirst DEF RxInit
  <2>2. Passed \in Nat /\ Len(queue) = 0
    BY <2>1, Where
  <2>3. <<>> \in [1 .. 0 -> 0 .. Passed] /\ \A i \in 1 .. 0 : FALSE
    OBVIOUS
  <2> QED BY <2>2, <2>3 DEF NothingMadeUp, Lie
<1>2. RxTypes /\ NothingMadeUp /\ [RxNext]_rxVars => RxTypes' /\ NothingMadeUp'
  BY BoundedStep, MadeUpStep
<1> QED BY <1>1, <1>2, PTL DEF RxSpec
==============================================================================
