---------------------------- MODULE StreamProofs ----------------------------
(***************************************************************************)
(* A connection's byte stream, its recording and the strict decoder, for   *)
(* any messages, limits and sizes of the reads.                            *)
(***************************************************************************)
EXTENDS Strict, Sums

-----------------------------------------------------------------------------
(* Positions in a stream.                                                  *)

\* The equation of the recursive function in End.
EndRule(w, g, k) == IF k = 0 THEN 0 ELSE g[k - 1] + HeaderBytes + w[k].len

\* A stream of messages has ends, each a header and a payload after the last.
LEMMA EndSteps ==
    ASSUME NEW w \in Seq(Messages)
    PROVE  /\ End(w, 0) = 0 /\ Len(w) \in Nat
           /\ \A i \in 0..Len(w) : End(w, i) \in Nat
           /\ \A i \in 1..Len(w) : /\ w[i] \in Messages /\ w[i].len \in Nat /\ i - 1 \in 0..Len(w)
                                   /\ End(w, i) = End(w, i - 1) + 3 + w[i].len
<1> DEFINE n == Len(w)
           f == [i \in 1..n |-> w[i].len]
           g == [k \in 0..n |-> 3 * k + SumFunctionOnSet(f, 1..k)]
<1>1. n \in Nat /\ \A i \in 1..n : w[i] \in Messages /\ w[i].len \in Nat
  BY LenProperties, ElementOfSeq, StreamConstants
<1>2. f \in [1..n -> Int] /\ \A i \in 1..n : f[i] = w[i].len
  BY <1>1
<1>3. \A k \in 1..n : k - 1 \in 0..n /\ k \in 0..n
  BY <1>1
<1> HIDE DEF n, f
<1>4. IsFiniteSet(1..n) /\ \A k \in 0..n : 1..k \in SUBSET (1..n)
  BY <1>1, FS_Interval
<1>5. SumFunctionOnSet(f, 1..0) = 0
  <2>1. 1..0 = {} /\ {} \in SUBSET (1..n)
    OBVIOUS
  <2> QED BY <1>2, <1>4, <2>1, SumRec
<1>6. \A k \in 0..n : SumFunctionOnSet(f, 1..k) \in Nat
  <2> TAKE k \in 0..n
  <2>1. \A x \in 1..k : f[x] >= 0
    BY <1>1, <1>2, <1>4
  <2> QED BY <1>2, <1>4, <2>1, SumNat
<1>7. \A k \in 1..n : SumFunctionOnSet(f, 1..k) = SumFunctionOnSet(f, 1..(k - 1)) + w[k].len
  BY <1>1, <1>2, SumPrefix
<1>8. \A k \in 0..n : g[k] \in Nat /\ g[k] = EndRule(w, g, k)
  <2> TAKE k \in 0..n
  <2>1. g[k] = 3 * k + SumFunctionOnSet(f, 1..k) /\ g[k] \in Nat
    BY <1>6
  <2>2. CASE k = 0
    BY <1>5, <2>1, <2>2 DEF EndRule
  <2>3. CASE k # 0
    <3>1. k \in 1..n /\ k - 1 \in 0..n
      BY <1>1, <2>3
    <3>2. g[k - 1] = 3 * (k - 1) + SumFunctionOnSet(f, 1..(k - 1))
      BY <3>1
    <3>3. SumFunctionOnSet(f, 1..(k - 1)) \in Nat /\ w[k].len \in Nat /\ k \in Nat
      BY <1>1, <1>6, <3>1
    <3>4. SumFunctionOnSet(f, 1..k) = SumFunctionOnSet(f, 1..(k - 1)) + w[k].len
      BY <1>7, <3>1
    <3> HIDE DEF g
    <3> QED BY <2>1, <2>3, <3>2, <3>3, <3>4 DEF EndRule, HeaderBytes
  <2> QED BY <2>2, <2>3
<1>9. g = [k \in 0..n |-> EndRule(w, g, k)]
  BY <1>8
<1> DEFINE e == CHOOSE e : e = [k \in 0..n |-> EndRule(w, e, k)]
<1> HIDE DEF g
<1>10. e = [k \in 0..n |-> EndRule(w, e, k)]
  BY <1>9
<1>11. \A i : End(w, i) = e[i]
  BY DEF End, EndRule, n
<1> HIDE DEF e
<1>12. \A k \in 0..n : e[k] = EndRule(w, e, k)
  BY <1>10
<1>13. e[0] = 0
  BY <1>1, <1>12 DEF EndRule
<1>14. \A k \in 1..n : e[k] = e[k - 1] + 3 + w[k].len
  BY <1>1, <1>3, <1>12 DEF EndRule, HeaderBytes
<1>15. \A k \in 0..n : e[k] \in Nat
  <2> DEFINE Bad == {k \in Nat : k \in 0..n /\ e[k] \notin Nat}
  <2> SUFFICES ASSUME Bad # {} PROVE FALSE
    BY <1>1
  <2>1. PICK k \in Bad : \A m \in Bad : k <= m
    <3>1. Bad \in SUBSET Nat
      OBVIOUS
    <3> HIDE DEF Bad
    <3> QED BY <3>1, LeastNatural
  <2>2. k \in 1..n /\ k - 1 \in 0..n /\ k - 1 \in Nat /\ ~(k <= k - 1) /\ e[k] \notin Nat
    BY <1>1, <1>13
  <2>3. e[k - 1] \in Nat
    BY <2>1, <2>2
  <2>4. e[k] = e[k - 1] + 3 + w[k].len /\ w[k].len \in Nat
    BY <1>1, <1>14, <2>2
  <2> QED BY <2>2, <2>3, <2>4
<1> QED BY <1>1, <1>3, <1>11, <1>13, <1>14, <1>15 DEF n

\* Later messages lie behind earlier ones.
LEMMA EndGrows ==
    ASSUME NEW w \in Seq(Messages), NEW i \in 0..Len(w), NEW j \in 0..Len(w), i <= j
    PROVE  End(w, i) <= End(w, j)
<1> DEFINE Bad == {k \in Nat : k \in i..Len(w) /\ ~(End(w, i) <= End(w, k))}
<1>0. Len(w) \in Nat /\ i \in Nat /\ \A k \in 0..Len(w) : End(w, k) \in Nat
  BY EndSteps
<1> SUFFICES ASSUME Bad # {} PROVE FALSE
  BY <1>0
<1>1. PICK k \in Bad : \A m \in Bad : k <= m
  <2>1. Bad \in SUBSET Nat
    OBVIOUS
  <2> HIDE DEF Bad
  <2> QED BY <2>1, LeastNatural
<1>2. k \in i..Len(w) /\ k \in Nat /\ ~(End(w, i) <= End(w, k)) /\ k # i
  BY <1>0
<1>3. k \in 1..Len(w) /\ k - 1 \in i..Len(w) /\ k - 1 \in Nat /\ ~(k <= k - 1) /\ k - 1 \in 0..Len(w)
  BY <1>0, <1>2
<1>4. End(w, i) <= End(w, k - 1)
  BY <1>1, <1>3
<1>5. End(w, k) = End(w, k - 1) + 3 + w[k].len /\ w[k].len \in Nat
  BY <1>3, EndSteps
<1>6. End(w, i) \in Nat /\ End(w, k - 1) \in Nat
  BY <1>0, <1>3
<1> QED BY <1>2, <1>4, <1>5, <1>6

\* A run of bytes is a sequence of positions; two that adjoin are one.
LEMMA BytesRun ==
    ASSUME NEW from \in Nat, NEW n \in Nat, NEW m \in Nat
    PROVE  /\ Bytes(from, n) \in Seq(Nat) /\ Len(Bytes(from, n)) = n
           /\ \A i \in 1..n : Bytes(from, n)[i] = from + i
           /\ Bytes(from, n) \o Bytes(from + n, m) = Bytes(from, n + m)
           /\ Bytes(from, 0) = <<>>
<1>1. ASSUME NEW f \in Nat, NEW k \in Nat
      PROVE  Bytes(f, k) \in Seq(Nat) /\ Len(Bytes(f, k)) = k /\ \A i \in 1..k : Bytes(f, k)[i] = f + i
  <2>1. Bytes(f, k) \in [1..k -> Nat] /\ \A i \in 1..k : Bytes(f, k)[i] = f + i
    BY DEF Bytes
  <2> QED BY <2>1, FunctionSeq
<1> DEFINE a == Bytes(from, n)
           b == Bytes(from + n, m)
           c == Bytes(from, n + m)
<1>2. from + n \in Nat /\ n + m \in Nat
  OBVIOUS
<1>3. /\ a \in Seq(Nat) /\ b \in Seq(Nat) /\ c \in Seq(Nat) /\ Len(a) = n /\ Len(b) = m
      /\ Len(c) = n + m /\ \A i \in 1..n : a[i] = from + i
      /\ \A i \in 1..m : b[i] = from + n + i /\ \A k \in 1..(n + m) : c[k] = from + k
  BY <1>1, <1>2
<1>4. \A i \in 1..(n + m) : c[i] = from + i
  BY <1>1, <1>2
<1> HIDE DEF a, b, c
<1>5. /\ a \o b \in Seq(Nat) /\ Len(a \o b) = n + m
      /\ \A i \in 1..(n + m) : (a \o b)[i] = IF i <= n THEN a[i] ELSE b[i - n]
  BY <1>3, ConcatProperties
<1>6. \A i \in 1..(n + m) : (a \o b)[i] = c[i]
  <2> TAKE i \in 1..(n + m)
  <2>1. CASE i <= n
    <3>1. i \in 1..n
      BY <2>1
    <3> QED BY <1>3, <1>4, <1>5, <2>1, <3>1
  <2>2. CASE ~(i <= n)
    <3>1. i - n \in 1..m /\ from + n + (i - n) = from + i
      BY <2>2
    <3> QED BY <1>3, <1>4, <1>5, <2>2, <3>1
  <2> QED BY <2>1, <2>2
<1>7. a \o b = c
  BY <1>3, <1>5, <1>6, SeqEqual
<1>8. Bytes(from, 0) = <<>>
  <2>1. 0 \in Nat
    OBVIOUS
  <2> QED BY <1>1, <2>1, EmptySeq
<1> QED BY <1>3, <1>7, <1>8 DEF a, b, c

\* The header of message k is where it is said to be, and nowhere else.
LEMMA HeaderAt ==
    ASSUME wire \in Seq(Messages), NEW k \in 1..Len(wire), NEW d \in 1..3
    PROVE  ByteAt(End(wire, k - 1) + d) = EncodeHeader(wire[k])[d]
<1> DEFINE p == End(wire, k - 1) + d
           holders == {j \in 1..Len(wire) :
                          End(wire, j - 1) < p /\ p <= End(wire, j - 1) + HeaderBytes}
<1>1. /\ Len(wire) \in Nat /\ k - 1 \in 0..Len(wire) /\ End(wire, k - 1) \in Nat /\ d \in Nat
      /\ p \in Nat /\ k \in Nat
  BY EndSteps
<1>2. k \in holders
  BY <1>1 DEF HeaderBytes
<1>3. ASSUME NEW j \in holders PROVE j = k
  <2>1. /\ j \in 1..Len(wire) /\ j - 1 \in 0..Len(wire) /\ End(wire, j - 1) \in Nat
        /\ End(wire, j - 1) < p /\ p <= End(wire, j - 1) + 3
    BY EndSteps DEF HeaderBytes
  <2>2. /\ End(wire, j) = End(wire, j - 1) + 3 + wire[j].len /\ wire[j].len \in Nat
        /\ End(wire, k) = End(wire, k - 1) + 3 + wire[k].len /\ wire[k].len \in Nat
        /\ j \in 0..Len(wire) /\ k \in 0..Len(wire)
    <3>1. \A i \in 1..Len(wire) : /\ End(wire, i) = End(wire, i - 1) + 3 + wire[i].len
                                  /\ wire[i].len \in Nat
      BY EndSteps
    <3> HIDE DEF p, holders
    <3> QED BY <1>1, <2>1, <3>1
  <2>3. CASE j < k
    <3>1. j <= k - 1
      BY <1>1, <2>1, <2>3
    <3>2. End(wire, j) <= End(wire, k - 1)
      BY <1>1, <2>2, <3>1, EndGrows
    <3>3. End(wire, j - 1) + 3 <= End(wire, k - 1)
      BY <1>1, <2>1, <2>2, <3>2
    <3> QED BY <1>1, <2>1, <3>3
  <2>4. CASE k < j
    <3>1. k <= j - 1
      BY <1>1, <2>1, <2>4
    <3>2. End(wire, k) <= End(wire, j - 1)
      BY <1>1, <2>1, <2>2, <3>1, EndGrows
    <3>3. End(wire, k - 1) + 3 <= End(wire, j - 1)
      BY <1>1, <2>1, <2>2, <3>2
    <3> QED BY <1>1, <2>1, <3>3
  <2> QED BY <1>1, <2>1, <2>3, <2>4
<1>4. (CHOOSE j \in holders : TRUE) = k
  <2>1. (CHOOSE j \in holders : TRUE) \in holders
    BY <1>2
  <2> HIDE DEF holders
  <2> QED BY <1>3, <2>1
<1>5. ByteAt(p) = EncodeHeader(wire[k])[p - End(wire, k - 1)]
  BY <1>2, <1>4 DEF ByteAt
<1> QED BY <1>1, <1>5

\* The type byte tells the type, the rate of audio and an unknown type itself.
LEMMA TypeKnown ==
    ASSUME NEW m \in Messages
    PROVE  /\ Known(TypeByte(m)) = m.type /\ m.type \in Types
           /\ m.type = "Audio" => RateNames[TypeByte(m) - 15] = m.arg
           /\ m.type = "Unknown" => TypeByte(m) = m.arg
<1>1. m.type \in Types
  BY StreamConstants
<1>2. CASE m.type = "Audio"
  <2> DEFINE c == CHOOSE i \in 1..Len(RateNames) : RateNames[i] = m.arg
  <2>1. m.arg \in ToSet(RateNames)
    BY <1>2, StreamConstants
  <2>2. Len(RateNames) = 9 /\ DOMAIN RateNames = 1..9
    BY DEF RateNames
  <2>3. \E i \in 1..Len(RateNames) : RateNames[i] = m.arg
    BY <2>1, <2>2 DEF ToSet
  <2>4. c \in 1..9 /\ RateNames[c] = m.arg
    BY <2>2, <2>3
  <2>5. TypeByte(m) = 15 + c
    BY <1>2 DEF TypeByte
  <2> HIDE DEF c
  <2>6. Known(15 + c) = "Audio" /\ 15 + c - 15 = c
    BY <2>4 DEF Known
  <2> QED BY <1>1, <1>2, <2>4, <2>5, <2>6
<1>3. CASE m.type = "Unknown"
  BY <1>1, <1>3, StreamConstants DEF TypeByte
<1>4. CASE m.type \notin {"Audio", "Unknown"}
  BY <1>1, <1>4 DEF TypeByte, Known, Types
<1> QED BY <1>2, <1>3, <1>4

\* The declared length is the length, byte by byte.
LEMMA LengthDeclared ==
    ASSUME wire \in Seq(Messages), NEW k \in 1..Len(wire), NEW h, h = Bytes(End(wire, k - 1), 3)
    PROVE  /\ DeclaredLength(h) = wire[k].len /\ Known(ByteAt(h[1])) = wire[k].type
           /\ ByteAt(h[1]) = TypeByte(wire[k])
<1> DEFINE m == wire[k]
           p == End(wire, k - 1)
<1>1. m \in Messages /\ m.len \in Nat /\ p \in Nat
  BY EndSteps
<1>2. h[1] = p + 1 /\ h[2] = p + 2 /\ h[3] = p + 3
  <2>1. 1 \in 1..3 /\ 2 \in 1..3 /\ 3 \in 1..3 /\ 3 \in Nat
    OBVIOUS
  <2> QED BY <1>1, <2>1, BytesRun
<1>3. /\ ByteAt(p + 1) = EncodeHeader(m)[1] /\ ByteAt(p + 2) = EncodeHeader(m)[2]
      /\ ByteAt(p + 3) = EncodeHeader(m)[3]
  <2>1. 1 \in 1..3 /\ 2 \in 1..3 /\ 3 \in 1..3
    OBVIOUS
  <2> QED BY <2>1, HeaderAt
<1>4. /\ EncodeHeader(m)[1] = TypeByte(m) /\ EncodeHeader(m)[2] = m.len \div Radix
      /\ EncodeHeader(m)[3] = m.len % Radix
  BY DEF EncodeHeader
<1>5. ((m.len \div Radix) * Radix) + (m.len % Radix) = m.len
  <2>1. Radix \in Nat /\ Radix > 0
    BY StreamConstants
  <2> HIDE DEF m
  <2> QED BY <1>1, <2>1
<1> QED BY <1>1, <1>2, <1>3, <1>4, <1>5, TypeKnown DEF DeclaredLength

-----------------------------------------------------------------------------
(* The framer.                                                             *)

\* The framer after c bytes, of which message k is the last complete one.
FramerAt(k, c) ==
    LET b == End(wire, k) IN
    IF c < b + 3 THEN [NewFramer EXCEPT !.header = Bytes(b, c - b)]
    ELSE [at |-> "Body", header |-> Bytes(b, 3), body |-> Bytes(b + 3, c - (b + 3)),
          length |-> wire[k + 1].len]

\* Byte c is inside message k + 1, whose length was admitted once it was known.
Admitted(m, tight) == m.len <= PayloadCapacity /\ (tight => LengthOk(m.type, m.len))
Placed(k, c, tight) ==
    /\ End(wire, k) <= c
    /\ End(wire, k) + 3 <= c =>
          k < Len(wire) /\ c < End(wire, k + 1) /\ Admitted(wire[k + 1], tight)

\* The frame of message k.
FrameOf(k) == [header |-> Bytes(End(wire, k - 1), 3), body |-> Body(k)]

\* What feed answers: more input, the frame of message k + 1, or a failure.
Wants(fed, k, c) ==
    fed = [framer |-> FramerAt(k, c), at |-> c, outcome |-> "NeedInput", frame |-> NoFrame]
Yields(fed, k) ==
    fed = [framer |-> NewFramer, at |-> End(wire, k), outcome |-> "Frame", frame |-> FrameOf(k)]
Fails(fed, k, why) ==
    fed = [framer |-> [NewFramer EXCEPT !.at = "Failed"], at |-> End(wire, k - 1) + 3,
           outcome |-> why, frame |-> NoFrame]

\* The bytes up to c and those that follow them.
LEMMA BytesJoin ==
    ASSUME NEW b \in Nat, NEW c \in Nat, b <= c, NEW x \in Nat
    PROVE  /\ c - b \in Nat /\ Len(Bytes(b, c - b)) = c - b
           /\ Bytes(b, c - b) \o Bytes(c, x) = Bytes(b, (c - b) + x)
           /\ Len(Bytes(b, (c - b) + x)) = (c - b) + x
<1> DEFINE d == c - b
           y == d + x
<1>1. d \in Nat /\ b + d = c /\ y \in Nat
  OBVIOUS
<1> HIDE DEF d, y
<1>2. Len(Bytes(b, d)) = d /\ Bytes(b, d) \o Bytes(b + d, x) = Bytes(b, d + x)
  BY <1>1, BytesRun
<1>3. Len(Bytes(b, y)) = y
  BY <1>1, BytesRun
<1> QED BY <1>1, <1>2, <1>3 DEF d, y

\* Where message k + 1 lies.
LEMMA Spans ==
    ASSUME wire \in Seq(Messages), NEW k \in 0..Len(wire), k < Len(wire)
    PROVE  /\ k + 1 \in 1..Len(wire) /\ k + 1 \in 0..Len(wire) /\ k \in Nat /\ (k + 1) - 1 = k
           /\ End(wire, k) \in Nat /\ End(wire, k + 1) \in Nat /\ wire[k + 1].len \in Nat
           /\ wire[k + 1] \in Messages
           /\ End(wire, k + 1) = End(wire, k) + 3 + wire[k + 1].len
           /\ Body(k + 1) = Bytes(End(wire, k) + 3, wire[k + 1].len)
<1>1. Len(wire) \in Nat /\ k \in Nat
  BY EndSteps
<1>2. k + 1 \in 1..Len(wire) /\ k + 1 \in 0..Len(wire) /\ (k + 1) - 1 = k
  BY <1>1
<1>3. /\ End(wire, k) \in Nat /\ End(wire, k + 1) \in Nat /\ wire[k + 1].len \in Nat
      /\ wire[k + 1] \in Messages
      /\ End(wire, k + 1) = End(wire, (k + 1) - 1) + 3 + wire[k + 1].len
  BY <1>2, EndSteps
<1>4. End(wire, k + 1) = End(wire, k) + 3 + wire[k + 1].len
  BY <1>2, <1>3
<1>5. End(wire, k + 1) - wire[k + 1].len = End(wire, k) + 3
  BY <1>3, <1>4
<1> QED BY <1>1, <1>2, <1>3, <1>4, <1>5 DEF Body

\* The Body state.
LEMMA BodyFed ==
    ASSUME wire \in Seq(Messages), NEW k \in 0..Len(wire), k < Len(wire),
           NEW c \in Nat, NEW n \in Nat,
           End(wire, k) + 3 <= c, c <= End(wire, k + 1), NEW f,
           f = [at |-> "Body", header |-> Bytes(End(wire, k), 3),
                body |-> Bytes(End(wire, k) + 3, c - (End(wire, k) + 3)),
                length |-> wire[k + 1].len]
    PROVE  LET fed == FeedBody(f, c, n) IN
           \/ c + n < End(wire, k + 1) /\ Wants(fed, k, c + n)
           \/ End(wire, k + 1) <= c + n /\ Yields(fed, k + 1)
<1> DEFINE b == End(wire, k) + 3
           e == End(wire, k + 1)
           l == wire[k + 1].len
           x == CopyPrefix(f.length - Len(f.body), n)
           body == f.body \o Bytes(c, x)
<1>1. b \in Nat /\ e \in Nat /\ l \in Nat /\ e = b + l /\ b <= c /\ c <= e /\ Body(k + 1) = Bytes(b, l)
  BY Spans
<1>2. f.length = l /\ f.body = Bytes(b, c - b) /\ f.header = Bytes(End(wire, k), 3) /\ f.at = "Body"
  OBVIOUS
<1> HIDE DEF b, e, l
<1>3. c - b \in Nat /\ Len(f.body) = c - b
  BY <1>1, <1>2, BytesJoin
<1>4. x = IF e - c <= n THEN e - c ELSE n
  BY <1>1, <1>2, <1>3 DEF CopyPrefix
<1>5. x \in Nat
  BY <1>1, <1>4
<1> HIDE DEF x
<1>6. body = Bytes(b, (c - b) + x) /\ Len(body) = (c - b) + x
  <2>1. /\ Bytes(b, c - b) \o Bytes(c, x) = Bytes(b, (c - b) + x)
        /\ Len(Bytes(b, (c - b) + x)) = (c - b) + x
    BY <1>1, <1>5, BytesJoin
  <2>2. body = Bytes(b, c - b) \o Bytes(c, x)
    BY <1>2
  <2> QED BY <2>1, <2>2
<1> HIDE DEF body
<1>7. CASE c + n < e
  <2>1. x = n /\ (c - b) + x < l /\ (c - b) + x = (c + n) - b /\ ~(c + n < b)
    BY <1>1, <1>4, <1>7
  <2>2. FeedBody(f, c, n) = [framer |-> [f EXCEPT !.body = body], at |-> c + x,
                             outcome |-> "NeedInput", frame |-> NoFrame]
    BY <1>2, <1>6, <2>1 DEF FeedBody, body, x
  <2>3. [f EXCEPT !.body = body] = FramerAt(k, c + n)
    <3>1. body = Bytes(b, (c + n) - b)
      BY <1>6, <2>1
    <3>2. [f EXCEPT !.body = body] = [at |-> "Body", header |-> Bytes(End(wire, k), 3),
                                      body |-> body, length |-> l]
      BY DEF l
    <3> QED BY <2>1, <3>1, <3>2 DEF FramerAt, b, l
  <2> QED BY <1>7, <2>1, <2>2, <2>3 DEF Wants, e
<1>8. CASE e <= c + n
  <2>1. x = e - c /\ (c - b) + x = l /\ ~(l < l) /\ c + x = e
    BY <1>1, <1>4, <1>8
  <2>2. FeedBody(f, c, n) = [framer |-> NewFramer, at |-> c + x, outcome |-> "Frame",
                             frame |-> [header |-> f.header, body |-> body]]
    BY <1>2, <1>6, <2>1 DEF FeedBody, body, x
  <2>3. [header |-> f.header, body |-> body] = FrameOf(k + 1)
    <3>1. (k + 1) - 1 = k
      OBVIOUS
    <3> QED BY <1>1, <1>2, <1>6, <2>1, <3>1 DEF FrameOf
  <2> QED BY <1>8, <2>1, <2>2, <2>3 DEF Yields, e
<1> QED BY <1>1, <1>7, <1>8 DEF e

\* feed, from any byte of a stream and with any number of bytes behind it: the
\* answer depends on the stream alone, and not on where the calls divide it.
LEMMA Fed ==
    ASSUME wire \in Seq(Messages), NEW k \in 0..Len(wire), NEW c \in Nat, NEW n \in Nat,
           NEW tight \in BOOLEAN, Placed(k, c, tight), c + n <= End(wire, Len(wire))
    PROVE  LET fed == Feed(FramerAt(k, c), c, n, tight)
               m == wire[k + 1]
           IN  \/ Placed(k, c + n, tight) /\ Wants(fed, k, c + n)
               \/ /\ k < Len(wire) /\ End(wire, k + 1) <= c + n /\ Yields(fed, k + 1)
                  /\ Admitted(m, tight)
               \/ /\ k < Len(wire) /\ End(wire, k) + 3 <= c + n
                  /\ \/ tight /\ ~LengthOk(m.type, m.len) /\ Fails(fed, k + 1, "InvalidLength")
                     \/ /\ tight => LengthOk(m.type, m.len)
                        /\ m.len > PayloadCapacity /\ Fails(fed, k + 1, "ResourceLimit")
<1> DEFINE b == End(wire, k)
           f == FramerAt(k, c)
<1>1. b \in Nat /\ b <= c /\ Len(wire) \in Nat /\ k \in Nat
  BY EndSteps DEF Placed
<1>2. CASE b + 3 <= c
  <2>1. k < Len(wire) /\ c < End(wire, k + 1) /\ Admitted(wire[k + 1], tight)
    BY <1>2 DEF Placed
  <2>2. f = [at |-> "Body", header |-> Bytes(b, 3), body |-> Bytes(b + 3, c - (b + 3)),
             length |-> wire[k + 1].len]
    BY <1>1, <1>2 DEF FramerAt
  <2>3. Feed(f, c, n, tight) = FeedBody(f, c, n)
    BY <2>2 DEF Feed
  <2>4. End(wire, k + 1) \in Nat
    BY <2>1, Spans
  <2>5. \/ c + n < End(wire, k + 1) /\ Wants(FeedBody(f, c, n), k, c + n)
        \/ End(wire, k + 1) <= c + n /\ Yields(FeedBody(f, c, n), k + 1)
    BY <1>2, <2>1, <2>2, <2>4, BodyFed
  <2>6. b <= c + n
    BY <1>1
  <2> QED BY <2>1, <2>3, <2>5, <2>6 DEF Placed
<1>3. CASE c < b + 3
  <2> DEFINE x == CopyPrefix(HeaderBytes - Len(f.header), n)
             h == f.header \o Bytes(c, x)
  <2>1. f = [NewFramer EXCEPT !.header = Bytes(b, c - b)]
    BY <1>3 DEF FramerAt
  <2>2. f.at = "Header" /\ f.header = Bytes(b, c - b)
    BY <2>1 DEF NewFramer
  <2>3. Feed(f, c, n, tight) = FeedHeader(f, c, n, tight)
    BY <2>2 DEF Feed
  <2>4. c - b \in Nat /\ Len(f.header) = c - b
    <3> HIDE DEF b, f
    <3> QED BY <1>1, <2>2, BytesJoin
  <2>5. x = IF (b + 3) - c <= n THEN (b + 3) - c ELSE n
    BY <1>1, <2>4 DEF CopyPrefix, HeaderBytes
  <2>6. x \in Nat
    BY <1>1, <1>3, <2>5
  <2> HIDE DEF f, x
  <2>7. h = Bytes(b, (c - b) + x) /\ Len(h) = (c - b) + x
    <3> HIDE DEF b
    <3>1. /\ Bytes(b, c - b) \o Bytes(c, x) = Bytes(b, (c - b) + x)
          /\ Len(Bytes(b, (c - b) + x)) = (c - b) + x
      BY <1>1, <2>6, BytesJoin
    <3>2. h = Bytes(b, c - b) \o Bytes(c, x)
      BY <2>2
    <3> QED BY <3>1, <3>2
  <2>8. CASE c + n < b + 3
    <3>1. x = n /\ (c - b) + x = (c + n) - b /\ (c - b) + x < HeaderBytes
      BY <1>1, <2>5, <2>8 DEF HeaderBytes
    <3>2. FeedHeader(f, c, n, tight)
             = [framer |-> [f EXCEPT !.header = h], at |-> c + x, outcome |-> "NeedInput",
                frame |-> NoFrame]
      BY <2>7, <3>1 DEF FeedHeader, x
    <3>3. [f EXCEPT !.header = h] = FramerAt(k, c + n)
      <4>1. [f EXCEPT !.header = h] = [NewFramer EXCEPT !.header = h]
        BY <2>1 DEF NewFramer
      <4> QED BY <2>7, <2>8, <3>1, <4>1 DEF FramerAt
    <3>4. Placed(k, c + n, tight)
      BY <1>1, <2>8 DEF Placed
    <3> QED BY <2>3, <3>1, <3>2, <3>3, <3>4 DEF Wants, f
  <2>9. CASE b + 3 <= c + n
    <3>1. x = (b + 3) - c /\ (c - b) + x = 3 /\ c + x = b + 3 /\ n - x \in Nat
          /\ ((c + x) + (n - x)) = c + n
      BY <1>1, <1>3, <2>5, <2>6, <2>9
    <3>2. h = Bytes(b, 3) /\ ~(Len(h) < HeaderBytes)
      BY <2>7, <3>1 DEF HeaderBytes
    <3>3. k < Len(wire)
      <4>1. CASE k = Len(wire)
        BY <1>1, <2>9, <4>1
      <4> QED BY <1>1, <4>1
    <3>4. /\ k + 1 \in 1..Len(wire) /\ (k + 1) - 1 = k /\ wire[k + 1].len \in Nat
          /\ End(wire, k + 1) = b + 3 + wire[k + 1].len
      BY <3>3, Spans
    <3>5. DeclaredLength(h) = wire[k + 1].len /\ Known(ByteAt(h[1])) = wire[k + 1].type
      BY <3>2, <3>4, LengthDeclared
    <3> DEFINE m == wire[k + 1]
               bad == tight /\ ~LengthOk(m.type, m.len)
               g == [at |-> "Body", header |-> h, body |-> <<>>, length |-> m.len]
               fail(why) == [framer |-> [NewFramer EXCEPT !.at = "Failed"], at |-> c + x,
                             outcome |-> why, frame |-> NoFrame]
    <3>6. FeedHeader(f, c, n, tight)
             = IF bad THEN fail("InvalidLength")
               ELSE IF m.len > PayloadCapacity THEN fail("ResourceLimit")
               ELSE FeedBody(g, c + x, n - x)
      BY <3>2, <3>5 DEF FeedHeader, x
    <3>7. CASE bad
      BY <2>3, <2>9, <3>1, <3>3, <3>4, <3>6, <3>7 DEF Fails, f
    <3>8. CASE ~bad /\ m.len > PayloadCapacity
      BY <2>3, <2>9, <3>1, <3>3, <3>4, <3>6, <3>8 DEF Fails, f
    <3>9. CASE ~bad /\ ~(m.len > PayloadCapacity)
      <4>1. Admitted(m, tight)
        BY <3>4, <3>9, StreamConstants DEF Admitted
      <4>2. g = [at |-> "Body", header |-> Bytes(End(wire, k), 3),
                 body |-> Bytes(End(wire, k) + 3, (b + 3) - (End(wire, k) + 3)),
                 length |-> wire[k + 1].len]
        <5>1. b + 3 \in Nat /\ 0 \in Nat /\ (b + 3) - (b + 3) = 0
          BY <1>1
        <5>2. Bytes(b + 3, 0) = <<>>
          <6> DEFINE q == b + 3
          <6>1. q \in Nat
            BY <5>1
          <6> HIDE DEF q
          <6>2. Bytes(q, 0) = <<>>
            BY <5>1, <6>1, BytesRun
          <6> QED BY <6>2 DEF q
        <5> QED BY <3>2, <5>1, <5>2
      <4>3. b + 3 \in Nat /\ b + 3 <= End(wire, k + 1) /\ (b + 3) + (n - x) = c + n
        <5>1. b + 3 <= b + 3 + wire[k + 1].len
          BY <1>1, <3>4
        <5> HIDE DEF b
        <5> QED BY <1>1, <3>1, <3>4, <5>1
      <4>4. \/ c + n < End(wire, k + 1) /\ Wants(FeedBody(g, b + 3, n - x), k, c + n)
            \/ End(wire, k + 1) <= c + n /\ Yields(FeedBody(g, b + 3, n - x), k + 1)
        <5> DEFINE c1 == b + 3
                   n1 == n - x
        <5>1. c1 \in Nat /\ n1 \in Nat /\ End(wire, k) + 3 <= c1 /\ c1 <= End(wire, k + 1)
          BY <3>1, <4>3
        <5>2. g = [at |-> "Body", header |-> Bytes(End(wire, k), 3),
                   body |-> Bytes(End(wire, k) + 3, c1 - (End(wire, k) + 3)),
                   length |-> wire[k + 1].len]
          BY <4>2
        <5>3. c1 + n1 = c + n
          BY <4>3
        <5> HIDE DEF c1, n1, g
        <5>4. \/ c1 + n1 < End(wire, k + 1) /\ Wants(FeedBody(g, c1, n1), k, c1 + n1)
              \/ End(wire, k + 1) <= c1 + n1 /\ Yields(FeedBody(g, c1, n1), k + 1)
          BY <3>3, <5>1, <5>2, BodyFed
        <5> QED BY <5>3, <5>4 DEF c1, n1
      <4>5. FeedHeader(f, c, n, tight) = FeedBody(g, b + 3, n - x)
        BY <3>1, <3>6, <3>9
      <4>6. b <= c + n
        BY <1>1
      <4> QED BY <2>3, <3>3, <4>1, <4>4, <4>5, <4>6 DEF Placed, f
    <3> QED BY <3>7, <3>8, <3>9
  <2> QED BY <1>1, <2>8, <2>9
<1> QED BY <1>1, <1>2, <1>3

-----------------------------------------------------------------------------
(* The meaning of a stream.                                                *)

\* The first k messages are accepted, the identity they give, and the records
\* they make.
Good(k) == \A j \in 1..k : Fatal(j) = "none"
Who(k) == IF k = 0 THEN NoUuid ELSE wire[1].arg
Tale(i) ==
    Event(IF i = 1 THEN "Started" ELSE wire[i].type, End(wire, i), wire[1].arg,
          IF wire[i].type = "Audio" THEN Body(i) ELSE wire[i].arg)
Story(k) == <<Event("Connected", 0, NoUuid, "peer")>> \o [i \in 1..k |-> Tale(i)]

\* A sequence that agrees with another as far as it goes is its prefix.
LEMMA AgreesAsPrefix ==
    ASSUME NEW S, NEW s \in Seq(S), NEW t \in Seq(S), Len(s) <= Len(t),
           \A i \in 1..Len(s) : s[i] = t[i]
    PROVE  IsPrefix(s, t)
<1> DEFINE n == Len(s)
<1>1. n \in Nat /\ Len(t) \in Nat /\ n <= Len(t)
  BY LenProperties
<1>2. \A i \in 1..n : s[i] \in S /\ t[i] \in S
  BY ElementOfSeq
<1>3. 1 \in Int /\ n \in Int /\ (n - 1) + 1 = n /\ (1 <= n \/ n = 0)
  BY <1>1
<1> HIDE DEF n
<1>4. /\ SubSeq(t, 1, n) \in Seq(S) /\ Len(SubSeq(t, 1, n)) = n
      /\ \A i \in 1..n : SubSeq(t, 1, n)[i] = t[i]
  <2>1. /\ SubSeq(t, 1, n) \in Seq(S) /\ Len(SubSeq(t, 1, n)) = IF 1 <= n THEN n - 1 + 1 ELSE 0
        /\ \A i \in 1..(n - 1 + 1) : SubSeq(t, 1, n)[i] = t[1 + i - 1]
    BY <1>2, <1>3, SubSeqProperties
  <2>2. \A i \in 1..n : 1 + i - 1 = i
    BY <1>1
  <2> QED BY <1>3, <2>1, <2>2
<1>5. SubSeq(s, 1, n) = s
  BY SubSeqFull DEF n
<1>6. s = SubSeq(t, 1, n)
  BY <1>4, SeqEqual DEF n
<1> QED BY <1>1, <1>5, <1>6 DEF IsPrefix, n

\* The front and the last of what was appended to.
LEMMA FrontLast ==
    ASSUME NEW S, NEW s \in Seq(S), NEW x \in S
    PROVE  LET t == Append(s, x) IN Front(t) = s /\ Last(t) = x /\ t[Len(t)] = x
<1> DEFINE t == Append(s, x)
           n == Len(s)
<1>1. /\ t \in Seq(S) /\ Len(t) = n + 1 /\ n \in Nat /\ \A i \in 1..n : t[i] = s[i]
      /\ t[n + 1] = x
  BY AppendProperties, LenProperties
<1>2. \A i \in 1..n : s[i] \in S
  BY ElementOfSeq
<1> HIDE DEF t, n
<1>3. 1 \in Int /\ n \in Int /\ (n - 1) + 1 = n /\ (1 <= n \/ n = 0) /\ (n + 1) - 1 = n
  BY <1>1
<1>4. /\ SubSeq(t, 1, n) \in Seq(S) /\ Len(SubSeq(t, 1, n)) = IF 1 <= n THEN n - 1 + 1 ELSE 0
      /\ \A i \in 1..(n - 1 + 1) : SubSeq(t, 1, n)[i] = t[1 + i - 1]
  <2>1. \A i \in 1..n : t[i] \in S
    BY <1>1, <1>2
  <2> QED BY <1>3, <2>1, SubSeqProperties
<1>5. \A i \in 1..n : 1 + i - 1 = i
  BY <1>1
<1>6. SubSeq(t, 1, n) = s
  <2>1. Len(SubSeq(t, 1, n)) = Len(s)
    BY <1>3, <1>4 DEF n
  <2>2. \A i \in 1..Len(SubSeq(t, 1, n)) : SubSeq(t, 1, n)[i] = s[i]
    BY <1>1, <1>3, <1>4, <1>5, <2>1 DEF n
  <2> QED BY <1>4, <2>1, <2>2, SeqEqual
<1> QED BY <1>1, <1>3, <1>6 DEF Front, Last, t

\* The records of the first k messages, and any other record x.
Told(x) == {Tale(i) : i \in 1..Len(wire)} \cup {Event("Connected", 0, NoUuid, "peer"), x}

\* They form a sequence that starts with Connected and has a record per message.
LEMMA StoryIs ==
    ASSUME wire \in Seq(Messages), NEW k \in 0..Len(wire), NEW x
    PROVE  /\ Story(k) \in Seq(Told(x)) /\ Len(Story(k)) = k + 1 /\ x \in Told(x)
           /\ Story(k)[1] = Event("Connected", 0, NoUuid, "peer")
           /\ \A i \in 1..k : Story(k)[i + 1] = Tale(i)
           /\ [i \in 1..k |-> Tale(i)] \in Seq(Told(x)) /\ Len([i \in 1..k |-> Tale(i)]) = k
<1> DEFINE c == Event("Connected", 0, NoUuid, "peer")
           t == [i \in 1..k |-> Tale(i)]
           S == Told(x)
<1>1. Len(wire) \in Nat /\ k \in Nat /\ k <= Len(wire)
  BY EndSteps
<1>2. c \in S /\ x \in S /\ \A i \in 1..k : Tale(i) \in S /\ i \in 1..Len(wire)
  BY <1>1 DEF Told
<1> HIDE DEF S
<1>3. t \in [1..k -> S] /\ \A i \in 1..k : t[i] = Tale(i)
  BY <1>2
<1>4. t \in Seq(S) /\ Len(t) = k
  BY <1>1, <1>3, FunctionSeq
<1> HIDE DEF c, t
<1>5. <<c>> \in Seq(S) /\ Len(<<c>>) = 1 /\ <<c>>[1] = c
  BY <1>2
<1>6. /\ <<c>> \o t \in Seq(S) /\ Len(<<c>> \o t) = 1 + k
      /\ \A i \in 1..(1 + k) : (<<c>> \o t)[i] = IF i <= 1 THEN <<c>>[i] ELSE t[i - 1]
  BY <1>4, <1>5, ConcatProperties
<1>7. (<<c>> \o t)[1] = c
  BY <1>1, <1>5, <1>6
<1>8. \A i \in 1..k : (<<c>> \o t)[i + 1] = Tale(i)
  <2> TAKE i \in 1..k
  <2>1. i + 1 \in 1..(1 + k) /\ ~(i + 1 <= 1) /\ (i + 1) - 1 = i
    BY <1>1
  <2> QED BY <1>3, <1>6, <2>1
<1>9. 1 + k = k + 1 /\ Story(k) = <<c>> \o t
  BY <1>1 DEF Story, c, t
<1> QED BY <1>2, <1>4, <1>6, <1>7, <1>8, <1>9 DEF c, t, S

\* One more message, one more record.
LEMMA StoryGrows ==
    ASSUME wire \in Seq(Messages), NEW k \in 0..Len(wire), k < Len(wire)
    PROVE  Append(Story(k), Tale(k + 1)) = Story(k + 1)
<1> DEFINE x == Tale(k + 1)
           S == Told(x)
           a == Append(Story(k), x)
           b == Story(k + 1)
<1>1. k + 1 \in 0..Len(wire) /\ k \in Nat /\ k + 1 \in 1..(k + 1)
  BY EndSteps
<1>2. /\ Story(k) \in Seq(S) /\ Len(Story(k)) = k + 1 /\ x \in S
      /\ Story(k)[1] = Event("Connected", 0, NoUuid, "peer")
      /\ \A i \in 1..k : Story(k)[i + 1] = Tale(i)
  BY StoryIs
<1>3. /\ b \in Seq(S) /\ Len(b) = (k + 1) + 1
      /\ b[1] = Event("Connected", 0, NoUuid, "peer")
      /\ \A i \in 1..(k + 1) : b[i + 1] = Tale(i)
  BY <1>1, StoryIs
<1> HIDE DEF S, b
<1>4. /\ a \in Seq(S) /\ Len(a) = (k + 1) + 1 /\ a[(k + 1) + 1] = x
      /\ \A i \in 1..(k + 1) : a[i] = Story(k)[i]
  <2> HIDE DEF x
  <2> QED BY <1>2, AppendProperties
<1> HIDE DEF a
<1>5. ASSUME NEW i \in 1..Len(a)
      PROVE  a[i] = b[i]
  <2>1. i \in Nat /\ (i = 1 \/ (i - 1 \in 1..k /\ (i - 1) + 1 = i) \/ i = (k + 1) + 1)
    BY <1>1, <1>4
  <2>2. CASE i = 1
    <3>1. 1 \in 1..(k + 1)
      BY <1>1
    <3> QED BY <1>2, <1>3, <1>4, <2>2, <3>1
  <2>3. CASE i - 1 \in 1..k /\ (i - 1) + 1 = i
    <3>1. i \in 1..(k + 1) /\ i - 1 \in 1..(k + 1)
      BY <1>1, <2>1, <2>3
    <3>2. b[(i - 1) + 1] = Tale(i - 1) /\ Story(k)[(i - 1) + 1] = Tale(i - 1)
      BY <1>2, <1>3, <2>3, <3>1
    <3>3. a[i] = Story(k)[i]
      BY <1>4, <3>1
    <3> QED BY <2>3, <3>2, <3>3
  <2>4. CASE i = (k + 1) + 1
    BY <1>1, <1>3, <1>4, <2>4
  <2> QED BY <2>1, <2>2, <2>3, <2>4
<1>6. a = b
  BY <1>3, <1>4, <1>5, SeqEqual
<1> QED BY <1>6 DEF a, b

\* Nothing more is accepted after k messages.
Stops(k) == k = Len(wire) \/ Fatal(k + 1) # "none" \/ ~(Due(k + 1) <= size)

\* An acceptable message takes effect at its end.
LEMMA DueIs ==
    ASSUME NEW i
    PROVE  /\ Fatal(i) = "none" => Due(i) = End(wire, i)
           /\ Fatal(i) # "Decode" => Due(i) = End(wire, i)
           /\ Fatal(i) = "Decode" => Due(i) = End(wire, i - 1) + 3
  BY DEF Due, HeaderBytes

\* Then exactly those k are accepted.
LEMMA AcceptedIs ==
    ASSUME wire \in Seq(Messages), size \in Nat, NEW k \in 0..Len(wire), Good(k),
           End(wire, k) <= size, Stops(k)
    PROVE  Cardinality(Accepted) = k
<1>1. Len(wire) \in Nat /\ k \in Nat /\ k <= Len(wire) /\ \A i \in 0..Len(wire) : End(wire, i) \in Nat
  BY EndSteps
<1>2. ASSUME NEW i \in 1..k
      PROVE  i \in Accepted
  <2>1. i \in 1..Len(wire)
    BY <1>1
  <2>2. ASSUME NEW j \in 1..i
        PROVE  Fatal(j) = "none" /\ Due(j) <= size
    <3>1. j \in 1..k /\ j \in 0..Len(wire) /\ j <= k
      BY <1>1
    <3>2. Fatal(j) = "none"
      BY <3>1 DEF Good
    <3>3. Due(j) = End(wire, j)
      BY <3>2, DueIs
    <3>4. End(wire, j) <= End(wire, k)
      BY <3>1, EndGrows
    <3>5. End(wire, j) \in Nat /\ End(wire, k) \in Nat
      BY <1>1, <3>1
    <3> QED BY <3>2, <3>3, <3>4, <3>5
  <2> QED BY <2>1, <2>2 DEF Accepted
<1>3. ASSUME NEW i \in Accepted, i \notin 1..k
      PROVE  FALSE
  <2>1. i \in 1..Len(wire) /\ \A j \in 1..i : Fatal(j) = "none" /\ Due(j) <= size
    BY <1>3 DEF Accepted
  <2>2. k + 1 \in 1..i /\ k # Len(wire)
    BY <1>1, <1>3, <2>1
  <2> QED BY <2>1, <2>2 DEF Stops
<1>4. Accepted = 1..k
  BY <1>2, <1>3
<1>5. Cardinality(1..k) = k
  <2>1. 1 \in Int /\ k \in Int /\ (1 > k => k = 0) /\ (k - 1) + 1 = k
    BY <1>1
  <2>2. Cardinality(1..k) = IF 1 > k THEN 0 ELSE k - 1 + 1
    BY <2>1, FS_Interval
  <2> QED BY <2>1, <2>2
<1> QED BY <1>4, <1>5

\* Some number of messages is accepted.
LEMMA Extent ==
    ASSUME wire \in Seq(Messages), size \in Nat
    PROVE  \E k \in 0..Len(wire) :
              /\ Good(k) /\ End(wire, k) <= size /\ Stops(k)
              /\ \A j \in 0..Len(wire) : Good(j) /\ End(wire, j) <= size => j <= k
<1> DEFINE Bad == {i \in Nat : ~(i \in 0..Len(wire) /\ Good(i) /\ End(wire, i) <= size)}
<1>1. Len(wire) \in Nat /\ End(wire, 0) = 0 /\ \A i \in 0..Len(wire) : End(wire, i) \in Nat
  BY EndSteps
<1>2. Len(wire) + 1 \in Nat /\ Len(wire) + 1 \notin 0..Len(wire)
  BY <1>1
<1>3. Bad # {} /\ Bad \in SUBSET Nat
  BY <1>2
<1>4. 0 \notin Bad
  <2>1. 1..0 = {} /\ 0 \in 0..Len(wire) /\ 0 <= size
    BY <1>1
  <2>2. Good(0)
    BY <2>1 DEF Good
  <2> QED BY <1>1, <2>1, <2>2
<1>5. PICK n \in Bad : \A m \in Bad : n <= m
  <2> HIDE DEF Bad
  <2> QED BY <1>3, LeastNatural
<1> DEFINE k == n - 1
<1>6. n \in Nat /\ n # 0
  BY <1>4
<1>7. k \in Nat /\ k + 1 = n /\ ~(n <= k)
  BY <1>6
<1>8. k \in 0..Len(wire) /\ Good(k) /\ End(wire, k) <= size
  BY <1>5, <1>7
<1> HIDE DEF k
<1>9. Stops(k)
  <2> SUFFICES ASSUME k # Len(wire), Fatal(k + 1) = "none", Due(k + 1) <= size PROVE FALSE
    BY DEF Stops
  <2>1. n \in 0..Len(wire)
    BY <1>1, <1>7, <1>8
  <2>2. ASSUME NEW j \in 1..n
        PROVE  Fatal(j) = "none"
    <3>1. j \in 1..k \/ j = n
      BY <1>7
    <3> QED BY <1>7, <1>8, <3>1 DEF Good
  <2>3. Good(n)
    BY <2>2 DEF Good
  <2>4. End(wire, n) <= size
    BY <1>7, DueIs
  <2> QED BY <2>1, <2>3, <2>4
<1>10. ASSUME NEW j \in 0..Len(wire), Good(j), End(wire, j) <= size, ~(j <= k)
       PROVE  FALSE
  <2>1. n \in 0..Len(wire) /\ n <= j
    BY <1>1, <1>7, <1>10
  <2>2. \A i \in 1..n : i \in 1..j
    BY <1>1, <1>6, <2>1
  <2>3. Good(n)
    BY <1>10, <2>2 DEF Good
  <2>4. End(wire, n) <= End(wire, j)
    BY <2>1, EndGrows
  <2>5. End(wire, n) \in Nat /\ End(wire, j) \in Nat
    BY <1>1, <2>1
  <2>6. End(wire, n) <= size
    BY <1>10, <2>4, <2>5
  <2> QED BY <2>1, <2>3, <2>6
<1> QED BY <1>8, <1>9, <1>10

\* The record of the end, after k messages.
Ending(k) ==
    IF k < Len(wire) /\ Due(k + 1) <= size
    THEN Event("Ended", Due(k + 1), Who(k),
               Reason(Fatal(k + 1), IF Fatal(k + 1) = "PeerError" THEN Body(k + 1) ELSE <<>>))
    ELSE Event("Ended", size, Who(k),
               Reason(IF size = End(wire, k) THEN "CleanEof" ELSE "Truncated", <<>>))

\* The meaning of a stream is the story of its messages and its end.
LEMMA MeaningIs ==
    ASSUME wire \in Seq(Messages), size \in Nat, NEW k \in 0..Len(wire), Good(k),
           End(wire, k) <= size, Stops(k)
    PROVE  Meaning = Append(Story(k), Ending(k))
<1> DEFINE id == Who(k)
           kinds == [i \in 1..k |-> IF i = 1 THEN "Started" ELSE wire[i].type]
           t == [i \in 1..k |-> Event(kinds[i], End(wire, i), id,
                                      IF wire[i].type = "Audio" THEN Body(i) ELSE wire[i].arg)]
<1>1. Cardinality(Accepted) = k
  BY AcceptedIs
<1>2. Meaning = <<Event("Connected", 0, NoUuid, "peer")>> \o t \o <<Ending(k)>>
  BY <1>1, Zenon DEF Meaning, Ending, Who
<1>3. t = [i \in 1..k |-> Tale(i)]
  <2>1. \A i \in 1..k : kinds[i] = IF i = 1 THEN "Started" ELSE wire[i].type
    OBVIOUS
  <2>2. \A i \in 1..k : id = wire[1].arg
    BY EndSteps DEF Who
  <2> HIDE DEF kinds, id
  <2>3. \A i \in 1..k : t[i] = Tale(i)
    BY <2>1, <2>2 DEF Tale
  <2> QED BY <2>1, <2>2 DEF Tale
<1> HIDE DEF t
<1>4. Meaning = Story(k) \o <<Ending(k)>>
  BY <1>2, <1>3 DEF Story
<1>5. Story(k) \in Seq(Told(Ending(k))) /\ Ending(k) \in Told(Ending(k))
  BY StoryIs
<1> QED BY <1>4, <1>5, AppendIsConcat

\* The story of what was accepted so far is where every meaning begins.
LEMMA StoryPrefix ==
    ASSUME wire \in Seq(Messages), size \in Nat, NEW k \in 0..Len(wire), Good(k),
           End(wire, k) <= size
    PROVE  IsPrefix(Story(k), Meaning)
<1>1. PICK n \in 0..Len(wire) :
         /\ Good(n) /\ End(wire, n) <= size /\ Stops(n)
         /\ \A j \in 0..Len(wire) : Good(j) /\ End(wire, j) <= size => j <= n
  BY Extent
<1> DEFINE x == Ending(n)
           S == Told(x)
           m == Append(Story(n), x)
<1>2. Meaning = m /\ k <= n
  BY <1>1, MeaningIs
<1>3. /\ Story(n) \in Seq(S) /\ Len(Story(n)) = n + 1 /\ x \in S
      /\ Story(n)[1] = Event("Connected", 0, NoUuid, "peer")
      /\ \A i \in 1..n : Story(n)[i + 1] = Tale(i)
  BY StoryIs
<1>4. /\ Story(k) \in Seq(S) /\ Len(Story(k)) = k + 1
      /\ Story(k)[1] = Event("Connected", 0, NoUuid, "peer")
      /\ \A i \in 1..k : Story(k)[i + 1] = Tale(i)
  BY StoryIs
<1>5. k \in Nat /\ n \in Nat /\ k <= n
  BY <1>2, EndSteps
<1> HIDE DEF x, S
<1>6. m \in Seq(S) /\ Len(m) = (n + 1) + 1 /\ \A i \in 1..(n + 1) : m[i] = Story(n)[i]
  BY <1>3, AppendProperties
<1> HIDE DEF m
<1>7. ASSUME NEW i \in 1..Len(Story(k))
      PROVE  Story(k)[i] = m[i]
  <2>1. i \in 1..(n + 1) /\ (i = 1 \/ (i - 1 \in 1..k /\ i - 1 \in 1..n /\ (i - 1) + 1 = i))
    BY <1>4, <1>5
  <2>2. m[i] = Story(n)[i]
    BY <1>6, <2>1
  <2>3. CASE i = 1
    BY <1>3, <1>4, <2>2, <2>3
  <2>4. CASE i - 1 \in 1..k /\ i - 1 \in 1..n /\ (i - 1) + 1 = i
    <3>1. Story(k)[(i - 1) + 1] = Tale(i - 1) /\ Story(n)[(i - 1) + 1] = Tale(i - 1)
      BY <1>3, <1>4, <2>4
    <3> QED BY <2>2, <2>4, <3>1
  <2> QED BY <2>1, <2>3, <2>4
<1>8. Len(Story(k)) <= Len(m)
  BY <1>4, <1>5, <1>6
<1>9. IsPrefix(Story(k), m)
  BY <1>4, <1>6, <1>7, <1>8, AgreesAsPrefix
<1> QED BY <1>2, <1>9

-----------------------------------------------------------------------------
(* Typed messages.                                                         *)

\* Only message k has its payload's bytes.
LEMMA ValueIs ==
    ASSUME wire \in Seq(Messages), NEW k \in 1..Len(wire), wire[k].len # 0
    PROVE  Value(Body(k)) = wire[k].arg
<1> DEFINE owners == {i \in 1..Len(wire) :
                         Body(k) = Bytes(End(wire, i) - wire[i].len, wire[i].len)}
<1>1. \A i \in 1..Len(wire) : /\ wire[i].len \in Nat /\ i - 1 \in 0..Len(wire) /\ i \in 0..Len(wire)
                              /\ End(wire, i) = End(wire, i - 1) + 3 + wire[i].len
                              /\ End(wire, i - 1) \in Nat /\ i \in Nat
  <2>1. /\ \A i \in 0..Len(wire) : End(wire, i) \in Nat
        /\ \A i \in 1..Len(wire) : /\ wire[i].len \in Nat /\ i - 1 \in 0..Len(wire)
                                   /\ End(wire, i) = End(wire, i - 1) + 3 + wire[i].len
        /\ Len(wire) \in Nat
    BY EndSteps
  <2>2. \A i \in 1..Len(wire) : i \in 0..Len(wire) /\ i \in Nat
    BY <2>1
  <2> QED BY <2>1, <2>2
<1>2. k \in owners
  BY DEF Body
<1>3. ASSUME NEW i \in 1..Len(wire)
      PROVE  LET b == Bytes(End(wire, i) - wire[i].len, wire[i].len) IN
             /\ Len(b) = wire[i].len /\ End(wire, i) - wire[i].len = End(wire, i - 1) + 3
             /\ wire[i].len # 0 => b[1] = End(wire, i - 1) + 3 + 1
  <2> DEFINE p == End(wire, i - 1) + 3
             l == wire[i].len
  <2>1. p \in Nat /\ l \in Nat /\ End(wire, i) - wire[i].len = p /\ 0 \in Nat
    BY <1>1
  <2>2. l # 0 => 1 \in 1..l
    BY <2>1
  <2> HIDE DEF p, l
  <2>3. Len(Bytes(p, l)) = l /\ \A d \in 1..l : Bytes(p, l)[d] = p + d
    BY <2>1, BytesRun
  <2> QED BY <2>1, <2>2, <2>3 DEF p, l
<1>4. ASSUME NEW i \in owners
      PROVE  i = k
  <2>1. i \in 1..Len(wire) /\ Body(k) = Bytes(End(wire, i) - wire[i].len, wire[i].len)
    OBVIOUS
  <2>2. Body(k) = Bytes(End(wire, k) - wire[k].len, wire[k].len)
    BY DEF Body
  <2>3. wire[i].len = wire[k].len
    BY <1>3, <2>1, <2>2
  <2>4. End(wire, i - 1) + 3 + 1 = End(wire, k - 1) + 3 + 1
    BY <1>3, <2>1, <2>2, <2>3
  <2>5. End(wire, i - 1) = End(wire, k - 1)
    BY <1>1, <2>1, <2>4
  <2>6. CASE i < k
    <3>1. i <= k - 1
      BY <1>1, <2>1, <2>6
    <3>2. End(wire, i) <= End(wire, k - 1)
      BY <1>1, <2>1, <3>1, EndGrows
    <3> QED BY <1>1, <2>1, <2>5, <3>2
  <2>7. CASE k < i
    <3>1. k <= i - 1
      BY <1>1, <2>1, <2>7
    <3>2. End(wire, k) <= End(wire, i - 1)
      BY <1>1, <2>1, <3>1, EndGrows
    <3> QED BY <1>1, <2>1, <2>5, <3>2
  <2> QED BY <1>1, <2>1, <2>6, <2>7
<1>5. (CHOOSE i \in owners : TRUE) = k
  <2>1. (CHOOSE i \in owners : TRUE) \in owners
    BY <1>2
  <2> HIDE DEF owners
  <2> QED BY <1>4, <2>1
<1>6. Body(k) # <<>>
  <2>1. Len(Body(k)) = wire[k].len
    BY <1>3 DEF Body
  <2>2. Len(<<>>) = 0
    BY EmptySeq
  <2> QED BY <2>1, <2>2
<1>7. Value(Body(k)) = wire[CHOOSE i \in owners : TRUE].arg
  BY <1>2, <1>6 DEF Value
<1> QED BY <1>5, <1>7

\* What an envelope shows is what was encoded.
LEMMA MessageIs ==
    ASSUME wire \in Seq(Messages), NEW k \in 1..Len(wire)
    PROVE  LET m == Message(FrameOf(k))
               w == wire[k]
           IN  /\ m.type = w.type /\ m.len = w.len /\ w \in Messages /\ w.len \in Nat
               /\ m.type \in {"Audio", "Unknown"} => m.arg = w.arg
               /\ m.type \in {"Uuid", "Dtmf"} /\ w.len # 0 => m.arg = w.arg
<1> DEFINE f == FrameOf(k)
           m == Message(f)
           w == wire[k]
           byte == ByteAt(f.header[1])
           type == Known(byte)
<1>1. f.header = Bytes(End(wire, k - 1), 3) /\ f.body = Body(k)
  BY DEF FrameOf
<1>2. type = w.type /\ byte = TypeByte(w)
  BY <1>1, LengthDeclared
<1>3. w \in Messages /\ w.len \in Nat /\ End(wire, k) - w.len \in Nat
  <2>1. /\ w \in Messages /\ w.len \in Nat /\ End(wire, k) = End(wire, k - 1) + 3 + w.len
        /\ End(wire, k - 1) \in Nat
    BY EndSteps
  <2> QED BY <2>1
<1>4. Len(f.body) = w.len
  <2> DEFINE p == End(wire, k) - w.len
             l == w.len
  <2>1. Body(k) = Bytes(p, l) /\ p \in Nat /\ 0 \in Nat /\ l \in Nat
    BY <1>3 DEF Body
  <2> HIDE DEF p, l
  <2>2. Len(Bytes(p, l)) = l
    BY <2>1, BytesRun
  <2> QED BY <1>1, <2>1, <2>2 DEF l
<1> HIDE DEF f
<1>5. m = [type |-> type, len |-> Len(f.body),
           arg |-> CASE type = "Audio" -> RateNames[byte - 15]
                     [] type \in {"Uuid", "Dtmf"} -> Value(f.body)
                     [] type = "Unknown" -> byte
                     [] OTHER -> "none"]
  BY DEF Message
<1>6. m.type = type /\ m.len = Len(f.body)
  BY <1>5
<1>7. /\ type = "Audio" => m.arg = RateNames[byte - 15]
      /\ type = "Uuid" => m.arg = Value(f.body)
      /\ type = "Dtmf" => m.arg = Value(f.body)
      /\ type = "Unknown" => m.arg = byte
  <2> HIDE DEF type, byte
  <2> QED BY <1>5
<1> HIDE DEF m, type, byte
<1>8. w.len # 0 => Value(f.body) = w.arg
  BY <1>1, ValueIs
<1>9. /\ w.type = "Audio" => RateNames[TypeByte(w) - 15] = w.arg
      /\ w.type = "Unknown" => TypeByte(w) = w.arg
  BY <1>3, TypeKnown
<1> HIDE DEF w
<1>10. m.type \in {"Audio", "Unknown"} => m.arg = w.arg
  BY <1>2, <1>6, <1>7, <1>9
<1>11. m.type \in {"Uuid", "Dtmf"} /\ w.len # 0 => m.arg = w.arg
  BY <1>2, <1>6, <1>7, <1>8
<1> QED BY <1>2, <1>3, <1>4, <1>6, <1>10, <1>11 DEF m, w, f

\* A frame is typed exactly when its message is well formed.
LEMMA TypedIs ==
    ASSUME wire \in Seq(Messages), NEW k \in 1..Len(wire)
    PROVE  LET m == Message(FrameOf(k))
               w == wire[k]
           IN  /\ Typed(m) <=> Typed(w)
               /\ Typed(m) /\ m.type \in {"Audio", "Unknown", "Uuid", "Dtmf"} => m.arg = w.arg
<1> DEFINE m == Message(FrameOf(k))
           w == wire[k]
<1>1. /\ m.type = w.type /\ m.len = w.len /\ w.len \in Nat
      /\ m.type \in {"Audio", "Unknown"} => m.arg = w.arg
      /\ m.type \in {"Uuid", "Dtmf"} /\ w.len # 0 => m.arg = w.arg
  BY MessageIs
<1> HIDE DEF m, w
<1>2. LengthOk(w.type, w.len) /\ w.type \in {"Uuid", "Dtmf"} => w.len # 0
  BY StreamConstants DEF LengthOk
<1>3. Typed(m) <=> Typed(w)
  BY <1>1, <1>2 DEF Typed
<1>4. Typed(m) /\ m.type \in {"Audio", "Unknown", "Uuid", "Dtmf"} => m.arg = w.arg
  BY <1>1, <1>2 DEF Typed
<1> QED BY <1>3, <1>4 DEF m, w

\* The session's verdict on message k + 1 after k accepted ones is the
\* stream's: it refuses, ends or accepts exactly what the reference says.
LEMMA VerdictIs ==
    ASSUME wire \in Seq(Messages), NEW k \in 0..Len(wire), k < Len(wire),
           session = IF k = 0 THEN "AwaitingUuid" ELSE "Active",
           wire[k + 1].len <= PayloadCapacity
    PROVE  LET f == FrameOf(k + 1)
               m == Message(f)
               w == wire[k + 1]
           IN  /\ ~Typed(m) => Fatal(k + 1) = "InvalidMessage"
               /\ Typed(m) /\ Verdict(m) = "Rejected" => Fatal(k + 1) = "Policy"
               /\ Typed(m) /\ Verdict(m) = "Ended" =>
                     /\ m.type = "Error" => Fatal(k + 1) = "PeerError"
                     /\ m.type # "Error" => Fatal(k + 1) = "Terminate"
               /\ Typed(m) /\ Verdict(m) \in {"Started", "Audio", "Dtmf"} =>
                     /\ Fatal(k + 1) = "none" /\ m.arg = w.arg
                     /\ Verdict(m) = IF k + 1 = 1 THEN "Started" ELSE w.type
                     /\ (Verdict(m) = "Started") <=> (k = 0)
                     /\ Content(m, f.body) = IF w.type = "Audio" THEN Body(k + 1) ELSE w.arg
<1> DEFINE f == FrameOf(k + 1)
           m == Message(f)
           w == wire[k + 1]
<1>1. k + 1 \in 1..Len(wire) /\ k \in Nat /\ w.len \in Nat /\ (k + 1 = 1 <=> k = 0)
  BY Spans
<1>2. /\ m.type = w.type /\ m.len = w.len /\ w \in Messages
      /\ (Typed(m) <=> Typed(w))
      /\ Typed(m) /\ m.type \in {"Audio", "Unknown", "Uuid", "Dtmf"} => m.arg = w.arg
  BY <1>1, MessageIs, TypedIs
<1>3. m.type \in Types
  BY <1>2, StreamConstants
<1>4. f.body = Body(k + 1)
  BY DEF FrameOf
<1>5. ~(w.len > PayloadCapacity)
  BY <1>1, StreamConstants
<1> DEFINE foreign == \/ w.type = "Unknown" \/ (w.type = "Uuid") # (k + 1 = 1)
                      \/ w.type = "Audio" /\ w.arg \notin Rates
                      \/ w.type = "Dtmf" /\ w.arg # "digit"
<1>6. Fatal(k + 1) = IF ~Typed(w) THEN "InvalidMessage"
                     ELSE IF w.type = "Terminate" THEN "Terminate"
                     ELSE IF w.type = "Error" THEN "PeerError"
                     ELSE IF foreign THEN "Policy" ELSE "none"
  BY <1>5, Zenon DEF Fatal
<1> DEFINE v == Verdict(m)
<1>7. v = CASE m.type \in {"Terminate", "Error"} -> "Ended"
            [] m.type = "Uuid" -> IF session = "AwaitingUuid" THEN "Started" ELSE "Rejected"
            [] m.type = "Audio" /\ session = "Active" ->
                   IF m.arg \in Rates THEN "Audio" ELSE "Rejected"
            [] m.type = "Dtmf" /\ session = "Active" ->
                   IF m.arg = "digit" THEN "Dtmf" ELSE "Rejected"
            [] OTHER -> "Rejected"
  BY DEF Verdict
<1>8. session \in {"AwaitingUuid", "Active"} /\ (session = "Active" <=> k # 0)
  OBVIOUS
<1> HIDE DEF m, w, f, v, foreign
<1>9. ~Typed(m) => Fatal(k + 1) = "InvalidMessage"
  BY <1>2, <1>6
<1>10. SUFFICES ASSUME Typed(m)
       PROVE  /\ v = "Rejected" => Fatal(k + 1) = "Policy"
              /\ v = "Ended" => /\ m.type = "Error" => Fatal(k + 1) = "PeerError"
                                /\ m.type # "Error" => Fatal(k + 1) = "Terminate"
              /\ v \in {"Started", "Audio", "Dtmf"} =>
                     /\ Fatal(k + 1) = "none" /\ m.arg = w.arg
                     /\ v = IF k + 1 = 1 THEN "Started" ELSE w.type
                     /\ (v = "Started") <=> (k = 0)
                     /\ Content(m, f.body) = IF w.type = "Audio" THEN Body(k + 1) ELSE w.arg
  BY <1>9, Zenon DEF v, m, w, f
<1>11. Content(m, f.body) = IF m.type \in {"Audio", "Error"} THEN f.body ELSE m.arg
  BY DEF Content
<1>12. CASE m.type \in {"Terminate", "Error"}
  BY <1>2, <1>6, <1>7, <1>10, <1>12
<1>13. CASE m.type = "Uuid"
  <2>1. foreign <=> k # 0
    BY <1>1, <1>2, <1>13 DEF foreign
  <2>2. v = IF session = "AwaitingUuid" THEN "Started" ELSE "Rejected"
    BY <1>7, <1>13
  <2> QED BY <1>1, <1>2, <1>4, <1>6, <1>8, <1>10, <1>11, <1>13, <2>1, <2>2
<1>14. CASE m.type = "Unknown"
  <2>1. foreign /\ v = "Rejected"
    BY <1>2, <1>7, <1>14 DEF foreign
  <2> QED BY <1>2, <1>6, <1>10, <1>14, <2>1
<1>15. CASE m.type = "Audio"
  <2>1. foreign <=> k = 0 \/ m.arg \notin Rates
    BY <1>1, <1>2, <1>10, <1>15 DEF foreign
  <2>2. v = IF session = "Active" THEN (IF m.arg \in Rates THEN "Audio" ELSE "Rejected")
            ELSE "Rejected"
    BY <1>7, <1>15
  <2> QED BY <1>1, <1>2, <1>4, <1>6, <1>8, <1>10, <1>11, <1>15, <2>1, <2>2
<1>16. CASE m.type = "Dtmf"
  <2>1. foreign <=> k = 0 \/ m.arg # "digit"
    BY <1>1, <1>2, <1>10, <1>16 DEF foreign
  <2>2. v = IF session = "Active" THEN (IF m.arg = "digit" THEN "Dtmf" ELSE "Rejected")
            ELSE "Rejected"
    BY <1>7, <1>16
  <2> QED BY <1>1, <1>2, <1>4, <1>6, <1>8, <1>10, <1>11, <1>16, <2>1, <2>2
<1> QED BY <1>3, <1>12, <1>13, <1>14, <1>15, <1>16 DEF Types

-----------------------------------------------------------------------------
(* The invariant of a connection.                                          *)

\* The connection has taken k messages and nothing has ended it.
Progress(k) ==
    /\ k \in 0..Len(wire) /\ Good(k) /\ events = Story(k) /\ uuid = Who(k) /\ cut = "none"
    /\ session = IF k = 0 THEN "AwaitingUuid" ELSE "Active"

\* Its decoder is inside message k + 1, or has just completed it.
Within(k) == Progress(k) /\ Placed(k, consumed, FALSE) /\ framer = FramerAt(k, consumed)
Completed(k) ==
    /\ Progress(k) /\ k < Len(wire) /\ consumed = End(wire, k + 1)
    /\ frame = FrameOf(k + 1) /\ framer = NewFramer /\ wire[k + 1].len <= PayloadCapacity

\* It ended after k messages, with the stream or before it.
EndedAfter(k) ==
    /\ k \in 0..Len(wire) /\ Good(k) /\ End(wire, k) <= consumed
    /\ cut = "none" => Stops(k) /\ Ending(k).offset = consumed
    /\ events = Append(Story(k), IF cut = "none" THEN Ending(k)
                                 ELSE Event("Ended", consumed, Who(k), Reason(cut, <<>>)))

\* The counters of the stream, and what is left of the current read.
StreamTypes ==
    /\ wire \in Seq(Messages) /\ size \in 0..End(wire, Len(wire))
    /\ pc \in {"connect", "read", "decode", "frame", "done"}
    /\ read \in 0..size /\ consumed \in Nat /\ input \in Nat
    /\ wired = read /\ consumed <= read /\ read <= OffsetMax
    /\ pc \in {"decode", "frame"} => consumed + input = read
    /\ pc = "read" => consumed = read

StreamInv ==
    /\ StreamTypes
    /\ pc = "connect" =>
          /\ read = 0 /\ consumed = 0 /\ framer = NewFramer /\ events = <<>>
          /\ uuid = NoUuid /\ cut = "none" /\ session = "AwaitingUuid"
    /\ pc \in {"read", "decode"} => \E k \in 0..Len(wire) : Within(k)
    /\ pc = "frame" => \E k \in 0..Len(wire) : Completed(k)
    /\ pc = "done" => \E k \in 0..Len(wire) : EndedAfter(k)

\* Every state is after some number of messages.
LEMMA InvAfter ==
    ASSUME StreamInv
    PROVE  \/ pc = "connect" /\ events = <<>> /\ cut = "none"
           \/ \E k \in 0..Len(wire) :
                 /\ pc # "done" /\ cut = "none" /\ events = Story(k)
                 /\ Good(k) /\ End(wire, k) <= consumed
           \/ \E k \in 0..Len(wire) : pc = "done" /\ EndedAfter(k)
<1>1. StreamTypes
  BY DEF StreamInv
<1>2. CASE pc = "connect"
  BY <1>2 DEF StreamInv
<1>3. CASE pc \in {"read", "decode"}
  BY <1>3 DEF StreamInv, Within, Progress, Placed
<1>4. CASE pc = "frame"
  <2>1. PICK k \in 0..Len(wire) : Completed(k)
    BY <1>4 DEF StreamInv
  <2>2. k < Len(wire) /\ wire \in Seq(Messages)
    BY <1>1, <2>1 DEF Completed, StreamTypes
  <2>3. /\ End(wire, k) \in Nat /\ wire[k + 1].len \in Nat
        /\ End(wire, k + 1) = End(wire, k) + 3 + wire[k + 1].len
    BY <2>2, Spans
  <2>4. End(wire, k) <= consumed
    BY <2>1, <2>3 DEF Completed
  <2> QED BY <1>4, <2>1, <2>4 DEF Completed, Progress
<1>5. CASE pc = "done"
  BY <1>5 DEF StreamInv
<1> QED BY <1>1, <1>2, <1>3, <1>4, <1>5 DEF StreamTypes

\* The invariant gives the records of the stream.
LEMMA InvEvents == StreamInv => EventsExact
<1> SUFFICES ASSUME StreamInv PROVE EventsExact
  OBVIOUS
<1>1. /\ wire \in Seq(Messages) /\ size \in Nat /\ consumed \in Nat /\ read \in Nat
      /\ consumed <= size /\ Len(wire) \in Nat /\ \A i \in 0..Len(wire) : End(wire, i) \in Nat
  <2>1. wire \in Seq(Messages)
    BY DEF StreamInv, StreamTypes
  <2>2. Len(wire) \in Nat /\ \A i \in 0..Len(wire) : End(wire, i) \in Nat
    BY <2>1, EndSteps
  <2>3. End(wire, Len(wire)) \in Nat
    BY <2>2
  <2> HIDE DEF End
  <2> QED BY <2>1, <2>2, <2>3 DEF StreamInv, StreamTypes
<1>2. CASE pc = "connect" /\ events = <<>> /\ cut = "none"
  <2>1. PICK n \in 0..Len(wire) : Good(n) /\ End(wire, n) <= size /\ Stops(n)
    BY <1>1, Extent
  <2> DEFINE S == Told(Ending(n))
  <2>2. Meaning = Append(Story(n), Ending(n))
    BY <1>1, <2>1, MeaningIs
  <2>3. Story(n) \in Seq(S) /\ Ending(n) \in S
    BY <1>1, StoryIs
  <2> HIDE DEF S
  <2>4. Meaning \in Seq(S) /\ Len(Meaning) \in Nat
    BY <2>2, <2>3, AppendProperties, LenProperties
  <2>5. <<>> \in Seq(S) /\ Len(<<>>) = 0
    BY EmptySeq
  <2>6. IsPrefix(<<>>, Meaning)
    <3>1. Len(<<>>) <= Len(Meaning) /\ 1..Len(<<>>) = {}
      BY <2>4, <2>5
    <3> QED BY <2>4, <2>5, <3>1, AgreesAsPrefix
  <2> QED BY <1>2, <2>6 DEF EventsExact
<1>3. ASSUME NEW k \in 0..Len(wire), pc # "done", cut = "none", events = Story(k), Good(k),
             End(wire, k) <= consumed
      PROVE  EventsExact
  <2>1. End(wire, k) <= size
    <3>1. End(wire, k) \in Nat
      BY <1>1
    <3> QED BY <1>1, <1>3, <3>1
  <2>2. IsPrefix(Story(k), Meaning)
    BY <1>1, <1>3, <2>1, StoryPrefix
  <2> QED BY <1>3, <2>2 DEF EventsExact
<1>4. ASSUME NEW k \in 0..Len(wire), pc = "done", EndedAfter(k)
      PROVE  EventsExact
  <2>1. Good(k) /\ End(wire, k) <= size
    <3>1. End(wire, k) \in Nat /\ End(wire, k) <= consumed
      BY <1>1, <1>4 DEF EndedAfter
    <3> QED BY <1>1, <1>4, <3>1 DEF EndedAfter
  <2> DEFINE x == IF cut = "none" THEN Ending(k)
                  ELSE Event("Ended", consumed, Who(k), Reason(cut, <<>>))
             S == Told(x)
  <2>2. events = Append(Story(k), x)
    BY <1>4 DEF EndedAfter
  <2>3. Story(k) \in Seq(S) /\ x \in S /\ Len(Story(k)) = k + 1
    BY <1>1, StoryIs
  <2>4. CASE cut = "none"
    <3>1. events = Meaning
      BY <1>1, <1>4, <2>1, <2>2, <2>4, MeaningIs DEF EndedAfter
    <3> HIDE DEF x, S
    <3>2. events \in Seq(S) /\ Len(events) \in Nat /\ Len(events) <= Len(events)
      BY <2>2, <2>3, AppendProperties, LenProperties
    <3>3. IsPrefix(events, events)
      BY <3>2, AgreesAsPrefix
    <3> QED BY <2>4, <3>1, <3>3 DEF EventsExact
  <2>5. CASE cut # "none"
    <3>1. x = Event("Ended", consumed, Who(k), Reason(cut, <<>>))
      BY <2>5
    <3> HIDE DEF x, S
    <3>2. Front(events) = Story(k) /\ events[Len(events)] = x
      BY <2>2, <2>3, FrontLast
    <3>3. IsPrefix(Story(k), Meaning)
      BY <1>1, <2>1, StoryPrefix
    <3>4. Len(Story(k)) = 1 <=> k = 0
      BY <1>1, <2>3
    <3> QED BY <2>5, <3>1, <3>2, <3>3, <3>4 DEF EventsExact, Who
  <2> QED BY <2>4, <2>5
<1> QED BY <1>2, <1>3, <1>4, InvAfter

\* Offsets of records in order, and none beyond w.
Ordered(s, w) ==
    \A i \in 1..Len(s) : s[i].offset <= w /\ \A j \in 1..i : s[j].offset <= s[i].offset

\* The offsets of a story are the ends of its messages.
LEMMA StoryOrdered ==
    ASSUME wire \in Seq(Messages), NEW k \in 0..Len(wire), NEW w \in Nat, End(wire, k) <= w
    PROVE  /\ Ordered(Story(k), w) /\ Len(Story(k)) = k + 1
           /\ \A i \in 1..(k + 1) : Story(k)[i].offset \in Nat /\ Story(k)[i].offset <= End(wire, k)
<1>1. /\ Len(wire) \in Nat /\ k \in Nat /\ k <= Len(wire) /\ End(wire, 0) = 0
      /\ \A i \in 0..Len(wire) : End(wire, i) \in Nat
  BY EndSteps
<1>2. /\ Len(Story(k)) = k + 1 /\ Story(k)[1] = Event("Connected", 0, NoUuid, "peer")
      /\ \A i \in 1..k : Story(k)[i + 1] = Tale(i)
  BY StoryIs
<1>3. \A i \in 1..k : Tale(i).offset = End(wire, i)
  BY DEF Tale, Event
<1>4. ASSUME NEW i \in 1..(k + 1)
      PROVE  Story(k)[i].offset = End(wire, i - 1) /\ i - 1 \in 0..Len(wire) /\ i - 1 <= k
  <2>1. i - 1 \in 0..Len(wire) /\ i - 1 <= k
    BY <1>1
  <2>2. CASE i = 1
    <3>1. Event("Connected", 0, NoUuid, "peer").offset = 0
      BY DEF Event
    <3>2. i - 1 = 0
      BY <2>2
    <3> QED BY <1>1, <1>2, <2>1, <2>2, <3>1, <3>2
  <2>3. CASE i # 1
    <3>1. i - 1 \in 1..k /\ (i - 1) + 1 = i
      BY <1>1, <2>3
    <3>2. Story(k)[(i - 1) + 1] = Tale(i - 1) /\ Tale(i - 1).offset = End(wire, i - 1)
      BY <1>2, <1>3, <3>1
    <3> QED BY <2>1, <3>1, <3>2
  <2> QED BY <2>2, <2>3
<1>5. ASSUME NEW i \in 1..(k + 1)
      PROVE  Story(k)[i].offset \in Nat /\ Story(k)[i].offset <= End(wire, k)
  <2>1. End(wire, i - 1) <= End(wire, k)
    BY <1>4, EndGrows
  <2> QED BY <1>1, <1>4, <2>1
<1>6. ASSUME NEW i \in 1..(k + 1), NEW j \in 1..i
      PROVE  Story(k)[j].offset <= Story(k)[i].offset
  <2>1. j \in 1..(k + 1) /\ j - 1 <= i - 1
    BY <1>1
  <2>2. End(wire, j - 1) <= End(wire, i - 1)
    BY <1>4, <2>1, EndGrows
  <2> QED BY <1>4, <2>1, <2>2
<1>7. \A i \in 1..(k + 1) : Story(k)[i].offset <= w
  <2> TAKE i \in 1..(k + 1)
  <2>1. End(wire, k) \in Nat
    BY <1>1
  <2> QED BY <1>5, <2>1
<1> QED BY <1>2, <1>5, <1>6, <1>7 DEF Ordered

\* So are they with a last record that is not behind them.
LEMMA EndOrdered ==
    ASSUME wire \in Seq(Messages), NEW k \in 0..Len(wire), NEW w \in Nat, NEW x,
           x.offset \in Nat, End(wire, k) <= x.offset, x.offset <= w
    PROVE  Ordered(Append(Story(k), x), w)
<1> DEFINE S == Told(x)
           t == Append(Story(k), x)
<1>1. k \in Nat /\ End(wire, k) \in Nat
  BY EndSteps
<1>2. Story(k) \in Seq(S) /\ x \in S /\ Len(Story(k)) = k + 1
  BY StoryIs
<1>3. End(wire, k) <= w
  BY <1>1
<1>4. /\ Ordered(Story(k), w)
      /\ \A i \in 1..(k + 1) : Story(k)[i].offset \in Nat /\ Story(k)[i].offset <= End(wire, k)
  BY <1>3, StoryOrdered
<1> HIDE DEF S
<1>5. /\ Len(t) = (k + 1) + 1 /\ t[(k + 1) + 1] = x /\ \A i \in 1..(k + 1) : t[i] = Story(k)[i]
  BY <1>2, AppendProperties
<1> HIDE DEF t
<1>6. ASSUME NEW i \in 1..Len(t)
      PROVE  t[i].offset <= w /\ \A j \in 1..i : t[j].offset <= t[i].offset
  <2>1. CASE i \in 1..(k + 1)
    <3>1. \A j \in 1..i : j \in 1..(k + 1)
      BY <1>1, <2>1
    <3>2. /\ Story(k)[i].offset <= w
          /\ \A j \in 1..i : Story(k)[j].offset <= Story(k)[i].offset
      BY <1>2, <1>4, <2>1 DEF Ordered
    <3> QED BY <1>5, <2>1, <3>1, <3>2
  <2>2. CASE i = (k + 1) + 1
    <3>1. t[i] = x
      BY <1>5, <2>2
    <3>2. ASSUME NEW j \in 1..i
          PROVE  t[j].offset <= x.offset
      <4>1. j \in 1..(k + 1) \/ j = (k + 1) + 1
        BY <1>1, <2>2
      <4>2. CASE j = (k + 1) + 1
        BY <1>5, <4>2
      <4>3. CASE j \in 1..(k + 1)
        <5>1. t[j] = Story(k)[j] /\ Story(k)[j].offset \in Nat /\ Story(k)[j].offset <= End(wire, k)
          BY <1>4, <1>5, <4>3
        <5> DEFINE a == Story(k)[j].offset
                   b == End(wire, k)
                   c == x.offset
        <5>2. a \in Nat /\ b \in Nat /\ c \in Nat /\ a <= b /\ b <= c
          BY <1>1, <5>1
        <5>3. t[j].offset = a
          BY <5>1
        <5> HIDE DEF a, b, c
        <5>4. a <= c
          BY <5>2
        <5> QED BY <5>3, <5>4 DEF c
      <4> QED BY <4>1, <4>2, <4>3
    <3> QED BY <3>1, <3>2
  <2> QED BY <1>1, <1>5, <2>1, <2>2
<1> QED BY <1>6 DEF Ordered, t

\* The invariant backs every offset.
LEMMA InvOffsets == StreamInv => OffsetsBacked
<1> SUFFICES ASSUME StreamInv PROVE OffsetsBacked
  OBVIOUS
<1>1. StreamTypes /\ wire \in Seq(Messages) /\ consumed \in Nat /\ wired \in Nat /\ consumed <= wired
  <2>1. wire \in Seq(Messages)
    BY DEF StreamInv, StreamTypes
  <2>2. End(wire, Len(wire)) \in Nat
    BY <2>1, EndSteps
  <2> QED BY <2>1, <2>2 DEF StreamInv, StreamTypes
<1>2. Ordered(events, wired)
  <2>1. CASE events = <<>>
    <3>1. Len(<<>>) = 0 /\ 1..0 = {}
      BY EmptySeq
    <3> QED BY <2>1, <3>1 DEF Ordered
  <2>2. ASSUME NEW k \in 0..Len(wire), events = Story(k), End(wire, k) <= consumed
        PROVE  Ordered(events, wired)
    <3>1. End(wire, k) \in Nat
      BY <1>1, EndSteps
    <3>2. End(wire, k) <= wired
      BY <1>1, <2>2, <3>1
    <3> QED BY <1>1, <2>2, <3>2, StoryOrdered
  <2>3. ASSUME NEW k \in 0..Len(wire), EndedAfter(k)
        PROVE  Ordered(events, wired)
    <3> DEFINE x == IF cut = "none" THEN Ending(k)
                    ELSE Event("Ended", consumed, Who(k), Reason(cut, <<>>))
    <3>1. events = Append(Story(k), x) /\ End(wire, k) <= consumed
      BY <2>3 DEF EndedAfter
    <3>2. x.offset = consumed
      BY <2>3 DEF EndedAfter, Event
    <3> HIDE DEF x
    <3> QED BY <1>1, <3>1, <3>2, EndOrdered
  <2> QED BY <2>1, <2>2, <2>3, InvAfter
<1> QED BY <1>1, <1>2 DEF OffsetsBacked, Ordered, StreamTypes

-----------------------------------------------------------------------------
(* The steps of a connection.                                              *)

\* Between two messages the framer is new.
LEMMA FramerBetween ==
    ASSUME wire \in Seq(Messages), NEW k \in 0..Len(wire)
    PROVE  FramerAt(k, End(wire, k)) = NewFramer /\ Placed(k, End(wire, k), FALSE)
           /\ Placed(k, End(wire, k), TRUE)
<1> DEFINE b == End(wire, k)
<1>1. b \in Nat /\ 0 \in Nat
  BY EndSteps
<1> HIDE DEF b
<1>2. b - b = 0 /\ b < b + 3 /\ ~(b + 3 <= b) /\ b <= b
  BY <1>1
<1>3. Bytes(b, 0) = <<>>
  BY <1>1, BytesRun
<1>4. [NewFramer EXCEPT !.header = <<>>] = NewFramer
  BY DEF NewFramer
<1>5. Bytes(b, b - b) = <<>>
  BY <1>2, <1>3
<1>6. Placed(k, b, FALSE) /\ Placed(k, b, TRUE)
  BY <1>2 DEF Placed, b
<1>7. FramerAt(k, b) = [NewFramer EXCEPT !.header = Bytes(b, b - b)]
  BY <1>2 DEF FramerAt, b
<1> QED BY <1>4, <1>5, <1>6, <1>7 DEF b

\* The stream does not change, so neither does what is said of it.
LEMMA Same ==
    ASSUME wire' = wire, size' = size, NEW k
    PROVE  /\ Story(k)' = Story(k) /\ (Good(k)' <=> Good(k)) /\ Who(k)' = Who(k)
           /\ End(wire, k)' = End(wire, k) /\ FrameOf(k)' = FrameOf(k)
           /\ FramerAt(k, consumed)' = FramerAt(k, consumed')
           /\ (Placed(k, consumed, FALSE)' <=> Placed(k, consumed', FALSE))
           /\ (Stops(k)' <=> Stops(k)) /\ Ending(k)' = Ending(k)
<1>1. \A i : End(wire, i)' = End(wire, i)
  BY DEF End
<1>2. \A i : Body(i)' = Body(i)
  BY <1>1 DEF Body
<1>3. \A i : Fatal(i)' = Fatal(i)
  BY DEF Fatal
<1>4. \A i : Due(i)' = Due(i)
  BY <1>1, <1>3 DEF Due
<1>5. \A i : Tale(i)' = Tale(i)
  BY <1>1, <1>2 DEF Tale
<1>6. Who(k)' = Who(k)
  BY DEF Who
<1>7. Story(k)' = Story(k)
  BY <1>5 DEF Story
<1>8. Good(k)' <=> Good(k)
  BY <1>3 DEF Good
<1>9. FrameOf(k)' = FrameOf(k)
  BY <1>1, <1>2 DEF FrameOf
<1>10. FramerAt(k, consumed)' = FramerAt(k, consumed')
  BY <1>1 DEF FramerAt
<1>11. Placed(k, consumed, FALSE)' <=> Placed(k, consumed', FALSE)
  BY <1>1 DEF Placed
<1>12. Stops(k)' <=> Stops(k)
  BY <1>3, <1>4 DEF Stops
<1>13. Ending(k)' = Ending(k)
  BY <1>1, <1>2, <1>3, <1>4, <1>6 DEF Ending
<1> QED BY <1>1, <1>6, <1>7, <1>8, <1>9, <1>10, <1>11, <1>12, <1>13

\* Init.
LEMMA InitInv == Init => StreamInv
<1> SUFFICES ASSUME Init PROVE StreamInv
  OBVIOUS
<1>1. wire \in Seq(Messages)
  <2>1. PICK m \in 0..MaxMessages : wire \in [1..m -> Messages]
    BY DEF Init, SeqOf
  <2>2. m \in Nat
    BY StreamConstants
  <2> QED BY <2>1, <2>2, FunctionSeq
<1>2. End(wire, Len(wire)) \in Nat /\ OffsetMax \in Nat
  BY <1>1, EndSteps, StreamConstants
<1>3. StreamTypes
  <2>1. size \in 0..End(wire, Len(wire)) /\ read = 0 /\ consumed = 0 /\ input = 0 /\ wired = 0
        /\ pc = "connect"
    BY DEF Init
  <2> QED BY <1>1, <1>2, <2>1 DEF StreamTypes
<1> QED BY <1>3 DEF Init, StreamInv

\* The numbers of a state.
LEMMA TypeFacts ==
    ASSUME StreamTypes
    PROVE  /\ wire \in Seq(Messages) /\ Len(wire) \in Nat /\ End(wire, Len(wire)) \in Nat
           /\ size \in Nat /\ size <= End(wire, Len(wire)) /\ read \in Nat /\ read <= size
           /\ consumed \in Nat /\ input \in Nat /\ consumed <= read /\ consumed <= size
           /\ OffsetMax \in Nat /\ \A i \in 0..Len(wire) : End(wire, i) \in Nat
<1>1. wire \in Seq(Messages)
  BY DEF StreamTypes
<1>2. Len(wire) \in Nat /\ \A i \in 0..Len(wire) : End(wire, i) \in Nat
  BY <1>1, EndSteps
<1>3. End(wire, Len(wire)) \in Nat
  BY <1>2
<1> QED BY <1>1, <1>2, <1>3, StreamConstants DEF StreamTypes

\* Connected is the first record and leaves the decoder between two messages.
LEMMA ConnectStep ==
    ASSUME StreamInv, Connect
    PROVE  StreamInv'
<1>1. /\ StreamTypes /\ read = 0 /\ consumed = 0 /\ framer = NewFramer /\ uuid = NoUuid
      /\ cut = "none" /\ session = "AwaitingUuid"
  BY DEF StreamInv, Connect
<1>2. /\ wire' = wire /\ size' = size /\ pc' = "read" /\ read' = read /\ consumed' = consumed
      /\ wired' = wired /\ input' = input /\ framer' = framer /\ session' = session
      /\ uuid' = uuid /\ cut' = cut /\ events' = <<Event("Connected", 0, NoUuid, "peer")>>
  BY DEF Connect, streamFrame
<1>3. StreamTypes'
  BY <1>1, <1>2 DEF StreamTypes
<1>4. Within(0)'
  <2>1. wire \in Seq(Messages) /\ 0 \in 0..Len(wire) /\ End(wire, 0) = 0
    BY <1>1, TypeFacts, EndSteps
  <2>2. Story(0) = <<Event("Connected", 0, NoUuid, "peer")>>
    <3>1. [i \in 1..0 |-> Tale(i)] = <<>>
      <4>1. 0 \in 0..Len(wire)
        BY <2>1
      <4>2. [i \in 1..0 |-> Tale(i)] \in Seq(Told(0)) /\ Len([i \in 1..0 |-> Tale(i)]) = 0
        BY <2>1, <4>1, StoryIs
      <4> QED BY <4>2, EmptySeq
    <3> DEFINE c == Event("Connected", 0, NoUuid, "peer")
    <3>2. <<c>> \in Seq({c})
      OBVIOUS
    <3> HIDE DEF c
    <3>3. <<c>> \o <<>> = <<c>>
      BY <3>2, ConcatEmptySeq
    <3> QED BY <3>1, <3>3 DEF Story, c
  <2>3. Good(0) /\ Who(0) = NoUuid
    <3>1. 1..0 = {}
      OBVIOUS
    <3> QED BY <3>1 DEF Good, Who
  <2>4. FramerAt(0, 0) = NewFramer /\ Placed(0, 0, FALSE)
    BY <2>1, FramerBetween
  <2>5. /\ Story(0)' = Story(0) /\ Good(0)' /\ Who(0)' = Who(0)
        /\ FramerAt(0, consumed)' = FramerAt(0, consumed')
        /\ (Placed(0, consumed, FALSE)' <=> Placed(0, consumed', FALSE))
    BY <1>2, <2>3, Same
  <2>6. (0 \in 0..Len(wire))'
    BY <1>2, <2>1
  <2> QED BY <1>1, <1>2, <2>2, <2>3, <2>4, <2>5, <2>6 DEF Within, Progress
<1>5. (0 \in 0..Len(wire))'
  BY <1>4 DEF Within, Progress
<1> QED BY <1>2, <1>3, <1>4, <1>5 DEF StreamInv

\* A terminal record after k messages, for the end of the stream.
LEMMA EndStep ==
    ASSUME wire' = wire, size' = size, StreamTypes', pc' = "done", cut' = "none",
           NEW k \in 0..Len(wire), Good(k), End(wire, k) <= consumed', Stops(k),
           Ending(k).offset = consumed', events' = Append(Story(k), Ending(k))
    PROVE  StreamInv'
<1>1. /\ Story(k)' = Story(k) /\ Good(k)' /\ End(wire, k)' = End(wire, k)
      /\ Stops(k)' /\ Ending(k)' = Ending(k)
  BY Same
<1>2. EndedAfter(k)'
  BY <1>1 DEF EndedAfter
<1>3. (\E i \in 0..Len(wire) : EndedAfter(i))'
  BY <1>2
<1> QED BY <1>3 DEF StreamInv

\* A terminal record that cuts the stream short.
LEMMA CutStep ==
    ASSUME wire' = wire, size' = size, StreamTypes', pc' = "done", cut' # "none",
           NEW k \in 0..Len(wire), Good(k), End(wire, k) <= consumed',
           events' = Append(Story(k), Event("Ended", consumed', Who(k), Reason(cut', <<>>)))
    PROVE  StreamInv'
<1>1. /\ Story(k)' = Story(k) /\ Good(k)' /\ End(wire, k)' = End(wire, k) /\ Who(k)' = Who(k)
  BY Same
<1>2. EndedAfter(k)'
  BY <1>1 DEF EndedAfter
<1>3. (\E i \in 0..Len(wire) : EndedAfter(i))'
  BY <1>2
<1> QED BY <1>3 DEF StreamInv

\* The decoder goes on inside message k + 1.
LEMMA WithinStep ==
    ASSUME wire' = wire, size' = size, StreamTypes', pc' \in {"read", "decode"},
           NEW k \in 0..Len(wire), Good(k), events' = Story(k), uuid' = Who(k), cut' = "none",
           session' = IF k = 0 THEN "AwaitingUuid" ELSE "Active",
           Placed(k, consumed', FALSE), framer' = FramerAt(k, consumed')
    PROVE  StreamInv'
<1>1. /\ Story(k)' = Story(k) /\ Good(k)' /\ Who(k)' = Who(k)
      /\ FramerAt(k, consumed)' = FramerAt(k, consumed') /\ Placed(k, consumed, FALSE)'
  BY Same
<1>2. Within(k)'
  BY <1>1 DEF Within, Progress
<1>3. (\E i \in 0..Len(wire) : Within(i))'
  BY <1>2
<1> QED BY <1>3 DEF StreamInv

\* A read leaves the decoder where it was, or ends the task at the last offset.
LEMMA ReadStep ==
    ASSUME StreamInv, NEW n \in 1..ReadBytes, Read(n)
    PROVE  StreamInv'
<1>1. /\ StreamTypes /\ pc = "read" /\ n <= size - read /\ consumed = read
  BY DEF StreamInv, StreamTypes, Read
<1>2. PICK k \in 0..Len(wire) : Within(k)
  BY <1>1 DEF StreamInv
<1>3. /\ Good(k) /\ events = Story(k) /\ uuid = Who(k) /\ cut = "none"
      /\ session = (IF k = 0 THEN "AwaitingUuid" ELSE "Active")
      /\ Placed(k, consumed, FALSE) /\ framer = FramerAt(k, consumed) /\ End(wire, k) <= consumed
  BY <1>2 DEF Within, Progress, Placed
<1>4. /\ wire' = wire /\ size' = size /\ consumed' = consumed /\ framer' = framer
      /\ session' = session /\ uuid' = uuid
  BY DEF Read, streamFrame
<1>5. n \in Nat /\ n >= 1
  BY StreamConstants
<1>6. CASE read + n <= OffsetMax
  <2>1. /\ read' = read + n /\ wired' = read + n /\ input' = n /\ pc' = "decode"
        /\ events' = events /\ cut' = cut
    BY <1>6 DEF Read
  <2>2. StreamTypes'
    <3>1. /\ wire \in Seq(Messages) /\ size \in 0..End(wire, Len(wire)) /\ size \in Nat
          /\ read \in Nat /\ consumed \in Nat
      BY <1>1, TypeFacts DEF StreamTypes
    <3>2. read + n \in 0..size /\ consumed <= read + n /\ consumed + n = read + n
      BY <1>1, <1>5, <3>1
    <3> QED BY <1>4, <1>5, <1>6, <2>1, <3>1, <3>2 DEF StreamTypes
  <2> QED BY <1>3, <1>4, <2>1, <2>2, WithinStep
<1>7. CASE ~(read + n <= OffsetMax)
  <2>1. /\ read' = read /\ wired' = wired /\ input' = input /\ pc' = "done"
        /\ cut' = "OffsetExhausted"
        /\ events' = Append(events, Event("Ended", consumed, uuid, Reason("OffsetExhausted", <<>>)))
    BY <1>7 DEF Read, Ends, EndsWith
  <2>2. StreamTypes'
    BY <1>1, <1>4, <2>1 DEF StreamTypes
  <2> QED BY <1>3, <1>4, <2>1, <2>2, CutStep
<1> QED BY <1>6, <1>7

\* A read error cuts the stream wherever the decoder is.
LEMMA ReadFailsStep ==
    ASSUME StreamInv, ReadFails
    PROVE  StreamInv'
<1>1. StreamTypes /\ pc = "read"
  BY DEF StreamInv, ReadFails
<1>2. PICK k \in 0..Len(wire) : Within(k)
  BY <1>1 DEF StreamInv
<1>3. Good(k) /\ events = Story(k) /\ uuid = Who(k) /\ End(wire, k) <= consumed
  BY <1>2 DEF Within, Progress, Placed
<1>4. /\ wire' = wire /\ size' = size /\ consumed' = consumed /\ read' = read /\ wired' = wired
      /\ input' = input /\ pc' = "done" /\ cut' = "Transport"
      /\ events' = Append(events, Event("Ended", consumed, uuid, Reason("Transport", <<>>)))
  BY DEF ReadFails, streamFrame, Ends, EndsWith
<1>5. StreamTypes'
  BY <1>1, <1>4 DEF StreamTypes
<1> QED BY <1>3, <1>4, <1>5, CutStep

\* The end of the stream is clean exactly between two messages.
LEMMA ReadEofStep ==
    ASSUME StreamInv, ReadEof
    PROVE  StreamInv'
<1>1. StreamTypes /\ pc = "read" /\ read = size /\ consumed = read
  BY DEF StreamInv, StreamTypes, ReadEof
<1>2. PICK k \in 0..Len(wire) : Within(k)
  BY <1>1 DEF StreamInv
<1>3. /\ Good(k) /\ events = Story(k) /\ uuid = Who(k) /\ cut = "none" /\ session # "Ended"
      /\ Placed(k, consumed, FALSE) /\ framer = FramerAt(k, consumed) /\ End(wire, k) <= consumed
  BY <1>2 DEF Within, Progress, Placed
<1>4. /\ wire' = wire /\ size' = size /\ consumed' = consumed /\ read' = read /\ wired' = wired
      /\ input' = input /\ cut' = cut /\ pc' = "done"
  BY DEF ReadEof, streamFrame, Ends, EndsWith
<1>5. StreamTypes'
  BY <1>1, <1>4 DEF StreamTypes
<1>6. /\ wire \in Seq(Messages) /\ size \in Nat /\ End(wire, k) \in Nat /\ consumed = size
      /\ PayloadCapacity \in Nat
  BY <1>1, TypeFacts, StreamConstants
<1> DEFINE b == End(wire, k)
           clean == framer.at = "Header" /\ framer.header = <<>>
<1>7. clean <=> size = b
  <2>1. CASE size = b
    <3>1. framer = NewFramer
      BY <1>3, <1>6, <2>1, FramerBetween
    <3> QED BY <2>1, <3>1 DEF NewFramer
  <2>2. CASE size # b /\ size < b + 3
    <3> DEFINE d == size - b
    <3>1. d \in Nat /\ d # 0 /\ 0 \in Nat
      BY <1>3, <1>6, <2>2
    <3> HIDE DEF d
    <3>2. Len(Bytes(b, d)) = d
      BY <1>6, <3>1, BytesRun
    <3>3. framer.header = Bytes(b, d)
      BY <1>3, <1>6, <2>2 DEF FramerAt, NewFramer, d
    <3>4. framer.header # <<>>
      BY <3>1, <3>2, <3>3, EmptySeq
    <3> QED BY <2>2, <3>4
  <2>3. CASE size # b /\ ~(size < b + 3)
    <3>1. framer.at = "Body"
      BY <1>3, <1>6, <2>3 DEF FramerAt
    <3> QED BY <2>3, <3>1
  <2> QED BY <2>1, <2>2, <2>3
<1>8. k < Len(wire) => ~(Due(k + 1) <= size)
  <2> SUFFICES ASSUME k < Len(wire) PROVE ~(Due(k + 1) <= size)
    OBVIOUS
  <2>1. /\ (k + 1) - 1 = k /\ wire[k + 1].len \in Nat /\ End(wire, k + 1) = b + 3 + wire[k + 1].len
    BY <1>6, Spans
  <2>2. Due(k + 1) = b + 3 \/ (Due(k + 1) = End(wire, k + 1) /\ Fatal(k + 1) # "Decode")
    BY <2>1, DueIs
  <2>3. CASE size < b + 3
    <3>1. ~(b + 3 <= size) /\ ~(b + 3 + wire[k + 1].len <= size)
      <4> HIDE DEF b
      <4> QED BY <1>6, <2>1, <2>3 DEF b
    <3> QED BY <2>1, <2>2, <3>1
  <2>4. CASE ~(size < b + 3)
    <3>1. b + 3 <= consumed
      BY <1>6, <2>4
    <3>2. consumed < End(wire, k + 1) /\ wire[k + 1].len <= PayloadCapacity
      BY <1>3, <3>1 DEF Placed, Admitted
    <3>3. Fatal(k + 1) # "Decode"
      <4>1. ~(wire[k + 1].len > PayloadCapacity)
        BY <1>6, <2>1, <3>2
      <4> QED BY <4>1 DEF Fatal
    <3>4. Due(k + 1) = End(wire, k + 1)
      BY <3>3, DueIs
    <3>5. End(wire, k + 1) \in Nat
      BY <1>6, Spans
    <3> QED BY <1>6, <3>2, <3>4, <3>5
  <2> QED BY <2>3, <2>4
<1>9. Stops(k)
  <2>1. k < Len(wire) \/ k = Len(wire)
    BY <1>6, EndSteps
  <2> QED BY <1>8, <2>1 DEF Stops
<1>10. Ending(k) = Event("Ended", size, Who(k),
                         Reason(IF size = b THEN "CleanEof" ELSE "Truncated", <<>>))
  BY <1>8 DEF Ending
<1>11. Ending(k).offset = consumed'
  BY <1>4, <1>6, <1>10 DEF Event
<1>12. events' = Append(Story(k), Ending(k))
  <2> HIDE DEF b, clean
  <2>1. events' = Append(events, Event("Ended", consumed, uuid,
                                       Reason(IF clean THEN "CleanEof" ELSE "Truncated", <<>>)))
    BY <1>3 DEF ReadEof, Ends, EndsWith, clean
  <2> QED BY <1>3, <1>6, <1>7, <1>10, <2>1
<1> QED BY <1>3, <1>4, <1>5, <1>6, <1>9, <1>11, <1>12, EndStep

\* One call of the framer asks for more, completes the next message or fails on its
\* length.
LEMMA DecodeStep ==
    ASSUME StreamInv, Decode
    PROVE  StreamInv'
<1>1. StreamTypes /\ pc = "decode" /\ consumed + input = read
  BY DEF StreamInv, StreamTypes, Decode
<1>2. PICK k \in 0..Len(wire) : Within(k)
  BY <1>1 DEF StreamInv
<1>3. /\ Good(k) /\ events = Story(k) /\ uuid = Who(k) /\ cut = "none"
      /\ session = (IF k = 0 THEN "AwaitingUuid" ELSE "Active")
      /\ Placed(k, consumed, FALSE) /\ framer = FramerAt(k, consumed) /\ End(wire, k) <= consumed
  BY <1>2 DEF Within, Progress, Placed
<1> DEFINE fed == Feed(framer, consumed, input, FALSE)
           m == wire[k + 1]
<1>4. /\ wire' = wire /\ size' = size /\ read' = read /\ wired' = wired /\ session' = session
      /\ uuid' = uuid /\ cut' = cut /\ framer' = fed.framer /\ frame' = fed.frame
      /\ consumed' = fed.at /\ input' = input - (fed.at - consumed)
      /\ CASE fed.outcome = "NeedInput" -> pc' = "read" /\ UNCHANGED events
           [] fed.outcome = "Frame" -> pc' = "frame" /\ UNCHANGED events
           [] OTHER -> Ends(fed.at, uuid, "Decode")
  BY DEF Decode, streamFrame
<1>5. /\ wire \in Seq(Messages) /\ End(wire, Len(wire)) \in Nat /\ size \in Nat /\ read \in Nat
      /\ consumed \in Nat /\ input \in Nat /\ read <= size /\ size <= End(wire, Len(wire))
      /\ End(wire, k) \in Nat /\ consumed + input <= End(wire, Len(wire))
      /\ size \in 0..End(wire, Len(wire)) /\ read \in 0..size /\ wired = read /\ read <= OffsetMax
  <2>1. /\ wire \in Seq(Messages) /\ End(wire, Len(wire)) \in Nat /\ size \in Nat /\ read \in Nat
        /\ consumed \in Nat /\ input \in Nat /\ read <= size /\ size <= End(wire, Len(wire))
        /\ End(wire, k) \in Nat
    BY <1>1, TypeFacts
  <2>2. consumed + input <= End(wire, Len(wire))
    <3> DEFINE e == End(wire, Len(wire))
    <3>1. e \in Nat /\ size <= e
      BY <2>1
    <3> HIDE DEF e
    <3>2. consumed + input <= e
      BY <1>1, <2>1, <3>1
    <3> QED BY <3>2 DEF e
  <2> QED BY <1>1, <2>1, <2>2 DEF StreamTypes
<1>6. \/ Placed(k, consumed + input, FALSE) /\ Wants(fed, k, consumed + input)
      \/ /\ k < Len(wire) /\ End(wire, k + 1) <= consumed + input /\ Yields(fed, k + 1)
         /\ Admitted(m, FALSE)
      \/ /\ k < Len(wire) /\ End(wire, k) + 3 <= consumed + input
         /\ m.len > PayloadCapacity /\ Fails(fed, k + 1, "ResourceLimit")
  BY <1>3, <1>5, Fed
<1> HIDE DEF fed
<1>7. CASE Placed(k, consumed + input, FALSE) /\ Wants(fed, k, consumed + input)
  <2>1. /\ fed.framer = FramerAt(k, consumed + input) /\ fed.at = consumed + input
        /\ fed.outcome = "NeedInput"
    BY <1>7 DEF Wants
  <2>2. pc' = "read" /\ events' = events
    BY <1>4, <2>1
  <2>3. consumed' = read /\ input' = 0
    BY <1>1, <1>4, <1>5, <2>1
  <2>4. StreamTypes'
    BY <1>4, <1>5, <2>2, <2>3 DEF StreamTypes
  <2>5. Placed(k, consumed', FALSE) /\ framer' = FramerAt(k, consumed')
    BY <1>4, <1>7, <2>1
  <2> QED BY <1>3, <1>4, <2>2, <2>4, <2>5, WithinStep
<1>8. CASE /\ k < Len(wire) /\ End(wire, k + 1) <= consumed + input /\ Yields(fed, k + 1)
           /\ Admitted(m, FALSE)
  <2>1. /\ fed.framer = NewFramer /\ fed.at = End(wire, k + 1) /\ fed.outcome = "Frame"
        /\ fed.frame = FrameOf(k + 1)
    BY <1>8 DEF Yields
  <2>2. pc' = "frame" /\ events' = events
    BY <1>4, <2>1
  <2>3. /\ End(wire, k + 1) \in Nat /\ k + 1 \in 1..Len(wire) /\ m.len \in Nat
        /\ End(wire, k + 1) = End(wire, k) + 3 + m.len
    BY <1>5, <1>8, Spans
  <2>4. consumed <= End(wire, k + 1)
    <3>1. CASE End(wire, k) + 3 <= consumed
      BY <1>3, <1>5, <2>3, <3>1 DEF Placed
    <3>2. CASE ~(End(wire, k) + 3 <= consumed)
      <4>1. consumed <= End(wire, k) + 3 + m.len
        <5> HIDE DEF m
        <5> QED BY <1>5, <2>3, <3>2
      <4> QED BY <2>3, <4>1
    <3> QED BY <3>1, <3>2
  <2>5. /\ consumed' \in Nat /\ input' \in Nat /\ consumed' + input' = read /\ consumed' <= read
    <3> DEFINE e == End(wire, k + 1)
    <3>1. e \in Nat /\ consumed' = e /\ input' = input - (e - consumed) /\ consumed <= e
          /\ e <= consumed + input
      BY <1>4, <1>8, <2>1, <2>3, <2>4
    <3> HIDE DEF e
    <3> QED BY <1>1, <1>5, <3>1
  <2>6. StreamTypes'
    BY <1>4, <1>5, <2>2, <2>5 DEF StreamTypes
  <2>7. /\ Story(k)' = Story(k) /\ (Good(k)' <=> Good(k)) /\ Who(k)' = Who(k)
    BY <1>4, Same
  <2>8. End(wire, k + 1)' = End(wire, k + 1) /\ FrameOf(k + 1)' = FrameOf(k + 1)
    BY <1>4, Same
  <2>9. m.len <= PayloadCapacity
    BY <1>8 DEF Admitted
  <2>10. Progress(k)'
    BY <1>3, <1>4, <2>2, <2>7 DEF Progress
  <2>11. Completed(k)'
    BY <1>4, <1>8, <2>1, <2>8, <2>9, <2>10 DEF Completed
  <2>12. (\E i \in 0..Len(wire) : Completed(i))'
    BY <1>4, <2>11
  <2> QED BY <2>2, <2>6, <2>12 DEF StreamInv
<1>9. CASE /\ k < Len(wire) /\ End(wire, k) + 3 <= consumed + input
           /\ m.len > PayloadCapacity /\ Fails(fed, k + 1, "ResourceLimit")
  <2>1. k + 1 \in 1..Len(wire) /\ (k + 1) - 1 = k
    BY <1>5, <1>9, Spans
  <2>2. fed.at = End(wire, k) + 3 /\ fed.outcome = "ResourceLimit"
    BY <1>9, <2>1 DEF Fails
  <2>3. /\ pc' = "done"
        /\ events' = Append(events, Event("Ended", fed.at, uuid, Reason("Decode", <<>>)))
    BY <1>4, <2>2 DEF Ends, EndsWith
  <2>4. consumed < End(wire, k) + 3
    <3>1. m.len \in Nat /\ PayloadCapacity \in Nat
      BY <1>5, <1>9, Spans, StreamConstants
    <3>2. ~(m.len <= PayloadCapacity)
      BY <1>9, <3>1
    <3>3. ~(End(wire, k) + 3 <= consumed)
      BY <1>3, <3>2 DEF Placed, Admitted
    <3> QED BY <1>5, <3>3
  <2>5. /\ consumed' \in Nat /\ input' \in Nat /\ consumed' <= read /\ consumed' <= size
        /\ End(wire, k) <= consumed'
    <3> DEFINE e == End(wire, k)
    <3>1. e \in Nat /\ consumed' = e + 3 /\ input' = input - ((e + 3) - consumed)
          /\ consumed < e + 3 /\ e + 3 <= consumed + input
      BY <1>4, <1>5, <1>9, <2>2, <2>4
    <3> HIDE DEF e
    <3>2. /\ consumed' \in Nat /\ input' \in Nat /\ consumed' <= read /\ consumed' <= size
          /\ e <= consumed'
      BY <1>1, <1>5, <3>1
    <3> QED BY <3>2 DEF e
  <2>6. StreamTypes'
    BY <1>4, <1>5, <2>3, <2>5 DEF StreamTypes
  <2>7. Fatal(k + 1) = "Decode"
    BY <1>9 DEF Fatal
  <2>8. Due(k + 1) = End(wire, k) + 3
    BY <2>1, <2>7, DueIs
  <2>9. Due(k + 1) <= size /\ Stops(k)
    BY <1>4, <2>2, <2>5, <2>7, <2>8 DEF Stops
  <2>10. Ending(k) = Event("Ended", consumed', Who(k), Reason("Decode", <<>>))
    BY <1>4, <1>9, <2>2, <2>7, <2>8, <2>9 DEF Ending
  <2>11. Ending(k).offset = consumed'
    BY <2>10 DEF Event
  <2>12. events' = Append(Story(k), Ending(k))
    BY <1>3, <1>4, <2>3, <2>10
  <2> QED BY <1>3, <1>4, <2>3, <2>5, <2>6, <2>9, <2>11, <2>12, EndStep
<1> QED BY <1>6, <1>7, <1>8, <1>9

\* A frame that ends the connection, at the end of its message.
LEMMA FatalStep ==
    ASSUME StreamTypes, wire' = wire, size' = size, read' = read, wired' = wired, input' = input,
           consumed' = consumed, cut' = cut, pc' = "done",
           NEW k \in 0..Len(wire), Completed(k), NEW why, Fatal(k + 1) = why,
           why \notin {"none", "Decode"},
           events' = Append(events, Event("Ended", consumed, uuid,
                                          Reason(why, IF why = "PeerError" THEN Body(k + 1)
                                                      ELSE <<>>)))
    PROVE  StreamInv'
<1>1. /\ k < Len(wire) /\ consumed = End(wire, k + 1) /\ Good(k) /\ events = Story(k)
      /\ uuid = Who(k) /\ cut = "none"
  BY DEF Completed, Progress
<1>2. /\ wire \in Seq(Messages) /\ consumed \in Nat /\ consumed <= size
  BY TypeFacts
<1>3. /\ End(wire, k) \in Nat /\ wire[k + 1].len \in Nat
      /\ End(wire, k + 1) = End(wire, k) + 3 + wire[k + 1].len
  BY <1>1, <1>2, Spans
<1>4. End(wire, k) <= consumed
  BY <1>1, <1>3
<1>5. Due(k + 1) = consumed
  BY <1>1, DueIs
<1>6. Stops(k)
  BY DEF Stops
<1>7. Ending(k) = Event("Ended", consumed, Who(k),
                        Reason(why, IF why = "PeerError" THEN Body(k + 1) ELSE <<>>))
  BY <1>1, <1>2, <1>5 DEF Ending
<1>8. Ending(k).offset = consumed
  BY <1>7 DEF Event
<1>9. StreamTypes'
  BY DEF StreamTypes
<1>10. events' = Append(Story(k), Ending(k))
  BY <1>1, <1>7
<1> QED BY <1>1, <1>2, <1>4, <1>6, <1>8, <1>9, <1>10, EndStep

\* A refused message is the first the reference calls fatal.
LEMMA RefuseStep ==
    ASSUME StreamInv, Refuse
    PROVE  StreamInv'
<1>1. StreamTypes /\ pc = "frame" /\ wire \in Seq(Messages)
  BY DEF StreamInv, Refuse, StreamTypes
<1>2. PICK k \in 0..Len(wire) : Completed(k)
  BY <1>1 DEF StreamInv
<1>3. /\ k < Len(wire) /\ frame = FrameOf(k + 1) /\ wire[k + 1].len <= PayloadCapacity
      /\ session = (IF k = 0 THEN "AwaitingUuid" ELSE "Active")
  BY <1>2 DEF Completed, Progress
<1> DEFINE m == Message(frame)
<1>4. /\ ~Typed(m) => Fatal(k + 1) = "InvalidMessage"
      /\ Typed(m) /\ Verdict(m) = "Rejected" => Fatal(k + 1) = "Policy"
  BY <1>1, <1>3, VerdictIs
<1>5. /\ wire' = wire /\ size' = size /\ read' = read /\ wired' = wired /\ input' = input
      /\ consumed' = consumed /\ cut' = cut /\ pc' = "done"
  BY DEF Refuse, frameFrame, streamFrame, Ends, EndsWith
<1>6. \/ /\ ~Typed(m)
         /\ events' = Append(events, Event("Ended", consumed, uuid, Reason("InvalidMessage", <<>>)))
      \/ /\ Typed(m) /\ Verdict(m) = "Rejected"
         /\ events' = Append(events, Event("Ended", consumed, uuid, Reason("Policy", <<>>)))
  BY DEF Refuse, Ends, EndsWith
<1> HIDE DEF m
<1>7. \E why \in {"InvalidMessage", "Policy"} :
         /\ Fatal(k + 1) = why
         /\ events' = Append(events, Event("Ended", consumed, uuid, Reason(why, <<>>)))
  BY <1>4, <1>6
<1>8. PICK why \in {"InvalidMessage", "Policy"} :
         /\ Fatal(k + 1) = why
         /\ events' = Append(events, Event("Ended", consumed, uuid, Reason(why, <<>>)))
  BY <1>7
<1>9. why \notin {"none", "Decode"} /\ why # "PeerError"
  BY <1>8
<1> QED BY <1>1, <1>2, <1>5, <1>8, <1>9, FatalStep

\* So is a message that ends the session.
LEMMA PeerEndsStep ==
    ASSUME StreamInv, PeerEnds
    PROVE  StreamInv'
<1>1. StreamTypes /\ pc = "frame" /\ wire \in Seq(Messages)
  BY DEF StreamInv, PeerEnds, StreamTypes
<1>2. PICK k \in 0..Len(wire) : Completed(k)
  BY <1>1 DEF StreamInv
<1>3. /\ k < Len(wire) /\ frame = FrameOf(k + 1) /\ wire[k + 1].len <= PayloadCapacity
      /\ session = (IF k = 0 THEN "AwaitingUuid" ELSE "Active")
  BY <1>2 DEF Completed, Progress
<1> DEFINE m == Message(frame)
<1>4. Typed(m) /\ Verdict(m) = "Ended" => /\ m.type = "Error" => Fatal(k + 1) = "PeerError"
                                          /\ m.type # "Error" => Fatal(k + 1) = "Terminate"
  BY <1>1, <1>3, VerdictIs
<1>5. /\ wire' = wire /\ size' = size /\ read' = read /\ wired' = wired /\ input' = input
      /\ consumed' = consumed /\ cut' = cut /\ pc' = "done" /\ Typed(m) /\ Verdict(m) = "Ended"
  BY DEF PeerEnds, frameFrame, streamFrame, Ends, EndsWith
<1>6. frame.body = Body(k + 1)
  BY <1>3 DEF FrameOf
<1>7. IF m.type = "Error"
      THEN events' = Append(events, Event("Ended", consumed, uuid, Reason("PeerError", frame.body)))
      ELSE events' = Append(events, Event("Ended", consumed, uuid, Reason("Terminate", <<>>)))
  BY DEF PeerEnds, Ends, EndsWith
<1> HIDE DEF m
<1>8. CASE m.type = "Error"
  <2> DEFINE why == "PeerError"
  <2>1. /\ Fatal(k + 1) = why /\ why \notin {"none", "Decode"}
        /\ events' = Append(events, Event("Ended", consumed, uuid,
                              Reason(why, IF why = "PeerError" THEN Body(k + 1) ELSE <<>>)))
    BY <1>4, <1>5, <1>6, <1>7, <1>8
  <2> HIDE DEF why
  <2> QED BY <1>1, <1>2, <1>5, <2>1, FatalStep
<1>9. CASE m.type # "Error"
  <2> DEFINE why == "Terminate"
  <2>1. /\ Fatal(k + 1) = why /\ why \notin {"none", "Decode"}
        /\ events' = Append(events, Event("Ended", consumed, uuid,
                              Reason(why, IF why = "PeerError" THEN Body(k + 1) ELSE <<>>)))
    BY <1>4, <1>5, <1>6, <1>7, <1>9
  <2> HIDE DEF why
  <2> QED BY <1>1, <1>2, <1>5, <2>1, FatalStep
<1> QED BY <1>8, <1>9

\* An accepted message adds its record to the story.
LEMMA ObserveStep ==
    ASSUME StreamInv, Observe
    PROVE  StreamInv'
<1>1. StreamTypes /\ pc = "frame" /\ wire \in Seq(Messages)
  BY DEF StreamInv, Observe, StreamTypes
<1>2. PICK k \in 0..Len(wire) : Completed(k)
  BY <1>1 DEF StreamInv
<1>3. /\ k < Len(wire) /\ frame = FrameOf(k + 1) /\ wire[k + 1].len <= PayloadCapacity
      /\ session = (IF k = 0 THEN "AwaitingUuid" ELSE "Active") /\ Good(k) /\ events = Story(k)
      /\ uuid = Who(k) /\ cut = "none" /\ consumed = End(wire, k + 1) /\ framer = NewFramer
  BY <1>2 DEF Completed, Progress
<1> DEFINE m == Message(frame)
           w == wire[k + 1]
           kind == Verdict(m)
           id == IF kind = "Started" THEN m.arg ELSE uuid
<1>4. Typed(m) /\ kind \in {"Started", "Audio", "Dtmf"} =>
         /\ Fatal(k + 1) = "none" /\ m.arg = w.arg
         /\ kind = IF k + 1 = 1 THEN "Started" ELSE w.type
         /\ (kind = "Started") <=> (k = 0)
         /\ Content(m, frame.body) = IF w.type = "Audio" THEN Body(k + 1) ELSE w.arg
  BY <1>1, <1>3, VerdictIs
<1>5. /\ wire' = wire /\ size' = size /\ read' = read /\ wired' = wired /\ input' = input
      /\ consumed' = consumed /\ cut' = cut /\ framer' = framer
      /\ Typed(m) /\ kind \in {"Started", "Audio", "Dtmf"}
      /\ events' = Append(events, Event(kind, consumed, id, Content(m, frame.body)))
      /\ session' = "Active" /\ uuid' = id /\ pc' = IF input = 0 THEN "read" ELSE "decode"
  BY DEF Observe, frameFrame, streamFrame
<1>6. /\ k + 1 \in 1..Len(wire) /\ k + 1 \in 0..Len(wire) /\ k \in Nat
  BY <1>1, <1>3, Spans
<1> HIDE DEF m, kind, w
<1>7. id = wire[1].arg
  <2>1. CASE k = 0
    <3>1. k + 1 = 1
      BY <2>1
    <3> QED BY <1>4, <1>5, <2>1, <3>1 DEF w
  <2>2. CASE k # 0
    BY <1>3, <1>4, <1>5, <2>2 DEF Who
  <2> QED BY <2>1, <2>2
<1> HIDE DEF id
<1>8. Event(kind, consumed, id, Content(m, frame.body)) = Tale(k + 1)
  BY <1>3, <1>4, <1>5, <1>7 DEF Tale, w
<1>9. events' = Story(k + 1)
  BY <1>1, <1>3, <1>5, <1>8, StoryGrows
<1>10. Good(k + 1)
  <2>1. \A j \in 1..(k + 1) : j \in 1..k \/ j = k + 1
    BY <1>6
  <2> QED BY <1>3, <1>4, <1>5, <2>1 DEF Good
<1>11. uuid' = Who(k + 1) /\ session' = IF k + 1 = 0 THEN "AwaitingUuid" ELSE "Active"
  <2>1. k + 1 # 0
    BY <1>6
  <2> QED BY <1>5, <1>7, <2>1 DEF Who
<1>12. Placed(k + 1, consumed', FALSE) /\ framer' = FramerAt(k + 1, consumed')
  BY <1>1, <1>3, <1>5, <1>6, FramerBetween
<1>13. StreamTypes' /\ pc' \in {"read", "decode"}
  <2>1. consumed \in Nat /\ input \in Nat /\ consumed + input = read
    BY <1>1 DEF StreamTypes
  <2>2. pc' = "read" => consumed = read
    BY <1>5, <2>1
  <2> QED BY <1>1, <1>5, <2>1, <2>2 DEF StreamTypes
<1>14. cut' = "none"
  BY <1>3, <1>5
<1> DEFINE n == k + 1
<1>15. /\ n \in 0..Len(wire) /\ Good(n) /\ events' = Story(n) /\ uuid' = Who(n)
       /\ session' = (IF n = 0 THEN "AwaitingUuid" ELSE "Active")
       /\ Placed(n, consumed', FALSE) /\ framer' = FramerAt(n, consumed')
  BY <1>6, <1>9, <1>10, <1>11, <1>12
<1> HIDE DEF n
<1> QED BY <1>5, <1>13, <1>14, <1>15, WithinStep

\* Nothing changes.
LEMMA StutterStep ==
    ASSUME StreamInv, UNCHANGED vars
    PROVE  StreamInv'
<1>1. /\ wire' = wire /\ size' = size /\ pc' = pc /\ read' = read /\ consumed' = consumed
      /\ wired' = wired /\ input' = input /\ framer' = framer /\ frame' = frame
      /\ session' = session /\ uuid' = uuid /\ events' = events /\ cut' = cut
  BY DEF vars
<1>2. StreamTypes'
  BY <1>1 DEF StreamInv, StreamTypes
<1>3. CASE pc = "connect"
  BY <1>1, <1>2, <1>3 DEF StreamInv
<1>4. CASE pc \in {"read", "decode"}
  <2>1. PICK k \in 0..Len(wire) : Within(k)
    BY <1>4 DEF StreamInv
  <2> QED BY <1>1, <1>2, <1>4, <2>1, WithinStep DEF Within, Progress
<1>5. CASE pc = "frame"
  <2>1. PICK k \in 0..Len(wire) : Completed(k)
    BY <1>5 DEF StreamInv
  <2>2. /\ Story(k)' = Story(k) /\ (Good(k)' <=> Good(k)) /\ Who(k)' = Who(k)
    BY <1>1, Same
  <2>3. End(wire, k + 1)' = End(wire, k + 1) /\ FrameOf(k + 1)' = FrameOf(k + 1)
    BY <1>1, Same
  <2>4. Progress(k)'
    BY <1>1, <2>1, <2>2 DEF Completed, Progress
  <2>5. Completed(k)'
    BY <1>1, <2>1, <2>3, <2>4 DEF Completed
  <2>6. (\E i \in 0..Len(wire) : Completed(i))'
    BY <1>1, <2>5
  <2> QED BY <1>1, <1>2, <1>5, <2>6 DEF StreamInv
<1>6. CASE pc = "done"
  <2>1. PICK k \in 0..Len(wire) : EndedAfter(k)
    BY <1>6 DEF StreamInv
  <2>2. CASE cut = "none"
    BY <1>1, <1>2, <1>6, <2>1, <2>2, EndStep DEF EndedAfter
  <2>3. CASE cut # "none"
    BY <1>1, <1>2, <1>6, <2>1, <2>3, CutStep DEF EndedAfter
  <2> QED BY <2>2, <2>3
<1> QED BY <1>3, <1>4, <1>5, <1>6 DEF StreamInv, StreamTypes

\* Every step of a connection keeps the invariant.
LEMMA StreamStep == StreamInv /\ [Next]_vars => StreamInv'
<1> SUFFICES ASSUME StreamInv, [Next]_vars PROVE StreamInv'
  OBVIOUS
<1>1. CASE Connect
  BY <1>1, ConnectStep
<1>2. CASE ReadFails
  BY <1>2, ReadFailsStep
<1>3. CASE ReadEof
  BY <1>3, ReadEofStep
<1>4. CASE Decode
  BY <1>4, DecodeStep
<1>5. CASE Refuse
  BY <1>5, RefuseStep
<1>6. CASE Observe
  BY <1>6, ObserveStep
<1>7. CASE PeerEnds
  BY <1>7, PeerEndsStep
<1>8. CASE Terminated
  BY <1>8, StutterStep DEF Terminated
<1>9. ASSUME NEW n \in 1..ReadBytes, Read(n) PROVE StreamInv'
  BY <1>9, ReadStep
<1>10. CASE UNCHANGED vars
  BY <1>10, StutterStep
<1> QED BY <1>1, <1>2, <1>3, <1>4, <1>5, <1>6, <1>7, <1>8, <1>9, <1>10 DEF Next

\* Whatever messages a peer sends and however its bytes are cut into reads, a
\* connection (the read loop and decode_chunk of connection.rs) sends the records
\* of the stream read as a whole: a prefix of its meaning at every step, and all
\* of it when the stream ends the task.
THEOREM StreamEvents == Spec => []EventsExact
<1>1. Init => StreamInv
  BY InitInv
<1>2. StreamInv /\ [Next]_vars => StreamInv'
  BY StreamStep
<1>3. StreamInv => EventsExact
  BY InvEvents
<1> QED BY <1>1, <1>2, <1>3, PTL DEF Spec

\* A record never points beyond the bytes already handed off in Wire records,
\* offsets never go back, and the decoder takes exactly the bytes read.
THEOREM StreamOffsets == Spec => []OffsetsBacked
<1>1. Init => StreamInv
  BY InitInv
<1>2. StreamInv /\ [Next]_vars => StreamInv'
  BY StreamStep
<1>3. StreamInv => OffsetsBacked
  BY InvOffsets
<1> QED BY <1>1, <1>2, <1>3, PTL DEF Spec

-----------------------------------------------------------------------------
(* What a step hands off.                                                  *)

\* The records are a sequence, and what they carry of audio is bytes.
LEMMA EventsSeq ==
    ASSUME StreamInv
    PROVE  /\ \E S : events \in Seq(S)
           /\ \A i \in 1..Len(events) : events[i].kind = "Audio" => events[i].arg \in Seq(Nat)
<1>1. wire \in Seq(Messages)
  BY DEF StreamInv, StreamTypes
<1>2. ASSUME NEW k \in 0..Len(wire)
      PROVE  /\ Len(Story(k)) = k + 1 /\ Story(k) \in Seq(Told(0))
             /\ \A i \in 1..(k + 1) : Story(k)[i].kind = "Audio" => Story(k)[i].arg \in Seq(Nat)
  <2>1. /\ Len(Story(k)) = k + 1 /\ Story(k)[1] = Event("Connected", 0, NoUuid, "peer")
        /\ \A i \in 1..k : Story(k)[i + 1] = Tale(i)
        /\ Story(k) \in Seq(Told(0)) /\ k \in Nat /\ k <= Len(wire) /\ Len(wire) \in Nat
    <3>1. k \in Nat /\ k <= Len(wire) /\ Len(wire) \in Nat
      BY <1>1, EndSteps
    <3> QED BY <1>1, <3>1, StoryIs
  <2>2. ASSUME NEW i \in 1..k, Tale(i).kind = "Audio"
        PROVE  Tale(i).arg \in Seq(Nat)
    <3>1. wire[i].type = "Audio" /\ Tale(i).arg = Body(i)
      BY <2>2 DEF Tale, Event
    <3>2. i \in 1..Len(wire)
      BY <2>1
    <3> DEFINE p == End(wire, i - 1) + 3
               l == wire[i].len
    <3>3. /\ l \in Nat /\ End(wire, i - 1) \in Nat /\ End(wire, i) = End(wire, i - 1) + 3 + l
      BY <1>1, <3>2, EndSteps
    <3>4. p \in Nat /\ End(wire, i) - l = p /\ 0 \in Nat
      BY <3>3
    <3>5. Body(i) = Bytes(p, l)
      BY <3>4 DEF Body
    <3> HIDE DEF p, l
    <3>6. Bytes(p, l) \in Seq(Nat)
      BY <3>3, <3>4, BytesRun
    <3> QED BY <3>1, <3>5, <3>6
  <2>3. ASSUME NEW i \in 1..(k + 1), Story(k)[i].kind = "Audio"
        PROVE  Story(k)[i].arg \in Seq(Nat)
    <3>1. i # 1
      BY <2>1, <2>3 DEF Event
    <3>2. i - 1 \in 1..k /\ (i - 1) + 1 = i
      BY <2>1, <3>1
    <3>3. Story(k)[i] = Tale(i - 1)
      BY <2>1, <3>2
    <3> QED BY <2>2, <2>3, <3>2, <3>3
  <2> QED BY <2>1, <2>3
<1>3. CASE events = <<>>
  <2>1. <<>> \in Seq({}) /\ Len(<<>>) = 0 /\ 1..0 = {}
    BY EmptySeq
  <2> QED BY <1>3, <2>1
<1>4. ASSUME NEW k \in 0..Len(wire), events = Story(k)
      PROVE  /\ \E S : events \in Seq(S)
             /\ \A i \in 1..Len(events) : events[i].kind = "Audio" => events[i].arg \in Seq(Nat)
  BY <1>2, <1>4
<1>5. ASSUME NEW k \in 0..Len(wire), EndedAfter(k)
      PROVE  /\ \E S : events \in Seq(S)
             /\ \A i \in 1..Len(events) : events[i].kind = "Audio" => events[i].arg \in Seq(Nat)
  <2> DEFINE x == IF cut = "none" THEN Ending(k)
                  ELSE Event("Ended", consumed, Who(k), Reason(cut, <<>>))
             S == Told(x)
  <2>1. events = Append(Story(k), x)
    BY <1>5 DEF EndedAfter
  <2>2. x.kind = "Ended"
    BY DEF Ending, Event
  <2>3. Story(k) \in Seq(S) /\ x \in S /\ Len(Story(k)) = k + 1 /\ k \in Nat
    BY <1>1, StoryIs, EndSteps
  <2> HIDE DEF x, S
  <2>4. /\ events \in Seq(S) /\ Len(events) = (k + 1) + 1 /\ events[(k + 1) + 1] = x
        /\ \A i \in 1..(k + 1) : events[i] = Story(k)[i]
    BY <2>1, <2>3, AppendProperties
  <2>5. \A i \in 1..Len(events) : i \in 1..(k + 1) \/ i = (k + 1) + 1
    BY <2>3, <2>4
  <2>6. \A i \in 1..Len(events) : events[i].kind = "Audio" => events[i].arg \in Seq(Nat)
    BY <1>2, <2>2, <2>4, <2>5
  <2> QED BY <2>4, <2>6
<1> QED BY <1>3, <1>4, <1>5, InvAfter

\* The session of a connection that goes on.
LEMMA SessionKnown ==
    ASSUME StreamInv, pc \in {"read", "decode", "frame"}
    PROVE  session \in {"AwaitingUuid", "Active"}
  BY DEF StreamInv, Within, Completed, Progress

\* The five kinds of step: nothing is handed off, the bytes of a read, the
\* first record, an event of the session, or the last record.
Quiet ==
    /\ wired' = wired /\ events' = events
    /\ UNCHANGED <<uuid, session>>
    /\ (pc = "connect") <=> (pc' = "connect")
    /\ (pc = "done") <=> (pc' = "done")
Wires ==
    /\ pc = "read" /\ pc' = "decode" /\ events' = events
    /\ UNCHANGED <<uuid, session>>
    /\ \E n \in Nat \ {0} : wired' = wired + n
Greets ==
    /\ pc = "connect" /\ pc' = "read" /\ wired' = wired /\ events = <<>>
    /\ UNCHANGED <<uuid, session>>
    /\ session = "AwaitingUuid"
    /\ events' = <<Event("Connected", 0, NoUuid, "peer")>>
Tells(kind, arg) ==
    /\ pc = "frame" /\ pc' \in {"read", "decode"} /\ wired' = wired
    /\ kind \in {"Started", "Audio", "Dtmf"} /\ (kind = "Started" <=> session = "AwaitingUuid")
    /\ session' = "Active" /\ (kind # "Started" => uuid' = uuid)
    /\ events' = Append(events, Event(kind, consumed, uuid', arg))
    /\ kind = "Audio" => arg \in Seq(Nat) /\ Len(arg) % 2 = 0
Concludes(offset, reason) ==
    /\ pc \in {"read", "decode", "frame"} /\ pc' = "done" /\ wired' = wired
    /\ events' = Append(events, Event("Ended", offset, uuid, reason))

\* Every step of a connection is of one of these kinds.
LEMMA Handoff ==
    ASSUME StreamInv, [Next]_vars
    PROVE  \/ Quiet \/ Wires \/ Greets \/ (\E kind, arg : Tells(kind, arg))
           \/ \E offset, reason : Concludes(offset, reason)
<1>1. CASE Connect
  BY <1>1 DEF Connect, Greets, StreamInv
<1>2. CASE ReadFails
  <2>1. Concludes(consumed, Reason("Transport", <<>>))
    BY <1>2 DEF ReadFails, Ends, EndsWith, Concludes
  <2> QED BY <2>1
<1>3. CASE ReadEof
  <2>1. \E reason : Concludes(consumed, reason)
    BY <1>3 DEF ReadEof, Ends, EndsWith, Concludes
  <2> QED BY <2>1
<1>4. CASE Decode
  <2> DEFINE fed == Feed(framer, consumed, input, FALSE)
  <2>1. /\ pc = "decode" /\ wired' = wired /\ session' = session /\ uuid' = uuid
        /\ CASE fed.outcome = "NeedInput" -> pc' = "read" /\ UNCHANGED events
             [] fed.outcome = "Frame" -> pc' = "frame" /\ UNCHANGED events
             [] OTHER -> Ends(fed.at, uuid, "Decode")
    BY <1>4 DEF Decode
  <2> HIDE DEF fed
  <2>2. CASE fed.outcome \in {"NeedInput", "Frame"}
    BY <2>1, <2>2 DEF Quiet
  <2>3. CASE fed.outcome \notin {"NeedInput", "Frame"}
    <3>1. Ends(fed.at, uuid, "Decode")
      BY <2>1, <2>3
    <3>2. Concludes(fed.at, Reason("Decode", <<>>))
      BY <2>1, <3>1 DEF Ends, EndsWith, Concludes
    <3> QED BY <3>2
  <2> QED BY <2>2, <2>3
<1>5. CASE Refuse
  <2>1. /\ pc = "frame" /\ pc' = "done" /\ wired' = wired
        /\ \E reason : events' = Append(events, Event("Ended", consumed, uuid, reason))
    BY <1>5 DEF Refuse, Ends, EndsWith, frameFrame
  <2>2. \E reason : Concludes(consumed, reason)
    BY <2>1 DEF Concludes
  <2> QED BY <2>2
<1>6. CASE Observe
  <2>1. PICK k \in 0..Len(wire) : Completed(k)
    BY <1>6 DEF StreamInv, Observe
  <2>2. /\ k < Len(wire) /\ frame = FrameOf(k + 1) /\ wire[k + 1].len <= PayloadCapacity
        /\ session = (IF k = 0 THEN "AwaitingUuid" ELSE "Active")
    BY <2>1 DEF Completed, Progress
  <2>3. wire \in Seq(Messages)
    BY DEF StreamInv, StreamTypes
  <2> DEFINE m == Message(frame)
             kind == Verdict(m)
             w == wire[k + 1]
             id == IF kind = "Started" THEN m.arg ELSE uuid
             arg == Content(m, frame.body)
  <2>4. /\ pc = "frame" /\ wired' = wired /\ session' = "Active" /\ uuid' = id
        /\ Typed(m) /\ kind \in {"Started", "Audio", "Dtmf"} /\ pc' \in {"read", "decode"}
        /\ events' = Append(events, Event(kind, consumed, id, arg))
    BY <1>6 DEF Observe, frameFrame
  <2>5. /\ kind = IF k + 1 = 1 THEN "Started" ELSE w.type
        /\ (kind = "Started") <=> (k = 0)
        /\ arg = IF w.type = "Audio" THEN Body(k + 1) ELSE w.arg
    BY <2>2, <2>3, <2>4, VerdictIs
  <2>6. /\ k + 1 \in 1..Len(wire) /\ w.len \in Nat /\ End(wire, k) + 3 \in Nat
        /\ Body(k + 1) = Bytes(End(wire, k) + 3, w.len)
    <3>1. /\ k + 1 \in 1..Len(wire) /\ w.len \in Nat /\ End(wire, k) \in Nat
          /\ Body(k + 1) = Bytes(End(wire, k) + 3, w.len)
      BY <2>2, <2>3, Spans
    <3> QED BY <3>1
  <2>7. m.type = w.type /\ m.len = w.len
    BY <2>2, <2>3, <2>6, MessageIs
  <2>8. kind = "Audio" => arg \in Seq(Nat) /\ Len(arg) % 2 = 0
    <3> SUFFICES ASSUME kind = "Audio" PROVE arg \in Seq(Nat) /\ Len(arg) % 2 = 0
      OBVIOUS
    <3> HIDE DEF kind, arg, m
    <3>1. w.type = "Audio" /\ arg = Body(k + 1)
      BY <2>5
    <3>2. w.len % 2 = 0
      BY <2>4, <2>7, <3>1 DEF Typed, LengthOk
    <3> DEFINE p == End(wire, k) + 3
               l == w.len
    <3>3. p \in Nat /\ l \in Nat /\ 0 \in Nat /\ arg = Bytes(p, l) /\ l % 2 = 0
      BY <2>6, <3>1, <3>2
    <3> HIDE DEF p, l
    <3>4. Bytes(p, l) \in Seq(Nat) /\ Len(Bytes(p, l)) = l
      BY <3>3, BytesRun
    <3> QED BY <3>3, <3>4
  <2> HIDE DEF m, kind, arg
  <2>9. (kind = "Started" <=> session = "AwaitingUuid") /\ (kind # "Started" => uuid' = uuid)
    BY <2>2, <2>4, <2>5
  <2>10. Tells(kind, arg)
    BY <2>4, <2>8, <2>9 DEF Tells
  <2> QED BY <2>10
<1>7. CASE PeerEnds
  <2>1. /\ pc = "frame" /\ pc' = "done" /\ wired' = wired
        /\ \E reason : events' = Append(events, Event("Ended", consumed, uuid, reason))
    BY <1>7 DEF PeerEnds, Ends, EndsWith, frameFrame
  <2>2. \E reason : Concludes(consumed, reason)
    BY <2>1 DEF Concludes
  <2> QED BY <2>2
<1>8. CASE UNCHANGED vars
  BY <1>8 DEF vars, Quiet
<1>9. CASE Terminated
  BY <1>8, <1>9 DEF Terminated
<1>10. ASSUME NEW n \in 1..ReadBytes, Read(n)
       PROVE  Wires \/ \E offset, reason : Concludes(offset, reason)
  <2>1. n \in Nat \ {0} /\ wired = read
    BY StreamConstants DEF StreamInv, StreamTypes
  <2>2. CASE read + n <= OffsetMax
    BY <1>10, <2>1, <2>2 DEF Read, Wires
  <2>3. CASE ~(read + n <= OffsetMax)
    <3>1. Concludes(consumed, Reason("OffsetExhausted", <<>>))
      BY <1>10, <2>3 DEF Read, Ends, EndsWith, Concludes
    <3> QED BY <3>1
  <2> QED BY <2>2, <2>3
<1> QED BY <1>1, <1>2, <1>3, <1>4, <1>5, <1>6, <1>7, <1>8, <1>9, <1>10 DEF Next

-----------------------------------------------------------------------------
(* The recording of a connection.                                          *)

\* An adapter that has not failed holds what was handed off so far, and knows
\* how far the session is.
Mirrored ==
    /\ out = [wire |-> Bytes(0, wired), wave |-> Rec!WaveHeader(0) \o Audio, log |-> <<>>]
    /\ summary = [wire |-> wired, audio |-> Len(Audio), events |-> 0, header |-> 4, patch |-> 0,
                  end |-> IF pc = "done" THEN Last(events).arg.kind ELSE "Incomplete"]
    /\ at = 4 + Len(Audio)
    /\ last = IF events = <<>> THEN 0 ELSE Last(events).offset
    /\ recState = IF pc = "connect" THEN "AwaitingConnection"
                  ELSE IF pc = "done" THEN "Ended" ELSE session
    /\ pc # "done" => recUuid = uuid

RecordInv ==
    /\ StreamInv /\ recPc \in {"new", "open"}
    /\ recPc = "new" => pc = "connect" /\ Rec!Init
    /\ recPc = "open" => IF recState = "Failed" THEN ~Rec!WaveFits(Len(Audio)) ELSE Mirrored

\* The audio of a sequence of records, which a record adds to.
AudioIn(s) == FlattenSeq([i \in 1..Len(s) |-> IF s[i].kind = "Audio" THEN s[i].arg ELSE <<>>])

\* One more record adds its payload if it is audio, and nothing otherwise.
LEMMA AudioGrows ==
    ASSUME NEW S, NEW s \in Seq(S), NEW x, x.kind = "Audio" => x.arg \in Seq(Nat),
           \A i \in 1..Len(s) : s[i].kind = "Audio" => s[i].arg \in Seq(Nat)
    PROVE  /\ AudioIn(s) \in Seq(Nat)
           /\ AudioIn(Append(s, x)) = AudioIn(s) \o (IF x.kind = "Audio" THEN x.arg ELSE <<>>)
<1> DEFINE n == Len(s)
           f == [i \in 1..n |-> IF s[i].kind = "Audio" THEN s[i].arg ELSE <<>>]
           y == IF x.kind = "Audio" THEN x.arg ELSE <<>>
           T == S \cup {x}
           t == Append(s, x)
           g == [i \in 1..Len(t) |-> IF t[i].kind = "Audio" THEN t[i].arg ELSE <<>>]
<1>1. <<>> \in Seq(Nat) /\ y \in Seq(Nat) /\ n \in Nat
  BY EmptySeq, LenProperties
<1>2. f \in [1..n -> Seq(Nat)]
  BY <1>1
<1>3. f \in Seq(Seq(Nat)) /\ Len(f) = n
  BY <1>1, <1>2, FunctionSeq
<1>4. s \in Seq(T) /\ x \in T
  BY SeqMonotonic
<1>5. Len(t) = n + 1 /\ t[n + 1] = x /\ \A i \in 1..n : t[i] = s[i]
  BY <1>4, AppendProperties
<1>6. ASSUME NEW i \in 1..(n + 1)
      PROVE  g[i] = IF i = n + 1 THEN y ELSE f[i]
  <2>1. i \in 1..Len(t) /\ (i = n + 1 \/ (i \in 1..n /\ i # n + 1))
    BY <1>1, <1>5
  <2>2. g[i] = IF t[i].kind = "Audio" THEN t[i].arg ELSE <<>>
    BY <2>1
  <2> HIDE DEF g, t
  <2>3. CASE i = n + 1
    BY <1>5, <2>2, <2>3
  <2>4. CASE i \in 1..n /\ i # n + 1
    BY <1>5, <2>2, <2>4
  <2> QED BY <2>1, <2>3, <2>4
<1>7. /\ Append(f, y) \in Seq(Seq(Nat)) /\ Len(Append(f, y)) = n + 1
      /\ \A i \in 1..n : Append(f, y)[i] = f[i] /\ Append(f, y)[n + 1] = y
  <2> HIDE DEF f, y, n
  <2> QED BY <1>1, <1>3, AppendProperties
<1>8. Append(f, y)[n + 1] = y
  <2> HIDE DEF f, y, n
  <2> QED BY <1>1, <1>3, AppendProperties
<1>9. g \in Seq(Seq(Nat)) /\ Len(g) = n + 1
  <2>1. \A i \in 1..(n + 1) : g[i] \in Seq(Nat)
    <3> TAKE i \in 1..(n + 1)
    <3>1. i = n + 1 \/ i \in 1..n
      BY <1>1
    <3> HIDE DEF g, f, y, n
    <3> QED BY <1>1, <1>2, <1>6, <3>1
  <2>2. g = [i \in 1..(n + 1) |-> g[i]]
    BY <1>5
  <2>3. n + 1 \in Nat
    BY <1>1
  <2> HIDE DEF g, n
  <2>4. g \in [1..(n + 1) -> Seq(Nat)]
    BY <2>1, <2>2
  <2> QED BY <2>3, <2>4, FunctionSeq
<1>10. g = Append(f, y)
  <2> HIDE DEF g, f, y, n
  <2>1. \A i \in 1..Len(g) : g[i] = Append(f, y)[i]
    <3> TAKE i \in 1..Len(g)
    <3>1. i \in 1..(n + 1) /\ (i = n + 1 \/ (i \in 1..n /\ i # n + 1))
      BY <1>1, <1>9
    <3> QED BY <1>6, <1>7, <1>8, <3>1
  <2> QED BY <1>7, <1>9, <2>1, SeqEqual
<1>11. FlattenSeq(f) \in Seq(Nat) /\ FlattenSeq(Append(f, y)) = FlattenSeq(f) \o y
  <2> HIDE DEF f, y
  <2> QED BY <1>1, <1>3, FlattenAppend
<1>12. AudioIn(s) = FlattenSeq(f) /\ AudioIn(t) = FlattenSeq(g)
  BY DEF AudioIn
<1> QED BY <1>10, <1>11, <1>12

\* No records, no audio.
LEMMA AudioNone == AudioIn(<<>>) = <<>>
<1>1. Len(<<>>) = 0
  BY EmptySeq
<1> DEFINE f == [i \in 1..0 |-> IF <<>>[i].kind = "Audio" THEN <<>>[i].arg ELSE <<>>]
<1>2. f = <<>>
  <2>1. f \in [1..0 -> Nat] /\ 0 \in Nat
    OBVIOUS
  <2> HIDE DEF f
  <2>2. f \in Seq(Nat) /\ Len(f) = 0
    BY <2>1, FunctionSeq
  <2> QED BY <2>2, EmptySeq
<1>3. AudioIn(<<>>) = FlattenSeq(f)
  BY <1>1 DEF AudioIn
<1>4. FlattenSeq(<<>>) = <<>>
  BY <1>1 DEF FlattenSeq
<1> QED BY <1>2, <1>3, <1>4

\* The offsets of records are numbers.
OffsetsNat == \A i \in 1..Len(events) : events[i].offset \in Nat

\* They are positions in the stream.
LEMMA InvOffsetsNat == StreamInv => OffsetsNat
<1> SUFFICES ASSUME StreamInv PROVE OffsetsNat
  OBVIOUS
<1>1. wire \in Seq(Messages) /\ consumed \in Nat
  BY DEF StreamInv, StreamTypes
<1>2. CASE events = <<>>
  <2>1. Len(<<>>) = 0 /\ 1..0 = {}
    BY EmptySeq
  <2> QED BY <1>2, <2>1 DEF OffsetsNat
<1>3. ASSUME NEW k \in 0..Len(wire)
      PROVE  \A i \in 1..(k + 1) : Story(k)[i].offset \in Nat
  <2>1. End(wire, k) \in Nat
    BY <1>1, EndSteps
  <2>2. End(wire, k) <= End(wire, k)
    BY <2>1
  <2> DEFINE w == End(wire, k)
  <2>3. w \in Nat /\ End(wire, k) <= w
    BY <2>1, <2>2
  <2> HIDE DEF w
  <2> QED BY <1>1, <2>3, StoryOrdered
<1>4. ASSUME NEW k \in 0..Len(wire), events = Story(k)
      PROVE  OffsetsNat
  <2>1. Len(Story(k)) = k + 1
    BY <1>1, StoryIs
  <2> QED BY <1>3, <1>4, <2>1 DEF OffsetsNat
<1>5. ASSUME NEW k \in 0..Len(wire), EndedAfter(k)
      PROVE  OffsetsNat
  <2> DEFINE x == IF cut = "none" THEN Ending(k)
                  ELSE Event("Ended", consumed, Who(k), Reason(cut, <<>>))
             S == Told(x)
  <2>1. events = Append(Story(k), x) /\ x.offset = consumed
    BY <1>5 DEF EndedAfter, Event
  <2>2. Story(k) \in Seq(S) /\ x \in S /\ Len(Story(k)) = k + 1
    BY <1>1, StoryIs
  <2>3. k \in Nat
    BY <1>1, EndSteps
  <2> HIDE DEF x, S
  <2>4. /\ Len(events) = (k + 1) + 1 /\ events[(k + 1) + 1] = x
        /\ \A i \in 1..(k + 1) : events[i] = Story(k)[i]
    BY <2>1, <2>2, AppendProperties
  <2>5. \A i \in 1..Len(events) : i \in 1..(k + 1) \/ i = (k + 1) + 1
    BY <2>3, <2>4
  <2> QED BY <1>1, <1>3, <2>1, <2>4, <2>5 DEF OffsetsNat
<1> QED BY <1>2, <1>4, <1>5, InvAfter

\* A record is placed after the one before it and within the bytes handed off.
LEMMA NextOffset ==
    ASSUME StreamInv, StreamInv', NEW x, events' = Append(events, x), wired' = wired
    PROVE  /\ x.offset \in Nat /\ x.offset <= wired /\ wired \in Nat
           /\ events # <<>> => Last(events).offset \in Nat /\ Last(events).offset <= x.offset
           /\ events' # events /\ Last(events') = x /\ events' # <<>>
<1>1. OffsetsBacked' /\ OffsetsNat' /\ OffsetsNat
  <2>1. StreamInv' => OffsetsBacked'
    BY InvOffsets, PTL
  <2>2. StreamInv' => OffsetsNat'
    BY InvOffsetsNat, PTL
  <2> QED BY <2>1, <2>2, InvOffsetsNat
<1>2. PICK S : events \in Seq(S)
  BY EventsSeq
<1> DEFINE T == S \cup {x}
           n == Len(events)
<1>3. events \in Seq(T) /\ x \in T /\ n \in Nat
  BY <1>2, SeqMonotonic, LenProperties
<1>4. /\ Len(events') = n + 1 /\ events'[n + 1] = x /\ \A i \in 1..n : events'[i] = events[i]
      /\ events' # <<>>
  BY <1>3, AppendProperties
<1>5. n + 1 \in 1..(n + 1) /\ n # n + 1
  BY <1>3
<1>6. x.offset \in Nat /\ x.offset <= wired
  BY <1>1, <1>4, <1>5 DEF OffsetsBacked, OffsetsNat
<1>7. ASSUME events # <<>>
      PROVE  Last(events).offset \in Nat /\ Last(events).offset <= x.offset
  <2>1. n \in 1..n /\ n \in 1..(n + 1)
    <3>1. n \in Nat \ {0}
      BY <1>2, <1>7, EmptySeq
    <3> QED BY <3>1
  <2>2. events'[n].offset <= events'[n + 1].offset /\ events[n].offset \in Nat
    BY <1>1, <1>4, <1>5, <2>1 DEF OffsetsBacked, OffsetsNat
  <2> QED BY <1>4, <2>1, <2>2 DEF Last
<1>8. wired \in Nat
  <2>1. StreamTypes /\ wired = read
    BY DEF StreamInv, StreamTypes
  <2> QED BY <2>1, TypeFacts
<1> QED BY <1>4, <1>5, <1>6, <1>7, <1>8 DEF Last

\* The units of a recording: the regions of a header, and bytes.
Units == Nat \cup {"RIFF", "fmt"}

\* The header of an empty WAVE file is four units.
LEMMA HeaderUnits == Rec!WaveHeader(0) \in Seq(Units) /\ Len(Rec!WaveHeader(0)) = 4
<1>1. Rec!WaveHeader(0) = <<"RIFF", 36, "fmt", 0>>
  BY DEF Rec!WaveHeader, Rec!RiffOverhead
<1> DEFINE x == "RIFF"
           y == 36
           z == "fmt"
<1>2. x \in Units /\ y \in Units /\ z \in Units /\ 0 \in Units
  BY DEF Units
<1> HIDE DEF x, y, z
<1>3. <<x, y, z, 0>> \in Seq(Units) /\ Len(<<x, y, z, 0>>) = 4
  BY <1>2
<1> QED BY <1>1, <1>3 DEF x, y, z

\* A writer that does not fail takes everything.
LEMMA WholeWrite ==
    ASSUME NEW c, NEW b, NEW p \in Rec!WriteCount(c, b), p.ok
    PROVE  p.n = Len(b)
<1>1. p # [n |-> 0, ok |-> FALSE]
  OBVIOUS
<1>2. PICK n \in 0..Len(b) : p = [n |-> n, ok |-> n = Len(b)]
  BY <1>1, Zenon DEF Rec!WriteCount
<1>3. p.n = n
  BY <1>2
<1>4. p.ok <=> n = Len(b)
  BY <1>2, Zenon
<1> QED BY <1>3, <1>4

\* A record that is in order is taken whole: its bytes follow those that were
\* there, and the summary counts them.
LEMMA Takes ==
    ASSUME NEW r, NEW w \in Nat, NEW a \in Seq(Nat), NEW end, recPc = "open",
           out = [wire |-> Bytes(0, w), wave |-> Rec!WaveHeader(0) \o a, log |-> <<>>],
           summary = [wire |-> w, audio |-> Len(a), events |-> 0, header |-> 4, patch |-> 0,
                      end |-> end],
           at = 4 + Len(a), Rec!Violation(r) = "Ok", r.bytes \in Seq(Nat),
           r.kind = "Wire" => r.bytes = Bytes(w, Len(r.bytes)),
           Rec!Reject(r) \/ Rec!Accept(r)
    PROVE  LET w1 == IF r.kind = "Wire" THEN w + Len(r.bytes) ELSE w
               a1 == IF r.kind = "Audio" THEN a \o r.bytes ELSE a
           IN  /\ recPc' = "open" /\ at' = 4 + Len(a1)
               /\ out' = [wire |-> Bytes(0, w1), wave |-> Rec!WaveHeader(0) \o a1, log |-> <<>>]
               /\ summary' = [wire |-> w1, audio |-> Len(a1), events |-> 0, header |-> 4,
                              patch |-> 0, end |-> IF r.kind = "Ended" THEN r.arg ELSE end]
               /\ last' = IF r.kind = "Wire" THEN last ELSE r.offset
               /\ recState' = Rec!NextState(r)
               /\ recUuid' = IF r.kind = "Started" THEN r.uuid ELSE recUuid
<1> DEFINE b == r.bytes
           l == Len(b)
           H == Rec!WaveHeader(0)
           w1 == IF r.kind = "Wire" THEN w + l ELSE w
           a1 == IF r.kind = "Audio" THEN a \o b ELSE a
           end1 == IF r.kind = "Ended" THEN r.arg ELSE summary.end
<1>1. Rec!Accept(r)
  BY DEF Rec!Reject
<1>2. PICK p \in Rec!WritePayload(r), q \in Rec!WriteLine(r) :
         p.ok /\ q.ok /\ Rec!Preserve(r, p.n, q.n, end1)
  BY <1>1 DEF Rec!Accept
<1>3. p.n = l
  <2>1. \E c : Rec!WritePayload(r) = Rec!WriteCount(c, b)
    BY DEF Rec!WritePayload
  <2> QED BY <1>2, <2>1, WholeWrite
<1>4. q.n = 0
  <2>1. Len(<<>>) = 0
    BY EmptySeq
  <2>2. q.n = Len(<<>>)
    BY <1>2 DEF Rec!WriteLine, Rec!WriteCount, NoLine
  <2> QED BY <2>1, <2>2
<1>5. /\ recPc' = "open" /\ last' = (IF r.kind = "Wire" THEN last ELSE r.offset)
      /\ recState' = Rec!NextState(r)
      /\ recUuid' = IF r.kind = "Started" THEN r.uuid ELSE recUuid
  BY <1>1 DEF Rec!Accept
<1>6. Rec!Preserve(r, l, 0, end1)
  BY <1>2, <1>3, <1>4
<1>7. b \in Seq(Nat) /\ l \in Nat /\ Rec!Prefix(b, l) = b /\ Len(a) \in Nat /\ 0 \in Nat
  BY LenProperties, SubSeqFull DEF Rec!Prefix
<1>8. Rec!Prefix(<<>>, 0) = <<>> /\ <<>> \o <<>> = <<>>
  <2>1. <<>> \in Seq(Nat) /\ 1 \in Int /\ 0 \in Int /\ 0 < 1
    BY EmptySeq
  <2> QED BY <2>1, SubSeqEmpty, ConcatEmptySeq DEF Rec!Prefix
<1>9. Bytes(0, w) \o Bytes(w, l) = Bytes(0, w + l)
  <2>1. 0 \in Nat /\ l \in Nat /\ 0 + w = w
    BY <1>7
  <2> HIDE DEF l
  <2>2. Bytes(0, w) \o Bytes(0 + w, l) = Bytes(0, w + l)
    BY <2>1, BytesRun
  <2> QED BY <2>1, <2>2
<1>10. Rec!Overwrite(H \o a, 4 + Len(a), b) = H \o (a \o b)
  <2>1. H \in Seq(Units) /\ Len(H) = 4 /\ a \in Seq(Units) /\ b \in Seq(Units)
    BY HeaderUnits, SeqMonotonic DEF Units
  <2> DEFINE f == H \o a
             n == 4 + Len(a)
  <2> HIDE DEF H, b, l
  <2>2. f \in Seq(Units) /\ Len(f) = n /\ n \in Nat
    <3>1. f \in Seq(Units) /\ Len(f) = Len(H) + Len(a)
      BY <2>1, ConcatProperties
    <3> QED BY <1>7, <2>1, <3>1
  <2>3. f \o b = H \o (a \o b) /\ f \o b \in Seq(Units)
    BY <2>1, <2>2, ConcatAssociative, ConcatProperties
  <2> HIDE DEF f, n
  <2>4. Rec!Prefix(f, n) = f
    BY <2>2, SubSeqFull DEF Rec!Prefix
  <2>5. SubSeq(f, n + Len(b) + 1, Len(f)) = <<>>
    <3>1. n + Len(b) + 1 \in Int /\ Len(f) \in Int /\ Len(f) < n + Len(b) + 1
      BY <1>7, <2>2 DEF l
    <3> QED BY <3>1, SubSeqEmpty
  <2>6. (f \o b) \o <<>> = f \o b
    BY <2>3, ConcatEmptySeq
  <2>7. Rec!Overwrite(f, n, b) = f \o b
    BY <2>4, <2>5, <2>6 DEF Rec!Overwrite
  <2> QED BY <2>3, <2>7 DEF f, n
<1>11. Len(a \o b) = Len(a) + l /\ 4 + Len(a) + l = 4 + (Len(a) + l)
  <2> HIDE DEF b
  <2>1. Len(a \o b) = Len(a) + l
    BY <1>7, ConcatProperties
  <2> HIDE DEF l
  <2> QED BY <1>7, <2>1
<1> HIDE DEF H, b, l
<1>12. out' = [wire |-> IF r.kind = "Wire" THEN out.wire \o b ELSE out.wire,
               wave |-> IF r.kind = "Audio" THEN Rec!Overwrite(out.wave, at, b) ELSE out.wave,
               log |-> out.log \o <<>>]
  BY <1>6, <1>7, <1>8 DEF Rec!Preserve, NoLine, b
<1>13. at' = IF r.kind = "Audio" THEN at + l ELSE at
  BY <1>6 DEF Rec!Preserve
<1>14. summary' = [summary EXCEPT !.wire = @ + Rec!Counted(r, "Wire", l),
                                  !.audio = @ + Rec!Counted(r, "Audio", l),
                                  !.events = @ + 0, !.end = end1]
  BY <1>6 DEF Rec!Preserve
<1>15. out.wire = Bytes(0, w) /\ out.wave = H \o a /\ out.log = <<>>
  BY DEF H
<1>16. r.kind = "Wire" => b = Bytes(w, l)
  BY DEF b, l
<1>17. out' = [wire |-> Bytes(0, w1), wave |-> H \o a1, log |-> <<>>]
  <2>1. (IF r.kind = "Wire" THEN out.wire \o b ELSE out.wire) = Bytes(0, w1)
    BY <1>9, <1>15, <1>16
  <2>2. (IF r.kind = "Audio" THEN Rec!Overwrite(out.wave, at, b) ELSE out.wave) = H \o a1
    BY <1>10, <1>15
  <2>3. out.log \o <<>> = <<>>
    BY <1>8, <1>15
  <2> QED BY <1>12, <2>1, <2>2, <2>3
<1>18. at' = 4 + Len(a1)
  BY <1>11, <1>13
<1>19. summary' = [wire |-> w1, audio |-> Len(a1), events |-> 0, header |-> 4, patch |-> 0,
                   end |-> IF r.kind = "Ended" THEN r.arg ELSE end]
  <2>1. w + Rec!Counted(r, "Wire", l) = w1
    BY <1>7 DEF Rec!Counted
  <2>2. Len(a) + Rec!Counted(r, "Audio", l) = Len(a1)
    BY <1>7, <1>11 DEF Rec!Counted
  <2>3. end1 = (IF r.kind = "Ended" THEN r.arg ELSE end) /\ 0 + 0 = 0
    OBVIOUS
  <2> HIDE DEF w1, a1, end1
  <2> QED BY <1>14, <2>1, <2>2, <2>3
<1> QED BY <1>5, <1>17, <1>18, <1>19 DEF H, b, l

\* A record in its place is refused only when the PCM outgrows a WAVE file.
LEMMA Orderly ==
    ASSUME NEW r, recState \notin {"Failed", "Ended"}, r.connection = "connection",
           recState = "AwaitingConnection" => r.kind = "Connected",
           ~Rec!Misplaced(r), ~Rec!Disordered(r), ~Rec!Unnamed(r),
           r.kind = "Audio" => r.arg = SampleRate /\ Len(r.bytes) % 2 = 0
    PROVE  Rec!Violation(r) =
              IF r.kind = "Audio" /\ ~Rec!WaveFits(summary.audio + Len(r.bytes))
              THEN "WaveSize" ELSE "Ok"
<1>1. r.kind = "Audio" => ~(r.arg # SampleRate \/ Len(r.bytes) % Rec!SampleBytes # 0)
  BY DEF Rec!SampleBytes
<1> QED BY <1>1 DEF Rec!Violation

\* The record of an event.
LEMMA EventRecordIs ==
    ASSUME NEW x
    PROVE  LET r == EventRecord(x) IN
           /\ r.connection = "connection" /\ r.offset = x.offset /\ r.kind = x.kind
           /\ r.uuid = x.uuid
           /\ x.kind = "Audio" => r.arg = SampleRate /\ r.bytes = x.arg
           /\ x.kind = "Ended" => r.arg = x.arg.kind
           /\ x.kind # "Audio" => r.bytes = <<>>
  BY DEF EventRecord

\* What a step adds to the audio.
LEMMA AudioMoves ==
    ASSUME StreamInv
    PROVE  /\ Audio \in Seq(Nat) /\ Len(Audio) \in Nat
           /\ events' = events => Audio' = Audio
           /\ \A x : /\ events' = Append(events, x)
                     /\ x.kind = "Audio" => x.arg \in Seq(Nat)
                     => Audio' = Audio \o (IF x.kind = "Audio" THEN x.arg ELSE <<>>)
<1>1. Audio = AudioIn(events) /\ Audio' = AudioIn(events')
  BY DEF Audio, AudioIn
<1>2. PICK S : events \in Seq(S)
  BY EventsSeq
<1>3. \A i \in 1..Len(events) : events[i].kind = "Audio" => events[i].arg \in Seq(Nat)
  BY EventsSeq
<1>4. Audio \in Seq(Nat)
  <2> DEFINE x == [kind |-> "Ended"]
  <2>1. ~(x.kind = "Audio")
    OBVIOUS
  <2> HIDE DEF x
  <2> QED BY <1>1, <1>2, <1>3, <2>1, AudioGrows
<1>5. ASSUME NEW x, events' = Append(events, x), x.kind = "Audio" => x.arg \in Seq(Nat)
      PROVE  Audio' = Audio \o (IF x.kind = "Audio" THEN x.arg ELSE <<>>)
  BY <1>1, <1>2, <1>3, <1>5, AudioGrows
<1> QED BY <1>1, <1>4, <1>5, LenProperties

\* A step without a record leaves the adapter alone; a failed one refuses.
LEMMA Unheard ==
    ASSUME Record, Sent = {}
    PROVE  UNCHANGED recVars
  BY DEF Record

\* One record is offered to the adapter.
LEMMA Heard ==
    ASSUME Record, NEW r, Sent = {r}
    PROVE  Rec!Reject(r) \/ Rec!Accept(r)
  BY DEF Record

\* A record that violates the rules makes the adapter fail.
LEMMA Refused ==
    ASSUME NEW r, Rec!Reject(r) \/ Rec!Accept(r), Rec!Violation(r) # "Ok"
    PROVE  recState' = "Failed" /\ recPc' = recPc
  BY DEF Rec!Accept, Rec!Reject, Rec!Fail

\* Once the adapter has failed it stays so, and its audio only grows.
LEMMA FailedStep ==
    ASSUME RecordInv, StreamInv', [Next]_vars, recPc = "open", recState = "Failed",
           Record \/ UNCHANGED recVars
    PROVE  RecordInv'
<1>1. StreamInv /\ ~Rec!WaveFits(Len(Audio))
  BY DEF RecordInv
<1>2. Audio \in Seq(Nat) /\ Len(Audio) \in Nat /\ U32Max \in Nat
  BY <1>1, AudioMoves, CounterLimits
<1>3. recState' = "Failed" /\ recPc' = "open"
  <2>1. CASE UNCHANGED recVars
    BY <2>1 DEF recVars
  <2>2. CASE Record /\ ~UNCHANGED recVars
    <3>1. PICK r \in Sent : Rec!Reject(r) \/ Rec!Accept(r)
      BY <2>2 DEF Record
    <3>2. Rec!Violation(r) = "AfterFailure"
      BY DEF Rec!Violation
    <3> QED BY <3>1, <3>2, Refused
  <2> QED BY <2>1, <2>2
<1>4. events' = events \/ \E x : events' = Append(events, x) /\ (x.kind = "Audio" => x.arg \in Seq(Nat))
  <2>1. CASE Quiet \/ Wires
    BY <2>1 DEF Quiet, Wires
  <2>2. CASE Greets
    <3> DEFINE x == Event("Connected", 0, NoUuid, "peer")
    <3>1. x.kind # "Audio"
      BY DEF Event
    <3> HIDE DEF x
    <3>2. <<x>> = Append(<<>>, x)
      OBVIOUS
    <3> QED BY <2>2, <3>1, <3>2 DEF Greets, x
  <2>3. ASSUME NEW kind, NEW arg, Tells(kind, arg)
        PROVE  \E x : events' = Append(events, x) /\ (x.kind = "Audio" => x.arg \in Seq(Nat))
    <3> DEFINE x == Event(kind, consumed, uuid', arg)
    <3>1. x.kind = kind /\ x.arg = arg
      BY DEF Event
    <3>2. events' = Append(events, x) /\ (x.kind = "Audio" => x.arg \in Seq(Nat))
      BY <2>3, <3>1 DEF Tells
    <3> QED BY <3>2
  <2>4. ASSUME NEW offset, NEW reason, Concludes(offset, reason)
        PROVE  \E x : events' = Append(events, x) /\ (x.kind = "Audio" => x.arg \in Seq(Nat))
    <3> DEFINE x == Event("Ended", offset, uuid, reason)
    <3>1. events' = Append(events, x) /\ x.kind # "Audio"
      BY <2>4 DEF Concludes, Event
    <3> QED BY <3>1
  <2> QED BY <1>1, <2>1, <2>2, <2>3, <2>4, Handoff
<1>5. Len(Audio') \in Nat /\ Len(Audio) <= Len(Audio')
  <2>1. CASE events' = events
    BY <1>1, <1>2, <2>1, AudioMoves
  <2>2. ASSUME NEW x, events' = Append(events, x), x.kind = "Audio" => x.arg \in Seq(Nat)
        PROVE  Len(Audio') \in Nat /\ Len(Audio) <= Len(Audio')
    <3> DEFINE y == IF x.kind = "Audio" THEN x.arg ELSE <<>>
    <3>1. Audio' = Audio \o y
      BY <1>1, <2>2, AudioMoves
    <3>2. y \in Seq(Nat)
      BY <2>2, EmptySeq
    <3> HIDE DEF y
    <3>3. Len(y) \in Nat /\ Len(Audio') = Len(Audio) + Len(y)
      BY <1>2, <3>1, <3>2, LenProperties, ConcatProperties
    <3> QED BY <1>2, <3>3
  <2> QED BY <1>4, <2>1, <2>2
<1>6. ~Rec!WaveFits(Len(Audio'))
  <2> DEFINE n == Len(Audio)
             m == Len(Audio')
  <2>1. n \in Nat /\ m \in Nat /\ n <= m /\ ~(n + 36 <= U32Max)
    BY <1>1, <1>2, <1>5 DEF Rec!WaveFits, Rec!RiffOverhead
  <2> HIDE DEF n, m
  <2>2. ~(m + 36 <= U32Max)
    BY <1>2, <2>1
  <2> QED BY <2>2 DEF Rec!WaveFits, Rec!RiffOverhead, m
<1>7. (~Rec!WaveFits(Len(Audio)))'
  BY <1>6 DEF Rec!WaveFits, Rec!RiffOverhead
<1> QED BY <1>3, <1>7 DEF RecordInv

\* Nothing is handed off.
LEMMA MirrorQuiet ==
    ASSUME StreamInv, Mirrored, Quiet, UNCHANGED recVars
    PROVE  Mirrored'
<1>1. /\ wired' = wired /\ events' = events /\ uuid' = uuid /\ session' = session
      /\ ((pc = "connect") <=> (pc' = "connect")) /\ ((pc = "done") <=> (pc' = "done"))
  BY DEF Quiet
<1>2. /\ recState' = recState /\ recUuid' = recUuid /\ last' = last /\ summary' = summary
      /\ out' = out /\ at' = at
  BY DEF recVars
<1>3. Audio' = Audio
  BY <1>1, AudioMoves
<1>4. Last(events)' = Last(events)
  BY <1>1 DEF Last
<1>5. (Rec!WaveHeader(0))' = Rec!WaveHeader(0)
  BY DEF Rec!WaveHeader, Rec!RiffOverhead
<1>6. Bytes(0, wired)' = Bytes(0, wired)
  BY <1>1 DEF Bytes
<1> QED BY <1>1, <1>2, <1>3, <1>4, <1>5, <1>6 DEF Mirrored

\* A mirror that took what its adapter was given.
LEMMA MirrorNext ==
    ASSUME /\ out' = [wire |-> Bytes(0, wired'), wave |-> Rec!WaveHeader(0) \o Audio', log |-> <<>>]
           /\ summary' = [wire |-> wired', audio |-> Len(Audio'), events |-> 0, header |-> 4,
                          patch |-> 0,
                          end |-> IF pc' = "done" THEN Last(events').arg.kind ELSE "Incomplete"]
           /\ at' = 4 + Len(Audio')
           /\ last' = (IF events' = <<>> THEN 0 ELSE Last(events').offset)
           /\ recState' = (IF pc' = "connect" THEN "AwaitingConnection"
                           ELSE IF pc' = "done" THEN "Ended" ELSE session')
           /\ pc' # "done" => recUuid' = uuid'
    PROVE  Mirrored'
<1>1. (Rec!WaveHeader(0))' = Rec!WaveHeader(0)
  BY DEF Rec!WaveHeader, Rec!RiffOverhead
<1>2. Bytes(0, wired)' = Bytes(0, wired')
  BY DEF Bytes
<1>3. Last(events)' = Last(events')
  BY DEF Last
<1> QED BY <1>1, <1>2, <1>3 DEF Mirrored

\* The bytes of a read.
LEMMA MirrorWires ==
    ASSUME StreamInv, Mirrored, recPc = "open", Wires, Record
    PROVE  Mirrored' /\ recPc' = "open" /\ recState' # "Failed"
<1> DEFINE r == WireRecord
<1>1. PICK n \in Nat \ {0} : wired' = wired + n
  BY DEF Wires
<1>2. /\ pc = "read" /\ pc' = "decode" /\ events' = events /\ uuid' = uuid /\ session' = session
  BY DEF Wires
<1>3. wired \in Nat
  <2>1. StreamTypes /\ wired = read
    BY DEF StreamInv, StreamTypes
  <2> QED BY <2>1, TypeFacts
<1>4. wired' # wired /\ wired' - wired = n
  BY <1>1, <1>3
<1>5. Sent = {r}
  BY <1>4 DEF Sent
<1>6. /\ r.connection = "connection" /\ r.offset = wired /\ r.kind = "Wire"
      /\ r.bytes = Bytes(wired, n)
  BY <1>4 DEF WireRecord
<1> HIDE DEF r
<1>7. r.bytes \in Seq(Nat) /\ Len(r.bytes) = n
  BY <1>3, <1>6, BytesRun
<1>8. Rec!Reject(r) \/ Rec!Accept(r)
  BY <1>5, Heard
<1>9. session \in {"AwaitingUuid", "Active"}
  BY <1>2, SessionKnown
<1>10. recState = session /\ recUuid = uuid
  BY <1>2 DEF Mirrored
<1>11. Rec!Violation(r) = "Ok"
  <2>1. ~Rec!Misplaced(r)
    BY <1>6 DEF Rec!Misplaced, Mirrored
  <2>2. ~Rec!Disordered(r) /\ ~Rec!Unnamed(r)
    BY <1>6 DEF Rec!Disordered, Rec!Unnamed
  <2> QED BY <1>6, <1>9, <1>10, <2>1, <2>2, Orderly
<1> DEFINE end == IF pc = "done" THEN Last(events).arg.kind ELSE "Incomplete"
           a == Audio
<1>12. a \in Seq(Nat) /\ Audio' = a
  BY <1>2, AudioMoves
<1>13. /\ out = [wire |-> Bytes(0, wired), wave |-> Rec!WaveHeader(0) \o a, log |-> <<>>]
       /\ summary = [wire |-> wired, audio |-> Len(a), events |-> 0, header |-> 4, patch |-> 0,
                     end |-> end]
       /\ at = 4 + Len(a) /\ last = IF events = <<>> THEN 0 ELSE Last(events).offset
  BY DEF Mirrored
<1>14. end = "Incomplete"
  BY <1>2
<1> HIDE DEF a, end
<1>15. /\ recPc' = "open" /\ at' = 4 + Len(a)
       /\ out' = [wire |-> Bytes(0, wired + n), wave |-> Rec!WaveHeader(0) \o a, log |-> <<>>]
       /\ summary' = [wire |-> wired + n, audio |-> Len(a), events |-> 0, header |-> 4,
                      patch |-> 0, end |-> end]
       /\ last' = last /\ recState' = Rec!NextState(r) /\ recUuid' = recUuid
  BY <1>3, <1>6, <1>7, <1>8, <1>11, <1>12, <1>13, Takes
<1>16. recState' = session
  BY <1>6, <1>10, <1>15 DEF Rec!NextState
<1>17. Mirrored'
  BY <1>1, <1>2, <1>10, <1>12, <1>13, <1>14, <1>15, <1>16, MirrorNext
<1> QED BY <1>9, <1>15, <1>16, <1>17

\* Any other record, x: it is recorded, or refused because it does not fit.
LEMMA MirrorEvent ==
    ASSUME StreamInv, StreamInv', Mirrored, recPc = "open", Record, NEW x,
           events' = Append(events, x), wired' = wired, pc # "done", pc' # "connect",
           x.kind \in {"Connected", "Started", "Audio", "Dtmf", "Ended"},
           x.kind = "Connected" <=> pc = "connect",
           x.kind = "Started" => session = "AwaitingUuid",
           x.kind \in {"Audio", "Dtmf"} => session = "Active",
           x.kind \in {"Audio", "Dtmf", "Ended"} => x.uuid = uuid,
           x.kind = "Audio" => x.arg \in Seq(Nat) /\ Len(x.arg) % 2 = 0,
           pc' = "done" <=> x.kind = "Ended",
           pc = "connect" => events = <<>>,
           x.kind = "Connected" => session' = "AwaitingUuid" /\ uuid' = uuid,
           x.kind \in {"Started", "Audio", "Dtmf"} => session' = "Active",
           x.kind = "Started" => uuid' = x.uuid,
           x.kind \in {"Audio", "Dtmf"} => uuid' = uuid
    PROVE  /\ recPc' = "open"
           /\ IF recState' = "Failed" THEN ~Rec!WaveFits(Len(Audio')) ELSE Mirrored'
<1> DEFINE r == EventRecord(x)
<1>1. /\ x.offset \in Nat /\ x.offset <= wired /\ wired \in Nat
      /\ events # <<>> => Last(events).offset \in Nat /\ Last(events).offset <= x.offset
      /\ events' # events /\ Last(events') = x /\ events' # <<>>
  BY NextOffset
<1>2. Sent = {r}
  BY <1>1 DEF Sent
<1>3. /\ r.connection = "connection" /\ r.offset = x.offset /\ r.kind = x.kind
      /\ r.uuid = x.uuid
      /\ x.kind = "Audio" => r.arg = SampleRate /\ r.bytes = x.arg
      /\ x.kind = "Ended" => r.arg = x.arg.kind
      /\ x.kind # "Audio" => r.bytes = <<>>
  BY EventRecordIs
<1> HIDE DEF r
<1>4. Rec!Reject(r) \/ Rec!Accept(r)
  BY <1>2, Heard
<1>5. r.bytes \in Seq(Nat)
  BY <1>3, EmptySeq
<1>6. pc # "connect" => session \in {"AwaitingUuid", "Active"}
  BY SessionKnown DEF StreamInv, StreamTypes
<1>7. /\ recState = (IF pc = "connect" THEN "AwaitingConnection" ELSE session) /\ recUuid = uuid
      /\ last = (IF events = <<>> THEN 0 ELSE Last(events).offset) /\ summary.wire = wired
  BY DEF Mirrored
<1>8. ~Rec!Misplaced(r)
  <2>1. r.kind # "Wire"
    BY <1>3
  <2>2. ~(x.offset < last) /\ ~(x.offset > wired)
    BY <1>1, <1>7
  <2> QED BY <1>3, <1>7, <2>1, <2>2 DEF Rec!Misplaced
<1>9. ~Rec!Disordered(r) /\ ~Rec!Unnamed(r)
  BY <1>3, <1>7 DEF Rec!Disordered, Rec!Unnamed
<1> DEFINE end == IF pc = "done" THEN Last(events).arg.kind ELSE "Incomplete"
           a == Audio
           a1 == IF r.kind = "Audio" THEN a \o r.bytes ELSE a
<1>10. a \in Seq(Nat) /\ Len(a) \in Nat
  BY AudioMoves
<1>11. Audio' = a1
  <2>1. Audio' = Audio \o (IF x.kind = "Audio" THEN x.arg ELSE <<>>)
    BY AudioMoves
  <2>2. Audio \o <<>> = Audio
    BY <1>10, ConcatEmptySeq
  <2> QED BY <1>3, <2>1, <2>2
<1>12. /\ out = [wire |-> Bytes(0, wired), wave |-> Rec!WaveHeader(0) \o a, log |-> <<>>]
       /\ summary = [wire |-> wired, audio |-> Len(a), events |-> 0, header |-> 4, patch |-> 0,
                     end |-> end]
       /\ at = 4 + Len(a)
  BY DEF Mirrored
<1>13. end = "Incomplete"
  OBVIOUS
<1> HIDE DEF a, end
<1>14. Rec!Violation(r) = IF r.kind = "Audio" /\ ~Rec!WaveFits(summary.audio + Len(r.bytes))
                          THEN "WaveSize" ELSE "Ok"
  <2>1. recState \notin {"Failed", "Ended"} /\ (recState = "AwaitingConnection" => r.kind = "Connected")
    BY <1>3, <1>6, <1>7
  <2>2. r.kind = "Audio" => r.arg = SampleRate /\ Len(r.bytes) % 2 = 0
    BY <1>3
  <2> QED BY <1>3, <1>8, <1>9, <2>1, <2>2, Orderly
<1>15. CASE Rec!Violation(r) # "Ok"
  <2>1. recState' = "Failed" /\ recPc' = "open"
    BY <1>4, <1>15, Refused
  <2>2. r.kind = "Audio" /\ ~Rec!WaveFits(Len(a) + Len(r.bytes))
    BY <1>12, <1>14, <1>15
  <2>3. Len(a1) = Len(a) + Len(r.bytes)
    BY <1>5, <1>10, <2>2, ConcatProperties
  <2> QED BY <1>11, <2>1, <2>2, <2>3
<1>16. CASE Rec!Violation(r) = "Ok"
  <2>1. r.kind # "Wire"
    BY <1>3
  <2>2. /\ recPc' = "open" /\ at' = 4 + Len(a1)
        /\ out' = [wire |-> Bytes(0, wired), wave |-> Rec!WaveHeader(0) \o a1, log |-> <<>>]
        /\ summary' = [wire |-> wired, audio |-> Len(a1), events |-> 0, header |-> 4,
                       patch |-> 0, end |-> IF r.kind = "Ended" THEN r.arg ELSE end]
        /\ last' = r.offset /\ recState' = Rec!NextState(r)
        /\ recUuid' = IF r.kind = "Started" THEN r.uuid ELSE recUuid
    <3> DEFINE w1 == IF r.kind = "Wire" THEN wired + Len(r.bytes) ELSE wired
    <3>1. /\ recPc' = "open" /\ at' = 4 + Len(a1)
          /\ out' = [wire |-> Bytes(0, w1), wave |-> Rec!WaveHeader(0) \o a1, log |-> <<>>]
          /\ summary' = [wire |-> w1, audio |-> Len(a1), events |-> 0, header |-> 4,
                         patch |-> 0, end |-> IF r.kind = "Ended" THEN r.arg ELSE end]
          /\ last' = (IF r.kind = "Wire" THEN last ELSE r.offset) /\ recState' = Rec!NextState(r)
          /\ recUuid' = IF r.kind = "Started" THEN r.uuid ELSE recUuid
      <4>1. wired \in Nat /\ (r.kind = "Wire" => r.bytes = Bytes(wired, Len(r.bytes)))
        BY <1>1, <2>1
      <4> QED BY <1>4, <1>5, <1>10, <1>12, <1>16, <4>1, Takes
    <3>2. w1 = wired
      BY <2>1
    <3> HIDE DEF w1, a1
    <3> QED BY <2>1, <3>1, <3>2
  <2>3. recState' = IF pc' = "done" THEN "Ended" ELSE session'
    <3>1. CASE x.kind = "Connected"
      BY <1>3, <2>2, <3>1 DEF Rec!NextState
    <3>2. CASE x.kind = "Started"
      BY <1>3, <2>2, <3>2 DEF Rec!NextState
    <3>3. CASE x.kind = "Ended"
      BY <1>3, <2>2, <3>3 DEF Rec!NextState
    <3>4. CASE x.kind \in {"Audio", "Dtmf"}
      BY <1>3, <1>7, <2>2, <3>4 DEF Rec!NextState
    <3> QED BY <3>1, <3>2, <3>3, <3>4
  <2>4. pc' # "done" => recUuid' = uuid'
    BY <1>3, <1>7, <2>2
  <2>5. (IF r.kind = "Ended" THEN r.arg ELSE end)
           = IF pc' = "done" THEN Last(events').arg.kind ELSE "Incomplete"
    BY <1>1, <1>3, <1>13
  <2>6. last' = IF events' = <<>> THEN 0 ELSE Last(events').offset
    BY <1>1, <1>3, <2>2
  <2> HIDE DEF a1
  <2>7. Mirrored'
    BY <1>11, <2>2, <2>3, <2>4, <2>5, <2>6, MirrorNext
  <2>8. recState' # "Failed"
    <3>1. pc' # "done" => session' # "Failed"
      OBVIOUS
    <3> QED BY <2>3, <3>1
  <2> QED BY <2>2, <2>7, <2>8
<1> QED BY <1>15, <1>16

\* A step of the connection with its adapter open.
LEMMA OpenStep ==
    ASSUME RecordInv, StreamInv', [Next]_vars, recPc = "open", Record
    PROVE  RecordInv'
<1>1. StreamInv
  BY DEF RecordInv
<1>2. CASE recState = "Failed"
  BY <1>2, FailedStep
<1>3. CASE recState # "Failed"
  <2>1. Mirrored
    BY <1>3 DEF RecordInv
  <2>2. SUFFICES /\ recPc' = "open"
                 /\ IF recState' = "Failed" THEN ~Rec!WaveFits(Len(Audio')) ELSE Mirrored'
    <3>1. Rec!WaveFits(Len(Audio))' <=> Rec!WaveFits(Len(Audio'))
      BY DEF Rec!WaveFits, Rec!RiffOverhead
    <3> QED BY <3>1, <2>2 DEF RecordInv
  <2>3. CASE Quiet
    <3>1. Sent = {}
      BY <2>3 DEF Sent, Quiet
    <3>2. UNCHANGED recVars
      BY <3>1, Unheard
    <3>3. Mirrored'
      BY <1>1, <2>1, <2>3, <3>2, MirrorQuiet
    <3> QED BY <1>3, <3>2, <3>3 DEF recVars
  <2>4. CASE Wires
    BY <1>1, <2>1, <2>4, MirrorWires
  <2>5. CASE Greets
    <3> DEFINE x == Event("Connected", 0, NoUuid, "peer")
    <3>1. x.kind = "Connected"
      BY DEF Event
    <3> HIDE DEF x
    <3>2. <<x>> = Append(<<>>, x)
      OBVIOUS
    <3>3. /\ pc = "connect" /\ pc' = "read" /\ wired' = wired /\ events = <<>> /\ uuid' = uuid
          /\ session' = "AwaitingUuid" /\ events' = Append(events, x)
      BY <2>5, <3>2 DEF Greets, x
    <3> QED BY <1>1, <2>1, <3>1, <3>3, MirrorEvent
  <2>6. ASSUME NEW kind, NEW arg, Tells(kind, arg)
        PROVE  /\ recPc' = "open"
               /\ IF recState' = "Failed" THEN ~Rec!WaveFits(Len(Audio')) ELSE Mirrored'
    <3> DEFINE x == Event(kind, consumed, uuid', arg)
    <3>1. x.kind = kind /\ x.arg = arg /\ x.uuid = uuid'
      BY DEF Event
    <3>2. events' = Append(events, x)
      BY <2>6 DEF Tells
    <3> HIDE DEF x
    <3>3. /\ pc = "frame" /\ pc' \in {"read", "decode"} /\ wired' = wired
          /\ kind \in {"Started", "Audio", "Dtmf"} /\ (kind = "Started" <=> session = "AwaitingUuid")
          /\ session' = "Active" /\ (kind # "Started" => uuid' = uuid)
          /\ (kind = "Audio" => arg \in Seq(Nat) /\ Len(arg) % 2 = 0)
      BY <2>6 DEF Tells
    <3>4. session \in {"AwaitingUuid", "Active"}
      BY <1>1, <3>3, SessionKnown
    <3>5. /\ x.kind \in {"Started", "Audio", "Dtmf"} /\ pc # "connect" /\ pc' # "done"
          /\ x.kind \in {"Audio", "Dtmf"} => session = "Active" /\ x.uuid = uuid /\ uuid' = uuid
          /\ x.kind = "Started" => session = "AwaitingUuid" /\ uuid' = x.uuid
          /\ x.kind = "Audio" => x.arg \in Seq(Nat) /\ Len(x.arg) % 2 = 0
      BY <3>1, <3>3, <3>4
    <3> QED BY <1>1, <2>1, <3>2, <3>3, <3>5, MirrorEvent
  <2>7. ASSUME NEW offset, NEW reason, Concludes(offset, reason)
        PROVE  /\ recPc' = "open"
               /\ IF recState' = "Failed" THEN ~Rec!WaveFits(Len(Audio')) ELSE Mirrored'
    <3> DEFINE x == Event("Ended", offset, uuid, reason)
    <3>1. x.kind = "Ended" /\ x.uuid = uuid
      BY DEF Event
    <3>2. events' = Append(events, x)
      BY <2>7 DEF Concludes
    <3> HIDE DEF x
    <3>3. pc \in {"read", "decode", "frame"} /\ pc' = "done" /\ wired' = wired
      BY <2>7 DEF Concludes
    <3> QED BY <1>1, <2>1, <3>1, <3>2, <3>3, MirrorEvent
  <2> QED BY <1>1, <2>3, <2>4, <2>5, <2>6, <2>7, Handoff
<1> QED BY <1>2, <1>3

\* The adapter is made, with a provisional header.
LEMMA OpenedStep ==
    ASSUME RecordInv, Open
    PROVE  RecordInv'
<1>1. StreamInv /\ recPc = "new" /\ pc = "connect" /\ Rec!Init /\ recPc' = "open" /\ UNCHANGED vars
  BY DEF RecordInv, Open
<1>2. StreamInv'
  BY <1>1, StutterStep
<1>3. /\ wired' = wired /\ events' = events /\ uuid' = uuid /\ session' = session /\ pc' = pc
  BY <1>1 DEF vars
<1>4. events = <<>> /\ uuid = NoUuid /\ wired = 0
  BY <1>1 DEF StreamInv, StreamTypes
<1> DEFINE H == Rec!WaveHeader(0)
<1>5. H \in Seq(Units) /\ Len(H) = 4
  BY HeaderUnits
<1>6. PICK w \in Rec!WriteCount(summary.header, H) :
         /\ out' = [out EXCEPT !.wave = Rec!Prefix(H, w.n)]
         /\ at' = w.n /\ summary' = [summary EXCEPT !.header = w.n]
         /\ w.ok /\ UNCHANGED <<recState, outcome>>
  BY <1>1 DEF Open, Rec!New
<1>7. recUuid' = recUuid /\ last' = last
  BY DEF Open, Rec!New
<1>8. w.n = 4 /\ Rec!Prefix(H, w.n) = H
  <2>1. w.n = Len(H)
    BY <1>6, WholeWrite
  <2>2. SubSeq(H, 1, Len(H)) = H
    BY <1>5, SubSeqFull
  <2> QED BY <1>5, <2>1, <2>2 DEF Rec!Prefix
<1> HIDE DEF H
<1>9. /\ recState = "AwaitingConnection" /\ recUuid = "none" /\ last = 0
      /\ summary = [wire |-> 0, audio |-> 0, events |-> 0, header |-> 0, patch |-> 0,
                    end |-> "Incomplete"]
      /\ out = [wire |-> <<>>, wave |-> <<>>, log |-> <<>>]
  BY <1>1 DEF Rec!Init, Rec!NoUuid
<1>10. Audio' = <<>>
  <2>1. Audio' = AudioIn(events')
    BY DEF Audio, AudioIn
  <2> QED BY <1>3, <1>4, <2>1, AudioNone
<1>11. Len(<<>>) = 0 /\ H \o <<>> = H /\ Bytes(0, 0) = <<>> /\ 4 + 0 = 4
  <2>1. 0 \in Nat
    OBVIOUS
  <2>2. Bytes(0, 0) = <<>>
    BY <2>1, BytesRun
  <2>3. H \o <<>> = H
    BY <1>5, ConcatEmptySeq
  <2> QED BY <2>2, <2>3, EmptySeq
<1>12. out' = [wire |-> Bytes(0, wired'), wave |-> H \o Audio', log |-> <<>>]
  BY <1>3, <1>4, <1>6, <1>8, <1>9, <1>10, <1>11
<1>13. summary' = [wire |-> wired', audio |-> Len(Audio'), events |-> 0, header |-> 4,
                   patch |-> 0, end |-> "Incomplete"]
  BY <1>3, <1>4, <1>6, <1>8, <1>9, <1>10, <1>11
<1>14. Mirrored'
  <2>1. at' = 4 + Len(Audio') /\ last' = 0 /\ recState' = "AwaitingConnection" /\ recUuid' = uuid'
    BY <1>3, <1>4, <1>6, <1>7, <1>8, <1>9, <1>10, <1>11 DEF NoUuid
  <2> QED BY <1>1, <1>3, <1>4, <1>12, <1>13, <2>1, MirrorNext DEF H
<1>15. recState' # "Failed"
  BY <1>6, <1>9
<1> QED BY <1>1, <1>2, <1>14, <1>15 DEF RecordInv

\* A step of the connection and its adapter is one of the connection, or none.
LEMMA RecordedMoves ==
    ASSUME RecordInv, RecordedNext
    PROVE  \/ Open
           \/ recPc = "open" /\ Next /\ Record
           \/ UNCHANGED <<vars, recVars>>
<1>1. pc # "connect" => recPc = "open"
  BY DEF RecordInv
<1>2. CASE ReadFails /\ Record
  BY <1>1, <1>2 DEF ReadFails, Next
<1>3. CASE ReadEof /\ Record
  BY <1>1, <1>3 DEF ReadEof, Next
<1>4. CASE Decode /\ Record
  BY <1>1, <1>4 DEF Decode, Next
<1>5. CASE Refuse /\ Record
  BY <1>1, <1>5 DEF Refuse, Next
<1>6. CASE Observe /\ Record
  BY <1>1, <1>6 DEF Observe, Next
<1>7. CASE PeerEnds /\ Record
  BY <1>1, <1>7 DEF PeerEnds, Next
<1>8. ASSUME NEW n \in 1..ReadBytes, Read(n), Record
      PROVE  recPc = "open" /\ Next /\ Record
  BY <1>1, <1>8 DEF Read, Next
<1>9. CASE recPc = "open" /\ Connect /\ Record
  BY <1>9 DEF Next
<1>10. CASE Terminated /\ UNCHANGED recVars
  BY <1>10 DEF Terminated
<1> QED BY <1>2, <1>3, <1>4, <1>5, <1>6, <1>7, <1>8, <1>9, <1>10 DEF RecordedNext

\* Every step of a recorded connection keeps the invariant.
LEMMA RecordedStep == RecordInv /\ [RecordedNext]_<<vars, recVars>> => RecordInv'
<1> SUFFICES ASSUME RecordInv, [RecordedNext]_<<vars, recVars>> PROVE RecordInv'
  OBVIOUS
<1>1. StreamInv
  BY DEF RecordInv
<1>2. CASE Open
  BY <1>2, OpenedStep
<1>3. CASE recPc = "open" /\ Next /\ Record
  <2>1. StreamInv'
    BY <1>1, <1>3, StreamStep
  <2> QED BY <1>3, <2>1, OpenStep
<1>4. CASE UNCHANGED <<vars, recVars>>
  <2>1. UNCHANGED vars /\ UNCHANGED recVars
    BY <1>4
  <2>2. StreamInv'
    BY <1>1, <2>1, StutterStep
  <2>3. Quiet
    BY <2>1 DEF vars, Quiet
  <2>4. recPc' = recPc /\ recState' = recState
    BY <2>1 DEF recVars
  <2>5. CASE recPc = "open" /\ recState = "Failed"
    BY <2>1, <2>2, <2>5, FailedStep
  <2>6. CASE recPc = "open" /\ recState # "Failed"
    <3>1. Mirrored'
      BY <1>1, <2>1, <2>3, <2>6, MirrorQuiet DEF RecordInv
    <3> QED BY <2>2, <2>4, <2>6, <3>1 DEF RecordInv
  <2>7. CASE recPc = "new"
    <3>1. pc' = pc
      BY <2>1 DEF vars
    <3>2. Rec!Init'
      BY <2>1, <2>7 DEF RecordInv, Rec!Init, recVars, Rec!NoUuid
    <3> QED BY <2>2, <2>4, <2>7, <3>1, <3>2 DEF RecordInv
  <2> QED BY <2>5, <2>6, <2>7 DEF RecordInv
<1> QED BY <1>2, <1>3, <1>4, RecordedMoves

\* Init.
LEMMA RecordedInitInv == RecordedInit => RecordInv
<1> SUFFICES ASSUME RecordedInit PROVE RecordInv
  OBVIOUS
<1>1. Init /\ Rec!Init /\ recPc = "new" /\ pc = "connect"
  BY DEF RecordedInit, Rec!Init, Init
<1> QED BY <1>1, InitInv DEF RecordInv

\* The invariant gives the files.
LEMMA InvFaithful == RecordInv => RecordedFaithfully
<1> SUFFICES ASSUME RecordInv PROVE RecordedFaithfully
  OBVIOUS
<1>1. CASE recPc = "new"
  <2>1. recState = "AwaitingConnection" /\ out.wire = <<>> /\ summary.end = "Incomplete"
    BY <1>1 DEF RecordInv, Rec!Init
  <2>2. pc = "connect" /\ wired = 0 /\ 0 \in Nat
    BY <1>1 DEF RecordInv, StreamInv, StreamTypes
  <2>3. Bytes(0, wired) = <<>>
    BY <2>2, BytesRun
  <2> QED BY <1>1, <2>1, <2>2, <2>3 DEF RecordedFaithfully
<1>2. CASE recPc = "open" /\ recState = "Failed"
  BY <1>2 DEF RecordInv, RecordedFaithfully
<1>3. CASE recPc = "open" /\ recState # "Failed"
  <2>1. Mirrored
    BY <1>3 DEF RecordInv
  <2>2. /\ out.wire = Bytes(0, wired) /\ out.wave = Rec!WaveHeader(0) \o Audio
        /\ summary.end = IF pc = "done" THEN Last(events).arg.kind ELSE "Incomplete"
    BY <2>1 DEF Mirrored
  <2> QED BY <1>3, <2>2 DEF RecordedFaithfully
<1> QED BY <1>1, <1>2, <1>3 DEF RecordInv

\* From socket to file: whatever a peer sends and however it arrives, the
\* adapter refuses nothing a connection hands off unless the PCM outgrows a WAVE
\* file, and the files hold the bytes read and the audio accepted.
THEOREM RecordingFaithful == RecordedSpec => []RecordedFaithfully
<1>1. RecordedInit => RecordInv
  BY RecordedInitInv
<1>2. RecordInv /\ [RecordedNext]_<<vars, recVars>> => RecordInv'
  BY RecordedStep
<1>3. RecordInv => RecordedFaithfully
  BY InvFaithful
<1> QED BY <1>1, <1>2, <1>3, PTL DEF RecordedSpec

-----------------------------------------------------------------------------
(* The strict decoder.                                                     *)

\* It objects to none of the first k messages; where it would object to one.
Clean(k) == \A j \in 1..k : Objection(wire[j]) = "none"
StrictDue(i) ==
    IF Objection(wire[i]) \in {"InvalidLength", "ResourceLimit"}
    THEN End(wire, i - 1) + HeaderBytes ELSE End(wire, i)

\* A decoder at byte c that has refused nothing, and one that has refused
\* within n bytes.
Going(d, c) ==
    \E k \in 0..Len(wire) :
        /\ Clean(k) /\ Placed(k, c, TRUE)
        /\ d = [framer |-> FramerAt(k, c), at |-> c, typed |-> SubSeq(wire, 1, k),
                refusal |-> "none"]
RefusedIn(d, k, n) ==
    /\ k < Len(wire) /\ Clean(k) /\ Objection(wire[k + 1]) # "none" /\ StrictDue(k + 1) <= n
    /\ d.typed = SubSeq(wire, 1, k) /\ d.refusal = Objection(wire[k + 1])
    /\ d.at = StrictDue(k + 1)
Stopped(d, n) == \E k \in 0..Len(wire) : RefusedIn(d, k, n)

Decoder == [framer |-> strict, at |-> taken, typed |-> typed, refusal |-> refusal]
StrictInv == StreamInv /\ ((taken = read /\ Going(Decoder, taken)) \/ Stopped(Decoder, read))

\* A frame that can be typed gives back the message that was encoded.
LEMMA MessageBack ==
    ASSUME wire \in Seq(Messages), NEW k \in 1..Len(wire), Typed(wire[k])
    PROVE  Message(FrameOf(k)) = wire[k] /\ Typed(Message(FrameOf(k)))
<1> DEFINE m == Message(FrameOf(k))
           w == wire[k]
           byte == ByteAt(FrameOf(k).header[1])
           arg == CASE Known(byte) = "Audio" -> RateNames[byte - 15]
                    [] Known(byte) \in {"Uuid", "Dtmf"} -> Value(FrameOf(k).body)
                    [] Known(byte) = "Unknown" -> byte
                    [] OTHER -> "none"
<1>1. m = [type |-> Known(byte), len |-> Len(FrameOf(k).body), arg |-> arg]
  BY DEF Message
<1>2. m.type = Known(byte) /\ m.arg = arg /\ m = [type |-> m.type, len |-> m.len, arg |-> m.arg]
  <2> HIDE DEF m, arg, byte
  <2> QED BY <1>1
<1>3. Known(byte) \in {"Terminate", "Error"} => arg = "none"
  <2> HIDE DEF byte
  <2> QED OBVIOUS
<1>4. m.type = w.type /\ m.len = w.len /\ w \in Messages
  BY MessageIs
<1>5. Typed(m) /\ (m.type \in {"Audio", "Unknown", "Uuid", "Dtmf"} => m.arg = w.arg)
  BY TypedIs
<1>6. w.type \in Types
  BY <1>4, StreamConstants
<1>7. w = [type |-> w.type, len |-> w.len, arg |-> w.arg]
      /\ (w.type \in {"Terminate", "Error"} => w.arg = "none")
  BY <1>4, StrictMessages
<1> HIDE DEF m, w, arg, byte
<1>8. m.arg = w.arg
  BY <1>2, <1>3, <1>4, <1>5, <1>6, <1>7 DEF Types
<1>9. m = w
  BY <1>2, <1>4, <1>7, <1>8
<1> QED BY <1>5, <1>9 DEF m, w

\* One message more: it is objected to, or it lengthens the clean prefix.
LEMMA CleanGrows ==
    ASSUME wire \in Seq(Messages), NEW k \in 0..Len(wire), k < Len(wire), Clean(k)
    PROVE  /\ Objection(wire[k + 1]) = "none" => Clean(k + 1)
           /\ SubSeq(wire, 1, k + 1) = Append(SubSeq(wire, 1, k), wire[k + 1])
<1>1. Len(wire) \in Nat /\ k \in Nat /\ k + 1 \in 1..Len(wire)
  BY Spans, EndSteps
<1>2. Objection(wire[k + 1]) = "none" => Clean(k + 1)
  <2>1. \A j \in 1..(k + 1) : j \in 1..k \/ j = k + 1
    BY <1>1
  <2> QED BY <2>1 DEF Clean
<1>3. SubSeq(wire, 1, k + 1) = Append(SubSeq(wire, 1, k), wire[k + 1])
  BY <1>1
<1> QED BY <1>2, <1>3

\* What a call on a decoder that has refused nothing does: it goes on past at
\* least one byte, or refuses the next message at its place.
LEMMA FeedOnce ==
    ASSUME wire \in Seq(Messages), NEW c \in Nat, NEW n \in Nat, c < n,
           n <= End(wire, Len(wire)), NEW d, Going(d, c)
    PROVE  \/ \E e \in (c + 1)..n : Going(StrictFeed(d, n), e)
           \/ Stopped(StrictFeed(d, n), n)
<1>1. PICK k \in 0..Len(wire) :
         /\ Clean(k) /\ Placed(k, c, TRUE)
         /\ d = [framer |-> FramerAt(k, c), at |-> c, typed |-> SubSeq(wire, 1, k),
                 refusal |-> "none"]
  BY DEF Going
<1> DEFINE fed == Feed(FramerAt(k, c), c, n - c, TRUE)
           m == wire[k + 1]
<1>2. d.framer = FramerAt(k, c) /\ d.at = c /\ d.typed = SubSeq(wire, 1, k) /\ d.refusal = "none"
      /\ Feed(d.framer, d.at, n - d.at, TRUE) = fed
  BY <1>1
<1>3. n - c \in Nat /\ c + (n - c) = n /\ n \in (c + 1)..n
  OBVIOUS
<1>4. \/ Placed(k, n, TRUE) /\ Wants(fed, k, n)
      \/ /\ k < Len(wire) /\ End(wire, k + 1) <= n /\ Yields(fed, k + 1)
         /\ Admitted(m, TRUE)
      \/ /\ k < Len(wire) /\ End(wire, k) + 3 <= n
         /\ \/ ~LengthOk(m.type, m.len) /\ Fails(fed, k + 1, "InvalidLength")
            \/ /\ LengthOk(m.type, m.len)
               /\ m.len > PayloadCapacity /\ Fails(fed, k + 1, "ResourceLimit")
  <2> DEFINE x == n - c
  <2>1. x \in Nat /\ c + x = n /\ TRUE \in BOOLEAN
    BY <1>3
  <2> HIDE DEF x
  <2>2. LET fd == Feed(FramerAt(k, c), c, x, TRUE)
        IN  \/ Placed(k, c + x, TRUE) /\ Wants(fd, k, c + x)
            \/ /\ k < Len(wire) /\ End(wire, k + 1) <= c + x /\ Yields(fd, k + 1)
               /\ Admitted(m, TRUE)
            \/ /\ k < Len(wire) /\ End(wire, k) + 3 <= c + x
               /\ \/ TRUE /\ ~LengthOk(m.type, m.len) /\ Fails(fd, k + 1, "InvalidLength")
                  \/ /\ TRUE => LengthOk(m.type, m.len)
                     /\ m.len > PayloadCapacity /\ Fails(fd, k + 1, "ResourceLimit")
    BY <1>1, <2>1, Fed
  <2> QED BY <2>1, <2>2 DEF x
<1> HIDE DEF fed
<1> DEFINE r == StrictFeed(d, n)
<1>5. CASE Placed(k, n, TRUE) /\ Wants(fed, k, n)
  <2>1. /\ fed.outcome = "NeedInput" /\ fed.framer = FramerAt(k, n) /\ fed.at = n
    BY <1>5 DEF Wants
  <2>2. r = [d EXCEPT !.framer = fed.framer, !.at = fed.at]
    BY <1>2, <2>1 DEF StrictFeed
  <2>3. r = [framer |-> FramerAt(k, n), at |-> n, typed |-> SubSeq(wire, 1, k), refusal |-> "none"]
    <3> HIDE DEF r
    <3> QED BY <1>1, <2>1, <2>2
  <2> HIDE DEF r
  <2>4. Going(r, n)
    BY <1>1, <1>5, <2>3 DEF Going
  <2> QED BY <1>3, <2>4 DEF r
<1>6. CASE /\ k < Len(wire) /\ End(wire, k + 1) <= n /\ Yields(fed, k + 1)
           /\ Admitted(m, TRUE)
  <2>1. /\ fed.outcome = "Frame" /\ fed.framer = NewFramer /\ fed.at = End(wire, k + 1)
        /\ fed.frame = FrameOf(k + 1)
    BY <1>6 DEF Yields
  <2>2. /\ k + 1 \in 1..Len(wire) /\ k + 1 \in 0..Len(wire) /\ End(wire, k) \in Nat
        /\ End(wire, k + 1) \in Nat /\ m.len \in Nat /\ End(wire, k + 1) = End(wire, k) + 3 + m.len
    BY <1>6, Spans
  <2>3. c < End(wire, k + 1)
    <3>1. End(wire, k) + 3 <= c => c < End(wire, k + 1)
      BY <1>1 DEF Placed
    <3> HIDE DEF m
    <3> QED BY <2>2, <3>1
  <2>4. CASE Typed(m)
    <3>1. Message(FrameOf(k + 1)) = m /\ Typed(Message(FrameOf(k + 1)))
      BY <2>2, <2>4, MessageBack
    <3>2. r = [d EXCEPT !.framer = fed.framer, !.at = fed.at, !.typed = Append(@, m)]
      <4>1. Typed(Message(fed.frame)) /\ Message(fed.frame) = m
        BY <2>1, <3>1
      <4> HIDE DEF m
      <4> QED BY <1>2, <2>1, <4>1 DEF StrictFeed
    <3>3. SubSeq(wire, 1, k + 1) = Append(SubSeq(wire, 1, k), m) /\ Clean(k + 1)
      <4>1. Objection(m) = "none"
        <5>1. LengthOk(m.type, m.len) /\ m.len <= PayloadCapacity
          BY <1>6 DEF Admitted
        <5>2. ~(m.len > PayloadCapacity)
          <6>1. PayloadCapacity \in Nat
            BY StreamConstants
          <6> HIDE DEF m
          <6> QED BY <2>2, <5>1, <6>1
        <5> HIDE DEF m
        <5> QED BY <2>4, <5>1, <5>2 DEF Objection
      <4> QED BY <1>1, <1>6, <4>1, CleanGrows
    <3>4. FramerAt(k + 1, End(wire, k + 1)) = NewFramer /\ Placed(k + 1, End(wire, k + 1), TRUE)
      BY <2>2, FramerBetween
    <3>5. r = [framer |-> FramerAt(k + 1, End(wire, k + 1)), at |-> End(wire, k + 1),
               typed |-> SubSeq(wire, 1, k + 1), refusal |-> "none"]
      <4> HIDE DEF r, m
      <4> QED BY <1>1, <2>1, <3>2, <3>3, <3>4
    <3> HIDE DEF r
    <3>6. Going(r, End(wire, k + 1))
      BY <2>2, <3>3, <3>4, <3>5 DEF Going
    <3>7. End(wire, k + 1) \in (c + 1)..n
      BY <1>6, <2>2, <2>3
    <3> QED BY <3>6, <3>7 DEF r
  <2>5. CASE ~Typed(m)
    <3>1. ~Typed(Message(fed.frame))
      BY <2>1, <2>2, <2>5, TypedIs
    <3>2. r = [d EXCEPT !.framer = [NewFramer EXCEPT !.at = "Failed"],
                        !.at = fed.at, !.refusal = "InvalidContent"]
      BY <1>2, <2>1, <3>1 DEF StrictFeed
    <3>3. /\ r.typed = SubSeq(wire, 1, k) /\ r.at = End(wire, k + 1)
          /\ r.refusal = "InvalidContent"
      <4> HIDE DEF r
      <4> QED BY <1>1, <2>1, <3>2
    <3>4. Objection(m) = "InvalidContent"
      <4>1. LengthOk(m.type, m.len) /\ m.len <= PayloadCapacity
        BY <1>6 DEF Admitted
      <4>2. ~(m.len > PayloadCapacity)
        <5>1. PayloadCapacity \in Nat
          BY StreamConstants
        <5> HIDE DEF m
        <5> QED BY <2>2, <4>1, <5>1
      <4> HIDE DEF m
      <4> QED BY <2>5, <4>1, <4>2 DEF Objection
    <3>5. StrictDue(k + 1) = End(wire, k + 1)
      BY <3>4 DEF StrictDue
    <3> HIDE DEF r
    <3>6. RefusedIn(r, k, n)
      BY <1>1, <1>6, <3>3, <3>4, <3>5 DEF RefusedIn
    <3> QED BY <3>6 DEF Stopped, r
  <2> QED BY <2>4, <2>5
<1>7. ASSUME NEW why \in {"InvalidLength", "ResourceLimit"}, k < Len(wire),
             End(wire, k) + 3 <= n, Objection(m) = why, Fails(fed, k + 1, why)
      PROVE  Stopped(r, n)
  <2>1. (k + 1) - 1 = k
    BY <1>7, Spans
  <2>2. fed.outcome = why /\ fed.at = End(wire, k) + 3
    BY <1>7, <2>1 DEF Fails
  <2>3. r = [d EXCEPT !.framer = fed.framer, !.at = fed.at, !.refusal = fed.outcome]
    BY <1>2, <2>2 DEF StrictFeed
  <2>4. r.typed = SubSeq(wire, 1, k) /\ r.at = End(wire, k) + 3 /\ r.refusal = why
    <3> HIDE DEF r
    <3> QED BY <1>1, <2>2, <2>3
  <2>5. StrictDue(k + 1) = End(wire, k) + 3
    BY <1>7, <2>1 DEF StrictDue, HeaderBytes
  <2> HIDE DEF r
  <2>6. RefusedIn(r, k, n)
    BY <1>1, <1>7, <2>4, <2>5 DEF RefusedIn
  <2> QED BY <2>6 DEF Stopped
<1>8. CASE /\ k < Len(wire) /\ End(wire, k) + 3 <= n
           /\ ~LengthOk(m.type, m.len) /\ Fails(fed, k + 1, "InvalidLength")
  <2>1. Objection(m) = "InvalidLength"
    BY <1>8 DEF Objection
  <2> HIDE DEF m, r
  <2> QED BY <1>7, <1>8, <2>1 DEF r
<1>9. CASE /\ k < Len(wire) /\ End(wire, k) + 3 <= n /\ LengthOk(m.type, m.len)
           /\ m.len > PayloadCapacity /\ Fails(fed, k + 1, "ResourceLimit")
  <2>1. Objection(m) = "ResourceLimit"
    BY <1>9 DEF Objection
  <2> HIDE DEF m, r
  <2> QED BY <1>7, <1>9, <2>1 DEF r
<1> QED BY <1>4, <1>5, <1>6, <1>8, <1>9

\* The equation of the caller's loop.
LoopRule(g, start, upto, k) == IF k = 0 THEN start ELSE Call(g[k - 1], upto)
Loops(g, start, upto, n) == g = [k \in 0..n |-> LoopRule(g, start, upto, k)]

\* The loop runs: its recursive function exists for any number of calls.
LEMMA LoopExists ==
    ASSUME NEW start, NEW upto, NEW n \in Nat
    PROVE  \E g : Loops(g, start, upto, n)
<1> DEFINE F(m) == \E g : g = [k \in 0..m |-> LoopRule(g, start, upto, k)]
           Bad == {m \in Nat : ~F(m)}
<1>1. F(0)
  <2> DEFINE g == [k \in 0..0 |-> start]
  <2>1. g = [k \in 0..0 |-> LoopRule(g, start, upto, k)]
    BY DEF LoopRule
  <2> QED BY <2>1
<1>2. ASSUME NEW m \in Nat, F(m)
      PROVE  F(m + 1)
  <2>1. PICK g : g = [k \in 0..m |-> LoopRule(g, start, upto, k)]
    BY <1>2
  <2> DEFINE h == [k \in 0..(m + 1) |-> LoopRule(g, start, upto, k)]
  <2>2. \A k \in 0..m : k \in 0..(m + 1) /\ h[k] = g[k]
    BY <2>1
  <2>3. \A k \in 0..(m + 1) : k = 0 \/ k - 1 \in 0..m
    OBVIOUS
  <2>4. \A k \in 0..(m + 1) : LoopRule(g, start, upto, k) = LoopRule(h, start, upto, k)
    <3> HIDE DEF h
    <3> QED BY <2>2, <2>3 DEF LoopRule
  <2>5. h = [k \in 0..(m + 1) |-> LoopRule(h, start, upto, k)]
    BY <2>4
  <2> QED BY <2>5
<1>3. Bad = {}
  <2> SUFFICES ASSUME Bad # {} PROVE FALSE
    OBVIOUS
  <2> HIDE DEF F
  <2>1. Bad \in SUBSET Nat
    OBVIOUS
  <2>2. PICK m \in Bad : \A j \in Bad : m <= j
    <3> HIDE DEF Bad
    <3> QED BY <2>1, LeastNatural
  <2>3. m \in Nat /\ ~F(m) /\ m # 0
    BY <1>1
  <2>4. m - 1 \in Nat /\ ~(m <= m - 1) /\ (m - 1) + 1 = m
    BY <2>3
  <2>5. F(m - 1)
    BY <2>2, <2>4
  <2> QED BY <1>2, <2>3, <2>4, <2>5
<1> QED BY <1>3 DEF Loops

\* Within n bytes, a decoder has stopped or goes on at byte c or behind it.
Along(d, c, n) == Stopped(d, n) \/ \E e \in c..n : Going(d, e)

\* Each call brings the decoder one byte further at least, or leaves it stopped.
LEMMA CallOnce ==
    ASSUME wire \in Seq(Messages), NEW c \in Nat, NEW n \in Nat, c < n,
           n <= End(wire, Len(wire)), NEW d, Along(d, c, n)
    PROVE  Along(Call(d, n), c + 1, n)
<1>1. CASE Stopped(d, n)
  <2>1. d.refusal # "none"
    BY <1>1 DEF Stopped, RefusedIn
  <2>2. Call(d, n) = d
    BY <2>1 DEF Call
  <2> QED BY <1>1, <2>2 DEF Along
<1>2. ASSUME NEW e \in c..n, Going(d, e)
      PROVE  Along(Call(d, n), c + 1, n)
  <2>1. d.at = e /\ d.refusal = "none"
    BY <1>2 DEF Going
  <2>2. CASE e = n
    <3>1. Call(d, n) = d
      BY <2>1, <2>2 DEF Call
    <3>2. e \in (c + 1)..n
      BY <2>2
    <3> QED BY <1>2, <3>1, <3>2 DEF Along
  <2>3. CASE e # n
    <3>1. Call(d, n) = StrictFeed(d, n)
      BY <2>1, <2>3 DEF Call
    <3>2. e \in Nat /\ e < n /\ (e + 1)..n \subseteq (c + 1)..n
      BY <2>3
    <3>3. \/ \E x \in (e + 1)..n : Going(StrictFeed(d, n), x)
          \/ Stopped(StrictFeed(d, n), n)
      BY <1>2, <3>2, FeedOnce
    <3> QED BY <3>1, <3>2, <3>3 DEF Along
  <2> QED BY <2>2, <2>3
<1> QED BY <1>1, <1>2 DEF Along

\* As many calls as there are bytes use them all up, or the decoder stops.
LEMMA LoopRuns ==
    ASSUME wire \in Seq(Messages), NEW c \in Nat, NEW n \in Nat, c <= n,
           n <= End(wire, Len(wire)), NEW start, Along(start, c, n),
           NEW g, g = [k \in 0..(n - c) |-> LoopRule(g, start, n, k)]
    PROVE  Going(g[n - c], n) \/ Stopped(g[n - c], n)
<1> DEFINE N == n - c
           Bad == {k \in Nat : k \in 0..N /\ ~Along(g[k], c + k, n)}
<1>1. N \in Nat /\ c + N = n
  OBVIOUS
<1>2. g = [k \in 0..N |-> LoopRule(g, start, n, k)]
  OBVIOUS
<1> HIDE DEF N
<1>3. \A k \in 0..N : g[k] = LoopRule(g, start, n, k)
  BY <1>2
<1>4. Along(g[0], c + 0, n)
  <2>1. 0 \in 0..N /\ c + 0 = c
    BY <1>1
  <2>2. g[0] = start
    BY <1>3, <2>1 DEF LoopRule
  <2> QED BY <2>1, <2>2
<1>5. Bad = {}
  <2> SUFFICES ASSUME Bad # {} PROVE FALSE
    OBVIOUS
  <2>1. Bad \in SUBSET Nat
    OBVIOUS
  <2>2. PICK k \in Bad : \A j \in Bad : k <= j
    <3> HIDE DEF Bad
    <3> QED BY <2>1, LeastNatural
  <2>3. k \in 0..N /\ k \in Nat /\ ~Along(g[k], c + k, n) /\ k # 0
    BY <1>4
  <2>4. /\ k - 1 \in Nat /\ k - 1 \in 0..N /\ ~(k <= k - 1) /\ c + (k - 1) \in Nat
        /\ c + (k - 1) < n /\ (c + (k - 1)) + 1 = c + k
    BY <1>1, <2>3
  <2>5. Along(g[k - 1], c + (k - 1), n)
    BY <2>2, <2>4
  <2>6. g[k] = Call(g[k - 1], n)
    BY <1>3, <2>3 DEF LoopRule
  <2> DEFINE b == c + (k - 1)
  <2>7. b \in Nat /\ b < n /\ b + 1 = c + k /\ Along(g[k - 1], b, n)
    BY <2>4, <2>5
  <2> HIDE DEF b
  <2>8. Along(Call(g[k - 1], n), b + 1, n)
    BY <2>7, CallOnce
  <2> QED BY <2>3, <2>6, <2>7, <2>8
<1>6. Along(g[N], n, n)
  <2>1. N \in Nat /\ N \in 0..N
    BY <1>1
  <2> QED BY <1>1, <1>5, <2>1
<1>7. \A e \in n..n : e = n
  OBVIOUS
<1> QED BY <1>6, <1>7 DEF Along, N

\* The stream is not touched by a step, so what is said of it stays.
LEMMA StrictSame ==
    ASSUME wire' = wire
    PROVE  /\ (Going(Decoder, taken)' <=> Going(Decoder', taken'))
           /\ (Stopped(Decoder, read)' <=> Stopped(Decoder', read'))
<1>1. \A i : End(wire, i)' = End(wire, i)
  BY DEF End
<1>2. \A k : FramerAt(k, taken)' = FramerAt(k, taken')
  BY <1>1 DEF FramerAt
<1>3. \A k : Placed(k, taken, TRUE)' <=> Placed(k, taken', TRUE)
  BY <1>1 DEF Placed
<1>4. \A k : Clean(k)' <=> Clean(k)
  BY DEF Clean
<1>5. \A k : StrictDue(k)' = StrictDue(k)
  BY <1>1 DEF StrictDue
<1>6. Going(Decoder, taken)' <=> Going(Decoder', taken')
  BY <1>2, <1>3, <1>4 DEF Going
<1>7. \A k : RefusedIn(Decoder, k, read)' <=> RefusedIn(Decoder', k, read')
  BY <1>4, <1>5 DEF RefusedIn
<1>8. Stopped(Decoder, read)' <=> Stopped(Decoder', read')
  BY <1>7 DEF Stopped
<1> QED BY <1>6, <1>8

\* A step of the connection keeps the stream, and reads on if it reads at all.
LEMMA ReadsOn ==
    ASSUME StreamInv, [Next]_vars
    PROVE  /\ wire' = wire /\ size' = size /\ StreamInv' /\ read \in Nat /\ read' \in Nat
           /\ read <= read' /\ read' <= End(wire, Len(wire)) /\ wire \in Seq(Messages)
<1>1. wire' = wire /\ size' = size
  BY DEF Next, vars, Connect, ReadFails, ReadEof, Decode, Refuse, Observe, PeerEnds, Terminated,
         Read, streamFrame, frameFrame
<1>2. StreamInv'
  BY StreamStep
<1>3. StreamTypes /\ StreamTypes'
  BY <1>2 DEF StreamInv
<1>4. read = wired /\ read' = wired' /\ read' \in 0..size'
  BY <1>3 DEF StreamTypes
<1>5. wired' = wired \/ \E n \in Nat \ {0} : wired' = wired + n
  BY Handoff DEF Quiet, Wires, Greets, Tells, Concludes
<1>6. /\ wire \in Seq(Messages) /\ size \in Nat /\ size <= End(wire, Len(wire)) /\ read \in Nat
      /\ End(wire, Len(wire)) \in Nat
  BY <1>3, TypeFacts
<1> QED BY <1>1, <1>2, <1>4, <1>5, <1>6

\* A refusal within n bytes is one within more.
LEMMA StoppedGrows ==
    ASSUME wire \in Seq(Messages), NEW d, NEW n \in Nat, NEW x \in Nat, n <= x, Stopped(d, n)
    PROVE  Stopped(d, x)
<1>1. PICK k \in 0..Len(wire) : RefusedIn(d, k, n)
  BY DEF Stopped
<1>2. k < Len(wire) /\ StrictDue(k + 1) <= n
  BY <1>1 DEF RefusedIn
<1>3. StrictDue(k + 1) \in Nat
  <2>1. End(wire, k) + 3 \in Nat /\ End(wire, k + 1) \in Nat /\ (k + 1) - 1 = k
    BY <1>2, Spans
  <2> QED BY <2>1 DEF StrictDue, HeaderBytes
<1>4. StrictDue(k + 1) <= x
  BY <1>2, <1>3
<1>5. RefusedIn(d, k, x)
  BY <1>1, <1>4 DEF RefusedIn
<1> QED BY <1>5 DEF Stopped

\* The caller's loop, from its start.
LEMMA LoopDone ==
    ASSUME wire \in Seq(Messages), NEW c \in Nat, NEW n \in Nat, c <= n,
           n <= End(wire, Len(wire)), NEW start, Along(start, c, n)
    PROVE  LET g == CHOOSE g : g = [k \in 0..(n - c) |-> LoopRule(g, start, n, k)]
           IN  Going(g[n - c], n) \/ Stopped(g[n - c], n)
<1> DEFINE N == n - c
           g == CHOOSE g : g = [k \in 0..N |-> LoopRule(g, start, n, k)]
<1>1. \E h : Loops(h, start, n, N)
  <2>1. N \in Nat
    OBVIOUS
  <2> HIDE DEF N, g
  <2> QED BY <2>1, LoopExists
<1>2. g = [k \in 0..N |-> LoopRule(g, start, n, k)]
  BY <1>1 DEF Loops
<1> HIDE DEF g
<1>3. Going(g[n - c], n) \/ Stopped(g[n - c], n)
  BY <1>2, LoopRuns
<1> QED BY <1>3 DEF g

\* A read is decoded to its end or to the refusal.
LEMMA DecodeRuns ==
    ASSUME StrictInv, wire' = wire, wire \in Seq(Messages), read \in Nat, read' \in Nat,
           read <= read', read' <= End(wire, Len(wire)), StrictDecode, StreamInv'
    PROVE  StrictInv'
<1> DEFINE n == read'
           N == n - read
           g == CHOOSE g : g = [k \in 0..N |-> LoopRule(g, Decoder, n, k)]
           d == g[N]
<1>3. strict' = d.framer /\ taken' = d.at /\ typed' = d.typed /\ refusal' = d.refusal
  BY DEF StrictDecode, LoopRule, Decoder
<1>4. Along(Decoder, read, n)
  <2>1. CASE taken = read /\ Going(Decoder, taken)
    <3>1. read \in read..n
      OBVIOUS
    <3> QED BY <2>1, <3>1 DEF Along
  <2>2. CASE Stopped(Decoder, read)
    BY <2>2, StoppedGrows DEF Along
  <2> QED BY <2>1, <2>2 DEF StrictInv
<1>5. Going(d, n) \/ Stopped(d, n)
  <2>1. n \in Nat /\ read <= n /\ n <= End(wire, Len(wire))
    BY DEF n
  <2> HIDE DEF n
  <2> QED BY <1>4, <2>1, LoopDone
<1> HIDE DEF g, N
<1>6. CASE Going(d, n)
  <2>1. d.at = n /\ d = [framer |-> d.framer, at |-> d.at, typed |-> d.typed, refusal |-> d.refusal]
    <3> HIDE DEF d
    <3> QED BY <1>6 DEF Going
  <2>2. Decoder' = d /\ taken' = read'
    BY <1>3, <2>1 DEF Decoder
  <2>3. Going(Decoder', taken')
    BY <1>6, <2>2
  <2> QED BY <2>2, <2>3, StrictSame DEF StrictInv
<1>7. CASE Stopped(d, n)
  <2>1. Decoder'.typed = d.typed /\ Decoder'.refusal = d.refusal /\ Decoder'.at = d.at
    BY <1>3 DEF Decoder
  <2>2. \A k : RefusedIn(d, k, n) => RefusedIn(Decoder', k, read')
    <3> HIDE DEF d
    <3> QED BY <2>1 DEF RefusedIn
  <2>3. Stopped(Decoder', read')
    BY <1>7, <2>2 DEF Stopped
  <2> QED BY <2>3, StrictSame DEF StrictInv
<1> QED BY <1>5, <1>6, <1>7

\* The strict decoder beside every step of a recorded connection.
LEMMA StrictStep == StrictInv /\ [StrictNext]_<<vars, recVars, strictVars>> => StrictInv'
<1> SUFFICES ASSUME StrictInv, [StrictNext]_<<vars, recVars, strictVars>>
             PROVE  StrictInv'
  OBVIOUS
<1>1. StreamInv
  BY DEF StrictInv
<1>2. [Next]_vars
  <2>1. CASE StrictNext
    BY <2>1 DEF StrictNext, RecordedNext, Next, Open
  <2>2. CASE UNCHANGED <<vars, recVars, strictVars>>
    BY <2>2
  <2> QED BY <2>1, <2>2
<1>3. /\ wire' = wire /\ size' = size /\ StreamInv' /\ read \in Nat /\ read' \in Nat
      /\ read <= read' /\ read' <= End(wire, Len(wire)) /\ wire \in Seq(Messages)
  BY <1>1, <1>2, ReadsOn
<1>4. CASE read' = read /\ UNCHANGED strictVars
  <2>1. Decoder' = Decoder /\ taken' = taken
    BY <1>4 DEF strictVars, Decoder
  <2>2. (Going(Decoder, taken)' <=> Going(Decoder, taken))
        /\ (Stopped(Decoder, read)' <=> Stopped(Decoder, read))
    BY <1>3, <1>4, <2>1, StrictSame
  <2> QED BY <1>3, <1>4, <2>1, <2>2 DEF StrictInv
<1>5. CASE StrictDecode
  BY <1>3, <1>5, DecodeRuns
<1>6. (read' = read /\ UNCHANGED strictVars) \/ StrictDecode
  BY DEF StrictNext, vars
<1> QED BY <1>4, <1>5, <1>6

\* It starts before the first byte.
LEMMA StrictInitInv == StrictInit => StrictInv
<1> SUFFICES ASSUME StrictInit PROVE StrictInv
  OBVIOUS
<1>1. StreamInv /\ taken = 0 /\ read = 0
  BY InitInv DEF StrictInit, RecordedInit, Init
<1>2. wire \in Seq(Messages) /\ Len(wire) \in Nat
  BY <1>1, TypeFacts DEF StreamInv
<1>3. 0 \in 0..Len(wire) /\ End(wire, 0) = 0
  BY <1>2, EndSteps
<1>4. FramerAt(0, 0) = NewFramer /\ Placed(0, 0, TRUE)
  BY <1>2, <1>3, FramerBetween
<1>5. Clean(0)
  BY DEF Clean
<1>6. SubSeq(wire, 1, 0) = <<>>
  BY <1>2
<1>7. Decoder = [framer |-> FramerAt(0, 0), at |-> 0, typed |-> SubSeq(wire, 1, 0),
                 refusal |-> "none"]
  BY <1>4, <1>6 DEF StrictInit, Decoder
<1>8. Going(Decoder, 0)
  BY <1>3, <1>4, <1>5, <1>7 DEF Going
<1> QED BY <1>1, <1>8 DEF StrictInv

\* The messages a decoder has returned are all the clean ones within n bytes.
LEMMA GoodIs ==
    ASSUME wire \in Seq(Messages), NEW n \in Nat, NEW k \in 0..Len(wire), Clean(k),
           End(wire, k) <= n,
           \/ k = Len(wire) \/ Objection(wire[k + 1]) # "none" \/ n < End(wire, k + 1)
    PROVE  Cardinality({i \in 1..Len(wire) :
               End(wire, i) <= n /\ \A j \in 1..i : Objection(wire[j]) = "none"}) = k
<1> DEFINE good == {i \in 1..Len(wire) :
                       End(wire, i) <= n /\ \A j \in 1..i : Objection(wire[j]) = "none"}
<1>1. Len(wire) \in Nat /\ k \in Nat /\ k <= Len(wire) /\ \A i \in 0..Len(wire) : End(wire, i) \in Nat
  BY EndSteps
<1>2. ASSUME NEW i \in 1..k
      PROVE  i \in good
  <2>1. i \in 1..Len(wire) /\ i \in 0..Len(wire) /\ i <= k /\ \A j \in 1..i : j \in 1..k
    BY <1>1
  <2>2. End(wire, i) <= End(wire, k)
    BY <2>1, EndGrows
  <2>3. End(wire, i) \in Nat /\ End(wire, k) \in Nat
    BY <1>1, <2>1
  <2>4. End(wire, i) <= n
    BY <2>2, <2>3
  <2> QED BY <2>1, <2>4 DEF Clean
<1>3. ASSUME NEW i \in good, i \notin 1..k
      PROVE  FALSE
  <2>1. /\ i \in 1..Len(wire) /\ i \in 0..Len(wire) /\ k + 1 \in 1..i /\ k + 1 \in 0..Len(wire)
        /\ k # Len(wire) /\ k + 1 <= i
    BY <1>1, <1>3
  <2>2. Objection(wire[k + 1]) = "none" /\ End(wire, i) <= n
    BY <2>1
  <2>3. End(wire, k + 1) <= End(wire, i)
    BY <2>1, EndGrows
  <2>4. End(wire, i) \in Nat /\ End(wire, k + 1) \in Nat
    BY <1>1, <2>1
  <2> HIDE DEF good
  <2> QED BY <2>1, <2>2, <2>3, <2>4
<1>4. good = 1..k
  BY <1>2, <1>3
<1>5. Cardinality(1..k) = k
  <2>1. 1 \in Int /\ k \in Int /\ (1 > k => k = 0) /\ (k - 1) + 1 = k
    BY <1>1
  <2>2. Cardinality(1..k) = IF 1 > k THEN 0 ELSE k - 1 + 1
    BY <2>1, FS_Interval
  <2> QED BY <2>1, <2>2
<1> QED BY <1>4, <1>5

\* The judgement of n bytes once the number of messages returned is known.
LEMMA JudgedIs ==
    ASSUME NEW n, NEW k,
           Cardinality({i \in 1..Len(wire) :
               End(wire, i) <= n /\ \A j \in 1..i : Objection(wire[j]) = "none"}) = k
    PROVE  LET refused == k < Len(wire) /\ Objection(wire[k + 1]) # "none" /\ StrictDue(k + 1) <= n
           IN  Judged(n) = [typed |-> SubSeq(wire, 1, k),
                            refusal |-> IF refused THEN Objection(wire[k + 1]) ELSE "none",
                            at |-> IF refused THEN StrictDue(k + 1) ELSE n]
BY DEF Judged, StrictDue

\* A decoder in that state has judged the bytes read as a whole.
LEMMA InvStrict == StrictInv => StrictExact
<1> SUFFICES ASSUME StrictInv PROVE StrictExact
  OBVIOUS
<1>1. wire \in Seq(Messages) /\ read \in Nat
  BY TypeFacts DEF StrictInv, StreamInv
<1>2. CASE taken = read /\ Going(Decoder, taken)
  <2>1. PICK k \in 0..Len(wire) :
           /\ Clean(k) /\ Placed(k, read, TRUE)
           /\ Decoder = [framer |-> FramerAt(k, read), at |-> read, typed |-> SubSeq(wire, 1, k),
                         refusal |-> "none"]
    BY <1>2 DEF Going
  <2>2. /\ End(wire, k) <= read
        /\ End(wire, k) + 3 <= read =>
              k < Len(wire) /\ read < End(wire, k + 1) /\ Admitted(wire[k + 1], TRUE)
    BY <2>1 DEF Placed
  <2>3. k < Len(wire) => read < End(wire, k + 1)
    <3> SUFFICES ASSUME k < Len(wire) PROVE read < End(wire, k + 1)
      OBVIOUS
    <3>1. /\ End(wire, k) \in Nat /\ End(wire, k + 1) \in Nat /\ wire[k + 1].len \in Nat
          /\ End(wire, k + 1) = End(wire, k) + 3 + wire[k + 1].len
      BY <1>1, Spans
    <3>2. End(wire, k) + 3 <= read => read < End(wire, k + 1)
      BY <2>2
    <3> QED BY <1>1, <3>1, <3>2
  <2>4. k = Len(wire) \/ k < Len(wire)
    BY <1>1, EndSteps
  <2>5. Cardinality({i \in 1..Len(wire) :
             End(wire, i) <= read /\ \A j \in 1..i : Objection(wire[j]) = "none"}) = k
    BY <1>1, <2>1, <2>2, <2>3, <2>4, GoodIs
  <2>6. ~(k < Len(wire) /\ Objection(wire[k + 1]) # "none" /\ StrictDue(k + 1) <= read)
    <3> SUFFICES ASSUME k < Len(wire), Objection(wire[k + 1]) # "none", StrictDue(k + 1) <= read
                 PROVE  FALSE
      OBVIOUS
    <3>1. /\ End(wire, k) \in Nat /\ End(wire, k + 1) \in Nat /\ wire[k + 1].len \in Nat
          /\ End(wire, k + 1) = End(wire, k) + 3 + wire[k + 1].len /\ (k + 1) - 1 = k
      BY <1>1, Spans
    <3>2. StrictDue(k + 1) # End(wire, k + 1)
      BY <1>1, <2>3, <3>1
    <3>3. Objection(wire[k + 1]) \in {"InvalidLength", "ResourceLimit"}
          /\ StrictDue(k + 1) = End(wire, k) + 3
      BY <3>1, <3>2 DEF StrictDue, HeaderBytes
    <3>4. Admitted(wire[k + 1], TRUE)
      BY <2>2, <3>3
    <3>5. PayloadCapacity \in Nat
      BY StreamConstants
    <3>6. LengthOk(wire[k + 1].type, wire[k + 1].len) /\ ~(wire[k + 1].len > PayloadCapacity)
      BY <3>1, <3>4, <3>5 DEF Admitted
    <3> QED BY <3>3, <3>6 DEF Objection
  <2>7. Judged(read) = [typed |-> SubSeq(wire, 1, k), refusal |-> "none", at |-> read]
    BY <2>5, <2>6, JudgedIs
  <2>8. typed = SubSeq(wire, 1, k) /\ refusal = "none" /\ taken = read
    BY <2>1 DEF Decoder
  <2> QED BY <2>7, <2>8 DEF StrictExact
<1>3. CASE Stopped(Decoder, read)
  <2>1. PICK k \in 0..Len(wire) : RefusedIn(Decoder, k, read)
    BY <1>3 DEF Stopped
  <2>2. /\ k < Len(wire) /\ Clean(k) /\ Objection(wire[k + 1]) # "none"
        /\ StrictDue(k + 1) <= read
        /\ typed = SubSeq(wire, 1, k) /\ refusal = Objection(wire[k + 1])
        /\ taken = StrictDue(k + 1)
    BY <2>1 DEF RefusedIn, Decoder
  <2>3. End(wire, k) <= read
    <3>1. /\ End(wire, k) \in Nat /\ End(wire, k + 1) \in Nat /\ wire[k + 1].len \in Nat
          /\ End(wire, k + 1) = End(wire, k) + 3 + wire[k + 1].len /\ (k + 1) - 1 = k
      BY <1>1, <2>2, Spans
    <3>2. StrictDue(k + 1) \in {End(wire, k) + 3, End(wire, k + 1)}
      BY <3>1 DEF StrictDue, HeaderBytes
    <3> QED BY <1>1, <2>2, <3>1, <3>2
  <2>4. Cardinality({i \in 1..Len(wire) :
             End(wire, i) <= read /\ \A j \in 1..i : Objection(wire[j]) = "none"}) = k
    BY <1>1, <2>2, <2>3, GoodIs
  <2>5. Judged(read) = [typed |-> SubSeq(wire, 1, k), refusal |-> Objection(wire[k + 1]),
                        at |-> StrictDue(k + 1)]
    BY <2>2, <2>4, JudgedIs
  <2> QED BY <2>2, <2>5 DEF StrictExact
<1> QED BY <1>2, <1>3 DEF StrictInv

\* However the reads cut the stream, the public decoder of decoder.rs returns
\* the encoded messages up to the first it must refuse, refuses that one at its
\* exact place and consumes nothing after it.
THEOREM StrictDecoding == StrictSpec => []StrictExact
<1>1. StrictInit => StrictInv
  BY StrictInitInv
<1>2. StrictInv /\ [StrictNext]_<<vars, recVars, strictVars>> => StrictInv'
  BY StrictStep
<1>3. StrictInv => StrictExact
  BY InvStrict
<1> QED BY <1>1, <1>2, <1>3, PTL DEF StrictSpec
=============================================================================
