-------------------------- MODULE RecordingProofs --------------------------
(***************************************************************************)
(* The recording adapter, for any records and any writers.                 *)
(***************************************************************************)
EXTENDS RecordingHistory, Sums

\* An adapter fails only after it was constructed.
NewIsSound == pc = "new" => state # "Failed"

\* A step with its history is a step of the adapter or leaves it alone.
LEMMA HistoryStep ==
    ASSUME [HistoryNext]_<<vars, history>>
    PROVE  [Next]_vars
  BY DEF HistoryNext, Next, vars

\* Every call that changes an output or a count finds an adapter that has not
\* failed: the constructor by its place, record by validate and finish by its
\* first check.
LEMMA FailedIdle ==
    ASSUME NewIsSound, [Next]_vars
    PROVE  NewIsSound' /\ (state = "Failed" => UNCHANGED <<out, summary>>)
<1>1. CASE New
  BY <1>1 DEF New, NewIsSound, Fail
<1>2. CASE FinishRefused \/ SeekFails \/ PatchFails \/ Finish
  BY <1>2 DEF FinishRefused, SeekFails, PatchFails, Finish, MayFinish, NewIsSound
<1>3. ASSUME NEW i \in 1..Len(Flushes), FlushFails(i)
      PROVE  NewIsSound' /\ (state = "Failed" => UNCHANGED <<out, summary>>)
  BY <1>3 DEF FlushFails, MayFinish, NewIsSound
<1>4. ASSUME NEW r \in Records, Reject(r) \/ PayloadFails(r) \/ LineFails(r) \/ Accept(r)
      PROVE  NewIsSound' /\ (state = "Failed" => UNCHANGED <<out, summary>>)
  <2>1. state = "Failed" => Violation(r) # "Ok"
    BY DEF Violation
  <2> QED BY <1>4, <2>1 DEF Reject, PayloadFails, LineFails, Accept, NewIsSound
<1>5. CASE Terminated \/ UNCHANGED vars
  BY <1>5 DEF Terminated, vars, NewIsSound
<1> QED BY <1>1, <1>2, <1>3, <1>4, <1>5 DEF Next

\* Once record or an output has failed, no later call of record or finish
\* changes an output or a count, whatever the caller offers.
THEOREM FailureIsFinal == HistorySpec => FailureStops
<1>1. HistoryInit => NewIsSound
  BY DEF HistoryInit, Init, NewIsSound
<1>2. NewIsSound /\ [HistoryNext]_<<vars, history>> => NewIsSound'
  BY HistoryStep, FailedIdle
<1>3. NewIsSound /\ [HistoryNext]_<<vars, history>>
         => [state = "Failed" => UNCHANGED <<out, summary>>]_vars
  BY HistoryStep, FailedIdle
<1> QED BY <1>1, <1>2, <1>3, PTL DEF HistorySpec, FailureStops

-----------------------------------------------------------------------------
(* Prefixes and writes at a position.                                      *)

\* What a prefix is.
LEMMA PrefixOf ==
    ASSUME NEW S, NEW s \in Seq(S), NEW n \in 0..Len(s)
    PROVE  /\ Prefix(s, n) \in Seq(S) /\ Len(Prefix(s, n)) = n
           /\ \A i \in 1..n : Prefix(s, n)[i] = s[i]
           /\ n = Len(s) => Prefix(s, n) = s
           /\ n = 0 => Prefix(s, n) = <<>>
<1>1. Len(s) \in Nat /\ n \in Nat /\ n <= Len(s) /\ \A i \in 1..n : s[i] \in S
  BY LenProperties, ElementOfSeq
<1>2. /\ Prefix(s, n) \in Seq(S) /\ Len(Prefix(s, n)) = n
      /\ \A i \in 1..n : Prefix(s, n)[i] = s[i]
  <2>1. /\ SubSeq(s, 1, n) \in Seq(S) /\ Len(SubSeq(s, 1, n)) = IF 1 <= n THEN n - 1 + 1 ELSE 0
        /\ \A i \in 1..(n - 1 + 1) : SubSeq(s, 1, n)[i] = s[1 + i - 1]
    BY <1>1, SubSeqProperties
  <2> QED BY <1>1, <2>1 DEF Prefix
<1>3. n = Len(s) => Prefix(s, n) = s
  BY SubSeqFull DEF Prefix
<1>4. n = 0 => Prefix(s, n) = <<>>
  BY <1>1, SubSeqEmpty DEF Prefix
<1> QED BY <1>2, <1>3, <1>4

\* A sequence that agrees with another as far as it goes is its prefix.
LEMMA PrefixWhen ==
    ASSUME NEW S, NEW s \in Seq(S), NEW t \in Seq(S), Len(s) <= Len(t),
           \A i \in 1..Len(s) : s[i] = t[i]
    PROVE  IsPrefix(s, t)
<1>1. Len(s) \in 0..Len(t) /\ Len(s) \in 0..Len(s) /\ Len(s) \in Nat
  BY LenProperties
<1>2. /\ Prefix(t, Len(s)) \in Seq(S) /\ Len(Prefix(t, Len(s))) = Len(s)
      /\ \A i \in 1..Len(s) : Prefix(t, Len(s))[i] = t[i]
      /\ Prefix(s, Len(s)) = s
  BY <1>1, PrefixOf
<1>3. Prefix(s, Len(s)) = Prefix(t, Len(s))
  BY <1>2, SeqEqual
<1> QED BY <1>3 DEF IsPrefix, Prefix

\* What was there, and a part of what is added.
LEMMA PrefixesOfConcat ==
    ASSUME NEW S, NEW s \in Seq(S), NEW b \in Seq(S), NEW n \in 0..Len(b)
    PROVE  /\ IsPrefix(s, s \o Prefix(b, n)) /\ IsPrefix(s \o Prefix(b, n), s \o b)
           /\ IsPrefix(s, s)
<1> DEFINE p == Prefix(b, n)
<1>1. /\ p \in Seq(S) /\ Len(p) = n /\ \A i \in 1..n : p[i] = b[i]
      /\ Len(s) \in Nat /\ Len(b) \in Nat /\ n \in Nat /\ n <= Len(b)
  BY PrefixOf, LenProperties
<1> HIDE DEF p
<1>2. /\ s \o p \in Seq(S) /\ Len(s \o p) = Len(s) + n
      /\ \A i \in 1..(Len(s) + n) : (s \o p)[i] = IF i <= Len(s) THEN s[i] ELSE p[i - Len(s)]
  BY <1>1, ConcatProperties
<1>3. /\ s \o b \in Seq(S) /\ Len(s \o b) = Len(s) + Len(b)
      /\ \A i \in 1..(Len(s) + Len(b)) : (s \o b)[i] = IF i <= Len(s) THEN s[i] ELSE b[i - Len(s)]
  BY <1>1, ConcatProperties
<1> DEFINE sp == s \o p
           sb == s \o b
<1>4. \A i \in 1..Len(s) : sp[i] = s[i]
  BY <1>1, <1>2
<1>5. \A i \in 1..(Len(s) + n) : sp[i] = sb[i]
  <2> TAKE i \in 1..(Len(s) + n)
  <2>1. CASE i <= Len(s)
    BY <1>1, <1>2, <1>3, <2>1
  <2>2. CASE ~(i <= Len(s))
    <3>1. i - Len(s) \in 1..n /\ i \in 1..(Len(s) + Len(b))
      BY <1>1, <2>2
    <3> QED BY <1>1, <1>2, <1>3, <2>2, <3>1
  <2> QED BY <2>1, <2>2
<1>a. /\ sp \in Seq(S) /\ Len(s) <= Len(sp) /\ Len(sp) = Len(s) + n
      /\ sb \in Seq(S) /\ Len(sp) <= Len(sb)
  BY <1>1, <1>2, <1>3
<1> HIDE DEF sp, sb
<1>6. IsPrefix(s, sp)
  BY <1>4, <1>a, PrefixWhen
<1>7. IsPrefix(sp, sb)
  <2>1. \A i \in 1..Len(sp) : sp[i] = sb[i]
    BY <1>5, <1>a
  <2> QED BY <1>a, <2>1, PrefixWhen
<1>8. IsPrefix(s, s)
  BY <1>1, PrefixWhen
<1> QED BY <1>6, <1>7, <1>8 DEF sp, sb, p

\* A write at the end of a file appends.
LEMMA WriteAtEnd ==
    ASSUME NEW S, NEW w \in Seq(S), NEW p \in Seq(S)
    PROVE  Overwrite(w, Len(w), p) = w \o p
<1>1. Len(w) \in Nat /\ Len(p) \in Nat /\ w \o p \in Seq(S)
  BY LenProperties, ConcatProperties
<1>2. Prefix(w, Len(w)) = w
  BY <1>1, PrefixOf
<1>3. SubSeq(w, Len(w) + Len(p) + 1, Len(w)) = <<>>
  BY <1>1, SubSeqEmpty
<1>4. (w \o p) \o <<>> = w \o p
  BY <1>1, ConcatEmptySeq
<1> QED BY <1>2, <1>3, <1>4 DEF Overwrite

\* It also appends to what follows a header of k units.
Rest(w, k) == SubSeq(w, k + 1, Len(w))

\* The rest behind the header grows by what is appended.
LEMMA RestGrows ==
    ASSUME NEW S, NEW w \in Seq(S), NEW p \in Seq(S), NEW k \in 0..Len(w)
    PROVE  /\ Rest(w \o p, k) = Rest(w, k) \o p
           /\ Rest(w, k) \in Seq(S) /\ Len(Rest(w, k)) = Len(w) - k
<1>1. Len(w) \in Nat /\ Len(p) \in Nat /\ k \in Nat /\ k <= Len(w)
  BY LenProperties
<1>2. /\ w \o p \in Seq(S) /\ Len(w \o p) = Len(w) + Len(p)
      /\ \A i \in 1..(Len(w) + Len(p)) : (w \o p)[i] = IF i <= Len(w) THEN w[i] ELSE p[i - Len(w)]
  BY ConcatProperties
<1> DEFINE wp == w \o p
           old == SubSeq(w, k + 1, Len(w))
           new == SubSeq(wp, k + 1, Len(wp))
<1>4. /\ old \in Seq(S) /\ Len(old) = Len(w) - k
      /\ \A i \in 1..(Len(w) - k) : old[i] = w[k + i]
  <2>1. \A i \in (k + 1)..Len(w) : w[i] \in S
    BY <1>1, ElementOfSeq
  <2>2. /\ old \in Seq(S)
        /\ Len(old) = IF k + 1 <= Len(w) THEN Len(w) - (k + 1) + 1 ELSE 0
        /\ \A i \in 1..(Len(w) - (k + 1) + 1) : old[i] = w[(k + 1) + i - 1]
    BY <1>1, <2>1, SubSeqProperties
  <2> HIDE DEF old
  <2>3. Len(old) = Len(w) - k /\ Len(w) - (k + 1) + 1 = Len(w) - k
    BY <1>1, <2>2
  <2>4. \A i \in 1..(Len(w) - k) : (k + 1) + i - 1 = k + i
    BY <1>1
  <2> QED BY <2>2, <2>3, <2>4
<1> DEFINE n == Len(w) + Len(p) - k
<1>5. /\ new \in Seq(S) /\ Len(new) = n
      /\ \A i \in 1..n : new[i] = wp[k + i]
  <2>1. \A i \in (k + 1)..Len(wp) : wp[i] \in S
    BY <1>1, <1>2, ElementOfSeq
  <2> HIDE DEF wp
  <2>2. /\ new \in Seq(S)
        /\ Len(new) = IF k + 1 <= Len(wp) THEN Len(wp) - (k + 1) + 1 ELSE 0
        /\ \A i \in 1..(Len(wp) - (k + 1) + 1) : new[i] = wp[(k + 1) + i - 1]
    BY <1>1, <1>2, <2>1, SubSeqProperties DEF wp
  <2> HIDE DEF new
  <2>3. Len(new) = n /\ Len(wp) - (k + 1) + 1 = n
    BY <1>1, <1>2, <2>2 DEF wp
  <2>4. \A i \in 1..n : (k + 1) + i - 1 = k + i
    BY <1>1
  <2> QED BY <2>2, <2>3, <2>4
<1> HIDE DEF old
<1>6. /\ old \o p \in Seq(S) /\ Len(old \o p) = n
      /\ \A i \in 1..n : (old \o p)[i] = IF i <= Len(w) - k THEN old[i] ELSE p[i - (Len(w) - k)]
  <2>1. /\ old \o p \in Seq(S) /\ Len(old \o p) = Len(old) + Len(p)
        /\ \A i \in 1..(Len(old) + Len(p)) :
              (old \o p)[i] = IF i <= Len(old) THEN old[i] ELSE p[i - Len(old)]
    BY <1>4, ConcatProperties
  <2>2. Len(old) + Len(p) = n
    BY <1>1, <1>4
  <2> QED BY <1>4, <2>1, <2>2
<1>7. \A i \in 1..n : new[i] = (old \o p)[i]
  <2> TAKE i \in 1..n
  <2>1. k + i \in 1..(Len(w) + Len(p)) /\ (k + i <= Len(w) <=> i <= Len(w) - k)
        /\ (k + i) - Len(w) = i - (Len(w) - k)
    BY <1>1
  <2>2. new[i] = IF i <= Len(w) - k THEN w[k + i] ELSE p[i - (Len(w) - k)]
    BY <1>2, <1>5, <2>1
  <2>3. i <= Len(w) - k => i \in 1..(Len(w) - k)
    BY <1>1
  <2> QED BY <1>4, <1>6, <2>2, <2>3
<1> HIDE DEF new, n
<1>8. new = old \o p
  BY <1>5, <1>6, <1>7, SeqEqual
<1> QED BY <1>4, <1>8 DEF new, old, Rest

\* A write at the start of a file that is longer replaces what it covers.
LEMMA WriteAtStart ==
    ASSUME NEW S, NEW w \in Seq(S), NEW p \in Seq(S), Len(p) <= Len(w)
    PROVE  /\ Overwrite(w, 0, p) \in Seq(S) /\ Len(Overwrite(w, 0, p)) = Len(w)
           /\ Overwrite(w, 0, p) = p \o SubSeq(w, Len(p) + 1, Len(w))
           /\ \A i \in 1..Len(w) : i > Len(p) => Overwrite(w, 0, p)[i] = w[i]
<1>1. Len(w) \in Nat /\ Len(p) \in Nat /\ Len(p) \in 0..Len(w)
  BY LenProperties
<1> DEFINE r == SubSeq(w, Len(p) + 1, Len(w))
           l == Len(p)
<1>2. r \in Seq(S) /\ Len(r) = Len(w) - l /\ \A i \in 1..(Len(w) - l) : r[i] = w[l + i]
  <2>1. \A i \in (l + 1)..Len(w) : w[i] \in S
    BY <1>1, ElementOfSeq
  <2>2. /\ r \in Seq(S)
        /\ Len(r) = IF l + 1 <= Len(w) THEN Len(w) - (l + 1) + 1 ELSE 0
        /\ \A i \in 1..(Len(w) - (l + 1) + 1) : r[i] = w[(l + 1) + i - 1]
    BY <1>1, <2>1, SubSeqProperties
  <2> HIDE DEF r
  <2>3. Len(r) = Len(w) - l /\ Len(w) - (l + 1) + 1 = Len(w) - l
    BY <1>1, <2>2
  <2>4. \A i \in 1..(Len(w) - l) : (l + 1) + i - 1 = l + i
    BY <1>1
  <2> QED BY <2>2, <2>3, <2>4
<1>3. Overwrite(w, 0, p) = p \o r
  <2>1. Prefix(w, 0) = <<>> /\ 0 + Len(p) + 1 = Len(p) + 1
    BY <1>1, PrefixOf
  <2>2. <<>> \o p = p
    BY ConcatEmptySeq
  <2> QED BY <2>1, <2>2 DEF Overwrite
<1> HIDE DEF r
<1>4. /\ p \o r \in Seq(S) /\ Len(p \o r) = l + Len(r)
      /\ \A i \in 1..(l + Len(r)) : (p \o r)[i] = IF i <= l THEN p[i] ELSE r[i - l]
  BY <1>2, ConcatProperties
<1>5. Len(p \o r) = Len(w) /\ l + Len(r) = Len(w)
  BY <1>1, <1>2, <1>4
<1>6. ASSUME NEW i \in 1..Len(w), i > l PROVE (p \o r)[i] = w[i]
  <2>1. i - l \in 1..(Len(w) - l) /\ l + (i - l) = i /\ ~(i <= l)
    BY <1>1, <1>6
  <2> QED BY <1>2, <1>4, <1>5, <1>6, <2>1
<1> QED BY <1>3, <1>4, <1>5, <1>6 DEF r

-----------------------------------------------------------------------------
(* Records and what is written of them.                                    *)

\* Whatever a file may hold.
PayloadUnits == UNION {{r.bytes[i] : i \in 1..Len(r.bytes)} : r \in Records}
LineUnits == UNION {{Line(r)[i] : i \in 1..Len(Line(r))} : r \in Records}
Units == {"RIFF", "fmt"} \cup Int \cup PayloadUnits \cup LineUnits

\* The payload and the line of a record are sequences of units.
LEMMA RecordUnits ==
    ASSUME NEW r \in Records
    PROVE  r.bytes \in Seq(Units) /\ Line(r) \in Seq(Units)
<1>1. ASSUME NEW s, IsSequence(s), \A i \in 1..Len(s) : s[i] \in Units
      PROVE  s \in Seq(Units)
  <2>1. Len(s) \in Nat /\ s \in [1..Len(s) -> Units]
    BY <1>1 DEF IsSequence
  <2> QED BY <2>1
<1>2. IsSequence(r.bytes) /\ IsSequence(Line(r))
  BY RecordingConstants
<1>3. ASSUME NEW i \in 1..Len(r.bytes) PROVE r.bytes[i] \in Units
  <2>1. r.bytes[i] \in PayloadUnits
    BY DEF PayloadUnits
  <2> QED BY <2>1 DEF Units
<1>4. ASSUME NEW i \in 1..Len(Line(r)) PROVE Line(r)[i] \in Units
  <2> DEFINE all == {{Line(q)[j] : j \in 1..Len(Line(q))} : q \in Records}
  <2>1. Line(r)[i] \in {Line(r)[j] : j \in 1..Len(Line(r))}
    OBVIOUS
  <2>2. {Line(r)[j] : j \in 1..Len(Line(r))} \in all
    BY Zenon
  <2>3. Line(r)[i] \in LineUnits
    BY <2>1, <2>2, Zenon DEF LineUnits
  <2> QED BY <2>3 DEF Units
<1> QED BY <1>1, <1>2, <1>3, <1>4

\* So is a WAVE header, whatever its size field says.
LEMMA HeaderUnits ==
    ASSUME NEW n \in Nat
    PROVE  WaveHeader(n) \in Seq(Units) /\ Len(WaveHeader(n)) = 4
<1>1. "RIFF" \in Units /\ n + RiffOverhead \in Units /\ "fmt" \in Units /\ n \in Units
  BY DEF Units, RiffOverhead
<1> QED BY <1>1 DEF WaveHeader

\* One more record in the concatenations of the properties.
LEMMA JoinedGrows ==
    ASSUME NEW rs \in Seq(Records), NEW r \in Records, NEW kind
    PROVE  /\ Joined(rs, kind) \in Seq(Units)
           /\ Joined(Append(rs, r), kind)
                 = Joined(rs, kind) \o (IF r.kind = kind THEN r.bytes ELSE <<>>)
<1> DEFINE part(q) == IF q.kind = kind THEN q.bytes ELSE <<>>
           s == [i \in 1..Len(rs) |-> part(rs[i])]
           e == Append(rs, r)
           t == [i \in 1..Len(e) |-> part(e[i])]
<1>1. \A q \in Records : part(q) \in Seq(Units)
  BY RecordUnits, EmptySeq
<1>2. /\ e \in Seq(Records) /\ Len(e) = Len(rs) + 1 /\ e[Len(rs) + 1] = r /\ Len(rs) \in Nat
      /\ \A i \in 1..Len(rs) : e[i] = rs[i] /\ rs[i] \in Records
      /\ \A i \in 1..Len(e) : e[i] \in Records
  BY AppendProperties, LenProperties, ElementOfSeq
<1> HIDE DEF part, e
<1>3. s \in Seq(Seq(Units)) /\ Len(s) = Len(rs) /\ t \in Seq(Seq(Units)) /\ Len(t) = Len(e)
  <2>1. s \in [1..Len(rs) -> Seq(Units)] /\ t \in [1..Len(e) -> Seq(Units)]
    BY <1>1, <1>2
  <2>2. Len(rs) \in Nat /\ Len(e) \in Nat
    BY <1>2
  <2> HIDE DEF s, t
  <2> QED BY <2>1, <2>2, FunctionSeq
<1>4. /\ Append(s, part(r)) \in Seq(Seq(Units)) /\ Len(Append(s, part(r))) = Len(s) + 1
      /\ \A i \in 1..Len(s) : Append(s, part(r))[i] = s[i]
      /\ Append(s, part(r))[Len(s) + 1] = part(r)
  BY <1>1, <1>3, AppendProperties
<1>5. \A i \in 1..Len(t) : t[i] = Append(s, part(r))[i]
  <2> TAKE i \in 1..Len(t)
  <2>1. i \in 1..Len(rs) \/ i = Len(rs) + 1
    BY <1>2, <1>3
  <2>2. t[i] = part(e[i]) /\ (i \in 1..Len(rs) => s[i] = part(rs[i]))
    BY <1>3
  <2> HIDE DEF s, t
  <2> QED BY <1>2, <1>3, <1>4, <2>1, <2>2
<1> HIDE DEF s, t
<1>6. t = Append(s, part(r))
  BY <1>2, <1>3, <1>4, <1>5, SeqEqual
<1>7. FlattenSeq(s) \in Seq(Units) /\ FlattenSeq(t) = FlattenSeq(s) \o part(r)
  BY <1>1, <1>3, <1>6, FlattenAppend
<1> QED BY <1>7 DEF Joined, s, t, e, part

\* One more record adds its line.
LEMMA LinesGrow ==
    ASSUME NEW rs \in Seq(Records), NEW r \in Records
    PROVE  Lines(rs) \in Seq(Units) /\ Lines(Append(rs, r)) = Lines(rs) \o Line(r)
<1> DEFINE s == [i \in 1..Len(rs) |-> Line(rs[i])]
           e == Append(rs, r)
           t == [i \in 1..Len(e) |-> Line(e[i])]
<1>1. \A q \in Records : Line(q) \in Seq(Units)
  BY RecordUnits
<1>2. /\ e \in Seq(Records) /\ Len(e) = Len(rs) + 1 /\ e[Len(rs) + 1] = r /\ Len(rs) \in Nat
      /\ \A i \in 1..Len(rs) : e[i] = rs[i] /\ rs[i] \in Records
      /\ \A i \in 1..Len(e) : e[i] \in Records
  BY AppendProperties, LenProperties, ElementOfSeq
<1> HIDE DEF e
<1>3. s \in Seq(Seq(Units)) /\ Len(s) = Len(rs) /\ t \in Seq(Seq(Units)) /\ Len(t) = Len(e)
  <2>1. s \in [1..Len(rs) -> Seq(Units)] /\ t \in [1..Len(e) -> Seq(Units)]
    BY <1>1, <1>2
  <2>2. Len(rs) \in Nat /\ Len(e) \in Nat
    BY <1>2
  <2> HIDE DEF s, t
  <2> QED BY <2>1, <2>2, FunctionSeq
<1>4. /\ Append(s, Line(r)) \in Seq(Seq(Units)) /\ Len(Append(s, Line(r))) = Len(s) + 1
      /\ \A i \in 1..Len(s) : Append(s, Line(r))[i] = s[i]
      /\ Append(s, Line(r))[Len(s) + 1] = Line(r)
  BY <1>1, <1>3, AppendProperties
<1>5. \A i \in 1..Len(t) : t[i] = Append(s, Line(r))[i]
  <2> TAKE i \in 1..Len(t)
  <2>1. i \in 1..Len(rs) \/ i = Len(rs) + 1
    BY <1>2, <1>3
  <2>2. t[i] = Line(e[i]) /\ (i \in 1..Len(rs) => s[i] = Line(rs[i]))
    BY <1>3
  <2> HIDE DEF s, t
  <2> QED BY <1>2, <1>3, <1>4, <2>1, <2>2
<1> HIDE DEF s, t
<1>6. t = Append(s, Line(r))
  BY <1>2, <1>3, <1>4, <1>5, SeqEqual
<1>7. FlattenSeq(s) \in Seq(Units) /\ FlattenSeq(t) = FlattenSeq(s) \o Line(r)
  BY <1>1, <1>3, <1>6, FlattenAppend
<1> QED BY <1>7 DEF Lines, s, t, e

\* Of no records there is nothing.
LEMMA NothingJoined == Lines(<<>>) = <<>> /\ \A kind : Joined(<<>>, kind) = <<>>
<1>1. Len(<<>>) = 0 /\ 1..0 = {}
  BY EmptySeq
<1>2. ASSUME NEW f, f \in [{} -> {}] PROVE f = <<>> /\ FlattenSeq(f) = <<>>
  <2>1. f = <<>>
    BY <1>2
  <2> QED BY <1>1, <2>1 DEF FlattenSeq
<1>3. Lines(<<>>) = <<>>
  <2>1. [i \in 1..Len(<<>>) |-> Line(<<>>[i])] \in [{} -> {}]
    BY <1>1
  <2> QED BY <1>2, <2>1 DEF Lines
<1>4. ASSUME NEW kind PROVE Joined(<<>>, kind) = <<>>
  <2> DEFINE e == <<>>
  <2>1. [i \in 1..Len(e) |-> IF e[i].kind = kind THEN e[i].bytes ELSE <<>>] \in [{} -> {}]
    BY <1>1
  <2> QED BY <1>2, <2>1 DEF Joined
<1> QED BY <1>3, <1>4

-----------------------------------------------------------------------------
(* What the files hold.                                                    *)

\* What a record adds to the file of a kind, as far as n units go.
Of(r, kind, n) == IF r.kind = kind THEN Prefix(r.bytes, n) ELSE <<>>

Pcm == SubSeq(out.wave, summary.header + 1, Len(out.wave))

\* The header's units come first, and the adapter writes at the end of the
\* WAVE file until it seeks.
Framed ==
    /\ summary.header <= Len(out.wave)
    /\ pc = "new" => /\ out.wave = <<>> /\ summary.patch = 0 /\ accepted = <<>>
                     /\ state = "AwaitingConnection"
    /\ pc = "open" => summary.header = 4 /\ summary.patch = 0 /\ at = Len(out.wave)

\* The outputs are those of the accepted records, followed by n units of the
\* payload and m of the line of record r.
Contents(r, n, m) ==
    /\ out.wire = Joined(accepted, "Wire") \o Of(r, "Wire", n)
    /\ Pcm = Joined(accepted, "Audio") \o Of(r, "Audio", n)
    /\ out.log = Lines(accepted) \o Prefix(Line(r), m)

\* No line is begun before its payload is complete, and only a failed adapter
\* has a record half written.
Written ==
    /\ partial = <<>> => /\ out.wire = Joined(accepted, "Wire") /\ Pcm = Joined(accepted, "Audio")
                         /\ out.log = Lines(accepted)
    /\ partial # <<>> =>
          /\ state = "Failed"
          /\ \E n \in 0..Len(partial[1].bytes), m \in 0..Len(Line(partial[1])) :
                Contents(partial[1], n, m) /\ (m = 0 \/ n = Len(partial[1].bytes))

CountsTrue ==
    /\ summary.wire = Len(out.wire) /\ summary.audio = Len(Pcm) /\ summary.events = Len(out.log)

NoneIs(kind) == \A j \in 1..Len(accepted) : accepted[j].kind # kind

\* State, identity, offset and end are those of the accepted records.
Told ==
    /\ state = "AwaitingConnection" => accepted = <<>> /\ uuid = NoUuid
    /\ accepted = <<>> => state \in {"AwaitingConnection", "Failed"}
    /\ state = "AwaitingUuid" => Names(accepted) = {} /\ uuid = NoUuid
    /\ state = "Active" => Names(accepted) = {uuid} /\ uuid # NoUuid
    /\ \A j \in 1..Len(accepted) : accepted[j].kind = "Wire" \/ accepted[j].offset <= last
    /\ state \notin {"Ended", "Failed"} => NoneIs("Ended")
    /\ summary.end = IF NoneIs("Ended") THEN "Incomplete" ELSE accepted[Len(accepted)].arg

Completed ==
    pc = "finished" => /\ out.wave = WaveHeader(Len(Pcm)) \o Pcm /\ WaveFits(Len(Pcm))
                       /\ state # "Failed" /\ flushed = {"wire", "wave", "log"}

States == {"AwaitingConnection", "AwaitingUuid", "Active", "Ended", "Failed"}
Endings == {"Incomplete"} \cup {r.arg : r \in Records}

RecordingType ==
    /\ pc \in {"new", "open", "finished", "dropped"} /\ state \in States
    /\ accepted \in Seq(Records) /\ (partial = <<>> \/ \E r \in Records : partial = <<r>>)
    /\ last \in Nat
    /\ out \in [wire : Seq(Units), wave : Seq(Units), log : Seq(Units)]
    /\ summary \in [wire : Nat, audio : Nat, events : Nat, header : Nat, patch : Nat,
                    end : Endings]

\* The inductive invariant.
RecordingInv ==
    RecordingType /\ Framed /\ Written /\ CountsTrue /\ Told /\ HistoryCoherent /\ Completed

\* What a writer may accept.
LEMMA Counting ==
    ASSUME NEW count \in Nat, NEW b \in Seq(Units), NEW w \in WriteCount(count, b)
    PROVE  w.n \in 0..Len(b) /\ w.ok \in BOOLEAN /\ (w.ok => w.n = Len(b))
<1>1. Len(b) \in Nat
  BY LenProperties
<1>2. CASE w = [n |-> 0, ok |-> FALSE]
  BY <1>1, <1>2
<1>3. CASE \E n \in 0..Len(b) : w = [n |-> n, ok |-> n = Len(b)]
  <2>1. PICK n \in 0..Len(b) : w = [n |-> n, ok |-> n = Len(b)]
    BY <1>3
  <2>2. w.n = n /\ w.ok = (n = Len(b))
    BY <2>1
  <2> QED BY <2>2
<1> QED BY <1>2, <1>3, Zenon DEF WriteCount

\* What a record adds to a file.
LEMMA Parts ==
    ASSUME NEW r \in Records, NEW n \in 0..Len(r.bytes), NEW kind
    PROVE  /\ Of(r, kind, n) \in Seq(Units) /\ Len(Of(r, kind, n)) = Counted(r, kind, n)
           /\ Counted(r, kind, n) \in Nat
           /\ n = Len(r.bytes) => Of(r, kind, n) = IF r.kind = kind THEN r.bytes ELSE <<>>
<1>1. r.bytes \in Seq(Units) /\ Len(r.bytes) \in Nat /\ n \in Nat
  BY RecordUnits, LenProperties
<1>2. Prefix(r.bytes, n) \in Seq(Units) /\ Len(Prefix(r.bytes, n)) = n
      /\ (n = Len(r.bytes) => Prefix(r.bytes, n) = r.bytes)
  BY <1>1, PrefixOf
<1> QED BY <1>1, <1>2, EmptySeq DEF Of, Counted

\* The files after an append of n units of the payload and m of the line.
LEMMA PreserveStep ==
    ASSUME RecordingType, Framed, pc = "open", NEW r \in Records, NEW n \in 0..Len(r.bytes),
           NEW m \in 0..Len(Line(r)), NEW e \in Endings, Preserve(r, n, m, e)
    PROVE  /\ out'.wire = out.wire \o Of(r, "Wire", n) /\ Pcm' = Pcm \o Of(r, "Audio", n)
           /\ out'.log = out.log \o Prefix(Line(r), m)
           /\ out' \in [wire : Seq(Units), wave : Seq(Units), log : Seq(Units)]
           /\ summary' \in [wire : Nat, audio : Nat, events : Nat, header : Nat, patch : Nat,
                            end : Endings]
           /\ summary'.header = 4 /\ summary'.patch = 0 /\ summary'.end = e
           /\ at' = Len(out'.wave) /\ 4 <= Len(out'.wave)
           /\ CountsTrue => CountsTrue'
<1>1. /\ out.wire \in Seq(Units) /\ out.wave \in Seq(Units) /\ out.log \in Seq(Units)
      /\ Len(out.wire) \in Nat /\ Len(out.wave) \in Nat /\ Len(out.log) \in Nat
      /\ at = Len(out.wave) /\ summary.header = 4 /\ 4 <= Len(out.wave) /\ summary.patch = 0
  BY LenProperties DEF RecordingType, Framed
<1>2. /\ Line(r) \in Seq(Units) /\ Prefix(Line(r), m) \in Seq(Units)
      /\ Len(Prefix(Line(r), m)) = m /\ m \in Nat /\ n \in Nat
  BY RecordUnits, PrefixOf, LenProperties
<1>3. /\ Of(r, "Wire", n) \in Seq(Units) /\ Len(Of(r, "Wire", n)) = Counted(r, "Wire", n)
      /\ Of(r, "Audio", n) \in Seq(Units) /\ Len(Of(r, "Audio", n)) = Counted(r, "Audio", n)
      /\ Counted(r, "Wire", n) \in Nat /\ Counted(r, "Audio", n) \in Nat
  BY Parts
<1>4. out'.wire = out.wire \o Of(r, "Wire", n) /\ out'.log = out.log \o Prefix(Line(r), m)
  <2>1. out.wire \o <<>> = out.wire
    BY <1>1, ConcatEmptySeq
  <2> QED BY <2>1 DEF Preserve, Of
<1>5. out'.wave = out.wave \o Of(r, "Audio", n) /\ at' = at + Counted(r, "Audio", n)
  <2>1. out.wave \o <<>> = out.wave
    BY <1>1, ConcatEmptySeq
  <2>2. CASE r.kind = "Audio"
    <3>1. Of(r, "Audio", n) = Prefix(r.bytes, n)
      BY <2>2 DEF Of
    <3>2. Overwrite(out.wave, Len(out.wave), Of(r, "Audio", n)) = out.wave \o Of(r, "Audio", n)
      BY <1>1, <1>3, WriteAtEnd
    <3> QED BY <1>1, <2>2, <3>1, <3>2 DEF Preserve, Counted
  <2>3. CASE r.kind # "Audio"
    BY <1>1, <2>1, <2>3 DEF Preserve, Of, Counted, RecordingType
  <2> QED BY <2>2, <2>3
<1>6. /\ out'.wire \in Seq(Units) /\ Len(out'.wire) = Len(out.wire) + Counted(r, "Wire", n)
      /\ out'.wave \in Seq(Units) /\ Len(out'.wave) = Len(out.wave) + Counted(r, "Audio", n)
      /\ out'.log \in Seq(Units) /\ Len(out'.log) = Len(out.log) + m
  <2>1. ASSUME NEW a \in Seq(Units), NEW b \in Seq(Units)
        PROVE  a \o b \in Seq(Units) /\ Len(a \o b) = Len(a) + Len(b)
    BY ConcatProperties
  <2>2. out'.wire \in Seq(Units) /\ Len(out'.wire) = Len(out.wire) + Counted(r, "Wire", n)
    <3> DEFINE a == out.wire
               b == Of(r, "Wire", n)
    <3>1. /\ a \in Seq(Units) /\ b \in Seq(Units)
          /\ Len(b) = Counted(r, "Wire", n) /\ out'.wire = a \o b
      BY <1>1, <1>3, <1>4
    <3> HIDE DEF a, b
    <3>2. a \o b \in Seq(Units) /\ Len(a \o b) = Len(a) + Len(b)
      BY <2>1, <3>1
    <3> QED BY <3>1, <3>2 DEF a
  <2>3. out'.wave \in Seq(Units) /\ Len(out'.wave) = Len(out.wave) + Counted(r, "Audio", n)
    BY <1>1, <1>3, <1>5, <2>1
  <2>4. out'.log \in Seq(Units) /\ Len(out'.log) = Len(out.log) + m
    BY <1>1, <1>2, <1>4, <2>1
  <2> QED BY <2>2, <2>3, <2>4
<1>7. out' \in [wire : Seq(Units), wave : Seq(Units), log : Seq(Units)]
  <2>1. \E x, y, z : out' = [wire |-> x, wave |-> y, log |-> z]
    BY DEF Preserve
  <2> QED BY <1>6, <2>1
<1>8. /\ summary'.header = 4 /\ summary'.patch = 0 /\ summary'.end = e
      /\ summary'.wire = summary.wire + Counted(r, "Wire", n)
      /\ summary'.audio = summary.audio + Counted(r, "Audio", n)
      /\ summary'.events = summary.events + m
      /\ summary' \in [wire : Nat, audio : Nat, events : Nat, header : Nat, patch : Nat,
                       end : Endings]
  <2> DEFINE x == Counted(r, "Wire", n)
             y == Counted(r, "Audio", n)
  <2>1. summary' = [summary EXCEPT !.wire = @ + x, !.audio = @ + y, !.events = @ + m, !.end = e]
    BY DEF Preserve
  <2>2. x \in Nat /\ y \in Nat
    BY <1>3
  <2>3. /\ summary \in [wire : Nat, audio : Nat, events : Nat, header : Nat, patch : Nat,
                         end : Endings]
        /\ summary.wire \in Nat /\ summary.audio \in Nat /\ summary.events \in Nat
    BY DEF RecordingType
  <2> HIDE DEF x, y
  <2>4. summary.wire + x \in Nat /\ summary.audio + y \in Nat /\ summary.events + m \in Nat
    BY <1>2, <2>2, <2>3
  <2>5. /\ summary'.header = 4 /\ summary'.patch = 0 /\ summary'.end = e
        /\ summary'.wire = summary.wire + x /\ summary'.audio = summary.audio + y
        /\ summary'.events = summary.events + m
    BY <1>1, <2>1, <2>3
  <2>6. summary' \in [wire : Nat, audio : Nat, events : Nat, header : Nat, patch : Nat,
                      end : Endings]
    BY <2>1, <2>3, <2>4
  <2> QED BY <2>5, <2>6 DEF x, y
<1>9. /\ Pcm' = Pcm \o Of(r, "Audio", n) /\ Pcm \in Seq(Units) /\ Len(Pcm) = Len(out.wave) - 4
      /\ Len(Pcm') = Len(Pcm) + Counted(r, "Audio", n)
  <2>1. 4 \in 0..Len(out.wave)
    BY <1>1
  <2> DEFINE w == out.wave
             p == Of(r, "Audio", n)
  <2>0. w \in Seq(Units) /\ p \in Seq(Units) /\ 4 \in 0..Len(w)
    BY <1>1, <1>3, <2>1
  <2> HIDE DEF w, p
  <2>2. /\ Rest(w \o p, 4) = Rest(w, 4) \o p
        /\ Rest(w, 4) \in Seq(Units) /\ Len(Rest(w, 4)) = Len(w) - 4
    BY <2>0, RestGrows
  <2>3. Pcm = Rest(w, 4) /\ Pcm' = Rest(w \o p, 4)
    BY <1>1, <1>5, <1>8 DEF Pcm, Rest, w, p
  <2>4. Pcm' = Pcm \o p /\ Pcm \in Seq(Units) /\ Len(Pcm) = Len(out.wave) - 4
    BY <2>2, <2>3 DEF w
  <2>5. Len(Pcm') = Len(Pcm) + Len(p)
    BY <2>0, <2>4, ConcatProperties
  <2> QED BY <1>3, <2>4, <2>5 DEF p
<1>10. CountsTrue => CountsTrue'
  BY <1>6, <1>8, <1>9 DEF CountsTrue
<1>11. at' = Len(out'.wave) /\ 4 <= Len(out'.wave)
  BY <1>1, <1>3, <1>5, <1>6
<1> QED BY <1>4, <1>7, <1>8, <1>9, <1>10, <1>11

\* The files after n units of the final header were written over the old one.
LEMMA PatchStep ==
    ASSUME RecordingType, Framed, pc = "open", NEW n \in 0..4, Patch(n)
    PROVE  /\ out'.wire = out.wire /\ out'.log = out.log /\ Pcm' = Pcm
           /\ out' \in [wire : Seq(Units), wave : Seq(Units), log : Seq(Units)]
           /\ summary' \in [wire : Nat, audio : Nat, events : Nat, header : Nat, patch : Nat,
                            end : Endings]
           /\ summary'.header = 4 /\ 4 <= Len(out'.wave) /\ summary'.end = summary.end
           /\ CountsTrue => CountsTrue'
           /\ n = 4 => out'.wave = WaveHeader(summary.audio) \o Pcm
<1> DEFINE H == WaveHeader(summary.audio)
           w == out.wave
           p == Prefix(H, n)
<1>1. /\ out.wire \in Seq(Units) /\ w \in Seq(Units) /\ out.log \in Seq(Units)
      /\ Len(w) \in Nat /\ summary.header = 4 /\ 4 <= Len(w) /\ summary.audio \in Nat
  BY LenProperties DEF RecordingType, Framed
<1>2. H \in Seq(Units) /\ Len(H) = 4
  BY <1>1, HeaderUnits
<1> HIDE DEF H
<1>3. p \in Seq(Units) /\ Len(p) = n /\ (n = 4 => p = H) /\ n \in Nat /\ n <= 4
  <2>1. n \in 0..Len(H)
    BY <1>2
  <2>2. /\ Prefix(H, n) \in Seq(Units) /\ Len(Prefix(H, n)) = n
        /\ n = Len(H) => Prefix(H, n) = H
    BY <1>2, <2>1, PrefixOf
  <2> QED BY <1>2, <2>2
<1> HIDE DEF p
<1>4. /\ Overwrite(w, 0, p) \in Seq(Units) /\ Len(Overwrite(w, 0, p)) = Len(w)
      /\ Overwrite(w, 0, p) = p \o SubSeq(w, Len(p) + 1, Len(w))
      /\ \A i \in 1..Len(w) : i > n => Overwrite(w, 0, p)[i] = w[i]
  <2> HIDE DEF w
  <2>1. Len(p) <= Len(w)
    BY <1>1, <1>3
  <2> QED BY <1>1, <1>3, <2>1, WriteAtStart
<1>5. out' = [out EXCEPT !.wave = Overwrite(w, 0, p)] /\ summary' = [summary EXCEPT !.patch = n]
  BY DEF Patch, p, H
<1>6. /\ out'.wire = out.wire /\ out'.log = out.log /\ out'.wave = Overwrite(w, 0, p)
      /\ out' \in [wire : Seq(Units), wave : Seq(Units), log : Seq(Units)]
  BY <1>1, <1>4, <1>5 DEF RecordingType
<1>7. /\ summary' \in [wire : Nat, audio : Nat, events : Nat, header : Nat, patch : Nat,
                       end : Endings]
      /\ summary'.header = 4 /\ summary'.end = summary.end
      /\ summary'.wire = summary.wire /\ summary'.audio = summary.audio
      /\ summary'.events = summary.events
  BY <1>1, <1>3, <1>5 DEF RecordingType
<1> DEFINE o == Overwrite(w, 0, p)
<1> HIDE DEF o
<1>8. SubSeq(o, 4 + 1, Len(w)) = SubSeq(w, 4 + 1, Len(w))
  <2> HIDE DEF w
  <2>1. o \in Seq(Units) /\ Len(o) = Len(w) /\ \A i \in 1..Len(w) : i > n => o[i] = w[i]
    BY <1>4 DEF o
  <2>2. ASSUME NEW i \in 5..Len(w) PROVE o[i] = w[i] /\ w[i] \in Units /\ o[i] \in Units
    <3>1. i \in 1..Len(w) /\ i > n /\ i \in 1..Len(o)
      BY <1>1, <1>3, <2>1
    <3> QED BY <1>1, <2>1, <3>1, ElementOfSeq
  <2>3. /\ SubSeq(w, 5, Len(w)) \in Seq(Units) /\ SubSeq(o, 5, Len(w)) \in Seq(Units)
        /\ Len(SubSeq(w, 5, Len(w))) = Len(SubSeq(o, 5, Len(w)))
        /\ Len(SubSeq(w, 5, Len(w))) = IF 5 <= Len(w) THEN Len(w) - 5 + 1 ELSE 0
        /\ \A i \in 1..(Len(w) - 5 + 1) : SubSeq(w, 5, Len(w))[i] = w[5 + i - 1]
        /\ \A i \in 1..(Len(w) - 5 + 1) : SubSeq(o, 5, Len(w))[i] = o[5 + i - 1]
    BY <1>1, <2>2, SubSeqProperties
  <2>4. \A i \in 1..Len(SubSeq(w, 5, Len(w))) :
           SubSeq(w, 5, Len(w))[i] = SubSeq(o, 5, Len(w))[i]
    <3> DEFINE a == SubSeq(w, 5, Len(w))
               b == SubSeq(o, 5, Len(w))
    <3> HIDE DEF a, b
    <3>1. ASSUME NEW i \in 1..Len(a) PROVE a[i] = b[i]
      <4>1. i \in 1..(Len(w) - 5 + 1) /\ 5 + i - 1 \in 5..Len(w)
        BY <1>1, <2>3, <3>1 DEF a
      <4> QED BY <2>2, <2>3, <4>1 DEF a, b
    <3> QED BY <3>1 DEF a, b
  <2>5. SubSeq(w, 5, Len(w)) = SubSeq(o, 5, Len(w))
    BY <2>3, <2>4, SeqEqual
  <2> QED BY <2>2, <2>5
<1>9. Pcm' = Pcm
  BY <1>1, <1>4, <1>6, <1>7, <1>8 DEF Pcm, o
<1>10. n = 4 => out'.wave = H \o Pcm
  BY <1>1, <1>3, <1>4, <1>6 DEF Pcm
<1>11. CountsTrue => CountsTrue'
  BY <1>6, <1>7, <1>9 DEF CountsTrue
<1> QED BY <1>1, <1>4, <1>6, <1>7, <1>9, <1>10, <1>11 DEF H


-----------------------------------------------------------------------------
(* Every call preserves the invariant.                                     *)

\* A failed adapter keeps its history.
LEMMA FailedTold ==
    ASSUME Told, HistoryCoherent, state' = "Failed", UNCHANGED <<accepted, last>>,
           summary'.end = summary.end
    PROVE  Told' /\ HistoryCoherent'
<1>1. Told'
  BY DEF Told, NoneIs
<1>2. HistoryCoherent'
  BY DEF HistoryCoherent
<1> QED BY <1>1, <1>2

\* A call that fails without an effect on the outputs.
LEMMA QuietFailure ==
    ASSUME RecordingInv, pc = "open", pc' \in {"open", "dropped"}, state' = "Failed",
           UNCHANGED <<last, summary, out, at, flushed, accepted, partial>>
    PROVE  RecordingInv'
<1>1. Told' /\ HistoryCoherent'
  BY FailedTold DEF RecordingInv
<1>2. RecordingType'
  BY DEF RecordingInv, RecordingType, States
<1>3. Framed' /\ CountsTrue' /\ Completed'
  BY DEF RecordingInv, Framed, CountsTrue, Completed, Pcm
<1>4. Written'
  BY DEF RecordingInv, Written, Contents, Pcm
<1> QED BY <1>1, <1>2, <1>3, <1>4 DEF RecordingInv

\* A step of something else.
LEMMA Untouched ==
    ASSUME RecordingInv, UNCHANGED <<vars, history>>
    PROVE  RecordingInv'
<1> USE DEF RecordingInv, vars, history
<1>1. RecordingType' /\ Framed' /\ CountsTrue' /\ Completed'
  BY DEF RecordingType, Framed, CountsTrue, Completed, Pcm
<1>2. Written'
  BY DEF Written, Contents, Pcm
<1>3. Told' /\ HistoryCoherent'
  BY DEF Told, NoneIs, HistoryCoherent
<1> QED BY <1>1, <1>2, <1>3

\* A record that may be accepted finds an adapter that is at work, with no
\* record half written.
LEMMA Working ==
    ASSUME RecordingInv, state # "Failed"
    PROVE  /\ partial = <<>> /\ out.wire = Joined(accepted, "Wire")
           /\ Pcm = Joined(accepted, "Audio") /\ out.log = Lines(accepted)
  BY DEF RecordingInv, Written

\* A writer fails on a record.
LEMMA Midway ==
    ASSUME RecordingInv, pc = "open", state # "Failed", NEW r \in Records,
           NEW n \in 0..Len(r.bytes), NEW m \in 0..Len(Line(r)), m = 0 \/ n = Len(r.bytes),
           Preserve(r, n, m, summary.end), state' = "Failed", partial' = <<r>>,
           UNCHANGED <<pc, last, accepted>>
    PROVE  RecordingInv'
<1>1. summary.end \in Endings
  BY DEF RecordingInv, RecordingType
<1>2. /\ out'.wire = out.wire \o Of(r, "Wire", n) /\ Pcm' = Pcm \o Of(r, "Audio", n)
      /\ out'.log = out.log \o Prefix(Line(r), m)
      /\ out' \in [wire : Seq(Units), wave : Seq(Units), log : Seq(Units)]
      /\ summary' \in [wire : Nat, audio : Nat, events : Nat, header : Nat, patch : Nat,
                       end : Endings]
      /\ summary'.header = 4 /\ summary'.patch = 0 /\ summary'.end = summary.end
      /\ at' = Len(out'.wave) /\ 4 <= Len(out'.wave) /\ CountsTrue'
  BY <1>1, PreserveStep DEF RecordingInv
<1>3. Told' /\ HistoryCoherent'
  BY <1>2, FailedTold DEF RecordingInv
<1>4. RecordingType'
  BY <1>2 DEF RecordingInv, RecordingType, States
<1>5. Framed' /\ Completed'
  BY <1>2 DEF Framed, Completed
<1>6. Written'
  <2>1. partial' # <<>> /\ partial'[1] = r
    OBVIOUS
  <2>2. Contents(r, n, m)'
    BY <1>2, Working DEF Contents
  <2> QED BY <2>1, <2>2 DEF Written
<1> QED BY <1>2, <1>3, <1>4, <1>5, <1>6 DEF RecordingInv

\* The final header is written in part, or an output is not flushed.
LEMMA PatchedFailure ==
    ASSUME RecordingInv, pc = "open", state # "Failed", NEW n \in 0..4, Patch(n),
           state' = "Failed", pc' = "dropped", UNCHANGED <<last, accepted, partial>>
    PROVE  RecordingInv'
<1>1. /\ out'.wire = out.wire /\ out'.log = out.log /\ Pcm' = Pcm
      /\ out' \in [wire : Seq(Units), wave : Seq(Units), log : Seq(Units)]
      /\ summary' \in [wire : Nat, audio : Nat, events : Nat, header : Nat, patch : Nat,
                       end : Endings]
      /\ summary'.header = 4 /\ 4 <= Len(out'.wave) /\ summary'.end = summary.end /\ CountsTrue'
  BY PatchStep DEF RecordingInv
<1>2. Told' /\ HistoryCoherent'
  BY <1>1, FailedTold DEF RecordingInv
<1>3. RecordingType'
  BY <1>1 DEF RecordingInv, RecordingType, States
<1>4. Framed' /\ Completed'
  BY <1>1 DEF Framed, Completed
<1>5. Written'
  BY <1>1, Working DEF Written
<1> QED BY <1>1, <1>2, <1>3, <1>4, <1>5 DEF RecordingInv

\* finish succeeds.
LEMMA FinishedStep ==
    ASSUME RecordingInv, Finish, Patch(4), UNCHANGED history
    PROVE  RecordingInv'
<1>1. /\ out'.wire = out.wire /\ out'.log = out.log /\ Pcm' = Pcm
      /\ out' \in [wire : Seq(Units), wave : Seq(Units), log : Seq(Units)]
      /\ summary' \in [wire : Nat, audio : Nat, events : Nat, header : Nat, patch : Nat,
                       end : Endings]
      /\ summary'.header = 4 /\ 4 <= Len(out'.wave) /\ summary'.end = summary.end /\ CountsTrue'
      /\ out'.wave = WaveHeader(summary.audio) \o Pcm
  <2>1. 4 \in 0..4
    OBVIOUS
  <2> QED BY <2>1, PatchStep DEF RecordingInv, Finish
<1>2. /\ pc' = "finished" /\ state' = state /\ state # "Failed" /\ WaveFits(summary.audio)
      /\ last' = last /\ uuid' = uuid /\ accepted' = accepted /\ partial' = partial
  BY DEF Finish, MayFinish, finishFrame, history
<1>3. Told' /\ HistoryCoherent'
  BY <1>1, <1>2 DEF RecordingInv, Told, NoneIs, HistoryCoherent
<1>4. RecordingType'
  BY <1>1, <1>2 DEF RecordingInv, RecordingType
<1>5. Framed'
  BY <1>1, <1>2 DEF Framed
<1>6. Completed'
  <2>1. flushed' = {"wire", "wave", "log"}
    BY DEF Finish, Flushes, ToSet
  <2>2. summary.audio = Len(Pcm)
    BY DEF RecordingInv, CountsTrue
  <2> QED BY <1>1, <1>2, <2>1, <2>2 DEF Completed
<1>7. Written'
  BY <1>1, <1>2, Working DEF Written
<1> QED BY <1>1, <1>3, <1>4, <1>5, <1>6, <1>7 DEF RecordingInv

\* The constructor writes as much of the header as its writer takes.
LEMMA ConstructedStep ==
    ASSUME RecordingInv, New, UNCHANGED history
    PROVE  RecordingInv'
<1> DEFINE H == WaveHeader(0)
<1>1. /\ pc = "new" /\ out.wave = <<>> /\ summary.patch = 0 /\ accepted = <<>>
      /\ state = "AwaitingConnection" /\ summary.header \in Nat
      /\ out \in [wire : Seq(Units), wave : Seq(Units), log : Seq(Units)]
      /\ summary \in [wire : Nat, audio : Nat, events : Nat, header : Nat, patch : Nat,
                      end : Endings]
  BY DEF RecordingInv, RecordingType, Framed, New
<1>2. H \in Seq(Units) /\ Len(H) = 4
  BY HeaderUnits
<1>3. PICK w \in WriteCount(summary.header, H) :
          /\ out' = [out EXCEPT !.wave = Prefix(H, w.n)]
          /\ at' = w.n /\ summary' = [summary EXCEPT !.header = w.n]
          /\ IF w.ok THEN pc' = "open" /\ UNCHANGED <<state, outcome>>
             ELSE pc' = "dropped" /\ Fail("Header")
  BY DEF New
<1> HIDE DEF H
<1>4. w.n \in 0..Len(H) /\ w.ok \in BOOLEAN /\ (w.ok => w.n = Len(H))
  BY <1>1, <1>2, Counting
<1> DEFINE p == Prefix(H, w.n)
<1>5. p \in Seq(Units) /\ Len(p) = w.n /\ w.n \in Nat
  <2> DEFINE k == w.n
  <2>1. k \in 0..Len(H)
    BY <1>4
  <2> HIDE DEF k
  <2>2. Prefix(H, k) \in Seq(Units) /\ Len(Prefix(H, k)) = k
    BY <1>2, <2>1, PrefixOf
  <2> QED BY <1>2, <2>1, <2>2 DEF k
<1> HIDE DEF p
<1>6. /\ out'.wire = out.wire /\ out'.log = out.log /\ out'.wave = p
      /\ out' \in [wire : Seq(Units), wave : Seq(Units), log : Seq(Units)]
  BY <1>1, <1>3, <1>5 DEF p
<1>7. /\ summary' \in [wire : Nat, audio : Nat, events : Nat, header : Nat, patch : Nat,
                       end : Endings]
      /\ summary'.header = w.n /\ summary'.patch = 0 /\ summary'.end = summary.end
      /\ summary'.wire = summary.wire /\ summary'.audio = summary.audio
      /\ summary'.events = summary.events
  BY <1>1, <1>3, <1>5
<1>8. Pcm' = <<>>
  <2>1. Len(p) \in 0..Len(p) /\ Pcm' = Rest(p, Len(p))
    BY <1>5, <1>6, <1>7 DEF Pcm, Rest
  <2>2. Rest(p, Len(p)) \in Seq(Units) /\ Len(Rest(p, Len(p))) = 0
    BY <1>5, <2>1, RestGrows
  <2> QED BY <2>1, <2>2, EmptySeq
<1>9. Pcm = <<>>
  BY <1>1, Working, NothingJoined
<1>10. /\ pc' \in {"open", "dropped"} /\ (pc' = "open" => w.ok /\ state' = state)
       /\ (state' = state \/ state' = "Failed")
  BY <1>3, <1>4 DEF Fail
<1>11. Told' /\ HistoryCoherent'
  <2>1. uuid' = uuid /\ last' = last /\ accepted' = accepted
    BY DEF New, history
  <2>2. CASE state' = state
    BY <1>7, <2>1, <2>2 DEF RecordingInv, Told, NoneIs, HistoryCoherent
  <2>3. CASE state' = "Failed"
    BY <1>7, <2>1, <2>3, FailedTold DEF RecordingInv
  <2> QED BY <1>10, <2>2, <2>3
<1>12. RecordingType'
  BY <1>6, <1>7, <1>10 DEF RecordingInv, RecordingType, States, New, history
<1>13. Framed' /\ Completed'
  BY <1>2, <1>3, <1>4, <1>5, <1>6, <1>7, <1>10 DEF Framed, Completed
<1>14. CountsTrue'
  BY <1>6, <1>7, <1>8, <1>9 DEF RecordingInv, CountsTrue
<1>15. Written'
  BY <1>1, <1>6, <1>8, <1>9, Working DEF Written, history
<1> QED BY <1>11, <1>12, <1>13, <1>14, <1>15 DEF RecordingInv

\* One more record: what was before it, and the identities.
LEMMA OneMore ==
    ASSUME NEW a \in Seq(Records), NEW r \in Records
    PROVE  /\ Append(a, r) \in Seq(Records) /\ Len(Append(a, r)) = Len(a) + 1
           /\ Len(a) \in Nat /\ Append(a, r)[Len(a) + 1] = r /\ Append(a, r) # <<>>
           /\ \A j \in 1..Len(a) : Append(a, r)[j] = a[j] /\ a[j] \in Records
           /\ \A k \in 0..Len(a) : Prefix(Append(a, r), k) = Prefix(a, k)
           /\ Prefix(a, Len(a)) = a
           /\ r.kind = "Started" => Names(Append(a, r)) = Names(a) \cup {r.uuid}
           /\ r.kind # "Started" => Names(Append(a, r)) = Names(a)
<1> DEFINE b == Append(a, r)
<1>1. /\ b \in Seq(Records) /\ Len(b) = Len(a) + 1 /\ Len(a) \in Nat /\ b[Len(a) + 1] = r
      /\ \A j \in 1..Len(a) : b[j] = a[j] /\ a[j] \in Records
  BY AppendProperties, LenProperties, ElementOfSeq
<1>2. b # <<>>
  BY <1>1, EmptySeq
<1> HIDE DEF b
<1>3. ASSUME NEW k \in 0..Len(a) PROVE Prefix(b, k) = Prefix(a, k)
  <2>1. k \in 0..Len(b) /\ k \in Nat /\ \A i \in 1..k : i \in 1..Len(a)
    BY <1>1
  <2> DEFINE x == Prefix(b, k)
             y == Prefix(a, k)
  <2>2. x \in Seq(Records) /\ Len(x) = k /\ \A i \in 1..k : x[i] = b[i]
    BY <1>1, <2>1, PrefixOf
  <2>3. y \in Seq(Records) /\ Len(y) = k /\ \A i \in 1..k : y[i] = a[i]
    BY <1>1, <2>1, PrefixOf
  <2> HIDE DEF x, y
  <2>4. \A i \in 1..Len(x) : x[i] = y[i]
    BY <1>1, <2>1, <2>2, <2>3
  <2>5. x = y
    BY <2>2, <2>3, <2>4, SeqEqual
  <2> QED BY <2>5 DEF x, y
<1>4. Prefix(a, Len(a)) = a
  <2>1. Len(a) \in 0..Len(a)
    BY <1>1
  <2> QED BY <2>1, PrefixOf
<1> DEFINE D(s) == {k \in 1..Len(s) : s[k].kind = "Started"}
<1>5. ASSUME r.kind = "Started" PROVE Names(b) = Names(a) \cup {r.uuid}
  <2>1. D(b) = D(a) \cup {Len(a) + 1}
    BY <1>1, <1>5
  <2>2. \A j \in D(a) : b[j].uuid = a[j].uuid
    BY <1>1
  <2> HIDE DEF D
  <2>3. {b[j].uuid : j \in D(b)} = {a[j].uuid : j \in D(a)} \cup {r.uuid}
    BY <1>1, <2>1, <2>2
  <2> QED BY <2>3 DEF Names, D
<1>6. ASSUME r.kind # "Started" PROVE Names(b) = Names(a)
  <2>1. D(b) = D(a)
    BY <1>1, <1>6
  <2>2. \A j \in D(a) : b[j].uuid = a[j].uuid
    BY <1>1
  <2> HIDE DEF D
  <2>3. {b[j].uuid : j \in D(b)} = {a[j].uuid : j \in D(a)}
    BY <2>1, <2>2
  <2> QED BY <2>3 DEF Names, D
<1> QED BY <1>1, <1>2, <1>3, <1>4, <1>5, <1>6 DEF b

\* What validate has checked of an accepted record.
LEMMA Valid ==
    ASSUME RecordingInv, NEW r \in Records, Violation(r) = "Ok"
    PROVE  /\ state \in {"AwaitingConnection", "AwaitingUuid", "Active"} /\ r.connection = Id
           /\ state = "AwaitingConnection" => r.kind = "Connected"
           /\ r.kind = "Connected" => state = "AwaitingConnection"
           /\ r.kind = "Started" => state = "AwaitingUuid"
           /\ r.kind \in {"Audio", "Dtmf"} => r.uuid = uuid /\ state = "Active"
           /\ r.kind = "Ended" => r.uuid = uuid
           /\ r.kind = "Wire" => r.offset = summary.wire
           /\ r.kind # "Wire" => last <= r.offset /\ r.offset <= summary.wire
           /\ r.offset \in Nat /\ last \in Nat /\ summary.wire = Len(Joined(accepted, "Wire"))
<1>1. /\ r.kind \in Kinds /\ r.offset \in Nat
      /\ r.kind \in {"Started", "Audio", "Dtmf"} => r.uuid # NoUuid
  BY RecordingConstants
<1>2. last \in Nat /\ summary.wire \in Nat /\ state \in States
  BY DEF RecordingInv, RecordingType
<1>3. state \notin {"Failed", "Ended"} /\ r.connection = Id
  BY DEF Violation
<1>4. (state = "AwaitingConnection" => r.kind = "Connected") /\ ~Misplaced(r)
  BY <1>3 DEF Violation
<1>5. ~Disordered(r) /\ ~Unnamed(r)
  BY <1>3, <1>4 DEF Violation
<1>6. state = "AwaitingUuid" => uuid = NoUuid
  BY DEF RecordingInv, Told
<1>7. summary.wire = Len(Joined(accepted, "Wire"))
  BY <1>3, Working DEF RecordingInv, CountsTrue
<1>8. /\ r.kind = "Wire" => r.offset = summary.wire
      /\ r.kind # "Wire" => last <= r.offset /\ r.offset <= summary.wire
  BY <1>1, <1>2, <1>4 DEF Misplaced
<1>9. /\ state \in {"AwaitingConnection", "AwaitingUuid", "Active"}
      /\ r.kind = "Connected" => state = "AwaitingConnection"
      /\ r.kind = "Started" => state = "AwaitingUuid"
  BY <1>2, <1>3, <1>5 DEF States, Disordered
<1>10. /\ r.kind \in {"Audio", "Dtmf"} => r.uuid = uuid /\ state = "Active"
       /\ r.kind = "Ended" => r.uuid = uuid
  BY <1>1, <1>4, <1>5, <1>6, <1>9 DEF Unnamed
<1> QED BY <1>1, <1>2, <1>3, <1>4, <1>7, <1>8, <1>9, <1>10

\* An accepted record may follow those before it.
LEMMA AcceptFollows ==
    ASSUME RecordingInv, NEW r \in Records, Violation(r) = "Ok"
    PROVE  Follows(r, accepted)
<1>1. Told
  BY DEF RecordingInv
<1>2. (r.kind = "Connected") = (accepted = <<>>)
  BY <1>1, Valid DEF Told
<1>3. \A j \in 1..Len(accepted) : accepted[j].kind # "Ended"
  BY <1>1, Valid DEF Told, NoneIs
<1>4. /\ r.kind = "Started" => Names(accepted) = {}
      /\ r.kind \in {"Audio", "Dtmf"} => Names(accepted) = {r.uuid}
  BY <1>1, Valid DEF Told
<1>5. r.kind = "Ended" => Names(accepted) = {r.uuid} \ {NoUuid}
  <2>1. ASSUME r.kind = "Ended" PROVE state \in {"AwaitingUuid", "Active"} /\ r.uuid = uuid
    BY <2>1, Valid
  <2> QED BY <1>1, <2>1 DEF Told
<1>6. ASSUME r.kind # "Wire"
      PROVE  \A j \in 1..Len(accepted) :
                accepted[j].kind = "Wire" \/ accepted[j].offset <= r.offset
  <2>1. ASSUME NEW j \in 1..Len(accepted), accepted[j].kind # "Wire"
        PROVE  accepted[j].offset <= r.offset
    <3>1. accepted[j].offset <= last
      BY <1>1, <2>1 DEF Told
    <3>2. accepted[j].offset \in Nat
      <4>1. accepted[j] \in Records
        BY ElementOfSeq DEF RecordingInv, RecordingType
      <4> QED BY <4>1, RecordingConstants
    <3> QED BY <1>6, <3>1, <3>2, Valid
  <2> QED BY <2>1
<1>7. /\ r.connection = Id
      /\ r.kind = "Wire" => r.offset = Len(Joined(accepted, "Wire"))
      /\ r.kind # "Wire" => r.offset <= Len(Joined(accepted, "Wire"))
  BY Valid
<1> QED BY <1>2, <1>3, <1>4, <1>5, <1>6, <1>7 DEF Follows

\* The history after a record was accepted.
LEMMA AcceptCoheres ==
    ASSUME RecordingInv, NEW r \in Records, Violation(r) = "Ok",
           accepted' = Append(accepted, r)
    PROVE  HistoryCoherent'
<1> DEFINE a == accepted
<1>1. a \in Seq(Records) /\ HistoryCoherent
  BY DEF RecordingInv, RecordingType
<1>2. Follows(r, a)
  BY AcceptFollows
<1>3. ASSUME NEW i \in 1..Len(Append(a, r))
      PROVE  Follows(Append(a, r)[i], Prefix(Append(a, r), i - 1))
  <2>1. Len(Append(a, r)) = Len(a) + 1 /\ Len(a) \in Nat
    BY <1>1, OneMore
  <2>2. CASE i \in 1..Len(a)
    <3>1. i - 1 \in 0..Len(a)
      BY <2>1, <2>2
    <3>2. Append(a, r)[i] = a[i] /\ Prefix(Append(a, r), i - 1) = Prefix(a, i - 1)
      BY <1>1, <2>2, <3>1, OneMore
    <3> QED BY <1>1, <2>2, <3>2 DEF HistoryCoherent
  <2>3. CASE i = Len(a) + 1
    <3>1. i - 1 = Len(a) /\ Len(a) \in 0..Len(a)
      BY <2>1, <2>3
    <3>2. Append(a, r)[i] = r /\ Prefix(Append(a, r), i - 1) = a
      BY <1>1, <2>3, <3>1, OneMore
    <3> QED BY <1>2, <3>2
  <2> QED BY <2>1, <2>2, <2>3
<1> QED BY <1>3 DEF HistoryCoherent

\* State, identity, offset and end after a record was accepted.
LEMMA AcceptTold ==
    ASSUME RecordingInv, NEW r \in Records, Violation(r) = "Ok",
           accepted' = Append(accepted, r), state' = NextState(r),
           last' = IF r.kind = "Wire" THEN last ELSE r.offset,
           uuid' = IF r.kind = "Started" THEN r.uuid ELSE uuid,
           summary'.end = IF r.kind = "Ended" THEN r.arg ELSE summary.end
    PROVE  Told' /\ state' \in States /\ last' \in Nat
<1> DEFINE a == accepted
           b == Append(a, r)
<1>1. a \in Seq(Records) /\ Told
  BY DEF RecordingInv, RecordingType
<1>2. /\ Len(b) = Len(a) + 1 /\ Len(a) \in Nat /\ b[Len(a) + 1] = r /\ b # <<>>
      /\ \A j \in 1..Len(a) : b[j] = a[j] /\ a[j] \in Records
      /\ r.kind = "Started" => Names(b) = Names(a) \cup {r.uuid}
      /\ r.kind # "Started" => Names(b) = Names(a)
  BY <1>1, OneMore
<1>3. accepted' = b
  OBVIOUS
<1> HIDE DEF b
<1>4. /\ r.kind = "Connected" => state' = "AwaitingUuid"
      /\ r.kind = "Started" => state' = "Active"
      /\ r.kind = "Ended" => state' = "Ended"
      /\ r.kind \notin {"Connected", "Started", "Ended"} => state' = state
  BY DEF NextState
<1>5. state' \in States /\ state' \notin {"AwaitingConnection", "Failed"}
  BY <1>4, Valid DEF States
<1>6. last' \in Nat /\ (r.kind # "Wire" => r.offset <= last') /\ last <= last'
  BY Valid
<1>7. \A j \in 1..Len(a) : a[j].kind # "Ended"
  BY <1>1, Valid DEF Told, NoneIs
<1>8. state' = "AwaitingUuid" => Names(b) = {} /\ uuid' = NoUuid
  <2>1. CASE r.kind = "Connected"
    <3>1. a = <<>> /\ uuid = NoUuid
      BY <1>1, <2>1, Valid DEF Told
    <3>2. Names(a) = {}
      BY <3>1 DEF Names
    <3> QED BY <1>2, <2>1, <3>1, <3>2
  <2>2. CASE r.kind # "Connected"
    BY <1>1, <1>2, <1>4, <2>2, Valid DEF Told
  <2> QED BY <2>1, <2>2
<1>9. state' = "Active" => Names(b) = {uuid'} /\ uuid' # NoUuid
  <2>1. CASE r.kind = "Started"
    <3>1. r.uuid # NoUuid
      BY <2>1, RecordingConstants
    <3> QED BY <1>1, <1>2, <2>1, <3>1, Valid DEF Told
  <2>2. CASE r.kind # "Started"
    BY <1>1, <1>2, <1>4, <2>2, Valid DEF Told
  <2> QED BY <2>1, <2>2
<1>10. \A j \in 1..Len(b) : j \in 1..Len(a) \/ j = Len(a) + 1
  BY <1>2
<1>11. ASSUME NEW j \in 1..Len(b) PROVE b[j].kind = "Wire" \/ b[j].offset <= last'
  <2>1. CASE j = Len(a) + 1
    BY <1>2, <1>6, <2>1
  <2>2. CASE j \in 1..Len(a)
    <3>1. a[j].kind = "Wire" \/ a[j].offset <= last
      BY <1>1, <2>2 DEF Told
    <3>2. b[j] = a[j] /\ a[j].offset \in Nat
      BY <1>2, <2>2, RecordingConstants
    <3> QED BY <1>6, <3>1, <3>2, Valid
  <2> QED BY <1>10, <2>1, <2>2
<1>12. NoneIs("Ended")' <=> r.kind # "Ended"
  <2>1. Len(a) + 1 \in 1..Len(b)
    BY <1>2
  <2> QED BY <1>2, <1>3, <1>7, <1>10, <2>1 DEF NoneIs
<1>13. NoneIs("Ended") /\ summary.end = "Incomplete"
  BY <1>1, <1>7 DEF Told, NoneIs
<1>14. summary'.end = IF NoneIs("Ended")' THEN "Incomplete" ELSE accepted'[Len(accepted')].arg
  BY <1>2, <1>3, <1>12, <1>13
<1>15. state' \notin {"Ended", "Failed"} => NoneIs("Ended")'
  BY <1>4, <1>12
<1> QED BY <1>2, <1>3, <1>5, <1>6, <1>8, <1>9, <1>11, <1>14, <1>15 DEF Told

\* record succeeds.
LEMMA AcceptedStep ==
    ASSUME RecordingInv, NEW r \in Records, Violation(r) = "Ok", pc = "open", NEW e,
           e = IF r.kind = "Ended" THEN r.arg ELSE summary.end,
           Preserve(r, Len(r.bytes), Len(Line(r)), e),
           accepted' = Append(accepted, r), state' = NextState(r),
           last' = IF r.kind = "Wire" THEN last ELSE r.offset,
           uuid' = IF r.kind = "Started" THEN r.uuid ELSE uuid,
           UNCHANGED <<pc, flushed, partial>>
    PROVE  RecordingInv'
<1> DEFINE n == Len(r.bytes)
           m == Len(Line(r))
<1>1. /\ r.bytes \in Seq(Units) /\ Line(r) \in Seq(Units)
      /\ n \in 0..Len(r.bytes) /\ m \in 0..Len(Line(r))
  BY RecordUnits, LenProperties
<1>2. e \in Endings
  BY DEF RecordingInv, RecordingType, Endings
<1>3. Preserve(r, n, m, e) /\ RecordingType /\ Framed /\ CountsTrue
  BY DEF RecordingInv
<1> HIDE DEF n, m
<1>4. /\ out'.wire = out.wire \o Of(r, "Wire", n) /\ Pcm' = Pcm \o Of(r, "Audio", n)
      /\ out'.log = out.log \o Prefix(Line(r), m)
      /\ out' \in [wire : Seq(Units), wave : Seq(Units), log : Seq(Units)]
      /\ summary' \in [wire : Nat, audio : Nat, events : Nat, header : Nat, patch : Nat,
                       end : Endings]
      /\ summary'.header = 4 /\ summary'.patch = 0 /\ summary'.end = e
      /\ at' = Len(out'.wave) /\ 4 <= Len(out'.wave) /\ CountsTrue'
  BY <1>1, <1>2, <1>3, PreserveStep
<1>5. accepted \in Seq(Records) /\ accepted' \in Seq(Records)
  BY OneMore DEF RecordingInv, RecordingType
<1>6. state # "Failed"
  BY Valid
<1>7. /\ out'.wire = Joined(accepted', "Wire") /\ Pcm' = Joined(accepted', "Audio")
      /\ out'.log = Lines(accepted')
  <2>1. \A kind : Of(r, kind, n) = IF r.kind = kind THEN r.bytes ELSE <<>>
    BY <1>1, Parts DEF n
  <2>2. Prefix(Line(r), m) = Line(r)
    BY <1>1, PrefixOf DEF m
  <2>3. /\ out.wire = Joined(accepted, "Wire") /\ Pcm = Joined(accepted, "Audio")
        /\ out.log = Lines(accepted)
    BY <1>6, Working
  <2>4. \A kind : Joined(accepted', kind) = Joined(accepted, kind) \o Of(r, kind, n)
    <3>1. TAKE kind
    <3>2. Joined(Append(accepted, r), kind)
             = Joined(accepted, kind) \o (IF r.kind = kind THEN r.bytes ELSE <<>>)
      BY <1>5, JoinedGrows
    <3> QED BY <2>1, <3>2
  <2>5. Lines(accepted') = Lines(accepted) \o Line(r)
    BY <1>5, LinesGrow
  <2> QED BY <1>4, <2>2, <2>3, <2>4, <2>5
<1>8. Written'
  BY <1>6, <1>7, Working DEF Written
<1>9. Told' /\ state' \in States /\ last' \in Nat
  BY <1>4, AcceptTold
<1>10. HistoryCoherent'
  BY AcceptCoheres
<1>11. RecordingType'
  BY <1>4, <1>5, <1>9 DEF RecordingInv, RecordingType
<1>12. Framed' /\ Completed'
  BY <1>4 DEF Framed, Completed
<1> QED BY <1>4, <1>8, <1>9, <1>10, <1>11, <1>12 DEF RecordingInv

\* The calls that write a record, with what their writers accept.
LEMMA RecordStep ==
    ASSUME RecordingInv, NEW r \in Records,
           \/ Reject(r) /\ UNCHANGED history
           \/ (PayloadFails(r) \/ LineFails(r)) /\ partial' = <<r>> /\ UNCHANGED accepted
           \/ Accept(r) /\ accepted' = Append(accepted, r) /\ UNCHANGED partial
    PROVE  RecordingInv'
<1>1. /\ r.bytes \in Seq(Units) /\ Line(r) \in Seq(Units)
      /\ Len(r.bytes) \in Nat /\ Len(Line(r)) \in Nat
  BY RecordUnits, LenProperties
<1>2. summary.wire \in Nat /\ summary.audio \in Nat /\ summary.events \in Nat
  BY DEF RecordingInv, RecordingType
<1>3. ASSUME NEW p \in WritePayload(r)
      PROVE  p.n \in 0..Len(r.bytes) /\ (p.ok => p.n = Len(r.bytes))
  BY <1>1, <1>2, Counting DEF WritePayload
<1>4. ASSUME NEW w \in WriteLine(r)
      PROVE  w.n \in 0..Len(Line(r)) /\ (w.ok => w.n = Len(Line(r)))
  BY <1>1, <1>2, Counting DEF WriteLine
<1>5. ASSUME Violation(r) = "Ok" PROVE state # "Failed"
  BY <1>5, Valid
<1>6. CASE Reject(r) /\ UNCHANGED history
  BY <1>6, QuietFailure DEF Reject, Fail, history
<1>7. CASE PayloadFails(r) /\ partial' = <<r>> /\ UNCHANGED accepted
  <2>1. PICK p \in WritePayload(r) : Preserve(r, p.n, 0, summary.end)
    BY <1>7 DEF PayloadFails
  <2>2. p.n \in 0..Len(r.bytes) /\ 0 \in 0..Len(Line(r))
    BY <1>1, <1>3
  <2>3. pc = "open" /\ state # "Failed" /\ state' = "Failed" /\ UNCHANGED <<pc, last, accepted>>
    BY <1>5, <1>7 DEF PayloadFails, Fail
  <2> QED BY <1>7, <2>1, <2>2, <2>3, Midway
<1>8. CASE LineFails(r) /\ partial' = <<r>> /\ UNCHANGED accepted
  <2>1. PICK p \in WritePayload(r), w \in WriteLine(r) :
            p.ok /\ Preserve(r, p.n, w.n, summary.end)
    BY <1>8 DEF LineFails
  <2>2. p.n \in 0..Len(r.bytes) /\ p.n = Len(r.bytes) /\ w.n \in 0..Len(Line(r))
    BY <1>3, <1>4, <2>1
  <2>3. pc = "open" /\ state # "Failed" /\ state' = "Failed" /\ UNCHANGED <<pc, last, accepted>>
    BY <1>5, <1>8 DEF LineFails, Fail
  <2> QED BY <1>8, <2>1, <2>2, <2>3, Midway
<1>9. CASE Accept(r) /\ accepted' = Append(accepted, r) /\ UNCHANGED partial
  <2> DEFINE e == IF r.kind = "Ended" THEN r.arg ELSE summary.end
  <2>1. PICK p \in WritePayload(r), w \in WriteLine(r) :
            p.ok /\ w.ok /\ Preserve(r, p.n, w.n, e)
    BY <1>9 DEF Accept
  <2>2. Preserve(r, Len(r.bytes), Len(Line(r)), e)
    BY <1>3, <1>4, <2>1
  <2> QED BY <1>9, <2>2, AcceptedStep DEF Accept
<1> QED BY <1>6, <1>7, <1>8, <1>9

\* Every call keeps the invariant.
LEMMA RecordingStep ==
    ASSUME RecordingInv, [HistoryNext]_<<vars, history>>
    PROVE  RecordingInv'
<1>1. CASE New /\ UNCHANGED history
  BY <1>1, ConstructedStep
<1>2. CASE (FinishRefused \/ SeekFails) /\ UNCHANGED history
  BY <1>2, QuietFailure DEF FinishRefused, SeekFails, Fail, history, finishFrame
<1>3. ASSUME NEW w \in WritePatch, pc = "open" PROVE w.n \in 0..4 /\ (w.ok => w.n = 4)
  <2>1. summary.patch \in Nat /\ summary.audio \in Nat
    BY DEF RecordingInv, RecordingType
  <2>2. WaveHeader(summary.audio) \in Seq(Units) /\ Len(WaveHeader(summary.audio)) = 4
    BY <2>1, HeaderUnits
  <2> QED BY <2>1, <2>2, Counting DEF WritePatch
<1>4. CASE PatchFails /\ UNCHANGED history
  <2>1. PICK w \in WritePatch : Patch(w.n)
    BY <1>4 DEF PatchFails
  <2>2. w.n \in 0..4
    BY <1>3, <1>4 DEF PatchFails
  <2> QED BY <1>4, <2>1, <2>2, PatchedFailure DEF PatchFails, MayFinish, Fail, history, finishFrame
<1>5. ASSUME NEW i \in 1..Len(Flushes), FlushFails(i), UNCHANGED history
      PROVE  RecordingInv'
  <2>1. PICK w \in WritePatch : Patch(w.n)
    BY <1>5 DEF FlushFails
  <2>2. w.n \in 0..4
    BY <1>3, <1>5 DEF FlushFails
  <2> QED BY <1>5, <2>1, <2>2, PatchedFailure DEF FlushFails, MayFinish, Fail, history, finishFrame
<1>6. CASE Finish /\ UNCHANGED history
  <2>1. PICK w \in WritePatch : w.ok /\ Patch(w.n)
    BY <1>6 DEF Finish
  <2>2. Patch(4)
    BY <1>3, <1>6, <2>1 DEF Finish
  <2> QED BY <1>6, <2>2, FinishedStep
<1>7. CASE UNCHANGED <<vars, history>> \/ (Terminated /\ UNCHANGED history)
  BY <1>7, Untouched DEF Terminated
<1> QED BY <1>1, <1>2, <1>4, <1>5, <1>6, <1>7, RecordStep DEF HistoryNext

\* A new adapter has the invariant.
LEMMA RecordingStart ==
    ASSUME HistoryInit
    PROVE  RecordingInv
<1>1. Pcm = <<>>
  BY EmptySeq DEF HistoryInit, Init, Pcm
<1>2. RecordingType
  BY EmptySeq DEF HistoryInit, Init, RecordingType, States, Endings
<1>3. Framed /\ CountsTrue /\ Completed
  BY <1>1 DEF HistoryInit, Init, Framed, CountsTrue, Completed
<1>4. Written
  BY <1>1, NothingJoined DEF HistoryInit, Init, Written
<1>5. Told /\ HistoryCoherent
  BY DEF HistoryInit, Init, Told, NoneIs, HistoryCoherent
<1> QED BY <1>2, <1>3, <1>4, <1>5 DEF RecordingInv

\* The invariant is one of the adapter.
LEMMA RecordingHolds == HistorySpec => []RecordingInv
<1>1. HistoryInit => RecordingInv
  BY RecordingStart
<1>2. RecordingInv /\ [HistoryNext]_<<vars, history>> => RecordingInv'
  BY RecordingStep
<1> QED BY <1>1, <1>2, PTL DEF HistorySpec

-----------------------------------------------------------------------------
(* Results.                                                                *)

\* What follows the accepted records in a file lies between their contents and
\* those of the record that failed too.
LEMMA Bounded ==
    ASSUME NEW a \in Seq(Records), NEW r \in Records, NEW kind,
           NEW n \in 0..Len(r.bytes)
    PROVE  /\ Between(Joined(a, kind), Joined(a, kind) \o Of(r, kind, n),
                       Joined(Append(a, r), kind))
           /\ n = Len(r.bytes) => Joined(a, kind) \o Of(r, kind, n) = Joined(Append(a, r), kind)
<1> DEFINE j == Joined(a, kind)
<1>1. /\ j \in Seq(Units)
      /\ Joined(Append(a, r), kind) = j \o (IF r.kind = kind THEN r.bytes ELSE <<>>)
  BY JoinedGrows
<1>2. r.bytes \in Seq(Units) /\ <<>> \in Seq(Units) /\ 0 \in 0..Len(<<>>)
  BY RecordUnits, EmptySeq
<1>3. Prefix(<<>>, 0) = <<>>
  BY DEF Prefix
<1> HIDE DEF j
<1>4. /\ IsPrefix(j, j \o Prefix(r.bytes, n)) /\ IsPrefix(j \o Prefix(r.bytes, n), j \o r.bytes)
  BY <1>1, <1>2, PrefixesOfConcat
<1>5. IsPrefix(j, j \o <<>>) /\ IsPrefix(j \o <<>>, j \o <<>>)
  <2>1. j \o <<>> = j /\ IsPrefix(j, j)
    BY <1>1, <1>2, PrefixesOfConcat, ConcatEmptySeq
  <2> QED BY <2>1
<1>6. n = Len(r.bytes) => Of(r, kind, n) = IF r.kind = kind THEN r.bytes ELSE <<>>
  BY Parts
<1> QED BY <1>1, <1>4, <1>5, <1>6 DEF Between, Of, j

\* The same of the lines.
LEMMA LinesBounded ==
    ASSUME NEW a \in Seq(Records), NEW r \in Records, NEW m \in 0..Len(Line(r))
    PROVE  /\ Between(Lines(a), Lines(a) \o Prefix(Line(r), m), Lines(Append(a, r)))
           /\ m = 0 => Lines(a) \o Prefix(Line(r), m) = Lines(a)
<1>1. Lines(a) \in Seq(Units) /\ Lines(Append(a, r)) = Lines(a) \o Line(r)
  BY LinesGrow
<1>2. Line(r) \in Seq(Units)
  BY RecordUnits
<1>3. m = 0 => Prefix(Line(r), m) = <<>>
  BY <1>2, PrefixOf
<1>4. Lines(a) \o <<>> = Lines(a)
  BY <1>1, ConcatEmptySeq
<1>5. /\ IsPrefix(Lines(a), Lines(a) \o Prefix(Line(r), m))
      /\ IsPrefix(Lines(a) \o Prefix(Line(r), m), Lines(a) \o Line(r))
  BY <1>1, <1>2, PrefixesOfConcat
<1> QED BY <1>1, <1>3, <1>4, <1>5 DEF Between

\* Files of records are sequences of units.
LEMMA JoinedIn ==
    ASSUME NEW a \in Seq(Records), NEW kind
    PROVE  Joined(a, kind) \in Seq(Units) /\ Lines(a) \in Seq(Units)
<1>1. CASE a = <<>>
  BY <1>1, NothingJoined, EmptySeq
<1>2. CASE a # <<>>
  <2>1. 1 \in 1..Len(a)
    BY <1>2, LenProperties, EmptySeq
  <2>2. a[1] \in Records
    BY <2>1, ElementOfSeq
  <2> QED BY <2>2, JoinedGrows, LinesGrow
<1> QED BY <1>1, <1>2

\* What the invariant says of the outputs and the counts.
LEMMA SummaryFollows ==
    ASSUME RecordingInv
    PROVE  SummaryTrue
<1> DEFINE a == accepted
           all == accepted \o partial
<1>1. a \in Seq(Records) /\ (partial = <<>> \/ \E r \in Records : partial = <<r>>)
  BY DEF RecordingInv, RecordingType
<1>2. summary.wire = Len(out.wire) /\ summary.audio = Len(Pcm) /\ summary.events = Len(out.log)
  BY DEF RecordingInv, CountsTrue
<1>3. CASE partial = <<>>
  <2>1. out.wire = Joined(a, "Wire") /\ Pcm = Joined(a, "Audio") /\ out.log = Lines(a)
    BY <1>3 DEF RecordingInv, Written
  <2>2. all = a
    BY <1>1, <1>3, ConcatEmptySeq
  <2>3. ASSUME NEW s \in Seq(Units) PROVE Between(s, s, s)
    <3>1. <<>> \in Seq(Units) /\ 0 \in 0..Len(<<>>)
      BY EmptySeq
    <3>2. IsPrefix(s, s)
      BY <3>1, PrefixesOfConcat
    <3> QED BY <3>2 DEF Between
  <2>4. Joined(a, "Wire") \in Seq(Units) /\ Joined(a, "Audio") \in Seq(Units)
        /\ Lines(a) \in Seq(Units)
    BY <1>1, JoinedIn
  <2> QED BY <1>2, <2>1, <2>2, <2>3, <2>4 DEF SummaryTrue, Pcm
<1>4. ASSUME NEW r \in Records, partial = <<r>> PROVE SummaryTrue
  <2>1. partial # <<>> /\ partial[1] = r
    BY <1>4
  <2>2. PICK n \in 0..Len(r.bytes), m \in 0..Len(Line(r)) :
            Contents(r, n, m) /\ (m = 0 \/ n = Len(r.bytes))
    BY <2>1 DEF RecordingInv, Written
  <2>3. all = Append(a, r)
    BY <1>1, <1>4, AppendIsConcat
  <2>4. /\ Between(Joined(a, "Wire"), out.wire, Joined(all, "Wire"))
        /\ n = Len(r.bytes) => out.wire = Joined(all, "Wire")
    BY <1>1, <2>2, <2>3, Bounded DEF Contents
  <2>5. /\ Between(Joined(a, "Audio"), Pcm, Joined(all, "Audio"))
        /\ n = Len(r.bytes) => Pcm = Joined(all, "Audio")
    BY <1>1, <2>2, <2>3, Bounded DEF Contents
  <2>6. Between(Lines(a), out.log, Lines(all)) /\ (m = 0 => out.log = Lines(a))
    BY <1>1, <2>2, <2>3, LinesBounded DEF Contents
  <2> QED BY <1>2, <2>2, <2>4, <2>5, <2>6 DEF SummaryTrue, Pcm
<1> QED BY <1>1, <1>3, <1>4

\* What the invariant says of a finished recording.
LEMMA FinishedFollows ==
    ASSUME RecordingInv
    PROVE  FinishedSound
<1>1. ASSUME pc = "finished"
      PROVE  /\ out.wave = WaveHeader(Len(Pcm)) \o Pcm /\ WaveFits(Len(Pcm))
             /\ state # "Failed" /\ flushed = {"wire", "wave", "log"}
             /\ partial = <<>> /\ Pcm = Joined(accepted, "Audio")
  BY <1>1, Working DEF RecordingInv, Completed
<1>2. summary.end = IF NoneIs("Ended") THEN "Incomplete" ELSE accepted[Len(accepted)].arg
  BY DEF RecordingInv, Told
<1>3. NoneIs("Ended") <=> {i \in 1..Len(accepted) : accepted[i].kind = "Ended"} = {}
  BY DEF NoneIs
<1> QED BY <1>1, <1>2, <1>3 DEF FinishedSound

\* Whatever records the caller offers and wherever a writer stops, the outputs
\* hold the accepted records followed by at most a prefix of the one that
\* failed, and the summary handed out counts exactly those units.
THEOREM SummaryIsTrue == HistorySpec => []SummaryTrue
  BY RecordingHolds, SummaryFollows, PTL

\* A recording reported as finished is a flushed WAVE file of exactly the
\* accepted PCM under a header that states its size, whatever the caller
\* offered and whatever the writers did in between.
THEOREM FinishedIsSound == HistorySpec => []FinishedSound
  BY RecordingHolds, FinishedFollows, PTL

\* The accepted records are the history of one connection in whatever order
\* the caller offers records: validate lets nothing else through.
THEOREM HistoryIsCoherent == HistorySpec => []HistoryCoherent
<1>1. RecordingInv => HistoryCoherent
  BY DEF RecordingInv
<1> QED BY <1>1, RecordingHolds, PTL
=============================================================================
