---------------------------- MODULE OrderProofs ----------------------------
(***************************************************************************)
(* The linked list of module Order stands for the sequence that module     *)
(* Ready uses in its place, for every set of tokens.                       *)
(***************************************************************************)
EXTENDS Order, SequenceTheorems, TLAPS

\* Every token stands at most once in s.
Distinct(s) == \A i, j \in 1..Len(s) : s[i] = s[j] => i = j

\* Without closes the gap that a token leaves, wherever it stood.
LEMMA WithoutAt ==
    ASSUME NEW s \in Seq(Token), Distinct(s), NEW k \in 1..Len(s)
    PROVE  /\ Without(s, s[k]) \in Seq(Token)
           /\ Len(Without(s, s[k])) = Len(s) - 1
           /\ \A i \in 1..(Len(s) - 1) :
                 Without(s, s[k])[i] = IF i < k THEN s[i] ELSE s[i + 1]
<1> DEFINE w == [i \in 1..(Len(s) - 1) |-> IF i < k THEN s[i] ELSE s[i + 1]]
<1>1. s[k] \in Members(s)
  BY DEF Members
<1>2. (CHOOSE i \in 1..Len(s) : s[i] = s[k]) = k
  BY DEF Distinct
<1>3. Without(s, s[k]) = w
  BY <1>1, <1>2 DEF Without
<1>4. Len(s) \in Nat /\ Len(s) - 1 \in Nat /\ k \in Nat
  OBVIOUS
<1>5. w \in [1..(Len(s) - 1) -> Token]
  <2> SUFFICES ASSUME NEW i \in 1..(Len(s) - 1)
               PROVE  (IF i < k THEN s[i] ELSE s[i + 1]) \in Token
    OBVIOUS
  <2>1. i \in 1..Len(s) /\ i + 1 \in 1..Len(s)
    BY <1>4
  <2> QED BY <2>1
<1>6. w \in Seq(Token) /\ Len(w) = Len(s) - 1
  BY <1>4, <1>5
<1> QED BY <1>3, <1>6

\* A popped FIFO is the FIFO without its first token.
LEMMA TailIsWithout ==
    ASSUME NEW s \in Seq(Token), Distinct(s), s # <<>>
    PROVE  Tail(s) = Without(s, s[1])
<1>1. 1 \in 1..Len(s)
  OBVIOUS
<1>2. /\ Without(s, s[1]) \in Seq(Token)
      /\ Len(Without(s, s[1])) = Len(s) - 1
      /\ \A i \in 1..(Len(s) - 1) : Without(s, s[1])[i] = s[i + 1]
  BY <1>1, WithoutAt
<1>3. /\ Tail(s) \in Seq(Token) /\ Len(Tail(s)) = Len(s) - 1
      /\ \A i \in 1..(Len(s) - 1) : Tail(s)[i] = s[i + 1]
  OBVIOUS
<1> QED BY <1>2, <1>3, SeqEqual

-----------------------------------------------------------------------------

\* Order::push_back of a token that is not linked.
LEMMA LinkStep ==
    ASSUME Represents, NEW t \in Token, t \notin links, Link(t),
           fifo' = PushBack(fifo, t)
    PROVE  Represents'
<1> DEFINE n == Len(fifo)
<1>1. /\ fifo \in Seq(Token) /\ n \in Nat /\ t \notin Members(fifo)
      /\ \A i \in 1..n : fifo[i] \in Token /\ fifo[i] # t
  BY DEF Represents, Members
<1>2. /\ fifo' = Append(fifo, t) /\ fifo' \in Seq(Token) /\ Len(fifo') = n + 1
      /\ \A i \in 1..n : fifo'[i] = fifo[i]
      /\ fifo'[n + 1] = t
  BY <1>1 DEF PushBack
<1>3. Distinct(fifo)'
  BY <1>1, <1>2 DEF Represents, Distinct
<1>4. links' = Members(fifo)'
  BY <1>1, <1>2 DEF Represents, Members, Link
<1>5. last = (IF n = 0 THEN None ELSE fifo[n]) /\ (last = None <=> n = 0)
  BY <1>1, NoneAssumption DEF Represents, At
<1>6. first' = At(fifo, 1)' /\ last' = At(fifo, Len(fifo))'
  BY <1>1, <1>2, <1>5 DEF Represents, At, Link
<1>7. /\ previous' = [previous EXCEPT ![t] = last]
      /\ previous' \in [Token -> Option] /\ next' \in [Token -> Option]
      /\ next'[t] = None
      /\ \A u \in Token : u # t /\ u # last => next'[u] = next[u]
      /\ n # 0 => next'[fifo[n]] = t
  BY <1>1, <1>5 DEF Represents, Link, Option
<1>8. ASSUME NEW i \in 1..Len(fifo')
      PROVE  next'[fifo'[i]] = At(fifo, i + 1)' /\ previous'[fifo'[i]] = At(fifo, i - 1)'
  <2>1. CASE i = n + 1
    <3>1. fifo'[i] = t /\ previous'[t] = last /\ At(fifo, i + 1)' = None
      BY <1>1, <1>2, <1>7, <2>1 DEF At, Represents
    <3>2. last = At(fifo, i - 1)'
      BY <1>1, <1>2, <1>5, <2>1 DEF At
    <3> QED BY <3>1, <3>2, <1>7
  <2>2. CASE i \in 1..n
    <3>1. fifo'[i] = fifo[i] /\ fifo[i] \in Token /\ fifo[i] # t
      BY <1>1, <1>2, <2>2
    <3>2. previous'[fifo[i]] = At(fifo, i - 1) /\ At(fifo, i - 1)' = At(fifo, i - 1)
      BY <1>1, <1>2, <1>7, <2>2, <3>1 DEF At, Represents
    <3>3. CASE i = n
      BY <1>1, <1>2, <1>7, <2>2, <3>1, <3>2, <3>3 DEF At
    <3>4. CASE i # n
      <4>1. fifo[i] # last
        BY <1>1, <1>5, <2>2, <3>4 DEF Represents
      <4>2. next'[fifo[i]] = At(fifo, i + 1)
        BY <1>7, <2>2, <3>1, <4>1 DEF Represents
      <4>3. At(fifo, i + 1)' = At(fifo, i + 1)
        BY <1>1, <1>2, <2>2, <3>4 DEF At
      <4> QED BY <3>1, <3>2, <4>2, <4>3
    <3> QED BY <3>3, <3>4
  <2> QED BY <1>1, <1>2, <2>1, <2>2
<1>9. ASSUME NEW u \in Token \ links' PROVE previous'[u] = None /\ next'[u] = None
  <2>1. u # t /\ u \notin links /\ u # last
    BY <1>1, <1>5, NoneAssumption DEF Link, Represents, Members
  <2> QED BY <1>7, <2>1 DEF Represents
<1> QED BY <1>2, <1>3, <1>4, <1>6, <1>7, <1>8, <1>9 DEF Represents, Distinct

\* Order::remove of a token that is linked.
LEMMA UnlinkStep ==
    ASSUME Represents, NEW k \in 1..Len(fifo), Unlink(fifo[k]),
           fifo' = Without(fifo, fifo[k])
    PROVE  Represents'
<1> DEFINE n == Len(fifo)
           t == fifo[k]
<1>1. /\ fifo \in Seq(Token) /\ n \in Nat /\ k \in Nat /\ t \in Token /\ Distinct(fifo)
      /\ \A i \in 1..n : fifo[i] \in Token /\ (fifo[i] = t <=> i = k)
      /\ None \notin Token
  BY NoneAssumption DEF Represents, Distinct
<1>2. /\ fifo' \in Seq(Token) /\ Len(fifo') = n - 1
      /\ \A i \in 1..(n - 1) : fifo'[i] = IF i < k THEN fifo[i] ELSE fifo[i + 1]
  BY <1>1, WithoutAt
<1>3. Distinct(fifo)'
  <2> SUFFICES ASSUME NEW i \in 1..(n - 1), NEW j \in 1..(n - 1), fifo'[i] = fifo'[j]
               PROVE  i = j
    BY <1>2 DEF Distinct
  <2> DEFINE up(m) == IF m < k THEN m ELSE m + 1
  <2>1. /\ up(i) \in 1..n /\ up(j) \in 1..n
        /\ fifo'[i] = fifo[up(i)] /\ fifo'[j] = fifo[up(j)]
    BY <1>1, <1>2
  <2>2. up(i) = up(j)
    BY <1>1, <2>1 DEF Distinct
  <2> QED BY <1>1, <2>2
<1>4. Members(fifo)' = Members(fifo) \ {t}
  <2>1. ASSUME NEW u \in Members(fifo)' PROVE u \in Members(fifo) \ {t}
    <3>1. PICK i \in 1..(n - 1) : fifo'[i] = u
      BY <1>2 DEF Members
    <3>2. CASE i < k
      <4>1. i \in 1..n /\ u = fifo[i] /\ i # k
        BY <1>1, <1>2, <3>1, <3>2
      <4> QED BY <1>1, <4>1 DEF Members
    <3>3. CASE ~(i < k)
      <4>1. i + 1 \in 1..n /\ u = fifo[i + 1] /\ i + 1 # k
        BY <1>1, <1>2, <3>1, <3>3
      <4> QED BY <1>1, <4>1 DEF Members
    <3> QED BY <3>2, <3>3
  <2>2. ASSUME NEW u \in Members(fifo) \ {t} PROVE u \in Members(fifo)'
    <3>1. PICK i \in 1..n : fifo[i] = u
      BY DEF Members
    <3>2. i # k
      BY <1>1, <3>1
    <3>3. CASE i < k
      <4>1. i \in 1..(n - 1) /\ fifo'[i] = u
        BY <1>1, <1>2, <3>1, <3>3
      <4> QED BY <1>2, <4>1 DEF Members
    <3>4. CASE i > k
      <4>1. i - 1 \in 1..(n - 1) /\ ~(i - 1 < k) /\ (i - 1) + 1 = i
        BY <1>1, <3>4
      <4>2. fifo'[i - 1] = u
        BY <1>2, <3>1, <4>1
      <4> QED BY <1>2, <4>1, <4>2 DEF Members
    <3> QED BY <1>1, <3>2, <3>3, <3>4
  <2> QED BY <2>1, <2>2
<1>5. t \in links /\ links = Members(fifo) /\ links' = Members(fifo)'
  BY <1>1, <1>4 DEF Represents, Members, Unlink
<1>6. /\ previous[t] = At(fifo, k - 1) /\ next[t] = At(fifo, k + 1)
      /\ (previous[t] = None <=> k = 1) /\ (next[t] = None <=> k = n)
      /\ k # 1 => previous[t] = fifo[k - 1] /\ k - 1 \in 1..n
      /\ k # n => next[t] = fifo[k + 1] /\ k + 1 \in 1..n
  BY <1>1 DEF Represents, At
<1>7. first' = At(fifo, 1)' /\ last' = At(fifo, Len(fifo))'
  <2>1. /\ first' = IF k = 1 THEN next[t] ELSE first
        /\ last' = IF k = n THEN previous[t] ELSE last
    BY <1>5, <1>6 DEF Unlink
  <2>2. first = fifo[1] /\ last = fifo[n]
    BY <1>1 DEF Represents, At
  <2>3. first' = At(fifo, 1)'
    BY <1>1, <1>2, <1>6, <2>1, <2>2 DEF At
  <2>4. last' = At(fifo, Len(fifo))'
    <3>1. CASE n = 1
      BY <1>1, <1>2, <1>6, <2>1, <3>1 DEF At
    <3>2. CASE n # 1 /\ k = n
      <4>1. n - 1 \in 1..(n - 1) /\ n - 1 < k /\ fifo'[n - 1] = fifo[n - 1]
        BY <1>1, <1>2, <3>2
      <4> QED BY <1>2, <1>6, <2>1, <3>2, <4>1 DEF At
    <3>3. CASE n # 1 /\ k # n
      <4>1. n - 1 \in 1..(n - 1) /\ ~(n - 1 < k) /\ fifo'[n - 1] = fifo[n]
        BY <1>1, <1>2, <3>3
      <4> QED BY <1>2, <2>1, <2>2, <3>3, <4>1 DEF At
    <3> QED BY <3>1, <3>2, <3>3
  <2> QED BY <2>3, <2>4
<1>8. /\ previous' \in [Token -> Option] /\ next' \in [Token -> Option]
      /\ previous'[t] = None /\ next'[t] = None
  <2>1. /\ previous \in [Token -> Option] /\ next \in [Token -> Option]
        /\ previous[t] \in Option /\ next[t] \in Option
        /\ previous[t] # t /\ next[t] # t /\ None \in Option
    BY <1>1, <1>6 DEF Represents, Option, Distinct
  <2>2. /\ next' = IF previous[t] = None THEN [next EXCEPT ![t] = None]
                   ELSE [next EXCEPT ![t] = None, ![previous[t]] = next[t]]
        /\ previous' = IF next[t] = None THEN [previous EXCEPT ![t] = None]
                       ELSE [previous EXCEPT ![t] = None, ![next[t]] = previous[t]]
    BY <1>5 DEF Unlink
  <2> HIDE DEF t
  <2> QED BY <1>1, <2>1, <2>2
<1>9. ASSUME NEW i \in 1..n, i # k
      PROVE  /\ next'[fifo[i]] = IF i = k - 1 THEN At(fifo, k + 1) ELSE At(fifo, i + 1)
             /\ previous'[fifo[i]] = IF i = k + 1 THEN At(fifo, k - 1) ELSE At(fifo, i - 1)
  <2>1. fifo[i] # t /\ fifo[i] \in Token
    BY <1>1, <1>9
  <2>2. next[fifo[i]] = At(fifo, i + 1) /\ previous[fifo[i]] = At(fifo, i - 1)
    BY DEF Represents
  <2>3. next'[fifo[i]] = IF i = k - 1 THEN At(fifo, k + 1) ELSE At(fifo, i + 1)
    <3>1. fifo[i] = previous[t] <=> i = k - 1
      BY <1>1, <1>6, <2>1 DEF Distinct
    <3>2. next'[fifo[i]] = IF fifo[i] = previous[t] THEN next[t] ELSE next[fifo[i]]
      BY <1>1, <1>5, <2>1 DEF Unlink, Represents
    <3> QED BY <1>6, <2>2, <3>1, <3>2
  <2>4. previous'[fifo[i]] = IF i = k + 1 THEN At(fifo, k - 1) ELSE At(fifo, i - 1)
    <3>1. fifo[i] = next[t] <=> i = k + 1
      BY <1>1, <1>6, <2>1 DEF Distinct
    <3>2. previous'[fifo[i]] = IF fifo[i] = next[t] THEN previous[t] ELSE previous[fifo[i]]
      BY <1>1, <1>5, <2>1 DEF Unlink, Represents
    <3> QED BY <1>6, <2>2, <3>1, <3>2
  <2> QED BY <2>3, <2>4
<1>10. ASSUME NEW i \in 1..Len(fifo')
       PROVE  next'[fifo'[i]] = At(fifo, i + 1)' /\ previous'[fifo'[i]] = At(fifo, i - 1)'
  <2>1. i \in Nat /\ i >= 1 /\ i <= n - 1
    BY <1>1, <1>2
  <2>2. CASE i < k
    <3>1. i \in 1..n /\ i # k /\ fifo'[i] = fifo[i] /\ i # k + 1
      BY <1>1, <1>2, <2>1, <2>2
    <3>2. previous'[fifo[i]] = At(fifo, i - 1)
      BY <1>9, <3>1
    <3>3. At(fifo, i - 1)' = At(fifo, i - 1)
      BY <1>1, <1>2, <2>1, <2>2 DEF At
    <3>4. next'[fifo[i]] = IF i = k - 1 THEN At(fifo, k + 1) ELSE At(fifo, i + 1)
      BY <1>9, <3>1
    <3>5. CASE i = k - 1
      <4>1. At(fifo, i + 1)' = At(fifo, k + 1)
        BY <1>1, <1>2, <2>1, <3>5 DEF At
      <4> QED BY <3>1, <3>2, <3>3, <3>4, <3>5, <4>1
    <3>6. CASE i # k - 1
      <4>1. i + 1 < k /\ i + 1 \in 1..(n - 1) /\ i + 1 \in 1..n
        BY <1>1, <2>1, <2>2, <3>6
      <4>2. At(fifo, i + 1)' = At(fifo, i + 1)
        BY <1>2, <4>1 DEF At
      <4> QED BY <3>1, <3>2, <3>3, <3>4, <3>6, <4>2
    <3> QED BY <3>5, <3>6
  <2>3. CASE ~(i < k)
    <3>1. i + 1 \in 1..n /\ i + 1 # k /\ fifo'[i] = fifo[i + 1] /\ i + 1 # k - 1
      BY <1>1, <1>2, <2>1, <2>3
    <3>2. next'[fifo[i + 1]] = At(fifo, (i + 1) + 1)
      BY <1>9, <3>1
    <3>3. At(fifo, i + 1)' = At(fifo, (i + 1) + 1)
      BY <1>1, <1>2, <2>1, <2>3 DEF At
    <3>4. previous'[fifo[i + 1]] =
             IF i + 1 = k + 1 THEN At(fifo, k - 1) ELSE At(fifo, (i + 1) - 1)
      BY <1>9, <3>1
    <3>5. At(fifo, i - 1)' = IF i + 1 = k + 1 THEN At(fifo, k - 1) ELSE At(fifo, (i + 1) - 1)
      BY <1>1, <1>2, <2>1, <2>3 DEF At
    <3> QED BY <3>1, <3>2, <3>3, <3>4, <3>5
  <2> QED BY <2>2, <2>3
<1>11. ASSUME NEW u \in Token \ links' PROVE previous'[u] = None /\ next'[u] = None
  <2>1. CASE u = t
    BY <1>8, <2>1
  <2>2. CASE u # t
    <3>1. u \notin links
      BY <1>4, <1>5, <2>2
    <3>2. u # previous[t] /\ u # next[t]
      BY <1>1, <1>5, <1>6, <3>1 DEF Members
    <3> QED BY <1>1, <1>5, <2>2, <3>1, <3>2 DEF Unlink, Represents
  <2> QED BY <2>1, <2>2
<1> QED BY <1>2, <1>3, <1>5, <1>7, <1>8, <1>10, <1>11 DEF Represents, Distinct

-----------------------------------------------------------------------------

\* Whatever is pushed, unlinked and popped in whatever order, the links of an
\* Order stand for the FIFO sequence: no token is lost, duplicated, reordered
\* or left dangling, and no neighbour that remove and push_back expect is absent.
THEOREM LinksRepresent == Spec => []Represents
<1>1. Init => Represents
  BY NoneAssumption DEF Init, Represents, At, Members, Option
<1>2. Represents /\ [Next]_vars => Represents'
  <2> SUFFICES ASSUME Represents, [Next]_vars PROVE Represents'
    OBVIOUS
  <2>1. CASE UNCHANGED vars
    BY <2>1 DEF vars, list, Represents, At, Members
  <2>2. ASSUME NEW t \in Token, t \in links, Unlink(t), fifo' = Without(fifo, t)
        PROVE  Represents'
    <3>1. PICK k \in 1..Len(fifo) : fifo[k] = t
      BY <2>2 DEF Represents, Members
    <3> QED BY <2>2, <3>1, UnlinkStep
  <2>3. ASSUME NEW t \in Token, PushBackToken(t) PROVE Represents'
    <3>1. CASE t \in links
      <4>1. UNCHANGED vars
        BY <2>3, <3>1 DEF PushBackToken, Link, PushBack, Represents, vars
      <4> QED BY <2>1, <4>1
    <3>2. CASE t \notin links
      BY <2>3, <3>2, LinkStep DEF PushBackToken
    <3> QED BY <3>1, <3>2
  <2>4. ASSUME NEW t \in Token, RemoveToken(t) PROVE Represents'
    <3>1. CASE t \notin links
      <4>1. UNCHANGED vars
        BY <2>4, <3>1 DEF RemoveToken, Unlink, Without, Represents, vars
      <4> QED BY <2>1, <4>1
    <3>2. CASE t \in links
      BY <2>2, <2>4, <3>2 DEF RemoveToken
    <3> QED BY <3>1, <3>2
  <2>5. ASSUME PopFront PROVE Represents'
    <3>1. CASE first = None
      BY <2>1, <2>5, <3>1 DEF PopFront
    <3>2. CASE first # None
      <4>1. fifo # <<>> /\ first = fifo[1] /\ first \in Token /\ first \in links
        BY <3>2 DEF Represents, At, Members
      <4>2. fifo' = Without(fifo, first)
        BY <2>5, <3>2, <4>1, TailIsWithout DEF PopFront, Represents, Distinct
      <4> QED BY <2>2, <2>5, <3>2, <4>1, <4>2 DEF PopFront
    <3> QED BY <3>1, <3>2
  <2> QED BY <2>1, <2>3, <2>4, <2>5 DEF Next
<1> QED BY <1>1, <1>2, PTL DEF Spec
=============================================================================
