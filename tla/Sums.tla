-------------------------------- MODULE Sums --------------------------------
(***************************************************************************)
(* Facts that several proofs share: finite sums, as the accounts of        *)
(* Budget, Drive, Tasks and Receiver and the positions of Stream use them, *)
(* the maximum of a finite set, and what FlattenSeq computes, as the files *)
(* of Recording and the audio of Recorded use it.                          *)
(* SumFunctionOnSet picks the elements of the set in an arbitrary order,   *)
(* so that a sum changes by the value of the element that comes or goes is *)
(* a fact to be proved, by induction on the size of the set.  Induction is *)
(* the least-number principle applied to the sizes of the sets for which   *)
(* the claim fails; FlattenSeq, a recursive function, is treated alike.    *)
(***************************************************************************)
EXTENDS Integers, Sequences, FiniteSets, FiniteSetsExt, SequencesExt,
        FiniteSetTheorems, SequenceTheorems, TLAPS

\* Every nonempty set of naturals has a least element.
LEMMA LeastNatural ==
    ASSUME NEW T \in SUBSET Nat, T # {}
    PROVE  \E n \in T : \A m \in T : n <= m
<1> DEFINE R == OpToRel(<, Nat)
<1>1. IsWellFoundedOn(R, Nat)
  BY NatLessThanWellFounded
<1>2. \A m, n \in Nat : m < n => <<m, n>> \in R
  BY DEF OpToRel
<1> HIDE DEF R
<1>3. PICK n \in T : \A m \in T : ~(<<m, n>> \in R)
  BY <1>1, WFMin
<1>4. ASSUME NEW m \in T
      PROVE  n <= m
  <2>1. m \in Nat /\ n \in Nat
    OBVIOUS
  <2>2. ~(m < n)
    BY <1>2, <1>3, <2>1, Zenon
  <2>3. QED
    BY <2>1, <2>2
<1>5. QED
  BY <1>4

\* The element a sum takes first, and the equation that defines a sum: g holds
\* the sums of the subsets.
Pick(s) == CHOOSE x \in s : TRUE
SumRule(f, g, s) == IF s = {} THEN 0 ELSE f[Pick(s)] + g[s \ {Pick(s)}]
Totals(f, g, S) == \A s \in SUBSET S : g[s] = SumRule(f, g, s)

\* The element picked from a nonempty set is one of its elements.
LEMMA PickMember ==
    ASSUME NEW s, s # {}
    PROVE  Pick(s) \in s
  BY DEF Pick

\* SumFunctionOnSet, with the folds it is made of unfolded.
LEMMA SumUnfold ==
    ASSUME NEW f, NEW S
    PROVE  SumFunctionOnSet(f, S) = (CHOOSE g : g = [s \in SUBSET S |-> SumRule(f, g, s)])[S]
  BY DEF SumFunctionOnSet, FoldFunctionOnSet, MapThenFoldSet, SumRule, Pick

\* The sums of all subsets of a finite set exist: if those of the subsets of
\* at most n - 1 elements do, so do those of at most n elements.
LEMMA SumsExist ==
    ASSUME NEW S, IsFiniteSet(S), NEW f \in [S -> Int]
    PROVE  \E g \in [SUBSET S -> Int] : \A s \in SUBSET S : g[s] = SumRule(f, g, s)
<1> DEFINE Upto(n) == {s \in SUBSET S : Cardinality(s) <= n}
           Sums(n) == {g \in [Upto(n) -> Int] : \A s \in Upto(n) : g[s] = SumRule(f, g, s)}
           Bad == {n \in Nat : Sums(n) = {}}
<1>1. \A s \in SUBSET S : IsFiniteSet(s) /\ Cardinality(s) \in Nat
  BY FS_Subset, FS_CardinalityType
<1>2. Sums(0) # {}
  <2>1. Upto(0) = {{}}
    BY <1>1, FS_EmptySet
  <2>2. [s \in Upto(0) |-> 0] \in Sums(0)
    BY <2>1 DEF SumRule
  <2>3. QED
    BY <2>2
<1>3. ASSUME NEW n \in Nat, n # 0, Sums(n - 1) # {}
      PROVE  Sums(n) # {}
  <2>1. PICK g \in [Upto(n - 1) -> Int] : \A s \in Upto(n - 1) : g[s] = SumRule(f, g, s)
    BY <1>3
  <2>2. \A s \in Upto(n) : s # {} => /\ f[Pick(s)] \in Int
                                     /\ s \ {Pick(s)} \in Upto(n - 1)
    <3>1. TAKE s \in Upto(n)
    <3>2. HAVE s # {}
    <3>3. Pick(s) \in s
      BY <3>2, PickMember
    <3>4. Cardinality(s \ {Pick(s)}) = Cardinality(s) - 1
      BY <1>1, <3>3, FS_RemoveElement
    <3>5. QED
      BY <1>1, <3>1, <3>3, <3>4
  <2> DEFINE h == [s \in Upto(n) |-> SumRule(f, g, s)]
  <2>3. \A s \in Upto(n - 1) : s \in Upto(n) /\ g[s] \in Int
    BY <1>1, <2>1
  <2>4. \A s \in Upto(n) : SumRule(f, g, s) \in Int
    BY <2>2, <2>3 DEF SumRule
  <2>5. \A s \in Upto(n - 1) : h[s] = g[s]
    BY <2>1, <2>3
  <2>6. \A s \in Upto(n) : SumRule(f, h, s) = SumRule(f, g, s)
    <3> HIDE DEF h
    <3> QED BY <2>2, <2>5 DEF SumRule
  <2>7. h \in Sums(n)
    BY <2>4, <2>6
  <2>8. QED
    BY <2>7
<1>4. Bad = {}
  <2> SUFFICES ASSUME Bad # {} PROVE FALSE
    OBVIOUS
  <2>1. PICK n \in Bad : \A m \in Bad : n <= m
    <3> HIDE DEF Sums
    <3>1. Bad \in SUBSET Nat
      OBVIOUS
    <3> HIDE DEF Bad
    <3> QED BY <3>1, LeastNatural
  <2> HIDE DEF Sums
  <2>2. n \in Nat /\ Sums(n) = {} /\ n # 0
    BY <1>2
  <2>3. n - 1 \in Nat /\ n - 1 \notin Bad
    BY <2>1, <2>2
  <2>4. QED
    BY <1>3, <2>2, <2>3
<1>5. Upto(Cardinality(S)) = SUBSET S
  BY <1>1, FS_Subset
<1>6. Sums(Cardinality(S)) # {}
  <2> HIDE DEF Sums
  <2> QED BY <1>1, <1>4
<1>7. QED
  BY <1>5, <1>6

\* A sum is determined by its equation, whatever larger set it is part of.
LEMMA SumsUnique ==
    ASSUME NEW S, IsFiniteSet(S), NEW T \in SUBSET S, NEW f,
           NEW g, Totals(f, g, S), NEW h, Totals(f, h, T)
    PROVE  \A s \in SUBSET T : g[s] = h[s]
<1> DEFINE Bad == {n \in Nat : \E s \in SUBSET T : Cardinality(s) = n /\ g[s] # h[s]}
<1>1. \A s \in SUBSET S : IsFiniteSet(s) /\ Cardinality(s) \in Nat
  BY FS_Subset, FS_CardinalityType
<1>2. SUFFICES ASSUME Bad # {} PROVE FALSE
  BY <1>1
<1>3. PICK n \in Bad : \A m \in Bad : n <= m
  <2>1. Bad \in SUBSET Nat
    OBVIOUS
  <2> HIDE DEF Bad
  <2> QED BY <1>2, <2>1, LeastNatural
<1>4. PICK s \in SUBSET T : Cardinality(s) = n /\ g[s] # h[s]
  OBVIOUS
<1>5. s # {}
  BY <1>4 DEF SumRule, Totals
<1> DEFINE r == s \ {Pick(s)}
<1>6. Pick(s) \in s
  BY <1>5, PickMember
<1>7. Cardinality(r) = n - 1
  BY <1>1, <1>4, <1>6, FS_RemoveElement
<1>8. r \in SUBSET T /\ Cardinality(r) \in Nat
  BY <1>1
<1>9. g[r] = h[r]
  <2>1. n - 1 \in Nat /\ n - 1 \notin Bad
    BY <1>3, <1>7, <1>8
  <2>2. QED
    BY <1>7, <1>8, <2>1
<1>10. g[s] = f[Pick(s)] + g[r] /\ h[s] = f[Pick(s)] + h[r]
  BY <1>4, <1>5 DEF SumRule, Totals
<1>11. QED
  BY <1>4, <1>9, <1>10

\* The sum over a set is an integer and satisfies the equation.
LEMMA SumRec ==
    ASSUME NEW S, IsFiniteSet(S), NEW f \in [S -> Int], NEW T \in SUBSET S
    PROVE  /\ SumFunctionOnSet(f, T) \in Int
           /\ T = {} => SumFunctionOnSet(f, T) = 0
           /\ T # {} => SumFunctionOnSet(f, T)
                            = f[Pick(T)] + SumFunctionOnSet(f, T \ {Pick(T)})
<1>1. PICK g \in [SUBSET S -> Int] : \A s \in SUBSET S : g[s] = SumRule(f, g, s)
  BY SumsExist
<1>2. ASSUME NEW U \in SUBSET S
      PROVE  SumFunctionOnSet(f, U) = g[U]
  <2> DEFINE IsSum(h) == h = [s \in SUBSET U |-> SumRule(f, h, s)]
  <2>1. IsSum([s \in SUBSET U |-> g[s]])
    <3> DEFINE h == [s \in SUBSET U |-> g[s]]
    <3>1. ASSUME NEW s \in SUBSET U PROVE SumRule(f, h, s) = g[s]
      <4>1. g[s] = SumRule(f, g, s)
        BY <1>1
      <4>2. h[s \ {Pick(s)}] = g[s \ {Pick(s)}]
        OBVIOUS
      <4> HIDE DEF h
      <4>3. QED
        BY <4>1, <4>2 DEF SumRule
    <3>2. QED
      BY <3>1
  <2>2. IsSum(CHOOSE h : IsSum(h))
    <3> HIDE DEF IsSum
    <3> QED BY <2>1
  <2> DEFINE k == CHOOSE h : IsSum(h)
  <2>3. SumFunctionOnSet(f, U) = k[U]
    BY SumUnfold
  <2>4. Totals(f, k, U) /\ Totals(f, g, S)
    <3> HIDE DEF k
    <3> QED BY <1>1, <2>2 DEF k, Totals
  <2> HIDE DEF k, IsSum
  <2>5. \A s \in SUBSET U : g[s] = k[s]
    BY <2>4, SumsUnique
  <2>6. QED
    BY <2>3, <2>5
<1>3. g[T] = SumRule(f, g, T) /\ g[T] \in Int
  BY <1>1
<1>4. SumFunctionOnSet(f, T \ {Pick(T)}) = g[T \ {Pick(T)}]
  BY <1>2
<1>5. QED
  BY <1>2, <1>3, <1>4 DEF SumRule

\* A sum of integers is an integer.
LEMMA SumType ==
    ASSUME NEW S, IsFiniteSet(S), NEW f \in [S -> Int], NEW T \in SUBSET S
    PROVE  SumFunctionOnSet(f, T) \in Int
  BY SumRec

\* An element that joins a set adds its value to the sum.
LEMMA SumAdd ==
    ASSUME NEW S, IsFiniteSet(S), NEW f \in [S -> Int],
           NEW T \in SUBSET S, NEW x \in S, x \notin T
    PROVE  SumFunctionOnSet(f, T \cup {x}) = SumFunctionOnSet(f, T) + f[x]
<1> DEFINE Sum(s) == SumFunctionOnSet(f, s)
           Holds(s, y) == Sum(s \cup {y}) = Sum(s) + f[y]
           Bad == {n \in Nat : \E s \in SUBSET S, y \in S :
                      Cardinality(s) = n /\ y \notin s /\ ~Holds(s, y)}
<1> HIDE DEF Sum, Holds
<1>2. \A s \in SUBSET S : IsFiniteSet(s) /\ Cardinality(s) \in Nat
  BY FS_Subset, FS_CardinalityType
<1>3. SUFFICES ASSUME Bad # {} PROVE FALSE
  <2>1. Bad = {} => Holds(T, x)
    BY <1>2
  <2>2. QED
    BY <2>1 DEF Holds, Sum
<1>4. PICK n \in Bad : \A m \in Bad : n <= m
  <2>1. Bad \in SUBSET Nat
    OBVIOUS
  <2> HIDE DEF Bad
  <2> QED BY <1>3, <2>1, LeastNatural
<1>5. PICK s \in SUBSET S, y \in S : Cardinality(s) = n /\ y \notin s /\ ~Holds(s, y)
  OBVIOUS
<1> DEFINE q == s \cup {y}
           p == Pick(q)
           r == s \ {p}
<1>6. q \in SUBSET S /\ q # {} /\ Sum(q) # Sum(s) + f[y]
  BY <1>5 DEF Holds
<1> HIDE DEF q
<1>7. p \in q
  BY <1>6, PickMember
<1>8. Sum(q) = f[p] + Sum(q \ {p})
  BY <1>6, SumRec DEF Sum
<1> HIDE DEF p
<1>9. Sum(s) \in Int /\ f[y] \in Int /\ f[p] \in Int
  BY <1>6, <1>7, SumRec DEF Sum
<1>10. CASE p = y
  <2>1. q \ {p} = s
    BY <1>5, <1>10 DEF q
  <2>2. Sum(q) = f[y] + Sum(s)
    BY <1>8, <1>10, <2>1
  <2>3. QED
    BY <1>6, <1>9, <2>2
<1>11. CASE p \in s
  <2>1. Cardinality(r) = n - 1 /\ Cardinality(r) \in Nat /\ r \in SUBSET S
    BY <1>2, <1>5, <1>11, FS_RemoveElement
  <2>2. n - 1 \in Nat /\ n - 1 \notin Bad
    <3> HIDE DEF Bad
    <3> QED BY <1>4, <2>1 DEF Bad
  <2>3. p \in S /\ p \notin r /\ y \notin r /\ r \cup {p} = s /\ q \ {p} = r \cup {y}
    BY <1>5, <1>11 DEF q
  <2>4. Holds(r, p) /\ Holds(r, y)
    BY <2>1, <2>2, <2>3
  <2>5. Sum(r) \in Int
    BY <2>1, SumRec DEF Sum
  <2>6. Sum(s) = Sum(r) + f[p] /\ Sum(q \ {p}) = Sum(r) + f[y]
    BY <2>3, <2>4 DEF Holds
  <2> HIDE DEF r
  <2>7. QED
    BY <1>6, <1>8, <1>9, <2>5, <2>6
<1>12. QED
  BY <1>7, <1>10, <1>11 DEF q

\* An element that leaves a set takes its value from the sum.
LEMMA SumRemove ==
    ASSUME NEW S, IsFiniteSet(S), NEW f \in [S -> Int],
           NEW T \in SUBSET S, NEW x \in T
    PROVE  SumFunctionOnSet(f, T \ {x}) = SumFunctionOnSet(f, T) - f[x]
<1> DEFINE r == T \ {x}
<1>1. r \in SUBSET S /\ x \in S /\ x \notin r /\ r \cup {x} = T
  OBVIOUS
<1> HIDE DEF r
<1>2. SumFunctionOnSet(f, T) = SumFunctionOnSet(f, r) + f[x]
  BY <1>1, SumAdd
<1>3. SumFunctionOnSet(f, r) \in Int /\ f[x] \in Int
  BY <1>1, SumRec
<1>4. QED
  BY <1>2, <1>3 DEF r

\* Functions that agree on a set have the same sum over it, whatever their
\* domains.
LEMMA SumAgree ==
    ASSUME NEW S, IsFiniteSet(S), NEW f \in [S -> Int],
           NEW R, IsFiniteSet(R), NEW e \in [R -> Int],
           NEW T \in SUBSET S, T \subseteq R, \A x \in T : f[x] = e[x]
    PROVE  SumFunctionOnSet(f, T) = SumFunctionOnSet(e, T)
<1> DEFINE Same(s) == SumFunctionOnSet(f, s) = SumFunctionOnSet(e, s)
           Bad == {n \in Nat : \E s \in SUBSET T : Cardinality(s) = n /\ ~Same(s)}
<1> HIDE DEF Same
<1>1. \A s \in SUBSET T : IsFiniteSet(s) /\ Cardinality(s) \in Nat
  BY FS_Subset, FS_CardinalityType
<1>2. SUFFICES ASSUME Bad # {} PROVE FALSE
  <2>1. Bad = {} => Same(T)
    BY <1>1
  <2>2. QED
    BY <2>1 DEF Same
<1>3. PICK n \in Bad : \A m \in Bad : n <= m
  <2>1. Bad \in SUBSET Nat
    OBVIOUS
  <2> HIDE DEF Bad
  <2> QED BY <1>2, <2>1, LeastNatural
<1>4. PICK s \in SUBSET T : Cardinality(s) = n /\ ~Same(s)
  OBVIOUS
<1>5. s \in SUBSET S /\ s \in SUBSET R
  OBVIOUS
<1>6. s # {}
  BY <1>4, <1>5, SumRec DEF Same
<1> DEFINE r == s \ {Pick(s)}
<1>7. Pick(s) \in s
  BY <1>6, PickMember
<1>8. Cardinality(r) = n - 1 /\ Cardinality(r) \in Nat /\ r \in SUBSET T
  BY <1>1, <1>4, <1>7, FS_RemoveElement
<1>9. Same(r)
  <2>1. n - 1 \in Nat /\ n - 1 \notin Bad
    BY <1>3, <1>8
  <2>2. QED
    BY <1>8, <2>1
<1>10. /\ SumFunctionOnSet(f, s) = f[Pick(s)] + SumFunctionOnSet(f, r)
       /\ SumFunctionOnSet(e, s) = e[Pick(s)] + SumFunctionOnSet(e, r)
  BY <1>5, <1>6, SumRec
<1>11. QED
  BY <1>4, <1>7, <1>9, <1>10 DEF Same

\* The same for functions with one domain.
LEMMA SumSame ==
    ASSUME NEW S, IsFiniteSet(S), NEW f \in [S -> Int], NEW e \in [S -> Int],
           NEW T \in SUBSET S, \A x \in T : f[x] = e[x]
    PROVE  SumFunctionOnSet(f, T) = SumFunctionOnSet(e, T)
  BY SumAgree

\* The value of one element changes the sum by as much.
LEMMA SumChange ==
    ASSUME NEW S, IsFiniteSet(S), NEW f \in [S -> Int], NEW e \in [S -> Int],
           NEW x \in S, \A y \in S \ {x} : f[y] = e[y]
    PROVE  SumFunctionOnSet(e, S) = SumFunctionOnSet(f, S) - f[x] + e[x]
<1> DEFINE T == S \ {x}
<1>1. T \in SUBSET S /\ T \cup {x} = S /\ x \notin T /\ \A y \in T : f[y] = e[y]
  OBVIOUS
<1> HIDE DEF T
<1>2. SumFunctionOnSet(e, S) = SumFunctionOnSet(e, T) + e[x]
  BY <1>1, SumAdd
<1>3. SumFunctionOnSet(f, S) = SumFunctionOnSet(f, T) + f[x]
  BY <1>1, SumAdd
<1>4. SumFunctionOnSet(f, T) = SumFunctionOnSet(e, T)
  BY <1>1, SumSame
<1>5. SumFunctionOnSet(f, T) \in Int /\ f[x] \in Int /\ e[x] \in Int
  BY <1>1, SumRec
<1>6. QED
  BY <1>2, <1>3, <1>4, <1>5

\* A sum of naturals is a natural.
LEMMA SumNat ==
    ASSUME NEW S, IsFiniteSet(S), NEW f \in [S -> Int],
           NEW T \in SUBSET S, \A x \in T : f[x] >= 0
    PROVE  SumFunctionOnSet(f, T) \in Nat
<1> DEFINE Sum(s) == SumFunctionOnSet(f, s)
           Bad == {n \in Nat : \E s \in SUBSET T : Cardinality(s) = n /\ Sum(s) \notin Nat}
<1> HIDE DEF Sum
<1>1. \A s \in SUBSET T : IsFiniteSet(s) /\ Cardinality(s) \in Nat
  BY FS_Subset, FS_CardinalityType
<1>2. SUFFICES ASSUME Bad # {} PROVE FALSE
  <2>1. Bad = {} => Sum(T) \in Nat
    BY <1>1
  <2>2. QED
    BY <2>1 DEF Sum
<1>3. PICK n \in Bad : \A m \in Bad : n <= m
  <2>1. Bad \in SUBSET Nat
    OBVIOUS
  <2> HIDE DEF Bad
  <2> QED BY <1>2, <2>1, LeastNatural
<1>4. PICK s \in SUBSET T : Cardinality(s) = n /\ Sum(s) \notin Nat
  OBVIOUS
<1>5. s \in SUBSET S
  OBVIOUS
<1>6. s # {}
  <2>1. s = {} => Sum(s) = 0
    BY <1>5, SumRec DEF Sum
  <2>2. QED
    BY <1>4, <2>1
<1> DEFINE r == s \ {Pick(s)}
<1>7. Pick(s) \in s
  BY <1>6, PickMember
<1>8. Cardinality(r) = n - 1 /\ Cardinality(r) \in Nat /\ r \in SUBSET T
  BY <1>1, <1>4, <1>7, FS_RemoveElement
<1>9. Sum(r) \in Nat
  <2>1. n - 1 \in Nat /\ n - 1 \notin Bad
    BY <1>3, <1>8
  <2>2. QED
    BY <1>8, <2>1
<1>10. Sum(s) = f[Pick(s)] + Sum(r)
  BY <1>5, <1>6, SumRec DEF Sum
<1>11. f[Pick(s)] \in Int /\ f[Pick(s)] >= 0
  BY <1>5, <1>7
<1> HIDE DEF r
<1>12. QED
  BY <1>4, <1>9, <1>10, <1>11

\* A sum of values that do not exceed a bound, one for each element.
LEMMA SumBound ==
    ASSUME NEW S, IsFiniteSet(S), NEW f \in [S -> Int], NEW b \in Nat,
           NEW T \in SUBSET S, \A x \in T : f[x] <= b
    PROVE  SumFunctionOnSet(f, T) <= Cardinality(T) * b
<1> DEFINE Sum(s) == SumFunctionOnSet(f, s)
           Bad == {n \in Nat : \E s \in SUBSET T : Cardinality(s) = n /\ ~(Sum(s) <= n * b)}
<1> HIDE DEF Sum
<1>1. \A s \in SUBSET T : IsFiniteSet(s) /\ Cardinality(s) \in Nat
  BY FS_Subset, FS_CardinalityType
<1>2. SUFFICES ASSUME Bad # {} PROVE FALSE
  <2>1. Bad = {} => Sum(T) <= Cardinality(T) * b
    BY <1>1
  <2>2. QED
    BY <2>1 DEF Sum
<1>3. PICK n \in Bad : \A m \in Bad : n <= m
  <2>1. Bad \in SUBSET Nat
    OBVIOUS
  <2> HIDE DEF Bad
  <2> QED BY <1>2, <2>1, LeastNatural
<1>4. PICK s \in SUBSET T : Cardinality(s) = n /\ ~(Sum(s) <= n * b)
  OBVIOUS
<1>5. s \in SUBSET S /\ n \in Nat
  OBVIOUS
<1>6. s # {}
  <2>1. s = {} => Sum(s) = 0
    BY <1>5, SumRec DEF Sum
  <2> HIDE DEF Bad
  <2>2. 0 <= n * b
    BY <1>5
  <2>3. QED
    BY <1>4, <2>1, <2>2
<1> DEFINE r == s \ {Pick(s)}
<1>7. Pick(s) \in s
  BY <1>6, PickMember
<1>8. Cardinality(r) = n - 1 /\ Cardinality(r) \in Nat /\ r \in SUBSET T
  BY <1>1, <1>4, <1>7, FS_RemoveElement
<1>9. Sum(r) <= (n - 1) * b
  <2>1. n - 1 \in Nat /\ n - 1 \notin Bad
    BY <1>3, <1>8
  <2>2. QED
    BY <1>8, <2>1
<1>10. Sum(s) = f[Pick(s)] + Sum(r) /\ Sum(r) \in Int
  BY <1>5, <1>6, <1>8, SumRec DEF Sum
<1>11. f[Pick(s)] \in Int /\ f[Pick(s)] <= b
  BY <1>5, <1>7
<1> HIDE DEF r, Bad
<1>12. n * b = (n - 1) * b + b /\ (n - 1) * b \in Int
  BY <1>5
<1>13. QED
  BY <1>4, <1>9, <1>10, <1>11, <1>12

\* An element that joins a set while nothing else changes on it.
LEMMA SumJoin ==
    ASSUME NEW S, IsFiniteSet(S), NEW f \in [S -> Int], NEW e \in [S -> Int],
           NEW T \in SUBSET S, NEW x \in S, x \notin T, \A y \in T : f[y] = e[y]
    PROVE  SumFunctionOnSet(e, T \cup {x}) = SumFunctionOnSet(f, T) + e[x]
<1>1. SumFunctionOnSet(e, T \cup {x}) = SumFunctionOnSet(e, T) + e[x]
  BY SumAdd
<1>2. SumFunctionOnSet(f, T) = SumFunctionOnSet(e, T)
  BY SumSame
<1>3. QED
  BY <1>1, <1>2

\* An element that leaves a set while nothing else changes on it.
LEMMA SumLeave ==
    ASSUME NEW S, IsFiniteSet(S), NEW f \in [S -> Int], NEW e \in [S -> Int],
           NEW T \in SUBSET S, NEW x \in T, \A y \in T \ {x} : f[y] = e[y]
    PROVE  SumFunctionOnSet(e, T \ {x}) = SumFunctionOnSet(f, T) - f[x]
<1> DEFINE r == T \ {x}
<1>1. SumFunctionOnSet(f, r) = SumFunctionOnSet(f, T) - f[x]
  BY SumRemove
<1>2. r \in SUBSET S /\ \A y \in r : f[y] = e[y]
  OBVIOUS
<1> HIDE DEF r
<1>3. SumFunctionOnSet(f, r) = SumFunctionOnSet(e, r)
  BY <1>2, SumSame
<1>4. QED
  BY <1>1, <1>3 DEF r

\* Elements whose value is zero may be left out.
LEMMA SumSupport ==
    ASSUME NEW S, IsFiniteSet(S), NEW f \in [S -> Int],
           NEW T \in SUBSET S, \A x \in S \ T : f[x] = 0
    PROVE  SumFunctionOnSet(f, S) = SumFunctionOnSet(f, T)
<1> DEFINE Sum(s) == SumFunctionOnSet(f, s)
           Bad == {n \in Nat : \E s \in SUBSET (S \ T) : /\ Cardinality(s) = n
                                                         /\ Sum(T \cup s) # Sum(T)}
<1> HIDE DEF Sum
<1>1. \A s \in SUBSET (S \ T) : IsFiniteSet(s) /\ Cardinality(s) \in Nat
  BY FS_Subset, FS_CardinalityType
<1>2. SUFFICES ASSUME Bad # {} PROVE FALSE
  <2>1. Bad = {} => Sum(T \cup (S \ T)) = Sum(T)
    BY <1>1
  <2>2. T \cup (S \ T) = S
    OBVIOUS
  <2>3. QED
    BY <2>1, <2>2 DEF Sum
<1>3. PICK n \in Bad : \A m \in Bad : n <= m
  <2>1. Bad \in SUBSET Nat
    OBVIOUS
  <2> HIDE DEF Bad
  <2> QED BY <1>2, <2>1, LeastNatural
<1>4. PICK s \in SUBSET (S \ T) : Cardinality(s) = n /\ Sum(T \cup s) # Sum(T)
  OBVIOUS
<1>5. PICK x \in s : TRUE
  <2>1. s = {} => T \cup s = T
    OBVIOUS
  <2>2. QED
    BY <1>4, <2>1
<1> DEFINE r == s \ {x}
<1>6. r \in SUBSET (S \ T) /\ T \cup r \in SUBSET S /\ x \in S /\ x \notin T \cup r
      /\ (T \cup r) \cup {x} = T \cup s /\ f[x] = 0
  BY <1>5
<1>7. Cardinality(r) = n - 1
  BY <1>1, <1>4, <1>5, FS_RemoveElement
<1>8. Sum(T \cup r) = Sum(T)
  <2>1. n \in Nat /\ Cardinality(r) \in Nat
    BY <1>1, <1>6
  <2>2. n - 1 \notin Bad
    <3> HIDE DEF Bad
    <3> QED BY <1>3, <2>1
  <2>3. QED
    BY <1>6, <1>7, <2>1, <2>2
<1> HIDE DEF r, Bad
<1>9. Sum((T \cup r) \cup {x}) = Sum(T \cup r) + f[x]
  BY <1>6, SumAdd DEF Sum
<1>10. Sum(T) \in Int
  BY SumType DEF Sum
<1>11. Sum(T \cup s) = Sum(T \cup r) + f[x]
  BY <1>6, <1>9, Zenon
<1>12. QED
  BY <1>4, <1>6, <1>8, <1>10, <1>11

\* The first k numbers are the first k - 1 and k.
LEMMA Extend ==
    ASSUME NEW n \in Nat, NEW k \in 1..n
    PROVE  /\ 1..(k - 1) \in SUBSET (1..n) /\ k \notin 1..(k - 1)
           /\ (1..(k - 1)) \cup {k} = 1..k
<1>1. k \in Nat /\ k <= n
  OBVIOUS
<1>2. \A i \in 1..(k - 1) : i \in 1..n /\ i # k /\ i \in 1..k
  BY <1>1
<1>3. k \in 1..k /\ \A i \in 1..k : i \in 1..(k - 1) \/ i = k
  BY <1>1
<1> QED BY <1>2, <1>3, Zenon

\* The sum of a prefix of a sequence.
LEMMA SumPrefix ==
    ASSUME NEW n \in Nat, NEW f \in [1..n -> Int], NEW k \in 1..n
    PROVE  /\ SumFunctionOnSet(f, 1..k) = SumFunctionOnSet(f, 1..(k - 1)) + f[k]
           /\ SumFunctionOnSet(f, 1..(k - 1)) \in Int /\ f[k] \in Int
<1> DEFINE S == 1..n
           T == 1..(k - 1)
<1>1. T \in SUBSET S /\ k \notin T /\ T \cup {k} = 1..k
  BY Extend
<1>2. IsFiniteSet(S) /\ k \in S /\ f \in [S -> Int]
  BY FS_Interval
<1> HIDE DEF S, T
<1>3. SumFunctionOnSet(f, T \cup {k}) = SumFunctionOnSet(f, T) + f[k]
  BY <1>1, <1>2, SumAdd
<1>4. SumFunctionOnSet(f, T) \in Int /\ f[k] \in Int
  BY <1>1, <1>2, SumType
<1> QED BY <1>1, <1>3, <1>4 DEF T

\* The sum of a sequence is a number.
LEMMA SumSeqType ==
    ASSUME NEW s \in Seq(Int)
    PROVE  SumFunctionOnSet(s, DOMAIN s) \in Int
<1> DEFINE S == DOMAIN s
<1>1. IsFiniteSet(S) /\ s \in [S -> Int] /\ S \in SUBSET S
  <2>1. Len(s) \in Nat /\ S = 1..Len(s) /\ s \in [1..Len(s) -> Int]
    BY LenProperties
  <2>2. IsFiniteSet(1..Len(s))
    BY <2>1, FS_Interval
  <2> QED BY <2>1, <2>2
<1> HIDE DEF S
<1> QED BY <1>1, SumType DEF S

\* The sum of a sequence grows by the element appended to it.
LEMMA SumAppend ==
    ASSUME NEW s \in Seq(Int), NEW v \in Int
    PROVE  SumFunctionOnSet(Append(s, v), DOMAIN Append(s, v))
               = SumFunctionOnSet(s, DOMAIN s) + v
<1> DEFINE n == Len(s)
           e == Append(s, v)
<1>1. n \in Nat /\ DOMAIN s = 1..n /\ s \in [1..n -> Int]
  BY LenProperties
<1>2. /\ DOMAIN e = 1..(n + 1) /\ e \in [1..(n + 1) -> Int]
      /\ e[n + 1] = v /\ \A i \in 1..n : s[i] = e[i]
  <2>1. /\ e \in Seq(Int) /\ Len(e) = n + 1
        /\ e[n + 1] = v /\ \A i \in 1..n : e[i] = s[i]
    BY AppendProperties
  <2> HIDE DEF e
  <2>2. DOMAIN e = 1..Len(e) /\ e \in [1..Len(e) -> Int]
    BY <2>1, LenProperties
  <2> QED BY <2>1, <2>2
<1> HIDE DEF n, e
<1>3. n + 1 \in Nat /\ n + 1 \in 1..(n + 1) /\ (n + 1) - 1 = n
  BY <1>1
<1>4. SumFunctionOnSet(e, 1..(n + 1)) = SumFunctionOnSet(e, 1..n) + v
  BY <1>2, <1>3, SumPrefix
<1>5. SumFunctionOnSet(s, 1..n) = SumFunctionOnSet(e, 1..n)
  <2>1. IsFiniteSet(1..n) /\ IsFiniteSet(1..(n + 1)) /\ 1..n \in SUBSET (1..(n + 1))
    <3>1. \A i \in 1..n : i \in 1..(n + 1)
      BY <1>1
    <3>2. IsFiniteSet(1..n) /\ IsFiniteSet(1..(n + 1))
      BY <1>1, <1>3, FS_Interval
    <3> QED BY <3>1, <3>2, Zenon
  <2> DEFINE S == 1..n
             T == 1..(n + 1)
  <2>2. S \in SUBSET S
    OBVIOUS
  <2> HIDE DEF S, T
  <2> QED BY <1>1, <1>2, <2>1, <2>2, SumAgree DEF S, T
<1> QED BY <1>1, <1>2, <1>3, <1>4, <1>5 DEF e

\* The sum of a sequence loses the element that is taken from its front.
LEMMA SumTail ==
    ASSUME NEW s \in Seq(Int), s # <<>>
    PROVE  SumFunctionOnSet(Tail(s), DOMAIN Tail(s))
               = SumFunctionOnSet(s, DOMAIN s) - Head(s)
<1> DEFINE n == Len(s)
           g == Tail(s)
           Sum(k) == SumFunctionOnSet(s, 1..k)
           Rest(k) == SumFunctionOnSet(g, 1..(k - 1))
           Bad == {k \in Nat : k \in 1..n /\ Sum(k) # s[1] + Rest(k)}
<1>1. n \in Nat /\ n >= 1 /\ DOMAIN s = 1..n /\ s \in [1..n -> Int] /\ Head(s) = s[1]
  <2>1. n \in Nat /\ DOMAIN s = 1..n /\ s \in [1..n -> Int]
    BY LenProperties
  <2>2. n \in Nat \ {0}
    BY EmptySeq
  <2>3. Head(s) = s[1]
    OBVIOUS
  <2> QED BY <2>1, <2>2, <2>3
<1>2. /\ DOMAIN g = 1..(n - 1) /\ g \in [1..(n - 1) -> Int]
      /\ \A i \in 1..(n - 1) : g[i] = s[i + 1]
  <2>1. /\ g \in Seq(Int) /\ Len(g) = n - 1
        /\ \A i \in 1..Len(g) : g[i] = s[i + 1]
    BY HeadTailProperties
  <2> HIDE DEF g
  <2>2. DOMAIN g = 1..Len(g) /\ g \in [1..Len(g) -> Int]
    BY <2>1, LenProperties
  <2> QED BY <2>1, <2>2
<1> HIDE DEF n, g
<1>3. IsFiniteSet(1..n) /\ IsFiniteSet(1..(n - 1)) /\ s[1] \in Int
  BY <1>1, FS_Interval
<1>4. ASSUME NEW k \in 1..n
      PROVE  /\ Sum(k) = SumFunctionOnSet(s, 1..(k - 1)) + s[k]
             /\ SumFunctionOnSet(s, 1..(k - 1)) \in Int /\ s[k] \in Int
  BY <1>1, SumPrefix
<1>5. ASSUME NEW k \in 2..n
      PROVE  /\ Rest(k) = SumFunctionOnSet(g, 1..(k - 2)) + s[k]
             /\ SumFunctionOnSet(g, 1..(k - 2)) \in Int
  <2>1. k - 1 \in 1..(n - 1) /\ (k - 1) - 1 = k - 2 /\ (k - 1) + 1 = k
    BY <1>1
  <2>2. n - 1 \in Nat
    BY <1>1
  <2>3. /\ SumFunctionOnSet(g, 1..(k - 1)) = SumFunctionOnSet(g, 1..((k - 1) - 1)) + g[k - 1]
        /\ SumFunctionOnSet(g, 1..((k - 1) - 1)) \in Int
    BY <1>2, <2>1, <2>2, SumPrefix
  <2>4. g[k - 1] = s[k]
    BY <1>2, <2>1
  <2> QED BY <2>1, <2>3, <2>4
<1>6. Bad = {}
  <2> SUFFICES ASSUME Bad # {} PROVE FALSE
    OBVIOUS
  <2>1. PICK k \in Bad : \A m \in Bad : k <= m
    <3>1. Bad \in SUBSET Nat
      OBVIOUS
    <3> HIDE DEF Bad
    <3> QED BY <3>1, LeastNatural
  <2>2. k \in Nat /\ k \in 1..n /\ Sum(k) # s[1] + Rest(k)
    BY <2>1
  <2>3. CASE k = 1
    <3>1. 1..0 = {}
      OBVIOUS
    <3>2. SumFunctionOnSet(s, {}) = 0 /\ SumFunctionOnSet(g, {}) = 0
      <4>1. {} \in SUBSET (1..n) /\ {} \in SUBSET (1..(n - 1))
        OBVIOUS
      <4> QED BY <1>1, <1>2, <1>3, <4>1, SumRec
    <3>3. k - 1 = 0
      BY <2>3
    <3>4. Sum(k) = 0 + s[1] /\ Rest(k) = 0
      BY <1>4, <2>2, <2>3, <3>1, <3>2, <3>3
    <3> QED BY <1>3, <2>2, <3>4
  <2>4. CASE k # 1
    <3>1. k - 1 \in Nat /\ k - 1 \in 1..n /\ k \in 2..n /\ (k - 1) - 1 = k - 2
      BY <1>1, <2>2, <2>4
    <3>2. k - 1 \notin Bad
      BY <2>1, <2>2
    <3>3. Sum(k - 1) = s[1] + SumFunctionOnSet(g, 1..(k - 2))
      BY <3>1, <3>2
    <3>4. Sum(k) = Sum(k - 1) + s[k] /\ s[k] \in Int
      BY <1>4, <2>2
    <3>5. /\ Rest(k) = SumFunctionOnSet(g, 1..(k - 2)) + s[k]
          /\ SumFunctionOnSet(g, 1..(k - 2)) \in Int
      BY <1>5, <3>1
    <3> HIDE DEF Sum, Rest
    <3> QED BY <1>3, <2>2, <3>3, <3>4, <3>5
  <2> QED BY <2>3, <2>4
<1>7. n \in 1..n
  BY <1>1
<1>8. SumFunctionOnSet(s, 1..n) = s[1] + SumFunctionOnSet(g, 1..(n - 1))
  BY <1>1, <1>6, <1>7
<1>9. SumFunctionOnSet(g, 1..(n - 1)) \in Int
  <2>1. 1..(n - 1) \in SUBSET (1..(n - 1))
    OBVIOUS
  <2> QED BY <1>2, <1>3, <2>1, SumType
<1> QED BY <1>1, <1>2, <1>3, <1>8, <1>9 DEF g

\* The maximum of a nonempty finite set of naturals is one of its elements and
\* none is larger.  The least number that bounds the set from above is one.
LEMMA MaxBounds ==
    ASSUME NEW S \in SUBSET Nat, IsFiniteSet(S), S # {}
    PROVE  Max(S) \in S /\ \A n \in S : n <= Max(S)
<1> DEFINE Above(T) == {b \in Nat : \A n \in T : n <= b}
           Bad == {k \in Nat : \E T \in SUBSET S : Cardinality(T) = k /\ Above(T) = {}}
<1>1. \A T \in SUBSET S : IsFiniteSet(T) /\ Cardinality(T) \in Nat
  BY FS_Subset, FS_CardinalityType
<1>2. Bad = {}
  <2> SUFFICES ASSUME Bad # {} PROVE FALSE
    OBVIOUS
  <2>1. PICK k \in Bad : \A m \in Bad : k <= m
    BY LeastNatural
  <2>2. PICK T \in SUBSET S : Cardinality(T) = k /\ Above(T) = {}
    BY <2>1
  <2>3. T # {}
    <3>1. 0 \in Above({})
      OBVIOUS
    <3> QED BY <2>2, <3>1
  <2>4. PICK t \in T : TRUE
    BY <2>3
  <2> DEFINE r == T \ {t}
  <2>5. r \in SUBSET S /\ Cardinality(r) = k - 1 /\ k \in Nat
    <3>1. IsFiniteSet(T)
      BY <1>1
    <3>2. Cardinality(r) = Cardinality(T) - 1
      BY <2>4, <3>1, FS_RemoveElement
    <3> QED BY <2>1, <2>2, <3>2
  <2> HIDE DEF r
  <2>6. k - 1 \in Nat
    BY <1>1, <2>5
  <2>7. k - 1 \notin Bad
    BY <2>1, <2>5, <2>6
  <2>8. Above(r) # {}
    BY <2>5, <2>6, <2>7
  <2>9. PICK b \in Nat : \A n \in r : n <= b
    BY <2>8
  <2>10. t \in Nat /\ \A n \in T : n \in Nat
    OBVIOUS
  <2>11. PICK c \in Nat : b <= c /\ t <= c
    <3>1. b + t \in Nat /\ b <= b + t /\ t <= b + t
      BY <2>9, <2>10
    <3> QED BY <3>1
  <2>12. ASSUME NEW n \in T PROVE n <= c
    <3>1. CASE n = t
      BY <2>11, <3>1
    <3>2. CASE n \in r
      <4>1. n <= b /\ n \in Nat
        BY <2>9, <2>10, <3>2
      <4> QED BY <2>9, <2>11, <4>1
    <3> QED BY <3>1, <3>2 DEF r
  <2>13. c \in Above(T)
    BY <2>12
  <2> QED BY <2>2, <2>13
<1>3. Above(S) # {}
  <2>1. Cardinality(S) \notin Bad /\ Cardinality(S) \in Nat
    BY <1>1, <1>2
  <2> QED BY <2>1
<1>4. PICK b \in Above(S) : \A c \in Above(S) : b <= c
  <2>1. Above(S) \in SUBSET Nat
    OBVIOUS
  <2> HIDE DEF Above
  <2> QED BY <1>3, <2>1, LeastNatural
<1>5. b \in Nat /\ \A n \in S : n \in Nat /\ n <= b
  BY <1>4
<1>6. b \in S
  <2> SUFFICES ASSUME b \notin S PROVE FALSE
    OBVIOUS
  <2>1. PICK s \in S : TRUE
    OBVIOUS
  <2>2. b - 1 \in Nat
    <3>1. s \in Nat /\ s <= b /\ s # b
      BY <1>5
    <3> QED BY <1>5, <3>1
  <2>3. \A n \in S : n <= b - 1
    <3> SUFFICES ASSUME NEW n \in S PROVE n <= b - 1
      OBVIOUS
    <3>1. n \in Nat /\ n <= b /\ n # b
      BY <1>5
    <3> QED BY <1>5, <3>1
  <2>4. b - 1 \in Above(S)
    BY <2>2, <2>3
  <2>5. b <= b - 1
    BY <1>4, <2>4
  <2> QED BY <1>5, <2>5
<1>7. \E x \in S : \A y \in S : x >= y
  BY <1>5, <1>6
<1>8. Max(S) \in S /\ \A y \in S : Max(S) >= y
  BY <1>7 DEF Max
<1> QED BY <1>5, <1>8

-----------------------------------------------------------------------------
(* Sequences of sequences.  FlattenSeq is defined by a recursive function; *)
(* that it is one, and what it does to one more element, is proved by the  *)
(* least-number principle.                                                 *)

\* The equation of the recursive function in FlattenSeq.
Flat(s, g, i) == IF i = 1 THEN s[i] ELSE g[i - 1] \o s[i]
Solves(s, g, m) == \A i \in 1..m : g[i] = Flat(s, g, i)
Agree(s, t, m) == \A i \in 1..m : s[i] = t[i]

\* The concatenations of the first elements exist.
LEMMA FlatExists ==
    ASSUME NEW S, NEW s \in Seq(Seq(S)), Len(s) # 0
    PROVE  \E g \in [1..Len(s) -> Seq(S)] : g = [i \in 1..Len(s) |-> Flat(s, g, i)]
<1> DEFINE F(n) == {g \in [1..n -> Seq(S)] : \A i \in 1..n : g[i] = Flat(s, g, i)}
           Bad == {n \in Nat : n \in 1..Len(s) /\ F(n) = {}}
<1>0. Len(s) \in Nat /\ \A i \in 1..Len(s) : s[i] \in Seq(S)
  BY LenProperties, ElementOfSeq
<1>1. F(1) # {}
  <2> DEFINE g == [i \in 1..1 |-> s[i]]
  <2>1. \A i \in 1..1 : i = 1 /\ g[i] = s[i] /\ s[i] \in Seq(S)
    BY <1>0
  <2>2. g \in F(1)
    BY <2>1 DEF Flat
  <2> QED BY <2>2
<1>2. ASSUME NEW n \in 1..Len(s), n # 1, F(n - 1) # {}
      PROVE  F(n) # {}
  <2>1. PICK g \in [1..(n - 1) -> Seq(S)] : \A i \in 1..(n - 1) : g[i] = Flat(s, g, i)
    BY <1>2
  <2> DEFINE h == [i \in 1..n |-> Flat(s, g, i)]
  <2>2. n \in Nat /\ \A i \in 1..n : i \in 1..Len(s) /\ (i # 1 => i - 1 \in 1..(n - 1))
    BY <1>0, <1>2
  <2>3. \A i \in 1..n : Flat(s, g, i) \in Seq(S)
    <3> TAKE i \in 1..n
    <3>1. s[i] \in Seq(S)
      BY <1>0, <2>2
    <3>2. i # 1 => g[i - 1] \in Seq(S)
      BY <2>1, <2>2
    <3> QED BY <3>1, <3>2, ConcatProperties DEF Flat
  <2>4. \A i \in 1..(n - 1) : i \in 1..n /\ h[i] = g[i]
    BY <2>1, <2>2
  <2>5. \A i \in 1..n : Flat(s, h, i) = Flat(s, g, i)
    <3> HIDE DEF h
    <3> QED BY <2>2, <2>4 DEF Flat
  <2>6. h \in F(n)
    BY <2>3, <2>5
  <2> QED BY <2>6
<1>3. Bad = {}
  <2> SUFFICES ASSUME Bad # {} PROVE FALSE
    OBVIOUS
  <2> HIDE DEF F
  <2>1. Bad \in SUBSET Nat
    OBVIOUS
  <2>2. PICK n \in Bad : \A m \in Bad : n <= m
    <3> HIDE DEF Bad
    <3> QED BY <2>1, LeastNatural
  <2>3. n \in 1..Len(s) /\ n \in Nat /\ F(n) = {} /\ n # 1
    BY <1>1
  <2>4. n - 1 \in 1..Len(s) /\ n - 1 \in Nat /\ ~(n <= n - 1)
    BY <1>0, <2>3
  <2>5. n - 1 \notin Bad
    BY <2>2, <2>4
  <2> QED BY <1>2, <2>3, <2>4, <2>5
<1>4. F(Len(s)) # {}
  <2> HIDE DEF F
  <2> QED BY <1>0, <1>3
<1>5. PICK g \in [1..Len(s) -> Seq(S)] : \A i \in 1..Len(s) : g[i] = Flat(s, g, i)
  BY <1>4
<1>6. g = [i \in 1..Len(s) |-> Flat(s, g, i)]
  BY <1>5
<1> QED BY <1>6

\* They are determined by the elements.
LEMMA FlatUnique ==
    ASSUME NEW m \in Nat, NEW s, NEW t, NEW g, NEW h,
           Solves(s, g, m), Solves(t, h, m), Agree(s, t, m)
    PROVE  Agree(g, h, m)
<1> DEFINE Bad == {i \in Nat : i \in 1..m /\ g[i] # h[i]}
<1> SUFFICES ASSUME Bad # {} PROVE FALSE
  BY DEF Agree
<1>1. Bad \in SUBSET Nat
  OBVIOUS
<1>2. PICK i \in Bad : \A j \in Bad : i <= j
  <2> HIDE DEF Bad
  <2> QED BY <1>1, LeastNatural
<1>3. i \in 1..m /\ g[i] # h[i] /\ i \in Nat
  OBVIOUS
<1>4. i # 1 => i - 1 \in 1..m /\ i - 1 \in Nat /\ i - 1 \notin Bad
  BY <1>2, <1>3
<1>5. i # 1 => g[i - 1] = h[i - 1]
  BY <1>4
<1> QED BY <1>3, <1>5 DEF Flat, Solves, Agree

\* FlattenSeq of a sequence with one more element.
LEMMA FlattenAppend ==
    ASSUME NEW S, NEW s \in Seq(Seq(S)), NEW x \in Seq(S)
    PROVE  /\ FlattenSeq(s) \in Seq(S)
           /\ FlattenSeq(Append(s, x)) = FlattenSeq(s) \o x
<1> DEFINE e == Append(s, x)
<1>0. /\ e \in Seq(Seq(S)) /\ Len(e) = Len(s) + 1 /\ e[Len(e)] = x /\ Len(s) \in Nat /\ Len(e) # 0
      /\ \A i \in 1..Len(s) : e[i] = s[i]
  BY AppendProperties, LenProperties
<1> HIDE DEF e
<1>1. ASSUME NEW t \in Seq(Seq(S)), Len(t) # 0
      PROVE  \E g \in [1..Len(t) -> Seq(S)] : Solves(t, g, Len(t)) /\ FlattenSeq(t) = g[Len(t)]
  <2> DEFINE g == CHOOSE g : g = [i \in 1..Len(t) |-> Flat(t, g, i)]
  <2>1. PICK h \in [1..Len(t) -> Seq(S)] : h = [i \in 1..Len(t) |-> Flat(t, h, i)]
    BY <1>1, FlatExists
  <2>2. g = [i \in 1..Len(t) |-> Flat(t, g, i)]
    BY <2>1
  <2>3. FlattenSeq(t) = g[Len(t)]
    BY <1>1 DEF FlattenSeq, Flat
  <2> HIDE DEF g
  <2>4. Len(t) \in Nat /\ Solves(t, g, Len(t)) /\ Solves(t, h, Len(t))
    BY <2>1, <2>2, LenProperties DEF Solves
  <2>5. \A i \in 1..Len(t) : g[i] = h[i]
    <3>1. Agree(t, t, Len(t))
      BY DEF Agree
    <3> QED BY <2>4, <3>1, FlatUnique DEF Agree
  <2>6. FlattenSeq(t) = h[Len(t)]
    BY <1>1, <2>3, <2>4, <2>5
  <2> QED BY <2>4, <2>6
<1>2. PICK h \in [1..Len(e) -> Seq(S)] : Solves(e, h, Len(e)) /\ FlattenSeq(e) = h[Len(e)]
  BY <1>0, <1>1
<1>3. CASE Len(s) = 0
  <2>1. s = <<>> /\ FlattenSeq(s) = <<>>
    BY <1>3, EmptySeq DEF FlattenSeq
  <2>2. FlattenSeq(e) = x
    BY <1>0, <1>2, <1>3 DEF Flat, Solves
  <2> QED BY <2>1, <2>2, ConcatEmptySeq, EmptySeq DEF e
<1>4. CASE Len(s) # 0
  <2>1. PICK g \in [1..Len(s) -> Seq(S)] : Solves(s, g, Len(s)) /\ FlattenSeq(s) = g[Len(s)]
    BY <1>1, <1>4
  <2>2. Solves(e, h, Len(s)) /\ Agree(s, e, Len(s))
    BY <1>0, <1>2 DEF Solves, Agree
  <2>3. \A i \in 1..Len(s) : g[i] = h[i]
    <3>1. Len(s) \in Nat /\ Solves(s, g, Len(s))
      BY <1>0, <2>1
    <3>2. Agree(g, h, Len(s))
      BY <2>2, <3>1, FlatUnique
    <3> QED BY <3>2 DEF Agree
  <2>4. Len(s) \in 1..Len(s) /\ Len(e) \in 1..Len(e) /\ Len(e) # 1 /\ Len(e) - 1 = Len(s)
    BY <1>0, <1>4
  <2>5. FlattenSeq(e) = h[Len(s)] \o x
    BY <1>0, <1>2, <2>4 DEF Flat, Solves
  <2> QED BY <2>1, <2>3, <2>4, <2>5 DEF e
<1> QED BY <1>3, <1>4

\* A function on an initial segment is a sequence.
LEMMA FunctionSeq ==
    ASSUME NEW S, NEW n \in Nat, NEW f \in [1..n -> S]
    PROVE  f \in Seq(S) /\ Len(f) = n
<1>1. f \in Seq(S)
  OBVIOUS
<1>2. Len(f) = n
  <2>1. Len(f) \in Nat /\ DOMAIN f = 1..Len(f) /\ DOMAIN f = 1..n
    BY <1>1, LenProperties
  <2> QED BY <2>1
<1> QED BY <1>1, <1>2
=============================================================================
