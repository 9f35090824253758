---------------------------- MODULE BudgetProofs ----------------------------
(***************************************************************************)
(* The byte account of module Budget holds for any number of payloads,     *)
(* receivers and connections: `used` and the tracker's entries are exact   *)
(* sums between any two locks, and no refund is lost.                      *)
(***************************************************************************)
EXTENDS Budget, Sums

ChargeType == [at : Stages, bytes : Nat, id : Conn \cup {Nobody},
               waker : Receiver \cup {Nobody}]

\* The stored state keeps its shape.
BudgetType ==
    /\ used \in Int /\ subscriber \in Receiver \cup {Nobody}
    /\ retained \in [Conn -> Int]
    /\ charge \in [Charge -> ChargeType]
    /\ \A c \in Charge : charge[c].at = "refunded" => charge[c].waker \in Receiver
    /\ run \in [Receiver -> {"bound", "running", "ended"}]
    /\ credit \subseteq Receiver /\ wants \in [Receiver -> Nat]

\* The subscriber is the receiver that runs, and only a receiver that runs
\* has a waiter.
SubscriberRuns ==
    \A w \in Receiver : /\ run[w] = "running" <=> subscriber = w
                        /\ wants[w] > 0 => run[w] = "running"

BudgetInv == BudgetType /\ SubscriberRuns /\ AccountExact /\ NoLostRefund

SumOf(ch, T) == SumFunctionOnSet([c \in Charge |-> ch[c].bytes], T)

\* What a step of one payload c does to the sums: the account of a set that
\* keeps its members, or that c joins or leaves.
LEMMA BytesMove ==
    ASSUME NEW old \in [Charge -> ChargeType], NEW new \in [Charge -> ChargeType],
           NEW c \in Charge, \A d \in Charge \ {c} : new[d] = old[d],
           NEW T \in SUBSET Charge
    PROVE  /\ SumOf(old, T) \in Int
           /\ c \notin T => SumOf(new, T) = SumOf(old, T)
           /\ new[c].bytes = old[c].bytes => SumOf(new, T) = SumOf(old, T)
           /\ c \notin T => SumOf(new, T \cup {c}) = SumOf(old, T) + new[c].bytes
           /\ c \in T => SumOf(new, T \ {c}) = SumOf(old, T) - old[c].bytes
<1> DEFINE f == [d \in Charge |-> old[d].bytes]
           e == [d \in Charge |-> new[d].bytes]
<1>1. f \in [Charge -> Int] /\ e \in [Charge -> Int] /\ IsFiniteSet(Charge)
  BY BudgetConstants DEF ChargeType
<1>2. \A S : SumOf(old, S) = SumFunctionOnSet(f, S) /\ SumOf(new, S) = SumFunctionOnSet(e, S)
  BY DEF SumOf
<1>3. /\ \A d \in Charge \ {c} : f[d] = e[d]
      /\ f[c] = old[c].bytes /\ e[c] = new[c].bytes
  OBVIOUS
<1> HIDE DEF f, e
<1>4. SumOf(old, T) \in Int
  BY <1>1, <1>2, SumType
<1>5. (c \notin T \/ new[c].bytes = old[c].bytes) => SumOf(new, T) = SumOf(old, T)
  BY <1>1, <1>2, <1>3, SumSame
<1>6. c \notin T => SumOf(new, T \cup {c}) = SumOf(old, T) + new[c].bytes
  BY <1>1, <1>2, <1>3, SumJoin
<1>7. c \in T => SumOf(new, T \ {c}) = SumOf(old, T) - old[c].bytes
  BY <1>1, <1>2, <1>3, SumLeave
<1>8. QED
  BY <1>4, <1>5, <1>6, <1>7

\* AccountExact in the terms of BytesMove.
LEMMA AccountForm ==
    /\ AccountExact <=> /\ used = SumOf(charge, Charged) /\ used <= Capacity
                        /\ \A id \in Conn : retained[id] = SumOf(charge, Tracked(id))
    /\ Charged \in SUBSET Charge /\ \A id : Tracked(id) \in SUBSET Charge
  BY DEF AccountExact, BytesOf, SumOf, Charged, Tracked

\* The steps of a payload c replace its record and no other.
Replaces(c, r) == /\ charge' \in [Charge -> ChargeType] /\ charge'[c] = r
                  /\ \A d \in Charge \ {c} : charge'[d] = charge[d]
Moved(c, at, waker) == [at |-> at, bytes |-> charge[c].bytes, id |-> charge[c].id,
                        waker |-> waker]

\* What RetainedTracker::retain and its release do to the record of a payload.
LEMMA TrackMoves ==
    ASSUME BudgetType, NEW c \in Charge
    PROVE  /\ Track(c) => Replaces(c, Moved(c, "owned", charge[c].waker))
           /\ Untrack(c) => Replaces(c, Moved(c, "untracked", charge[c].waker))
<1> USE DEF BudgetType, ChargeType, Stages, Replaces, Moved
<1>1. charge[c] \in ChargeType
  OBVIOUS
<1>2. Track(c) => Replaces(c, Moved(c, "owned", charge[c].waker))
  BY <1>1 DEF Track
<1>3. Untrack(c) => Replaces(c, Moved(c, "untracked", charge[c].waker))
  BY <1>1 DEF Untrack
<1>4. QED
  BY <1>2, <1>3

\* What the drop of a payload and the wake of its subscriber do to its record.
LEMMA ReleaseMoves ==
    ASSUME BudgetType, NEW c \in Charge
    PROVE  /\ Release(c) => \/ /\ charge[c].bytes = 0 \/ subscriber = Nobody
                               /\ Replaces(c, Free)
                            \/ /\ subscriber # Nobody
                               /\ Replaces(c, Moved(c, "refunded", subscriber))
           /\ Wake(c) => Replaces(c, Free)
<1> USE DEF BudgetType, ChargeType, Stages, Replaces, Moved
<1>1. charge[c] \in ChargeType /\ Free \in ChargeType
  BY DEF Free
<1>2. ASSUME Release(c), charge[c].bytes = 0 \/ subscriber = Nobody
      PROVE  Replaces(c, Free)
  BY <1>1, <1>2 DEF Release
<1>3. ASSUME Release(c), ~(charge[c].bytes = 0 \/ subscriber = Nobody)
      PROVE  Replaces(c, Moved(c, "refunded", subscriber))
  BY <1>1, <1>3 DEF Release
<1>4. Wake(c) => Replaces(c, Free)
  BY <1>1 DEF Wake
<1>5. QED
  BY <1>2, <1>3, <1>4

\* The stored state keeps its shape, and the subscriber is who runs.
LEMMA TypeStep ==
    ASSUME BudgetType, SubscriberRuns, Next
    PROVE  BudgetType' /\ SubscriberRuns'
<1> USE BudgetConstants DEF SubscriberRuns
<1>1. ASSUME NEW c \in Charge, NEW id \in Conn \cup {Nobody}, NEW n \in Sizes, Reserve(c, id, n)
      PROVE  BudgetType' /\ SubscriberRuns'
  <2>1. charge' \in [Charge -> ChargeType]
    BY <1>1 DEF Reserve, BudgetType, ChargeType, Stages
  <2>2. QED
    BY <1>1, <2>1 DEF Reserve, Available, BudgetType
<1>2. ASSUME NEW c \in Charge, Track(c) \/ Untrack(c)
      PROVE  BudgetType' /\ SubscriberRuns'
  <2>1. charge' \in [Charge -> ChargeType]
    BY <1>2, TrackMoves DEF Replaces
  <2>2. /\ Tracks(c, 1) \/ Tracks(c, -1)
        /\ UNCHANGED <<used, subscriber, run, credit, wants>>
        /\ \A d \in Charge : charge'[d].at = "refunded" => charge'[d] = charge[d]
    <3>1. /\ Tracks(c, 1) \/ Tracks(c, -1)
          /\ UNCHANGED <<used, subscriber, run, credit, wants>>
      BY <1>2, Zenon DEF Track, Untrack
    <3>2. charge'[c].at # "refunded" /\ \A d \in Charge \ {c} : charge'[d] = charge[d]
      <4>1. Replaces(c, Moved(c, "owned", charge[c].waker))
            \/ Replaces(c, Moved(c, "untracked", charge[c].waker))
        BY <1>2, TrackMoves
      <4>2. QED
        BY <4>1 DEF Replaces, Moved
    <3>3. QED
      BY <3>1, <3>2
  <2>3. charge[c].bytes \in Int /\ charge[c].id \in Conn \cup {Nobody}
    BY DEF BudgetType, ChargeType
  <2>4. retained' \in [Conn -> Int]
    BY <2>2, <2>3 DEF Tracks, BudgetType
  <2>5. QED
    BY <2>1, <2>2, <2>4 DEF BudgetType
<1>3. ASSUME NEW c \in Charge, Release(c) \/ Wake(c)
      PROVE  BudgetType' /\ SubscriberRuns'
  <2>1. charge' \in [Charge -> ChargeType]
    BY <1>3, ReleaseMoves DEF Replaces
  <2>2. charge[c].bytes \in Int /\ (charge[c].at = "refunded" => charge[c].waker \in Receiver)
    BY DEF BudgetType, ChargeType
  <2>3. /\ used' \in Int /\ credit' \subseteq Receiver
        /\ UNCHANGED <<subscriber, retained, run, wants>>
    <3>1. CASE Release(c)
      <4>1. used' = used - charge[c].bytes /\ UNCHANGED <<subscriber, retained, run, credit, wants>>
        BY <3>1, Zenon DEF Release
      <4>2. QED
        BY <2>2, <4>1 DEF BudgetType
    <3>2. CASE Wake(c)
      BY <2>2, <3>2 DEF Wake, BudgetType
    <3>3. QED
      BY <1>3, <3>1, <3>2
  <2>4. \A d \in Charge : charge'[d].at = "refunded" => charge'[d].waker \in Receiver
    <3>1. \/ Replaces(c, Free)
          \/ subscriber # Nobody /\ Replaces(c, Moved(c, "refunded", subscriber))
      BY <1>3, ReleaseMoves
    <3>2. charge'[c].at = "refunded" => charge'[c].waker \in Receiver
      BY <3>1 DEF Replaces, Moved, Free, BudgetType
    <3>3. \A d \in Charge \ {c} : charge'[d] = charge[d]
      BY <3>1, Zenon DEF Replaces
    <3>4. \A d \in Charge : charge[d].at = "refunded" => charge[d].waker \in Receiver
      BY DEF BudgetType
    <3>5. QED
      BY <3>2, <3>3, <3>4
  <2>5. QED
    BY <2>1, <2>3, <2>4 DEF BudgetType
<1>4. ASSUME NEW w \in Receiver, Subscribe(w) \/ TakeByteCredit(w) \/ Unsubscribe(w)
      PROVE  BudgetType' /\ SubscriberRuns'
  BY <1>4 DEF Subscribe, TakeByteCredit, Unsubscribe, BudgetType
<1>5. QED
  BY <1>1, <1>2, <1>3, <1>4 DEF Next

Holding == {"reserved", "owned", "untracked"}

\* The accounts after a step that replaces the record of c by r.
LEMMA AccountMove ==
    ASSUME BudgetType, NEW c \in Charge, NEW r \in ChargeType, Replaces(c, r),
           charge[c].at \in Holding /\ r.at \in Holding => r.bytes = charge[c].bytes
    PROVE  /\ SumOf(charge', Charged') =
                 SumOf(charge, Charged) - (IF charge[c].at \in Holding THEN charge[c].bytes ELSE 0)
                                        + (IF r.at \in Holding THEN r.bytes ELSE 0)
           /\ \A id \in Conn :
                 SumOf(charge', Tracked(id)') =
                    IF charge[c].at = "owned" /\ charge[c].id = id
                    THEN IF r.at = "owned" /\ r.id = id THEN SumOf(charge, Tracked(id))
                         ELSE SumOf(charge, Tracked(id)) - charge[c].bytes
                    ELSE IF r.at = "owned" /\ r.id = id
                         THEN SumOf(charge, Tracked(id)) + r.bytes
                         ELSE SumOf(charge, Tracked(id))
<1>1. /\ charge \in [Charge -> ChargeType] /\ charge' \in [Charge -> ChargeType]
      /\ charge'[c] = r /\ \A d \in Charge \ {c} : charge'[d] = charge[d]
      /\ charge[c].bytes \in Int /\ r.bytes \in Int
  BY DEF BudgetType, Replaces, ChargeType
<1>2. ASSUME NEW T \in SUBSET Charge
      PROVE  /\ SumOf(charge, T) \in Int
             /\ c \notin T => SumOf(charge', T) = SumOf(charge, T)
             /\ r.bytes = charge[c].bytes => SumOf(charge', T) = SumOf(charge, T)
             /\ c \notin T => SumOf(charge', T \cup {c}) = SumOf(charge, T) + r.bytes
             /\ c \in T => SumOf(charge', T \ {c}) = SumOf(charge, T) - charge[c].bytes
  BY <1>1, BytesMove
<1>3. SumOf(charge', Charged') =
         SumOf(charge, Charged) - (IF charge[c].at \in Holding THEN charge[c].bytes ELSE 0)
                                + (IF r.at \in Holding THEN r.bytes ELSE 0)
  <2> DEFINE T == Charged
  <2>1. T \in SUBSET Charge /\ (c \in T <=> charge[c].at \in Holding)
    BY DEF Charged, Holding
  <2>2. Charged' = IF r.at \in Holding THEN T \cup {c} ELSE T \ {c}
    BY <1>1 DEF Charged, Holding
  <2>3. /\ c \in T => T \cup {c} = T
        /\ c \notin T => T \ {c} = T
    OBVIOUS
  <2>4. /\ c \notin T => SumOf(charge', T) = SumOf(charge, T)
        /\ r.bytes = charge[c].bytes => SumOf(charge', T) = SumOf(charge, T)
        /\ c \notin T => SumOf(charge', T \cup {c}) = SumOf(charge, T) + r.bytes
        /\ c \in T => SumOf(charge', T \ {c}) = SumOf(charge, T) - charge[c].bytes
        /\ SumOf(charge, T) \in Int
    BY <1>2, <2>1
  <2> HIDE DEF T
  <2>5. CASE r.at \in Holding
    <3>1. Charged' = T \cup {c}
      BY <2>2, <2>5
    <3>2. CASE c \in T
      <4>1. SumOf(charge', Charged') = SumOf(charge, T) /\ r.bytes = charge[c].bytes
        BY <2>1, <2>3, <2>4, <2>5, <3>1, <3>2
      <4>2. QED
        BY <1>1, <2>1, <2>4, <2>5, <3>2, <4>1 DEF T
    <3>3. CASE c \notin T
      <4>1. SumOf(charge', Charged') = SumOf(charge, T) + r.bytes
        BY <2>4, <3>1, <3>3
      <4>2. QED
        BY <1>1, <2>1, <2>4, <2>5, <3>3, <4>1 DEF T
    <3>4. QED
      BY <3>2, <3>3
  <2>6. CASE r.at \notin Holding
    <3>1. Charged' = T \ {c}
      BY <2>2, <2>6
    <3>2. CASE c \in T
      <4>1. SumOf(charge', Charged') = SumOf(charge, T) - charge[c].bytes
        BY <2>4, <3>1, <3>2
      <4>2. QED
        BY <1>1, <2>1, <2>4, <2>6, <3>2, <4>1 DEF T
    <3>3. CASE c \notin T
      <4>1. SumOf(charge', Charged') = SumOf(charge, T)
        BY <2>3, <2>4, <3>1, <3>3
      <4>2. QED
        BY <1>1, <2>1, <2>4, <2>6, <3>3, <4>1 DEF T
    <3>4. QED
      BY <3>2, <3>3
  <2>7. QED
    BY <2>5, <2>6
<1>4. ASSUME NEW id \in Conn
      PROVE  SumOf(charge', Tracked(id)') =
                IF charge[c].at = "owned" /\ charge[c].id = id
                THEN IF r.at = "owned" /\ r.id = id THEN SumOf(charge, Tracked(id))
                     ELSE SumOf(charge, Tracked(id)) - charge[c].bytes
                ELSE IF r.at = "owned" /\ r.id = id
                     THEN SumOf(charge, Tracked(id)) + r.bytes
                     ELSE SumOf(charge, Tracked(id))
  <2> DEFINE T == Tracked(id)
  <2>1. T \in SUBSET Charge /\ (c \in T <=> charge[c].at = "owned" /\ charge[c].id = id)
    BY DEF Tracked
  <2>2. Tracked(id)' = IF r.at = "owned" /\ r.id = id THEN T \cup {c} ELSE T \ {c}
    BY <1>1 DEF Tracked
  <2>3. /\ c \in T => T \cup {c} = T
        /\ c \notin T => T \ {c} = T
    OBVIOUS
  <2>4. charge[c].at = "owned" /\ r.at = "owned" => r.bytes = charge[c].bytes
    BY DEF Holding
  <2>5. /\ c \notin T => SumOf(charge', T) = SumOf(charge, T)
        /\ r.bytes = charge[c].bytes => SumOf(charge', T) = SumOf(charge, T)
        /\ c \notin T => SumOf(charge', T \cup {c}) = SumOf(charge, T) + r.bytes
        /\ c \in T => SumOf(charge', T \ {c}) = SumOf(charge, T) - charge[c].bytes
    BY <1>2, <2>1
  <2> HIDE DEF T
  <2>6. CASE r.at = "owned" /\ r.id = id
    <3>1. Tracked(id)' = T \cup {c}
      BY <2>2, <2>6
    <3>2. CASE c \in T
      BY <2>1, <2>3, <2>4, <2>5, <2>6, <3>1, <3>2 DEF T
    <3>3. CASE c \notin T
      BY <2>1, <2>5, <2>6, <3>1, <3>3 DEF T
    <3>4. QED
      BY <3>2, <3>3
  <2>7. CASE ~(r.at = "owned" /\ r.id = id)
    <3>1. Tracked(id)' = T \ {c}
      BY <2>2, <2>7
    <3>2. QED
      BY <2>1, <2>3, <2>5, <2>7, <3>1 DEF T
  <2>8. QED
    BY <2>6, <2>7
<1>5. QED
  BY <1>3, <1>4

\* Every step keeps the account exact.
LEMMA AccountStep ==
    ASSUME BudgetType, AccountExact, Next
    PROVE  AccountExact'
<1>0. /\ used = SumOf(charge, Charged) /\ used <= Capacity /\ used \in Int
      /\ \A id \in Conn : retained[id] = SumOf(charge, Tracked(id))
      /\ Capacity \in Int
  BY AccountForm, BudgetConstants DEF BudgetType
<1>1. SUFFICES /\ used' = SumOf(charge', Charged') /\ used' <= Capacity
               /\ \A id \in Conn : retained'[id] = SumOf(charge', Tracked(id)')
  BY DEF AccountExact, BytesOf, SumOf
<1>2. ASSUME UNCHANGED <<used, charge, retained>>
      PROVE  /\ used' = SumOf(charge', Charged') /\ used' <= Capacity
             /\ \A id \in Conn : retained'[id] = SumOf(charge', Tracked(id)')
  BY <1>0, <1>2 DEF Charged, Tracked
<1>3. ASSUME NEW c \in Charge, NEW id \in Conn \cup {Nobody}, NEW n \in Sizes, Reserve(c, id, n)
      PROVE  /\ used' = SumOf(charge', Charged') /\ used' <= Capacity
             /\ \A i \in Conn : retained'[i] = SumOf(charge', Tracked(i)')
  <2>1. CASE Available(n)
    <3> DEFINE r == [at |-> "reserved", bytes |-> n, id |-> id, waker |-> Nobody]
    <3>1. r \in ChargeType /\ n \in Int
      BY BudgetConstants DEF ChargeType, Stages
    <3>2. Replaces(c, r) /\ charge[c].at = "free" /\ used' = used + n /\ used' <= Capacity
          /\ retained' = retained
      BY <1>0, <1>3, <2>1, <3>1 DEF Reserve, Available, Replaces, BudgetType
    <3>3. QED
      BY <1>0, <3>1, <3>2, AccountMove DEF Holding
  <2>2. CASE ~Available(n)
    BY <1>2, <1>3, <2>2 DEF Reserve
  <2>3. QED
    BY <2>1, <2>2
<1>4. ASSUME NEW c \in Charge, Track(c)
      PROVE  /\ used' = SumOf(charge', Charged') /\ used' <= Capacity
             /\ \A i \in Conn : retained'[i] = SumOf(charge', Tracked(i)')
  <2> DEFINE r == Moved(c, "owned", charge[c].waker)
  <2>1. charge[c].at = "reserved" /\ Tracks(c, 1) /\ used' = used
    BY <1>4, Zenon DEF Track
  <2>2. r \in ChargeType /\ Replaces(c, r) /\ r.at = "owned"
        /\ r.bytes = charge[c].bytes /\ r.id = charge[c].id /\ charge[c].bytes \in Int
    <3>1. Replaces(c, r)
      BY <1>4, TrackMoves
    <3>2. QED
      BY <3>1 DEF BudgetType, ChargeType, Stages, Moved
  <2> HIDE DEF r
  <2>3. SumOf(charge', Charged') = SumOf(charge, Charged)
    BY <1>0, <2>1, <2>2, AccountMove DEF Holding
  <2>4. \A i \in Conn : SumOf(charge', Tracked(i)') =
           IF charge[c].id = i THEN SumOf(charge, Tracked(i)) + charge[c].bytes
                               ELSE SumOf(charge, Tracked(i))
    BY <2>1, <2>2, AccountMove DEF Holding
  <2>5. \A i \in Conn : retained'[i] = IF charge[c].id = i THEN retained[i] + charge[c].bytes
                                       ELSE retained[i]
    <3> DEFINE b == charge[c].bytes
               j == charge[c].id
    <3>1. retained' = IF j = Nobody THEN retained
                      ELSE [retained EXCEPT ![j] = @ + (1) * b]
      BY <2>1 DEF Tracks
    <3>2. b \in Int /\ retained \in [Conn -> Int] /\ Nobody \notin Conn
      BY <2>2, BudgetConstants DEF BudgetType
    <3> HIDE DEF b, j
    <3>3. QED
      BY <3>1, <3>2 DEF b, j
  <2>6. QED
    BY <1>0, <2>1, <2>3, <2>4, <2>5
<1>5. ASSUME NEW c \in Charge, Untrack(c)
      PROVE  /\ used' = SumOf(charge', Charged') /\ used' <= Capacity
             /\ \A i \in Conn : retained'[i] = SumOf(charge', Tracked(i)')
  <2> DEFINE r == Moved(c, "untracked", charge[c].waker)
  <2>1. charge[c].at = "owned" /\ Tracks(c, -1) /\ used' = used
    BY <1>5, Zenon DEF Untrack
  <2>2. r \in ChargeType /\ Replaces(c, r) /\ r.at = "untracked"
        /\ r.bytes = charge[c].bytes /\ r.id = charge[c].id /\ charge[c].bytes \in Int
    <3>1. Replaces(c, r)
      BY <1>5, TrackMoves
    <3>2. QED
      BY <3>1 DEF BudgetType, ChargeType, Stages, Moved
  <2> HIDE DEF r
  <2>3. SumOf(charge', Charged') = SumOf(charge, Charged)
    BY <1>0, <2>1, <2>2, AccountMove DEF Holding
  <2>4. \A i \in Conn : SumOf(charge', Tracked(i)') =
           IF charge[c].id = i THEN SumOf(charge, Tracked(i)) - charge[c].bytes
                               ELSE SumOf(charge, Tracked(i))
    BY <2>1, <2>2, AccountMove DEF Holding
  <2>5. \A i \in Conn : retained'[i] = IF charge[c].id = i THEN retained[i] - charge[c].bytes
                                       ELSE retained[i]
    <3> DEFINE b == charge[c].bytes
               j == charge[c].id
    <3>1. retained' = IF j = Nobody THEN retained
                      ELSE [retained EXCEPT ![j] = @ + (-1) * b]
      BY <2>1 DEF Tracks
    <3>2. b \in Int /\ retained \in [Conn -> Int] /\ Nobody \notin Conn
      BY <2>2, BudgetConstants DEF BudgetType
    <3> HIDE DEF b, j
    <3>3. QED
      BY <3>1, <3>2 DEF b, j
  <2>6. QED
    BY <1>0, <2>1, <2>3, <2>4, <2>5
<1>6. ASSUME NEW c \in Charge, Release(c) \/ Wake(c)
      PROVE  /\ used' = SumOf(charge', Charged') /\ used' <= Capacity
             /\ \A i \in Conn : retained'[i] = SumOf(charge', Tracked(i)')
  <2>1. PICK r \in ChargeType : Replaces(c, r) /\ r.at \in {"free", "refunded"}
    <3>1. Replaces(c, Free) \/ Replaces(c, Moved(c, "refunded", subscriber))
      BY <1>6, ReleaseMoves
    <3>2. Free \in ChargeType /\ Free.at = "free"
          /\ Moved(c, "refunded", subscriber) \in ChargeType
          /\ Moved(c, "refunded", subscriber).at = "refunded"
      BY DEF BudgetType, ChargeType, Stages, Moved, Free
    <3>3. QED
      BY <3>1, <3>2
  <2>2. /\ retained' = retained /\ charge[c].bytes \in Nat
        /\ \/ charge[c].at = "untracked" /\ used' = used - charge[c].bytes
           \/ charge[c].at = "refunded" /\ used' = used
    <3>1. charge[c].bytes \in Nat
      BY DEF BudgetType, ChargeType
    <3>2. QED
      BY <1>6, <3>1, Zenon DEF Release, Wake
  <2>3. SumOf(charge', Charged') = used'
    BY <1>0, <2>1, <2>2, AccountMove DEF Holding
  <2>4. \A i \in Conn : SumOf(charge', Tracked(i)') = SumOf(charge, Tracked(i))
    BY <2>1, <2>2, AccountMove DEF Holding
  <2>5. QED
    BY <1>0, <2>2, <2>3, <2>4
<1>7. ASSUME NEW w \in Receiver, Subscribe(w) \/ TakeByteCredit(w) \/ Unsubscribe(w)
      PROVE  UNCHANGED <<used, charge, retained>>
  BY <1>7 DEF Subscribe, TakeByteCredit, Unsubscribe
<1>8. QED
  BY <1>2, <1>3, <1>4, <1>5, <1>6, <1>7 DEF Next

\* A step keeps the promise of refunds: a release that makes room while a
\* receiver waits finds that receiver subscribed.
LEMMA RefundStep ==
    ASSUME BudgetType, SubscriberRuns, NoLostRefund, Next
    PROVE  NoLostRefund'
<1> DEFINE Pending(w) == \E d \in Charge : charge[d].at = "refunded" /\ charge[d].waker = w
<1>1. SUFFICES ASSUME NEW w \in Receiver,
                      run'[w] = "running", wants'[w] > 0, wants'[w] <= Capacity - used'
               PROVE  w \in credit' \/ Pending(w)'
  BY DEF NoLostRefund, Available
<1>2. used \in Int /\ Capacity \in Int /\ wants \in [Receiver -> Nat]
  BY BudgetConstants DEF BudgetType
<1>3. run[w] = "running" /\ wants[w] > 0 /\ wants[w] <= Capacity - used
      => w \in credit \/ Pending(w)
  BY DEF NoLostRefund, Available
<1>4. ASSUME NEW c \in Charge, NEW id \in Conn \cup {Nobody}, NEW n \in Sizes, Reserve(c, id, n)
      PROVE  w \in credit' \/ Pending(w)'
  <2>1. run' = run /\ credit' = credit /\ charge[c].at = "free"
    BY <1>4 DEF Reserve
  <2>2. CASE Available(n)
    <3>1. n \in Nat /\ used' = used + n /\ wants' = wants
          /\ \A d \in Charge \ {c} : charge'[d] = charge[d]
      BY <1>4, <2>2, BudgetConstants DEF Reserve, BudgetType
    <3>2. QED
      BY <1>1, <1>2, <1>3, <2>1, <3>1
  <2>3. CASE ~Available(n)
    <3>1. used' = used /\ charge' = charge /\ wants' = [wants EXCEPT ![subscriber] = n]
          /\ n \in Nat /\ subscriber = w
      <4>1. used' = used /\ charge' = charge /\ wants' = [wants EXCEPT ![subscriber] = n]
            /\ n \in Nat
        BY <1>4, <2>3, BudgetConstants DEF Reserve
      <4>2. QED
        BY <1>1, <2>1, <4>1 DEF SubscriberRuns
    <3>2. QED
      BY <1>1, <1>2, <2>3, <3>1 DEF Available
  <2>4. QED
    BY <2>2, <2>3
<1>5. ASSUME NEW c \in Charge, Track(c) \/ Untrack(c)
      PROVE  w \in credit' \/ Pending(w)'
  <2>1. charge[c].at # "refunded" /\ UNCHANGED <<used, run, credit, wants>>
    BY <1>5, Zenon DEF Track, Untrack
  <2>2. \A d \in Charge \ {c} : charge'[d] = charge[d]
    BY <1>5, TrackMoves, Zenon DEF Replaces
  <2>3. QED
    BY <1>1, <1>3, <2>1, <2>2
<1>6. ASSUME NEW c \in Charge, Release(c)
      PROVE  w \in credit' \/ Pending(w)'
  <2>1. /\ charge[c].at = "untracked" /\ UNCHANGED <<subscriber, run, credit, wants>>
        /\ used' = used - charge[c].bytes
    BY <1>6, Zenon DEF Release
  <2>2. subscriber = w /\ subscriber # Nobody
    BY <1>1, <2>1, BudgetConstants DEF SubscriberRuns
  <2>3. CASE charge[c].bytes = 0
    <3>1. used' = used
      BY <1>2, <2>1, <2>3
    <3>2. \A d \in Charge \ {c} : charge'[d] = charge[d]
      BY <1>6, ReleaseMoves, Zenon DEF Replaces
    <3>3. QED
      BY <1>1, <1>3, <2>1, <3>1, <3>2
  <2>4. CASE charge[c].bytes # 0
    <3>1. Replaces(c, Moved(c, "refunded", subscriber))
      BY <1>6, <2>2, <2>4, ReleaseMoves
    <3>2. charge'[c].at = "refunded" /\ charge'[c].waker = w
      BY <2>2, <3>1 DEF Replaces, Moved
    <3>3. QED
      BY <3>2
  <2>5. QED
    BY <2>3, <2>4
<1>7. ASSUME NEW c \in Charge, Wake(c)
      PROVE  w \in credit' \/ Pending(w)'
  <2>1. UNCHANGED <<used, run, wants>> /\ credit' = credit \cup {charge[c].waker}
    BY <1>7 DEF Wake
  <2>2. \A d \in Charge \ {c} : charge'[d] = charge[d]
    BY <1>7, ReleaseMoves, Zenon DEF Replaces
  <2>3. QED
    BY <1>1, <1>3, <2>1, <2>2
<1>8. ASSUME NEW v \in Receiver, Subscribe(v) \/ TakeByteCredit(v) \/ Unsubscribe(v)
      PROVE  w \in credit' \/ Pending(w)'
  <2>1. used' = used /\ charge' = charge
    BY <1>8 DEF Subscribe, TakeByteCredit, Unsubscribe
  <2>2. CASE Subscribe(v)
    <3>1. run[w] = "running"
      BY <1>1, <2>2 DEF Subscribe, SubscriberRuns
    <3>2. QED
      BY <1>1, <1>3, <2>1, <2>2, <3>1 DEF Subscribe
  <2>3. CASE TakeByteCredit(v)
    BY <1>1, <1>2, <1>3, <2>1, <2>3 DEF TakeByteCredit
  <2>4. CASE Unsubscribe(v)
    BY <1>1, <1>2, <1>3, <2>1, <2>4 DEF Unsubscribe, BudgetType
  <2>5. QED
    BY <1>8, <2>2, <2>3, <2>4
<1>9. QED
  BY <1>4, <1>5, <1>6, <1>7, <1>8 DEF Next

\* The account starts empty.
LEMMA BudgetInit == Init => BudgetInv
<1> SUFFICES ASSUME Init PROVE BudgetInv
  OBVIOUS
<1>1. BudgetType
  BY BudgetConstants DEF Init, BudgetType, ChargeType, Stages, Free
<1>2. SubscriberRuns /\ NoLostRefund
  BY BudgetConstants DEF Init, SubscriberRuns, NoLostRefund
<1>3. AccountExact
  <2>1. Charged = {} /\ \A id \in Conn : Tracked(id) = {}
    BY DEF Init, Charged, Tracked, Free
  <2>2. SumOf(charge, {}) = 0
    <3> DEFINE f == [c \in Charge |-> charge[c].bytes]
    <3>1. f \in [Charge -> Int] /\ {} \in SUBSET Charge /\ IsFiniteSet(Charge)
      BY <1>1, BudgetConstants DEF BudgetType, ChargeType
    <3> HIDE DEF f
    <3>2. SumFunctionOnSet(f, {}) = 0
      BY <3>1, SumRec
    <3>3. QED
      BY <3>2 DEF SumOf, f
  <2>3. QED
    BY <2>1, <2>2, AccountForm, BudgetConstants DEF Init
<1>4. QED
  BY <1>1, <1>2, <1>3 DEF BudgetInv

\* Steps that change nothing.
LEMMA BudgetStutter ==
    ASSUME BudgetInv, UNCHANGED vars
    PROVE  BudgetInv'
<1>1. BudgetType' /\ SubscriberRuns' /\ NoLostRefund'
  BY DEF BudgetInv, vars, BudgetType, SubscriberRuns, NoLostRefund, Available
<1>2. AccountExact'
  BY DEF BudgetInv, vars, AccountExact, BytesOf, Charged, Tracked
<1>3. QED
  BY <1>1, <1>2 DEF BudgetInv

\* The invariant holds in every reachable state, whatever the numbers of
\* payloads, receivers and connections and whatever the payload lengths.
LEMMA BudgetInvariant == Spec => []BudgetInv
<1>1. ASSUME BudgetInv, [Next]_vars
      PROVE  BudgetInv'
  <2>1. CASE Next
    BY <1>1, <2>1, TypeStep, AccountStep, RefundStep DEF BudgetInv
  <2>2. CASE UNCHANGED vars
    BY <1>1, <2>2, BudgetStutter
  <2>3. QED
    BY <1>1, <2>1, <2>2
<1>2. QED
  BY <1>1, BudgetInit, PTL DEF Spec

\* memory.rs: `used` is at every moment the sum of the payloads charged and not
\* refunded and never exceeds the capacity, and what the tracker holds for a
\* connection is the sum of its payloads that exist.
THEOREM AccountAlwaysExact == Spec => []AccountExact
<1>1. BudgetInv => AccountExact
  BY DEF BudgetInv
<1>2. QED
  BY <1>1, BudgetInvariant, PTL

\* ByteBudget::release and the subscription: a running receiver whose waiter
\* now fits has its byte credit or a refund that is about to raise it.
THEOREM RefundsKept == Spec => []NoLostRefund
<1>1. BudgetInv => NoLostRefund
  BY DEF BudgetInv
<1>2. QED
  BY <1>1, BudgetInvariant, PTL
=============================================================================
