---------------------------- MODULE TasksProofs ----------------------------
(***************************************************************************)
(* The safety properties of module Tasks, for any number of connections,   *)
(* any limits and any payload sizes: types, no lost credit, a coherent     *)
(* scheduler whose assertions hold, an Ended record that is the last, no   *)
(* lost readiness, no unnoticed signal, bounded bypass, and an exact       *)
(* account of the retained bytes.                                          *)
(***************************************************************************)
EXTENDS Tasks, Sums, FunctionTheorems

-----------------------------------------------------------------------------
(* What the scheduler operations of module Ready preserve: the shape of    *)
(* the record, who waits, and who is at the head of an admission FIFO.     *)

\* No task waits for anything in r2 that it did not wait for in r.
NoNewWait(r, r2) ==
    \A u \in Token : r2.states[u] \in WaitReason => r2.states[u] = r.states[u]

\* The head of x is the same in both, or whoever is at the head of x in r2
\* does not wait.
HeadKeptOrAwake(r, r2, x) ==
    r2.requests[x] # <<>> =>
        \/ /\ r.requests[x] # <<>>
           /\ r2.requests[x][1] = r.requests[x][1]
        \/ r2.states[r2.requests[x][1]] \notin WaitReason

-----------------------------------------------------------------------------

\* Unlinking a token from a FIFO (Order::remove) leaves a FIFO of tokens.
LEMMA WithoutType ==
    ASSUME NEW s \in Seq(Token), NEW t
    PROVE  Without(s, t) \in Seq(Token)
<1>1. CASE t \notin Members(s)
  BY <1>1 DEF Without
<1>2. CASE t \in Members(s)
  <2>1. PICK j \in 1..Len(s) : s[j] = t
    BY <1>2 DEF Members
  <2> DEFINE k == CHOOSE i \in 1..Len(s) : s[i] = t
  <2>2. k \in 1..Len(s)
    BY <2>1
  <2>3. Len(s) \in Nat /\ \A i \in 1..Len(s) : s[i] \in Token
    OBVIOUS
  <2>4. Len(s) - 1 \in Nat
    BY <2>2, <2>3
  <2> DEFINE w == [i \in 1..(Len(s) - 1) |-> IF i < k THEN s[i] ELSE s[i + 1]]
  <2>5. w \in [1..(Len(s) - 1) -> Token]
    <3> SUFFICES ASSUME NEW i \in 1..(Len(s) - 1)
                 PROVE  (IF i < k THEN s[i] ELSE s[i + 1]) \in Token
      OBVIOUS
    <3>1. i \in 1..Len(s) /\ i + 1 \in 1..Len(s)
      BY <2>3, <2>4
    <3> QED BY <3>1, <2>3
  <2>6. w \in Seq(Token)
    BY <2>4, <2>5
  <2> QED BY <1>2, <2>6 DEF Without
<1> QED BY <1>1, <1>2

\* Unlinking a token that is not at the head does not change the head.
LEMMA WithoutHead ==
    ASSUME NEW s \in Seq(Token), NEW t, ~First(s, t), Without(s, t) # <<>>
    PROVE  s # <<>> /\ Without(s, t)[1] = s[1]
<1>1. CASE t \notin Members(s)
  BY <1>1 DEF Without
<1>2. CASE t \in Members(s)
  <2>1. PICK j \in 1..Len(s) : s[j] = t
    BY <1>2 DEF Members
  <2> DEFINE k == CHOOSE i \in 1..Len(s) : s[i] = t
  <2>2. k \in 1..Len(s) /\ s[k] = t
    BY <2>1
  <2>3. Len(s) \in Nat
    OBVIOUS
  <2>4. k # 1
    BY <2>2, <2>3 DEF First
  <2> DEFINE w == [i \in 1..(Len(s) - 1) |-> IF i < k THEN s[i] ELSE s[i + 1]]
  <2>5. 1 \in 1..(Len(s) - 1) /\ 1 < k
    BY <2>2, <2>3, <2>4
  <2>6. w[1] = s[1]
    BY <2>5
  <2>7. s # <<>>
    BY <2>2, <2>3
  <2>8. Without(s, t) = w
    BY <1>2 DEF Without
  <2> HIDE DEF w
  <2> QED BY <2>6, <2>7, <2>8
<1> QED BY <1>1, <1>2

\* Registering (Order::push_back) keeps a FIFO and its head.
LEMMA PushBackFacts ==
    ASSUME NEW s \in Seq(Token), NEW t \in Token
    PROVE  /\ PushBack(s, t) \in Seq(Token)
           /\ PushBack(s, t) # <<>>
           /\ s # <<>> => PushBack(s, t)[1] = s[1]
           /\ s = <<>> => PushBack(s, t)[1] = t
<1>1. CASE t \in Members(s)
  <2>1. s # <<>>
    BY <1>1 DEF Members
  <2> QED BY <1>1, <2>1 DEF PushBack
<1>2. CASE t \notin Members(s)
  <2>1. PushBack(s, t) = Append(s, t)
    BY <1>2 DEF PushBack
  <2>2. /\ Append(s, t) \in Seq(Token) /\ Len(Append(s, t)) = Len(s) + 1
        /\ \A i \in 1..Len(s) : Append(s, t)[i] = s[i]
        /\ Append(s, t)[Len(s) + 1] = t
    OBVIOUS
  <2>3. Append(s, t) # <<>>
    BY <2>2
  <2> QED BY <2>1, <2>2, <2>3
<1> QED BY <1>1, <1>2

-----------------------------------------------------------------------------

\* Ready::enqueue keeps the record's shape and only ever ends waits.
LEMMA EnqueueFacts ==
    ASSUME NEW r \in ReadyType, NEW t \in Token
    PROVE  /\ Enqueue(r, t) \in ReadyType
           /\ Enqueue(r, t).requests = r.requests
           /\ NoNewWait(r, Enqueue(r, t))
           /\ Enqueue(r, t).states[t] \notin WaitReason
           /\ \A u \in Token : u # t => Enqueue(r, t).states[u] = r.states[u]
<1>1. PushBack(r.queue, t) \in Seq(Token)
  BY PushBackFacts DEF ReadyType
<1> QED
  BY <1>1 DEF ReadyType, Enqueue, Enqueues, NoNewWait, State, WaitReason, Resource

\* Ready::resume_head leaves no waiter at the head of the FIFO it serves.
LEMMA ResumeHeadFacts ==
    ASSUME NEW r \in ReadyType, NEW x \in Resource
    PROVE  /\ ResumeHead(r, x) \in ReadyType
           /\ ResumeHead(r, x).requests = r.requests
           /\ NoNewWait(r, ResumeHead(r, x))
           /\ r.requests[x] # <<>> =>
                 ResumeHead(r, x).states[r.requests[x][1]] \notin WaitReason
<1>1. r.requests[x] \in Seq(Token)
  BY DEF ReadyType
<1>2. CASE r.requests[x] = <<>>
  BY <1>2 DEF ResumeHead, NoNewWait
<1>3. CASE r.requests[x] # <<>>
  <2>1. r.requests[x][1] \in Token
    BY <1>1, <1>3
  <2> QED BY <1>3, <2>1, EnqueueFacts DEF ResumeHead
<1> QED BY <1>2, <1>3

\* Ready::remove_request: the head of the FIFO is kept, or the next one is
\* awake; the other FIFO is untouched.
LEMMA RemoveRequestFacts ==
    ASSUME NEW r \in ReadyType, NEW t \in Token, NEW x \in Resource
    PROVE  /\ RemoveRequest(r, t, x) \in ReadyType
           /\ NoNewWait(r, RemoveRequest(r, t, x))
           /\ HeadKeptOrAwake(r, RemoveRequest(r, t, x), x)
           /\ \A y \in Resource : y # x =>
                 RemoveRequest(r, t, x).requests[y] = r.requests[y]
<1> DEFINE q == r.requests[x]
           w == Without(q, t)
           rest == [r EXCEPT !.requests[x] = w]
<1>1. q \in Seq(Token) /\ w \in Seq(Token)
  BY WithoutType DEF ReadyType
<1>2. /\ rest \in ReadyType /\ rest.states = r.states
      /\ rest.requests[x] = w
      /\ \A y \in Resource : y # x => rest.requests[y] = r.requests[y]
  BY <1>1 DEF ReadyType
<1>3. RemoveRequest(r, t, x) = IF First(q, t) THEN ResumeHead(rest, x) ELSE rest
  BY DEF RemoveRequest
<1>4. NoNewWait(r, rest)
  BY <1>2 DEF NoNewWait
<1>5. CASE First(q, t)
  <2> HIDE DEF rest
  <2>1. /\ ResumeHead(rest, x) \in ReadyType
        /\ ResumeHead(rest, x).requests = rest.requests
        /\ NoNewWait(rest, ResumeHead(rest, x))
        /\ w # <<>> => ResumeHead(rest, x).states[w[1]] \notin WaitReason
    BY <1>2, ResumeHeadFacts
  <2>2. HeadKeptOrAwake(r, ResumeHead(rest, x), x)
    BY <1>2, <2>1 DEF HeadKeptOrAwake
  <2>3. NoNewWait(r, ResumeHead(rest, x))
    BY <1>2, <2>1 DEF NoNewWait
  <2> QED BY <1>2, <1>3, <1>5, <2>1, <2>2, <2>3
<1>6. CASE ~First(q, t)
  <2>1. w # <<>> => q # <<>> /\ w[1] = q[1]
    BY <1>1, <1>6, WithoutHead
  <2>2. HeadKeptOrAwake(r, rest, x)
    BY <1>2, <2>1 DEF HeadKeptOrAwake
  <2> HIDE DEF rest
  <2> QED BY <1>2, <1>3, <1>4, <1>6, <2>2
<1> QED BY <1>5, <1>6

\* Scheduler::retire: for both resources, the head is kept or the next one is
\* awake, and the retired task waits for nothing.
LEMMA RetireFacts ==
    ASSUME NEW r \in ReadyType, NEW t \in Token
    PROVE  /\ Retire(r, t) \in ReadyType
           /\ NoNewWait(r, Retire(r, t))
           /\ Retire(r, t).states[t] \notin WaitReason
           /\ \A x \in Resource : HeadKeptOrAwake(r, Retire(r, t), x)
<1> DEFINE gone == [r EXCEPT !.states[t] = "absent", !.queue = Without(@, t)]
           mid == RemoveRequest(gone, t, "Queue")
           end == RemoveRequest(mid, t, "Bytes")
<1>1. Without(r.queue, t) \in Seq(Token)
  BY WithoutType DEF ReadyType
<1>2. /\ gone \in ReadyType /\ gone.requests = r.requests
      /\ NoNewWait(r, gone) /\ gone.states[t] \notin WaitReason
  BY <1>1 DEF ReadyType, NoNewWait, State, WaitReason, Resource
<1>3. Retire(r, t) = end
  BY DEF Retire
<1> HIDE DEF gone
<1>4. /\ mid \in ReadyType /\ NoNewWait(gone, mid)
      /\ HeadKeptOrAwake(gone, mid, "Queue")
      /\ mid.requests["Bytes"] = gone.requests["Bytes"]
  BY <1>2, RemoveRequestFacts DEF Resource
<1> HIDE DEF mid
<1>5. /\ end \in ReadyType /\ NoNewWait(mid, end)
      /\ HeadKeptOrAwake(mid, end, "Bytes")
      /\ end.requests["Queue"] = mid.requests["Queue"]
  BY <1>4, RemoveRequestFacts DEF Resource
<1> HIDE DEF end
<1>6. NoNewWait(r, end) /\ end.states[t] \notin WaitReason
  BY <1>2, <1>4, <1>5 DEF NoNewWait
<1>7. HeadKeptOrAwake(r, end, "Bytes")
  BY <1>2, <1>4, <1>5 DEF HeadKeptOrAwake
<1>8. HeadKeptOrAwake(r, end, "Queue")
  <2>1. mid.requests["Queue"] # <<>> => mid.requests["Queue"][1] \in Token
    BY <1>4 DEF ReadyType, Resource
  <2> QED BY <1>2, <1>4, <1>5, <2>1 DEF HeadKeptOrAwake, NoNewWait
<1> QED BY <1>3, <1>5, <1>6, <1>7, <1>8 DEF Resource

-----------------------------------------------------------------------------
(* The FIFOs as sets, and the record as a whole.                           *)

\* Every token stands at most once in s.
Distinct(s) == \A i, j \in 1..Len(s) : s[i] = s[j] => i = j

\* Without closes the gap that a token leaves, wherever it stood.
LEMMA WithoutAt ==
    ASSUME NEW s \in Seq(Token), Distinct(s), NEW k \in 1..Len(s)
    PROVE  /\ Without(s, s[k]) \in Seq(Token)
           /\ Len(Without(s, s[k])) = Len(s) - 1
           /\ \A i \in 1..(Len(s) - 1) :
                 Without(s, s[k])[i] = IF i < k THEN s[i] ELSE s[i + 1]
<1> DEFINE w == [i \in 1..(Len(s) - 1) |-> IF i < k THEN s[i] ELSE s[i + 1]]
<1>1. s[k] \in Members(s)
  BY DEF Members
<1>2. (CHOOSE i \in 1..Len(s) : s[i] = s[k]) = k
  BY DEF Distinct
<1>3. Without(s, s[k]) = w
  BY <1>1, <1>2 DEF Without
<1>4. Len(s) \in Nat /\ Len(s) - 1 \in Nat /\ k \in Nat
  OBVIOUS
<1>5. w \in [1..(Len(s) - 1) -> Token]
  <2> SUFFICES ASSUME NEW i \in 1..(Len(s) - 1)
               PROVE  (IF i < k THEN s[i] ELSE s[i + 1]) \in Token
    OBVIOUS
  <2>1. i \in 1..Len(s) /\ i + 1 \in 1..Len(s)
    BY <1>4
  <2> QED BY <2>1
<1>6. w \in Seq(Token) /\ Len(w) = Len(s) - 1
  BY <1>4, <1>5
<1> QED BY <1>3, <1>6

\* A popped FIFO is the FIFO without its first token.
LEMMA TailIsWithout ==
    ASSUME NEW s \in Seq(Token), Distinct(s), s # <<>>
    PROVE  Tail(s) = Without(s, s[1])
<1>1. 1 \in 1..Len(s)
  OBVIOUS
<1>2. /\ Without(s, s[1]) \in Seq(Token)
      /\ Len(Without(s, s[1])) = Len(s) - 1
      /\ \A i \in 1..(Len(s) - 1) : Without(s, s[1])[i] = s[i + 1]
  BY <1>1, WithoutAt
<1>3. /\ Tail(s) \in Seq(Token) /\ Len(Tail(s)) = Len(s) - 1
      /\ \A i \in 1..(Len(s) - 1) : Tail(s)[i] = s[i + 1]
  OBVIOUS
<1> QED BY <1>2, <1>3, SeqEqual

\* Registering adds the token, once.
LEMMA PushBackMembers ==
    ASSUME NEW s \in Seq(Token), Distinct(s), NEW t \in Token
    PROVE  /\ Members(PushBack(s, t)) = Members(s) \cup {t}
           /\ Distinct(PushBack(s, t))
           /\ \A i \in 1..Len(PushBack(s, t)) :
                 \/ i \in 1..Len(s) /\ PushBack(s, t)[i] = s[i]
                 \/ t \notin Members(s) /\ PushBack(s, t)[i] = t
<1>1. CASE t \in Members(s)
  BY <1>1 DEF PushBack
<1>2. CASE t \notin Members(s)
  <2> DEFINE e == Append(s, t)
  <2>1. PushBack(s, t) = e
    BY <1>2 DEF PushBack
  <2>2. /\ Len(s) \in Nat /\ Len(e) = Len(s) + 1 /\ e[Len(s) + 1] = t
        /\ \A i \in 1..Len(s) : e[i] = s[i] /\ s[i] # t
    BY <1>2 DEF Members
  <2> HIDE DEF e
  <2>3. \A i \in 1..Len(e) : i \in 1..Len(s) \/ i = Len(s) + 1
    BY <2>2
  <2>4. Distinct(e)
    BY <2>2, <2>3 DEF Distinct
  <2>5. Members(e) = Members(s) \cup {t}
    <3>1. \A i \in 1..Len(s) : i \in 1..Len(e)
      BY <2>2
    <3>2. Len(s) + 1 \in 1..Len(e)
      BY <2>2
    <3> QED BY <2>2, <2>3, <3>1, <3>2 DEF Members
  <2> QED BY <1>2, <2>1, <2>2, <2>3, <2>4, <2>5
<1> QED BY <1>1, <1>2

\* Unlinking removes the token and nothing else, and nobody moves back: a token
\* keeps its position or comes one place nearer the head.
LEMMA WithoutMembers ==
    ASSUME NEW s \in Seq(Token), Distinct(s), NEW t \in Token
    PROVE  /\ Members(Without(s, t)) = Members(s) \ {t}
           /\ Distinct(Without(s, t))
           /\ \A i \in 1..Len(Without(s, t)) :
                 \/ i \in 1..Len(s) /\ Without(s, t)[i] = s[i]
                 \/ i + 1 \in 1..Len(s) /\ Without(s, t)[i] = s[i + 1]
           /\ First(s, t) => \A i \in 1..Len(Without(s, t)) :
                 i + 1 \in 1..Len(s) /\ Without(s, t)[i] = s[i + 1]
<1>1. CASE t \notin Members(s)
  <2>1. ~First(s, t)
    BY <1>1 DEF First, Members
  <2> QED BY <1>1, <2>1 DEF Without
<1>2. CASE t \in Members(s)
  <2>1. PICK k \in 1..Len(s) : s[k] = t
    BY <1>2 DEF Members
  <2> DEFINE w == Without(s, t)
  <2>2. /\ Len(s) \in Nat /\ k \in Nat /\ Len(w) = Len(s) - 1
        /\ \A i \in 1..(Len(s) - 1) : w[i] = IF i < k THEN s[i] ELSE s[i + 1]
    <3>1. k \in Nat /\ Len(s) \in Nat
      OBVIOUS
    <3>2. /\ Len(Without(s, s[k])) = Len(s) - 1
          /\ \A i \in 1..(Len(s) - 1) :
                Without(s, s[k])[i] = IF i < k THEN s[i] ELSE s[i + 1]
      BY WithoutAt
    <3> QED BY <2>1, <3>1, <3>2
  <2> HIDE DEF w
  <2>3. \A i \in 1..Len(s) : s[i] = t <=> i = k
    BY <2>1 DEF Distinct
  <2>4. \A i \in 1..Len(w) : i \in 1..Len(s) /\ i + 1 \in 1..Len(s)
    BY <2>2
  <2>5. \A i \in 1..Len(w) : /\ i < k => w[i] = s[i]
                             /\ ~(i < k) => w[i] = s[i + 1]
    BY <2>2
  <2>6. Distinct(w)
    <3> SUFFICES ASSUME NEW i \in 1..Len(w), NEW j \in 1..Len(w), w[i] = w[j]
                 PROVE  i = j
      BY DEF Distinct
    <3>1. i \in Nat /\ j \in Nat
      BY <2>2
    <3>2. CASE i < k /\ j < k
      BY <2>4, <2>5, <3>2 DEF Distinct
    <3>3. CASE ~(i < k) /\ ~(j < k)
      <4>1. i + 1 = j + 1
        BY <2>4, <2>5, <3>3 DEF Distinct
      <4> QED BY <3>1, <4>1
    <3>4. CASE i < k /\ ~(j < k)
      <4>1. i = j + 1
        BY <2>4, <2>5, <3>4 DEF Distinct
      <4> QED BY <2>2, <3>1, <3>4, <4>1
    <3>5. CASE ~(i < k) /\ j < k
      <4>1. i + 1 = j
        BY <2>4, <2>5, <3>5 DEF Distinct
      <4> QED BY <2>2, <3>1, <3>5, <4>1
    <3> QED BY <3>2, <3>3, <3>4, <3>5
  <2>7. Members(w) = Members(s) \ {t}
    <3>1. ASSUME NEW i \in 1..Len(w) PROVE w[i] \in Members(s) \ {t}
      <4>1. CASE i < k
        <5>1. i # k /\ i \in 1..Len(s)
          BY <2>2, <2>4, <4>1
        <5> QED BY <2>3, <2>5, <4>1, <5>1 DEF Members
      <4>2. CASE ~(i < k)
        <5>1. i + 1 # k /\ i + 1 \in 1..Len(s)
          BY <2>2, <2>4, <4>2
        <5> QED BY <2>3, <2>5, <4>2, <5>1 DEF Members
      <4> QED BY <4>1, <4>2
    <3>2. ASSUME NEW i \in 1..Len(s), s[i] # t PROVE s[i] \in Members(w)
      <4>1. i # k
        BY <2>3, <3>2
      <4>2. CASE i < k
        <5>1. i \in 1..Len(w)
          BY <2>2, <4>2
        <5> QED BY <2>5, <4>2, <5>1 DEF Members
      <4>3. CASE i > k
        <5>1. i - 1 \in 1..Len(w) /\ ~(i - 1 < k) /\ (i - 1) + 1 = i
          BY <2>2, <4>3
        <5>2. w[i - 1] = s[i]
          BY <2>5, <5>1
        <5> QED BY <5>1, <5>2 DEF Members
      <4> QED BY <2>2, <4>1, <4>2, <4>3
    <3> QED BY <3>1, <3>2 DEF Members
  <2>8. First(s, t) => k = 1
    <3>1. First(s, t) => 1 \in 1..Len(s) /\ s[1] = t
      BY <2>2 DEF First
    <3> QED BY <2>3, <3>1
  <2>9. k = 1 => \A i \in 1..Len(w) : ~(i < k)
    BY <2>2
  <2> QED BY <2>4, <2>5, <2>6, <2>7, <2>8, <2>9 DEF w
<1> QED BY <1>1, <1>2

-----------------------------------------------------------------------------

\* The record is coherent: the runnable FIFO holds exactly the Queued and
\* Notified tasks, once each; an admission FIFO holds a task once, and every
\* task that waits for its resource.
Sound(r) ==
    /\ Distinct(r.queue) /\ Members(r.queue) = Runnable(r)
    /\ \A x \in Resource :
          /\ Distinct(r.requests[x])
          /\ \A t \in Token : r.states[t] = x => t \in Members(r.requests[x])

\* The same tasks are present, and no task runs in r2 that did not run in r.
Calm(r, r2) ==
    /\ Present(r2) = Present(r)
    /\ \A u \in Token : r2.states[u] = "Running" => r.states[u] = "Running"

\* Ready::enqueue keeps the record coherent.
LEMMA EnqueueSound ==
    ASSUME NEW r \in ReadyType, Sound(r), NEW t \in Token
    PROVE  /\ Sound(Enqueue(r, t)) /\ Calm(r, Enqueue(r, t))
           /\ Enqueue(r, t).states[t] # "Running"
<1> DEFINE e == Enqueue(r, t)
<1>1. /\ r.queue \in Seq(Token) /\ r.states \in [Token -> State]
      /\ t \in DOMAIN r.states
  BY DEF ReadyType
<1>2. CASE Enqueues(r, t)
  <2>1. /\ e.queue = PushBack(r.queue, t) /\ e.requests = r.requests
        /\ e.states[t] = IF r.states[t] = "Running" THEN "Notified" ELSE "Queued"
        /\ \A u \in Token : u # t => e.states[u] = r.states[u]
    BY <1>1, <1>2 DEF Enqueue, ReadyType
  <2> HIDE DEF e
  <2>2. Members(e.queue) = Members(r.queue) \cup {t} /\ Distinct(e.queue)
    BY <1>1, <2>1, PushBackMembers DEF Sound
  <2>3. Runnable(e) = Runnable(r) \cup {t}
    BY <2>1 DEF Runnable
  <2>4. e.states[t] \in {"Notified", "Queued"} /\ r.states[t] # "absent"
    BY <1>2, <2>1 DEF Enqueues, WaitReason, Resource
  <2>5. Present(e) = Present(r)
    BY <2>1, <2>4 DEF Present
  <2>6. \A x \in Resource, u \in Token : e.states[u] = x => u \in Members(e.requests[x])
    BY <2>1, <2>4 DEF Sound, Resource
  <2> QED BY <2>1, <2>2, <2>3, <2>4, <2>5, <2>6 DEF Sound, Calm, e
<1>3. CASE ~Enqueues(r, t)
  <2>1. e = r /\ r.states[t] # "Running"
    BY <1>3 DEF Enqueue, Enqueues
  <2> HIDE DEF e
  <2> QED BY <2>1 DEF Calm, e
<1> QED BY <1>2, <1>3

\* So does Ready::resume_head, which only touches the head.
LEMMA ResumeHeadSound ==
    ASSUME NEW r \in ReadyType, Sound(r), NEW x \in Resource
    PROVE  /\ Sound(ResumeHead(r, x)) /\ Calm(r, ResumeHead(r, x))
           /\ \A u \in Token : u \notin Members(r.requests[x]) =>
                 ResumeHead(r, x).states[u] = r.states[u]
<1>1. r.requests[x] \in Seq(Token)
  BY DEF ReadyType
<1>2. CASE r.requests[x] = <<>>
  BY <1>2 DEF ResumeHead, Calm
<1>3. CASE r.requests[x] # <<>>
  <2> DEFINE h == r.requests[x][1]
  <2>1. h \in Token /\ h \in Members(r.requests[x])
    BY <1>1, <1>3 DEF Members
  <2>2. ResumeHead(r, x) = Enqueue(r, h)
    BY <1>3 DEF ResumeHead
  <2> HIDE DEF h
  <2> QED BY <2>1, <2>2, EnqueueSound, EnqueueFacts
<1> QED BY <1>2, <1>3

\* Ready::remove_request takes the task out of the FIFO and leaves its own state
\* alone, even when it resumes the next one.
LEMMA RemoveRequestSound ==
    ASSUME NEW r \in ReadyType, Sound(r), NEW t \in Token, NEW x \in Resource,
           r.states[t] # x
    PROVE  /\ Sound(RemoveRequest(r, t, x)) /\ Calm(r, RemoveRequest(r, t, x))
           /\ RemoveRequest(r, t, x).requests[x] = Without(r.requests[x], t)
           /\ RemoveRequest(r, t, x).states[t] = r.states[t]
<1> DEFINE q == r.requests[x]
           w == Without(q, t)
           rest == [r EXCEPT !.requests[x] = w]
<1>1. q \in Seq(Token) /\ w \in Seq(Token) /\ Distinct(q)
  BY WithoutType DEF ReadyType, Sound
<1>2. Members(w) = Members(q) \ {t} /\ Distinct(w)
  BY <1>1, WithoutMembers
<1>3. /\ rest \in ReadyType /\ rest.states = r.states /\ rest.queue = r.queue
      /\ rest.requests[x] = w
      /\ \A y \in Resource : y # x => rest.requests[y] = r.requests[y]
  BY <1>1 DEF ReadyType
<1>4. RemoveRequest(r, t, x) = IF First(q, t) THEN ResumeHead(rest, x) ELSE rest
  BY DEF RemoveRequest
<1> HIDE DEF rest, w
<1>5. Sound(rest) /\ Calm(r, rest)
  <2>1. Runnable(rest) = Runnable(r) /\ Present(rest) = Present(r)
    BY <1>3 DEF Runnable, Present
  <2>2. ASSUME NEW y \in Resource
        PROVE  /\ Distinct(rest.requests[y])
               /\ \A u \in Token : rest.states[u] = y => u \in Members(rest.requests[y])
    BY <1>2, <1>3 DEF Sound
  <2> QED BY <1>3, <2>1, <2>2 DEF Sound, Calm
<1>6. /\ Sound(ResumeHead(rest, x)) /\ Calm(rest, ResumeHead(rest, x))
      /\ ResumeHead(rest, x).requests = rest.requests
      /\ ResumeHead(rest, x).states[t] = rest.states[t]
  BY <1>2, <1>3, <1>5, ResumeHeadSound, ResumeHeadFacts
<1>7. Calm(r, ResumeHead(rest, x))
  BY <1>5, <1>6 DEF Calm
<1> QED BY <1>3, <1>4, <1>5, <1>6, <1>7 DEF w

\* Scheduler::retire forgets the task and nothing else.
LEMMA RetireSound ==
    ASSUME NEW r \in ReadyType, Sound(r), NEW t \in Token
    PROVE  /\ Sound(Retire(r, t))
           /\ Present(Retire(r, t)) = Present(r) \ {t}
           /\ \A u \in Token : Retire(r, t).states[u] = "Running" => r.states[u] = "Running"
           /\ Retire(r, t).states[t] = "absent"
           /\ \A x \in Resource : Retire(r, t).requests[x] = Without(r.requests[x], t)
<1> DEFINE gone == [r EXCEPT !.states[t] = "absent", !.queue = Without(@, t)]
           mid == RemoveRequest(gone, t, "Queue")
           end == RemoveRequest(mid, t, "Bytes")
<1>1. r.queue \in Seq(Token) /\ Without(r.queue, t) \in Seq(Token)
  BY WithoutType DEF ReadyType
<1>2. Members(Without(r.queue, t)) = Members(r.queue) \ {t} /\ Distinct(Without(r.queue, t))
  BY <1>1, WithoutMembers DEF Sound
<1>3. /\ gone \in ReadyType /\ gone.requests = r.requests /\ gone.queue = Without(r.queue, t)
      /\ gone.states[t] = "absent"
      /\ \A u \in Token : u # t => gone.states[u] = r.states[u]
  BY <1>1 DEF ReadyType, State
<1>4. Retire(r, t) = end
  BY DEF Retire
<1> HIDE DEF gone
<1>5. Runnable(gone) = Runnable(r) \ {t} /\ Present(gone) = Present(r) \ {t}
  BY <1>3 DEF Runnable, Present
<1>6. Sound(gone)
  <2>1. ASSUME NEW x \in Resource
        PROVE  /\ Distinct(gone.requests[x])
               /\ \A u \in Token : gone.states[u] = x => u \in Members(gone.requests[x])
    BY <1>3 DEF Sound, Resource
  <2> QED BY <1>2, <1>3, <1>5, <2>1 DEF Sound
<1>7. /\ mid \in ReadyType /\ Sound(mid) /\ Calm(gone, mid) /\ mid.states[t] = "absent"
      /\ mid.requests["Queue"] = Without(r.requests["Queue"], t)
      /\ mid.requests["Bytes"] = r.requests["Bytes"]
  BY <1>3, <1>6, RemoveRequestSound, RemoveRequestFacts DEF Resource
<1> HIDE DEF mid
<1>8. /\ Sound(end) /\ Calm(mid, end) /\ end.states[t] = "absent"
      /\ end.requests["Queue"] = mid.requests["Queue"]
      /\ end.requests["Bytes"] = Without(mid.requests["Bytes"], t)
  BY <1>7, RemoveRequestSound, RemoveRequestFacts DEF Resource
<1> HIDE DEF end
<1>9. \A u \in Token : end.states[u] = "Running" => r.states[u] = "Running"
  BY <1>3, <1>7, <1>8 DEF Calm
<1>10. Present(end) = Present(r) \ {t}
  BY <1>5, <1>7, <1>8 DEF Calm
<1> QED BY <1>4, <1>7, <1>8, <1>9, <1>10 DEF Resource

\* Scheduler::insert and request_turn, and Scheduler::park of a task that is
\* present, keep the record coherent.
LEMMA RegisterSound ==
    ASSUME NEW r \in ReadyType, Sound(r), NEW t \in Token
    PROVE  /\ Sound(Insert(r, t)) /\ Present(Insert(r, t)) = Present(r) \cup {t}
           /\ \A x \in Resource : /\ Sound(RequestTurn(r, t, x))
                                  /\ Calm(r, RequestTurn(r, t, x))
           /\ t \in Present(r) =>
                 \A reason \in WaitReason : /\ Sound(Park(r, t, reason))
                                            /\ Calm(r, Park(r, t, reason))
                                            /\ Park(r, t, reason).states[t] # "Running"
<1>1. /\ r.queue \in Seq(Token) /\ r.states \in [Token -> State]
      /\ r.requests \in [Resource -> Seq(Token)]
  BY DEF ReadyType
<1>2. \A x \in Resource :
        /\ Members(PushBack(r.requests[x], t)) = Members(r.requests[x]) \cup {t}
        /\ Distinct(PushBack(r.requests[x], t))
  BY <1>1, PushBackMembers DEF Sound
<1>3. /\ Members(PushBack(r.queue, t)) = Members(r.queue) \cup {t}
      /\ Distinct(PushBack(r.queue, t))
      /\ Members(Without(r.queue, t)) = Members(r.queue) \ {t}
      /\ Distinct(Without(r.queue, t))
  BY <1>1, PushBackMembers, WithoutMembers DEF Sound
<1>4. Sound(Insert(r, t)) /\ Present(Insert(r, t)) = Present(r) \cup {t}
  <2> DEFINE e == Insert(r, t)
  <2>1. /\ e.queue = PushBack(r.queue, t) /\ e.requests = r.requests
        /\ e.states[t] = "Queued" /\ \A u \in Token : u # t => e.states[u] = r.states[u]
    BY <1>1 DEF Insert, ReadyType
  <2> HIDE DEF e
  <2>2. Runnable(e) = Runnable(r) \cup {t} /\ Present(e) = Present(r) \cup {t}
    BY <2>1 DEF Runnable, Present
  <2>3. \A x \in Resource, u \in Token : e.states[u] = x => u \in Members(e.requests[x])
    BY <2>1 DEF Sound, Resource
  <2> QED BY <1>3, <2>1, <2>2, <2>3 DEF Sound, e
<1>5. ASSUME NEW x \in Resource
      PROVE  Sound(RequestTurn(r, t, x)) /\ Calm(r, RequestTurn(r, t, x))
  <2> DEFINE e == RequestTurn(r, t, x)
  <2>1. /\ e.queue = r.queue /\ e.states = r.states
        /\ e.requests[x] = PushBack(r.requests[x], t)
        /\ \A y \in Resource : y # x => e.requests[y] = r.requests[y]
    BY <1>1 DEF RequestTurn, ReadyType
  <2> HIDE DEF e
  <2>2. Runnable(e) = Runnable(r) /\ Present(e) = Present(r)
    BY <2>1 DEF Runnable, Present
  <2>3. ASSUME NEW y \in Resource
        PROVE  /\ Distinct(e.requests[y])
               /\ \A u \in Token : e.states[u] = y => u \in Members(e.requests[y])
    BY <1>2, <2>1 DEF Sound
  <2> QED BY <2>1, <2>2, <2>3 DEF Sound, Calm, e
<1>6. ASSUME t \in Present(r), NEW reason \in WaitReason
      PROVE  /\ Sound(Park(r, t, reason)) /\ Calm(r, Park(r, t, reason))
             /\ Park(r, t, reason).states[t] # "Running"
  <2> DEFINE e == Park(r, t, reason)
  <2>1. /\ e.queue = IF r.states[t] = "Notified" THEN r.queue ELSE Without(r.queue, t)
        /\ e.states[t] = IF r.states[t] = "Notified" THEN "Queued" ELSE reason
        /\ \A u \in Token : u # t => e.states[u] = r.states[u]
        /\ \A y \in Resource : e.requests[y] = IF y = reason THEN PushBack(r.requests[y], t)
                                               ELSE r.requests[y]
    BY <1>1 DEF Park, ReadyType
  <2> HIDE DEF e
  <2>2. e.states[t] \in {"Queued"} \cup WaitReason /\ r.states[t] # "absent"
    BY <1>6, <2>1 DEF Present
  <2>3. Present(e) = Present(r)
    BY <2>1, <2>2 DEF Present, WaitReason, Resource
  <2>4. \A u \in Token : e.states[u] = "Running" => r.states[u] = "Running"
    BY <2>1, <2>2 DEF WaitReason, Resource
  <2>5. Members(e.queue) = Runnable(e) /\ Distinct(e.queue)
    <3>1. CASE r.states[t] = "Notified"
      <4>1. Runnable(e) = Runnable(r)
        BY <2>1, <3>1 DEF Runnable
      <4> QED BY <2>1, <3>1, <4>1 DEF Sound
    <3>2. CASE r.states[t] # "Notified"
      <4>1. Runnable(e) = Runnable(r) \ {t}
        BY <2>1, <3>2 DEF Runnable, WaitReason, Resource
      <4> QED BY <1>3, <2>1, <3>2, <4>1 DEF Sound
    <3> QED BY <3>1, <3>2
  <2>6. ASSUME NEW y \in Resource
        PROVE  /\ Distinct(e.requests[y])
               /\ \A u \in Token : e.states[u] = y => u \in Members(e.requests[y])
    <3>1. Distinct(e.requests[y])
      BY <1>2, <2>1 DEF Sound
    <3>2. Members(r.requests[y]) \subseteq Members(e.requests[y])
      BY <1>2, <2>1
    <3>3. ASSUME NEW u \in Token, e.states[u] = y PROVE u \in Members(e.requests[y])
      <4>1. CASE u # t
        BY <2>1, <3>2, <3>3, <4>1 DEF Sound
      <4>2. CASE u = t
        <5>1. y = reason
          BY <2>1, <3>3, <4>2 DEF Resource
        <5> QED BY <1>2, <2>1, <4>2, <5>1
      <4> QED BY <4>1, <4>2
    <3> QED BY <3>1, <3>3
  <2> QED BY <2>2, <2>3, <2>4, <2>5, <2>6 DEF Sound, Calm, e, WaitReason, Resource
<1> QED BY <1>4, <1>5, <1>6

\* Scheduler::take: only the task it returns starts to run.
LEMMA TakeSound ==
    ASSUME NEW r \in ReadyType, Sound(r), r.queue # <<>>
    PROVE  /\ Sound(Take(r)) /\ Present(Take(r)) = Present(r)
           /\ r.queue[1] \in Present(r)
           /\ \A u \in Token : Take(r).states[u] = "Running" =>
                 u = r.queue[1] \/ r.states[u] = "Running"
<1> DEFINE e == Take(r)
           h == r.queue[1]
<1>1. /\ r.queue \in Seq(Token) /\ r.states \in [Token -> State]
      /\ h \in Token /\ h \in Members(r.queue)
  BY DEF ReadyType, Members
<1>2. Tail(r.queue) = Without(r.queue, h)
  BY <1>1, TailIsWithout DEF Sound
<1>3. /\ e.queue = Without(r.queue, h) /\ e.requests = r.requests
      /\ e.states[h] = "Running" /\ \A u \in Token : u # h => e.states[u] = r.states[u]
  BY <1>1, <1>2 DEF Take, ReadyType
<1>4. h \in Runnable(r) /\ h \in Present(r)
  BY <1>1 DEF Sound, Runnable, Present
<1> HIDE DEF e, h
<1>5. Members(e.queue) = Members(r.queue) \ {h} /\ Distinct(e.queue)
  BY <1>1, <1>3, WithoutMembers DEF Sound
<1>6. Runnable(e) = Runnable(r) \ {h} /\ Present(e) = Present(r)
  BY <1>3, <1>4 DEF Runnable, Present
<1>7. \A x \in Resource, u \in Token : e.states[u] = x => u \in Members(e.requests[x])
  BY <1>3 DEF Sound, Resource
<1> QED BY <1>3, <1>4, <1>5, <1>6, <1>7 DEF Sound, e, h

-----------------------------------------------------------------------------
(* Tasks.                                                                  *)

\* The task being polled does not wait: NoLostCredit needs it, because a poll
\* changes the length that task asks for.
PolledAwake ==
    pc = "task" => cur \in Token /\ ready.states[cur] \notin WaitReason

-----------------------------------------------------------------------------
(* Type correctness.                                                       *)

\* Registering, parking, finishing and inserting keep the scheduler's shape.
LEMMA SchedulerTypes ==
    ASSUME NEW r \in ReadyType, NEW t \in Token, NEW x \in Resource
    PROVE  /\ RequestTurn(r, t, x) \in ReadyType
           /\ \A reason \in WaitReason : Park(r, t, reason) \in ReadyType
           /\ FinishRequest(r, t, x) \in ReadyType
           /\ Insert(r, t) \in ReadyType
           /\ IoReady(r, t) \in ReadyType
           /\ ResumeCredit(r, x) \in ReadyType
<1>1. /\ r.queue \in Seq(Token) /\ r.requests \in [Resource -> Seq(Token)]
      /\ r.states \in [Token -> State]
  BY DEF ReadyType
<1>2. /\ PushBack(r.queue, t) \in Seq(Token)
      /\ \A y \in Resource : PushBack(r.requests[y], t) \in Seq(Token)
      /\ Without(r.queue, t) \in Seq(Token)
  BY <1>1, PushBackFacts, WithoutType
<1>3. RequestTurn(r, t, x) \in ReadyType
  BY <1>1, <1>2 DEF RequestTurn, ReadyType
<1>4. ASSUME NEW reason \in WaitReason PROVE Park(r, t, reason) \in ReadyType
  BY <1>1, <1>2 DEF Park, ReadyType, State, WaitReason
<1>5. FinishRequest(r, t, x) \in ReadyType
  BY RemoveRequestFacts DEF FinishRequest
<1>6. Insert(r, t) \in ReadyType
  BY <1>1, <1>2 DEF Insert, ReadyType, State
<1>7. IoReady(r, t) \in ReadyType
  BY EnqueueFacts DEF IoReady
<1>8. ResumeCredit(r, x) \in ReadyType
  BY ResumeHeadFacts DEF ResumeCredit
<1> QED BY <1>3, <1>4, <1>5, <1>6, <1>7, <1>8

\* Scheduler::take runs a task that is in the map, and leaves it Running.
LEMMA TakeFacts ==
    ASSUME NEW r \in ReadyType, r.queue # <<>>
    PROVE  /\ r.queue[1] \in Token /\ Take(r) \in ReadyType
           /\ Take(r).states[r.queue[1]] = "Running"
           /\ Take(r).requests = r.requests /\ NoNewWait(r, Take(r))
<1>1. r.queue \in Seq(Token) /\ r.states \in [Token -> State]
  BY DEF ReadyType
<1>2. r.queue[1] \in Token /\ Tail(r.queue) \in Seq(Token)
  BY <1>1
<1> QED BY <1>1, <1>2 DEF Take, ReadyType, State, NoNewWait, WaitReason, Resource

\* The initial state is well typed.
LEMMA InitType == Init => TypeOK
  BY TasksConstants
  DEF Init, TypeOK, EmptyReady, ReadyType, State, Ops, Positions, Signal, CONTROL

\* Every step of the consumer, of a closer or of a peer keeps the types.
LEMMA OutsideType == TypeOK /\ (Consume \/ Outside) => TypeOK'
<1> SUFFICES ASSUME TypeOK, Consume \/ Outside PROVE TypeOK'
  OBVIOUS
<1>0. Size \subseteq Nat
  BY TasksConstants
<1>1. CASE Raise
  BY <1>1 DEF TypeOK, Raise, consumerFrame, net, loop, tasks
<1>2. CASE Wake
  BY <1>2 DEF TypeOK, Wake, consumerFrame, net, loop, tasks
<1>3. CASE Recv
  <2>1. Head(chan) \in Nat /\ Tail(chan) \in Seq(Nat)
    BY <1>3 DEF Recv, TypeOK
  <2>2. held' \in [Size -> Int]
    <3>1. held \in [Size -> Int] /\ \A n \in Size : held[n] + 1 \in Int
      BY DEF TypeOK
    <3>2. held' = held \/ held' = [held EXCEPT ![Head(chan)] = held[Head(chan)] + 1]
      BY <1>3 DEF Recv
    <3> QED BY <3>1, <3>2
  <2> QED
    BY <1>3, <2>1, <2>2 DEF TypeOK, Recv, consumerFrame, net, loop, tasks, Signal
<1>4. ASSUME NEW n \in Size, DropPayload(n) PROVE TypeOK'
  <2>1. n \in Int
    BY <1>0
  <2>2. held' \in [Size -> Int] /\ used' \in Int
    BY <1>4, <2>1 DEF DropPayload, TypeOK
  <2> QED
    BY <1>4, <2>2 DEF TypeOK, DropPayload, consumerFrame, net, loop, tasks, Signal
<1>5. CASE DropRecords
  BY <1>5 DEF TypeOK, DropRecords, consumerFrame, net, loop, tasks
<1>6. CASE Drain
  <2>1. Head(chan) \in Nat /\ Tail(chan) \in Seq(Nat)
    BY <1>6 DEF Drain, TypeOK
  <2>2. used' \in Int /\ pub' \in {"idle", "Bytes"}
    BY <1>6, <2>1 DEF Drain, TypeOK
  <2> QED
    BY <1>6, <2>1, <2>2 DEF TypeOK, Drain, consumerFrame, net, loop, tasks, Signal
<1>7. CASE Disconnect
  BY <1>7 DEF TypeOK, Disconnect, consumerFrame, net, loop, tasks, Signal
<1>8. ASSUME NEW t \in Token, Close(t) PROVE TypeOK'
  BY <1>8 DEF TypeOK, Close, net, loop, tasks
<1>9. ASSUME NEW t \in Token, PeerSend(t) PROVE TypeOK'
  <2>1. inbox' \in [Token -> Nat] /\ sent' \in [Token -> Nat]
    BY <1>9 DEF PeerSend, TypeOK
  <2> QED BY <1>9, <2>1 DEF TypeOK, PeerSend, netFrame, app, loop, tasks
<1>10. ASSUME NEW t \in Token, PeerClose(t) PROVE TypeOK'
  BY <1>10 DEF TypeOK, PeerClose, netFrame, app, loop, tasks
<1> QED
  BY <1>1, <1>2, <1>3, <1>4, <1>5, <1>6, <1>7, <1>8, <1>9, <1>10
  DEF Consume, Outside

-----------------------------------------------------------------------------
(* The worker's steps.                                                     *)

\* What a completed operation of the running task leaves behind.
LEMMA CompletesType ==
    ASSUME TypeOK, cur \in Token, NEW x \in Resource, NEW p,
           ready.states[cur] \notin WaitReason,
           Completes(RequestTurn(ready, cur, x), x, p)
    PROVE  /\ ready' \in ReadyType /\ events' \subseteq Token \cup {CONTROL}
           /\ bypass' \in [Token -> Nat]
           /\ ready'.states[cur] \notin WaitReason
<1> DEFINE r == RequestTurn(ready, cur, x)
<1>1. r \in ReadyType /\ r.states = ready.states
  <2>1. ready \in ReadyType
    BY DEF TypeOK
  <2>2. r \in ReadyType
    BY <2>1, SchedulerTypes
  <2> QED BY <2>1, <2>2 DEF RequestTurn, ReadyType
<1>2. ready' = RemoveRequest(r, cur, x)
  BY DEF Completes, FinishRequest
<1>3. bypass' \in [Token -> Nat]
  <2>1. bypass \in [Token -> Nat]
    BY DEF TypeOK
  <2>2. \A t \in Token : bypass[t] \in Nat /\ bypass[t] + 1 \in Nat
    BY <2>1
  <2> QED BY <2>2 DEF Completes
<1>4. events' \subseteq Token \cup {CONTROL}
  BY DEF TypeOK, Completes
<1> HIDE DEF r
<1>5. ready' \in ReadyType /\ NoNewWait(r, ready')
  BY <1>1, <1>2, RemoveRequestFacts
<1> QED BY <1>1, <1>3, <1>4, <1>5 DEF NoNewWait

\* The steps that only a poll takes keep the types, and a poll that goes on
\* leaves its task awake.
LEMMA PollType == TypeOK /\ PolledAwake /\ Poll => TypeOK' /\ PolledAwake'
<1> SUFFICES ASSUME TypeOK, PolledAwake, Poll PROVE TypeOK' /\ PolledAwake'
  OBVIOUS
<1>0. /\ cur \in Token /\ ready \in ReadyType /\ ready.states[cur] \notin WaitReason
      /\ pc = "task"
  BY DEF Poll, Yield, ReadEnd, ReadBlocks, ReadInterrupted, Copy, Send, Decode,
         Frame, ReadData, Polls, PolledAwake, TypeOK
<1>1. ASSUME Permit PROVE remaining - 1 \in Nat
  BY <1>1 DEF Permit, TypeOK
<1>2. SelfWake => /\ ready' \in ReadyType /\ events' \subseteq Token \cup {CONTROL}
                  /\ Pending
  BY <1>0, EnqueueFacts DEF SelfWake, TypeOK
<1>3. Pending => /\ pc' = "run" /\ retiring' = {} /\ remaining' = 0 /\ cur' = CONTROL
  BY DEF Pending, Leaves
<1>4. ASSUME NEW x \in Resource, Waits(RequestTurn(ready, cur, x), x)
      PROVE  /\ ready' \in ReadyType /\ Pending /\ UNCHANGED <<events, bypass>>
  <2> DEFINE r == RequestTurn(ready, cur, x)
  <2>1. r \in ReadyType
    BY <1>0, SchedulerTypes
  <2>2. x \in WaitReason
    BY DEF WaitReason
  <2> HIDE DEF r
  <2>3. Park(r, cur, x) \in ReadyType
    BY <1>0, <2>1, <2>2, SchedulerTypes
  <2> QED BY <1>4, <2>3 DEF Waits, r
<1>5. CASE Yield
  BY <1>0, <1>2, <1>3, <1>5
  DEF Yield, TypeOK, PolledAwake, pollFrame, app, Positions
<1>6. CASE ReadInterrupted
  BY <1>0, <1>2, <1>3, <1>6
  DEF ReadInterrupted, TypeOK, PolledAwake, pollFrame, app, Positions
<1>7. CASE ReadBlocks
  <2>1. ready' \in ReadyType
    <3>1. "Queue" \in Resource /\ "Kernel" \in WaitReason
      BY DEF Resource, WaitReason
    <3>2. Park(ready, cur, "Kernel") \in ReadyType
      BY <1>0, <3>1, SchedulerTypes
    <3> QED BY <1>7, <3>2 DEF ReadBlocks
  <2> QED
    BY <1>3, <1>7, <2>1
    DEF ReadBlocks, TypeOK, PolledAwake, pollFrame, app, Positions
<1>8. CASE ReadEnd
  <2>1. op' \in [Token -> Ops]
    BY <1>8 DEF ReadEnd, TypeOK, Ops, SendOps
  <2> QED
    BY <1>0, <1>1, <1>8, <2>1
    DEF ReadEnd, TypeOK, PolledAwake, pollFrame, app, GoesOn
<1>9. ASSUME NEW n \in Size, ReadData(n) PROVE TypeOK' /\ PolledAwake'
  <2>1. op' \in [Token -> Ops]
    BY <1>9 DEF ReadData, TypeOK, Ops, CopyOps
  <2>2. n \in Nat
    BY TasksConstants
  <2>3. len' \in [Token -> Nat]
    BY <1>9, <2>2 DEF ReadData, TypeOK
  <2>4. inbox' \in [Token -> Nat]
    <3>1. inbox[cur] - 1 \in Nat
      BY <1>0, <1>9 DEF ReadData, TypeOK
    <3> QED BY <1>9, <3>1 DEF ReadData, TypeOK
  <2> QED
    BY <1>0, <1>1, <1>9, <2>1, <2>3, <2>4
    DEF ReadData, TypeOK, PolledAwake, pollFrame, app, GoesOn
<1>10. CASE Decode \/ Frame
  <2>1. \A n \in Size : n \in Nat
    BY TasksConstants
  <2>2. op' \in [Token -> Ops]
    BY <1>10 DEF Decode, Frame, TypeOK, Ops, CopyOps, SendOps
  <2>3. len' \in [Token -> Nat]
    BY <1>10, <2>1 DEF Decode, Frame, TypeOK
  <2>4. frames' \in [Token -> Nat]
    <3>1. frames[cur] + 1 \in Nat
      BY <1>0 DEF TypeOK
    <3> QED BY <1>10, <3>1 DEF Decode, Frame, TypeOK
  <2> QED
    BY <1>0, <1>1, <1>10, <2>2, <2>3, <2>4
    DEF Decode, Frame, decodeFrame, TypeOK, PolledAwake, pollFrame, app, GoesOn
<1>11. CASE Copy
  <2> DEFINE r == RequestTurn(ready, cur, "Bytes")
  <2>1. op[cur] \in CopyOps /\ Permit
    BY <1>11 DEF Copy, Polls
  <2>2. len[cur] \in Nat /\ used \in Int
    BY <1>0 DEF TypeOK
  <2>3. AfterCopy(op[cur]) \in Ops
    BY <2>1 DEF AfterCopy, CopyOps, SendOps, Ops
  <2>4. op' \in [Token -> Ops] /\ len' \in [Token -> Nat] /\ used' \in Int
    <3>1. op' \in [Token -> Ops]
      BY <1>11, <2>3 DEF Copy, TypeOK, Ops, SendOps
    <3>2. len' = len \/ len' = [len EXCEPT ![cur] = 0]
      BY <1>11, Zenon DEF Copy
    <3>3. len' \in [Token -> Nat]
      <4>1. len \in [Token -> Nat]
        BY DEF TypeOK
      <4> QED BY <3>2, <4>1
    <3>4. used' = used \/ used' = used + len[cur]
      BY <1>11, Zenon DEF Copy
    <3>5. used' \in Int
      BY <2>2, <3>4
    <3> QED BY <3>1, <3>3, <3>5
  <2>5. CASE GoesOn /\ Completes(r, "Bytes", FALSE)
    <3>1. /\ ready' \in ReadyType /\ events' \subseteq Token \cup {CONTROL}
          /\ bypass' \in [Token -> Nat] /\ ready'.states[cur] \notin WaitReason
      BY <1>0, <2>5, CompletesType DEF Resource
    <3> QED
      BY <1>0, <1>1, <1>11, <2>1, <2>4, <2>5, <3>1
      DEF Copy, TypeOK, PolledAwake, pollFrame, app, GoesOn
  <2>6. CASE GoesOn /\ UNCHANGED <<events, ready, bypass>>
    BY <1>0, <1>1, <1>11, <2>1, <2>4, <2>6
    DEF Copy, TypeOK, PolledAwake, pollFrame, app, GoesOn
  <2>7. CASE Waits(r, "Bytes")
    BY <1>0, <1>3, <1>4, <1>11, <2>4, <2>7
    DEF Copy, TypeOK, PolledAwake, pollFrame, app, Positions, Resource
  <2> QED BY <1>11, <2>5, <2>6, <2>7 DEF Copy
<1>12. CASE Send
  <2> DEFINE r == RequestTurn(ready, cur, "Queue")
  <2>1. op[cur] \in SendOps /\ Permit
    BY <1>12 DEF Send, Polls
  <2>2. len[cur] \in Nat /\ used \in Int
    BY <1>0 DEF TypeOK
  <2>3. AfterSend(op[cur]) \subseteq Ops
    BY <2>1 DEF AfterSend, CopyOps, SendOps, Ops
  <2>4. CASE SendOk(r)
    <3>1. op' \in [Token -> Ops]
      BY <2>3, <2>4 DEF SendOk, TypeOK
    <3>2. len' \in [Token -> Nat] /\ terminal' \subseteq Token
      BY <1>0, <2>4 DEF SendOk, TypeOK
    <3>3. chan' \in Seq(Nat)
      BY <2>2, <2>4 DEF SendOk, TypeOK
    <3>4. /\ ready' \in ReadyType /\ events' \subseteq Token \cup {CONTROL}
          /\ bypass' \in [Token -> Nat] /\ ready'.states[cur] \notin WaitReason
      BY <1>0, <2>4, CompletesType DEF Resource, SendOk
    <3>5. CASE GoesOn
      BY <1>0, <1>1, <1>12, <2>1, <2>4, <3>1, <3>2, <3>3, <3>4, <3>5
      DEF Send, SendOk, TypeOK, PolledAwake, pollFrame, app, GoesOn
    <3>6. CASE Returns
      BY <1>0, <1>12, <2>4, <3>1, <3>2, <3>3, <3>4, <3>6
      DEF Send, SendOk, TypeOK, PolledAwake, pollFrame, app, Returns, Leaves, Positions
    <3> QED BY <2>4, <3>5, <3>6 DEF SendOk
  <2>5. CASE SendDisconnected(r)
    <3>1. op' \in [Token -> Ops]
      BY <2>5 DEF SendDisconnected, TypeOK, Ops
    <3>2. len' \in [Token -> Nat] /\ used' \in Int /\ flags' \subseteq Signal
      BY <1>0, <2>2, <2>5 DEF SendDisconnected, TypeOK, Signal
    <3>3. /\ ready' \in ReadyType /\ events' \subseteq Token \cup {CONTROL}
          /\ bypass' \in [Token -> Nat] /\ ready'.states[cur] \notin WaitReason
      BY <1>0, <2>5, CompletesType DEF Resource, SendDisconnected
    <3> QED
      BY <1>0, <1>12, <2>5, <3>1, <3>2, <3>3
      DEF Send, SendDisconnected, TypeOK, PolledAwake, pollFrame, app, Returns,
          Leaves, Positions
  <2>6. CASE Waits(r, "Queue") /\ UNCHANGED <<used, chan, flags, op, len, terminal>>
    BY <1>0, <1>3, <1>4, <1>12, <2>6
    DEF Send, TypeOK, PolledAwake, pollFrame, app, Positions, Resource
  <2> QED BY <1>12, <2>4, <2>5, <2>6 DEF Send
<1> QED
  BY <1>5, <1>6, <1>7, <1>8, <1>9, <1>10, <1>11, <1>12 DEF Poll

\* The steps of drive outside a poll keep the types, and a poll starts with a
\* task that is awake.
LEMMA DriveType ==
    TypeOK /\ PolledAwake /\ Drive => TypeOK' /\ PolledAwake'
<1> SUFFICES ASSUME TypeOK, PolledAwake, Drive PROVE TypeOK' /\ PolledAwake'
  OBVIOUS
<1>0. ready \in ReadyType /\ TurnBatch \in Nat /\ TurnSteps \in Nat
  BY TasksConstants DEF TypeOK
<1>1. CASE Bind
  BY <1>1 DEF Bind, TypeOK, PolledAwake, driveFrame, app, net, Positions
<1>2. CASE Admit
  <2>1. pc' \in Positions /\ pc' # "task"
    BY <1>2 DEF Admit, Positions
  <2>2. ready' \in ReadyType /\ op' \in [Token -> Ops]
    <3>1. CASE UNCHANGED <<ready, op>>
      BY <1>0, <3>1 DEF TypeOK
    <3>2. ASSUME NEW t \in Token, ready' = Insert(ready, t),
                 op' = [op EXCEPT ![t] = "connected"]
          PROVE  ready' \in ReadyType /\ op' \in [Token -> Ops]
      <4>1. Insert(ready, t) \in ReadyType
        BY <1>0, SchedulerTypes DEF Resource
      <4> QED BY <3>2, <4>1 DEF TypeOK, Ops, SendOps
    <3> QED BY <1>2, <3>1, <3>2 DEF Admit
  <2> QED
    BY <1>2, <2>1, <2>2 DEF Admit, TypeOK, PolledAwake, driveFrame, app, net
<1>3. CASE CheckStop \/ Collect
  <2>1. retiring' \subseteq Token /\ pc' \in Positions /\ pc' # "task"
    BY <1>3 DEF CheckStop, Collect, Live, Positions, TypeOK
  <2> QED
    BY <1>3, <2>1 DEF CheckStop, Collect, TypeOK, PolledAwake, driveFrame, app, net
<1>4. CASE RetireTask
  <2>0. PICK t \in retiring : RetireTask!2!(t)
    BY <1>4 DEF RetireTask
  <2>1. t \in Token
    BY DEF TypeOK
  <2>2. ready' \in ReadyType
    BY <1>0, <2>0, <2>1, RetireFacts
  <2>3. Charged(t) \in Nat
    BY <2>1 DEF Charged, TypeOK
  <2>4. used' \in Int /\ flags' \subseteq Signal
    BY <2>0, <2>3 DEF TypeOK, Signal
  <2>5. op' \in [Token -> Ops] /\ len' \in [Token -> Nat]
    BY <2>0 DEF TypeOK, Ops
  <2>6. frames' \in [Token -> Nat] /\ bypass' \in [Token -> Nat]
    BY <2>0 DEF TypeOK
  <2>7. /\ inbox' \in [Token -> Nat] /\ sent' \in [Token -> Nat]
        /\ eof' \in [Token -> BOOLEAN]
    BY <2>0 DEF TypeOK
  <2>8. /\ retiring' \subseteq Token /\ requested' \subseteq Token
        /\ terminal' \subseteq Token /\ events' \subseteq Token \cup {CONTROL}
    BY <2>0 DEF TypeOK
  <2>9. pc' = pc /\ pc # "task" /\ UNCHANGED <<capacity, chan, consumer, held, pub,
                                               batch, left, cur, remaining>>
    BY <1>4 DEF RetireTask
  <2> QED
    BY <2>2, <2>4, <2>5, <2>6, <2>7, <2>8, <2>9 DEF TypeOK, PolledAwake
<1>5. CASE Retired
  BY <1>5 DEF Retired, TypeOK, PolledAwake, driveFrame, app, net, Positions
<1>6. ASSUME NEW x \in Resource, NEW where, NEW then \in Positions \ {"task"},
             NEW polls \in Nat, TakeCredit(x, where, then, polls)
      PROVE  TypeOK' /\ PolledAwake'
  <2>1. ready' \in ReadyType
    BY <1>0, <1>6, SchedulerTypes, ResumeHeadFacts DEF TakeCredit, ResumeCredit
  <2> QED
    BY <1>6, <2>1 DEF TakeCredit, TypeOK, PolledAwake, driveFrame, app, net
<1>7. CASE TakeQueueCredit
  BY <1>6, <1>7 DEF TakeQueueCredit, Resource, Positions
<1>8. CASE TakeByteCredit
  BY <1>0, <1>6, <1>8 DEF TakeByteCredit, Resource, Positions
<1>9. CASE RunReady
  <2>1. CASE pc' = "after"
    BY <1>9, <2>1
    DEF RunReady, TypeOK, PolledAwake, driveFrame, app, net, Positions
  <2>2. CASE pc' = "task"
    <3>1. /\ ready.queue # <<>> /\ ready' = Take(ready) /\ cur' = ready.queue[1]
          /\ left' = left - 1 /\ left > 0 /\ remaining' = TurnSteps
      BY <1>9, <2>2 DEF RunReady, HasReady
    <3>2. cur' \in Token /\ ready' \in ReadyType
      BY <1>0, <3>1, TakeFacts
    <3>3. ready'.states[cur'] = "Running"
      BY <1>0, <3>1, TakeFacts
    <3>4. left' \in Nat
      BY <3>1 DEF TypeOK
    <3>5. PolledAwake'
      BY <3>2, <3>3 DEF PolledAwake, WaitReason, Resource
    <3> QED
      BY <1>0, <1>9, <2>2, <3>1, <3>2, <3>4, <3>5
      DEF RunReady, TypeOK, driveFrame, app, net, Positions
  <2> QED BY <1>9, <2>1, <2>2 DEF RunReady
<1>10. CASE Poll
  BY <1>10, PollType
<1>11. CASE PollReturns
  BY <1>11 DEF PollReturns, TypeOK, PolledAwake, driveFrame, app, net, Positions
<1>12. CASE HandleEvents
  <2>1. ready' \in ReadyType
    <3>1. \A t \in Token : IoReady(ready, t) \in ReadyType
      BY <1>0, SchedulerTypes DEF Resource
    <3> QED BY <1>0, <1>12, <3>1 DEF HandleEvents
  <2>2. batch' \subseteq Token \cup {CONTROL} /\ pc' \in Positions /\ pc' # "task"
    BY <1>12 DEF HandleEvents, TypeOK, Positions
  <2> QED
    BY <1>12, <2>1, <2>2
    DEF HandleEvents, TypeOK, PolledAwake, driveFrame, app, net
<1> QED
  BY <1>1, <1>2, <1>3, <1>4, <1>5, <1>7, <1>8, <1>9, <1>10, <1>11, <1>12 DEF Drive

\* Every step keeps the types, and keeps the polled task awake.
LEMMA TypeStep == TypeOK /\ PolledAwake /\ [Next]_vars => TypeOK' /\ PolledAwake'
<1> SUFFICES ASSUME TypeOK, PolledAwake, [Next]_vars PROVE TypeOK' /\ PolledAwake'
  OBVIOUS
<1>1. CASE Drive
  BY <1>1, DriveType
<1>2. CASE Consume \/ Outside
  <2>1. UNCHANGED <<pc, cur, ready>>
    BY <1>2
    DEF Consume, Outside, Raise, Wake, Recv, Drain, Disconnect, DropPayload,
        DropRecords, Close, PeerSend, PeerClose, consumerFrame, netFrame, loop, tasks
  <2> QED BY <1>2, <2>1, OutsideType DEF PolledAwake
<1>3. CASE Terminated \/ UNCHANGED vars
  BY <1>3 DEF Terminated, vars, app, net, loop, tasks, TypeOK, PolledAwake
<1> QED BY <1>1, <1>2, <1>3 DEF Next

\* Every reachable state of the worker, its tasks, the channel, the budget and
\* the signals has the shape of the Rust types (TypeOK).
THEOREM TypeCorrect == Spec => []TypeOK
<1>1. Init => TypeOK /\ PolledAwake
  BY InitType DEF Init, PolledAwake
<1> QED BY <1>1, TypeStep, PTL DEF Spec

-----------------------------------------------------------------------------
(* No lost credit.                                                         *)
(*                                                                         *)
(* A sleeping head becomes due only when the resource grows or the head    *)
(* changes.  The resource grows in steps that raise the credit, or that    *)
(* leave it to `pub`; the head changes in steps that wake the new head.    *)

\* A sleeping head of x in r2 is the head of x in r and sleeps there too.
SameSleeper(r, r2, x) ==
    r2.requests[x] # <<>> /\ r2.states[r2.requests[x][1]] = x =>
        /\ r.requests[x] # <<>> /\ r.requests[x][1] = r2.requests[x][1]
        /\ r.states[r.requests[x][1]] = x

\* What a waiter for x needs is no easier to get after the step.
NoGrowth(x) ==
    IF x = "Queue" THEN consumer' = consumer /\ Len(chan') >= Len(chan)
    ELSE /\ capacity' = capacity /\ used' >= used
         /\ \A u \in Token : ready'.states[u] = x => len'[u] = len[u]

\* Without growth and without a new sleeper, a due credit was due before.
LEMMA DueBefore ==
    ASSUME TypeOK, TypeOK', NEW x \in Resource, SameSleeper(ready, ready', x),
           NoGrowth(x), CreditDue(x)'
    PROVE  CreditDue(x)
<1> DEFINE h == ready'.requests[x][1]
<1>1. ready' \in ReadyType /\ ready'.requests[x] # <<>> /\ ready'.states[h] = x
  BY DEF CreditDue, TypeOK
<1>2. h \in Token
  BY <1>1 DEF ReadyType
<1>3. ready.requests[x] # <<>> /\ ready.requests[x][1] = h /\ ready.states[h] = x
  BY <1>1, <1>2 DEF SameSleeper
<1>4. CASE x = "Queue"
  <2>1. consumer = "alive" /\ Len(chan') < ChanCap /\ Len(chan') >= Len(chan)
    BY <1>4 DEF CreditDue, NoGrowth
  <2>2. Len(chan) \in Nat /\ Len(chan') \in Nat /\ ChanCap \in Nat
    <3>1. chan \in Seq(Nat) /\ chan' \in Seq(Nat)
      BY DEF TypeOK
    <3>2. ChanCap \in Nat
      BY TasksConstants
    <3> QED BY <3>1, <3>2
  <2>3. Len(chan) < ChanCap
    BY <2>1, <2>2
  <2> QED BY <1>3, <1>4, <2>1, <2>3 DEF CreditDue
<1>5. CASE x # "Queue"
  <2>1. /\ len'[h] <= capacity' - used' /\ capacity' = capacity /\ used' >= used
        /\ len'[h] = len[h]
    BY <1>1, <1>2, <1>5 DEF CreditDue, NoGrowth
  <2> HIDE DEF h
  <2>2. capacity \in Int /\ used \in Int /\ used' \in Int /\ len[h] \in Int
    <3>1. capacity \in Nat /\ used \in Int /\ used' \in Int /\ len \in [Token -> Nat]
      BY DEF TypeOK
    <3> QED BY <1>2, <3>1
  <2>3. len[h] <= capacity - used
    BY <2>1, <2>2
  <2> QED BY <1>3, <1>5, <2>3 DEF CreditDue
<1> QED BY <1>4, <1>5

\* The scheduler facts above, in the form DueBefore uses.
LEMMA Sleepers ==
    ASSUME NEW r \in ReadyType, NEW r2 \in ReadyType, NEW x \in Resource,
           NoNewWait(r, r2), HeadKeptOrAwake(r, r2, x)
    PROVE  SameSleeper(r, r2, x)
<1>1. x \in WaitReason
  BY DEF WaitReason
<1>2. r2.requests[x] # <<>> => r2.requests[x][1] \in Token
  BY DEF ReadyType
<1> QED BY <1>1, <1>2 DEF SameSleeper, NoNewWait, HeadKeptOrAwake

\* The same when no admission FIFO changes.
LEMMA SleepersUnmoved ==
    ASSUME NEW r \in ReadyType, NEW r2 \in ReadyType, NEW x \in Resource,
           NoNewWait(r, r2), r2.requests = r.requests
    PROVE  SameSleeper(r, r2, x)
  BY Sleepers DEF HeadKeptOrAwake

\* A completed operation registers, unregisters and resumes the next: no
\* sleeper appears.
LEMMA CompletesSleepers ==
    ASSUME TypeOK, cur \in Token, ready.states[cur] \notin WaitReason,
           NEW x \in Resource, NEW y \in Resource, NEW p,
           Completes(RequestTurn(ready, cur, x), x, p)
    PROVE  SameSleeper(ready, ready', y)
<1> DEFINE r == RequestTurn(ready, cur, x)
<1>1. ready \in ReadyType /\ r \in ReadyType
  BY SchedulerTypes DEF TypeOK
<1>2. /\ r.states = ready.states
      /\ r.requests[x] = PushBack(ready.requests[x], cur)
      /\ \A z \in Resource : z # x => r.requests[z] = ready.requests[z]
  BY <1>1 DEF RequestTurn, ReadyType
<1>3. ready' = RemoveRequest(r, cur, x)
  BY DEF Completes, FinishRequest
<1> HIDE DEF r
<1>4. /\ ready' \in ReadyType /\ NoNewWait(r, ready') /\ HeadKeptOrAwake(r, ready', x)
      /\ \A z \in Resource : z # x => ready'.requests[z] = r.requests[z]
  BY <1>1, <1>3, RemoveRequestFacts
<1>5. NoNewWait(ready, ready')
  BY <1>2, <1>4 DEF NoNewWait
<1>6. CASE y # x
  BY <1>1, <1>2, <1>4, <1>5, <1>6, Sleepers DEF HeadKeptOrAwake
<1>7. CASE y = x
  <2>1. ready.requests[x] \in Seq(Token)
    BY <1>1 DEF ReadyType
  <2>2. r.requests[x] # <<>> =>
           \/ ready.requests[x] # <<>> /\ r.requests[x][1] = ready.requests[x][1]
           \/ r.requests[x][1] = cur
    <3> DEFINE q == ready.requests[x]
    <3> HIDE DEF q
    <3>1. q \in Seq(Token) /\ r.requests[x] = PushBack(q, cur)
      BY <1>2, <2>1 DEF q
    <3>2. \/ q # <<>> /\ r.requests[x][1] = q[1]
          \/ r.requests[x][1] = cur
      BY <3>1, PushBackFacts
    <3> QED BY <3>2 DEF q
  <2>3. ready'.states[cur] \notin WaitReason
    BY <1>2, <1>4 DEF NoNewWait
  <2>4. HeadKeptOrAwake(ready, ready', x)
    BY <1>4, <2>2, <2>3 DEF HeadKeptOrAwake
  <2> QED BY <1>1, <1>4, <1>5, <1>7, <2>4, Sleepers
<1> QED BY <1>6, <1>7

\* A task that parks for x becomes the sleeping head of x only when it was
\* already first: its guard then says that x is not free for it.
LEMMA WaitsSleepers ==
    ASSUME TypeOK, cur \in Token, NEW x \in Resource, NEW y \in Resource,
           Waits(RequestTurn(ready, cur, x), x),
           y # x \/ ~IsHead(RequestTurn(ready, cur, x), cur, x)
    PROVE  SameSleeper(ready, ready', y)
<1> DEFINE r == RequestTurn(ready, cur, x)
<1>1. ready \in ReadyType /\ r \in ReadyType
  BY SchedulerTypes DEF TypeOK
<1>2. /\ r.states = ready.states
      /\ r.requests[x] = PushBack(ready.requests[x], cur)
      /\ \A z \in Resource : z # x => r.requests[z] = ready.requests[z]
  BY <1>1 DEF RequestTurn, ReadyType
<1> HIDE DEF r
<1>3. ready' = Park(r, cur, x)
  BY DEF Waits, r
<1>4. /\ \A u \in Token : u # cur => ready'.states[u] = r.states[u]
      /\ ready'.states[cur] \in {"Queued", x}
      /\ ready'.requests[x] = PushBack(r.requests[x], cur)
      /\ \A z \in Resource : z # x => ready'.requests[z] = r.requests[z]
  BY <1>1, <1>3 DEF Park, ReadyType
<1>5. CASE y # x
  <2>1. ready'.requests[y] # <<>> => ready'.requests[y][1] \in Token
    BY <1>1, <1>2, <1>4, <1>5 DEF ReadyType
  <2>2. ready'.states[cur] # y
    BY <1>4, <1>5 DEF Resource
  <2> QED BY <1>2, <1>4, <1>5, <2>1, <2>2 DEF SameSleeper
<1>6. CASE y = x
  <2>1. ready.requests[x] \in Seq(Token) /\ r.requests[x] \in Seq(Token)
    BY <1>1 DEF ReadyType
  <2>2. /\ r.requests[x] # <<>> /\ ready'.requests[x] # <<>>
        /\ ready'.requests[x][1] = r.requests[x][1]
        /\ ready.requests[x] # <<>> => r.requests[x][1] = ready.requests[x][1]
        /\ ready.requests[x] = <<>> => r.requests[x][1] = cur
    <3> DEFINE q == ready.requests[x]
               s == r.requests[x]
               e == ready'.requests[x]
    <3> HIDE DEF q, s, e
    <3>1. q \in Seq(Token) /\ s \in Seq(Token)
      BY <2>1 DEF q, s
    <3>2. s = PushBack(q, cur) /\ e = PushBack(s, cur)
      BY <1>2, <1>4 DEF q, s, e
    <3>3. s # <<>> /\ (q # <<>> => s[1] = q[1]) /\ (q = <<>> => s[1] = cur)
      BY <3>1, <3>2, PushBackFacts
    <3>4. e # <<>> /\ e[1] = s[1]
      BY <3>1, <3>2, <3>3, PushBackFacts
    <3> QED BY <3>3, <3>4 DEF q, s, e
  <2>3. r.requests[x][1] # cur /\ r.requests[x][1] \in Token
    BY <1>6, <2>1, <2>2 DEF IsHead, First, r
  <2> QED BY <1>2, <1>4, <1>6, <2>2, <2>3 DEF SameSleeper
<1> QED BY <1>5, <1>6

\* A head that parks stays the head.
LEMMA WaitsHead ==
    ASSUME TypeOK, cur \in Token, NEW x \in Resource,
           Waits(RequestTurn(ready, cur, x), x),
           IsHead(RequestTurn(ready, cur, x), cur, x)
    PROVE  ready'.requests[x][1] = cur
<1> DEFINE r == RequestTurn(ready, cur, x)
<1>1. r \in ReadyType
  BY SchedulerTypes DEF TypeOK
<1>2. r.requests[x] \in Seq(Token) /\ r.requests[x] # <<>> /\ r.requests[x][1] = cur
  <2>1. r.requests[x] \in Seq(Token)
    BY <1>1 DEF ReadyType
  <2>2. Len(r.requests[x]) > 0 /\ r.requests[x][1] = cur
    BY DEF IsHead, First
  <2> QED BY <2>1, <2>2
<1> HIDE DEF r
<1>3. ready'.requests[x] = PushBack(r.requests[x], cur)
  BY <1>1 DEF Waits, Park, ReadyType, r
<1> DEFINE s == r.requests[x]
<1> HIDE DEF s
<1>4. PushBack(s, cur)[1] = cur
  BY <1>2, PushBackFacts DEF s
<1> QED BY <1>3, <1>4 DEF s

\* NoLostCredit for one resource.
Covered(x) == CreditDue(x) => x \in flags \/ pub = x

\* A step that adds no sleeper and no growth, and keeps the signals, keeps x
\* covered.
LEMMA StaysCovered ==
    ASSUME TypeOK, TypeOK', NEW x \in Resource, Covered(x),
           SameSleeper(ready, ready', x), NoGrowth(x),
           x \in flags => x \in flags', pub = x => pub' = x \/ x \in flags'
    PROVE  Covered(x)'
  BY DueBefore DEF Covered

\* Steps of the consumer, of a closer and of a peer keep every credit covered.
LEMMA OutsideCovers ==
    ASSUME TypeOK, TypeOK', Consume \/ Outside, NEW x \in Resource, Covered(x)
    PROVE  Covered(x)'
<1>1. UNCHANGED <<ready, len, capacity>>
  BY DEF Consume, Outside, Raise, Wake, Recv, Drain, Disconnect, DropPayload,
         DropRecords, Close, PeerSend, PeerClose, consumerFrame, netFrame, loop, tasks
<1>2. SameSleeper(ready, ready', x)
  BY <1>1 DEF SameSleeper
<1>3. used \in Int /\ used <= used /\ Len(chan) <= Len(chan)
  BY DEF TypeOK
<1>4. CASE Raise \/ Wake \/ \E t \in Token : Close(t) \/ PeerSend(t) \/ PeerClose(t)
  <2>1. UNCHANGED <<used, chan, consumer>> /\ flags \subseteq flags'
    BY <1>4 DEF Raise, Wake, Close, PeerSend, PeerClose, consumerFrame, netFrame, app
  <2>2. pub = x => pub' = x \/ x \in flags'
    BY <1>4 DEF Raise, Wake, Close, PeerSend, PeerClose, consumerFrame, netFrame, app,
                Resource
  <2>3. NoGrowth(x)
    BY <1>1, <1>3, <2>1 DEF NoGrowth
  <2> QED BY <1>2, <2>1, <2>2, <2>3, StaysCovered
<1>5. CASE x = "Queue" /\ (Drain \/ Disconnect \/ DropRecords)
  <2>1. consumer' # "alive"
    BY <1>5 DEF Drain, Disconnect, DropRecords
  <2> QED BY <1>5, <2>1 DEF Covered, CreditDue
<1>6. CASE x = "Queue" /\ \E n \in Size : DropPayload(n)
  <2>1. NoGrowth(x) /\ flags' = flags /\ pub # x
    BY <1>3, <1>6 DEF DropPayload, NoGrowth, consumerFrame
  <2> QED BY <1>2, <2>1, StaysCovered
<1>7. CASE pub' = x
  BY <1>7 DEF Covered
<1>8. CASE x = "Bytes" /\ (Recv \/ Disconnect \/ DropRecords)
  <2>1. NoGrowth(x) /\ flags' = flags /\ pub # x
    <3>1. UNCHANGED <<used, flags>>
      BY <1>8 DEF Recv, Disconnect, DropRecords
    <3>2. pub # x
      BY <1>8 DEF Recv, Disconnect, DropRecords
    <3> QED BY <1>1, <1>3, <1>8, <3>1, <3>2 DEF NoGrowth
  <2> QED BY <1>2, <2>1, StaysCovered
<1>9. CASE x = "Bytes" /\ Drain /\ pub' # x
  <2>1. Head(chan) = 0 /\ used' = used - Head(chan) /\ flags' = flags /\ pub # x
    BY <1>9 DEF Drain
  <2>2. used' = used
    BY <1>3, <2>1
  <2>3. NoGrowth(x)
    BY <1>1, <1>3, <1>9, <2>2 DEF NoGrowth
  <2> QED BY <1>2, <2>1, <2>3, StaysCovered
<1>10. Recv => pub' = "Queue"
  BY DEF Recv
<1>11. ASSUME NEW n \in Size, DropPayload(n) PROVE pub' = "Bytes"
  BY <1>11 DEF DropPayload
<1> QED
  BY <1>4, <1>5, <1>6, <1>7, <1>8, <1>9, <1>10, <1>11 DEF Consume, Outside, Resource

\* Steps of a poll keep every credit covered: only a completed operation or a
\* dropped payload changes a head or a resource, and a head that parks has
\* just found the resource taken.
LEMMA PollCovers ==
    ASSUME TypeOK, TypeOK', PolledAwake, Poll, NEW x \in Resource, Covered(x)
    PROVE  Covered(x)'
<1>0. /\ cur \in Token /\ ready \in ReadyType /\ ready' \in ReadyType
      /\ ready.states[cur] \notin WaitReason /\ x \in WaitReason
  <2>1. pc = "task"
    BY DEF Poll, Yield, ReadEnd, ReadBlocks, ReadInterrupted, Copy, Send, Decode,
         Frame, ReadData, Polls
  <2> QED BY <2>1 DEF PolledAwake, TypeOK, WaitReason
<1>1. pub' = pub /\ consumer' = consumer /\ capacity' = capacity
  BY DEF Poll, Yield, ReadEnd, ReadBlocks, ReadInterrupted, Copy, Send, Decode,
         Frame, decodeFrame, ReadData, pollFrame, app
<1>2. used \in Int /\ used <= used /\ Len(chan) <= Len(chan) /\ len[cur] \in Nat
  BY <1>0 DEF TypeOK
<1>3. len \in [Token -> Nat] /\ \A u \in Token : u # cur => len'[u] = len[u]
  <2>1. len' = len \/ \E n : len' = [len EXCEPT ![cur] = n]
    BY DEF Poll, Yield, ReadEnd, ReadBlocks, ReadInterrupted, Copy, Send, Decode,
         Frame, ReadData, SendOk, SendDisconnected
  <2> QED BY <2>1 DEF TypeOK
<1>4. CASE Yield \/ ReadInterrupted
  <2>1. ready' = Enqueue(ready, cur) /\ UNCHANGED <<used, chan, flags, len>>
    BY <1>4 DEF Yield, ReadInterrupted, SelfWake
  <2>2. SameSleeper(ready, ready', x)
    BY <1>0, <2>1, EnqueueFacts, SleepersUnmoved
  <2>3. NoGrowth(x)
    BY <1>1, <1>2, <2>1 DEF NoGrowth
  <2> QED BY <1>1, <2>1, <2>2, <2>3, StaysCovered
<1>5. CASE ReadBlocks
  <2>1. ready' = Park(ready, cur, "Kernel") /\ UNCHANGED <<used, chan, flags, len>>
    BY <1>5 DEF ReadBlocks
  <2>2. /\ \A u \in Token : u # cur => ready'.states[u] = ready.states[u]
        /\ ready'.states[cur] \in {"Queued", "Kernel"}
        /\ ready'.requests[x] = ready.requests[x]
    BY <1>0, <2>1 DEF Park, ReadyType, Resource
  <2>3. ready.requests[x] # <<>> => ready.requests[x][1] \in Token
    BY <1>0 DEF ReadyType
  <2>4. SameSleeper(ready, ready', x)
    BY <2>2, <2>3 DEF SameSleeper, Resource
  <2>5. NoGrowth(x)
    BY <1>1, <1>2, <2>1 DEF NoGrowth
  <2> QED BY <1>1, <2>1, <2>4, <2>5, StaysCovered
<1>6. CASE ReadEnd \/ Decode \/ Frame \/ \E n \in Size : ReadData(n)
  <2>1. UNCHANGED <<ready, used, chan, flags>>
    BY <1>6 DEF ReadEnd, Decode, Frame, decodeFrame, ReadData
  <2>2. SameSleeper(ready, ready', x)
    BY <2>1 DEF SameSleeper
  <2>3. NoGrowth(x)
    BY <1>0, <1>1, <1>2, <1>3, <2>1 DEF NoGrowth
  <2> QED BY <1>1, <2>1, <2>2, <2>3, StaysCovered
<1>7. CASE Copy
  <2> DEFINE r == RequestTurn(ready, cur, "Bytes")
  <2>1. UNCHANGED <<chan, flags>>
    BY <1>7 DEF Copy
  <2>2. CASE Completes(r, "Bytes", FALSE) /\ used' = used + len[cur]
    <3>1. SameSleeper(ready, ready', x)
      BY <1>0, <2>2, CompletesSleepers DEF Resource
    <3>2. used' >= used
      BY <1>2, <2>2
    <3>3. ready'.states[cur] # x
      BY <1>0, <2>2, CompletesType DEF Resource
    <3>4. NoGrowth(x)
      BY <1>1, <1>2, <1>3, <2>1, <3>2, <3>3 DEF NoGrowth
    <3> QED BY <1>1, <2>1, <3>1, <3>4, StaysCovered
  <2>3. CASE UNCHANGED <<used, ready>>
    <3>1. SameSleeper(ready, ready', x)
      BY <2>3 DEF SameSleeper
    <3>2. NoGrowth(x)
      BY <1>0, <1>1, <1>2, <1>3, <2>1, <2>3 DEF NoGrowth
    <3> QED BY <1>1, <2>1, <3>1, <3>2, StaysCovered
  <2>4. CASE /\ Waits(r, "Bytes") /\ UNCHANGED <<used, op, len>>
             /\ ~IsHead(r, cur, "Bytes") \/ len[cur] > capacity - used
    <3>1. CASE x = "Queue" \/ ~IsHead(r, cur, "Bytes")
      <4>1. SameSleeper(ready, ready', x)
        BY <1>0, <2>4, <3>1, WaitsSleepers DEF Resource
      <4>2. NoGrowth(x)
        BY <1>1, <1>2, <2>1, <2>4 DEF NoGrowth
      <4> QED BY <1>1, <2>1, <4>1, <4>2, StaysCovered
    <3>2. CASE x = "Bytes" /\ IsHead(r, cur, "Bytes")
      <4>1. ready'.requests["Bytes"][1] = cur
        BY <1>0, <2>4, <3>2, WaitsHead
      <4>2. ~(len[cur] <= capacity - used)
        BY <1>2, <2>4, <3>2 DEF TypeOK
      <4> QED BY <1>1, <2>4, <3>2, <4>1, <4>2 DEF Covered, CreditDue
    <3> QED BY <3>1, <3>2 DEF Resource
  <2> QED BY <1>7, <2>2, <2>3, <2>4, Zenon DEF Copy
<1>8. CASE Send
  <2> DEFINE r == RequestTurn(ready, cur, "Queue")
  <2>1. CASE SendOk(r)
    <3>1. SameSleeper(ready, ready', x)
      BY <1>0, <2>1, CompletesSleepers DEF Resource, SendOk
    <3>2. Len(chan') >= Len(chan) /\ UNCHANGED <<used, flags>>
      BY <1>2, <2>1 DEF SendOk, TypeOK
    <3>3. ready'.states[cur] # x
      BY <1>0, <2>1, CompletesType DEF Resource, SendOk
    <3>4. NoGrowth(x)
      BY <1>1, <1>2, <1>3, <3>2, <3>3 DEF NoGrowth
    <3> QED BY <1>1, <3>1, <3>2, <3>4, StaysCovered
  <2>2. CASE SendDisconnected(r) /\ consumer # "alive"
    <3>1. CASE x = "Queue"
      BY <1>1, <2>2, <3>1 DEF Covered, CreditDue
    <3>2. CASE x = "Bytes" /\ len[cur] > 0
      BY <2>2, <3>2 DEF SendDisconnected, Covered
    <3>3. CASE x = "Bytes" /\ ~(len[cur] > 0)
      <4>1. len[cur] = 0
        BY <1>2, <3>3
      <4>2. used' = used /\ flags' = flags
        BY <1>2, <2>2, <3>3, <4>1 DEF SendDisconnected
      <4>3. SameSleeper(ready, ready', x)
        BY <1>0, <2>2, CompletesSleepers DEF Resource, SendDisconnected
      <4>4. ready'.states[cur] # x
        BY <1>0, <2>2, CompletesType DEF Resource, SendDisconnected
      <4>5. NoGrowth(x)
        BY <1>1, <1>2, <1>3, <3>3, <4>2, <4>4 DEF NoGrowth
      <4> QED BY <1>1, <4>2, <4>3, <4>5, StaysCovered
    <3> QED BY <3>1, <3>2, <3>3 DEF Resource
  <2>3. CASE /\ Waits(r, "Queue") /\ UNCHANGED <<used, chan, flags, len>>
             /\ ~IsHead(r, cur, "Queue") \/ (consumer = "alive" /\ Len(chan) >= ChanCap)
    <3>1. CASE x = "Bytes" \/ ~IsHead(r, cur, "Queue")
      <4>1. SameSleeper(ready, ready', x)
        BY <1>0, <2>3, <3>1, WaitsSleepers DEF Resource
      <4>2. NoGrowth(x)
        BY <1>1, <1>2, <2>3 DEF NoGrowth
      <4> QED BY <1>1, <2>3, <4>1, <4>2, StaysCovered
    <3>2. CASE x = "Queue" /\ IsHead(r, cur, "Queue")
      <4>1. Len(chan) \in Nat /\ ChanCap \in Nat
        <5>1. chan \in Seq(Nat)
          BY DEF TypeOK
        <5>2. ChanCap \in Nat
          BY TasksConstants
        <5> QED BY <5>1, <5>2
      <4>2. ~(Len(chan') < ChanCap)
        BY <2>3, <3>2, <4>1
      <4> QED BY <3>2, <4>2 DEF Covered, CreditDue
    <3> QED BY <3>1, <3>2 DEF Resource
  <2> QED BY <1>8, <2>1, <2>2, <2>3, Zenon DEF Send
<1> QED BY <1>4, <1>5, <1>6, <1>7, <1>8 DEF Poll

\* Steps of drive keep every credit covered: a credit is taken only together
\* with waking the head it is for, and a retired task passes its turn on.
LEMMA DriveCovers ==
    ASSUME TypeOK, TypeOK', PolledAwake, Drive, NEW x \in Resource, Covered(x)
    PROVE  Covered(x)'
<1>0. ready \in ReadyType /\ ready' \in ReadyType
  BY DEF TypeOK
<1>1. used \in Int /\ used <= used /\ Len(chan) <= Len(chan)
  BY DEF TypeOK
<1>2. ASSUME UNCHANGED <<capacity, chan, consumer, pub, used, len>>,
             SameSleeper(ready, ready', x), x \in flags => x \in flags'
      PROVE  Covered(x)'
  <2>1. NoGrowth(x)
    BY <1>1, <1>2 DEF NoGrowth
  <2> QED BY <1>2, <2>1, StaysCovered
<1>3. CASE Bind \/ CheckStop \/ Collect \/ Retired \/ PollReturns
  <2>1. UNCHANGED <<ready, capacity, chan, consumer, pub, used, len, flags>>
    BY <1>3 DEF Bind, CheckStop, Collect, Retired, PollReturns, driveFrame, app
  <2>2. SameSleeper(ready, ready', x)
    BY <2>1 DEF SameSleeper
  <2> QED BY <1>2, <2>1, <2>2
<1>4. CASE Admit
  <2>1. UNCHANGED <<capacity, chan, consumer, pub, used, len, flags>>
    BY <1>4 DEF Admit, driveFrame, app
  <2>2. ready' = ready \/ \E t \in Token : ready' = Insert(ready, t)
    BY <1>4 DEF Admit
  <2>3. NoNewWait(ready, ready') /\ ready'.requests = ready.requests
    BY <1>0, <2>2 DEF Insert, NoNewWait, ReadyType, WaitReason, Resource
  <2> QED BY <1>0, <1>2, <2>1, <2>3, SleepersUnmoved
<1>5. CASE RetireTask
  <2>0. PICK t \in retiring : RetireTask!2!(t)
    BY <1>5 DEF RetireTask
  <2>1. t \in Token
    BY DEF TypeOK
  <2>2. UNCHANGED <<capacity, chan, consumer, pub>>
    BY <1>5 DEF RetireTask
  <2>3. SameSleeper(ready, ready', x) /\ ready'.states[t] # x
    BY <1>0, <2>0, <2>1, RetireFacts, Sleepers DEF WaitReason
  <2>4. CASE x = "Bytes" /\ Charged(t) > 0
    BY <2>0, <2>4 DEF Covered
  <2>5. CASE x = "Queue" \/ ~(Charged(t) > 0)
    <3>1. flags \subseteq flags'
      BY <2>0
    <3>2. NoGrowth(x)
      <4>1. CASE x = "Queue"
        BY <1>1, <2>2, <4>1 DEF NoGrowth
      <4>2. CASE x # "Queue"
        <5>1. Charged(t) = 0
          BY <2>1, <2>5, <4>2 DEF Charged, TypeOK
        <5>2. used' = used
          BY <1>1, <2>0, <5>1
        <5>3. \A u \in Token : u # t => len'[u] = len[u]
          BY <2>0 DEF TypeOK
        <5> QED BY <1>1, <2>2, <2>3, <4>2, <5>2, <5>3 DEF NoGrowth
      <4> QED BY <4>1, <4>2
    <3> QED BY <2>2, <2>3, <3>1, <3>2, StaysCovered
  <2> QED BY <2>4, <2>5 DEF Resource
<1>6. ASSUME NEW y \in Resource, NEW where, NEW then, NEW polls,
             TakeCredit(y, where, then, polls)
      PROVE  Covered(x)'
  <2>1. UNCHANGED <<capacity, chan, consumer, pub, used, len>> /\ flags' = flags \ {y}
    BY <1>6 DEF TakeCredit, driveFrame, app
  <2>2. CASE y \notin flags
    <3>1. flags' = flags /\ ready' = ready
      BY <1>6, <2>1, <2>2 DEF TakeCredit
    <3> QED BY <1>2, <2>1, <3>1 DEF SameSleeper
  <2>3. CASE y \in flags
    <3>1. ready' = ResumeHead(ready, y)
      BY <1>6, <2>3 DEF TakeCredit, ResumeCredit
    <3>2. CASE x = y
      <4>1. /\ ready'.requests = ready.requests
            /\ ready.requests[x] # <<>> => ready'.states[ready.requests[x][1]] # x
        BY <1>0, <3>1, <3>2, ResumeHeadFacts DEF WaitReason
      <4> QED BY <4>1 DEF Covered, CreditDue
    <3>3. CASE x # y
      <4>1. SameSleeper(ready, ready', x)
        BY <1>0, <3>1, ResumeHeadFacts, SleepersUnmoved
      <4> QED BY <1>2, <2>1, <3>3, <4>1
    <3> QED BY <3>2, <3>3
  <2> QED BY <2>2, <2>3
<1>7. CASE TakeQueueCredit \/ TakeByteCredit
  BY <1>6, <1>7 DEF TakeQueueCredit, TakeByteCredit, Resource
<1>8. CASE RunReady
  <2>1. UNCHANGED <<capacity, chan, consumer, pub, used, len, flags>>
    BY <1>8 DEF RunReady, driveFrame, app
  <2>2. ready' = ready \/ (ready.queue # <<>> /\ ready' = Take(ready))
    BY <1>8 DEF RunReady, HasReady
  <2>3. SameSleeper(ready, ready', x)
    BY <1>0, <2>2, TakeFacts, SleepersUnmoved DEF SameSleeper
  <2> QED BY <1>2, <2>1, <2>3
<1>9. CASE Poll
  BY <1>9, PollCovers
<1>10. CASE HandleEvents
  <2>1. UNCHANGED <<capacity, chan, consumer, pub, used, len, flags>>
    BY <1>10 DEF HandleEvents, driveFrame, app
  <2>2. ready' = ready \/ \E t \in Token : ready' = Enqueue(ready, t)
    BY <1>10 DEF HandleEvents, IoReady
  <2>3. SameSleeper(ready, ready', x)
    BY <1>0, <2>2, EnqueueFacts, SleepersUnmoved DEF SameSleeper
  <2> QED BY <1>2, <2>1, <2>3
<1> QED BY <1>3, <1>4, <1>5, <1>7, <1>8, <1>9, <1>10 DEF Drive

\* For any number of connections and any limits, a resource that is free while
\* the oldest waiter for it sleeps is always announced: its credit is raised, or
\* the consumer is about to raise it (NoLostCredit).
THEOREM CreditsKept == Spec => []NoLostCredit
<1> DEFINE Inv == TypeOK /\ PolledAwake /\ NoLostCredit
<1>1. Init => Inv
  <2> SUFFICES ASSUME Init PROVE Inv
    OBVIOUS
  <2>1. \A x \in Resource : ready.requests[x] = <<>>
    BY DEF Init, EmptyReady
  <2> QED BY <2>1, InitType DEF Init, PolledAwake, NoLostCredit, CreditDue
<1>2. Inv /\ [Next]_vars => Inv'
  <2> SUFFICES ASSUME Inv, [Next]_vars PROVE Inv'
    OBVIOUS
  <2>1. TypeOK' /\ PolledAwake'
    BY TypeStep
  <2>2. ASSUME NEW x \in Resource PROVE Covered(x)'
    <3>1. Covered(x)
      BY DEF NoLostCredit, Covered
    <3>2. CASE Drive
      BY <2>1, <3>1, <3>2, DriveCovers
    <3>3. CASE Consume \/ Outside
      BY <2>1, <3>1, <3>3, OutsideCovers
    <3>4. CASE Terminated \/ UNCHANGED vars
      BY <3>1, <3>4
      DEF Terminated, vars, app, net, loop, tasks, Covered, CreditDue
    <3> QED BY <3>2, <3>3, <3>4 DEF Next
  <2> QED BY <2>1, <2>2 DEF NoLostCredit, Covered
<1> QED BY <1>1, <1>2, PTL DEF Spec

-----------------------------------------------------------------------------
(* The scheduler's own books, and what the worker asserts about them.      *)
(*                                                                         *)
(* Every part below is needed for the others: a task that waits is         *)
(* registered only as long as its await point asks for the resource, the   *)
(* await point changes only in a poll, and a poll is of a running task.    *)

\* The record is coherent and knows exactly the live tasks.
Coherent == Sound(ready) /\ Present(ready) = Live

\* The await points from which a task asks for x.
Asks(x) == IF x = "Queue" THEN SendOps ELSE CopyOps

\* Whoever stands in an admission FIFO is at an await point that asks for it.
Registered == \A x \in Resource : \A t \in Members(ready.requests[x]) : op[t] \in Asks(x)

\* Where the worker is fits what the tasks are doing: the polled task runs, a
\* running task is polled or about to be retired, and a completed one is never
\* left behind.
Placed ==
    /\ pc = "task" => /\ ready.states[cur] \in {"Running", "Notified"}
                      /\ op[cur] \notin {"none", "done"}
    /\ retiring \subseteq Live
    /\ retiring # {} => pc \in {"retire", "closing", "ended", "shutdown"}
    /\ \A t \in Token : ready.states[t] = "Running" => (pc = "task" /\ cur = t) \/ t \in retiring
    /\ \A t \in Token : op[t] = "done" => t \in retiring

\* A bound receiver can hold the largest payload, so none is refused; a task
\* has a payload only while it copies or sends one; and a task whose Ended
\* record is queued has completed.
Payloads ==
    /\ pc \notin {"bind", "unbound"} => \A n \in Size : n <= capacity
    /\ \A t \in Token : /\ len[t] \in Size \cup {0}
                        /\ op[t] \notin CopyOps \cup SendOps => len[t] = 0
                        /\ op[t] # "refused"
    /\ \A t \in terminal : op[t] = "done"

Core == TypeOK /\ PolledAwake /\ Coherent /\ Registered /\ Placed /\ Payloads

\* A poll concerns one live task that runs and has not completed.
LEMMA PollCur ==
    ASSUME Core, Poll
    PROVE  /\ pc = "task" /\ cur \in Token /\ ready \in ReadyType
           /\ ready.states[cur] \in {"Running", "Notified"}
           /\ ready.states[cur] \notin WaitReason
           /\ op[cur] \in Ops \ {"none", "done", "refused"} /\ cur \in Present(ready)
           /\ retiring = {} /\ cur \notin terminal
<1>1. pc = "task"
  BY DEF Poll, Yield, ReadEnd, ReadBlocks, ReadInterrupted, Copy, Send, Decode,
         Frame, ReadData, Polls
<1>2. cur \in Token /\ ready \in ReadyType /\ op \in [Token -> Ops]
  BY <1>1 DEF Core, TypeOK, PolledAwake
<1>3. op[cur] \in Ops \ {"none", "done", "refused"}
  BY <1>1, <1>2 DEF Core, Placed, Payloads
<1>4. retiring = {} /\ cur \notin terminal
  BY <1>1, <1>3 DEF Core, Placed, Payloads
<1> QED BY <1>1, <1>2, <1>3, <1>4 DEF Core, Placed, PolledAwake, Present

\* What a poll does to the scheduler and to the loop: it goes on without asking,
\* it wakes itself, it waits for the kernel, it completes an operation on the
\* resource its await point asks for, or it waits for that resource.
Goes(x) == /\ op[cur] \in Asks(x) /\ IsHead(RequestTurn(ready, cur, x), cur, x)
           /\ \E p \in BOOLEAN : Completes(RequestTurn(ready, cur, x), x, p)
           /\ \/ GoesOn /\ op'[cur] # "done"
              \/ Returns /\ op'[cur] = "done"
Stays(x) == /\ op[cur] \in Asks(x) /\ Waits(RequestTurn(ready, cur, x), x)
            /\ UNCHANGED <<op, len>>
Works == /\ op[cur] \in {"read", "decode", "frame"} /\ op'[cur] # "done"
         /\ GoesOn /\ UNCHANGED <<ready, bypass>>
Sleeps == /\ ready' = Park(ready, cur, "Kernel") /\ Pending /\ op[cur] = "read"
          /\ inbox[cur] = 0 /\ ~eof[cur] /\ UNCHANGED <<op, len, bypass, inbox>>
Again == /\ ready' = Enqueue(ready, cur) /\ Pending /\ UNCHANGED <<op, len, bypass>>

\* The effect of a poll on the polled task, and that it touches no other.
LEMMA PollTask ==
    ASSUME Core, Poll
    PROVE  /\ op'[cur] \in Ops \ {"none", "refused"}
           /\ \A t \in Token : t # cur => op'[t] = op[t] /\ len'[t] = len[t]
           /\ len'[cur] \in Size \cup {0}
           /\ op'[cur] \notin CopyOps \cup SendOps => len'[cur] = 0
           /\ terminal' \subseteq terminal \cup {cur}
           /\ cur \in terminal' => op'[cur] = "done"
           /\ UNCHANGED <<capacity, batch, consumer, held, pub, requested, left, eof, sent>>
           /\ Works \/ Sleeps \/ Again \/ \E x \in Resource : Goes(x) \/ Stays(x)
<1>0. /\ pc = "task" /\ cur \in Token /\ op \in [Token -> Ops] /\ len \in [Token -> Nat]
      /\ op[cur] \in Ops \ {"none", "done", "refused"} /\ cur \notin terminal
  BY PollCur DEF Core, TypeOK
<1>1. /\ len[cur] \in Size \cup {0}
      /\ op[cur] \notin CopyOps \cup SendOps => len[cur] = 0
  BY <1>0 DEF Core, Payloads
<1>2. ~(len[cur] > capacity)
  <2>1. \A n \in Size \cup {0} : n \in Nat /\ n <= capacity
    BY <1>0, TasksConstants DEF Core, Payloads, TypeOK
  <2>2. capacity \in Nat
    BY DEF Core, TypeOK
  <2> QED BY <1>1, <2>1, <2>2
<1>3. UNCHANGED <<capacity, batch, consumer, held, pub, requested, left, eof, sent>>
  BY DEF Poll, Yield, ReadEnd, ReadBlocks, ReadInterrupted, Copy, Send, Decode,
         Frame, ReadData, decodeFrame, pollFrame, app
<1>4. CASE Yield \/ ReadInterrupted
  <2>1. Again /\ UNCHANGED terminal
    BY <1>4 DEF Again, Yield, ReadInterrupted, SelfWake
  <2> QED BY <1>0, <1>1, <1>3, <2>1 DEF Again
<1>5. CASE ReadBlocks
  <2>1. Sleeps /\ UNCHANGED terminal
    BY <1>5 DEF Sleeps, ReadBlocks, Polls
  <2> QED BY <1>0, <1>1, <1>3, <2>1 DEF Sleeps
<1>6. CASE ReadEnd \/ Decode \/ Frame \/ \E n \in Size : ReadData(n)
  <2>1. op[cur] \in {"read", "decode", "frame"} /\ GoesOn /\ UNCHANGED <<ready, bypass, terminal>>
    BY <1>6 DEF ReadEnd, Decode, Frame, ReadData, Polls, decodeFrame
  <2>2. len[cur] = 0
    BY <1>1, <2>1 DEF CopyOps, SendOps
  <2>3. PICK o \in {"ended", "read", "frame", "event", "copyAudio", "copyPeer", "copyWire"} :
           op' = [op EXCEPT ![cur] = o]
    BY <1>6 DEF ReadEnd, Decode, Frame, ReadData
  <2>4. op'[cur] = o /\ \A t \in Token : t # cur => op'[t] = op[t]
    BY <1>0, <2>3
  <2>5. \/ len' = len
        \/ op'[cur] \in CopyOps /\ \E n \in Size \cup {0} : len' = [len EXCEPT ![cur] = n]
    BY <1>0, <1>6 DEF ReadEnd, Decode, Frame, ReadData, CopyOps
  <2>6. /\ len'[cur] \in Size \cup {0} /\ \A t \in Token : t # cur => len'[t] = len[t]
        /\ op'[cur] \notin CopyOps \cup SendOps => len'[cur] = 0
    BY <1>0, <2>2, <2>5
  <2>7. Works
    BY <2>1, <2>4 DEF Works
  <2> QED BY <1>0, <1>3, <2>1, <2>4, <2>6, <2>7 DEF Ops, CopyOps, SendOps
<1>7. CASE Copy
  <2> DEFINE r == RequestTurn(ready, cur, "Bytes")
  <2>1. op[cur] \in CopyOps /\ UNCHANGED terminal
    BY <1>7 DEF Copy, Polls
  <2>2. CASE /\ IsHead(r, cur, "Bytes") /\ op' = [op EXCEPT ![cur] = AfterCopy(@)]
             /\ Completes(r, "Bytes", FALSE) /\ GoesOn /\ UNCHANGED len
    <3>1. op'[cur] \in {"wire", "audio", "ended"} /\ \A t \in Token : t # cur => op'[t] = op[t]
      BY <1>0, <2>1, <2>2 DEF AfterCopy, CopyOps
    <3>2. Goes("Bytes")
      BY <2>1, <2>2, <3>1 DEF Goes, Asks
    <3> QED BY <1>0, <1>1, <1>3, <2>1, <2>2, <3>1, <3>2 DEF Ops, SendOps, Resource
  <2>3. CASE Waits(r, "Bytes") /\ UNCHANGED <<used, op, len>>
    <3>1. Stays("Bytes")
      BY <2>1, <2>3 DEF Stays, Asks
    <3> QED BY <1>0, <1>1, <1>3, <2>1, <2>3, <3>1 DEF Resource
  <2> QED BY <1>2, <1>7, <2>2, <2>3 DEF Copy
<1>8. CASE Send
  <2> DEFINE r == RequestTurn(ready, cur, "Queue")
  <2>1. op[cur] \in SendOps
    BY <1>8 DEF Send, Polls
  <2>2. CASE SendOk(r) /\ IsHead(r, cur, "Queue")
    <3>1. PICK o \in AfterSend(op[cur]) : op' = [op EXCEPT ![cur] = o]
      BY <2>2 DEF SendOk
    <3>2. o \in {"read", "decode", "done"} /\ (o = "done" <=> op[cur] = "ended")
      BY <2>1, <3>1 DEF AfterSend, SendOps
    <3>3. op'[cur] = o /\ \A t \in Token : t # cur => op'[t] = op[t]
      BY <1>0, <3>1
    <3>4. len'[cur] = 0 /\ \A t \in Token : t # cur => len'[t] = len[t]
      BY <1>0, <2>2 DEF SendOk
    <3>5. terminal' \subseteq terminal \cup {cur} /\ (cur \in terminal' => op[cur] = "ended")
      BY <1>0, <2>2 DEF SendOk
    <3>6. Goes("Queue")
      BY <2>1, <2>2, <3>2, <3>3 DEF Goes, Asks, SendOk
    <3> QED BY <1>0, <1>3, <3>2, <3>3, <3>4, <3>5, <3>6 DEF Ops, Resource
  <2>3. CASE SendDisconnected(r) /\ IsHead(r, cur, "Queue")
    <3>1. op'[cur] = "done" /\ \A t \in Token : t # cur => op'[t] = op[t]
      BY <1>0, <2>3 DEF SendDisconnected
    <3>2. len'[cur] = 0 /\ \A t \in Token : t # cur => len'[t] = len[t]
      BY <1>0, <2>3 DEF SendDisconnected
    <3>3. Goes("Queue")
      <4>1. (len[cur] > 0) \in BOOLEAN
        OBVIOUS
      <4>2. \E p \in BOOLEAN : Completes(r, "Queue", p)
        BY <2>3, <4>1 DEF SendDisconnected
      <4> QED BY <2>1, <2>3, <3>1, <4>2 DEF Goes, Asks, SendDisconnected
    <3>4. terminal' = terminal
      BY <2>3 DEF SendDisconnected
    <3> QED BY <1>0, <1>3, <3>1, <3>2, <3>3, <3>4 DEF Ops, Resource
  <2>4. CASE Waits(r, "Queue") /\ UNCHANGED <<used, chan, flags, op, len, terminal>>
    <3>1. Stays("Queue")
      BY <2>1, <2>4 DEF Stays, Asks
    <3> QED BY <1>0, <1>1, <1>3, <2>4, <3>1 DEF Resource
  <2> QED BY <1>8, <2>2, <2>3, <2>4 DEF Send
<1> QED BY <1>4, <1>5, <1>6, <1>7, <1>8 DEF Poll

\* What a completed operation does to the record: the task leaves the FIFO it
\* headed, keeps its own state, and nothing else is lost or starts to run.
LEMMA GoesReady ==
    ASSUME Core, Poll, NEW x \in Resource, Goes(x)
    PROVE  /\ Sound(ready') /\ Calm(ready, ready') /\ ready'.states[cur] = ready.states[cur]
           /\ NoNewWait(ready, ready')
           /\ ready'.requests[x] = Without(PushBack(ready.requests[x], cur), cur)
           /\ Members(ready'.requests[x]) = Members(ready.requests[x]) \ {cur}
           /\ \A y \in Resource : y # x => ready'.requests[y] = ready.requests[y]
<1> DEFINE r == RequestTurn(ready, cur, x)
<1>0. /\ cur \in Token /\ ready \in ReadyType /\ ready.states[cur] \notin WaitReason
      /\ Sound(ready)
  BY PollCur DEF Core, Coherent
<1>1. r \in ReadyType /\ Sound(r) /\ Calm(ready, r)
  BY <1>0, RegisterSound, SchedulerTypes
<1>2. /\ r.states = ready.states /\ r.requests[x] = PushBack(ready.requests[x], cur)
      /\ \A y \in Resource : y # x => r.requests[y] = ready.requests[y]
  BY <1>0 DEF RequestTurn, ReadyType
<1>3. ready' = RemoveRequest(r, cur, x)
  BY DEF Goes, Completes, FinishRequest
<1> HIDE DEF r
<1>4. r.states[cur] # x
  BY <1>0, <1>2 DEF WaitReason
<1>5. /\ Sound(ready') /\ Calm(r, ready') /\ ready'.states[cur] = r.states[cur]
      /\ NoNewWait(r, ready')
      /\ ready'.requests[x] = Without(r.requests[x], cur)
      /\ \A y \in Resource : y # x => ready'.requests[y] = r.requests[y]
  BY <1>0, <1>1, <1>3, <1>4, RemoveRequestSound, RemoveRequestFacts
<1>6. Calm(ready, ready') /\ NoNewWait(ready, ready')
  BY <1>1, <1>2, <1>5 DEF Calm, NoNewWait
<1>7. Members(ready'.requests[x]) = Members(ready.requests[x]) \ {cur}
  <2> DEFINE q == ready.requests[x]
             e == r.requests[x]
  <2>1. q \in Seq(Token) /\ e \in Seq(Token) /\ Distinct(q) /\ Distinct(e)
    BY <1>0, <1>1 DEF ReadyType, Sound
  <2>2. e = PushBack(q, cur) /\ ready'.requests[x] = Without(e, cur)
    BY <1>2, <1>5
  <2> HIDE DEF q, e
  <2>3. Members(e) = Members(q) \cup {cur} /\ Members(Without(e, cur)) = Members(e) \ {cur}
    BY <1>0, <2>1, <2>2, PushBackMembers, WithoutMembers
  <2> QED BY <2>2, <2>3 DEF q
<1> QED BY <1>2, <1>5, <1>6, <1>7

\* What a task that waits for x does to the record: it stands in the FIFO of x
\* and does not run any more.
LEMMA StaysReady ==
    ASSUME Core, Poll, NEW x \in Resource, Stays(x)
    PROVE  /\ Sound(ready') /\ Calm(ready, ready') /\ ready'.states[cur] # "Running"
           /\ ready'.states[cur] \in {"Queued", x}
           /\ \A u \in Token : u # cur => ready'.states[u] = ready.states[u]
           /\ ready'.requests[x] = PushBack(ready.requests[x], cur)
           /\ Members(ready'.requests[x]) = Members(ready.requests[x]) \cup {cur}
           /\ \A y \in Resource : y # x => ready'.requests[y] = ready.requests[y]
<1> DEFINE r == RequestTurn(ready, cur, x)
<1>0. /\ cur \in Token /\ ready \in ReadyType /\ cur \in Present(ready) /\ Sound(ready)
      /\ x \in WaitReason
  BY PollCur DEF Core, Coherent, WaitReason
<1>1. r \in ReadyType /\ Sound(r) /\ Calm(ready, r)
  BY <1>0, RegisterSound, SchedulerTypes
<1>2. /\ r.states = ready.states /\ r.requests[x] = PushBack(ready.requests[x], cur)
      /\ \A y \in Resource : y # x => r.requests[y] = ready.requests[y]
  BY <1>0 DEF RequestTurn, ReadyType
<1>3. ready' = Park(r, cur, x)
  BY DEF Stays, Waits
<1> HIDE DEF r
<1>4. cur \in Present(r)
  BY <1>0, <1>1 DEF Calm
<1>5. Sound(ready') /\ Calm(r, ready') /\ ready'.states[cur] # "Running"
  BY <1>0, <1>1, <1>3, <1>4, RegisterSound
<1>6. /\ ready'.requests[x] = PushBack(r.requests[x], cur)
      /\ \A y \in Resource : y # x => ready'.requests[y] = r.requests[y]
  BY <1>1, <1>3 DEF Park, ReadyType
<1>7. /\ ready'.states[cur] = IF r.states[cur] = "Notified" THEN "Queued" ELSE x
      /\ \A u \in Token : u # cur => ready'.states[u] = r.states[u]
  BY <1>0, <1>1, <1>3 DEF Park, ReadyType
<1>8. ready'.states[cur] \in {"Queued", x}
  BY <1>7
<1>9. Calm(ready, ready')
  BY <1>1, <1>5 DEF Calm
<1>10. /\ ready'.requests[x] = PushBack(ready.requests[x], cur)
      /\ Members(ready'.requests[x]) = Members(ready.requests[x]) \cup {cur}
  <2> DEFINE q == ready.requests[x]
             e == r.requests[x]
  <2>1. q \in Seq(Token) /\ Distinct(q)
    BY <1>0 DEF ReadyType, Sound
  <2>2. e = PushBack(q, cur) /\ ready'.requests[x] = PushBack(e, cur)
    BY <1>2, <1>6
  <2> HIDE DEF q, e
  <2>3. Members(e) = Members(q) \cup {cur}
    BY <1>0, <2>1, <2>2, PushBackMembers
  <2>4. PushBack(e, cur) = e
    BY <2>3 DEF PushBack
  <2> QED BY <2>2, <2>3, <2>4 DEF q
<1> QED BY <1>2, <1>5, <1>6, <1>9, <1>10, <1>7, <1>8

\* The scheduler's record after any poll.
LEMMA PollReady ==
    ASSUME Core, Poll
    PROVE  /\ Sound(ready') /\ Calm(ready, ready')
           /\ pc' = "task" => ready'.states[cur] = ready.states[cur]
           /\ pc' = "run" => ready'.states[cur] # "Running"
<1> DEFINE Goal == /\ Sound(ready') /\ Calm(ready, ready')
                   /\ pc' = "task" => ready'.states[cur] = ready.states[cur]
                   /\ pc' = "run" => ready'.states[cur] # "Running"
<1>0. /\ pc = "task" /\ cur \in Token /\ ready \in ReadyType /\ cur \in Present(ready)
      /\ Sound(ready)
  BY PollCur DEF Core, Coherent
<1>1. CASE Works
  BY <1>0, <1>1 DEF Works, GoesOn, Calm
<1>2. CASE Sleeps
  <2>1. ready' = Park(ready, cur, "Kernel") /\ pc' = "run" /\ "Kernel" \in WaitReason
    BY <1>2 DEF Sleeps, Pending, Leaves, WaitReason
  <2> QED BY <1>0, <2>1, RegisterSound
<1>3. CASE Again
  BY <1>0, <1>3, EnqueueSound DEF Again, Pending, Leaves
<1>4. ASSUME NEW x \in Resource, Goes(x) PROVE Goal
  <2>1. pc' \in {"task", "ended"}
    BY <1>0, <1>4 DEF Goes, GoesOn, Returns, Leaves
  <2> QED BY <1>4, <2>1, GoesReady
<1>5. ASSUME NEW x \in Resource, Stays(x) PROVE Goal
  <2>1. pc' = "run"
    BY <1>5 DEF Stays, Waits, Pending, Leaves
  <2> QED BY <1>5, <2>1, StaysReady
<1> QED BY <1>1, <1>2, <1>3, <1>4, <1>5, PollTask

\* How a poll ends: it goes on, is pending, or returns and is to be retired.
LEMMA PollLoop ==
    ASSUME Core, Poll
    PROVE  \/ pc' = "task" /\ cur' = cur /\ retiring' = {} /\ op'[cur] # "done"
           \/ pc' = "run" /\ retiring' = {} /\ op'[cur] # "done"
           \/ pc' = "ended" /\ retiring' = {cur} /\ op'[cur] = "done"
  BY PollCur, PollTask, Zenon
  DEF Works, Sleeps, Again, Goes, Stays, Waits, GoesOn, Pending, Returns, Leaves

\* Every poll keeps the worker's books.
LEMMA PollCore == Core /\ TypeOK' /\ PolledAwake' /\ Poll => Core'
<1> SUFFICES ASSUME Core, TypeOK', PolledAwake', Poll PROVE Core'
  OBVIOUS
<1>0. /\ pc = "task" /\ cur \in Token /\ ready \in ReadyType
      /\ ready.states[cur] \in {"Running", "Notified"}
      /\ op[cur] \in Ops \ {"none", "done", "refused"}
      /\ retiring = {} /\ cur \notin terminal
  BY PollCur
<1>1. /\ op'[cur] \in Ops \ {"none", "refused"}
      /\ \A t \in Token : t # cur => op'[t] = op[t] /\ len'[t] = len[t]
      /\ len'[cur] \in Size \cup {0}
      /\ op'[cur] \notin CopyOps \cup SendOps => len'[cur] = 0
      /\ terminal' \subseteq terminal \cup {cur}
      /\ cur \in terminal' => op'[cur] = "done"
      /\ capacity' = capacity
  BY PollTask
<1>2. /\ Sound(ready') /\ Calm(ready, ready')
      /\ pc' = "task" => ready'.states[cur] = ready.states[cur]
      /\ pc' = "run" => ready'.states[cur] # "Running"
  BY PollReady
<1>3. \/ pc' = "task" /\ cur' = cur /\ retiring' = {} /\ op'[cur] # "done"
      \/ pc' = "run" /\ retiring' = {} /\ op'[cur] # "done"
      \/ pc' = "ended" /\ retiring' = {cur} /\ op'[cur] = "done"
  BY PollLoop
<1>4. Live' = Live /\ cur \in Live
  BY <1>0, <1>1 DEF Live
<1>5. Coherent'
  BY <1>2, <1>4 DEF Core, Coherent, Calm
<1>6. Registered'
  <2> SUFFICES ASSUME NEW y \in Resource, NEW t \in Members(ready'.requests[y])
               PROVE  op'[t] \in Asks(y)
    BY DEF Registered, Asks
  <2>0. t \in Token
    <3>1. ready'.requests[y] \in Seq(Token)
      BY DEF TypeOK, ReadyType
    <3> QED BY <3>1 DEF Members
  <2>1. \A z \in Resource : op[cur] \in Asks(z) => z = y \/ op[cur] \notin Asks(y)
    BY DEF Asks, Resource, SendOps, CopyOps
  <2>2. CASE Works
    <3>1. op[cur] \notin Asks(y)
      BY <2>2 DEF Works, Asks, SendOps, CopyOps
    <3> QED BY <1>1, <2>0, <2>2, <3>1 DEF Works, Core, Registered
  <2>3. CASE Sleeps \/ Again
    <3>1. ready'.requests[y] = ready.requests[y] /\ op' = op
      <4>1. CASE Sleeps
        BY <1>0, <4>1 DEF Sleeps, Park, ReadyType, Resource
      <4>2. CASE Again
        BY <1>0, <4>2, EnqueueFacts DEF Again
      <4> QED BY <2>3, <4>1, <4>2
    <3> QED BY <3>1 DEF Core, Registered
  <2>4. ASSUME NEW x \in Resource, Goes(x) PROVE op'[t] \in Asks(y)
    <3>1. t # cur /\ t \in Members(ready.requests[y])
      <4>1. CASE y = x
        BY <2>4, <4>1, GoesReady
      <4>2. CASE y # x
        <5>1. t \in Members(ready.requests[y])
          BY <2>4, <4>2, GoesReady
        <5>2. op[cur] \notin Asks(y)
          BY <2>1, <2>4, <4>2 DEF Goes
        <5> QED BY <5>1, <5>2 DEF Core, Registered
      <4> QED BY <4>1, <4>2
    <3> QED BY <1>1, <2>0, <3>1 DEF Core, Registered
  <2>5. ASSUME NEW x \in Resource, Stays(x) PROVE op'[t] \in Asks(y)
    <3>1. op' = op /\ op[cur] \in Asks(x)
      BY <2>5 DEF Stays
    <3>2. t \in Members(ready.requests[y]) \/ (y = x /\ t = cur)
      BY <2>5, StaysReady
    <3> QED BY <3>1, <3>2 DEF Core, Registered
  <2> QED BY <2>2, <2>3, <2>4, <2>5, PollTask
<1>7. Placed'
  <2>1. pc' = "task" => /\ ready'.states[cur'] \in {"Running", "Notified"}
                        /\ op'[cur'] \notin {"none", "done"}
    BY <1>0, <1>1, <1>2, <1>3
  <2>2. retiring' \subseteq Live' /\ (retiring' # {} => pc' = "ended")
    BY <1>3, <1>4
  <2>3. ASSUME NEW t \in Token, ready'.states[t] = "Running"
        PROVE  (pc' = "task" /\ cur' = t) \/ t \in retiring'
    <3>1. ready.states[t] = "Running"
      BY <1>2, <2>3 DEF Calm
    <3>2. t = cur
      BY <1>0, <3>1 DEF Core, Placed
    <3> QED BY <1>2, <1>3, <2>3, <3>2
  <2>4. ASSUME NEW t \in Token, op'[t] = "done" PROVE t \in retiring'
    <3>1. t = cur
      BY <1>0, <1>1, <2>4 DEF Core, Placed
    <3> QED BY <1>3, <2>4, <3>1
  <2> QED BY <2>1, <2>2, <2>3, <2>4 DEF Placed
<1>8. Payloads'
  <2>1. \A n \in Size : n <= capacity'
    BY <1>0, <1>1 DEF Core, Payloads
  <2>2. ASSUME NEW t \in Token
        PROVE  /\ len'[t] \in Size \cup {0}
               /\ op'[t] \notin CopyOps \cup SendOps => len'[t] = 0
               /\ op'[t] # "refused"
    BY <1>1 DEF Core, Payloads
  <2>3. ASSUME NEW t \in terminal' PROVE op'[t] = "done"
    <3>1. t \in Token
      BY DEF TypeOK
    <3> QED BY <1>1, <2>3, <3>1 DEF Core, Payloads
  <2> QED BY <2>1, <2>2, <2>3 DEF Payloads
<1> QED BY <1>5, <1>6, <1>7, <1>8 DEF Core

\* A step that leaves the tasks, the worker's place and the record alone keeps
\* the books.
LEMMA IdleCore ==
    ASSUME Core, TypeOK', PolledAwake',
           UNCHANGED <<ready, op, len, terminal, pc, cur, retiring, capacity>>
    PROVE  Core'
<1>1. Live' = Live
  BY DEF Live
<1>2. Coherent' /\ Registered' /\ Placed' /\ Payloads'
  BY <1>1 DEF Core, Coherent, Registered, Placed, Payloads
<1> QED BY <1>2 DEF Core

\* The steps of drive outside a poll keep the worker's books.
LEMMA DriveCore == Core /\ TypeOK' /\ PolledAwake' /\ Drive => Core'
<1> SUFFICES ASSUME Core, TypeOK', PolledAwake', Drive PROVE Core'
  OBVIOUS
<1>0. /\ ready \in ReadyType /\ ready' \in ReadyType /\ Sound(ready)
      /\ Present(ready) = Live /\ op \in [Token -> Ops] /\ len \in [Token -> Nat]
  BY DEF Core, TypeOK, Coherent
<1>1. ASSUME UNCHANGED <<ready, op, len, terminal, capacity>>,
             pc # "task", pc' # "task", pc' \notin {"bind", "unbound"} => \A n \in Size : n <= capacity,
             retiring' \subseteq Live, retiring \subseteq retiring',
             retiring' # {} => pc' \in {"retire", "closing", "ended", "shutdown"}
      PROVE  Core'
  <2>1. Live' = Live
    BY <1>1 DEF Live
  <2>2. Coherent' /\ Registered'
    BY <1>1, <2>1 DEF Core, Coherent, Registered
  <2>3. Placed'
    BY <1>1, <2>1 DEF Core, Placed
  <2>4. Payloads'
    BY <1>1 DEF Core, Payloads
  <2> QED BY <2>2, <2>3, <2>4 DEF Core
<1>2. ASSUME UNCHANGED <<op, len, terminal, capacity, retiring>>,
             pc # "task", pc' # "task", pc \notin {"bind", "unbound"},
             retiring # {} => pc' = pc,
             Sound(ready'), Calm(ready, ready'), ready'.requests = ready.requests
      PROVE  Core'
  <2>1. Live' = Live
    BY <1>2 DEF Live
  <2>2. Coherent' /\ Registered'
    BY <1>2, <2>1 DEF Core, Coherent, Registered, Calm
  <2>3. Placed'
    <3>1. ASSUME NEW t \in Token, ready'.states[t] = "Running" PROVE t \in retiring'
      <4>1. ready.states[t] = "Running"
        BY <1>2, <3>1 DEF Calm
      <4> QED BY <1>2, <4>1 DEF Core, Placed
    <3> QED BY <1>2, <2>1, <3>1 DEF Core, Placed
  <2>4. Payloads'
    BY <1>2 DEF Core, Payloads
  <2> QED BY <2>2, <2>3, <2>4 DEF Core
<1>3. CASE Bind
  <2>1. UNCHANGED <<ready, op, len, terminal, capacity, retiring>> /\ pc = "bind"
    BY <1>3 DEF Bind, driveFrame
  <2>2. pc' \in {"admit", "unbound"} /\ (pc' = "admit" => capacity >= MaxLen)
    BY <1>3 DEF Bind
  <2>3. retiring = {}
    BY <2>1 DEF Core, Placed
  <2>4. pc' = "admit" => \A n \in Size : n <= capacity
    <3>1. MaxLen \in Size /\ \A n \in Size : n <= MaxLen
      BY TasksConstants, MaxBounds DEF MaxLen
    <3>2. capacity \in Nat /\ \A n \in Size : n \in Nat
      BY TasksConstants DEF Core, TypeOK
    <3> QED BY <2>2, <3>1, <3>2
  <2> QED BY <1>1, <2>1, <2>2, <2>3, <2>4
<1>4. CASE Admit
  <2>1. /\ pc = "admit" /\ pc' \in {"admit", "top"}
        /\ UNCHANGED <<len, terminal, capacity, retiring>>
    BY <1>4 DEF Admit, driveFrame
  <2>2. retiring = {}
    BY <2>1 DEF Core, Placed
  <2>3. CASE UNCHANGED <<ready, op>>
    BY <1>1, <2>1, <2>2, <2>3 DEF Core, Payloads
  <2>4. ASSUME NEW t \in Token \ Live, ready' = Insert(ready, t),
               op' = [op EXCEPT ![t] = "connected"]
        PROVE  Core'
    <3>1. op'[t] = "connected" /\ \A u \in Token : u # t => op'[u] = op[u]
      BY <1>0, <2>4
    <3>2. Live' = Live \cup {t}
      BY <3>1 DEF Live
    <3>3. Coherent'
      BY <1>0, <2>4, <3>2, RegisterSound DEF Coherent
    <3>4. /\ ready'.requests = ready.requests /\ ready'.states[t] = "Queued"
          /\ \A u \in Token : u # t => ready'.states[u] = ready.states[u]
      BY <1>0, <2>4 DEF Insert, ReadyType
    <3>5. op[t] = "none"
      BY <2>4 DEF Live
    <3>6. Registered'
      <4> SUFFICES ASSUME NEW x \in Resource, NEW u \in Members(ready.requests[x])
                   PROVE  op'[u] \in Asks(x)
        BY <3>4 DEF Registered, Asks
      <4>1. op[u] \in Asks(x)
        BY DEF Core, Registered
      <4>2. u \in Token /\ u # t
        <5>1. ready.requests[x] \in Seq(Token)
          BY <1>0 DEF ReadyType
        <5> QED BY <3>5, <4>1, <5>1 DEF Members, Asks, SendOps, CopyOps
      <4> QED BY <3>1, <4>1, <4>2
    <3>7. Placed'
      <4>1. \A u \in Token : ready'.states[u] # "Running" /\ op'[u] # "done"
        BY <2>1, <2>2, <3>1, <3>4 DEF Core, Placed
      <4> QED BY <2>1, <2>2, <4>1 DEF Placed
    <3>8. Payloads'
      <4>1. len[t] = 0
        BY <3>5 DEF Core, Payloads, CopyOps, SendOps
      <4>2. terminal = {}
        <5> SUFFICES ASSUME NEW u \in terminal PROVE FALSE
          OBVIOUS
        <5>1. u \in Token /\ op[u] = "done"
          BY DEF Core, Payloads, TypeOK
        <5> QED BY <2>2, <5>1 DEF Core, Placed
      <4> QED BY <2>1, <3>1, <4>1, <4>2 DEF Core, Payloads
    <3> QED BY <3>3, <3>6, <3>7, <3>8 DEF Core
  <2> QED BY <1>4, <2>3, <2>4 DEF Admit
<1>5. CASE CheckStop \/ Collect
  <2>1. pc \in {"top", "closed", "collect", "after"}
    BY <1>5 DEF CheckStop, Collect
  <2>2. retiring = {}
    BY <2>1 DEF Core, Placed
  <2>3. /\ UNCHANGED <<ready, op, len, terminal, capacity>> /\ retiring' \subseteq Live
        /\ \/ pc' \in {"shutdown", "retire", "closing"}
           \/ pc' \in {"collect", "poll"} /\ retiring' = {}
    BY <1>5, <2>2 DEF CheckStop, Collect, driveFrame
  <2> QED BY <1>1, <2>1, <2>2, <2>3 DEF Core, Payloads
<1>6. CASE RetireTask
  <2>0. PICK t \in retiring : RetireTask!2!(t)
    BY <1>6 DEF RetireTask
  <2>1. /\ pc \in {"retire", "closing", "ended", "shutdown"} /\ pc' = pc
        /\ capacity' = capacity /\ retiring' = retiring \ {t} /\ terminal' = terminal \ {t}
        /\ ready' = Retire(ready, t) /\ t \in Token /\ t \in Live
    BY <1>6, <2>0 DEF RetireTask, Core, Placed, TypeOK
  <2>2. /\ op'[t] = "none" /\ len'[t] = 0
        /\ \A u \in Token : u # t => op'[u] = op[u] /\ len'[u] = len[u]
    BY <1>0, <2>0, <2>1
  <2>3. /\ Sound(ready') /\ Present(ready') = Present(ready) \ {t}
        /\ \A u \in Token : ready'.states[u] = "Running" => ready.states[u] = "Running"
        /\ ready'.states[t] = "absent"
        /\ \A x \in Resource : ready'.requests[x] = Without(ready.requests[x], t)
    BY <1>0, <2>1, RetireSound
  <2>4. Live' = Live \ {t}
    BY <2>2 DEF Live
  <2>5. Coherent'
    BY <1>0, <2>3, <2>4 DEF Coherent
  <2>6. Registered'
    <3> SUFFICES ASSUME NEW x \in Resource, NEW u \in Members(ready'.requests[x])
                 PROVE  op'[u] \in Asks(x)
      BY DEF Registered, Asks
    <3> DEFINE q == ready.requests[x]
    <3>1. q \in Seq(Token) /\ Distinct(q) /\ ready'.requests[x] = Without(q, t)
      BY <1>0, <2>3 DEF ReadyType, Sound
    <3> HIDE DEF q
    <3>2. u \in Members(q) \ {t}
      BY <2>1, <3>1, WithoutMembers
    <3>3. u \in Token
      BY <3>1, <3>2 DEF Members
    <3> QED BY <2>2, <3>2, <3>3 DEF Core, Registered, q
  <2>7. Placed'
    <3>1. retiring' \subseteq Live'
      BY <2>1, <2>4 DEF Core, Placed
    <3>2. ASSUME NEW u \in Token, ready'.states[u] = "Running" PROVE u \in retiring'
      <4>1. u # t /\ ready.states[u] = "Running"
        BY <2>3, <3>2
      <4> QED BY <2>1, <4>1 DEF Core, Placed
    <3>3. ASSUME NEW u \in Token, op'[u] = "done" PROVE u \in retiring'
      BY <2>1, <2>2, <3>3 DEF Core, Placed
    <3> QED BY <2>1, <3>1, <3>2, <3>3 DEF Placed
  <2>8. Payloads'
    <3>1. ASSUME NEW u \in terminal' PROVE op'[u] = "done"
      <4>1. u \in terminal /\ u # t /\ u \in Token
        BY <2>1 DEF Core, TypeOK
      <4> QED BY <2>2, <4>1 DEF Core, Payloads
    <3> QED BY <2>1, <2>2, <3>1 DEF Core, Payloads
  <2> QED BY <2>5, <2>6, <2>7, <2>8 DEF Core
<1>7. CASE Retired
  <2>1. /\ pc \in {"retire", "closing", "ended", "shutdown"} /\ retiring = {}
        /\ pc' \in {"queue", "closed", "run", "done"}
        /\ UNCHANGED <<ready, op, len, terminal, capacity, retiring>>
    BY <1>7 DEF Retired, driveFrame
  <2> QED BY <1>1, <2>1 DEF Core, Payloads
<1>8. ASSUME NEW x \in Resource, NEW where \in {"queue", "bytes"},
             NEW then \in {"bytes", "run"}, NEW polls, TakeCredit(x, where, then, polls)
      PROVE  Core'
  <2>1. /\ pc = where /\ pc' = then /\ UNCHANGED <<op, len, terminal, capacity, retiring>>
        /\ ready' = ready \/ ready' = ResumeHead(ready, x)
    BY <1>8 DEF TakeCredit, driveFrame, ResumeCredit
  <2>2. Sound(ready') /\ Calm(ready, ready') /\ ready'.requests = ready.requests
    BY <1>0, <2>1, ResumeHeadSound, ResumeHeadFacts DEF Calm
  <2>3. retiring = {}
    BY <2>1 DEF Core, Placed
  <2> QED BY <1>2, <2>1, <2>2, <2>3
<1>9. CASE TakeQueueCredit \/ TakeByteCredit
  BY <1>8, <1>9 DEF TakeQueueCredit, TakeByteCredit, Resource
<1>10. CASE RunReady
  <2>1. /\ pc = "run" /\ UNCHANGED <<op, len, terminal, capacity, retiring>>
        /\ \/ pc' = "after" /\ ready' = ready
           \/ /\ pc' = "task" /\ ready.queue # <<>> /\ ready' = Take(ready)
              /\ cur' = ready.queue[1]
    BY <1>10 DEF RunReady, driveFrame, HasReady
  <2>2. retiring = {}
    BY <2>1 DEF Core, Placed
  <2>3. CASE pc' = "after" /\ ready' = ready
    BY <1>1, <2>1, <2>2, <2>3 DEF Core, Payloads
  <2>4. CASE pc' = "task" /\ ready.queue # <<>> /\ ready' = Take(ready) /\ cur' = ready.queue[1]
    <3>1. /\ cur' \in Token /\ ready'.states[cur'] = "Running"
          /\ ready'.requests = ready.requests
      BY <1>0, <2>4, TakeFacts
    <3>2. /\ Sound(ready') /\ Present(ready') = Present(ready) /\ cur' \in Present(ready)
          /\ \A u \in Token : ready'.states[u] = "Running" => u = cur' \/ ready.states[u] = "Running"
      BY <1>0, <2>4, TakeSound
    <3>3. Live' = Live
      BY <2>1 DEF Live
    <3>4. op[cur'] \notin {"none", "done"}
      BY <1>0, <2>2, <3>1, <3>2 DEF Live, Core, Placed
    <3>5. Placed'
      <4>1. \A u \in Token : ready.states[u] # "Running" /\ op[u] # "done"
        BY <2>1, <2>2 DEF Core, Placed
      <4> QED BY <2>1, <2>2, <2>4, <3>1, <3>2, <3>4, <4>1 DEF Placed
    <3>6. Coherent' /\ Registered'
      BY <1>0, <2>1, <3>1, <3>2, <3>3 DEF Core, Coherent, Registered
    <3>7. Payloads'
      BY <2>1, <2>4 DEF Core, Payloads
    <3> QED BY <3>5, <3>6, <3>7 DEF Core
  <2> QED BY <2>1, <2>3, <2>4
<1>11. CASE Poll
  BY <1>11, PollCore
<1>12. CASE PollReturns
  <2>1. /\ pc = "poll" /\ pc' = "events"
        /\ UNCHANGED <<ready, op, len, terminal, capacity, retiring>>
    BY <1>12 DEF PollReturns, driveFrame
  <2>2. retiring = {}
    BY <2>1 DEF Core, Placed
  <2> QED BY <1>1, <2>1, <2>2 DEF Core, Payloads
<1>13. CASE HandleEvents
  <2>1. /\ pc = "events" /\ pc' \in {"events", "top"}
        /\ UNCHANGED <<op, len, terminal, capacity, retiring>>
        /\ ready' = ready \/ \E t \in Token : ready' = Enqueue(ready, t)
    BY <1>13 DEF HandleEvents, driveFrame, IoReady
  <2>2. Sound(ready') /\ Calm(ready, ready') /\ ready'.requests = ready.requests
    BY <1>0, <2>1, EnqueueSound, EnqueueFacts DEF Calm
  <2>3. retiring = {}
    BY <2>1 DEF Core, Placed
  <2> QED BY <1>2, <2>1, <2>2, <2>3
<1> QED
  BY <1>3, <1>4, <1>5, <1>6, <1>7, <1>9, <1>10, <1>11, <1>12, <1>13 DEF Drive

\* The initial state satisfies the worker's books.
LEMMA InitCore == Init => Core
<1> SUFFICES ASSUME Init PROVE Core
  OBVIOUS
<1>1. TypeOK /\ PolledAwake
  BY InitType DEF Init, PolledAwake
<1>2. /\ ready = EmptyReady /\ retiring = {} /\ terminal = {} /\ pc = "bind"
      /\ \A t \in Token : op[t] = "none" /\ len[t] = 0 /\ ready.states[t] = "absent"
      /\ ready.queue = <<>> /\ \A x \in Resource : ready.requests[x] = <<>>
  BY DEF Init, EmptyReady
<1>3. Members(<<>>) = {} /\ Distinct(<<>>)
  BY DEF Members, Distinct
<1>4. Coherent
  BY <1>2, <1>3 DEF Coherent, Sound, Runnable, Present, Live, Resource
<1>5. Registered /\ Placed /\ Payloads
  BY <1>2, <1>3 DEF Registered, Placed, Payloads
<1> QED BY <1>1, <1>4, <1>5 DEF Core

\* Every step keeps the worker's books.
LEMMA CoreStep == Core /\ [Next]_vars => Core'
<1> SUFFICES ASSUME Core, [Next]_vars PROVE Core'
  OBVIOUS
<1>1. TypeOK' /\ PolledAwake'
  BY TypeStep DEF Core
<1>2. CASE Drive
  BY <1>1, <1>2, DriveCore
<1>3. CASE Consume \/ Outside
  <2>1. UNCHANGED <<ready, op, len, terminal, pc, cur, retiring, capacity>>
    BY <1>3
    DEF Consume, Outside, Raise, Wake, Recv, Drain, Disconnect, DropPayload,
        DropRecords, Close, PeerSend, PeerClose, consumerFrame, netFrame, loop, tasks
  <2> QED BY <1>1, <2>1, IdleCore
<1>4. CASE Terminated \/ UNCHANGED vars
  <2>1. UNCHANGED <<ready, op, len, terminal, pc, cur, retiring, capacity>>
    BY <1>4 DEF Terminated, vars, loop, tasks
  <2> QED BY <1>1, <2>1, IdleCore
<1> QED BY <1>2, <1>3, <1>4 DEF Next

\* The length of a FIFO without repetitions is the number of its members.
LEMMA DistinctLength ==
    ASSUME NEW s \in Seq(Token), Distinct(s)
    PROVE  IsFiniteSet(Members(s)) /\ Cardinality(Members(s)) = Len(s)
<1> DEFINE n == Len(s)
           f == [i \in 1..n |-> s[i]]
<1>1. n \in Nat
  OBVIOUS
<1>2. f \in Bijection(1..n, Members(s))
  <2>1. f \in [1..n -> Members(s)]
    BY DEF Members
  <2>2. \A i, j \in 1..n : f[i] = f[j] => i = j
    BY DEF Distinct
  <2>3. \A m \in Members(s) : \E i \in 1..n : f[i] = m
    BY DEF Members
  <2> HIDE DEF f, n
  <2> QED BY <2>1, <2>2, <2>3, Fun_IsBij
<1>3. ExistsBijection(1..n, Members(s))
  BY <1>2 DEF ExistsBijection
<1> QED BY <1>1, <1>3, FS_CountingElements, FS_NatBijection

\* The scheduler's record never contradicts itself or the live tasks: the
\* runnable FIFO has each runnable task once, and a waiter is where its credit
\* will look for it (SchedulerConsistent).
THEOREM SchedulerStaysConsistent == Spec => []SchedulerConsistent
<1>1. Core => SchedulerConsistent
  <2> SUFFICES ASSUME Core PROVE SchedulerConsistent
    OBVIOUS
  <2>1. /\ ready \in ReadyType /\ Sound(ready) /\ Present(ready) = Live
        /\ ready.queue \in Seq(Token) /\ \A x \in Resource : ready.requests[x] \in Seq(Token)
    BY DEF Core, TypeOK, Coherent, ReadyType
  <2>2. Len(ready.queue) = Cardinality(Runnable(ready))
    BY <2>1, DistinctLength DEF Sound
  <2>3. \A x \in Resource :
           Len(ready.requests[x]) = Cardinality(Members(ready.requests[x]))
    BY <2>1, DistinctLength DEF Sound
  <2>4. ASSUME NEW x \in Resource PROVE Members(ready.requests[x]) \subseteq Live
    <3> SUFFICES ASSUME NEW t \in Members(ready.requests[x]) PROVE t \in Live
      OBVIOUS
    <3>1. t \in Token
      BY <2>1 DEF Members
    <3>2. op[t] \in Asks(x)
      BY DEF Core, Registered
    <3> QED BY <3>1, <3>2 DEF Live, Asks, SendOps, CopyOps
  <2> QED BY <2>1, <2>2, <2>3, <2>4 DEF SchedulerConsistent, Sound
<1> QED BY <1>1, InitCore, CoreStep, PTL DEF Spec

\* The assertions and `expect`s of the scheduler and of run_ready never fail:
\* there is room in the runnable FIFO whenever a task is enqueued, a runnable
\* token has a live task, and no task is left Running behind the worker's back
\* (AssertionsHold).
THEOREM NoAssertionFails == Spec => []AssertionsHold
<1>1. Core => AssertionsHold
  <2> SUFFICES ASSUME Core PROVE AssertionsHold
    OBVIOUS
  <2>1. /\ ready \in ReadyType /\ Sound(ready) /\ Present(ready) = Live
        /\ ready.queue \in Seq(Token)
    BY DEF Core, TypeOK, Coherent, ReadyType
  <2>2. ASSUME NEW t \in Token, Enqueues(ready, t) PROVE Len(ready.queue) < MaxConnections
    <3>1. t \notin Runnable(ready) /\ Runnable(ready) \subseteq Token
      BY <2>2 DEF Runnable, Enqueues, WaitReason, Resource
    <3>2. Len(ready.queue) = Cardinality(Runnable(ready))
      BY <2>1, DistinctLength DEF Sound
    <3>3. IsFiniteSet(Token) /\ Cardinality(Token) <= MaxConnections
      BY TasksConstants
    <3>4. Cardinality(Runnable(ready)) < Cardinality(Token)
      <4> HIDE DEF Runnable
      <4>1. Runnable(ready) # Token
        BY <3>1
      <4>2. /\ Cardinality(Runnable(ready)) <= Cardinality(Token)
            /\ Cardinality(Token) # Cardinality(Runnable(ready))
            /\ IsFiniteSet(Runnable(ready))
        BY <3>1, <3>3, <4>1, FS_Subset
      <4>3. Cardinality(Token) \in Nat /\ Cardinality(Runnable(ready)) \in Nat
        BY <3>3, <4>2, FS_CardinalityType
      <4> QED BY <4>2, <4>3
    <3>5. /\ Cardinality(Token) \in Nat /\ Cardinality(Runnable(ready)) \in Nat
          /\ MaxConnections \in Nat
      BY <3>1, <3>3, FS_CardinalityType, FS_Subset, MaxConnectionsAssumption
    <3> QED BY <3>2, <3>3, <3>4, <3>5
  <2>3. Members(ready.queue) \subseteq Live
    BY <2>1 DEF Sound, Runnable, Present
  <2>4. pc = "task" => cur \in Live
    BY DEF Core, PolledAwake, Placed, Live
  <2> QED BY <2>2, <2>3, <2>4 DEF AssertionsHold, Core, Placed
<1> QED BY <1>1, InitCore, CoreStep, PTL DEF Spec

\* A connection's Ended record is its last (EndedIsLast): the copy that would
\* let a task go on after one is ruled out by the check of bind_with_profile.
THEOREM EndedStaysLast == Spec => []EndedIsLast
<1>1. Core => EndedIsLast
  BY DEF Core, Payloads, EndedIsLast
<1> QED BY <1>1, InitCore, CoreStep, PTL DEF Spec

-----------------------------------------------------------------------------
(* No lost readiness.                                                      *)

\* Events are handled before the worker goes on, so a poll forgets none.
Handled == pc # "events" => batch = {}

\* NoLostReadiness for one task.
Told(t) == (ready.states[t] = "Kernel" /\ (inbox[t] > 0 \/ eof[t])) => t \in events \cup batch

\* A poll puts only its own task to sleep for the kernel, and only when the
\* socket had nothing.
LEMMA PollWaits ==
    ASSUME Core, Poll, NEW t \in Token, ready'.states[t] = "Kernel"
    PROVE  (t # cur /\ ready.states[t] = "Kernel") \/ (t = cur /\ Sleeps)
<1>0. /\ cur \in Token /\ ready \in ReadyType
      /\ ready.states[cur] \notin WaitReason /\ "Kernel" \in WaitReason
  BY PollCur DEF WaitReason
<1>1. CASE Works
  BY <1>0, <1>1 DEF Works
<1>2. CASE Sleeps
  <2>1. \A u \in Token : u # cur => ready'.states[u] = ready.states[u]
    BY <1>0, <1>2 DEF Sleeps, Park, ReadyType
  <2> QED BY <1>2, <2>1
<1>3. CASE Again
  BY <1>0, <1>3, EnqueueFacts DEF Again, NoNewWait
<1>4. ASSUME NEW x \in Resource, Goes(x)
      PROVE  t # cur /\ ready.states[t] = "Kernel"
  BY <1>0, <1>4, GoesReady DEF NoNewWait
<1>5. ASSUME NEW x \in Resource, Stays(x)
      PROVE  t # cur /\ ready.states[t] = "Kernel"
  BY <1>0, <1>5, StaysReady DEF Resource
<1> QED BY <1>1, <1>2, <1>3, <1>4, <1>5, PollTask

\* A poll reads from its own socket and takes no event back.
LEMMA PollEvents ==
    ASSUME Core, Poll
    PROVE  /\ events \subseteq events'
           /\ \A t \in Token : t # cur => inbox'[t] = inbox[t]
<1>1. events \subseteq events'
  BY DEF Poll, Yield, ReadEnd, ReadBlocks, ReadInterrupted, Copy, Send, Decode, Frame,
         ReadData, SelfWake, Completes, Waits, SendOk, SendDisconnected, decodeFrame
<1>2. inbox' = inbox \/ inbox' = [inbox EXCEPT ![cur] = inbox[cur] - 1]
  BY DEF Poll, Yield, ReadEnd, ReadBlocks, ReadInterrupted, Copy, Send, Decode, Frame,
         ReadData, decodeFrame
<1>3. inbox \in [Token -> Nat]
  BY DEF Core, TypeOK
<1> QED BY <1>1, <1>2, <1>3

\* A step that adds no wait for the kernel, fills no socket and loses no event
\* keeps every task told.
LEMMA StaysTold ==
    ASSUME Handled, NEW t \in Token, Told(t),
           ready'.states[t] = "Kernel" => ready.states[t] = "Kernel",
           UNCHANGED <<inbox, eof, batch>>, events \subseteq events'
    PROVE  Told(t)'
  BY DEF Told

\* Every step keeps readiness: an event is removed only together with the wait
\* it ends.
LEMMA ReadinessStep ==
    ASSUME Core, Core', Handled, NoLostReadiness, [Next]_vars
    PROVE  Handled' /\ NoLostReadiness'
<1>0. /\ ready \in ReadyType /\ inbox \in [Token -> Nat] /\ eof \in [Token -> BOOLEAN]
      /\ \A t \in Token : Told(t)
  BY DEF Core, TypeOK, NoLostReadiness, Told
<1> SUFFICES Handled' /\ \A t \in Token : Told(t)'
  BY DEF NoLostReadiness, Told
<1>1. CASE Terminated \/ UNCHANGED vars
  <2>1. UNCHANGED <<pc, batch, ready, inbox, eof, events>>
    BY <1>1 DEF Terminated, vars, net, loop, tasks
  <2> QED BY <1>0, <2>1 DEF Handled, Told
<1>2. CASE Consume \/ DropRecords \/ \E t \in Token : Close(t)
  <2>1. UNCHANGED <<pc, batch, ready, inbox, eof>> /\ events \subseteq events'
    BY <1>2
    DEF Consume, Raise, Wake, Recv, Drain, Disconnect, DropPayload, DropRecords, Close,
        consumerFrame, net, loop, tasks
  <2> QED BY <1>0, <2>1, StaysTold DEF Handled
<1>3. ASSUME NEW u \in Token, PeerSend(u) \/ PeerClose(u)
      PROVE  Handled' /\ \A t \in Token : Told(t)'
  <2>1. UNCHANGED <<pc, batch, ready>> /\ events' = events \cup {u}
    BY <1>3 DEF PeerSend, PeerClose, netFrame, loop, tasks
  <2>2. \A t \in Token : t # u => inbox'[t] = inbox[t] /\ eof'[t] = eof[t]
    BY <1>0, <1>3 DEF PeerSend, PeerClose
  <2> QED BY <1>0, <2>1, <2>2 DEF Handled, Told
<1>4. CASE Bind \/ CheckStop \/ Collect \/ Retired
  <2>1. UNCHANGED <<batch, ready, inbox, eof, events>> /\ pc # "events" /\ pc' # "events"
    BY <1>4 DEF Bind, CheckStop, Collect, Retired, driveFrame, net
  <2> QED BY <1>0, <2>1, StaysTold DEF Handled
<1>5. CASE Admit
  <2>1. UNCHANGED <<batch, inbox, eof, events>> /\ pc # "events" /\ pc' # "events"
    BY <1>5 DEF Admit, driveFrame, net
  <2>2. ready' = ready \/ \E t \in Token : ready' = Insert(ready, t)
    BY <1>5 DEF Admit
  <2>3. \A t \in Token : ready'.states[t] = "Kernel" => ready.states[t] = "Kernel"
    BY <1>0, <2>2 DEF Insert, ReadyType
  <2> QED BY <1>0, <2>1, <2>3, StaysTold DEF Handled
<1>6. CASE RetireTask
  <2>0. PICK t \in retiring : RetireTask!2!(t)
    BY <1>6 DEF RetireTask
  <2>1. /\ t \in Token /\ pc' = pc /\ batch' = batch
        /\ pc \in {"retire", "closing", "ended", "shutdown"}
    BY <1>6 DEF RetireTask, Core, TypeOK
  <2>2. NoNewWait(ready, ready') /\ ready'.states[t] \notin WaitReason
    BY <1>0, <2>0, <2>1, RetireFacts
  <2>3. \A u \in Token : u # t => inbox'[u] = inbox[u] /\ eof'[u] = eof[u]
    BY <1>0, <2>0
  <2>4. \A u \in Token : u # t /\ u \in events => u \in events'
    BY <2>0
  <2>5. ASSUME NEW u \in Token PROVE Told(u)'
    <3>1. CASE u = t
      BY <2>2, <3>1 DEF Told, WaitReason
    <3>2. CASE u # t
      <4>1. Told(u)
        BY <1>0
      <4>2. ready'.states[u] = "Kernel" => ready.states[u] = "Kernel"
        BY <2>2 DEF NoNewWait, WaitReason
      <4>3. inbox'[u] = inbox[u] /\ eof'[u] = eof[u] /\ (u \in events => u \in events')
        BY <2>3, <2>4, <3>2
      <4> QED BY <2>1, <4>1, <4>2, <4>3 DEF Told
    <3> QED BY <3>1, <3>2
  <2> QED BY <2>1, <2>5 DEF Handled
<1>7. CASE TakeQueueCredit \/ TakeByteCredit
  <2>1. UNCHANGED <<batch, inbox, eof, events>> /\ pc # "events" /\ pc' # "events"
    BY <1>7 DEF TakeQueueCredit, TakeByteCredit, TakeCredit, driveFrame, net
  <2>2. ready' = ready \/ \E x \in Resource : ready' = ResumeHead(ready, x)
    BY <1>7 DEF TakeQueueCredit, TakeByteCredit, TakeCredit, ResumeCredit, Resource
  <2>3. NoNewWait(ready, ready')
    BY <1>0, <2>2, ResumeHeadFacts DEF NoNewWait
  <2>4. \A t \in Token : ready'.states[t] = "Kernel" => ready.states[t] = "Kernel"
    BY <2>3 DEF NoNewWait, WaitReason
  <2> QED BY <1>0, <2>1, <2>4, StaysTold DEF Handled
<1>8. CASE RunReady
  <2>1. UNCHANGED <<batch, inbox, eof, events>> /\ pc # "events" /\ pc' # "events"
    BY <1>8 DEF RunReady, driveFrame, net
  <2>2. ready' = ready \/ (ready.queue # <<>> /\ ready' = Take(ready))
    BY <1>8 DEF RunReady, HasReady
  <2>3. NoNewWait(ready, ready')
    BY <1>0, <2>2, TakeFacts DEF NoNewWait
  <2>4. \A t \in Token : ready'.states[t] = "Kernel" => ready.states[t] = "Kernel"
    BY <2>3 DEF NoNewWait, WaitReason
  <2> QED BY <1>0, <2>1, <2>4, StaysTold DEF Handled
<1>9. CASE Poll
  <2>1. /\ UNCHANGED <<batch, eof>> /\ events \subseteq events' /\ pc # "events"
        /\ \A t \in Token : t # cur => inbox'[t] = inbox[t]
    BY <1>9, PollTask, PollEvents, PollCur
  <2>2. pc' # "events"
    BY <1>9, PollLoop
  <2>3. ASSUME NEW t \in Token, ready'.states[t] = "Kernel", inbox'[t] > 0 \/ eof'[t]
        PROVE  t \in events' \cup batch'
    <3>1. CASE t # cur /\ ready.states[t] = "Kernel"
      BY <1>0, <2>1, <2>3, <3>1 DEF Told
    <3>2. CASE t = cur /\ Sleeps
      <4>1. inbox'[t] = 0 /\ ~eof'[t]
        BY <2>1, <3>2 DEF Sleeps
      <4> QED BY <2>3, <4>1
    <3> QED BY <1>9, <2>3, <3>1, <3>2, PollWaits
  <2> QED BY <2>1, <2>2, <2>3 DEF Handled, Told
<1>10. CASE PollReturns
  <2>1. /\ pc = "poll" /\ pc' = "events" /\ batch' = events
        /\ UNCHANGED <<ready, inbox, eof>>
    BY <1>10 DEF PollReturns, driveFrame, net
  <2> QED BY <1>0, <2>1 DEF Handled, Told
<1>11. CASE HandleEvents
  <2>1. UNCHANGED <<inbox, eof, events>>
    BY <1>11 DEF HandleEvents, driveFrame, net
  <2>2. CASE batch = {} /\ UNCHANGED <<batch, ready>>
    BY <1>0, <2>1, <2>2, StaysTold DEF Handled
  <2>3. ASSUME NEW e \in batch, batch' = batch \ {e}, pc' = "events",
               ready' = IF e \in Token THEN IoReady(ready, e) ELSE ready
        PROVE  Handled' /\ \A t \in Token : Told(t)'
    <3>1. CASE e \in Token
      <4>1. ready' = IF ready.states[e] = "Kernel" THEN Enqueue(ready, e) ELSE ready
        BY <2>3, <3>1 DEF IoReady
      <4>2. NoNewWait(ready, ready') /\ ready'.states[e] # "Kernel"
        BY <1>0, <3>1, <4>1, EnqueueFacts DEF NoNewWait, WaitReason
      <4> QED BY <1>0, <2>1, <2>3, <4>2 DEF Handled, Told, NoNewWait, WaitReason
    <3>2. CASE e \notin Token
      BY <1>0, <2>1, <2>3, <3>2 DEF Handled, Told
    <3> QED BY <3>1, <3>2
  <2> QED BY <1>11, <2>2, <2>3 DEF HandleEvents
<1> QED
  BY <1>1, <1>2, <1>3, <1>4, <1>5, <1>6, <1>7, <1>8, <1>9, <1>10, <1>11
  DEF Next, Drive, Outside

\* Readiness that the kernel reported once is never lost (NoLostReadiness), even
\* though io_ready drops it for a task that is not waiting.
THEOREM ReadinessKept == Spec => []NoLostReadiness
<1> DEFINE Inv == Core /\ Handled /\ NoLostReadiness
<1>1. Init => Inv
  <2> SUFFICES ASSUME Init PROVE Inv
    OBVIOUS
  <2>1. batch = {} /\ \A t \in Token : ready.states[t] = "absent"
    BY DEF Init, EmptyReady
  <2> QED BY <2>1, InitCore DEF Handled, NoLostReadiness
<1>2. Inv /\ [Next]_vars => Inv'
  BY CoreStep, ReadinessStep
<1> QED BY <1>1, <1>2, PTL DEF Spec

-----------------------------------------------------------------------------
(* No silent signal.                                                       *)

\* The places between a return of the poller and the step that reads flag x:
\* there a raised flag needs no further wake.
Unread(x) ==
    {"events", "top", "collect", "retire", "queue", "shutdown", "done"}
    \cup (IF x = "Queue" THEN {} ELSE {"bytes"})
    \cup (IF x = "Disconnected" THEN {"run", "task", "ended", "after", "closing", "closed"} ELSE {})

\* A raised flag has a wake under way, or the worker will read it before it
\* blocks.
Announced == \A x \in flags : CONTROL \in events \/ pub = "wake" \/ pc \in Unread(x)

\* A poll raises a flag only together with the wake for it.
LEMMA PollFlags ==
    ASSUME Core, Poll
    PROVE  flags' = flags \/ (flags' = flags \cup {"Bytes"} /\ CONTROL \in events')
<1>1. CASE Send
  <2> DEFINE r == RequestTurn(ready, cur, "Queue")
  <2>1. CASE SendDisconnected(r)
    <3>1. CASE len[cur] > 0
      BY <2>1, <3>1 DEF SendDisconnected, Completes
    <3>2. CASE ~(len[cur] > 0)
      BY <2>1, <3>2 DEF SendDisconnected
    <3> QED BY <3>1, <3>2
  <2> QED BY <1>1, <2>1 DEF Send, SendOk
<1>2. CASE ~Send
  BY <1>2 DEF Poll, Yield, ReadEnd, ReadBlocks, ReadInterrupted, Copy, Decode, Frame,
              ReadData, decodeFrame
<1> QED BY <1>1, <1>2

\* Every step keeps the raised flags announced.
LEMMA AnnouncedStep ==
    ASSUME Core, Announced, [Next]_vars
    PROVE  Announced'
<1>0. CONTROL \notin Token /\ flags \subseteq Signal /\ retiring \subseteq Token
  BY TasksConstants DEF Core, TypeOK
<1>1. CASE Terminated \/ UNCHANGED vars
  <2>1. UNCHANGED <<pc, pub, events, flags>>
    BY <1>1 DEF Terminated, vars, app, loop
  <2> QED BY <2>1 DEF Announced
<1>2. CASE Raise
  <2>1. pub' = "wake"
    BY <1>2 DEF Raise
  <2> QED BY <2>1 DEF Announced
<1>3. CASE Wake
  <2>1. CONTROL \in events'
    BY <1>3 DEF Wake
  <2> QED BY <2>1 DEF Announced
<1>4. CASE Recv \/ Drain \/ Disconnect \/ DropRecords \/ \E n \in Size : DropPayload(n)
  <2>1. UNCHANGED <<pc, events, flags>> /\ pub # "wake"
    BY <1>4 DEF Recv, Drain, Disconnect, DropRecords, DropPayload, consumerFrame, loop
  <2> QED BY <2>1 DEF Announced
<1>5. CASE \E t \in Token : Close(t) \/ PeerSend(t) \/ PeerClose(t)
  <2>1. UNCHANGED <<pc, pub, flags>> /\ events \subseteq events'
    BY <1>5 DEF Close, PeerSend, PeerClose, netFrame, app, loop
  <2> QED BY <2>1 DEF Announced
<1>6. CASE Bind \/ Admit
  <2>1. UNCHANGED <<pub, events, flags>> /\ pc \in {"bind", "admit"}
    BY <1>6 DEF Bind, Admit, driveFrame, app
  <2> QED BY <2>1 DEF Announced, Unread
<1>7. CASE CheckStop \/ Collect
  <2>1. /\ UNCHANGED <<pub, events, flags>>
        /\ \/ pc' = "shutdown"
           \/ "Disconnected" \notin flags /\ pc = "top" /\ pc' = "collect"
           \/ "Disconnected" \notin flags /\ pc = "closed" /\ pc' = "poll"
           \/ pc = "collect" /\ pc' = "retire"
           \/ pc = "after" /\ pc' = "closing"
    BY <1>7 DEF CheckStop, Collect, driveFrame, app, Stopping
  <2> QED BY <2>1 DEF Announced, Unread
<1>8. CASE RetireTask
  <2>0. PICK t \in retiring : RetireTask!2!(t)
    BY <1>8 DEF RetireTask
  <2>1. /\ t # CONTROL /\ pc' = pc /\ pub' = pub
    BY <1>0, <1>8 DEF RetireTask
  <2>2. CONTROL \in events => CONTROL \in events'
    BY <2>0, <2>1
  <2>3. CASE flags' = flags
    BY <2>1, <2>2, <2>3 DEF Announced
  <2>4. CASE flags' # flags
    <3>1. CONTROL \in events'
      BY <2>0, <2>4
    <3> QED BY <3>1 DEF Announced
  <2> QED BY <2>3, <2>4
<1>9. CASE Retired
  <2>1. /\ UNCHANGED <<pub, events, flags>>
        /\ \/ pc = "retire" /\ pc' = "queue"
           \/ pc = "closing" /\ pc' = "closed"
           \/ pc = "ended" /\ pc' = "run"
           \/ pc = "shutdown" /\ pc' = "done"
    <3>1. /\ UNCHANGED <<pub, events, flags>>
          /\ pc \in {"retire", "closing", "ended", "shutdown"}
          /\ pc' = CASE pc = "retire" -> "queue" [] pc = "closing" -> "closed"
                     [] pc = "ended" -> "run" [] pc = "shutdown" -> "done"
      BY <1>9 DEF Retired, driveFrame, app
    <3>2. CASE pc = "retire"
      BY <3>1, <3>2
    <3>3. CASE pc = "closing"
      BY <3>1, <3>3
    <3>4. CASE pc = "ended"
      BY <3>1, <3>4
    <3>5. CASE pc = "shutdown"
      BY <3>1, <3>5
    <3> QED BY <3>1, <3>2, <3>3, <3>4, <3>5
  <2> QED BY <2>1 DEF Announced, Unread
<1>10. CASE TakeQueueCredit
  <2>1. /\ UNCHANGED <<pub, events>> /\ pc = "queue" /\ pc' = "bytes"
        /\ flags' = flags \ {"Queue"}
    BY <1>10 DEF TakeQueueCredit, TakeCredit, driveFrame, app
  <2> QED BY <2>1 DEF Announced, Unread
<1>11. CASE TakeByteCredit
  <2>1. /\ UNCHANGED <<pub, events>> /\ pc = "bytes" /\ pc' = "run"
        /\ flags' = flags \ {"Bytes"}
    BY <1>11 DEF TakeByteCredit, TakeCredit, driveFrame, app
  <2>2. \A x \in flags' : pc \in Unread(x) => x = "Disconnected"
    BY <1>0, <2>1 DEF Unread, Signal
  <2> QED BY <2>1, <2>2 DEF Announced, Unread
<1>12. CASE RunReady
  <2>1. UNCHANGED <<pub, events, flags>> /\ pc = "run" /\ pc' \in {"task", "after"}
    BY <1>12 DEF RunReady, driveFrame, app
  <2> QED BY <2>1 DEF Announced, Unread
<1>13. CASE Poll
  <2>1. /\ pc = "task" /\ pc' \in {"task", "run", "ended"} /\ pub' = pub
        /\ events \subseteq events'
    BY <1>13, PollCur, PollLoop, PollTask, PollEvents
  <2>2. CASE flags' = flags
    BY <2>1, <2>2 DEF Announced, Unread
  <2>3. CASE CONTROL \in events'
    BY <2>3 DEF Announced
  <2> QED BY <1>13, <2>2, <2>3, PollFlags
<1>14. CASE PollReturns
  <2>1. pc' = "events"
    BY <1>14 DEF PollReturns
  <2> QED BY <2>1 DEF Announced, Unread
<1>15. CASE HandleEvents
  <2>1. UNCHANGED <<pub, events, flags>> /\ pc' \in {"events", "top"}
    BY <1>15 DEF HandleEvents, driveFrame, app
  <2> QED BY <2>1 DEF Announced, Unread
<1> QED
  BY <1>1, <1>2, <1>3, <1>4, <1>5, <1>6, <1>7, <1>8, <1>9, <1>10, <1>11, <1>12, <1>13,
     <1>14, <1>15
  DEF Next, Drive, Consume, Outside

\* The worker never blocks on a credit it was not woken for (NoSilentSignal): the
\* 100 ms recheck is not needed to notice a signal.
THEOREM SignalsHeard == Spec => []NoSilentSignal
<1> DEFINE Inv == Core /\ Announced
<1>1. Init => Inv
  <2> SUFFICES ASSUME Init PROVE Inv
    OBVIOUS
  <2>1. flags = {}
    BY DEF Init
  <2> QED BY <2>1, InitCore DEF Announced
<1>2. Inv /\ [Next]_vars => Inv'
  BY CoreStep, AnnouncedStep
<1>3. Inv => NoSilentSignal
  <2> SUFFICES ASSUME Inv, pc = "poll", NEW x \in flags
               PROVE  CONTROL \in events \/ pub = "wake"
    BY DEF NoSilentSignal
  <2> QED BY DEF Announced, Unread
<1> QED BY <1>1, <1>2, <1>3, PTL DEF Spec

-----------------------------------------------------------------------------
(* Bounded bypass.                                                         *)

\* A registered task has been passed at most as often as it has moved up since
\* it could have been last: what it was passed and its place together never
\* exceed the number of connections.  A task in no FIFO has not been passed.
Turns ==
    /\ \A x \in Resource : \A i \in 1..Len(ready.requests[x]) :
          bypass[ready.requests[x][i]] + i <= MaxConnections
    /\ \A t \in Token : (\A x \in Resource : t \notin Members(ready.requests[x]))
                        => bypass[t] = 0

\* A completed operation passes those behind it, who all move up.
LEMMA GoesTurns ==
    ASSUME Core, Core', Turns, Poll, NEW x \in Resource, Goes(x)
    PROVE  Turns'
<1> DEFINE q == ready.requests[x]
           e == PushBack(q, cur)
           w == ready'.requests[x]
<1>0. /\ cur \in Token /\ q \in Seq(Token) /\ Distinct(q) /\ ready \in ReadyType
      /\ bypass \in [Token -> Nat] /\ MaxConnections \in Nat
  BY PollCur, MaxConnectionsAssumption DEF Core, TypeOK, Coherent, Sound, ReadyType
<1>1. /\ w = Without(e, cur) /\ Members(w) = Members(q) \ {cur}
      /\ \A y \in Resource : y # x => ready'.requests[y] = ready.requests[y]
  BY GoesReady
<1>2. RequestTurn(ready, cur, x).requests[x] = e
  BY <1>0 DEF RequestTurn, ReadyType
<1>3. First(e, cur)
  BY <1>2 DEF Goes, IsHead
<1> HIDE DEF q, w
<1>4. /\ Members(e) = Members(q) \cup {cur} /\ Distinct(e) /\ e \in Seq(Token)
      /\ \A i \in 1..Len(e) : \/ i \in 1..Len(q) /\ e[i] = q[i]
                              \/ cur \notin Members(q) /\ e[i] = cur
  BY <1>0, PushBackMembers, PushBackFacts
<1> HIDE DEF e
<1>5. \A i \in 1..Len(w) : i + 1 \in 1..Len(e) /\ w[i] = e[i + 1]
  BY <1>0, <1>1, <1>3, <1>4, WithoutMembers
<1>6. \A t \in Token : bypass'[t] = IF t = cur THEN 0
                                    ELSE IF t \in Members(e) THEN bypass[t] + 1
                                    ELSE bypass[t]
  BY <1>2 DEF Goes, Completes
<1>7. \A y \in Resource : \A t \in Members(ready.requests[y]) : op[t] \in Asks(y)
  BY DEF Core, Registered
<1>8. \A y \in Resource, o \in Asks(x) : y # x => o \notin Asks(y)
  BY DEF Asks, Resource, SendOps, CopyOps
<1>9. ASSUME NEW i \in 1..Len(w) PROVE bypass'[w[i]] + i <= MaxConnections
  <2>1. w[i] \in Members(w)
    BY DEF Members
  <2>2. w[i] # cur /\ w[i] \in Members(q) /\ w[i] \in Token
    <3>1. w[i] # cur /\ w[i] \in Members(q)
      BY <1>1, <2>1
    <3> QED BY <1>0, <3>1 DEF Members
  <2>3. i + 1 \in 1..Len(q) /\ w[i] = q[i + 1]
    BY <1>4, <1>5, <2>2
  <2>4. bypass'[w[i]] = bypass[w[i]] + 1
    BY <1>4, <1>6, <2>2
  <2>5. bypass[q[i + 1]] + (i + 1) <= MaxConnections
    BY <2>3 DEF Turns, q
  <2>6. bypass[w[i]] \in Nat /\ i \in Nat
    <3>1. Len(w) \in Nat
      BY <1>0, <1>1, <1>4, WithoutType
    <3> QED BY <1>0, <2>2, <3>1
  <2> QED BY <1>0, <2>3, <2>4, <2>5, <2>6
<1>10. ASSUME NEW y \in Resource, y # x, NEW i \in 1..Len(ready.requests[y])
       PROVE  bypass'[ready.requests[y][i]] + i <= MaxConnections
  <2> DEFINE t == ready.requests[y][i]
  <2>1. t \in Members(ready.requests[y]) /\ t \in Token
    BY <1>0 DEF Members, ReadyType
  <2> HIDE DEF t
  <2>2. op[t] \in Asks(y)
    BY <1>7, <2>1
  <2>3. t # cur /\ t \notin Members(q)
    BY <1>7, <1>8, <1>10, <2>2 DEF Goes, q
  <2>4. bypass'[t] = bypass[t]
    BY <1>4, <1>6, <2>1, <2>3
  <2> QED BY <2>4 DEF Turns, t
<1>11. ASSUME NEW t \in Token, \A y \in Resource : t \notin Members(ready'.requests[y])
       PROVE  bypass'[t] = 0
  <2>1. CASE t = cur
    BY <1>6, <2>1
  <2>2. CASE t # cur
    <3>1. t \notin Members(q) /\ \A y \in Resource : t \notin Members(ready.requests[y])
      BY <1>1, <1>11, <2>2 DEF q, w
    <3>2. bypass'[t] = bypass[t]
      BY <1>4, <1>6, <2>2, <3>1
    <3> QED BY <3>1, <3>2 DEF Turns
  <2> QED BY <2>1, <2>2
<1>12. ASSUME NEW y \in Resource, NEW i \in 1..Len(ready'.requests[y])
       PROVE  bypass'[ready'.requests[y][i]] + i <= MaxConnections
  BY <1>1, <1>9, <1>10 DEF w
<1> QED BY <1>11, <1>12 DEF Turns

\* A task that begins to wait is last, and nobody has passed it yet.
LEMMA StaysTurns ==
    ASSUME Core, Core', Turns, Poll, NEW x \in Resource, Stays(x)
    PROVE  Turns'
<1> DEFINE q == ready.requests[x]
           e == ready'.requests[x]
<1>0. /\ cur \in Token /\ q \in Seq(Token) /\ Distinct(q) /\ e \in Seq(Token) /\ Distinct(e)
      /\ bypass \in [Token -> Nat]
  BY PollCur DEF Core, TypeOK, Coherent, Sound, ReadyType
<1>1. /\ e = PushBack(q, cur) /\ Members(e) = Members(q) \cup {cur}
      /\ \A y \in Resource : y # x => ready'.requests[y] = ready.requests[y]
  BY StaysReady
<1>2. bypass' = bypass /\ op[cur] \in Asks(x)
  BY DEF Stays, Waits
<1>3. Len(e) \in Nat /\ MaxConnections \in Nat /\ Len(e) <= MaxConnections
  <2>1. IsFiniteSet(Members(e)) /\ Cardinality(Members(e)) = Len(e)
    BY <1>0, DistinctLength
  <2>2. IsFiniteSet(Token) /\ Cardinality(Token) <= MaxConnections
    BY TasksConstants
  <2>3. Members(e) \in SUBSET Token
    BY <1>0 DEF Members
  <2>4. Cardinality(Members(e)) <= Cardinality(Token) /\ Cardinality(Token) \in Nat
    BY <2>2, <2>3, FS_Subset, FS_CardinalityType
  <2>5. MaxConnections \in Nat /\ Len(e) \in Nat
    BY <1>0, MaxConnectionsAssumption
  <2> QED BY <2>1, <2>2, <2>4, <2>5
<1> HIDE DEF q, e
<1>4. ASSUME NEW i \in 1..Len(e) PROVE bypass[e[i]] + i <= MaxConnections
  <2>1. CASE i \in 1..Len(q) /\ e[i] = q[i]
    BY <2>1 DEF Turns, q
  <2>2. CASE cur \notin Members(q) /\ e[i] = cur
    <3>1. ASSUME NEW y \in Resource PROVE cur \notin Members(ready.requests[y])
      <4>1. CASE y = x
        BY <2>2, <4>1 DEF q
      <4>2. CASE y # x
        <5>1. op[cur] \notin Asks(y)
          BY <1>2, <4>2 DEF Asks, Resource, SendOps, CopyOps
        <5> QED BY <5>1 DEF Core, Registered
      <4> QED BY <4>1, <4>2
    <3>2. bypass[cur] = 0
      BY <1>0, <3>1 DEF Turns
    <3> QED BY <1>3, <2>2, <3>2
  <2> QED BY <1>0, <1>1, <2>1, <2>2, PushBackMembers
<1>5. ASSUME NEW y \in Resource, NEW i \in 1..Len(ready'.requests[y])
      PROVE  bypass'[ready'.requests[y][i]] + i <= MaxConnections
  <2>1. CASE y = x
    BY <1>2, <1>4, <2>1 DEF e
  <2>2. CASE y # x
    BY <1>1, <1>2, <2>2 DEF Turns
  <2> QED BY <2>1, <2>2
<1>6. ASSUME NEW t \in Token, \A y \in Resource : t \notin Members(ready'.requests[y])
      PROVE  bypass'[t] = 0
  <2>1. \A y \in Resource : t \notin Members(ready.requests[y])
    BY <1>1, <1>6 DEF q, e
  <2> QED BY <1>2, <2>1 DEF Turns
<1> QED BY <1>5, <1>6 DEF Turns

\* Every step keeps the bound on turns.
LEMMA TurnsStep ==
    ASSUME Core, Core', Turns, [Next]_vars
    PROVE  Turns'
<1>0. /\ ready \in ReadyType /\ bypass \in [Token -> Nat] /\ Sound(ready)
      /\ MaxConnections \in Nat
  BY MaxConnectionsAssumption DEF Core, TypeOK, Coherent
<1>1. ASSUME ready'.requests = ready.requests, bypass' = bypass PROVE Turns'
  BY <1>1 DEF Turns
<1>2. CASE Terminated \/ UNCHANGED vars \/ Consume \/ Outside
  <2>1. ready' = ready /\ bypass' = bypass
    BY <1>2
    DEF Terminated, vars, Consume, Outside, Raise, Wake, Recv, Drain, Disconnect,
        DropPayload, DropRecords, Close, PeerSend, PeerClose, consumerFrame, netFrame, tasks
  <2> QED BY <1>1, <2>1
<1>3. CASE Bind \/ CheckStop \/ Collect \/ Retired \/ PollReturns
  BY <1>1, <1>3 DEF Bind, CheckStop, Collect, Retired, PollReturns, driveFrame
<1>4. CASE Admit
  <2>1. bypass' = bypass /\ (ready' = ready \/ \E t \in Token : ready' = Insert(ready, t))
    BY <1>4 DEF Admit, driveFrame
  <2> QED BY <1>0, <1>1, <2>1 DEF Insert, ReadyType
<1>5. CASE RetireTask
  <2>0. PICK t \in retiring : RetireTask!2!(t)
    BY <1>5 DEF RetireTask
  <2>1. /\ t \in Token /\ ready' = Retire(ready, t) /\ bypass'[t] = 0
        /\ \A u \in Token : u # t => bypass'[u] = bypass[u]
    BY <1>0, <2>0 DEF Core, TypeOK
  <2>2. ASSUME NEW x \in Resource
        PROVE  /\ Members(ready'.requests[x]) = Members(ready.requests[x]) \ {t}
               /\ \A i \in 1..Len(ready'.requests[x]) :
                     bypass'[ready'.requests[x][i]] + i <= MaxConnections
    <3> DEFINE q == ready.requests[x]
               w == ready'.requests[x]
    <3>1. q \in Seq(Token) /\ Distinct(q) /\ w = Without(q, t) /\ w \in Seq(Token)
      <4>1. q \in Seq(Token) /\ Distinct(q)
        BY <1>0 DEF Sound, ReadyType
      <4>2. w = Without(q, t)
        BY <1>0, <2>1, RetireSound
      <4> QED BY <4>1, <4>2, WithoutType
    <3> HIDE DEF q, w
    <3>2. /\ Members(w) = Members(q) \ {t}
          /\ \A i \in 1..Len(w) : \/ i \in 1..Len(q) /\ w[i] = q[i]
                                  \/ i + 1 \in 1..Len(q) /\ w[i] = q[i + 1]
      BY <2>1, <3>1, WithoutMembers
    <3>3. ASSUME NEW i \in 1..Len(w) PROVE bypass'[w[i]] + i <= MaxConnections
      <4>1. w[i] \in Members(w) /\ w[i] \in Token /\ i \in Nat
        BY <3>1 DEF Members
      <4>2. bypass'[w[i]] = bypass[w[i]] /\ bypass[w[i]] \in Nat
        BY <1>0, <2>1, <3>2, <4>1
      <4>3. CASE i \in 1..Len(q) /\ w[i] = q[i]
        BY <4>2, <4>3 DEF Turns, q
      <4>4. CASE i + 1 \in 1..Len(q) /\ w[i] = q[i + 1]
        <5>1. bypass[w[i]] + (i + 1) <= MaxConnections
          BY <4>4 DEF Turns, q
        <5> QED BY <1>0, <4>1, <4>2, <5>1
      <4> QED BY <3>2, <4>3, <4>4
    <3> QED BY <3>2, <3>3 DEF q, w
  <2>3. ASSUME NEW u \in Token, \A x \in Resource : u \notin Members(ready'.requests[x])
        PROVE  bypass'[u] = 0
    <3>1. CASE u = t
      BY <2>1, <3>1
    <3>2. CASE u # t
      <4>1. \A x \in Resource : u \notin Members(ready.requests[x])
        BY <2>2, <2>3, <3>2
      <4> QED BY <2>1, <3>2, <4>1 DEF Turns
    <3> QED BY <3>1, <3>2
  <2> QED BY <2>2, <2>3 DEF Turns
<1>6. CASE TakeQueueCredit \/ TakeByteCredit
  <2>1. bypass' = bypass /\ (ready' = ready \/ \E x \in Resource : ready' = ResumeHead(ready, x))
    BY <1>6 DEF TakeQueueCredit, TakeByteCredit, TakeCredit, ResumeCredit, Resource, driveFrame
  <2> QED BY <1>0, <1>1, <2>1, ResumeHeadFacts
<1>7. CASE RunReady
  <2>1. bypass' = bypass /\ (ready' = ready \/ (ready.queue # <<>> /\ ready' = Take(ready)))
    BY <1>7 DEF RunReady, HasReady, driveFrame
  <2> QED BY <1>0, <1>1, <2>1, TakeFacts
<1>8. CASE Poll
  <2>1. CASE Works
    BY <1>1, <2>1 DEF Works
  <2>2. CASE Sleeps
    <3>1. ready'.requests = ready.requests
      <4>1. "Kernel" \notin Resource /\ ready.requests \in [Resource -> Seq(Token)]
        BY <1>0 DEF Resource, ReadyType
      <4>2. ready'.requests = [x \in Resource |->
                                  IF x = "Kernel" THEN PushBack(ready.requests[x], cur)
                                  ELSE ready.requests[x]]
        BY <1>0, <2>2 DEF Sleeps, Park, ReadyType
      <4> QED BY <4>1, <4>2
    <3> QED BY <1>1, <2>2, <3>1 DEF Sleeps
  <2>3. CASE Again
    BY <1>0, <1>1, <1>8, <2>3, PollCur, EnqueueFacts DEF Again
  <2>4. ASSUME NEW x \in Resource, Goes(x) \/ Stays(x) PROVE Turns'
    BY <1>8, <2>4, GoesTurns, StaysTurns
  <2> QED BY <1>8, <2>1, <2>2, <2>3, <2>4, PollTask
<1>9. CASE HandleEvents
  <2>1. bypass' = bypass /\ (ready' = ready \/ \E t \in Token : ready' = Enqueue(ready, t))
    BY <1>9 DEF HandleEvents, IoReady, driveFrame
  <2> QED BY <1>0, <1>1, <2>1, EnqueueFacts
<1> QED
  BY <1>2, <1>3, <1>4, <1>5, <1>6, <1>7, <1>8, <1>9 DEF Next, Drive

\* FIFO admission for any number of connections (BoundedBypass): a registered
\* task waits for at most one operation of every other connection.
THEOREM BypassBounded == Spec => []BoundedBypass
<1> DEFINE Inv == Core /\ Turns
<1>1. Init => Inv
  <2> SUFFICES ASSUME Init PROVE Inv
    OBVIOUS
  <2>1. /\ \A x \in Resource : ready.requests[x] = <<>>
        /\ \A t \in Token : bypass[t] = 0
    BY DEF Init, EmptyReady
  <2> QED BY <2>1, InitCore DEF Turns
<1>2. Inv /\ [Next]_vars => Inv'
  BY CoreStep, TurnsStep
<1>3. Inv => BoundedBypass
  <2> SUFFICES ASSUME Inv, NEW t \in Token PROVE bypass[t] <= MaxConnections - 1
    BY DEF BoundedBypass
  <2>1. MaxConnections \in Nat \ {0} /\ bypass[t] \in Nat
    BY MaxConnectionsAssumption DEF Core, TypeOK
  <2>2. CASE \A x \in Resource : t \notin Members(ready.requests[x])
    <3>1. bypass[t] = 0
      BY <2>2 DEF Turns
    <3> QED BY <2>1, <3>1
  <2>3. ASSUME NEW x \in Resource, t \in Members(ready.requests[x])
        PROVE  bypass[t] <= MaxConnections - 1
    <3> DEFINE q == ready.requests[x]
    <3>1. PICK i \in 1..Len(q) : q[i] = t
      BY <2>3 DEF Members
    <3>2. bypass[t] + i <= MaxConnections
      BY <3>1 DEF Turns
    <3>3. Len(q) \in Nat
      BY DEF Core, TypeOK, ReadyType
    <3> HIDE DEF q
    <3> QED BY <2>1, <3>1, <3>2, <3>3
  <2> QED BY <2>2, <2>3
<1> QED BY <1>1, <1>2, <1>3, PTL DEF Spec

-----------------------------------------------------------------------------
(* Every retained byte has one owner.                                      *)

\* A queued record carries a payload some read or frame could have, or none.
Lengths == \A i \in 1..Len(chan) : chan[i] \in Size \cup {0}

Owned == RetainedAccounted /\ Lengths

\* What a task at await point o with a payload of n bytes owes the budget.
Owes(o, n) == IF o \in SendOps THEN n ELSE 0

\* The three sums are numbers.
LEMMA SumsTyped == TypeOK => HeldBytes \in Int /\ QueuedBytes \in Int /\ OwnedBytes \in Int
<1> SUFFICES ASSUME TypeOK
             PROVE  HeldBytes \in Int /\ QueuedBytes \in Int /\ OwnedBytes \in Int
  OBVIOUS
<1>0. Size \in SUBSET Size /\ Token \in SUBSET Token /\ IsFiniteSet(Size) /\ IsFiniteSet(Token)
      /\ Size \subseteq Nat
  BY TasksConstants
<1>1. HeldBytes \in Int
  <2>1. [n \in Size |-> n * held[n]] \in [Size -> Int]
    BY <1>0 DEF TypeOK
  <2> QED BY <1>0, <2>1, SumType DEF HeldBytes
<1>2. QueuedBytes \in Int
  <2>1. chan \in Seq(Int)
    BY DEF TypeOK
  <2> QED BY <2>1, SumSeqType DEF QueuedBytes
<1>3. OwnedBytes \in Int
  <2>1. [t \in Token |-> Charged(t)] \in [Token -> Int]
    BY DEF TypeOK, Charged
  <2> QED BY <1>0, <2>1, SumType DEF OwnedBytes
<1> QED BY <1>1, <1>2, <1>3

\* A step that changes one task changes what the tasks owe by what it owes.
LEMMA OwnedChange ==
    ASSUME TypeOK, TypeOK', NEW t \in Token,
           \A u \in Token : u # t => op'[u] = op[u] /\ len'[u] = len[u]
    PROVE  OwnedBytes' = OwnedBytes - Owes(op[t], len[t]) + Owes(op'[t], len'[t])
<1> DEFINE f == [u \in Token |-> Owes(op[u], len[u])]
           e == [u \in Token |-> Owes(op'[u], len'[u])]
<1>1. /\ f \in [Token -> Int] /\ e \in [Token -> Int]
      /\ f[t] = Owes(op[t], len[t]) /\ e[t] = Owes(op'[t], len'[t])
      /\ \A u \in Token \ {t} : f[u] = e[u]
  <2>1. \A u \in Token : Owes(op[u], len[u]) \in Int /\ Owes(op'[u], len'[u]) \in Int
    BY DEF TypeOK, Owes
  <2> QED BY <2>1
<1>2. OwnedBytes = SumFunctionOnSet(f, Token) /\ OwnedBytes' = SumFunctionOnSet(e, Token)
  BY DEF OwnedBytes, Charged, Owes
<1> HIDE DEF f, e
<1>3. IsFiniteSet(Token)
  BY TasksConstants
<1>4. SumFunctionOnSet(e, Token) = SumFunctionOnSet(f, Token) - f[t] + e[t]
  BY <1>1, <1>3, SumChange
<1> QED BY <1>1, <1>2, <1>4

\* A payload that comes to or leaves the consumer counts with its length.
LEMMA HeldChange ==
    ASSUME TypeOK, TypeOK', NEW n \in Size,
           \A m \in Size : m # n => held'[m] = held[m]
    PROVE  /\ held'[n] = held[n] + 1 => HeldBytes' = HeldBytes + n
           /\ held'[n] = held[n] - 1 => HeldBytes' = HeldBytes - n
<1> DEFINE f == [m \in Size |-> m * held[m]]
           e == [m \in Size |-> m * held'[m]]
<1>0. /\ IsFiniteSet(Size) /\ \A m \in Size : m \in Int /\ held[m] \in Int /\ held'[m] \in Int
  BY TasksConstants DEF TypeOK
<1>1. \A m \in Size : m * held[m] \in Int /\ m * held'[m] \in Int
  BY <1>0
<1>2. f \in [Size -> Int] /\ e \in [Size -> Int] /\ \A m \in Size \ {n} : f[m] = e[m]
  BY <1>1
<1>3. /\ held'[n] = held[n] + 1 => e[n] = f[n] + n
      /\ held'[n] = held[n] - 1 => e[n] = f[n] - n
  <2>1. \A a, b \in Int : a * (b + 1) = a * b + a /\ a * (b - 1) = a * b - a
    OBVIOUS
  <2>2. f[n] = n * held[n] /\ e[n] = n * held'[n]
    OBVIOUS
  <2> HIDE DEF f, e
  <2> QED BY <1>0, <2>1, <2>2
<1>4. HeldBytes = SumFunctionOnSet(f, Size) /\ HeldBytes' = SumFunctionOnSet(e, Size)
  BY DEF HeldBytes
<1>5. f[n] \in Int /\ HeldBytes \in Int
  BY <1>2, SumsTyped
<1> HIDE DEF f, e
<1>6. SumFunctionOnSet(e, Size) = SumFunctionOnSet(f, Size) - f[n] + e[n]
  BY <1>0, <1>2, SumChange
<1>7. n \in Int
  BY <1>0
<1> QED BY <1>3, <1>4, <1>5, <1>6, <1>7

\* A poll's effect on the account: none, a payload is charged to the polled
\* task, it moves with its record into the channel, or it is refunded because
\* nobody will receive it.
LEMMA PollBytes ==
    ASSUME Core, Poll
    PROVE  \/ /\ UNCHANGED <<used, chan>>
              /\ Owes(op'[cur], len'[cur]) = Owes(op[cur], len[cur])
           \/ /\ used' = used + len[cur] /\ chan' = chan /\ len[cur] <= capacity - used
              /\ Owes(op[cur], len[cur]) = 0 /\ Owes(op'[cur], len'[cur]) = len[cur]
           \/ /\ used' = used /\ chan' = Append(chan, len[cur])
              /\ Owes(op[cur], len[cur]) = len[cur] /\ Owes(op'[cur], len'[cur]) = 0
           \/ /\ used' = used - len[cur] /\ chan' = chan
              /\ Owes(op[cur], len[cur]) = len[cur] /\ Owes(op'[cur], len'[cur]) = 0
<1>0. /\ pc = "task" /\ cur \in Token /\ op \in [Token -> Ops] /\ len \in [Token -> Nat]
      /\ capacity \in Nat
  BY PollCur DEF Core, TypeOK
<1>1. op[cur] \notin CopyOps \cup SendOps => len[cur] = 0
  BY <1>0 DEF Core, Payloads
<1>2. ~(len[cur] > capacity)
  <2>1. len[cur] \in Size \cup {0} /\ \A n \in Size : n \in Nat /\ n <= capacity
    BY <1>0, TasksConstants DEF Core, Payloads
  <2> QED BY <1>0, <2>1
<1>3. CASE Yield \/ ReadInterrupted \/ ReadBlocks
  BY <1>3 DEF Yield, ReadInterrupted, ReadBlocks
<1>4. CASE ReadEnd \/ Decode \/ Frame \/ \E n \in Size : ReadData(n)
  <2>1. UNCHANGED <<used, chan>> /\ op[cur] \in {"read", "decode", "frame"}
    BY <1>4 DEF ReadEnd, Decode, Frame, ReadData, Polls, decodeFrame
  <2>2. len[cur] = 0
    BY <1>1, <2>1 DEF CopyOps, SendOps
  <2>3. len'[cur] = 0 \/ op'[cur] \in CopyOps
    BY <1>0, <1>4, <2>2 DEF ReadEnd, Decode, Frame, ReadData, CopyOps
  <2> QED BY <2>1, <2>2, <2>3 DEF Owes, CopyOps, SendOps
<1>5. CASE Copy
  <2> DEFINE r == RequestTurn(ready, cur, "Bytes")
  <2>1. op[cur] \in CopyOps /\ chan' = chan
    BY <1>5 DEF Copy, Polls
  <2>2. CASE /\ len[cur] <= capacity - used /\ used' = used + len[cur]
             /\ op' = [op EXCEPT ![cur] = AfterCopy(@)] /\ UNCHANGED len
    <3>1. op'[cur] \in SendOps
      BY <1>0, <2>1, <2>2 DEF AfterCopy, CopyOps, SendOps
    <3> QED BY <2>1, <2>2, <3>1 DEF Owes, CopyOps, SendOps
  <2>3. CASE UNCHANGED <<used, op, len>>
    BY <2>1, <2>3
  <2> QED BY <1>2, <1>5, <2>2, <2>3 DEF Copy
<1>6. CASE Send
  <2> DEFINE r == RequestTurn(ready, cur, "Queue")
  <2>1. op[cur] \in SendOps
    BY <1>6 DEF Send, Polls
  <2>2. CASE SendOk(r)
    <3>1. len'[cur] = 0 /\ used' = used /\ chan' = Append(chan, len[cur])
      BY <1>0, <2>2 DEF SendOk
    <3> QED BY <2>1, <3>1 DEF Owes
  <2>3. CASE SendDisconnected(r)
    <3>1. len'[cur] = 0 /\ used' = used - len[cur] /\ chan' = chan
      BY <1>0, <2>3 DEF SendDisconnected
    <3> QED BY <2>1, <3>1 DEF Owes
  <2>4. CASE UNCHANGED <<used, chan, flags, op, len, terminal>>
    BY <2>4
  <2> QED BY <1>6, <2>2, <2>3, <2>4 DEF Send
<1> QED BY <1>3, <1>4, <1>5, <1>6 DEF Poll

\* What is queued grows by a record that is sent, and shrinks by one received.
LEMMA QueuedChange ==
    ASSUME TypeOK
    PROVE  /\ \A n \in Nat : chan' = Append(chan, n) => QueuedBytes' = QueuedBytes + n
           /\ chan # <<>> /\ chan' = Tail(chan) => QueuedBytes' = QueuedBytes - Head(chan)
           /\ chan' = chan => QueuedBytes' = QueuedBytes
<1>1. chan \in Seq(Int)
  BY DEF TypeOK
<1>2. ASSUME NEW n \in Nat, chan' = Append(chan, n)
      PROVE  QueuedBytes' = QueuedBytes + n
  BY <1>1, <1>2, SumAppend DEF QueuedBytes
<1>3. ASSUME chan # <<>>, chan' = Tail(chan)
      PROVE  QueuedBytes' = QueuedBytes - Head(chan)
  BY <1>1, <1>3, SumTail DEF QueuedBytes
<1> QED BY <1>2, <1>3 DEF QueuedBytes

\* A step that leaves the account and its three owners alone.
LEMMA StaysOwned ==
    ASSUME Owned, UNCHANGED <<used, chan, held, op, len, capacity>>
    PROVE  Owned'
  BY DEF Owned, RetainedAccounted, HeldBytes, QueuedBytes, OwnedBytes, Charged, Lengths

\* Every step keeps the account.
LEMMA OwnedStep ==
    ASSUME Core, Core', Owned, [Next]_vars
    PROVE  Owned'
<1>0. /\ TypeOK /\ TypeOK' /\ used \in Int /\ capacity \in Nat /\ chan \in Seq(Nat)
      /\ Size \subseteq Nat
      /\ HeldBytes \in Int /\ QueuedBytes \in Int /\ OwnedBytes \in Int
  BY SumsTyped, TasksConstants DEF Core, TypeOK
<1>1. /\ held' = held => HeldBytes' = HeldBytes
      /\ UNCHANGED <<op, len>> => OwnedBytes' = OwnedBytes
  BY DEF HeldBytes, OwnedBytes, Charged
<1>2. ASSUME chan # <<>>, chan' = Tail(chan)
      PROVE  Lengths' /\ Head(chan) \in Size \cup {0} /\ Head(chan) \in Nat
  <2>1. /\ Head(chan) = chan[1] /\ 1 \in 1..Len(chan) /\ Len(chan') = Len(chan) - 1
        /\ \A i \in 1..Len(chan') : chan'[i] = chan[i + 1] /\ i + 1 \in 1..Len(chan)
    BY <1>0, <1>2
  <2> QED BY <1>0, <2>1 DEF Owned, Lengths
<1>3. CASE Recv
  <2>1. /\ UNCHANGED <<used, op, len, capacity>> /\ chan # <<>> /\ chan' = Tail(chan)
        /\ held' = IF Head(chan) = 0 THEN held ELSE [held EXCEPT ![Head(chan)] = @ + 1]
    BY <1>3 DEF Recv, consumerFrame, tasks
  <2>2. QueuedBytes' = QueuedBytes - Head(chan)
    BY <1>0, <2>1, QueuedChange
  <2>3. HeldBytes' = HeldBytes + Head(chan)
    <3>1. CASE Head(chan) = 0
      BY <1>0, <1>1, <2>1, <3>1
    <3>2. CASE Head(chan) # 0
      <4>1. Head(chan) \in Size /\ held' = [held EXCEPT ![Head(chan)] = @ + 1]
        BY <1>2, <2>1, <3>2
      <4>2. /\ held'[Head(chan)] = held[Head(chan)] + 1
            /\ \A m \in Size : m # Head(chan) => held'[m] = held[m]
        BY <1>0, <4>1 DEF TypeOK
      <4> QED BY <1>0, <4>1, <4>2, HeldChange
    <3> QED BY <3>1, <3>2
  <2> QED
    BY <1>0, <1>1, <1>2, <2>1, <2>2, <2>3 DEF Owned, RetainedAccounted
<1>4. ASSUME NEW n \in Size, DropPayload(n) PROVE Owned'
  <2>1. /\ UNCHANGED <<chan, op, len, capacity>> /\ used' = used - n /\ n \in Nat
        /\ held' = [held EXCEPT ![n] = @ - 1]
    BY <1>0, <1>4 DEF DropPayload, consumerFrame, tasks
  <2>2. HeldBytes' = HeldBytes - n
    <3>1. held'[n] = held[n] - 1 /\ \A m \in Size : m # n => held'[m] = held[m]
      BY <1>0, <2>1 DEF TypeOK
    <3> QED BY <1>0, <3>1, HeldChange
  <2>3. QueuedBytes' = QueuedBytes
    BY <1>0, <2>1, QueuedChange
  <2>4. Lengths'
    BY <2>1 DEF Owned, Lengths
  <2> QED BY <1>0, <1>1, <2>1, <2>2, <2>3, <2>4 DEF Owned, RetainedAccounted
<1>5. CASE Drain
  <2>1. /\ UNCHANGED <<held, op, len, capacity>> /\ chan # <<>> /\ chan' = Tail(chan)
        /\ used' = used - Head(chan)
    BY <1>5 DEF Drain, consumerFrame, tasks
  <2>2. QueuedBytes' = QueuedBytes - Head(chan)
    BY <1>0, <2>1, QueuedChange
  <2> QED BY <1>0, <1>1, <1>2, <2>1, <2>2 DEF Owned, RetainedAccounted
<1>6. CASE Poll
  <2> DEFINE a == Owes(op[cur], len[cur])
             b == Owes(op'[cur], len'[cur])
  <2>1. /\ cur \in Token /\ held' = held /\ capacity' = capacity
        /\ \A u \in Token : u # cur => op'[u] = op[u] /\ len'[u] = len[u]
    BY <1>6, PollCur, PollTask
  <2>2. OwnedBytes' = OwnedBytes - a + b
    BY <1>0, <2>1, OwnedChange
  <2>3. len[cur] \in Nat /\ len[cur] \in Size \cup {0} /\ a \in Nat
    BY <1>0, <2>1 DEF Core, TypeOK, Payloads, Owes
  <2> HIDE DEF a, b
  <2>4. CASE chan' = chan
    <3>1. QueuedBytes' = QueuedBytes /\ Lengths'
      BY <1>0, <2>4, QueuedChange DEF Owned, Lengths
    <3>2. \/ used' = used /\ b = a
          \/ used' = used + len[cur] /\ len[cur] <= capacity - used /\ a = 0 /\ b = len[cur]
          \/ used' = used /\ a = len[cur] /\ b = 0 /\ chan' = Append(chan, len[cur])
          \/ used' = used - len[cur] /\ a = len[cur] /\ b = 0
      BY <1>6, PollBytes DEF a, b
    <3>3. chan' # Append(chan, len[cur])
      BY <1>0, <2>3, <2>4
    <3>4. used = HeldBytes + QueuedBytes + OwnedBytes /\ used <= capacity
      BY DEF Owned, RetainedAccounted
    <3>5. used' = used - a + b /\ used' <= capacity /\ b \in Nat
      <4>1. CASE used' = used /\ b = a
        BY <1>0, <2>3, <3>4, <4>1
      <4>2. CASE used' = used + len[cur] /\ len[cur] <= capacity - used /\ a = 0 /\ b = len[cur]
        BY <1>0, <2>3, <4>2
      <4>3. CASE used' = used - len[cur] /\ a = len[cur] /\ b = 0
        BY <1>0, <2>3, <3>4, <4>3
      <4> QED BY <3>2, <3>3, <4>1, <4>2, <4>3
    <3>6. HeldBytes' = HeldBytes
      BY <1>1, <2>1
    <3>7. used' = HeldBytes' + QueuedBytes' + OwnedBytes'
      BY <1>0, <2>2, <2>3, <3>1, <3>4, <3>5, <3>6
    <3> QED BY <2>1, <3>1, <3>5, <3>7 DEF Owned, RetainedAccounted
  <2>5. CASE chan' # chan
    <3>1. used' = used /\ a = len[cur] /\ b = 0 /\ chan' = Append(chan, len[cur])
      BY <1>6, <2>5, PollBytes DEF a, b
    <3>2. QueuedBytes' = QueuedBytes + len[cur]
      BY <1>0, <2>3, <3>1, QueuedChange
    <3>3. Lengths'
      <4>1. /\ Len(chan') = Len(chan) + 1 /\ chan'[Len(chan) + 1] = len[cur]
            /\ \A i \in 1..Len(chan) : chan'[i] = chan[i]
        BY <1>0, <2>3, <3>1
      <4>2. \A i \in 1..Len(chan') : i \in 1..Len(chan) \/ i = Len(chan) + 1
        BY <1>0, <4>1
      <4> QED BY <2>3, <4>1, <4>2 DEF Owned, Lengths
    <3> QED
      BY <1>0, <1>1, <2>1, <2>2, <2>3, <3>1, <3>2, <3>3 DEF Owned, RetainedAccounted
  <2> QED BY <2>4, <2>5
<1>7. CASE RetireTask
  <2>0. PICK t \in retiring : RetireTask!2!(t)
    BY <1>7 DEF RetireTask
  <2>1. /\ t \in Token /\ UNCHANGED <<chan, held, capacity>> /\ used' = used - Charged(t)
        /\ op'[t] = "none" /\ len'[t] = 0
        /\ \A u \in Token : u # t => op'[u] = op[u] /\ len'[u] = len[u]
    BY <1>0, <1>7, <2>0 DEF RetireTask, TypeOK
  <2>2. OwnedBytes' = OwnedBytes - Charged(t)
    <3>1. OwnedBytes' = OwnedBytes - Owes(op[t], len[t]) + Owes(op'[t], len'[t])
      BY <1>0, <2>1, OwnedChange
    <3>2. Owes(op'[t], len'[t]) = 0 /\ Owes(op[t], len[t]) = Charged(t) /\ Charged(t) \in Nat
      BY <1>0, <2>1 DEF Owes, Charged, SendOps, TypeOK
    <3> QED BY <1>0, <3>1, <3>2
  <2>3. Charged(t) \in Nat
    BY <1>0, <2>1 DEF Charged, TypeOK
  <2>4. QueuedBytes' = QueuedBytes /\ Lengths'
    BY <1>0, <2>1, QueuedChange DEF Owned, Lengths
  <2> QED BY <1>0, <1>1, <2>1, <2>2, <2>3, <2>4 DEF Owned, RetainedAccounted
<1>8. CASE Admit
  <2>1. UNCHANGED <<used, chan, held, len, capacity>>
    BY <1>8 DEF Admit, driveFrame, app
  <2>2. CASE op' = op
    BY <2>1, <2>2, StaysOwned
  <2>3. CASE op' # op
    <3>1. PICK t \in Token \ Live : op' = [op EXCEPT ![t] = "connected"]
      BY <1>8, <2>3 DEF Admit
    <3>2. op[t] = "none" /\ len[t] = 0 /\ \A u \in Token : u # t => op'[u] = op[u]
      BY <1>0, <3>1 DEF Live, Core, Payloads, CopyOps, SendOps, TypeOK
    <3>3. OwnedBytes' = OwnedBytes - Owes(op[t], len[t]) + Owes(op'[t], len'[t])
      BY <1>0, <2>1, <3>2, OwnedChange
    <3>4. OwnedBytes' = OwnedBytes
      BY <1>0, <2>1, <3>2, <3>3 DEF Owes
    <3>5. QueuedBytes' = QueuedBytes /\ Lengths'
      BY <1>0, <2>1, QueuedChange DEF Owned, Lengths
    <3> QED BY <1>0, <1>1, <2>1, <3>4, <3>5 DEF Owned, RetainedAccounted
  <2> QED BY <2>2, <2>3
<1>9. CASE \/ Raise \/ Wake \/ Disconnect \/ Outside \/ Terminated \/ UNCHANGED vars
  <2>1. UNCHANGED <<used, chan, held, op, len, capacity>>
    BY <1>9 DEF Raise, Wake, Disconnect, Outside, DropRecords, Close, PeerSend, PeerClose,
                Terminated, vars, consumerFrame, netFrame, app, tasks
  <2> QED BY <2>1, StaysOwned
<1>10. CASE \/ Bind \/ CheckStop \/ Collect \/ Retired \/ TakeQueueCredit \/ TakeByteCredit \/ RunReady
            \/ PollReturns \/ HandleEvents
  <2>1. UNCHANGED <<used, chan, held, op, len, capacity>>
    BY <1>10 DEF Bind, CheckStop, Collect, Retired, TakeQueueCredit, TakeByteCredit, TakeCredit,
                 RunReady, PollReturns, HandleEvents, driveFrame, app
  <2> QED BY <2>1, StaysOwned
<1> QED
  BY <1>3, <1>4, <1>5, <1>6, <1>7, <1>8, <1>9, <1>10 DEF Next, Drive, Consume

\* Every byte of the budget that is in use belongs to exactly one sending task,
\* queued record or payload of the consumer, and never more than the capacity is
\* in use (RetainedAccounted): neither a retirement at any await point, nor a send
\* to a dropped receiver, nor the draining of its queue loses or repeats a refund.
THEOREM BytesAccounted == Spec => []RetainedAccounted
<1> DEFINE Inv == Core /\ Owned
<1>1. Init => Inv
  <2> SUFFICES ASSUME Init PROVE Inv
    OBVIOUS
  <2>1. Core /\ TypeOK /\ capacity \in Nat
    BY InitCore DEF Core, TypeOK
  <2>2. used = 0 /\ chan = <<>> /\ Lengths
    BY DEF Init, Lengths
  <2>3. IsFiniteSet(Size) /\ IsFiniteSet(Token) /\ {} \in SUBSET Size /\ {} \in SUBSET Token
        /\ Size \subseteq Nat
    BY TasksConstants
  <2>4. HeldBytes = 0
    <3> DEFINE f == [n \in Size |-> n * held[n]]
    <3>1. f \in [Size -> Int] /\ \A n \in Size \ {} : f[n] = 0
      BY <2>3 DEF Init
    <3> HIDE DEF f
    <3>2. SumFunctionOnSet(f, Size) = SumFunctionOnSet(f, {}) /\ SumFunctionOnSet(f, {}) = 0
      BY <2>3, <3>1, SumSupport, SumRec
    <3> QED BY <3>2 DEF HeldBytes, f
  <2>5. OwnedBytes = 0
    <3> DEFINE f == [t \in Token |-> Charged(t)]
    <3>1. f \in [Token -> Int] /\ \A t \in Token \ {} : f[t] = 0
      BY DEF Init, Charged, SendOps
    <3> HIDE DEF f
    <3>2. SumFunctionOnSet(f, Token) = SumFunctionOnSet(f, {}) /\ SumFunctionOnSet(f, {}) = 0
      BY <2>3, <3>1, SumSupport, SumRec
    <3> QED BY <3>2 DEF OwnedBytes, f
  <2>6. QueuedBytes = 0
    <3>1. chan \in Seq(Int) /\ DOMAIN chan = {} /\ chan \in [{} -> Int]
      BY <2>2
    <3>2. IsFiniteSet({}) /\ {} \in SUBSET {}
      BY FS_EmptySet
    <3> QED BY <3>1, <3>2, SumRec DEF QueuedBytes
  <2> QED BY <2>1, <2>2, <2>4, <2>5, <2>6 DEF Owned, RetainedAccounted
<1>2. Inv /\ [Next]_vars => Inv'
  BY CoreStep, OwnedStep
<1>3. Inv => RetainedAccounted
  BY DEF Owned
<1> QED BY <1>1, <1>2, <1>3, PTL DEF Spec
=============================================================================
