------------------------------- MODULE Ready -------------------------------
(***************************************************************************)
(* The scheduler's shared record (`Ready` in scheduler.rs) as a value, and *)
(* one operator per method of `Ready` and `Scheduler`.  A `ready` value    *)
(* has the BTreeMap of task states, the runnable FIFO and the two          *)
(* admission FIFOs.  The linked lists behind the FIFOs are the subject of  *)
(* module Order; here each is the sequence of the tokens it holds.         *)
(* Every method runs under one mutex, so every operator is one step.       *)
(***************************************************************************)
EXTENDS Naturals, Sequences, FiniteSets

CONSTANTS Token,           \* connection tokens
          MaxConnections   \* Limits::max_connections, the capacity of `Ready`

ASSUME MaxConnectionsAssumption == MaxConnections \in Nat \ {0}

Resource == {"Queue", "Bytes"}
WaitReason == {"Kernel"} \cup Resource

\* State::Waiting(reason) is written as the reason; "absent" is a token that
\* has no entry in the map.
State == {"absent", "Running", "Notified", "Queued"} \cup WaitReason

ReadyType == [states   : [Token -> State],
              queue    : Seq(Token),
              requests : [Resource -> Seq(Token)]]

EmptyReady == [states   |-> [t \in Token |-> "absent"],
               queue    |-> <<>>,
               requests |-> [x \in Resource |-> <<>>]]

-----------------------------------------------------------------------------
(* FIFO membership: what `Order` promises.                                 *)

Members(s) == {s[i] : i \in 1..Len(s)}
First(s, t) == Len(s) > 0 /\ s[1] = t
PushBack(s, t) == IF t \in Members(s) THEN s ELSE Append(s, t)

Without(s, t) ==
    IF t \in Members(s)
    THEN LET k == CHOOSE i \in 1..Len(s) : s[i] = t
         IN  [i \in 1..(Len(s) - 1) |-> IF i < k THEN s[i] ELSE s[i + 1]]
    ELSE s

-----------------------------------------------------------------------------
(* Ready                                                                   *)

Present(r) == {t \in Token : r.states[t] # "absent"}
Runnable(r) == {t \in Token : r.states[t] \in {"Queued", "Notified"}}

\* `enqueue` changes something only for a running or waiting task.
Enqueues(r, t) == r.states[t] \in {"Running"} \cup WaitReason

MutEnqueueForgetsRunning(r, t) ==
    IF r.states[t] \in WaitReason
    THEN [r EXCEPT !.states[t] = "Queued", !.queue = PushBack(@, t)]
    ELSE r

Enqueue(r, t) ==
    IF Enqueues(r, t)
    THEN [r EXCEPT !.states[t] = IF @ = "Running" THEN "Notified" ELSE "Queued",
                   !.queue = PushBack(@, t)]
    ELSE r

ResumeHead(r, x) ==
    IF r.requests[x] = <<>> THEN r ELSE Enqueue(r, r.requests[x][1])

MutRemoveWithoutResume(r, t, x) == [r EXCEPT !.requests[x] = Without(@, t)]

RemoveRequest(r, t, x) ==
    LET rest == [r EXCEPT !.requests[x] = Without(@, t)]
    IN  IF First(r.requests[x], t) THEN ResumeHead(rest, x) ELSE rest

\* Whether RemoveRequest makes another task runnable (its `bool` result).
Resumes(r, t, x) ==
    /\ First(r.requests[x], t)
    /\ Len(r.requests[x]) > 1
    /\ Enqueues(r, r.requests[x][2])

-----------------------------------------------------------------------------
(* Scheduler                                                               *)

Insert(r, t) == [r EXCEPT !.states[t] = "Queued", !.queue = PushBack(@, t)]

Take(r) == [r EXCEPT !.states[r.queue[1]] = "Running", !.queue = Tail(@)]

HasReady(r) == r.queue # <<>>

MutIoReadyWrongWait(r, t) == IF r.states[t] \in Resource THEN Enqueue(r, t) ELSE r

IoReady(r, t) == IF r.states[t] = "Kernel" THEN Enqueue(r, t) ELSE r

\* A task that was woken during this poll keeps its runnable turn; otherwise
\* it waits.  Waiting for a resource keeps its place in that admission FIFO.
Park(r, t, reason) ==
    LET woken == r.states[t] = "Notified"
    IN  [r EXCEPT !.states[t] = IF woken THEN "Queued" ELSE reason,
                  !.queue = IF woken THEN @ ELSE Without(@, t),
                  !.requests = [x \in Resource |->
                                   IF x = reason THEN PushBack(@[x], t)
                                                 ELSE @[x]]]

MutResumeLast(r, x) ==
    IF r.requests[x] = <<>> THEN r
    ELSE Enqueue(r, r.requests[x][Len(r.requests[x])])

ResumeCredit(r, x) == ResumeHead(r, x)

\* Registration is idempotent: an operation keeps its first position.
RequestTurn(r, t, x) == [r EXCEPT !.requests[x] = PushBack(@, t)]

MutAnyoneIsHead(r, t, x) == TRUE

\* The answer of request_turn, asked of the state after the registration.
IsHead(r, t, x) == First(r.requests[x], t)

FinishRequest(r, t, x) == RemoveRequest(r, t, x)

MutRetireKeepsRequests(r, t) ==
    [r EXCEPT !.states[t] = "absent", !.queue = Without(@, t)]

Retire(r, t) ==
    LET gone == [r EXCEPT !.states[t] = "absent", !.queue = Without(@, t)]
    IN  RemoveRequest(RemoveRequest(gone, t, "Queue"), t, "Bytes")

RetireResumes(r, t) == \E x \in Resource : Resumes(r, t, x)
=============================================================================
