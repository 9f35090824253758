------------------------------- MODULE Tasks -------------------------------
(***************************************************************************)
(* Connection tasks and the resources they compete for.  One worker thread *)
(* polls the tasks (run_ready in driver.rs, TaskContext in scheduler.rs,   *)
(* the await points of connection.rs); the tasks hand records to a bounded *)
(* channel (handoff.rs) and charge payloads to a byte budget (memory.rs);  *)
(* a consumer thread frees slots and bytes and signals the worker; peers   *)
(* make sockets readable; a close request may cancel a task at any await.  *)
(*                                                                         *)
(* Grain of atomicity.  Only the worker touches `ready` and the task       *)
(* state, and only the worker reads the signal flags, so a worker step may *)
(* join one access to shared state (channel, budget, flags) with any       *)
(* amount of worker-local work.  The consumer takes one step per shared    *)
(* access: popping a record or refunding bytes, raising the flag, and      *)
(* waking the poller are three steps.                                      *)
(*                                                                         *)
(* Admission, close tickets, stop requests and the run summary belong to   *)
(* module Drive; here the tasks of Token are admitted at the start.         *)
(***************************************************************************)
EXTENDS Ready, Integers, FiniteSetsExt

CONSTANTS Size,         \* lengths a read or a payload may have
          Capacities,   \* budget capacities the caller may bind with
          ChanCap,      \* Limits::channel_capacity
          TurnSteps,    \* Limits::turn_steps
          TurnBatch,    \* TURN_BATCH: polls in one run_ready
          MaxChunks,    \* bound: reads a peer provides
          MaxFrames,    \* bound: frames a connection decodes
          Preloaded,    \* TRUE: peers have sent everything before admission
          Interrupts,   \* TRUE: reads may fail with EINTR
          Cancel,       \* TRUE: close requests happen
          Hangup,       \* TRUE: the consumer may drop Records
          Recheck       \* TRUE: poll also returns after STOP_RECHECK

CONTROL == 1
Signal == {"Queue", "Bytes", "Disconnected"}

ASSUME TasksConstants ==
    /\ Token \subseteq Nat \ {CONTROL}
    /\ IsFiniteSet(Token) /\ Cardinality(Token) <= MaxConnections
    /\ Size \subseteq Nat \ {0}
    /\ IsFiniteSet(Size) /\ Size # {}
    /\ Capacities \subseteq Nat \ {0}
    /\ {ChanCap, TurnSteps, TurnBatch} \subseteq Nat \ {0}
    /\ {MaxChunks, MaxFrames} \subseteq Nat
    /\ {Preloaded, Interrupts, Cancel, Hangup, Recheck} \subseteq BOOLEAN

\* The await points of receive_from, decode_chunk and observe.  "none" is a
\* token without a task, "done" a task whose future has completed.
CopyOps == {"copyWire", "copyAudio", "copyPeer"}
SendOps == {"connected", "wire", "event", "audio", "refused", "ended"}
Ops == {"none", "read", "decode", "frame", "done"} \cup CopyOps \cup SendOps

VARIABLES
    capacity,   \* ByteBudget::capacity, chosen by the caller of bind
    used,       \* BudgetState::used
    chan,       \* the sync_channel: the payload length of each queued record
    consumer,   \* "alive", "draining" (inside Records::drop) or "gone"
    held,       \* [Size -> Nat]: payloads the consumer still owns
    flags,      \* the raised flags of Signals
    pub,        \* what the consumer has still to do of a publish
    events,     \* readiness that the poller has not returned yet
    batch,      \* events of the last poll that are not handled yet
    pc,         \* the worker's position in drive
    left,       \* polls left in this run_ready
    cur,        \* the token being polled; CONTROL when none is
    remaining,  \* permits left in this turn
    retiring,   \* tokens collected for retirement
    ready,      \* the scheduler (module Ready)
    op, len,    \* each task's await point and the payload length it handles
    frames,     \* frames decoded so far
    terminal,   \* tokens with Progress::terminal_queued
    inbox, eof, \* unread chunks of each socket, and its end of input
    sent,       \* chunks each peer has sent
    requested,  \* tokens with a close request
    bypass      \* history: operations others completed while a task waits

app == <<consumer, held, pub, requested>>
net == <<inbox, eof, sent>>
loop == <<pc, left, cur, remaining, retiring>>
tasks == <<ready, op, len, frames, terminal, bypass>>
vars == <<capacity, used, chan, flags, events, batch, app, net, loop, tasks>>

Live == {t \in Token : op[t] # "none"}
MaxLen == Max(Size)

Init ==
    /\ capacity \in Capacities
    /\ used = 0 /\ chan = <<>>
    /\ consumer = "alive" /\ held = [n \in Size |-> 0] /\ pub = "idle"
    /\ requested = {}
    /\ flags = {} /\ events = {} /\ batch = {}
    /\ pc = "bind" /\ left = 0 /\ cur = CONTROL /\ remaining = 0 /\ retiring = {}
    /\ ready = EmptyReady
    /\ op = [t \in Token |-> "none"]
    /\ len = [t \in Token |-> 0] /\ frames = [t \in Token |-> 0]
    /\ terminal = {}
    /\ sent = [t \in Token |-> IF Preloaded THEN MaxChunks ELSE 0]
    /\ inbox = sent /\ eof = [t \in Token |-> Preloaded]
    /\ bypass = [t \in Token |-> 0]

-----------------------------------------------------------------------------
(* The consumer of Records, and the owner of received payloads.            *)

consumerFrame == <<capacity, batch, net, loop, tasks, requested>>

MutRaiseWithoutWake ==
    /\ pub \in Signal
    /\ flags' = flags \cup {pub} /\ pub' = "idle"
    /\ UNCHANGED <<consumerFrame, used, chan, events, consumer, held>>

\* Signals::publish: raise the flag, then wake the poller.
Raise ==
    /\ pub \in Signal
    /\ flags' = flags \cup {pub} /\ pub' = "wake"
    /\ UNCHANGED <<consumerFrame, used, chan, events, consumer, held>>

Wake ==
    /\ pub = "wake"
    /\ events' = events \cup {CONTROL} /\ pub' = "idle"
    /\ UNCHANGED <<consumerFrame, used, chan, flags, consumer, held>>

\* recv, try_recv and recv_timeout: pop, then publish the slot.
Recv ==
    /\ consumer = "alive" /\ pub = "idle" /\ chan # <<>>
    /\ chan' = Tail(chan)
    /\ held' = IF Head(chan) = 0 THEN held ELSE [held EXCEPT ![Head(chan)] = @ + 1]
    /\ pub' = "Queue"
    /\ UNCHANGED <<consumerFrame, used, flags, events, consumer>>

\* Charge::drop refunds the budget, then wakes its subscriber.
DropPayload(n) ==
    /\ pub = "idle" /\ held[n] > 0
    /\ held' = [held EXCEPT ![n] = @ - 1]
    /\ used' = used - n
    /\ pub' = "Bytes"
    /\ UNCHANGED <<consumerFrame, chan, flags, events, consumer>>

\* Records::drop: the channel refuses sends at once, the queued records are
\* destroyed one by one, and only then is the disconnection published.
DropRecords ==
    /\ Hangup /\ consumer = "alive" /\ pub = "idle"
    /\ consumer' = "draining"
    /\ UNCHANGED <<consumerFrame, used, chan, flags, pub, events, held>>

Drain ==
    /\ consumer = "draining" /\ pub = "idle" /\ chan # <<>>
    /\ chan' = Tail(chan)
    /\ used' = used - Head(chan)
    /\ pub' = IF Head(chan) = 0 THEN "idle" ELSE "Bytes"
    /\ UNCHANGED <<consumerFrame, flags, events, consumer, held>>

Disconnect ==
    /\ consumer = "draining" /\ pub = "idle" /\ chan = <<>>
    /\ consumer' = "gone" /\ pub' = "Disconnected"
    /\ UNCHANGED <<consumerFrame, used, chan, flags, events, held>>

Consume ==
    \/ Raise \/ Wake \/ Recv \/ Drain \/ Disconnect
    \/ \E n \in Size : DropPayload(n)

-----------------------------------------------------------------------------
(* Close requests, peers, and the readiness the kernel reports for them.   *)

\* The half of ConnectionControlHandle::close that the worker acts on.
Close(t) ==
    /\ Cancel /\ t \in Live \ requested
    /\ requested' = requested \cup {t}
    /\ events' = events \cup {CONTROL}
    /\ UNCHANGED <<capacity, used, chan, flags, batch, consumer, held, pub, net,
                   loop, tasks>>

netFrame == <<capacity, used, chan, flags, batch, app, loop, tasks>>

PeerSend(t) ==
    /\ t \in Live /\ ~eof[t] /\ sent[t] < MaxChunks
    /\ sent' = [sent EXCEPT ![t] = @ + 1]
    /\ inbox' = [inbox EXCEPT ![t] = @ + 1]
    /\ events' = events \cup {t}
    /\ UNCHANGED <<netFrame, eof>>

\* Half-close or reset: either way the reads after the buffered data end.
PeerClose(t) ==
    /\ t \in Live /\ ~eof[t]
    /\ eof' = [eof EXCEPT ![t] = TRUE]
    /\ events' = events \cup {t}
    /\ UNCHANGED <<netFrame, inbox, sent>>

Outside == DropRecords \/ \E t \in Token : Close(t) \/ PeerSend(t) \/ PeerClose(t)

-----------------------------------------------------------------------------
(* One poll of the task `cur`: its steps between two uses of `permit`.     *)

pollFrame == <<capacity, batch, app, left, eof, sent>>

Polls(ops) == pc = "task" /\ op[cur] \in ops
MutPermitAlways == TRUE
Permit == remaining > 0

\* How a step ends: the poll goes on, returns Pending, or returns Ready and
\* run_ready retires the task.
GoesOn == remaining' = remaining - 1 /\ UNCHANGED <<pc, cur, retiring>>
Leaves(where, who) ==
    pc' = where /\ retiring' = who /\ remaining' = 0 /\ cur' = CONTROL
Pending == Leaves("run", {})
Returns == Leaves("ended", {cur})

\* TaskWake::wake_by_ref by the running task itself.
SelfWake ==
    /\ ready' = Enqueue(ready, cur)
    /\ events' = IF Enqueues(ready, cur) THEN events \cup {CONTROL} ELSE events
    /\ Pending

\* permit() without steps left.
Yield ==
    /\ pc = "task" /\ remaining = 0
    /\ SelfWake
    /\ UNCHANGED <<pollFrame, used, chan, flags, op, len, frames, terminal,
                   bypass, inbox>>

ReadData(n) ==
    /\ Polls({"read"}) /\ Permit /\ inbox[cur] > 0
    /\ inbox' = [inbox EXCEPT ![cur] = @ - 1]
    /\ len' = [len EXCEPT ![cur] = n]
    /\ op' = [op EXCEPT ![cur] = "copyWire"]
    /\ GoesOn
    /\ UNCHANGED <<pollFrame, used, chan, flags, events, ready, frames, terminal,
                   bypass>>

ReadEnd ==
    /\ Polls({"read"}) /\ Permit /\ inbox[cur] = 0 /\ eof[cur]
    /\ op' = [op EXCEPT ![cur] = "ended"]
    /\ GoesOn
    /\ UNCHANGED <<pollFrame, used, chan, flags, events, ready, len, frames,
                   terminal, bypass, inbox>>

\* WouldBlock parks the task; Interrupted lets it try again later.
ReadBlocks ==
    /\ Polls({"read"}) /\ Permit /\ inbox[cur] = 0 /\ ~eof[cur]
    /\ ready' = Park(ready, cur, "Kernel")
    /\ Pending
    /\ UNCHANGED <<pollFrame, used, chan, flags, events, op, len, frames,
                   terminal, bypass, inbox>>

ReadInterrupted ==
    /\ Interrupts /\ Polls({"read"}) /\ Permit
    /\ SelfWake
    /\ UNCHANGED <<pollFrame, used, chan, flags, op, len, frames, terminal,
                   bypass, inbox>>

\* An operation on x completes: its Request drops and the next one resumes.
\* Every other task registered for x has been passed once more.
Completes(r, x, published) ==
    /\ ready' = FinishRequest(r, cur, x)
    /\ events' = IF published \/ Resumes(r, cur, x) THEN events \cup {CONTROL} ELSE events
    /\ bypass' = [t \in Token |->
                    IF t = cur THEN 0
                    ELSE IF t \in Members(r.requests[x]) THEN bypass[t] + 1
                    ELSE bypass[t]]

Waits(r, x) ==
    /\ ready' = Park(r, cur, x)
    /\ Pending
    /\ UNCHANGED <<events, bypass>>

AfterCopy(o) == CASE o = "copyWire" -> "wire"
                  [] o = "copyAudio" -> "audio"
                  [] o = "copyPeer" -> "ended"

\* TaskContext::copy.  A payload larger than the account is refused: for audio
\* `observe` still reports success, for the others the task is ending.
Copy ==
    /\ Polls(CopyOps) /\ Permit
    /\ LET r == RequestTurn(ready, cur, "Bytes") IN
       \/ /\ len[cur] > capacity
          /\ op' = [op EXCEPT ![cur] = IF @ = "copyAudio" THEN "refused" ELSE "ended"]
          /\ len' = [len EXCEPT ![cur] = 0]
          /\ GoesOn /\ UNCHANGED <<used, events, ready, bypass>>
       \/ /\ IsHead(r, cur, "Bytes") /\ len[cur] <= capacity - used
          /\ used' = used + len[cur]
          /\ op' = [op EXCEPT ![cur] = AfterCopy(@)]
          /\ Completes(r, "Bytes", FALSE)
          /\ GoesOn /\ UNCHANGED len
       \/ /\ len[cur] <= capacity
          /\ ~IsHead(r, cur, "Bytes") \/ len[cur] > capacity - used
          /\ Waits(r, "Bytes")
          /\ UNCHANGED <<used, op, len>>
    /\ UNCHANGED <<pollFrame, chan, flags, frames, terminal, inbox>>

AfterSend(o) == CASE o = "connected" -> {"read"}
                  [] o = "wire" -> {"decode"}
                  [] o \in {"event", "audio", "refused"} -> {"decode", "read"}
                  [] o = "ended" -> {"done"}

SendOk(r) ==
    /\ chan' = Append(chan, len[cur])
    /\ terminal' = IF op[cur] \in {"ended", "refused"} THEN terminal \cup {cur} ELSE terminal
    /\ len' = [len EXCEPT ![cur] = 0]
    /\ \E o \in AfterSend(op[cur]) : op' = [op EXCEPT ![cur] = o]
    /\ Completes(r, "Queue", FALSE)
    /\ IF op[cur] = "ended" THEN Returns ELSE GoesOn
    /\ UNCHANGED <<used, flags>>

MutRefusedKeepsCharge(r) ==
    /\ len' = [len EXCEPT ![cur] = 0]
    /\ op' = [op EXCEPT ![cur] = "done"]
    /\ Completes(r, "Queue", FALSE)
    /\ Returns
    /\ UNCHANGED <<used, flags, chan, terminal>>

\* The refused record, and the payload it owns, is dropped with the error; the
\* task returns with the record still counted as pending.
SendDisconnected(r) ==
    /\ used' = used - len[cur]
    /\ flags' = IF len[cur] > 0 THEN flags \cup {"Bytes"} ELSE flags
    /\ len' = [len EXCEPT ![cur] = 0]
    /\ op' = [op EXCEPT ![cur] = "done"]
    /\ Completes(r, "Queue", len[cur] > 0)
    /\ Returns
    /\ UNCHANGED <<chan, terminal>>

\* TaskContext::send.
Send ==
    /\ Polls(SendOps) /\ Permit
    /\ LET r == RequestTurn(ready, cur, "Queue")
           head == IsHead(r, cur, "Queue")
       IN  \/ head /\ consumer = "alive" /\ Len(chan) < ChanCap /\ SendOk(r)
           \/ head /\ consumer # "alive" /\ SendDisconnected(r)
           \/ /\ ~head \/ (consumer = "alive" /\ Len(chan) >= ChanCap)
              /\ Waits(r, "Queue")
              /\ UNCHANGED <<used, chan, flags, op, len, terminal>>
    /\ UNCHANGED <<pollFrame, frames, inbox>>

decodeFrame == <<pollFrame, used, chan, flags, events, ready, terminal, bypass, inbox>>

\* decode_chunk: the decoder wants more input, rejects it, or has a frame.
Decode ==
    /\ Polls({"decode"}) /\ Permit
    /\ \/ \E o \in {"read", "ended"} : op' = [op EXCEPT ![cur] = o] /\ UNCHANGED frames
       \/ /\ frames[cur] < MaxFrames
          /\ frames' = [frames EXCEPT ![cur] = @ + 1]
          /\ op' = [op EXCEPT ![cur] = "frame"]
    /\ GoesOn
    /\ UNCHANGED <<decodeFrame, len>>

\* The frame is a small event, an invalid, rejected or terminating message, or
\* has a payload, perhaps empty, that must first be copied.
Frame ==
    /\ Polls({"frame"}) /\ Permit
    /\ \/ \E o \in {"event", "ended"} : op' = [op EXCEPT ![cur] = o] /\ UNCHANGED len
       \/ \E o \in {"copyAudio", "copyPeer"}, n \in Size \cup {0} :
             op' = [op EXCEPT ![cur] = o] /\ len' = [len EXCEPT ![cur] = n]
    /\ GoesOn
    /\ UNCHANGED <<decodeFrame, frames>>

Poll ==
    \/ Yield \/ ReadEnd \/ ReadBlocks \/ ReadInterrupted \/ Copy \/ Send
    \/ Decode \/ Frame \/ \E n \in Size : ReadData(n)

-----------------------------------------------------------------------------
(* drive, as far as it moves tasks and credits.                            *)

driveFrame == <<capacity, chan, app, net, len, frames, terminal, bypass>>

MutBindAnyBudget ==
    /\ pc = "bind"
    /\ pc' = "admit"
    /\ UNCHANGED <<driveFrame, used, flags, events, batch, left, cur, remaining,
                   retiring, ready, op>>

\* bind_with_profile refuses a budget that cannot hold one payload.
Bind ==
    /\ pc = "bind"
    /\ pc' = IF capacity >= MaxLen THEN "admit" ELSE "unbound"
    /\ UNCHANGED <<driveFrame, used, flags, events, batch, left, cur, remaining,
                   retiring, ready, op>>

\* admit: a new task is runnable at once, at its first send.
Admit ==
    /\ pc = "admit"
    /\ IF Live = Token THEN pc' = "top" /\ UNCHANGED <<ready, op>>
       ELSE \E t \in Token \ Live :
              /\ \A u \in Token \ Live : t <= u
              /\ ready' = Insert(ready, t)
              /\ op' = [op EXCEPT ![t] = "connected"]
              /\ UNCHANGED pc
    /\ UNCHANGED <<driveFrame, used, flags, events, batch, left, cur, remaining,
                   retiring>>

Stopping == "Disconnected" \in flags

\* The stop checks of drive, at its top and after the requests have been
\* served; a stop retires every task.
CheckStop ==
    /\ pc \in {"top", "closed"}
    /\ IF Stopping THEN pc' = "shutdown" /\ retiring' = Live
       ELSE pc' = (IF pc = "top" THEN "collect" ELSE "poll") /\ UNCHANGED retiring
    /\ UNCHANGED <<driveFrame, used, flags, events, batch, left, cur, remaining,
                   ready, op>>

\* retire_requested, before run_ready and after it.
Collect ==
    /\ pc \in {"collect", "after"}
    /\ pc' = IF pc = "collect" THEN "retire" ELSE "closing"
    /\ retiring' = Live \cap requested
    /\ UNCHANGED <<driveFrame, used, flags, events, batch, left, cur, remaining,
                   ready, op>>

\* A payload that waits in send() is charged; one that waits in copy() is not.
Charged(t) == IF op[t] \in SendOps THEN len[t] ELSE 0

\* retire_with: the scheduler forgets the task and resumes who it blocked;
\* then the future is dropped with the payload and the socket it owns.
RetireTask ==
    /\ pc \in {"retire", "closing", "ended", "shutdown"} /\ retiring # {}
    /\ \E t \in retiring :
           /\ \A u \in retiring : t <= u
           /\ retiring' = retiring \ {t}
           /\ ready' = Retire(ready, t)
           /\ op' = [op EXCEPT ![t] = "none"] /\ len' = [len EXCEPT ![t] = 0]
           /\ frames' = [frames EXCEPT ![t] = 0]
           /\ terminal' = terminal \ {t}
           /\ bypass' = [bypass EXCEPT ![t] = 0]
           /\ inbox' = [inbox EXCEPT ![t] = 0] /\ sent' = [sent EXCEPT ![t] = 0]
           /\ eof' = [eof EXCEPT ![t] = FALSE]
           /\ used' = used - Charged(t)
           /\ flags' = IF Charged(t) > 0 THEN flags \cup {"Bytes"} ELSE flags
           /\ events' = (events \ {t}) \cup
                 IF Charged(t) > 0 \/ RetireResumes(ready, t) THEN {CONTROL} ELSE {}
           /\ requested' = requested \ {t}
    /\ UNCHANGED <<capacity, chan, consumer, held, pub, batch, pc, left, cur,
                   remaining>>

Retired ==
    /\ pc \in {"retire", "closing", "ended", "shutdown"} /\ retiring = {}
    /\ pc' = CASE pc = "retire" -> "queue" [] pc = "closing" -> "closed"
               [] pc = "ended" -> "run" [] pc = "shutdown" -> "done"
    /\ UNCHANGED <<driveFrame, used, flags, events, batch, left, cur, remaining,
                   retiring, ready, op>>

\* take_queue_credit / take_byte_credit, each followed by resume_credit.
TakeCredit(x, where, then, polls) ==
    /\ pc = where
    /\ flags' = flags \ {x}
    /\ ready' = IF x \in flags THEN ResumeCredit(ready, x) ELSE ready
    /\ pc' = then /\ left' = polls
    /\ UNCHANGED <<driveFrame, used, events, batch, cur, remaining, retiring, op>>

TakeQueueCredit == TakeCredit("Queue", "queue", "bytes", 0)
TakeByteCredit == TakeCredit("Bytes", "bytes", "run", TurnBatch)

\* run_ready starts a poll, or leaves its loop.
RunReady ==
    /\ pc = "run"
    /\ IF ~Stopping /\ left > 0 /\ HasReady(ready)
       THEN /\ ready' = Take(ready) /\ cur' = ready.queue[1]
            /\ left' = left - 1 /\ remaining' = TurnSteps
            /\ pc' = "task"
       ELSE pc' = "after" /\ left' = 0 /\ UNCHANGED <<ready, cur, remaining>>
    /\ UNCHANGED <<driveFrame, used, flags, events, batch, retiring, op>>

\* poll returns for queued work, for an event, or after STOP_RECHECK.
PollReturns ==
    /\ pc = "poll" /\ (Recheck \/ HasReady(ready) \/ events # {})
    /\ batch' = events /\ events' = {}
    /\ pc' = "events"
    /\ UNCHANGED <<driveFrame, used, flags, left, cur, remaining, retiring, ready, op>>

HandleEvents ==
    /\ pc = "events"
    /\ IF batch = {} THEN pc' = "top" /\ UNCHANGED <<batch, ready>>
       ELSE \E e \in batch :
              /\ batch' = batch \ {e}
              /\ ready' = IF e \in Token THEN IoReady(ready, e) ELSE ready
              /\ UNCHANGED pc
    /\ UNCHANGED <<driveFrame, used, flags, events, left, cur, remaining,
                   retiring, op>>

Drive ==
    \/ Bind \/ Admit \/ CheckStop \/ Collect \/ RetireTask \/ Retired
    \/ TakeQueueCredit \/ TakeByteCredit \/ RunReady \/ Poll \/ PollReturns \/ HandleEvents

\* The worker has returned; the process may end here.
Terminated == pc \in {"unbound", "done"} /\ UNCHANGED vars

Next == Drive \/ Consume \/ Outside \/ Terminated

Spec == Init /\ [][Next]_vars

\* The worker has a thread of its own; the consumer keeps receiving, keeps
\* dropping payloads, and finishes a publish it began.
FairSpec == Spec /\ WF_vars(Drive) /\ WF_vars(Consume)

-----------------------------------------------------------------------------
(* Properties.                                                             *)

Positions == {"bind", "admit", "unbound", "top", "collect", "retire", "queue", "bytes",
              "run", "task", "ended", "after", "closing", "closed", "poll", "events",
              "shutdown", "done"}

\* Every variable keeps the shape of the Rust type it stands for.
TypeOK ==
    /\ capacity \in Nat /\ used \in Int
    /\ chan \in Seq(Nat)
    /\ consumer \in {"alive", "draining", "gone"}
    /\ held \in [Size -> Int]
    /\ flags \subseteq Signal
    /\ pub \in {"idle", "wake"} \cup Signal
    /\ events \subseteq Token \cup {CONTROL}
    /\ batch \subseteq Token \cup {CONTROL}
    /\ pc \in Positions
    /\ left \in Nat /\ remaining \in Nat
    /\ cur \in Token \cup {CONTROL}
    /\ retiring \subseteq Token /\ requested \subseteq Token
    /\ ready \in ReadyType
    /\ op \in [Token -> Ops] /\ len \in [Token -> Nat]
    /\ frames \in [Token -> Nat] /\ bypass \in [Token -> Nat]
    /\ terminal \subseteq Token
    /\ inbox \in [Token -> Nat] /\ sent \in [Token -> Nat]
    /\ eof \in [Token -> BOOLEAN]

\* Ready: the runnable FIFO holds exactly the Queued and Notified tasks, once
\* each, and a task that waits for a resource is registered for it, so that
\* a credit can find it.
SchedulerConsistent ==
    /\ Members(ready.queue) = Runnable(ready)
    /\ Len(ready.queue) = Cardinality(Runnable(ready))
    /\ \A x \in Resource :
          /\ Members(ready.requests[x]) \subseteq Live
          /\ Len(ready.requests[x]) = Cardinality(Members(ready.requests[x]))
          /\ {t \in Token : ready.states[t] = x} \subseteq Members(ready.requests[x])
    /\ Present(ready) = Live

\* The assertions and `expect`s of scheduler.rs and run_ready that guard the
\* next worker step: a free runnable slot whenever enqueue could insert, a live
\* task behind every runnable token, and no poll that ends Pending while its
\* task is still marked Running.
AssertionsHold ==
    /\ \A t \in Token : Enqueues(ready, t) => Len(ready.queue) < MaxConnections
    /\ Members(ready.queue) \subseteq Live
    /\ pc = "task" => cur \in Live
    /\ retiring \subseteq Live
    /\ \A t \in Token : ready.states[t] = "Running" =>
          (pc = "task" /\ cur = t) \/ t \in retiring

\* The oldest waiter for x sleeps although it could complete right now.
CreditDue(x) ==
    /\ ready.requests[x] # <<>>
    /\ ready.states[ready.requests[x][1]] = x
    /\ IF x = "Queue" THEN consumer = "alive" /\ Len(chan) < ChanCap
       ELSE len[ready.requests[x][1]] <= capacity - used

\* No lost credit.  Credits are booleans shared by all waiters, so one credit
\* may stand for many free slots: still, when the oldest waiter sleeps while
\* the resource it needs is free, the credit that will wake it is raised, or
\* the thread that freed the resource is about to raise it.
NoLostCredit == \A x \in Resource : CreditDue(x) => x \in flags \/ pub = x

\* No lost readiness.  Readiness is edge-triggered and io_ready drops it for a
\* task that is not waiting for the kernel: still, a task that does wait while
\* its socket is readable has an event on its way.
NoLostReadiness ==
    \A t \in Token : (ready.states[t] = "Kernel" /\ (inbox[t] > 0 \/ eof[t]))
                     => t \in events \cup batch

\* No credit waits for the 100 ms recheck: when the worker is about to block
\* with a flag raised, the poller has been woken, or will be by the consumer
\* inside publish.
NoSilentSignal ==
    pc = "poll" /\ flags # {} => CONTROL \in events \/ pub = "wake"

\* FIFO admission: while a task is registered for a resource, every other
\* connection completes at most one operation on it ahead of it.
BoundedBypass == \A t \in Token : bypass[t] <= MaxConnections - 1

HeldBytes == SumFunctionOnSet([n \in Size |-> n * held[n]], Size)
QueuedBytes == SumFunctionOnSet(chan, DOMAIN chan)
OwnedBytes == SumFunctionOnSet([t \in Token |-> Charged(t)], Token)

\* Every charged byte has one owner: the consumer, a queued record or a sending
\* task; and the budget is never exceeded.
RetainedAccounted ==
    used = HeldBytes + QueuedBytes + OwnedBytes /\ used <= capacity

\* A connection's Ended record is its last: once it is queued the task never
\* sends, copies or reads again.
EndedIsLast == \A t \in terminal : op[t] = "done"

\* With a consumer that keeps up, a connection whose peer closed is retired: no
\* wait for the kernel, for bytes or for a slot lasts for ever, and none
\* depends on the 100 ms recheck.
ClosedPeerRetires == \A t \in Token : eof[t] ~> (t \notin Live)
=============================================================================
