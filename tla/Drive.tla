------------------------------- MODULE Drive -------------------------------
(***************************************************************************)
(* The life of one receiver run: run_with and the worker loop `drive`      *)
(* (driver.rs), the signals that reach it from other threads               *)
(* (scheduler.rs), the scoped-close table with its tickets, the listener   *)
(* with its accept errors, retirement, and the run summary.                *)
(*                                                                         *)
(* What tasks wait for inside a poll is the subject of module Tasks.  Here *)
(* a task is the stage it has reached between two records, and whether a   *)
(* send finds a free slot is left open.  The records of decoded frames are *)
(* left out: they carry no raw bytes and their send is like any other.     *)
(*                                                                         *)
(* Grain of atomicity.  Only the worker changes its own state and the      *)
(* tasks, so one worker step makes at most one access to state that other  *)
(* threads share: the failure slot, the flags, the close table, the        *)
(* channel.  The other threads take one step per access.                   *)
(***************************************************************************)
EXTENDS Integers, FiniteSets, FiniteSetsExt

CONSTANTS MaxConnections,  \* Limits::max_connections
          TokenMax,        \* usize::MAX, where token allocation ends
          CounterMax,      \* the largest value of a summary or task counter
          TurnBatch,       \* TURN_BATCH: polls in one run_ready
          AcceptBatch,     \* turn_steps.min(EVENT_BATCH): accepts in one turn
          MaxArrivals,     \* bound: connections that arrive
          MaxChunks,       \* bound: reads a peer provides
          MaxFaults,       \* bound: kernel faults in a behaviour
          Calls,           \* calls the application makes: "stop", "drop", "close"
          Recheck          \* TRUE: poll also returns after STOP_RECHECK

LISTENER == 0
CONTROL == 1
FIRST_CONNECTION == 2

ASSUME DriveConstants ==
    /\ {MaxConnections, CounterMax, TurnBatch, AcceptBatch} \subseteq Nat \ {0}
    /\ TokenMax \in Nat /\ TokenMax >= FIRST_CONNECTION
    /\ {MaxArrivals, MaxChunks, MaxFaults} \subseteq Nat
    /\ Calls \subseteq {"stop", "drop", "close"}
    /\ Recheck \in BOOLEAN

Token == FIRST_CONNECTION..(TokenMax - 1)
Thread == {"stopper", "closer", "consumer"}
Signal == {"Stop", "Control", "Disconnected"}
StopCauses == {"Requested", "ConsumerDisconnected"}
Failures == {"Io", "TokenExhausted", "CounterExhausted"}
CloseResult == {"RetiredByRequest", "ConnectionEnded", "ReceiverStopped"}

\* A record is pending in the stages "connected", "wire" and "ended", and stays
\* so in "lost", where its send failed; "done" has queued the terminal record.
PendingStages == {"connected", "wire", "ended", "lost"}
Stages == {"none", "new", "read", "copy", "done"} \cup PendingStages

VARIABLES
    flags, failure,        \* Signals: raised flags, remembered wake failure
    pub,                   \* what each thread has still to do of a publish
    events, batch,         \* readiness not yet returned, not yet handled
    pc, back,              \* position in drive, and where a retirement returns
    left, progressed,      \* loop locals of run_ready and accept_ready
    cur,                   \* the token being polled or retired
    todo, retiring, why,   \* a retirement pass: unexamined, to retire, result
    outcome,               \* what drive returned
    stage, read, wire,     \* each task's position and Progress counters
    overflow,              \* tokens with Progress::counter_overflow
    progress,              \* retire_with's copy of a dropped task's progress
    runnable,              \* tokens the scheduler would take
    listener_ready, paused, next,
    backlog, arrivals,     \* the kernel's accept queue
    entries,               \* ControlState::entries: none, open or requested
    stopping, result,      \* ControlState::stopping, CloseState::result
    held,                  \* entries taken out of the table and not yet answered
    tickets,               \* tokens for which close returned a ticket
    consumer,              \* "alive" or "gone"
    faults,
    summary, complete,     \* RunSummary, counters_complete
    channel,               \* history: what the channel accepted of each connection
    completed              \* history: tasks whose future returned Ready

signals == <<flags, failure, pub>>
poller == <<events, batch>>
pass == <<todo, retiring, why, back>>
turn == <<left, progressed, cur>>
tasks == <<stage, read, wire, overflow, progress, runnable>>
listen == <<listener_ready, paused, next, backlog, arrivals>>
control == <<entries, stopping, result, held, tickets>>
account == <<summary, complete>>
history == <<channel, completed>>
vars == <<signals, poller, pc, pass, turn, outcome, tasks, listen, control,
          consumer, faults, account, history>>

NoProgress == [stage |-> "none", read |-> 0, wire |-> 0, overflow |-> FALSE]

Live == {t \in Token : stage[t] # "none"}
Attached == pc \notin {"start", "unstarted", "done"}

Init ==
    /\ flags = {} /\ failure = FALSE /\ pub = [th \in Thread |-> "idle"]
    /\ events = {} /\ batch = {}
    /\ pc = "start" /\ back = "top" /\ left = 0 /\ progressed = FALSE
    /\ cur = CONTROL /\ todo = {} /\ retiring = {} /\ why = "ConnectionEnded"
    /\ outcome = "none"
    /\ stage = [t \in Token |-> "none"]
    /\ read = [t \in Token |-> 0] /\ wire = [t \in Token |-> 0]
    /\ overflow = {} /\ progress = NoProgress /\ runnable = {}
    /\ listener_ready = TRUE /\ paused = FALSE /\ next = FIRST_CONNECTION
    /\ backlog = 0 /\ arrivals = 0
    /\ entries = [t \in Token |-> "none"] /\ stopping = FALSE
    /\ result = [t \in Token |-> "none"] /\ held = {} /\ tickets = {}
    /\ consumer = "alive" /\ faults = 0
    /\ summary = [accepted |-> 0, refused |-> 0, ended |-> 0, abandoned |-> 0,
                  closed |-> 0, live |-> 0, read |-> 0, handed |-> 0,
                  undelivered |-> 0, transient |-> 0, pauses |-> 0, backoffs |-> 0]
    /\ complete = TRUE
    /\ channel = [t \in Token |-> [conn |-> "none", wire |-> 0]] /\ completed = {}

-----------------------------------------------------------------------------
(* Signals: publish and request, from any thread but the worker.           *)

otherThread == <<batch, pc, pass, turn, outcome, tasks, account, history>>

MutRaiseSilently(th) ==
    /\ pub[th] \in Signal
    /\ flags' = flags \cup {pub[th]}
    /\ pub' = [pub EXCEPT ![th] = "idle"]
    /\ UNCHANGED <<otherThread, failure, events, listen, control, consumer, faults>>
Raise(th) ==
    /\ pub[th] \in Signal
    /\ flags' = flags \cup {pub[th]}
    /\ pub' = [pub EXCEPT ![th] = "wake"]
    /\ UNCHANGED <<otherThread, failure, events, listen, control, consumer, faults>>

MutForgetFailure(th) ==
    /\ pub[th] = "wake"
    /\ pub' = [pub EXCEPT ![th] = "idle"]
    /\ \/ /\ events' = IF Attached THEN events \cup {CONTROL} ELSE events
          /\ UNCHANGED faults
       \/ /\ Attached /\ faults < MaxFaults
          /\ faults' = faults + 1
          /\ UNCHANGED events
    /\ UNCHANGED <<otherThread, flags, failure, listen, control, consumer>>

\* Without an attached worker `notify` finds no waker and succeeds; a failed
\* wake is remembered for the worker.
Wake(th) ==
    /\ pub[th] = "wake"
    /\ pub' = [pub EXCEPT ![th] = "idle"]
    /\ \/ /\ events' = IF Attached THEN events \cup {CONTROL} ELSE events
          /\ UNCHANGED <<failure, faults>>
       \/ /\ Attached /\ faults < MaxFaults
          /\ failure' = TRUE /\ faults' = faults + 1
          /\ UNCHANGED events
    /\ UNCHANGED <<otherThread, flags, listen, control, consumer>>

\* StopHandle::stop, or its drop.
Stop ==
    /\ "stop" \in Calls /\ pub["stopper"] = "idle" /\ "Stop" \notin flags
    /\ pub' = [pub EXCEPT !["stopper"] = "Stop"]
    /\ UNCHANGED <<otherThread, flags, failure, events, listen, control, consumer,
                   faults>>

\* Records::drop: the channel is closed before the signal is published.
DropRecords ==
    /\ "drop" \in Calls /\ consumer = "alive"
    /\ consumer' = "gone"
    /\ pub' = [pub EXCEPT !["consumer"] = "Disconnected"]
    /\ UNCHANGED <<otherThread, flags, failure, events, listen, control, faults>>

\* ConnectionControlHandle::close returning a ticket; its refusals (a foreign
\* or stale identity, a stopping receiver) change nothing.
Close(t) ==
    /\ "close" \in Calls /\ pub["closer"] = "idle"
    /\ ~stopping /\ entries[t] # "none"
    /\ entries' = [entries EXCEPT ![t] = "requested"]
    /\ tickets' = tickets \cup {t}
    /\ pub' = [pub EXCEPT !["closer"] = "Control"]
    /\ UNCHANGED <<otherThread, flags, failure, events, listen, stopping, result,
                   held, consumer, faults>>

Publish == \E th \in Thread : Raise(th) \/ Wake(th)
Application == Stop \/ DropRecords \/ \E t \in Token : Close(t)

-----------------------------------------------------------------------------
(* The kernel: connections arrive, tasks become ready, time passes.        *)

kernelFrame == <<otherThread, signals, listener_ready, next, control, consumer, faults>>

Arrive ==
    /\ Attached /\ arrivals < MaxArrivals
    /\ arrivals' = arrivals + 1 /\ backlog' = backlog + 1
    /\ events' = events \cup {LISTENER}
    /\ UNCHANGED <<kernelFrame, paused>>

\* A socket event or a credit that makes a parked task runnable again.
TaskReady(t) ==
    /\ t \in Live
    /\ events' = events \cup {t}
    /\ UNCHANGED <<kernelFrame, paused, backlog, arrivals>>

\* accept_delay has become zero.
PauseElapses ==
    /\ paused
    /\ paused' = FALSE
    /\ UNCHANGED <<kernelFrame, events, backlog, arrivals>>

Kernel == Arrive \/ PauseElapses \/ \E t \in Token : TaskReady(t)

-----------------------------------------------------------------------------
(* drive: checks and signals.                                              *)

StopCause ==
    IF "Disconnected" \in flags THEN "ConsumerDisconnected"
    ELSE IF "Stop" \in flags THEN "Requested" ELSE "none"

\* drive returns: run_with notes the failure and the connections still live.
Leaves(cause) ==
    /\ pc' = "shutdown" /\ outcome' = cause
    /\ summary' = [summary EXCEPT !.live = Cardinality(Live)]
    /\ complete' = (complete /\ cause # "CounterExhausted")

\* One of the worker's own counters is incremented; drive ends if it cannot be.
Count(f, then) ==
    IF summary[f] < CounterMax
    THEN /\ pc' = then /\ summary' = [summary EXCEPT ![f] = @ + 1]
         /\ UNCHANGED <<outcome, complete>>
    ELSE Leaves("CounterExhausted")

worker == <<pub, events, batch, backlog, arrivals, tickets, consumer>>

\* run_with: attach the waker and subscribe to the budget, which another
\* active worker may hold.
Start ==
    /\ pc = "start"
    /\ \/ pc' = "top" /\ UNCHANGED faults
       \/ pc' = "unstarted" /\ faults < MaxFaults /\ faults' = faults + 1
    /\ UNCHANGED <<worker, flags, failure, pass, turn, outcome, tasks,
                   listener_ready, paused, next, entries, stopping, result, held, account,
                   history>>

loopFrame == <<worker, turn, tasks, listener_ready, paused, next, entries, stopping,
               result, held, faults, history>>

TakeFailure ==
    /\ pc = "top"
    /\ failure' = FALSE
    /\ IF failure THEN Leaves("Io") ELSE pc' = "stop1" /\ UNCHANGED <<outcome, account>>
    /\ UNCHANGED <<loopFrame, flags, pass>>

\* A pass of retire_requested starts with every live task unexamined.
StartsPass(then) == pc' = "scan" /\ todo' = Live /\ back' = then

\* The stop checks: before the signals are taken, and after run_ready.
CheckStop ==
    /\ pc \in {"stop1", "stop2"}
    /\ IF StopCause # "none" THEN Leaves(StopCause) /\ UNCHANGED <<todo, back>>
       ELSE /\ UNCHANGED <<outcome, account>>
            /\ IF pc = "stop1" THEN StartsPass("control")
               ELSE pc' = "accept" /\ UNCHANGED <<todo, back>>
    /\ UNCHANGED <<loopFrame, flags, failure, retiring, why>>

TakeControl ==
    /\ pc = "control"
    /\ flags' = flags \ {"Control"}
    /\ IF "Control" \in flags THEN StartsPass("signals")
       ELSE pc' = "signals" /\ UNCHANGED <<todo, back>>
    /\ UNCHANGED <<loopFrame, failure, retiring, why, outcome, account>>

\* The credits (module Tasks) are taken; run_ready begins.
TakeCredits ==
    /\ pc = "signals"
    /\ pc' = "run" /\ left' = TurnBatch
    /\ UNCHANGED <<worker, flags, failure, pass, progressed, cur, outcome, tasks,
                   listener_ready, paused, next, entries, stopping, result, held,
                   faults, account, history>>

-----------------------------------------------------------------------------
(* run_ready and the polls it makes.                                       *)

MutRunReadyDrains ==
    /\ pc = "run"
    /\ IF runnable # {}
       THEN /\ \E t \in runnable : cur' = t /\ runnable' = runnable \ {t}
            /\ pc' = "task" /\ UNCHANGED <<left, todo, back>>
       ELSE left' = 0 /\ StartsPass("stop2") /\ UNCHANGED <<cur, runnable>>
    /\ UNCHANGED <<worker, flags, failure, retiring, why, progressed, outcome,
                   stage, read, wire, overflow, progress, listener_ready, paused, next,
                   entries, stopping, result, held, faults, account, history>>

RunReady ==
    /\ pc = "run"
    /\ IF StopCause = "none" /\ left > 0 /\ runnable # {}
       THEN /\ \E t \in runnable : cur' = t /\ runnable' = runnable \ {t}
            /\ left' = left - 1 /\ pc' = "task" /\ UNCHANGED <<todo, back>>
       ELSE left' = 0 /\ StartsPass("stop2") /\ UNCHANGED <<cur, runnable>>
    /\ UNCHANGED <<worker, flags, failure, retiring, why, progressed, outcome,
                   stage, read, wire, overflow, progress, listener_ready, paused, next,
                   entries, stopping, result, held, faults, account, history>>

taskFrame == <<worker, progress, flags, failure, pass, left, progressed, outcome,
               listener_ready, paused, next, entries, stopping, result, held, faults,
               account>>

\* The task's own work: its first poll, a read and its copy, the end of input.
\* observe_read cannot count a chunk beyond the counter's range.
TaskWorks ==
    /\ pc = "task"
    /\ \/ /\ stage[cur] = "new"
          /\ stage' = [stage EXCEPT ![cur] = "connected"] /\ UNCHANGED <<read, overflow>>
       \/ /\ stage[cur] = "read" /\ read[cur] < MaxChunks
          /\ IF read[cur] < CounterMax
             THEN /\ read' = [read EXCEPT ![cur] = @ + 1]
                  /\ stage' = [stage EXCEPT ![cur] = "copy"] /\ UNCHANGED overflow
             ELSE /\ overflow' = overflow \cup {cur}
                  /\ stage' = [stage EXCEPT ![cur] = "ended"] /\ UNCHANGED read
       \/ /\ stage[cur] = "copy"
          /\ stage' = [stage EXCEPT ![cur] = "wire"] /\ UNCHANGED <<read, overflow>>
       \/ /\ stage[cur] = "read"
          /\ stage' = [stage EXCEPT ![cur] = "ended"] /\ UNCHANGED <<read, overflow>>
    /\ UNCHANGED <<taskFrame, pc, cur, wire, runnable, history>>

\* send: the record enters the channel, or the channel is disconnected.
TaskSends ==
    /\ pc = "task" /\ stage[cur] \in {"connected", "wire", "ended"}
    /\ IF consumer = "alive"
       THEN /\ stage' = [stage EXCEPT ![cur] = IF @ = "ended" THEN "done" ELSE "read"]
            /\ wire' = [wire EXCEPT ![cur] = IF stage[cur] = "wire" THEN @ + 1 ELSE @]
            /\ channel' = [channel EXCEPT
                   ![cur].wire = IF stage[cur] = "wire" THEN @ + 1 ELSE @,
                   ![cur].conn = IF stage[cur] = "ended" THEN "ended" ELSE "open"]
       ELSE stage' = [stage EXCEPT ![cur] = "lost"] /\ UNCHANGED <<wire, channel>>
    /\ UNCHANGED <<taskFrame, pc, cur, read, overflow, runnable, completed>>

\* poll returned: an overflow ends drive, a completed task is retired, a
\* pending one is runnable again or parked.
PollReturned ==
    /\ pc = "task" /\ stage[cur] # "new"
    /\ cur' = CONTROL
    /\ completed' = IF stage[cur] \in {"done", "lost"} THEN completed \cup {cur}
                                                      ELSE completed
    /\ IF cur \in overflow
       THEN Leaves("CounterExhausted") /\ UNCHANGED <<pass, runnable>>
       ELSE /\ UNCHANGED <<outcome, account, todo>>
            /\ IF stage[cur] \in {"done", "lost"}
               THEN /\ pc' = "retire" /\ retiring' = {cur}
                    /\ why' = "ConnectionEnded" /\ back' = "run"
                    /\ UNCHANGED runnable
               ELSE /\ pc' = "run" /\ runnable' \in {runnable, runnable \cup {cur}}
                    /\ UNCHANGED <<retiring, why, back>>
    /\ UNCHANGED <<worker, flags, failure, left, progressed, stage, read, wire,
                   overflow, progress, listener_ready, paused, next, entries, stopping,
                   result, held, faults, channel>>

-----------------------------------------------------------------------------
(* Retirement: retire_requested, retire_all and retire_with.               *)

retireFrame == <<worker, flags, failure, left, progressed, listener_ready, paused,
                 next, stopping, faults, history>>

MutScanForgets ==
    /\ pc = "scan"
    /\ pc' = "retire" /\ todo' = {} /\ retiring' = {} /\ why' = "RetiredByRequest"
    /\ UNCHANGED <<retireFrame, cur, outcome, tasks, entries, result, held, account,
                   back>>

\* retire_requested asks the close table about one live task after the other.
Scan ==
    /\ pc = "scan"
    /\ IF todo = {} THEN pc' = "retire" /\ why' = "RetiredByRequest"
                         /\ UNCHANGED <<todo, retiring>>
       ELSE \E t \in todo :
              /\ \A u \in todo : t <= u
              /\ todo' = todo \ {t}
              /\ retiring' = IF entries[t] = "requested" THEN retiring \cup {t} ELSE retiring
              /\ UNCHANGED <<pc, why>>
    /\ UNCHANGED <<retireFrame, cur, outcome, tasks, entries, result, held, account,
                   back>>

\* retire_all, once drive has returned.
RetireAll ==
    /\ pc = "shutdown"
    /\ pc' = "retire" /\ retiring' = Live /\ todo' = {}
    /\ why' = "ReceiverStopped" /\ back' = "stopAll"
    /\ UNCHANGED <<retireFrame, cur, outcome, tasks, entries, result, held, account>>

\* The first half of retire_with: the scheduler forgets the task, and the
\* task is removed and dropped.  What it leaves is its progress.
DropTask ==
    /\ pc = "retire" /\ retiring # {}
    /\ \E t \in retiring :
          /\ \A u \in retiring : t <= u
          /\ cur' = t /\ retiring' = retiring \ {t}
          /\ progress' = [stage |-> stage[t], read |-> read[t], wire |-> wire[t],
                          overflow |-> t \in overflow]
          /\ stage' = [stage EXCEPT ![t] = "none"]
          /\ read' = [read EXCEPT ![t] = 0] /\ wire' = [wire EXCEPT ![t] = 0]
          /\ overflow' = overflow \ {t} /\ runnable' = runnable \ {t}
          /\ events' = events \ {t}
          /\ channel' = [channel EXCEPT ![t].conn = IF @ = "ended" THEN @ ELSE "dropped"]
    /\ pc' = "unlist"
    /\ UNCHANGED <<pub, batch, backlog, arrivals, tickets, consumer, flags, failure,
                   left, progressed, listener_ready, paused, next, stopping, faults,
                   completed, outcome, entries, result, held, account, todo, why,
                   back>>

\* The first lock of controls.finish: the entry is taken out of the table.
Unlist ==
    /\ pc = "unlist"
    /\ pc' = "finish"
    /\ held' = IF entries[cur] = "none" THEN {} ELSE {cur}
    /\ entries' = [entries EXCEPT ![cur] = "none"]
    /\ UNCHANGED <<retireFrame, cur, outcome, tasks, result, account, pass>>

MutMergedMissesIdle(s, p) ==
    [s EXCEPT !.ended = IF p.stage = "done" THEN @ + 1 ELSE @,
              !.abandoned = IF p.stage \in PendingStages THEN @ + 1 ELSE @,
              !.read = @ + p.read,
              !.handed = @ + p.wire,
              !.undelivered = IF p.stage \in PendingStages THEN @ + 1 ELSE @]
\* merge_progress: all of a task's counters are added, or none.
Merged(s, p) ==
    [s EXCEPT !.ended = IF p.stage = "done" THEN @ + 1 ELSE @,
              !.abandoned = IF p.stage = "done" THEN @ ELSE @ + 1,
              !.read = @ + p.read,
              !.handed = @ + p.wire,
              !.undelivered = IF p.stage \in PendingStages THEN @ + 1 ELSE @]
Fits(s) == \A f \in DOMAIN s \ {"live"} : s[f] <= CounterMax

MutAbsorbQuietly(s, p) ==
    [summary  |-> IF Fits(Merged(s, p)) THEN Merged(s, p) ELSE s,
     complete |-> complete,
     ok       |-> TRUE]

\* absorb: counters that do not fit are dropped and the summary says so.
Absorb(s, p) ==
    LET ok == Fits(Merged(s, p)) /\ ~p.overflow
    IN  [summary  |-> IF Fits(Merged(s, p)) THEN Merged(s, p) ELSE s,
         complete |-> complete /\ ok,
         ok       |-> ok]

MutFinishAsEnded ==
    /\ held' = {}
    /\ result' = [t \in Token |-> IF t \in held THEN "ConnectionEnded" ELSE result[t]]

MutFinishSilently == held' = {} /\ UNCHANGED result

\* Its second lock: the observers of the entry that was found get the result.
Finish ==
    /\ held' = {}
    /\ result' = [t \in Token |-> IF t \in held THEN why ELSE result[t]]

\* The rest of retire_with.  A counter that overflows ends drive;
\* inside retire_all it only becomes the failure that is returned.
FinishTask ==
    LET s == IF why = "RetiredByRequest" THEN [summary EXCEPT !.closed = @ + 1] ELSE summary
        done == IF Fits(s) THEN Absorb(s, progress)
                ELSE [summary |-> summary, complete |-> complete, ok |-> FALSE]
    IN  /\ pc = "finish"
        /\ Finish
        /\ progress' = NoProgress /\ cur' = CONTROL
        /\ IF done.ok \/ back = "stopAll"
           THEN /\ pc' = "retire" /\ UNCHANGED retiring
                /\ summary' = done.summary /\ complete' = done.complete
                /\ outcome' = IF ~done.ok /\ outcome \in StopCauses
                              THEN "CounterExhausted" ELSE outcome
           ELSE /\ pc' = "shutdown" /\ outcome' = "CounterExhausted" /\ retiring' = {}
                /\ summary' = [done.summary EXCEPT !.live = Cardinality(Live)]
                /\ complete' = FALSE
        /\ UNCHANGED <<retireFrame, stage, read, wire, overflow, runnable, entries,
                       todo, why, back>>

\* The pass is over: back to where it was called from.
Retired ==
    /\ pc = "retire" /\ retiring = {}
    /\ pc' = back /\ back' = "top" /\ why' = "ConnectionEnded"
    /\ UNCHANGED <<retireFrame, cur, outcome, tasks, entries, result, held, account,
                   todo, retiring>>

stopFrame == <<worker, flags, failure, left, progressed, listener_ready, paused, next,
               faults, history, cur, outcome, tasks, account, pass>>

MutStopAllOverwrites ==
    /\ pc = "stopAll"
    /\ stopping' = TRUE
    /\ held' = tickets
    /\ entries' = [t \in Token |-> "none"]
    /\ pc' = "release"
    /\ UNCHANGED <<stopFrame, result>>

\* stop_all: the table closes and is emptied under one lock.
StopAll ==
    /\ pc = "stopAll"
    /\ stopping' = TRUE
    /\ held' = {t \in Token : entries[t] # "none"}
    /\ entries' = [t \in Token |-> "none"]
    /\ pc' = "release"
    /\ UNCHANGED <<stopFrame, result>>

\* The observers of what was in it are released one after the other; then
\* run_with returns.
Release ==
    /\ pc = "release"
    /\ IF held = {} THEN pc' = "done" /\ UNCHANGED <<result, held>>
       ELSE \E t \in held :
              /\ \A u \in held : t <= u
              /\ held' = held \ {t}
              /\ result' = [result EXCEPT ![t] = "ReceiverStopped"]
              /\ UNCHANGED pc
    /\ UNCHANGED <<stopFrame, stopping, entries>>

-----------------------------------------------------------------------------
(* accept_ready, admit and poll.                                           *)

acceptFrame == <<pub, events, batch, arrivals, tickets, consumer, flags, failure,
                 pass, cur, read, wire, overflow, progress, stopping, result, held,
                 completed>>

StartAccept ==
    /\ pc = "accept"
    /\ IF listener_ready /\ ~paused
       THEN pc' = "accepting" /\ left' = AcceptBatch
       ELSE pc' = "poll" /\ UNCHANGED left
    /\ progressed' = FALSE
    /\ UNCHANGED <<acceptFrame, channel, outcome, stage, runnable, listener_ready, paused,
                   next, backlog, entries, faults, account>>

Accepting == pc = "accepting" /\ StopCause = "none" /\ left > 0

\* A stop request or the quota ends the loop; a turn of nothing but errors
\* pauses the listener.
EndAccept ==
    /\ pc = "accepting" /\ (StopCause # "none" \/ left = 0)
    /\ IF left > 0 \/ progressed
       THEN pc' = "poll" /\ UNCHANGED <<paused, outcome, account>>
       ELSE Count("backoffs", "poll") /\ paused' = (summary.backoffs < CounterMax)
    /\ left' = 0 /\ progressed' = FALSE
    /\ UNCHANGED <<acceptFrame, channel, stage, runnable, listener_ready, next, backlog,
                   entries, faults>>

MutTokenWraps == TRUE
\* allocate_token: a token is given out only when the next one is representable.
TokenLeft == next < TokenMax

MutRefuseNever == FALSE
\* The live bound is checked before admission.
Refuse == Cardinality(Live) = MaxConnections

\* admit: registers a fresh token with scheduler and close table; the task is
\* runnable at once.  The connection is counted last.
Admit(t) ==
    /\ stage' = [stage EXCEPT ![t] = "new"] /\ runnable' = runnable \cup {t}
    /\ entries' = [entries EXCEPT ![t] = "open"]
    /\ channel' = [channel EXCEPT ![t].conn = "accepted"]
    /\ IF summary.accepted < CounterMax
       THEN /\ summary' = [summary EXCEPT !.accepted = @ + 1]
            /\ UNCHANGED <<pc, outcome, complete>>
       ELSE /\ pc' = "shutdown" /\ outcome' = "CounterExhausted" /\ complete' = FALSE
            /\ summary' = [summary EXCEPT !.live = Cardinality(Live) + 1]

Accept ==
    /\ Accepting /\ backlog > 0
    /\ backlog' = backlog - 1 /\ left' = left - 1 /\ progressed' = TRUE
    /\ \/ /\ Refuse
          /\ UNCHANGED <<next, stage, runnable, entries, channel, faults>>
          /\ Count("refused", pc)
       \/ /\ ~Refuse /\ ~TokenLeft
          /\ Leaves("TokenExhausted")
          /\ UNCHANGED <<next, stage, runnable, entries, channel, faults>>
       \/ /\ ~Refuse /\ TokenLeft /\ next' = next + 1
          /\ \/ Admit(next) /\ UNCHANGED faults
             \/ /\ faults < MaxFaults /\ faults' = faults + 1
                /\ Leaves("Io")               \* the socket cannot be registered
                /\ UNCHANGED <<stage, runnable, entries, channel>>
    /\ UNCHANGED <<acceptFrame, listener_ready, paused>>

AcceptDrained ==
    /\ Accepting /\ backlog = 0
    /\ listener_ready' = FALSE
    /\ pc' = "poll" /\ left' = 0 /\ progressed' = FALSE
    /\ UNCHANGED <<acceptFrame, channel, outcome, stage, runnable, paused, next, backlog,
                   entries, faults, account>>

MutPauseDropsReadiness ==
    /\ Accepting /\ faults < MaxFaults
    /\ faults' = faults + 1
    /\ paused' = TRUE /\ listener_ready' = FALSE
    /\ pc' = "poll" /\ left' = 0 /\ progressed' = FALSE
    /\ UNCHANGED <<acceptFrame, channel, outcome, stage, runnable, next, backlog, entries,
                   account>>

\* An accept error that classify_accept finds retryable, a resource shortage
\* (a pause that keeps the listener's readiness), or fatal.
AcceptError ==
    /\ Accepting /\ faults < MaxFaults
    /\ faults' = faults + 1
    /\ \/ Count("transient", pc) /\ left' = left - 1 /\ UNCHANGED <<paused, progressed>>
       \/ /\ Count("pauses", "poll") /\ paused' = (summary.pauses < CounterMax)
          /\ left' = 0 /\ progressed' = FALSE
       \/ Leaves("Io") /\ left' = 0 /\ progressed' = FALSE /\ UNCHANGED paused
    /\ UNCHANGED <<acceptFrame, channel, stage, runnable, listener_ready, next, backlog, entries>>

pollFrame == <<pub, backlog, arrivals, tickets, consumer, flags, failure, pass, turn,
               stage, read, wire, overflow, progress, paused, next, entries, stopping,
               result, held, history>>

\* poll_timeout: poll returns for queued work, for a listener that may be
\* tried again, for an event, or (with Recheck) after STOP_RECHECK.
PollReturns ==
    /\ pc = "poll"
    /\ Recheck \/ runnable # {} \/ events # {} \/ (listener_ready /\ ~paused)
    /\ batch' = events /\ events' = {}
    /\ pc' = "events"
    /\ UNCHANGED <<pollFrame, outcome, runnable, listener_ready, faults, account>>

\* Interrupted: drive continues at the top; any other error ends it.
PollFails ==
    /\ pc = "poll" /\ faults < MaxFaults
    /\ faults' = faults + 1
    /\ \/ pc' = "top" /\ UNCHANGED <<outcome, account>>
       \/ Leaves("Io")
    /\ UNCHANGED <<pollFrame, poller, runnable, listener_ready>>

HandleEvents ==
    /\ pc = "events"
    /\ pc' = "top" /\ batch' = {}
    /\ listener_ready' = (listener_ready \/ LISTENER \in batch)
    /\ runnable' = runnable \cup (batch \cap Live)
    /\ UNCHANGED <<pollFrame, events, outcome, faults, account>>

Worker ==
    \/ Start \/ TakeFailure \/ CheckStop \/ TakeControl \/ TakeCredits
    \/ RunReady \/ TaskWorks \/ TaskSends \/ PollReturned
    \/ Scan \/ RetireAll \/ DropTask \/ Unlist \/ FinishTask \/ Retired
    \/ StopAll \/ Release
    \/ StartAccept \/ EndAccept \/ Accept \/ AcceptDrained \/ AcceptError
    \/ PollReturns \/ PollFails \/ HandleEvents

\* run_with has returned.
Terminated == pc \in {"unstarted", "done"} /\ UNCHANGED vars

Next == Worker \/ Publish \/ Application \/ Kernel \/ Terminated

Spec == Init /\ [][Next]_vars

\* The worker has a thread of its own; a thread finishes the publish it has
\* begun; time passes.
FairSpec == /\ Spec /\ WF_vars(Worker) /\ WF_vars(PauseElapses)
            /\ \A th \in Thread : WF_vars(Raise(th) \/ Wake(th))

-----------------------------------------------------------------------------
(* Properties.                                                             *)

Positions == {"start", "unstarted", "top", "stop1", "stop2", "scan", "control",
              "signals", "run", "task", "retire", "unlist", "finish", "accept",
              "accepting", "poll", "events", "shutdown", "stopAll", "release", "done"}

\* Every variable keeps the shape of the Rust type it stands for; tokens and
\* counters stay representable.
TypeOK ==
    /\ flags \subseteq Signal /\ failure \in BOOLEAN
    /\ pub \in [Thread -> {"idle", "wake"} \cup Signal]
    /\ events \subseteq Token \cup {LISTENER, CONTROL}
    /\ batch \subseteq Token \cup {LISTENER, CONTROL}
    /\ pc \in Positions /\ back \in Positions
    /\ left \in Nat /\ progressed \in BOOLEAN
    /\ cur \in Token \cup {CONTROL}
    /\ todo \subseteq Token /\ retiring \subseteq Token /\ why \in CloseResult
    /\ outcome \in {"none"} \cup StopCauses \cup Failures
    /\ stage \in [Token -> Stages] /\ Cardinality(Live) <= MaxConnections
    /\ read \in [Token -> 0..CounterMax] /\ wire \in [Token -> 0..CounterMax]
    /\ overflow \subseteq Token /\ runnable \subseteq Token
    /\ listener_ready \in BOOLEAN /\ paused \in BOOLEAN
    /\ next \in FIRST_CONNECTION..TokenMax
    /\ backlog \in Nat /\ arrivals \in Nat
    /\ entries \in [Token -> {"none", "open", "requested"}]
    /\ stopping \in BOOLEAN /\ result \in [Token -> {"none"} \cup CloseResult]
    /\ held \subseteq Token /\ tickets \subseteq Token /\ completed \subseteq Token
    /\ consumer \in {"alive", "gone"}
    /\ \A f \in DOMAIN summary \ {"live"} : summary[f] \in 0..CounterMax
    /\ complete \in BOOLEAN

\* Every ticket is answered: one without a result still has its entry, in the
\* close table or in the hands of the worker that took it out, so retirement or
\* stop_all will complete it, and none is left behind when the run has ended.
\* A live connection can always be closed.
TicketsAnswered ==
    /\ \A t \in Live : entries[t] # "none"
    /\ \A t \in tickets : result[t] = "none" => entries[t] = "requested" \/ t \in held
    /\ pc = "done" => \A t \in tickets : result[t] # "none"

\* A ticket's result is published only after the task has been dropped, and
\* it says why: the task ended by itself, a request cancelled it, or the whole
\* receiver stopped.  closed_by_request counts exactly the requests served.
ResultTrue ==
    /\ \A t \in Token :
          /\ result[t] # "none" => t \notin Live
          /\ result[t] = "RetiredByRequest" => t \in tickets \ completed
          /\ result[t] = "ConnectionEnded" => t \in completed
          /\ result[t] = "ReceiverStopped" => outcome # "none"
    /\ complete =>
          summary.closed = Cardinality({t \in Token : result[t] = "RetiredByRequest"})

\* A result once published never changes: observers that ask at different
\* times agree.
ResultStable ==
    [][\A t \in Token : result[t] # "none" => result'[t] = result[t]]_vars

\* A summary that claims complete counters is exact when the run has ended:
\* every admitted connection ended or was abandoned, and what the channel
\* accepted is what the summary says was handed off.
SummaryExact ==
    pc = "done" /\ complete =>
        /\ summary.accepted = summary.ended + summary.abandoned
        /\ summary.ended = Cardinality({t \in Token : channel[t].conn = "ended"})
        /\ summary.handed = SumFunctionOnSet([t \in Token |-> channel[t].wire], Token)
        /\ summary.handed <= summary.read
        /\ summary.read - summary.handed <= summary.abandoned

\* The contract of module Receiver, as this run's application sees it.
Contract == INSTANCE Receiver WITH
    Conns <- Token, limit <- MaxConnections,
    conn <- [t \in Token |-> channel[t].conn],
    handed <- [t \in Token |-> channel[t].wire],
    stop <- StopCause # "none",
    result <- IF pc = "unstarted" THEN "Err" ELSE IF pc # "done" THEN "none"
              ELSE IF outcome \in StopCauses THEN "Ok" ELSE "Err",
    report <- [f \in {"ended", "abandoned", "handed", "raw", "undelivered"} |->
                   IF pc # "done" THEN 0
                   ELSE IF f = "raw" THEN summary.read - summary.handed ELSE summary[f]]

\* The worker keeps the receiver's contract: records in order, the connection
\* limit, no record after the return, and a return without an error only after
\* a stop and with a summary that accounts for everything.
KeepsContract == Contract!Spec

\* Connections waiting in the kernel are never forgotten: the listener is
\* still marked ready, or its event is on the way.
NoLostListener ==
    Attached /\ backlog > 0 => listener_ready \/ LISTENER \in events \cup batch

\* A stop or a close request never waits for the 100 ms recheck unless the
\* wake itself failed, and then the failure is remembered.
NoSilentControl ==
    pc = "poll" /\ (StopCause # "none" \/ \E t \in Live : entries[t] = "requested") =>
        CONTROL \in events \/ failure \/ \E th \in Thread : pub[th] # "idle"

\* A requested stop ends the run whatever the tasks, the listener and the
\* closer do, also if its wake fails.
StopCompletes == (StopCause # "none") ~> (pc \in {"done", "unstarted"})

\* Every close ticket is completed, without a stop and even if a wake fails.
TicketsComplete == \A t \in Token : (t \in tickets) ~> (result[t] # "none")

\* The documentation of ConnectionControlHandle::close: ReceiverStopping is
\* returned "once whole-receiver shutdown has begun", so no ticket is issued
\* after drive has returned.
NoTicketDuringShutdown == [][outcome # "none" => tickets' = tickets]_vars
=============================================================================
