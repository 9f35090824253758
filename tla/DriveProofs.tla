---------------------------- MODULE DriveProofs ----------------------------
(***************************************************************************)
(* The life of one receiver run is proved correct for any limits, any      *)
(* number of connections and any faults: the close table answers every     *)
(* ticket truthfully and once, no connection in the kernel's queue and no  *)
(* stop or request is forgotten, a complete run summary is exact, and the  *)
(* worker implements the contract of module Receiver.                      *)
(*                                                                         *)
(* The inductive invariant has one part per concern, each with a lemma     *)
(* that says every step keeps it; the theorems are at the end.             *)
(***************************************************************************)
EXTENDS Drive, Sums

\* The frames of the actions are tuples of tuples; they are transparent in
\* every proof of this module.
USE DEF signals, poller, pass, turn, tasks, listen, control, account, history,
        worker, loopFrame, taskFrame, retireFrame, acceptFrame, pollFrame,
        kernelFrame, otherThread, stopFrame

-----------------------------------------------------------------------------
(* The inductive invariant, part by part.                                  *)

\* What other threads and the kernel share with the worker.
SignalType ==
    /\ flags \subseteq Signal /\ failure \in BOOLEAN
    /\ pub \in [Thread -> {"idle", "wake"} \cup Signal]
    /\ events \subseteq Token \cup {LISTENER, CONTROL}
    /\ batch \subseteq Token \cup {LISTENER, CONTROL}
    /\ consumer \in {"alive", "gone"}
    /\ listener_ready \in BOOLEAN /\ paused \in BOOLEAN
    /\ backlog \in Nat /\ arrivals \in Nat

\* The locals of drive.
LoopType ==
    /\ pc \in Positions /\ back \in Positions
    /\ left \in Nat /\ progressed \in BOOLEAN
    /\ cur \in Token \cup {CONTROL}
    /\ todo \subseteq Token /\ retiring \subseteq Token /\ why \in CloseResult
    /\ outcome \in {"none"} \cup StopCauses \cup Failures

\* The tasks and what retire_with keeps of the one it dropped.
TaskType ==
    /\ stage \in [Token -> Stages]
    /\ read \in [Token -> 0..CounterMax] /\ wire \in [Token -> 0..CounterMax]
    /\ overflow \subseteq Token /\ runnable \subseteq Token
    /\ progress \in [stage : Stages, read : 0..CounterMax, wire : 0..CounterMax,
                     overflow : BOOLEAN]

\* The close table, and the histories.
ChannelType == [conn : {"none", "accepted", "open", "ended", "dropped"}, wire : Nat]
TableType ==
    /\ next \in FIRST_CONNECTION..TokenMax
    /\ entries \in [Token -> {"none", "open", "requested"}]
    /\ stopping \in BOOLEAN /\ result \in [Token -> {"none"} \cup CloseResult]
    /\ held \subseteq Token /\ tickets \subseteq Token /\ completed \subseteq Token
    /\ channel \in [Token -> ChannelType]

\* Where the worker is says what its locals hold.
Located ==
    /\ pc = "task" => cur \in Live
    /\ pc \in {"unlist", "finish"} => cur \in Token \ Live
    /\ pc \notin {"task", "unlist", "finish"} => cur = CONTROL
    /\ pc # "scan" => todo = {}
    /\ pc \notin {"scan", "retire", "unlist", "finish"} => retiring = {}
    /\ todo \subseteq Live /\ retiring \subseteq Live /\ runnable \subseteq Live
    /\ pc = "scan" => back \in {"control", "signals", "stop2"}
    /\ pc \in {"retire", "unlist", "finish"} =>
          back \in {"control", "signals", "stop2", "run", "stopAll"}
    /\ stopping <=> pc \in {"release", "done"}

\* drive has returned exactly in shutdown; from then on every task is retired
\* as ReceiverStopped, and an outcome that is a stop cause was requested and
\* left the counters complete.
Returned ==
    /\ outcome # "none" <=> \/ pc \in {"shutdown", "stopAll", "release", "done"}
                            \/ pc \in {"retire", "unlist", "finish"} /\ back = "stopAll"
    /\ pc \in {"retire", "unlist", "finish"} =>
          IF back = "stopAll" THEN why = "ReceiverStopped" /\ retiring = Live
          ELSE why # "ReceiverStopped"
    /\ pc \in {"start", "unstarted", "stopAll", "release", "done"} => Live = {}
    /\ outcome \in StopCauses => StopCause # "none"
    /\ outcome \in {"none"} \cup StopCauses => complete

\* Nothing is known of a token that was not given out.
Fresh ==
    \A t \in Token : t >= next =>
        /\ t \notin Live /\ entries[t] = "none" /\ t \notin held /\ result[t] = "none"
        /\ t \notin tickets \cup completed /\ channel[t].conn = "none"

\* The close table has an entry for each live task and for the dropped one
\* until it is unlisted; then the worker holds that entry, and no other, until
\* it publishes the result.  A ticket's entry is requested, held or answered.
Table ==
    \A t \in Token :
        /\ t \in Live => entries[t] # "none"
        /\ entries[t] # "none" => t \in Live \/ (pc = "unlist" /\ t = cur)
        /\ pc = "unlist" /\ t = cur => entries[t] # "none"
        /\ t \in held <=> pc = "finish" /\ t = cur
        /\ result[t] # "none" => entries[t] = "none" /\ t \notin held
        /\ t \in tickets => entries[t] = "requested" \/ t \in held \/ result[t] # "none"
        /\ entries[t] = "requested" => t \in tickets

\* A pass retires for the reason it will publish: requested and not completed,
\* or completed; a completed task is retired at once unless drive has returned.
Retiring == IF pc \in {"unlist", "finish"} THEN retiring \cup {cur} ELSE retiring
Reasons ==
    /\ \A t \in Live \cap completed :
          \/ outcome # "none"
          \/ pc = "retire" /\ why = "ConnectionEnded" /\ retiring = {t}
    /\ pc = "scan" \/ (pc \in {"retire", "unlist", "finish"} /\ why = "RetiredByRequest") =>
          \A t \in Retiring : t \in tickets /\ t \notin completed
    /\ pc \in {"retire", "unlist", "finish"} /\ why = "ConnectionEnded" =>
          Retiring \subseteq completed

\* A task's stage and counters against what the channel has of its connection.
Handed(s, r, w, c) ==
    /\ w = c.wire /\ w <= r /\ r <= w + 1
    /\ s \in {"new", "connected"} => c.conn = "accepted" /\ r = w
    /\ s \in {"read", "copy", "wire", "ended"} => c.conn = "open"
    /\ s \in {"copy", "wire"} => r = w + 1
    /\ s \in {"read", "ended"} => r = w
    /\ s = "lost" => c.conn \in {"accepted", "open"}
    /\ s = "done" <=> c.conn = "ended"
    /\ s = "done" => r = w

\* Between drop and absorb the progress says how far the dropped task came.
Left(p, c) ==
    /\ p.wire = c.wire /\ p.wire <= p.read /\ p.read <= p.wire + 1
    /\ c.conn = IF p.stage = "done" THEN "ended" ELSE "dropped"
    /\ p.stage = "done" => p.read = p.wire

\* The tasks, the channel and the progress agree; while drive runs, every
\* token that was given out has been admitted.
Records ==
    /\ \A t \in Live : Handed(stage[t], read[t], wire[t], channel[t])
    /\ \A t \in Token \ Live : /\ read[t] = 0 /\ wire[t] = 0
                               /\ channel[t].conn \in {"none", "ended", "dropped"}
    /\ \A t \in Token : channel[t].conn = "none" => channel[t].wire = 0
    /\ outcome = "none" => \A t \in Token : t < next => channel[t].conn # "none"
    /\ pc \in {"unlist", "finish"} => Left(progress, channel[cur])

\* The run summary: its type, and no counter beyond its range.
SummaryType == [accepted : Nat, refused : Nat, ended : Nat, abandoned : Nat, closed : Nat,
                live : Nat, read : Nat, handed : Nat, undelivered : Nat, transient : Nat,
                pauses : Nat, backoffs : Nat]
BookType == summary \in SummaryType /\ Fits(summary) /\ complete \in BOOLEAN

\* A connection is gone once its progress has been absorbed.
Gone(states) ==
    {t \in Token \ Live : /\ channel[t].conn \in states
                          /\ ~(pc \in {"unlist", "finish"} /\ t = cur)}
Admitted == {t \in Token : channel[t].conn # "none"}
Requested == {t \in Token : result[t] = "RetiredByRequest"}
Wires == [t \in Token |-> channel[t].wire]

\* As long as the counters are complete, the summary is the account of the
\* connections that are gone.
Books ==
    complete =>
        /\ summary.accepted = Cardinality(Admitted)
        /\ summary.ended = Cardinality(Gone({"ended"}))
        /\ summary.abandoned = Cardinality(Gone({"dropped"}))
        /\ summary.closed = Cardinality(Requested)
        /\ summary.handed = SumFunctionOnSet(Wires, Gone({"ended", "dropped"}))
        /\ summary.handed <= summary.read
        /\ summary.read - summary.handed <= summary.abandoned
        /\ summary.undelivered <= summary.abandoned

\* A result says what became of the connection.
Answers ==
    \A t \in Token :
        /\ result[t] = "RetiredByRequest" => t \in tickets \ completed
        /\ result[t] = "ConnectionEnded" => t \in completed
        /\ result[t] = "ReceiverStopped" => outcome # "none"

\* A batch of events is handled before the next poll, and what is in the
\* kernel's queue is known or announced.
Heard ==
    /\ pc # "events" => batch = {}
    /\ pc \in {"start", "unstarted"} => backlog = 0
    /\ NoLostListener

\* A stop that was raised after the checks of this turn, and a request that
\* the last pass of this turn has missed, will be signalled.
Pending == CONTROL \in events \/ failure \/ \E th \in Thread : pub[th] # "idle"
Examined == \/ pc \in {"stop2", "accept", "accepting", "poll"}
            \/ pc \in {"scan", "retire", "unlist", "finish"} /\ back = "stop2"
Alert ==
    /\ /\ StopCause # "none" /\ outcome = "none"
       /\ pc \notin {"start", "unstarted", "top", "stop1", "events"}
       => Pending
    /\ Examined => \A t \in Live \ (todo \cup retiring) : entries[t] = "requested" => Pending

-----------------------------------------------------------------------------

\* Leaving drive and counting, as far as the control flow goes.
Ends == pc' = "shutdown" /\ outcome' \in Failures
Stays(p) == pc' = p /\ UNCHANGED <<outcome, complete>>

\* Counting goes on where it was told to, or ends drive with CounterExhausted.
LEMMA CountEffect ==
    ASSUME NEW f, NEW p, Count(f, p)
    PROVE  Stays(p) \/ Ends
  BY DEF Count, Leaves, Stays, Ends, Failures

\* One accept: refused, or with a new token, or the end of drive.
LEMMA AcceptEffect ==
    ASSUME Accept
    PROVE  /\ pc = "accepting" /\ left > 0 /\ left' = left - 1 /\ progressed' = TRUE
           /\ backlog > 0 /\ backlog' = backlog - 1
           /\ UNCHANGED <<acceptFrame, listener_ready, paused>>
           /\ Stays(pc) \/ Ends
           /\ \/ UNCHANGED <<next, stage, runnable, entries, channel>>
              \/ /\ Ends /\ TokenLeft /\ next' = next + 1
                 /\ UNCHANGED <<stage, runnable, entries, channel>>
              \/ /\ ~Refuse /\ TokenLeft /\ next' = next + 1 /\ Admit(next)
<1>1. /\ pc = "accepting" /\ left > 0 /\ left' = left - 1 /\ progressed' = TRUE
      /\ backlog > 0 /\ backlog' = backlog - 1
      /\ UNCHANGED <<acceptFrame, listener_ready, paused>>
  BY DEF Accept, Accepting
<1>2. CASE /\ Count("refused", pc)
           /\ UNCHANGED <<next, stage, runnable, entries, channel, faults>>
  BY <1>1, <1>2, CountEffect
<1>3. CASE /\ Leaves("TokenExhausted")
           /\ UNCHANGED <<next, stage, runnable, entries, channel, faults>>
  BY <1>1, <1>3 DEF Leaves, Ends, Failures
<1>4. CASE ~Refuse /\ TokenLeft /\ next' = next + 1 /\ Admit(next)
  <2>1. Stays(pc) \/ Ends
    BY <1>4 DEF Admit, Stays, Ends, Failures
  <2>2. QED
    BY <1>1, <1>4, <2>1
<1>5. CASE /\ TokenLeft /\ next' = next + 1 /\ Leaves("Io")
           /\ UNCHANGED <<stage, runnable, entries, channel>>
  BY <1>1, <1>5 DEF Leaves, Ends, Failures
<1>6. QED
  BY <1>2, <1>3, <1>4, <1>5 DEF Accept

\* An error of accept: the loop goes on, pauses, or drive ends.
LEMMA AcceptErrorEffect ==
    ASSUME AcceptError
    PROVE  /\ pc = "accepting" /\ left > 0 /\ left' \in {left - 1, 0}
           /\ progressed' = progressed \/ progressed' = FALSE
           /\ Stays(pc) \/ Stays("poll") \/ Ends
           /\ paused' = paused \/ paused' = (summary.pauses < CounterMax)
           /\ UNCHANGED <<acceptFrame, channel, stage, runnable, listener_ready, next, backlog,
                          entries>>
<1>1. /\ pc = "accepting" /\ left > 0
      /\ UNCHANGED <<acceptFrame, channel, stage, runnable, listener_ready, next, backlog,
                     entries>>
  BY DEF AcceptError, Accepting
<1>2. CASE Count("transient", pc) /\ left' = left - 1 /\ UNCHANGED <<paused, progressed>>
  BY <1>1, <1>2, CountEffect
<1>3. CASE /\ Count("pauses", "poll") /\ paused' = (summary.pauses < CounterMax)
           /\ left' = 0 /\ progressed' = FALSE
  BY <1>1, <1>3, CountEffect
<1>4. CASE Leaves("Io") /\ left' = 0 /\ progressed' = FALSE /\ UNCHANGED paused
  BY <1>1, <1>4 DEF Leaves, Ends, Failures
<1>5. QED
  BY <1>2, <1>3, <1>4 DEF AcceptError

\* Only admission and retirement change the set of live tasks.
LEMMA LiveMoves ==
    ASSUME TaskType, TableType
    PROVE  /\ stage' = stage => Live' = Live
           /\ pc = "task" /\ cur \in Live /\ (TaskWorks \/ TaskSends) => Live' = Live
           /\ DropTask => \E t \in retiring : /\ cur' = t /\ retiring' = retiring \ {t}
                                              /\ runnable' = runnable \ {t}
                                              /\ stage' = [stage EXCEPT ![t] = "none"]
                                              /\ Live' = Live \ {t}
           /\ TokenLeft => next \in Token
           /\ TokenLeft /\ Admit(next) => Live' = Live \cup {next}
<1>1. stage' = stage => Live' = Live
  BY DEF Live
<1>2. pc = "task" /\ cur \in Live /\ (TaskWorks \/ TaskSends) => Live' = Live
  BY DEF TaskType, TaskWorks, TaskSends, Live, Stages, PendingStages
<1>3. DropTask => \E t \in retiring : /\ cur' = t /\ retiring' = retiring \ {t}
                                      /\ runnable' = runnable \ {t}
                                      /\ stage' = [stage EXCEPT ![t] = "none"]
                                      /\ Live' = Live \ {t}
  <2> SUFFICES ASSUME DropTask
               PROVE  \E t \in retiring : /\ cur' = t /\ retiring' = retiring \ {t}
                                          /\ runnable' = runnable \ {t}
                                          /\ stage' = [stage EXCEPT ![t] = "none"]
                                          /\ Live' = Live \ {t}
    OBVIOUS
  <2>1. PICK t \in retiring : /\ cur' = t /\ retiring' = retiring \ {t}
                              /\ runnable' = runnable \ {t}
                              /\ stage' = [stage EXCEPT ![t] = "none"]
    BY Zenon DEF DropTask
  <2>2. Live' = Live \ {t}
    BY <2>1 DEF TaskType, Live
  <2>3. QED
    BY <2>1, <2>2
<1>4. TokenLeft => next \in Token
  BY DriveConstants DEF TokenLeft, Token, TableType, FIRST_CONNECTION
<1>5. TokenLeft /\ Admit(next) => Live' = Live \cup {next}
  BY <1>4 DEF Admit, Live, TaskType
<1>6. QED
  BY <1>1, <1>2, <1>3, <1>4, <1>5

\* Every step leaves the locals as the position says.
LEMMA LocatedStep ==
    ASSUME LoopType, TaskType, TableType, Located, Next
    PROVE  LoopType' /\ Located'
<1> USE DriveConstants DEF LoopType, Located, Positions, CloseResult, StopCauses, Failures,
                           FIRST_CONNECTION, CONTROL, LISTENER
<1>0. /\ stage' = stage => Live' = Live
      /\ Live \subseteq Token
  BY LiveMoves DEF Live
<1>1. CASE Start \/ TakeFailure \/ TakeControl \/ TakeCredits
  BY <1>0, <1>1 DEF Start, TakeFailure, TakeControl, TakeCredits, Leaves, StartsPass
<1>2. CASE CheckStop
  BY <1>0, <1>2 DEF CheckStop, Leaves, StartsPass, StopCause
<1>3. CASE RunReady
  BY <1>0, <1>3 DEF RunReady, StartsPass
<1>4. CASE TaskWorks
  BY <1>4, LiveMoves DEF TaskWorks
<1>5. CASE TaskSends
  BY <1>5, LiveMoves DEF TaskSends
<1>6. CASE PollReturned
  BY <1>0, <1>6 DEF PollReturned, Leaves
<1>7. CASE Scan \/ RetireAll \/ Retired \/ Unlist \/ StopAll \/ Release
  BY <1>0, <1>7 DEF Scan, RetireAll, Retired, Unlist, StopAll, Release
<1>8. CASE DropTask
  <2>1. PICK t \in retiring : /\ cur' = t /\ retiring' = retiring \ {t}
                              /\ runnable' = runnable \ {t} /\ Live' = Live \ {t}
    BY <1>8, LiveMoves
  <2>2. /\ pc = "retire" /\ pc' = "unlist"
        /\ UNCHANGED <<left, progressed, stopping, outcome, todo, why, back>>
    BY <1>8 DEF DropTask
  <2>3. QED
    BY <1>0, <2>1, <2>2
<1>9. CASE FinishTask
  BY <1>0, <1>9 DEF FinishTask, Finish
<1>10. CASE StartAccept \/ AcceptDrained
  <2>1. CASE StartAccept
    BY <1>0, <2>1 DEF StartAccept
  <2>2. CASE AcceptDrained
    BY <1>0, <2>2 DEF AcceptDrained, Accepting
  <2>3. QED
    BY <1>10, <2>1, <2>2
<1>11. CASE EndAccept
  <2>1. Stays("poll") \/ Ends
    BY <1>11, CountEffect DEF EndAccept, Stays
  <2>2. QED
    BY <1>0, <1>11, <2>1 DEF EndAccept, Stays, Ends
<1>12. CASE Accept
  <2>1. /\ Stays(pc) \/ Ends
        /\ pc = "accepting" /\ left' \in Nat /\ progressed' = TRUE
        /\ UNCHANGED <<pass, cur, stopping>>
    BY <1>12, AcceptEffect
  <2>2. CASE UNCHANGED <<stage, runnable>>
    BY <1>0, <2>1, <2>2 DEF Stays, Ends
  <2>3. CASE Admit(next) /\ TokenLeft
    <3>1. Live' = Live \cup {next} /\ runnable' = runnable \cup {next}
      BY <2>3, LiveMoves DEF Admit
    <3>2. QED
      BY <1>0, <2>1, <3>1 DEF Stays, Ends
  <2>4. QED
    BY <1>12, <2>2, <2>3, AcceptEffect
<1>13. CASE AcceptError
  <2>1. left' \in Nat
    BY <1>13, AcceptErrorEffect
  <2>2. /\ Stays(pc) \/ Stays("poll") \/ Ends
        /\ pc = "accepting" /\ UNCHANGED <<pass, cur, stage, runnable, stopping>>
        /\ progressed' = progressed \/ progressed' = FALSE
    BY <1>13, AcceptErrorEffect
  <2>3. pc' \in {pc, "poll", "shutdown"} /\ outcome' \in {outcome} \cup Failures
    BY <2>2 DEF Stays, Ends
  <2>4. progressed' \in BOOLEAN
    BY <2>2
  <2>5. pc = "accepting" /\ UNCHANGED <<pass, cur, stage, runnable, stopping>>
    BY <2>2
  <2>6. LoopType'
    BY <2>1, <2>3, <2>4, <2>5
  <2>7. Located'
    BY <1>0, <2>3, <2>5
  <2>8. QED
    BY <2>6, <2>7
<1>14. CASE PollReturns \/ PollFails \/ HandleEvents
  BY <1>0, <1>14 DEF PollReturns, PollFails, HandleEvents, Leaves
<1>15. CASE Publish \/ Application \/ Kernel \/ Terminated
  BY <1>0, <1>15 DEF Publish, Raise, Wake, Application, Stop, DropRecords, Close, Kernel,
                     Arrive, TaskReady, PauseElapses, Terminated, vars
<1>16. QED
  BY <1>1, <1>2, <1>3, <1>4, <1>5, <1>6, <1>7, <1>8, <1>9, <1>10, <1>11, <1>12, <1>13,
     <1>14, <1>15 DEF Next, Worker

\* Other threads change none of the worker's state but the close table.
LEMMA OthersQuiet ==
    ASSUME Publish \/ Application \/ Kernel \/ Terminated
    PROVE  /\ UNCHANGED <<pc, pass, turn, outcome, tasks, account, history, next, result, held,
                          stopping>>
           /\ \/ UNCHANGED <<entries, tickets>>
              \/ \E t \in Token : Close(t)
           /\ flags \subseteq flags'
  BY DEF Publish, Raise, Wake, Application, Stop, DropRecords, Close, Kernel, Arrive, TaskReady,
         PauseElapses, Terminated, vars

\* Most steps of the worker leave the tasks and the close table alone.
Quiet == /\ UNCHANGED <<stage, read, wire, overflow, progress, next, entries, stopping, result,
                        held, tickets, channel, completed>>
         /\ pc \notin {"unlist", "finish"} /\ pc' \notin {"unlist", "finish"}

\* The sixteen steps of the worker that are quiet in this sense.
LEMMA QuietSteps ==
    ASSUME LoopType, Located,
           \/ Start \/ TakeFailure \/ CheckStop \/ TakeControl \/ TakeCredits \/ RunReady
           \/ Scan \/ RetireAll \/ Retired \/ StartAccept \/ EndAccept \/ AcceptDrained
           \/ AcceptError \/ PollReturns \/ PollFails \/ HandleEvents
    PROVE  Quiet
<1> USE DEF Quiet
<1>1. CASE Start \/ TakeFailure \/ CheckStop \/ TakeControl \/ TakeCredits \/ RunReady
  BY <1>1 DEF Start, TakeFailure, CheckStop, TakeControl, TakeCredits, RunReady, Leaves,
              StartsPass
<1>2. CASE Scan \/ RetireAll \/ Retired
  BY <1>2 DEF Scan, RetireAll, Retired, Located
<1>3. CASE StartAccept \/ AcceptDrained \/ PollReturns \/ PollFails \/ HandleEvents
  BY <1>3 DEF StartAccept, AcceptDrained, Accepting, PollReturns, PollFails, HandleEvents, Leaves
<1>4. CASE EndAccept
  <2>1. Stays("poll") \/ Ends
    BY <1>4, CountEffect DEF EndAccept, Stays
  <2>2. QED
    BY <1>4, <2>1 DEF EndAccept, Stays, Ends
<1>5. CASE AcceptError
  BY <1>5, AcceptErrorEffect DEF Stays, Ends
<1>6. QED
  BY <1>1, <1>2, <1>3, <1>4, <1>5

\* The record each of the other steps of the worker leaves in the channel.
LEMMA ChannelMoves ==
    ASSUME TableType
    PROVE  /\ cur \in Token /\ TaskSends =>
                 \/ consumer # "alive" /\ channel' = channel
                 \/ /\ consumer = "alive"
                    /\ channel' = [channel EXCEPT ![cur] =
                          [conn |-> IF stage[cur] = "ended" THEN "ended" ELSE "open",
                           wire |-> IF stage[cur] = "wire" THEN channel[cur].wire + 1
                                    ELSE channel[cur].wire]]
           /\ \A t \in Token : Admit(t) =>
                 channel' = [channel EXCEPT ![t] = [conn |-> "accepted", wire |-> channel[t].wire]]
           /\ \A t \in Token :
                 channel' = [channel EXCEPT ![t].conn = IF @ = "ended" THEN @ ELSE "dropped"] =>
                 channel' = [channel EXCEPT ![t] =
                                [conn |-> IF channel[t].conn = "ended" THEN "ended" ELSE "dropped",
                                 wire |-> channel[t].wire]]
<1>0. \A t \in Token : channel[t] \in ChannelType
  BY DEF TableType
<1> DEFINE With(r, x) == [r EXCEPT !.conn = x]
<1>5. \A r \in ChannelType : \A x : With(r, x) = [conn |-> x, wire |-> r.wire]
  BY DEF ChannelType
<1> HIDE DEF With
<1>1. ASSUME cur \in Token, TaskSends, consumer = "alive"
      PROVE  channel' = [channel EXCEPT ![cur] =
                [conn |-> IF stage[cur] = "ended" THEN "ended" ELSE "open",
                 wire |-> IF stage[cur] = "wire" THEN channel[cur].wire + 1
                          ELSE channel[cur].wire]]
  BY <1>0, <1>1 DEF TaskSends, TableType, ChannelType
<1>2. ASSUME NEW t \in Token, Admit(t)
      PROVE  channel' = [channel EXCEPT ![t] = [conn |-> "accepted", wire |-> channel[t].wire]]
  <2>1. channel' = [channel EXCEPT ![t] = With(channel[t], "accepted")]
    BY <1>2, Zenon DEF Admit, With
  <2>2. QED
    BY <1>0, <1>5, <2>1
<1>3. ASSUME NEW t \in Token,
             channel' = [channel EXCEPT ![t].conn = IF @ = "ended" THEN @ ELSE "dropped"]
      PROVE  channel' = [channel EXCEPT ![t] =
                                [conn |-> IF channel[t].conn = "ended" THEN "ended" ELSE "dropped",
                                 wire |-> channel[t].wire]]
  <2>1. channel' = [channel EXCEPT ![t] =
                       With(channel[t], IF channel[t].conn = "ended" THEN channel[t].conn
                                        ELSE "dropped")]
    BY <1>3, Zenon DEF With
  <2>2. QED
    BY <1>0, <1>5, <2>1
<1>4. QED
  BY <1>1, <1>2, <1>3 DEF TaskSends

\* The rest of retire_with publishes the result and goes on or ends drive.
LEMMA FinishEffect ==
    ASSUME FinishTask
    PROVE  /\ pc = "finish" /\ Finish /\ progress' = NoProgress /\ cur' = CONTROL
           /\ \/ pc' = "retire" /\ retiring' = retiring
              \/ Ends /\ back # "stopAll" /\ retiring' = {}
           /\ UNCHANGED <<retireFrame, stage, read, wire, overflow, runnable, entries, todo, why,
                          back>>
  BY DEF FinishTask, Ends, Failures

\* After the table was emptied nothing is left to release: retire_all has
\* answered every ticket.
LEMMA ReleaseEffect ==
    ASSUME TableType, Table, Release
    PROVE  /\ pc = "release" /\ pc' = "done" /\ held = {}
           /\ UNCHANGED <<stopFrame, stopping, entries, result, held>>
<1>1. pc = "release" /\ held = {}
  BY DEF Release, Table, TableType
<1>2. QED
  BY <1>1 DEF Release

\* Every step keeps the close table and the histories in shape.
LEMMA TableTypeStep ==
    ASSUME LoopType, TaskType, TableType, Located, Next
    PROVE  TableType'
<1> USE DEF TableType
<1>1. CASE Quiet
  BY <1>1 DEF Quiet
<1>2. CASE Publish \/ Application \/ Kernel \/ Terminated
  BY <1>2, OthersQuiet DEF Close
<1>3. CASE TaskWorks
  BY <1>3 DEF TaskWorks
<1>4. CASE TaskSends
  <2>1. cur \in Token
    BY <1>4 DEF TaskSends, Located, Live
  <2>2. channel' \in [Token -> ChannelType]
    BY <1>4, <2>1, ChannelMoves DEF ChannelType
  <2>3. QED
    BY <1>4, <2>2 DEF TaskSends
<1>5. CASE PollReturned
  BY <1>5 DEF PollReturned, Located, Live
<1>6. CASE DropTask
  <2>1. channel' \in [Token -> ChannelType]
    <3>1. PICK t \in Token :
             channel' = [channel EXCEPT ![t].conn = IF @ = "ended" THEN @ ELSE "dropped"]
      BY <1>6, Zenon DEF DropTask, LoopType
    <3>2. QED
      BY <3>1, ChannelMoves DEF ChannelType
  <2>2. QED
    BY <1>6, <2>1 DEF DropTask
<1>7. CASE FinishTask
  BY <1>7, FinishEffect DEF Finish, LoopType
<1>8. CASE Unlist \/ StopAll \/ Release
  <2>1. CASE Unlist
    BY <2>1 DEF Unlist, Located
  <2>2. CASE StopAll
    BY <2>2 DEF StopAll
  <2>3. CASE Release
    BY <2>3 DEF Release, CloseResult
  <2>4. QED
    BY <1>8, <2>1, <2>2, <2>3
<1>9. CASE Accept
  <2>1. UNCHANGED <<result, held, tickets, completed, stopping>>
    BY <1>9, AcceptEffect
  <2>2. CASE UNCHANGED <<next, entries, channel>>
    BY <2>1, <2>2
  <2>3. CASE TokenLeft /\ next' = next + 1 /\ UNCHANGED <<entries, channel>>
    BY <2>1, <2>3, DriveConstants DEF TokenLeft, FIRST_CONNECTION
  <2>4. CASE TokenLeft /\ next' = next + 1 /\ Admit(next)
    <3>1. next \in Token
      BY <2>4, LiveMoves
    <3>2. channel' \in [Token -> ChannelType]
      BY <2>4, <3>1, ChannelMoves DEF ChannelType
    <3>3. QED
      BY <2>1, <2>4, <3>1, <3>2, DriveConstants DEF TokenLeft, FIRST_CONNECTION, Admit
  <2>5. QED
    BY <1>9, <2>2, <2>3, <2>4, AcceptEffect
<1>10. QED
  BY <1>1, <1>2, <1>3, <1>4, <1>5, <1>6, <1>7, <1>8, <1>9, QuietSteps DEF Next, Worker

\* Nothing is ever known of a token that was not given out.
LEMMA FreshStep ==
    ASSUME LoopType, TaskType, TableType, Located, Table, Fresh, Next
    PROVE  Fresh'
<1> SUFFICES ASSUME NEW t \in Token, t >= next'
             PROVE  /\ t \notin Live' /\ entries'[t] = "none" /\ t \notin held' /\ result'[t] = "none"
                    /\ t \notin tickets' \cup completed' /\ channel'[t].conn = "none"
  BY DEF Fresh
<1>0. t >= next => /\ t \notin Live /\ entries[t] = "none" /\ t \notin held /\ result[t] = "none"
                   /\ t \notin tickets \cup completed /\ channel[t].conn = "none"
  BY DEF Fresh
<1>1. stage' = stage => Live' = Live
  BY LiveMoves
<1>2. CASE Quiet
  BY <1>0, <1>1, <1>2 DEF Quiet
<1>3. CASE Publish \/ Application \/ Kernel \/ Terminated
  <2>1. UNCHANGED <<stage, next, result, held, history>>
    BY <1>3, OthersQuiet
  <2>2. CASE UNCHANGED <<entries, tickets>>
    BY <1>0, <1>1, <2>1, <2>2
  <2>3. ASSUME NEW u \in Token, Close(u)
        PROVE  entries'[t] = "none" /\ t \notin tickets'
    BY <1>0, <2>1, <2>3 DEF Close, TableType
  <2>4. QED
    BY <1>0, <1>1, <1>3, <2>1, <2>2, <2>3, OthersQuiet
<1>4. CASE TaskWorks \/ TaskSends \/ PollReturned
  <2>1. cur \in Live /\ cur \in Token /\ next' = next /\ pc = "task"
    BY <1>4 DEF TaskWorks, TaskSends, PollReturned, Located, Live
  <2>2. Live' = Live
    BY <1>1, <1>4, <2>1, LiveMoves DEF PollReturned
  <2>3. UNCHANGED <<entries, result, held, tickets>> /\ completed' \subseteq completed \cup {cur}
    BY <1>4 DEF TaskWorks, TaskSends, PollReturned
  <2>4. t # cur
    BY <1>0, <2>1
  <2>5. channel'[t].conn = channel[t].conn
    BY <1>4, <2>1, <2>4, ChannelMoves DEF TaskWorks, PollReturned, TableType
  <2>6. QED
    BY <1>0, <2>1, <2>2, <2>3, <2>4, <2>5
<1>5. CASE DropTask
  <2>1. PICK u \in retiring :
              /\ stage' = [stage EXCEPT ![u] = "none"]
              /\ channel' = [channel EXCEPT ![u].conn = IF @ = "ended" THEN @ ELSE "dropped"]
    BY <1>5, Zenon DEF DropTask
  <2>2. UNCHANGED <<next, entries, result, held, tickets, completed>>
    BY <1>5 DEF DropTask
  <2>3. u \in Token /\ u # t /\ t \notin Live'
    BY <1>0, <2>1, <2>2 DEF Located, Live, TaskType
  <2>4. channel'[t].conn = channel[t].conn
    BY <2>1, <2>3, ChannelMoves DEF TableType
  <2>5. QED
    BY <1>0, <2>2, <2>3, <2>4
<1>6. CASE FinishTask
  <2>1. UNCHANGED <<next, stage, entries, tickets, history>> /\ Finish
    BY <1>6, FinishEffect
  <2>2. QED
    BY <1>0, <1>1, <2>1 DEF Finish
<1>7. CASE Unlist \/ StopAll
  BY <1>0, <1>1, <1>7 DEF Unlist, StopAll, TableType
<1>10. CASE Release
  BY <1>0, <1>1, <1>10, ReleaseEffect
<1>8. CASE Accept
  <2>1. UNCHANGED <<result, held, tickets, completed, stopping>>
    BY <1>8, AcceptEffect
  <2>2. CASE UNCHANGED <<next, stage, entries, channel>>
    BY <1>0, <1>1, <2>1, <2>2
  <2>3. CASE next' = next + 1 /\ UNCHANGED <<stage, entries, channel>>
    BY <1>0, <1>1, <2>1, <2>3 DEF TableType, Token, FIRST_CONNECTION
  <2>4. CASE TokenLeft /\ next' = next + 1 /\ Admit(next)
    <3>1. next \in Token /\ Live' = Live \cup {next} /\ t > next
      BY <2>4, LiveMoves DEF Token, FIRST_CONNECTION
    <3>2. channel'[t] = channel[t]
      BY <2>4, <3>1, ChannelMoves DEF TableType
    <3>3. QED
      BY <1>0, <2>1, <2>4, <3>1, <3>2 DEF Admit, TableType, Token, FIRST_CONNECTION
  <2>5. QED
    BY <1>8, <2>2, <2>3, <2>4, AcceptEffect
<1>9. QED
  BY <1>2, <1>3, <1>4, <1>5, <1>6, <1>7, <1>8, <1>10, QuietSteps DEF Next, Worker

\* The close table keeps an entry for each live task, and every ticket its
\* entry or its result.
LEMMA TableStep ==
    ASSUME LoopType, TaskType, TableType, Located, Returned, Fresh, Table, Next
    PROVE  Table'
<1> SUFFICES ASSUME NEW t \in Token
             PROVE  /\ t \in Live' => entries'[t] # "none"
                    /\ entries'[t] # "none" => t \in Live' \/ (pc' = "unlist" /\ t = cur')
                    /\ pc' = "unlist" /\ t = cur' => entries'[t] # "none"
                    /\ t \in held' <=> pc' = "finish" /\ t = cur'
                    /\ result'[t] # "none" => entries'[t] = "none" /\ t \notin held'
                    /\ t \in tickets' => entries'[t] = "requested" \/ t \in held' \/ result'[t] # "none"
                    /\ entries'[t] = "requested" => t \in tickets'
  BY DEF Table
<1>0. /\ t \in Live => entries[t] # "none"
      /\ entries[t] # "none" => t \in Live \/ (pc = "unlist" /\ t = cur)
      /\ pc = "unlist" /\ t = cur => entries[t] # "none"
      /\ t \in held <=> pc = "finish" /\ t = cur
      /\ result[t] # "none" => entries[t] = "none" /\ t \notin held
      /\ t \in tickets => entries[t] = "requested" \/ t \in held \/ result[t] # "none"
      /\ entries[t] = "requested" => t \in tickets
  BY DEF Table
<1>1. stage' = stage => Live' = Live
  BY LiveMoves
<1>2. CASE Quiet
  BY <1>0, <1>1, <1>2 DEF Quiet
<1>3. CASE Publish \/ Application \/ Kernel \/ Terminated
  <2>1. UNCHANGED <<stage, pc, cur, result, held>>
    BY <1>3, OthersQuiet
  <2>2. CASE UNCHANGED <<entries, tickets>>
    BY <1>0, <1>1, <2>1, <2>2
  <2>3. CASE \E u \in Token : Close(u)
    <3>1. PICK u \in Token : Close(u)
      BY <2>3
    <3>2. entries[u] # "none" /\ entries' = [entries EXCEPT ![u] = "requested"]
          /\ tickets' = tickets \cup {u}
      BY <3>1 DEF Close
    <3>3. QED
      BY <1>0, <1>1, <2>1, <3>2 DEF TableType
  <2>4. QED
    BY <1>3, <2>2, <2>3, OthersQuiet
<1>4. CASE TaskWorks \/ TaskSends \/ PollReturned
  <2>1. cur \in Live /\ pc = "task" /\ pc' \notin {"unlist", "finish"}
    BY <1>4 DEF TaskWorks, TaskSends, PollReturned, Located, Leaves
  <2>2. Live' = Live
    BY <1>1, <1>4, <2>1, LiveMoves DEF PollReturned
  <2>3. UNCHANGED <<entries, result, held, tickets>>
    BY <1>4 DEF TaskWorks, TaskSends, PollReturned
  <2>4. QED
    BY <1>0, <2>1, <2>2, <2>3
<1>5. CASE DropTask
  <2>1. PICK u \in retiring : cur' = u /\ Live' = Live \ {u}
    BY <1>5, LiveMoves
  <2>2. UNCHANGED <<entries, result, held, tickets>> /\ pc = "retire" /\ pc' = "unlist"
    BY <1>5 DEF DropTask
  <2>3. u \in Live
    BY DEF Located
  <2>4. QED
    BY <1>0, <2>1, <2>2, <2>3
<1>6. CASE FinishTask
  <2>1. /\ UNCHANGED <<stage, entries, tickets>> /\ pc = "finish" /\ held' = {}
        /\ pc' \notin {"unlist", "finish"}
        /\ result'[t] = IF t \in held THEN why ELSE result[t]
    BY <1>6, FinishEffect DEF Ends, Finish
  <2>2. cur \in Token /\ cur \notin Live /\ why # "none"
    BY <2>1 DEF Located, LoopType, CloseResult
  <2>3. QED
    BY <1>0, <1>1, <2>1, <2>2
<1>10. CASE Unlist
  <2>1. /\ pc = "unlist" /\ pc' = "finish" /\ UNCHANGED <<stage, cur, result, tickets>>
        /\ held' = IF entries[cur] = "none" THEN {} ELSE {cur}
        /\ entries' = [entries EXCEPT ![cur] = "none"]
    BY <1>10 DEF Unlist
  <2>2. cur \in Token /\ cur \notin Live /\ entries[cur] # "none"
    BY <2>1 DEF Located, Table
  <2>3. QED
    BY <1>0, <1>1, <2>1, <2>2 DEF TableType
<1>7. CASE StopAll
  <2>1. pc = "stopAll" /\ pc' = "release" /\ UNCHANGED <<stage, tickets, result>>
        /\ entries'[t] = "none" /\ (t \in held' <=> entries[t] # "none")
    BY <1>7 DEF StopAll
  <2>2. QED
    BY <1>0, <1>1, <2>1 DEF Returned
<1>11. CASE Release
  BY <1>0, <1>1, <1>11, ReleaseEffect
<1>8. CASE Accept
  <2>1. /\ UNCHANGED <<result, held, tickets>>
        /\ pc \notin {"unlist", "finish"} /\ pc' \notin {"unlist", "finish"}
    BY <1>8, AcceptEffect DEF Stays, Ends
  <2>2. CASE UNCHANGED <<stage, entries>>
    BY <1>0, <1>1, <2>1, <2>2
  <2>3. CASE TokenLeft /\ Admit(next)
    <3>1. next \in Token /\ Live' = Live \cup {next}
      BY <2>3, LiveMoves
    <3>2. entries' = [entries EXCEPT ![next] = "open"]
      BY <2>3 DEF Admit
    <3>3. result[next] = "none" /\ next \notin tickets /\ next \notin held
      BY <3>1 DEF Fresh, TableType, Token, FIRST_CONNECTION
    <3>4. QED
      BY <1>0, <2>1, <3>1, <3>2, <3>3 DEF TableType
  <2>4. QED
    BY <1>8, <2>2, <2>3, AcceptEffect
<1>9. QED
  BY <1>2, <1>3, <1>4, <1>5, <1>6, <1>7, <1>8, <1>10, <1>11, QuietSteps DEF Next, Worker

\* A stop that was requested stays requested.
LEMMA StopStays ==
    ASSUME SignalType, Next, StopCause # "none"
    PROVE  StopCause' # "none"
<1>1. flags \subseteq flags' \cup {"Control"}
  <2>1. CASE Publish \/ Application \/ Kernel \/ Terminated
    BY <2>1, OthersQuiet
  <2>2. CASE Start \/ TakeFailure \/ CheckStop \/ TakeControl \/ TakeCredits \/ RunReady
    BY <2>2 DEF Start, TakeFailure, CheckStop, TakeControl, TakeCredits, RunReady
  <2>3. CASE \/ TaskWorks \/ TaskSends \/ PollReturned \/ Scan \/ RetireAll \/ DropTask
             \/ Unlist \/ FinishTask \/ Retired \/ StopAll \/ Release
    BY <2>3 DEF TaskWorks, TaskSends, PollReturned, Scan, RetireAll, DropTask, Unlist, FinishTask,
                Retired, StopAll, Release
  <2>4. CASE \/ StartAccept \/ EndAccept \/ Accept \/ AcceptDrained \/ AcceptError
             \/ PollReturns \/ PollFails \/ HandleEvents
    BY <2>4 DEF StartAccept, EndAccept, Accept, AcceptDrained, AcceptError, PollReturns,
                PollFails, HandleEvents
  <2>5. QED
    BY <2>1, <2>2, <2>3, <2>4 DEF Next, Worker
<1>2. QED
  BY <1>1 DEF StopCause

\* drive returns once, and the state it leaves is kept until run returns.
LEMMA ReturnedStep ==
    ASSUME SignalType, LoopType, TaskType, TableType, Located, Returned, Next
    PROVE  Returned'
<1> USE DEF Returned, LoopType, Located, Positions, CloseResult, StopCauses, Failures
<1>0. /\ stage' = stage => Live' = Live
      /\ StopCause # "none" => StopCause' # "none"
      /\ StopCause \in StopCauses \cup {"none"}
  BY LiveMoves, StopStays DEF StopCause
<1>1. CASE Start \/ TakeFailure \/ TakeControl \/ TakeCredits
  BY <1>0, <1>1 DEF Start, TakeFailure, TakeControl, TakeCredits, Leaves, StartsPass
<1>2. CASE CheckStop
  BY <1>0, <1>2 DEF CheckStop, Leaves, StartsPass
<1>3. CASE RunReady
  BY <1>0, <1>3 DEF RunReady, StartsPass
<1>4. CASE TaskWorks \/ TaskSends
  <2>1. /\ pc = "task" /\ UNCHANGED <<pc, pass, outcome, complete>>
    BY <1>4 DEF TaskWorks, TaskSends
  <2>2. Live' = Live
    BY <1>4, <2>1, LiveMoves
  <2>3. QED
    BY <1>0, <2>1, <2>2
<1>6. CASE PollReturned
  BY <1>0, <1>6 DEF PollReturned, Leaves
<1>7. CASE Scan \/ RetireAll \/ Retired \/ Unlist \/ StopAll \/ Release
  BY <1>0, <1>7 DEF Scan, RetireAll, Retired, Unlist, StopAll, Release
<1>8. CASE DropTask
  <2>1. PICK t \in retiring : /\ cur' = t /\ retiring' = retiring \ {t}
                              /\ Live' = Live \ {t}
    BY <1>8, LiveMoves
  <2>2. /\ pc = "retire" /\ pc' = "unlist"
        /\ UNCHANGED <<outcome, complete, why, back>>
    BY <1>8 DEF DropTask
  <2>3. QED
    BY <1>0, <2>1, <2>2
<1>9. CASE FinishTask
  BY <1>0, <1>9 DEF FinishTask, Absorb
<1>10. CASE StartAccept \/ AcceptDrained
  BY <1>0, <1>10 DEF StartAccept, AcceptDrained, Accepting
<1>11. CASE EndAccept
  <2>1. Stays("poll") \/ Ends
    BY <1>11, CountEffect DEF EndAccept, Stays
  <2>2. QED
    BY <1>0, <1>11, <2>1 DEF EndAccept, Stays, Ends
<1>12. CASE Accept
  <2>1. /\ Stays(pc) \/ Ends
        /\ pc = "accepting" /\ UNCHANGED pass
    BY <1>12, AcceptEffect
  <2>2. QED
    BY <1>0, <2>1 DEF Stays, Ends
<1>13. CASE AcceptError
  <2>1. /\ Stays(pc) \/ Stays("poll") \/ Ends
        /\ pc = "accepting" /\ UNCHANGED <<pass, stage>>
    BY <1>13, AcceptErrorEffect
  <2>2. QED
    BY <1>0, <2>1 DEF Stays, Ends
<1>14. CASE PollReturns \/ PollFails \/ HandleEvents
  BY <1>0, <1>14 DEF PollReturns, PollFails, HandleEvents, Leaves
<1>15. CASE Publish \/ Application \/ Kernel \/ Terminated
  BY <1>0, <1>15, OthersQuiet
<1>16. QED
  BY <1>1, <1>2, <1>3, <1>4, <1>6, <1>7, <1>8, <1>9, <1>10, <1>11, <1>12, <1>13,
     <1>14, <1>15 DEF Next, Worker

\* What a pass retires is what its reason says.
LEMMA ReasonsStep ==
    ASSUME SignalType, LoopType, TaskType, TableType, Located, Returned, Fresh, Table, Reasons,
           Next
    PROVE  Reasons'
<1> USE DEF Returned, LoopType, Located, Reasons, Retiring, CloseResult, Failures, StopCauses
<1>0. /\ stage' = stage => Live' = Live
      /\ Live \subseteq Token /\ StopCause \in StopCauses \cup {"none"}
  BY LiveMoves DEF Live, StopCause
<1>1. CASE Start \/ TakeFailure \/ TakeControl \/ TakeCredits
  BY <1>0, <1>1 DEF Start, TakeFailure, TakeControl, TakeCredits, Leaves, StartsPass
<1>2. CASE CheckStop
  BY <1>0, <1>2 DEF CheckStop, Leaves, StartsPass
<1>3. CASE RunReady
  BY <1>0, <1>3 DEF RunReady, StartsPass
<1>4. CASE TaskWorks \/ TaskSends
  <2>1. /\ pc = "task" /\ UNCHANGED <<pc, pass, outcome, completed, tickets>>
    BY <1>4 DEF TaskWorks, TaskSends
  <2>2. Live' = Live
    BY <1>4, <2>1, LiveMoves
  <2>3. QED
    BY <1>0, <2>1, <2>2
<1>6. CASE PollReturned
  BY <1>0, <1>6 DEF PollReturned, Leaves
<1>7. CASE Scan
  <2>1. UNCHANGED <<stage, outcome, tickets, completed>> /\ pc = "scan" /\ outcome = "none"
        /\ \A t \in Token : entries[t] = "requested" => t \in tickets
    BY <1>7 DEF Scan, Table
  <2>2. CASE pc' = "retire" /\ why' = "RetiredByRequest" /\ UNCHANGED retiring
    BY <1>0, <2>1, <2>2
  <2>3. CASE /\ \E t \in todo : retiring' = IF entries[t] = "requested" THEN retiring \cup {t}
                                                                        ELSE retiring
             /\ UNCHANGED <<pc, why>>
    BY <1>0, <2>1, <2>3
  <2>4. QED
    BY <1>7, <2>2, <2>3 DEF Scan
<1>5. CASE RetireAll \/ Retired \/ Unlist \/ StopAll \/ Release
  BY <1>0, <1>5 DEF RetireAll, Retired, Unlist, StopAll, Release
<1>8. CASE DropTask
  <2>1. PICK t \in retiring : /\ cur' = t /\ retiring' = retiring \ {t}
                              /\ Live' = Live \ {t}
    BY <1>8, LiveMoves
  <2>2. /\ pc = "retire" /\ pc' = "unlist"
        /\ UNCHANGED <<outcome, tickets, completed, why, back>>
    BY <1>8 DEF DropTask
  <2>3. QED
    BY <1>0, <2>1, <2>2
<1>9. CASE FinishTask
  <2>1. /\ pc = "finish" /\ UNCHANGED <<stage, tickets, completed, why, back>>
        /\ \/ pc' = "retire" /\ retiring' = retiring
           \/ Ends /\ back # "stopAll" /\ retiring' = {}
    BY <1>9, FinishEffect
  <2>2. outcome # "none" => outcome' # "none"
    BY <1>9 DEF FinishTask
  <2>3. QED
    BY <1>0, <2>1, <2>2 DEF Ends, TableType
<1>10. CASE StartAccept \/ AcceptDrained
  BY <1>0, <1>10 DEF StartAccept, AcceptDrained, Accepting
<1>11. CASE EndAccept
  <2>1. Stays("poll") \/ Ends
    BY <1>11, CountEffect DEF EndAccept, Stays
  <2>2. QED
    BY <1>0, <1>11, <2>1 DEF EndAccept, Stays, Ends
<1>12. CASE Accept
  <2>1. /\ pc' \in {pc, "shutdown"}
        /\ pc = "accepting" /\ UNCHANGED <<pass, completed>>
    BY <1>12, AcceptEffect DEF Stays, Ends
  <2>2. Live' \cap completed = {}
    <3>1. Live \cap completed = {}
      BY <2>1
    <3>2. CASE UNCHANGED stage
      BY <1>0, <3>1, <3>2
    <3>3. CASE TokenLeft /\ Admit(next)
      <4>1. next \notin completed /\ Live' = Live \cup {next}
        BY <3>3, LiveMoves DEF Fresh, Token, FIRST_CONNECTION
      <4>2. QED
        BY <3>1, <4>1
    <3>4. QED
      BY <1>12, <3>2, <3>3, AcceptEffect
  <2>3. QED
    BY <2>1, <2>2
<1>13. CASE AcceptError
  <2>1. /\ pc' \in {pc, "poll", "shutdown"}
        /\ pc = "accepting" /\ UNCHANGED <<pass, stage, completed>>
    BY <1>13, AcceptErrorEffect DEF Stays, Ends
  <2>2. QED
    BY <1>0, <2>1
<1>14. CASE PollReturns \/ PollFails \/ HandleEvents
  BY <1>0, <1>14 DEF PollReturns, PollFails, HandleEvents, Leaves
<1>15. CASE Publish \/ Application \/ Kernel \/ Terminated
  <2>1. UNCHANGED <<stage, pc, pass, cur, outcome, completed>>
    BY <1>15, OthersQuiet
  <2>2. tickets \subseteq tickets'
    BY <1>15, OthersQuiet DEF Close
  <2>3. QED
    BY <1>0, <2>1, <2>2
<1>16. QED
  BY <1>1, <1>2, <1>3, <1>4, <1>5, <1>6, <1>7, <1>8, <1>9, <1>10, <1>11, <1>12, <1>13,
     <1>14, <1>15 DEF Next, Worker

\* drive returns only once.
LEMMA OutcomeStays ==
    ASSUME Next, outcome # "none"
    PROVE  outcome' # "none"
<1>1. CASE \/ Start \/ TakeFailure \/ CheckStop \/ TakeControl \/ TakeCredits \/ RunReady
           \/ TaskWorks \/ TaskSends \/ PollReturned
  BY <1>1 DEF Start, TakeFailure, CheckStop, TakeControl, TakeCredits, RunReady, TaskWorks,
              TaskSends, PollReturned, Leaves
<1>2. CASE Scan \/ RetireAll \/ DropTask \/ Unlist \/ FinishTask \/ Retired \/ StopAll \/ Release
  BY <1>2 DEF Scan, RetireAll, DropTask, Unlist, FinishTask, Retired, StopAll, Release
<1>3. CASE Accept
  BY <1>3, AcceptEffect DEF Stays, Ends, Failures
<1>4. CASE AcceptError
  BY <1>4, AcceptErrorEffect DEF Stays, Ends, Failures
<1>5. CASE EndAccept
  BY <1>5, CountEffect DEF EndAccept, Stays, Ends, Failures
<1>6. CASE StartAccept \/ AcceptDrained \/ PollReturns \/ PollFails \/ HandleEvents
  BY <1>6 DEF StartAccept, AcceptDrained, PollReturns, PollFails, HandleEvents, Leaves
<1>7. CASE Publish \/ Application \/ Kernel \/ Terminated
  BY <1>7, OthersQuiet
<1>8. QED
  BY <1>1, <1>2, <1>3, <1>4, <1>5, <1>6, <1>7 DEF Next, Worker

\* The work of a task that is polled changes no other task, and leaves it
\* where its counters and the channel say it is.
LEMMA TaskEffect ==
    ASSUME TaskType, TableType, Located, Records, TaskWorks \/ TaskSends
    PROVE  /\ cur \in Token /\ cur \in Live
           /\ stage' \in [Token -> Stages] /\ read' \in [Token -> 0..CounterMax]
           /\ wire' \in [Token -> 0..CounterMax] /\ channel' \in [Token -> ChannelType]
           /\ overflow' \subseteq Token
           /\ \A t \in Token \ {cur} : /\ stage'[t] = stage[t] /\ read'[t] = read[t]
                                       /\ wire'[t] = wire[t] /\ channel'[t] = channel[t]
           /\ Handed(stage'[cur], read'[cur], wire'[cur], channel'[cur])
           /\ channel'[cur].conn # "none"
<1>0. cur \in Token /\ cur \in Live /\ Handed(stage[cur], read[cur], wire[cur], channel[cur])
      /\ channel[cur] \in ChannelType
  BY DEF TaskWorks, TaskSends, Located, Live, Records, TableType
<1>1. CASE TaskWorks
  <2>1. UNCHANGED <<channel, wire>>
    BY <1>1 DEF TaskWorks
  <2>2. CASE stage[cur] = "new" /\ stage' = [stage EXCEPT ![cur] = "connected"]
             /\ UNCHANGED <<read, overflow>>
    BY <1>0, <2>1, <2>2 DEF TaskType, TableType, Handed, Stages, PendingStages
  <2>3. CASE stage[cur] = "read" /\ read[cur] < CounterMax /\ read' = [read EXCEPT ![cur] = @ + 1]
             /\ stage' = [stage EXCEPT ![cur] = "copy"] /\ UNCHANGED overflow
    BY <1>0, <2>1, <2>3, DriveConstants
       DEF TaskType, TableType, ChannelType, Handed, Stages, PendingStages
  <2>4. CASE stage[cur] = "read" /\ stage' = [stage EXCEPT ![cur] = "ended"]
             /\ UNCHANGED read /\ overflow' \subseteq overflow \cup {cur}
    BY <1>0, <2>1, <2>4 DEF TaskType, TableType, Handed, Stages, PendingStages
  <2>5. CASE stage[cur] = "copy" /\ stage' = [stage EXCEPT ![cur] = "wire"]
             /\ UNCHANGED <<read, overflow>>
    BY <1>0, <2>1, <2>5 DEF TaskType, TableType, Handed, Stages, PendingStages
  <2>6. QED
    BY <1>1, <2>2, <2>3, <2>4, <2>5 DEF TaskWorks
<1>2. CASE TaskSends /\ consumer = "alive"
  <2>1. /\ stage[cur] \in {"connected", "wire", "ended"} /\ UNCHANGED <<read, overflow>>
        /\ stage' = [stage EXCEPT ![cur] = IF stage[cur] = "ended" THEN "done" ELSE "read"]
        /\ wire' = [wire EXCEPT ![cur] = IF stage[cur] = "wire" THEN wire[cur] + 1 ELSE wire[cur]]
    BY <1>2 DEF TaskSends
  <2>2. channel' = [channel EXCEPT ![cur] =
                       [conn |-> IF stage[cur] = "ended" THEN "ended" ELSE "open",
                        wire |-> IF stage[cur] = "wire" THEN channel[cur].wire + 1
                                 ELSE channel[cur].wire]]
    BY <1>0, <1>2, ChannelMoves
  <2>3. read[cur] \in 0..CounterMax /\ wire[cur] \in 0..CounterMax /\ channel[cur].wire \in Nat
    BY <1>0 DEF TaskType, ChannelType
  <2>4. stage' \in [Token -> Stages]
    BY <2>1 DEF TaskType, Stages
  <2>5. wire' \in [Token -> 0..CounterMax]
    <3>1. stage[cur] = "wire" => wire[cur] + 1 = read[cur]
      BY <1>0, <2>3 DEF Handed
    <3>2. QED
      BY <2>1, <2>3, <3>1, DriveConstants DEF TaskType
  <2>6. channel' \in [Token -> ChannelType]
    <3> DEFINE x == IF stage[cur] = "ended" THEN "ended" ELSE "open"
               n == IF stage[cur] = "wire" THEN channel[cur].wire + 1 ELSE channel[cur].wire
    <3>1. x \in {"ended", "open"} /\ n \in Nat
      BY <2>3
    <3> HIDE DEF x, n
    <3>2. [conn |-> x, wire |-> n] \in ChannelType
      BY <3>1 DEF ChannelType
    <3>3. channel' = [channel EXCEPT ![cur] = [conn |-> x, wire |-> n]]
      BY <2>2 DEF x, n
    <3>4. QED
      BY <3>2, <3>3 DEF TableType
  <2>7. Handed(stage'[cur], read'[cur], wire'[cur], channel'[cur])
    BY <1>0, <2>1, <2>2, <2>3 DEF Handed, TaskType, TableType
  <2>8. QED
    BY <1>0, <2>1, <2>2, <2>4, <2>5, <2>6, <2>7 DEF TaskType, TableType
<1>3. CASE TaskSends /\ consumer # "alive"
  BY <1>0, <1>3 DEF TaskSends, TaskType, TableType, Handed, Stages, PendingStages
<1>4. QED
  BY <1>1, <1>2, <1>3

\* Every step keeps the tasks in shape.
LEMMA TaskTypeStep ==
    ASSUME LoopType, TaskType, TableType, Located, Records, Next, Located'
    PROVE  TaskType'
<1>1. runnable' \subseteq Token
  BY DEF Located, Live
<1>2. CASE Quiet
  BY <1>1, <1>2 DEF Quiet, TaskType
<1>3. CASE Publish \/ Application \/ Kernel \/ Terminated
  BY <1>3, OthersQuiet DEF TaskType
<1>4. CASE TaskWorks \/ TaskSends
  <2>1. progress' = progress
    BY <1>4 DEF TaskWorks, TaskSends
  <2>2. QED
    BY <1>1, <1>4, <2>1, TaskEffect DEF TaskType
<1>5. CASE PollReturned \/ Unlist \/ StopAll \/ Release
  BY <1>1, <1>5 DEF PollReturned, Unlist, StopAll, Release, TaskType
<1>6. CASE DropTask
  <2>1. PICK t \in retiring :
              /\ stage' = [stage EXCEPT ![t] = "none"]
              /\ read' = [read EXCEPT ![t] = 0] /\ wire' = [wire EXCEPT ![t] = 0]
              /\ overflow' = overflow \ {t}
              /\ progress' = [stage |-> stage[t], read |-> read[t], wire |-> wire[t],
                              overflow |-> t \in overflow]
    BY <1>6, Zenon DEF DropTask
  <2>2. QED
    BY <1>1, <2>1, DriveConstants DEF TaskType, LoopType, Stages
<1>7. CASE FinishTask
  <2>1. NoProgress \in [stage : Stages, read : 0..CounterMax, wire : 0..CounterMax,
                        overflow : BOOLEAN]
    BY DriveConstants DEF NoProgress, Stages
  <2>2. QED
    BY <1>1, <1>7, <2>1, FinishEffect DEF TaskType
<1>8. CASE Accept
  <2>1. UNCHANGED <<read, wire, overflow, progress>>
    BY <1>8, AcceptEffect
  <2>2. UNCHANGED stage \/ (next \in Token /\ stage' = [stage EXCEPT ![next] = "new"])
    BY <1>8, AcceptEffect, LiveMoves DEF Admit
  <2>3. QED
    BY <1>1, <2>1, <2>2 DEF TaskType, Stages
<1>9. QED
  BY <1>2, <1>3, <1>4, <1>5, <1>6, <1>7, <1>8, QuietSteps DEF Next, Worker

\* Every step keeps tasks, channel and progress in agreement.
LEMMA RecordsStep ==
    ASSUME LoopType, TaskType, TableType, Located, Returned, Fresh, Records, Next
    PROVE  Records'
<1>0. /\ stage' = stage => Live' = Live
      /\ Live \subseteq Token
      /\ outcome' = "none" => outcome = "none"
  BY LiveMoves, OutcomeStays DEF Live
<1>1. CASE UNCHANGED <<stage, read, wire, channel, next>> /\ pc' \notin {"unlist", "finish"}
  BY <1>0, <1>1 DEF Records
<1>2. CASE Quiet
  BY <1>1, <1>2 DEF Quiet
<1>3. CASE Publish \/ Application \/ Kernel \/ Terminated
  BY <1>0, <1>3, OthersQuiet DEF Records
<1>4. CASE TaskWorks \/ TaskSends
  <2>1. pc' = "task" /\ UNCHANGED <<outcome, next>> /\ Live' = Live
    BY <1>4, LiveMoves DEF TaskWorks, TaskSends, Located
  <2>2. /\ cur \in Live
        /\ \A t \in Token \ {cur} : /\ stage'[t] = stage[t] /\ read'[t] = read[t]
                                    /\ wire'[t] = wire[t] /\ channel'[t] = channel[t]
        /\ Handed(stage'[cur], read'[cur], wire'[cur], channel'[cur])
        /\ channel'[cur].conn # "none"
    BY <1>4, TaskEffect
  <2>3. \A t \in Live' : Handed(stage'[t], read'[t], wire'[t], channel'[t])
    BY <1>0, <2>1, <2>2 DEF Records
  <2>4. QED
    BY <1>0, <2>1, <2>2, <2>3 DEF Records
<1>5. CASE PollReturned \/ StopAll \/ Release
  BY <1>1, <1>5 DEF PollReturned, StopAll, Release, Leaves
<1>10. CASE Unlist
  <2>1. UNCHANGED <<stage, read, wire, channel, next, cur, progress>> /\ pc = "unlist"
    BY <1>10 DEF Unlist
  <2>2. QED
    BY <1>0, <2>1 DEF Records
<1>6. CASE DropTask
  <2>1. PICK t \in retiring :
              /\ cur' = t
              /\ stage' = [stage EXCEPT ![t] = "none"]
              /\ read' = [read EXCEPT ![t] = 0] /\ wire' = [wire EXCEPT ![t] = 0]
              /\ progress' = [stage |-> stage[t], read |-> read[t], wire |-> wire[t],
                              overflow |-> t \in overflow]
              /\ channel' = [channel EXCEPT ![t].conn = IF @ = "ended" THEN @ ELSE "dropped"]
    BY <1>6, Zenon DEF DropTask
  <2>2. t \in Live /\ t \in Token /\ UNCHANGED <<outcome, next>> /\ Live' = Live \ {t}
    BY <1>0, <1>6, <2>1 DEF Located, DropTask, Live, TaskType
  <2>3. channel' = [channel EXCEPT ![t] =
                       [conn |-> IF channel[t].conn = "ended" THEN "ended" ELSE "dropped",
                        wire |-> channel[t].wire]]
    BY <2>1, <2>2, ChannelMoves
  <2>4. Handed(stage[t], read[t], wire[t], channel[t]) /\ channel[t] \in ChannelType
    BY <2>2 DEF Records, TableType
  <2>5. channel'[t].conn = (IF stage[t] = "done" THEN "ended" ELSE "dropped")
        /\ channel'[t].wire = channel[t].wire
    BY <2>2, <2>3, <2>4 DEF TableType, Handed
  <2>6. Left(progress', channel'[cur'])
    BY <2>1, <2>4, <2>5 DEF Left, Handed
  <2>7. \A u \in Token \ {t} : /\ stage'[u] = stage[u] /\ read'[u] = read[u]
                               /\ wire'[u] = wire[u] /\ channel'[u] = channel[u]
    BY <2>1, <2>3 DEF TaskType, TableType
  <2>8. read'[t] = 0 /\ wire'[t] = 0
    BY <2>1, <2>2 DEF TaskType
  <2>9. QED
    BY <1>0, <2>2, <2>5, <2>6, <2>7, <2>8 DEF Records
<1>7. CASE FinishTask
  BY <1>1, <1>7, FinishEffect DEF Ends
<1>8. CASE Accept
  <2>1. UNCHANGED <<read, wire>> /\ pc' \notin {"unlist", "finish"} /\ outcome = "none"
    BY <1>8, AcceptEffect DEF Stays, Ends, Returned
  <2>2. CASE UNCHANGED <<next, stage, channel>>
    BY <1>1, <2>1, <2>2
  <2>3. CASE Ends /\ UNCHANGED <<stage, channel>>
    BY <1>0, <2>1, <2>3 DEF Records, Ends, Failures
  <2>4. CASE TokenLeft /\ next' = next + 1 /\ Admit(next)
    <3>1. next \in Token /\ Live' = Live \cup {next} /\ next \notin Live
          /\ channel[next].conn = "none"
      BY <2>4, LiveMoves DEF Fresh, Token, FIRST_CONNECTION
    <3>2. channel' = [channel EXCEPT ![next] = [conn |-> "accepted", wire |-> channel[next].wire]]
          /\ stage' = [stage EXCEPT ![next] = "new"]
      BY <2>4, <3>1, ChannelMoves DEF Admit
    <3>3. Handed(stage'[next], read'[next], wire'[next], channel'[next])
          /\ channel'[next].conn = "accepted"
      BY <2>1, <3>1, <3>2 DEF Handed, Records, TaskType, TableType
    <3>4. \A u \in Token \ {next} : stage'[u] = stage[u] /\ channel'[u] = channel[u]
      BY <3>2 DEF TaskType, TableType
    <3>5. \A t \in Token : t < next' => t < next \/ t = next
      BY <2>4, <3>1 DEF Token, FIRST_CONNECTION
    <3>6. QED
      BY <1>0, <2>1, <3>1, <3>3, <3>4, <3>5 DEF Records
  <2>5. QED
    BY <1>8, <2>2, <2>3, <2>4, AcceptEffect
<1>9. QED
  BY <1>2, <1>3, <1>4, <1>5, <1>6, <1>7, <1>8, <1>10, QuietSteps DEF Next, Worker

\* Every step keeps what the threads and the kernel share in shape.
LEMMA SignalTypeStep ==
    ASSUME SignalType, LoopType, TaskType, Located, Next
    PROVE  SignalType'
<1> USE DEF SignalType
<1>1. CASE \/ Start \/ TakeFailure \/ CheckStop \/ TakeControl \/ TakeCredits \/ RunReady
           \/ TaskWorks \/ TaskSends \/ PollReturned
  BY <1>1 DEF Start, TakeFailure, CheckStop, TakeControl, TakeCredits, RunReady, TaskWorks,
              TaskSends, PollReturned
<1>2. CASE Scan \/ RetireAll \/ Unlist \/ FinishTask \/ Retired \/ StopAll \/ Release
  BY <1>2 DEF Scan, RetireAll, Unlist, FinishTask, Retired, StopAll, Release
<1>3. CASE DropTask
  <2>1. /\ UNCHANGED <<flags, failure, pub, batch, consumer, listener_ready, paused, backlog,
                       arrivals>>
        /\ events' \subseteq events
    BY <1>3 DEF DropTask
  <2>2. QED
    BY <2>1
<1>4. CASE Accept
  BY <1>4, AcceptEffect
<1>5. CASE AcceptError
  <2>1. paused' \in BOOLEAN
    <3>1. (summary.pauses < CounterMax) \in BOOLEAN
      OBVIOUS
    <3>2. QED
      BY <1>5, <3>1, AcceptErrorEffect, Zenon
  <2>2. UNCHANGED <<flags, failure, pub, events, batch, consumer, listener_ready, backlog,
                    arrivals>>
    BY <1>5, AcceptErrorEffect
  <2>3. QED
    BY <2>1, <2>2
<1>6. CASE EndAccept
  <2>1. paused' \in BOOLEAN
    <3>1. (summary.backoffs < CounterMax) \in BOOLEAN
      OBVIOUS
    <3>2. QED
      BY <1>6, <3>1, Zenon DEF EndAccept
  <2>2. UNCHANGED <<flags, failure, pub, events, batch, consumer, listener_ready, backlog,
                    arrivals>>
    BY <1>6 DEF EndAccept
  <2>3. QED
    BY <2>1, <2>2
<1>7. CASE StartAccept \/ AcceptDrained \/ PollReturns \/ PollFails \/ HandleEvents
  BY <1>7 DEF StartAccept, AcceptDrained, PollReturns, PollFails, HandleEvents
<1>8. CASE Publish \/ Application
  <2>1. UNCHANGED <<batch, listener_ready, paused, backlog, arrivals>>
    BY <1>8 DEF Publish, Raise, Wake, Application, Stop, DropRecords, Close
  <2>2. consumer' \in {"alive", "gone"}
    BY <1>8 DEF Publish, Raise, Wake, Application, Stop, DropRecords, Close
  <2>3. failure' \in BOOLEAN
    BY <1>8 DEF Publish, Raise, Wake, Application, Stop, DropRecords, Close
  <2>4. events' \subseteq Token \cup {LISTENER, CONTROL}
    BY <1>8 DEF Publish, Raise, Wake, Application, Stop, DropRecords, Close
  <2>5. flags' \subseteq Signal
    BY <1>8 DEF Publish, Raise, Wake, Application, Stop, DropRecords, Close
  <2>6. pub' \in [Thread -> {"idle", "wake"} \cup Signal]
    BY <1>8 DEF Publish, Raise, Wake, Application, Stop, DropRecords, Close, Signal
  <2>7. QED
    BY <2>1, <2>2, <2>3, <2>4, <2>5, <2>6
<1>9. CASE Kernel
  <2>1. UNCHANGED <<flags, failure, pub, batch, consumer, listener_ready>>
    BY <1>9 DEF Kernel, Arrive, TaskReady, PauseElapses
  <2>2. paused' \in BOOLEAN
    BY <1>9 DEF Kernel, Arrive, TaskReady, PauseElapses
  <2>3. events' \subseteq Token \cup {LISTENER, CONTROL}
    BY <1>9 DEF Kernel, Arrive, TaskReady, PauseElapses
  <2>4. backlog' \in Nat /\ arrivals' \in Nat
    BY <1>9 DEF Kernel, Arrive, TaskReady, PauseElapses
  <2>5. QED
    BY <2>1, <2>2, <2>3, <2>4
<1>10. CASE Terminated
  BY <1>10 DEF Terminated, vars
<1>11. QED
  BY <1>1, <1>2, <1>3, <1>4, <1>5, <1>6, <1>7, <1>8, <1>9, <1>10 DEF Next, Worker

\* Fewer tasks than the limit are live when one is admitted.
LEMMA LiveBound ==
    ASSUME TaskType, TableType, LoopType, Located, Next, Cardinality(Live) <= MaxConnections
    PROVE  Cardinality(Live') <= MaxConnections
<1>0. IsFiniteSet(Live) /\ Cardinality(Live) \in Nat /\ (stage' = stage => Live' = Live)
      /\ MaxConnections \in Nat
  <2>1. IsFiniteSet(Token)
    BY FS_Interval, DriveConstants DEF Token, FIRST_CONNECTION
  <2>2. QED
    BY <2>1, FS_Subset, FS_CardinalityType, LiveMoves, DriveConstants DEF Live
<1>1. CASE UNCHANGED stage
  BY <1>0, <1>1
<1>2. CASE Quiet
  BY <1>1, <1>2 DEF Quiet
<1>3. CASE Publish \/ Application \/ Kernel \/ Terminated
  BY <1>1, <1>3, OthersQuiet
<1>4. CASE TaskWorks \/ TaskSends
  <2>1. Live' = Live
    BY <1>4, LiveMoves DEF TaskWorks, TaskSends, Located
  <2>2. QED
    BY <2>1
<1>5. CASE PollReturned \/ Unlist \/ StopAll \/ Release
  BY <1>1, <1>5 DEF PollReturned, Unlist, StopAll, Release
<1>6. CASE DropTask
  <2>1. PICK t \in retiring : Live' = Live \ {t}
    BY <1>6, LiveMoves
  <2>2. Cardinality(Live \ {t}) <= Cardinality(Live) /\ Cardinality(Live \ {t}) \in Nat
    BY <1>0, FS_Subset, FS_CardinalityType
  <2>3. QED
    BY <1>0, <2>1, <2>2
<1>7. CASE FinishTask
  BY <1>1, <1>7, FinishEffect
<1>8. CASE Accept
  <2>1. CASE ~Refuse /\ TokenLeft /\ Admit(next)
    <3>1. Live' = Live \cup {next}
      BY <2>1, LiveMoves
    <3>2. Cardinality(Live') = Cardinality(Live) \/ Cardinality(Live') = Cardinality(Live) + 1
      BY <1>0, <3>1, FS_AddElement
    <3>3. Cardinality(Live) # MaxConnections
      BY <2>1 DEF Refuse
    <3>4. QED
      BY <1>0, <3>2, <3>3
  <2>2. QED
    BY <1>1, <1>8, <2>1, AcceptEffect
<1>9. QED
  BY <1>2, <1>3, <1>4, <1>5, <1>6, <1>7, <1>8, QuietSteps DEF Next, Worker

-----------------------------------------------------------------------------
(* The run summary.                                                        *)

\* What merge_progress adds for one task, and when a summary fits.
LEMMA MergedIs ==
    ASSUME NEW s \in SummaryType, NEW p, p.read \in Nat, p.wire \in Nat
    PROVE  /\ Merged(s, p) \in SummaryType
           /\ Merged(s, p).accepted = s.accepted /\ Merged(s, p).closed = s.closed
           /\ Merged(s, p).ended = IF p.stage = "done" THEN s.ended + 1 ELSE s.ended
           /\ Merged(s, p).abandoned = IF p.stage = "done" THEN s.abandoned ELSE s.abandoned + 1
           /\ Merged(s, p).read = s.read + p.read
           /\ Merged(s, p).handed = s.handed + p.wire
           /\ Merged(s, p).undelivered = IF p.stage \in PendingStages THEN s.undelivered + 1
                                                                      ELSE s.undelivered
<1> DEFINE e == IF p.stage = "done" THEN s.ended + 1 ELSE s.ended
           a == IF p.stage = "done" THEN s.abandoned ELSE s.abandoned + 1
           u == IF p.stage \in PendingStages THEN s.undelivered + 1 ELSE s.undelivered
           R(v, w, x, y, z) ==
               [accepted |-> s.accepted, refused |-> s.refused, ended |-> v, abandoned |-> w,
                closed |-> s.closed, live |-> s.live, read |-> x, handed |-> y,
                undelivered |-> z, transient |-> s.transient, pauses |-> s.pauses,
                backoffs |-> s.backoffs]
           s1 == [s EXCEPT !.ended = e]
           s2 == [s1 EXCEPT !.abandoned = a]
           s3 == [s2 EXCEPT !.read = s.read + p.read]
           s4 == [s3 EXCEPT !.handed = s.handed + p.wire]
           s5 == [s4 EXCEPT !.undelivered = u]
<1>0. Merged(s, p) = s5
  BY DEF Merged
<1>1. e \in Nat /\ a \in Nat /\ u \in Nat /\ s.read + p.read \in Nat /\ s.handed + p.wire \in Nat
  BY DEF SummaryType
<1> HIDE DEF e, a, u
<1>2. s1 = R(e, s.abandoned, s.read, s.handed, s.undelivered)
  BY DEF SummaryType
<1> HIDE DEF s1
<1>3. s2 = R(e, a, s.read, s.handed, s.undelivered)
  BY <1>2
<1> HIDE DEF s2
<1>4. s3 = R(e, a, s.read + p.read, s.handed, s.undelivered)
  BY <1>3
<1> HIDE DEF s3
<1>5. s4 = R(e, a, s.read + p.read, s.handed + p.wire, s.undelivered)
  BY <1>4
<1> HIDE DEF s4
<1>6. Merged(s, p) = R(e, a, s.read + p.read, s.handed + p.wire, u)
  BY <1>0, <1>5
<1>7. Merged(s, p) \in SummaryType
  BY <1>1, <1>6 DEF SummaryType
<1>8. QED
  BY <1>6, <1>7 DEF e, a, u

\* Fits, counter by counter.
LEMMA FitsIs ==
    ASSUME NEW s \in SummaryType
    PROVE  Fits(s) <=> /\ s.accepted <= CounterMax /\ s.refused <= CounterMax
                       /\ s.ended <= CounterMax /\ s.abandoned <= CounterMax
                       /\ s.closed <= CounterMax /\ s.read <= CounterMax
                       /\ s.handed <= CounterMax /\ s.undelivered <= CounterMax
                       /\ s.transient <= CounterMax /\ s.pauses <= CounterMax
                       /\ s.backoffs <= CounterMax
  BY DEF SummaryType, Fits

\* What the connections are accounted with is unchanged.
BooksKept ==
    /\ summary'.accepted = summary.accepted /\ summary'.ended = summary.ended
    /\ summary'.abandoned = summary.abandoned /\ summary'.closed = summary.closed
    /\ summary'.read = summary.read /\ summary'.handed = summary.handed
    /\ summary'.undelivered = summary.undelivered
    /\ complete' => complete

\* Leaving drive and the worker's own counters leave the account alone.
LEMMA LeavesBooks ==
    ASSUME BookType, IsFiniteSet(Live), NEW cause, Leaves(cause)
    PROVE  BookType' /\ BooksKept
<1>1. Cardinality(Live) \in Nat
  BY FS_CardinalityType
<1>2. summary' = [summary EXCEPT !.live = Cardinality(Live)] /\ summary \in SummaryType
  BY DEF Leaves, BookType
<1>3. summary' \in SummaryType
  BY <1>1, <1>2 DEF SummaryType
<1>4. Fits(summary')
  BY <1>2, <1>3, FitsIs DEF BookType, SummaryType
<1>5. complete' \in BOOLEAN /\ (complete' => complete)
  BY Zenon DEF Leaves, BookType
<1>6. QED
  BY <1>2, <1>3, <1>4, <1>5 DEF BookType, BooksKept, SummaryType

\* The counters of the listener are no part of the account of connections.
LEMMA CountBooks ==
    ASSUME BookType, IsFiniteSet(Live),
           NEW f \in {"refused", "transient", "pauses", "backoffs"}, NEW p, Count(f, p)
    PROVE  BookType' /\ BooksKept
<1>1. CASE Leaves("CounterExhausted")
  BY <1>1, LeavesBooks
<1>2. CASE summary[f] < CounterMax /\ complete' = complete
           /\ summary' = [summary EXCEPT ![f] = summary[f] + 1]
  <2>1. summary \in SummaryType
    BY DEF BookType
  <2>2. summary' \in SummaryType
    BY <1>2, <2>1 DEF SummaryType
  <2>3. Fits(summary')
    <3>1. DOMAIN summary' = DOMAIN summary
      BY <1>2
    <3>2. \A g \in DOMAIN summary : summary'[g] = IF g = f THEN summary[f] + 1 ELSE summary[g]
      BY <1>2
    <3>3. summary[f] \in Nat /\ summary[f] + 1 <= CounterMax
      BY <1>2, <2>1, DriveConstants DEF SummaryType
    <3>4. QED
      BY <3>1, <3>2, <3>3 DEF BookType, Fits
  <2>4. QED
    BY <1>2, <2>1, <2>2, <2>3 DEF BookType, BooksKept, SummaryType
<1>3. QED
  BY <1>1, <1>2 DEF Count

\* retire_with accounts for the task it dropped, all or nothing; if nothing,
\* the counters are no longer complete.
LEMMA FinishBooks ==
    ASSUME BookType, TaskType, Returned, IsFiniteSet(Live), FinishTask
    PROVE  /\ BookType'
           /\ complete' =>
                 /\ complete
                 /\ summary'.accepted = summary.accepted
                 /\ summary'.closed = IF why = "RetiredByRequest" THEN summary.closed + 1
                                                                  ELSE summary.closed
                 /\ summary'.ended = IF progress.stage = "done" THEN summary.ended + 1
                                                                ELSE summary.ended
                 /\ summary'.abandoned = IF progress.stage = "done" THEN summary.abandoned
                                                                    ELSE summary.abandoned + 1
                 /\ summary'.read = summary.read + progress.read
                 /\ summary'.handed = summary.handed + progress.wire
                 /\ summary'.undelivered <= IF progress.stage = "done" THEN summary.undelivered
                                                                       ELSE summary.undelivered + 1
<1> DEFINE s == IF why = "RetiredByRequest" THEN [summary EXCEPT !.closed = @ + 1] ELSE summary
           m == Merged(s, progress)
           n == Cardinality(Live)
           ok == Fits(m) /\ ~progress.overflow
           done == IF Fits(s) THEN Absorb(s, progress)
                   ELSE [summary |-> summary, complete |-> complete, ok |-> FALSE]
<1>1. summary \in SummaryType /\ Fits(summary) /\ complete \in BOOLEAN
      /\ progress.read \in Nat /\ progress.wire \in Nat /\ n \in Nat
  BY DriveConstants, FS_CardinalityType DEF BookType, TaskType
<1>2. /\ s \in SummaryType
      /\ s.closed = IF why = "RetiredByRequest" THEN summary.closed + 1 ELSE summary.closed
      /\ s.accepted = summary.accepted /\ s.ended = summary.ended
      /\ s.abandoned = summary.abandoned /\ s.read = summary.read /\ s.handed = summary.handed
      /\ s.undelivered = summary.undelivered
      /\ why # "RetiredByRequest" => s = summary
  BY <1>1 DEF SummaryType
<1>3. pc = "finish" /\ (back = "stopAll" => why # "RetiredByRequest")
  BY DEF FinishTask, Returned
<1>4. /\ IF done.ok \/ back = "stopAll"
         THEN summary' = done.summary /\ complete' = done.complete
         ELSE summary' = [done.summary EXCEPT !.live = n] /\ complete' = FALSE
  BY Zenon DEF FinishTask
<1> HIDE DEF s, n
<1>5. Fits(s) => /\ done.summary = IF Fits(m) THEN m ELSE s
                 /\ done.complete = (complete /\ ok) /\ done.ok = ok
  BY DEF Absorb
<1>6. ~Fits(s) => done.summary = summary /\ done.ok = FALSE
  OBVIOUS
<1> HIDE DEF done
<1>7. m \in SummaryType
  BY <1>1, <1>2, MergedIs
<1>8. done.summary \in SummaryType /\ Fits(done.summary)
  BY <1>1, <1>2, <1>5, <1>6, <1>7
<1>9. complete' \in BOOLEAN /\ (complete' => complete /\ ok /\ Fits(s))
  <2>1. CASE Fits(s)
    BY <1>4, <1>5, <2>1, Zenon
  <2>2. CASE ~Fits(s)
    BY <1>1, <1>2, <1>3, <1>4, <1>6, <2>2
  <2>3. QED
    BY <2>1, <2>2
<1>10. summary' \in SummaryType /\ Fits(summary')
  <2>1. \A r \in SummaryType : Fits(r) => [r EXCEPT !.live = n] \in SummaryType
                                          /\ Fits([r EXCEPT !.live = n])
    BY <1>1 DEF SummaryType, Fits
  <2>2. QED
    BY <1>4, <1>8, <2>1
<1>11. complete' => summary' = m
  BY <1>4, <1>5, <1>9
<1>12. "done" \notin PendingStages
  BY DEF PendingStages
<1>13. QED
  BY <1>1, <1>2, <1>7, <1>9, <1>10, <1>11, <1>12, MergedIs DEF BookType, SummaryType

\* The sets the summary is compared with, and steps that leave them alone.
LEMMA BooksFinite ==
    ASSUME TableType
    PROVE  /\ IsFiniteSet(Token) /\ IsFiniteSet(Live) /\ IsFiniteSet(Admitted)
           /\ IsFiniteSet(Requested) /\ \A states : IsFiniteSet(Gone(states))
           /\ \A states : Gone(states) \subseteq Token
           /\ Wires \in [Token -> Int] /\ \A t \in Token : Wires[t] = channel[t].wire
<1>1. IsFiniteSet(Token)
  BY FS_Interval, DriveConstants DEF Token, FIRST_CONNECTION
<1>2. /\ Live \in SUBSET Token /\ Admitted \in SUBSET Token /\ Requested \in SUBSET Token
      /\ \A states : Gone(states) \in SUBSET Token
  BY DEF Live, Admitted, Requested, Gone
<1>3. \A S \in SUBSET Token : IsFiniteSet(S)
  BY <1>1, FS_Subset
<1>4. Wires \in [Token -> Int]
  BY DEF Wires, TableType, ChannelType
<1>5. QED
  BY <1>1, <1>2, <1>3, <1>4 DEF Wires

\* A step that moves no connection and leaves the account alone keeps the books.
LEMMA BooksQuiet ==
    ASSUME Books, BooksKept, UNCHANGED <<channel, result>>, Live' = Live,
           \/ pc \notin {"unlist", "finish"} /\ pc' \notin {"unlist", "finish"}
           \/ pc = "unlist" /\ pc' = "finish" /\ UNCHANGED cur
           \/ UNCHANGED <<pc, cur>>
    PROVE  Books'
<1>1. Admitted' = Admitted /\ Requested' = Requested /\ Wires' = Wires
  BY DEF Admitted, Requested, Wires
<1>2. \A states : Gone(states)' = Gone(states)
  BY DEF Gone
<1>3. Gone({"ended"})' = Gone({"ended"}) /\ Gone({"dropped"})' = Gone({"dropped"})
      /\ Gone({"ended", "dropped"})' = Gone({"ended", "dropped"})
  BY <1>2
<1>4. QED
  BY <1>1, <1>3 DEF Books, BooksKept

\* A send changes the record of a live connection only.
LEMMA SendBooks ==
    ASSUME TaskType, TableType, TableType', Located, Records, Books, TaskSends
    PROVE  Books'
<1>1. /\ cur \in Live /\ cur \in Token /\ pc = "task" /\ pc' = "task" /\ Live' = Live
      /\ UNCHANGED <<result, summary, complete>>
  BY LiveMoves DEF TaskSends, Located, Live
<1>2. \A t \in Token \ {cur} : channel'[t] = channel[t]
  BY TaskEffect
<1>3. channel[cur].conn # "none" /\ channel'[cur].conn # "none"
  BY <1>1, TaskEffect DEF Records, Handed, TaskSends
<1>4. Admitted' = Admitted
  BY <1>2, <1>3 DEF Admitted
<1>5. Gone({"ended"})' = Gone({"ended"}) /\ Gone({"dropped"})' = Gone({"dropped"})
      /\ Gone({"ended", "dropped"})' = Gone({"ended", "dropped"})
  BY <1>1, <1>2 DEF Gone
<1>6. Requested' = Requested
  BY <1>1 DEF Requested
<1>7. SumFunctionOnSet(Wires', Gone({"ended", "dropped"}))
        = SumFunctionOnSet(Wires, Gone({"ended", "dropped"}))
  <2> DEFINE G == Gone({"ended", "dropped"})
  <2>1. IsFiniteSet(Token) /\ G \subseteq Token
        /\ Wires \in [Token -> Int] /\ \A t \in Token : Wires[t] = channel[t].wire
    BY BooksFinite
  <2>2. Wires' \in [Token -> Int] /\ \A t \in Token : Wires'[t] = channel'[t].wire
    BY DEF Wires, TableType, ChannelType
  <2>3. cur \notin G
    BY <1>1 DEF Gone
  <2>4. \A t \in G : Wires[t] = Wires'[t]
    BY <1>2, <2>1, <2>2, <2>3
  <2> HIDE DEF G
  <2>5. SumFunctionOnSet(Wires, G) = SumFunctionOnSet(Wires', G)
    BY <2>1, <2>2, <2>4, SumSame
  <2>6. QED
    BY <2>5 DEF G
<1>8. QED
  BY <1>1, <1>4, <1>5, <1>6, <1>7 DEF Books

\* A dropped task is not gone before its progress is absorbed.
LEMMA DropBooks ==
    ASSUME LoopType, TaskType, TableType, Located, Records, Books, DropTask
    PROVE  Books'
<1>1. PICK t \in retiring :
          /\ cur' = t /\ stage' = [stage EXCEPT ![t] = "none"]
          /\ channel' = [channel EXCEPT ![t].conn = IF @ = "ended" THEN @ ELSE "dropped"]
  BY Zenon DEF DropTask
<1>2. /\ pc = "retire" /\ pc' = "unlist" /\ t \in Live /\ t \in Token
      /\ Live' = Live \ {t} /\ UNCHANGED <<result, summary, complete>>
  BY <1>1 DEF DropTask, Located, LoopType, Live, TaskType
<1>3. channel' = [channel EXCEPT ![t] =
                     [conn |-> IF channel[t].conn = "ended" THEN "ended" ELSE "dropped",
                      wire |-> channel[t].wire]]
  BY <1>1, <1>2, ChannelMoves
<1>4. /\ \A u \in Token : u # t => channel'[u] = channel[u]
      /\ channel'[t].conn # "none" /\ channel'[t].wire = channel[t].wire
  BY <1>2, <1>3 DEF TableType
<1>5. channel[t].conn # "none"
  BY <1>2 DEF Records, Handed, Live, TaskType, Stages, PendingStages
<1>6. Admitted' = Admitted
  BY <1>4, <1>5 DEF Admitted
<1>7. Wires' = Wires
  BY <1>2, <1>4 DEF Wires
<1>8. Gone({"ended"})' = Gone({"ended"}) /\ Gone({"dropped"})' = Gone({"dropped"})
      /\ Gone({"ended", "dropped"})' = Gone({"ended", "dropped"})
  BY <1>1, <1>2, <1>4 DEF Gone
<1>9. Requested' = Requested
  BY <1>2 DEF Requested
<1>10. QED
  BY <1>2, <1>6, <1>7, <1>8, <1>9 DEF Books

\* The absorbed connection is gone, and the summary has grown by what it left.
LEMMA AbsorbBooks ==
    ASSUME LoopType, TaskType, TableType, Located, Returned, Table, Records, BookType, Books,
           FinishTask
    PROVE  Books'
<1> SUFFICES ASSUME complete' PROVE Books'
  BY DEF Books
<1>1. /\ pc = "finish" /\ pc' \notin {"unlist", "finish"} /\ cur \in Token /\ cur \notin Live
      /\ Live' = Live /\ UNCHANGED channel /\ Left(progress, channel[cur])
  BY FinishEffect, LiveMoves DEF Located, Ends, Records
<1>2. /\ \A t \in Token : result'[t] = IF t = cur THEN why ELSE result[t]
      /\ result[cur] = "none"
  BY <1>1, FinishEffect DEF Finish, Table
<1>3. Wires' = Wires /\ Admitted' = Admitted
  BY <1>1 DEF Wires, Admitted
<1> DEFINE E == Gone({"ended"})
           D == Gone({"dropped"})
           B == Gone({"ended", "dropped"})
           isDone == progress.stage = "done"
<1>4. cur \notin E /\ cur \notin D /\ cur \notin B
  BY <1>1 DEF Gone
<1>5. /\ E' = IF isDone THEN E \cup {cur} ELSE E
      /\ D' = IF isDone THEN D ELSE D \cup {cur}
      /\ B' = B \cup {cur}
  BY <1>1 DEF Gone, Left
<1>6. Requested' = (IF why = "RetiredByRequest" THEN Requested \cup {cur} ELSE Requested)
      /\ cur \notin Requested
  BY <1>1, <1>2 DEF Requested, TableType
<1>7. /\ IsFiniteSet(Token) /\ IsFiniteSet(E) /\ IsFiniteSet(D) /\ B \subseteq Token
      /\ IsFiniteSet(Requested) /\ Wires \in [Token -> Int] /\ Wires[cur] = channel[cur].wire
      /\ IsFiniteSet(Live)
  BY <1>1, BooksFinite
<1> HIDE DEF E, D, B
<1>8. /\ Cardinality(E \cup {cur}) = Cardinality(E) + 1
      /\ Cardinality(D \cup {cur}) = Cardinality(D) + 1
      /\ Cardinality(Requested \cup {cur}) = Cardinality(Requested) + 1
  BY <1>4, <1>6, <1>7, FS_AddElement
<1>9. SumFunctionOnSet(Wires, B \cup {cur}) = SumFunctionOnSet(Wires, B) + progress.wire
  <2>1. SumFunctionOnSet(Wires, B \cup {cur}) = SumFunctionOnSet(Wires, B) + Wires[cur]
    BY <1>1, <1>4, <1>7, SumAdd
  <2>2. QED
    BY <1>1, <1>7, <2>1 DEF Left
<1>10. /\ complete
       /\ summary.accepted = Cardinality(Admitted) /\ summary.ended = Cardinality(E)
       /\ summary.abandoned = Cardinality(D) /\ summary.closed = Cardinality(Requested)
       /\ summary.handed = SumFunctionOnSet(Wires, B) /\ summary.handed <= summary.read
       /\ summary.read - summary.handed <= summary.abandoned
       /\ summary.undelivered <= summary.abandoned
  BY <1>7, FinishBooks DEF Books, E, D, B
<1>11. /\ summary'.accepted = summary.accepted
       /\ summary'.closed = IF why = "RetiredByRequest" THEN summary.closed + 1 ELSE summary.closed
       /\ summary'.ended = IF isDone THEN summary.ended + 1 ELSE summary.ended
       /\ summary'.abandoned = IF isDone THEN summary.abandoned ELSE summary.abandoned + 1
       /\ summary'.read = summary.read + progress.read
       /\ summary'.handed = summary.handed + progress.wire
       /\ summary'.undelivered <= IF isDone THEN summary.undelivered ELSE summary.undelivered + 1
  BY <1>7, FinishBooks
<1>12. /\ progress.wire <= progress.read /\ progress.read <= progress.wire + 1
       /\ isDone => progress.read = progress.wire
       /\ progress.read \in Nat /\ progress.wire \in Nat
  BY <1>1, DriveConstants DEF Left, TaskType
<1>13. summary \in SummaryType /\ summary' \in SummaryType
  BY <1>7, FinishBooks DEF BookType
<1>14. /\ summary'.handed <= summary'.read
       /\ summary'.read - summary'.handed <= summary'.abandoned
       /\ summary'.undelivered <= summary'.abandoned
  BY <1>10, <1>11, <1>12, <1>13 DEF SummaryType
<1>15. /\ summary'.accepted = Cardinality(Admitted') /\ summary'.closed = Cardinality(Requested')
  BY <1>3, <1>6, <1>8, <1>10, <1>11
<1>16. summary'.ended = Cardinality(E') /\ summary'.abandoned = Cardinality(D')
  BY <1>5, <1>8, <1>10, <1>11
<1>17. summary'.handed = SumFunctionOnSet(Wires', B')
  BY <1>3, <1>5, <1>9, <1>10, <1>11
<1>18. QED
  BY <1>14, <1>15, <1>16, <1>17 DEF Books, E, D, B

\* accept_ready counts what it refuses and what it admits.
LEMMA AcceptBooks ==
    ASSUME LoopType, TaskType, TableType, Located, Fresh, Records, BookType, Books, Accept,
           TableType'
    PROVE  BookType' /\ Books'
<1>0. /\ pc = "accepting" /\ pc' \in {"accepting", "shutdown"} /\ result' = result
      /\ IsFiniteSet(Live) /\ IsFiniteSet(Admitted)
      /\ stage' = stage => Live' = Live
  BY AcceptEffect, BooksFinite, LiveMoves DEF Stays, Ends
<1>1. CASE BookType' /\ BooksKept /\ UNCHANGED <<stage, channel>>
  BY <1>0, <1>1, BooksQuiet
<1>2. CASE Count("refused", pc) /\ UNCHANGED <<stage, channel>>
  BY <1>0, <1>1, <1>2, CountBooks
<1>3. CASE UNCHANGED <<stage, channel>> /\ (Leaves("TokenExhausted") \/ Leaves("Io"))
  BY <1>0, <1>1, <1>3, LeavesBooks
<1>4. CASE ~Refuse /\ TokenLeft /\ Admit(next)
  <2>1. /\ next \in Token /\ Live' = Live \cup {next} /\ next \notin Live
        /\ channel[next].conn = "none"
    BY <1>4, LiveMoves DEF Fresh, Token, FIRST_CONNECTION
  <2>2. channel' = [channel EXCEPT ![next] = [conn |-> "accepted", wire |-> channel[next].wire]]
    BY <1>4, <2>1, ChannelMoves
  <2>3. /\ channel'[next].conn = "accepted" /\ channel'[next].wire = channel[next].wire
        /\ \A t \in Token : t # next => channel'[t] = channel[t]
    BY <2>1, <2>2 DEF TableType
  <2>4. Wires' = Wires /\ Requested' = Requested
    BY <1>0, <2>3 DEF Wires, Requested
  <2>5. Gone({"ended"})' = Gone({"ended"}) /\ Gone({"dropped"})' = Gone({"dropped"})
        /\ Gone({"ended", "dropped"})' = Gone({"ended", "dropped"})
    BY <1>0, <2>1, <2>3 DEF Gone
  <2>6. Admitted' = Admitted \cup {next} /\ next \notin Admitted
    BY <2>1, <2>3 DEF Admitted
  <2>7. Cardinality(Admitted') = Cardinality(Admitted) + 1
    BY <1>0, <2>6, FS_AddElement
  <2>8. summary \in SummaryType /\ Fits(summary)
    BY DEF BookType
  <2>9. CASE summary.accepted < CounterMax /\ complete' = complete
             /\ summary' = [summary EXCEPT !.accepted = summary.accepted + 1]
    <3>1. summary' \in SummaryType
      BY <2>8, <2>9 DEF SummaryType
    <3>2. /\ summary'.accepted = summary.accepted + 1 /\ summary'.ended = summary.ended
          /\ summary'.abandoned = summary.abandoned /\ summary'.closed = summary.closed
          /\ summary'.read = summary.read /\ summary'.handed = summary.handed
          /\ summary'.undelivered = summary.undelivered
      BY <2>8, <2>9 DEF SummaryType
    <3>3. Fits(summary')
      <4>1. DOMAIN summary' = DOMAIN summary
        BY <2>9
      <4>2. \A g \in DOMAIN summary : summary'[g] = IF g = "accepted" THEN summary.accepted + 1
                                                                     ELSE summary[g]
        BY <2>9
      <4>3. summary.accepted + 1 <= CounterMax
        BY <2>8, <2>9, DriveConstants DEF SummaryType
      <4>4. QED
        BY <2>8, <4>1, <4>2, <4>3 DEF Fits
    <3>4. Books'
      BY <2>4, <2>5, <2>7, <2>9, <3>2 DEF Books
    <3>5. QED
      BY <2>9, <3>1, <3>3, <3>4 DEF BookType
  <2>10. CASE /\ complete' = FALSE
              /\ summary' = [summary EXCEPT !.live = Cardinality(Live) + 1]
    <3>1. Cardinality(Live) + 1 \in Nat
      BY <1>0, FS_CardinalityType
    <3>2. summary' \in SummaryType /\ Fits(summary')
      BY <2>8, <2>10, <3>1 DEF SummaryType, Fits
    <3>3. QED
      BY <2>10, <3>2 DEF BookType, Books
  <2>11. QED
    BY <1>4, <2>9, <2>10 DEF Admit
<1>5. QED
  BY <1>2, <1>3, <1>4 DEF Accept

\* Every step keeps the summary within its range, and true.
LEMMA BooksStep ==
    ASSUME LoopType, TaskType, TableType, Located, Returned, Fresh, Table, Records, BookType,
           Books, Next, TableType'
    PROVE  BookType' /\ Books'
<1>0. IsFiniteSet(Live) /\ (stage' = stage => Live' = Live)
  BY BooksFinite, LiveMoves
<1>1. ASSUME UNCHANGED <<summary, complete>>
      PROVE  BookType' /\ BooksKept
  BY <1>1 DEF BookType, BooksKept
<1>2. CASE Quiet
  <2>1. BookType' /\ BooksKept
    <3>1. CASE UNCHANGED <<summary, complete>>
      BY <1>1, <3>1
    <3>2. CASE \E cause : Leaves(cause)
      BY <1>0, <3>2, LeavesBooks
    <3>3. CASE \E f \in {"refused", "transient", "pauses", "backoffs"} : \E p : Count(f, p)
      BY <1>0, <3>3, CountBooks
    <3>4. CASE EndAccept
      BY <3>1, <3>3, <3>4 DEF EndAccept
    <3>5. CASE AcceptError
      BY <3>2, <3>3, <3>5 DEF AcceptError
    <3>6. CASE TakeFailure \/ CheckStop \/ PollFails \/ PollReturned
      BY <3>1, <3>2, <3>6 DEF TakeFailure, CheckStop, PollFails, PollReturned
    <3>7. CASE \/ Start \/ TakeControl \/ TakeCredits \/ RunReady \/ Scan \/ RetireAll \/ Retired
               \/ Unlist \/ StopAll \/ Release \/ StartAccept \/ AcceptDrained \/ PollReturns \/ HandleEvents
               \/ TaskWorks \/ TaskSends \/ DropTask
      BY <3>1, <3>7 DEF Start, TakeControl, TakeCredits, RunReady, Scan, RetireAll, Retired,
                        Unlist, StopAll, Release, StartAccept, AcceptDrained, PollReturns, HandleEvents,
                        TaskWorks, TaskSends, DropTask
    <3>8. CASE Publish \/ Application \/ Kernel \/ Terminated
      BY <3>1, <3>8, OthersQuiet
    <3>9. CASE FinishTask
      BY <1>2, <3>9, FinishEffect DEF Quiet
    <3>10. CASE Accept
      BY <1>0, <1>2, <3>1, <3>2, <3>3, <3>10 DEF Accept, Quiet, Admit, TokenLeft, TableType, Token,
                 FIRST_CONNECTION
    <3>11. QED
      BY <3>4, <3>5, <3>6, <3>7, <3>8, <3>9, <3>10 DEF Next, Worker
  <2>2. QED
    BY <1>0, <1>2, <2>1, BooksQuiet DEF Quiet
<1>3. CASE Publish \/ Application \/ Kernel \/ Terminated
  <2>1. UNCHANGED <<summary, complete, channel, result, stage, pc, cur>>
    BY <1>3, OthersQuiet
  <2>2. QED
    BY <1>0, <1>1, <2>1, BooksQuiet
<1>4. CASE TaskWorks
  <2>1. UNCHANGED <<summary, complete, channel, result, pc, cur>> /\ Live' = Live
    BY <1>4, LiveMoves DEF TaskWorks, Located
  <2>2. QED
    BY <1>1, <2>1, BooksQuiet
<1>5. CASE TaskSends
  <2>1. UNCHANGED <<summary, complete>>
    BY <1>5 DEF TaskSends
  <2>2. QED
    BY <1>1, <1>5, <2>1, SendBooks
<1>6. CASE PollReturned
  <2>1. /\ UNCHANGED <<channel, result, stage>>
        /\ pc \notin {"unlist", "finish"} /\ pc' \notin {"unlist", "finish"}
    BY <1>6 DEF PollReturned, Leaves
  <2>2. UNCHANGED <<summary, complete>> \/ Leaves("CounterExhausted")
    BY <1>6 DEF PollReturned
  <2>3. QED
    BY <1>0, <1>1, <2>1, <2>2, LeavesBooks, BooksQuiet
<1>7. CASE DropTask
  <2>1. UNCHANGED <<summary, complete>>
    BY <1>7 DEF DropTask
  <2>2. QED
    BY <1>1, <1>7, <2>1, DropBooks
<1>8. CASE FinishTask
  BY <1>0, <1>8, FinishBooks, AbsorbBooks
<1>9. CASE Unlist \/ StopAll \/ Release
  <2>1. UNCHANGED <<summary, complete, channel, stage, result, cur>>
    BY <1>9, ReleaseEffect DEF Unlist, StopAll
  <2>2. \/ pc = "unlist" /\ pc' = "finish"
        \/ pc \notin {"unlist", "finish"} /\ pc' \notin {"unlist", "finish"}
    BY <1>9, ReleaseEffect DEF Unlist, StopAll
  <2>3. QED
    BY <1>0, <1>1, <2>1, <2>2, BooksQuiet
<1>10. CASE Accept
  BY <1>10, AcceptBooks
<1>11. QED
  BY <1>2, <1>3, <1>4, <1>5, <1>6, <1>7, <1>8, <1>9, <1>10, QuietSteps DEF Next, Worker

-----------------------------------------------------------------------------
(* Answers, the listener and the signals.                                  *)

\* Every result that is published is true, and stays so.
LEMMA AnswersStep ==
    ASSUME SignalType, LoopType, TaskType, TableType, Located, Returned, Table, Reasons,
           Answers, Next
    PROVE  Answers'
<1>0. outcome # "none" => outcome' # "none"
  BY OutcomeStays
<1>1. CASE UNCHANGED <<result, completed>> /\ tickets \subseteq tickets'
  BY <1>0, <1>1 DEF Answers
<1>2. CASE Quiet
  BY <1>1, <1>2 DEF Quiet
<1>3. CASE Publish \/ Application \/ Kernel \/ Terminated
  BY <1>1, <1>3, OthersQuiet DEF Close
<1>4. CASE TaskWorks \/ TaskSends \/ DropTask
  BY <1>1, <1>4 DEF TaskWorks, TaskSends, DropTask
<1>5. CASE PollReturned
  <2>1. UNCHANGED <<result, tickets>> /\ completed' \in {completed, completed \cup {cur}}
        /\ cur \in Live
    BY <1>5 DEF PollReturned, Located
  <2>2. result[cur] = "none"
    BY <2>1 DEF Table, Live
  <2>3. QED
    BY <1>0, <2>1, <2>2 DEF Answers
<1>6. CASE FinishTask
  <2>1. UNCHANGED <<tickets, completed>> /\ pc = "finish" /\ cur \in Token
        /\ \A t \in Token : result'[t] = IF t = cur THEN why ELSE result[t]
    BY <1>6, FinishEffect DEF Finish, Located, Table
  <2>2. why = "RetiredByRequest" => cur \in tickets /\ cur \notin completed
    BY <2>1 DEF Reasons, Retiring
  <2>3. why = "ConnectionEnded" => cur \in completed
    BY <2>1 DEF Reasons, Retiring
  <2>4. why = "ReceiverStopped" => outcome # "none"
    BY <2>1 DEF Returned
  <2>5. QED
    BY <1>0, <2>1, <2>2, <2>3, <2>4 DEF Answers
<1>7. CASE Unlist \/ StopAll \/ Release
  BY <1>1, <1>7, ReleaseEffect DEF Unlist, StopAll
<1>8. CASE Accept
  BY <1>1, <1>8, AcceptEffect
<1>9. QED
  BY <1>2, <1>3, <1>4, <1>5, <1>6, <1>7, <1>8, QuietSteps DEF Next, Worker

\* The listener's readiness is dropped only when accept found the queue empty.
LEMMA HeardStep ==
    ASSUME SignalType, LoopType, Located, Heard, Next
    PROVE  Heard'
<1> USE DEF Heard, NoLostListener, Attached
<1>1. CASE UNCHANGED <<events, batch, backlog, listener_ready>> /\ pc # "events" /\ pc # "start"
           /\ pc' \notin {"start", "unstarted"} /\ (pc = "done" => pc' = "done")
  BY <1>1
<1>2. CASE Start
  BY <1>2 DEF Start
<1>3. CASE TakeFailure \/ CheckStop \/ TakeControl \/ TakeCredits \/ RunReady
  BY <1>1, <1>3 DEF TakeFailure, CheckStop, TakeControl, TakeCredits, RunReady, Leaves, StartsPass
<1>4. CASE TaskWorks \/ TaskSends \/ PollReturned
  BY <1>1, <1>4 DEF TaskWorks, TaskSends, PollReturned, Leaves
<1>5. CASE Scan \/ RetireAll \/ Unlist \/ Retired \/ StopAll \/ Release
  BY <1>1, <1>5 DEF Scan, RetireAll, Unlist, Retired, StopAll, Release, Located
<1>6. CASE FinishTask
  BY <1>1, <1>6, FinishEffect DEF Ends
<1>7. CASE DropTask
  <2>1. UNCHANGED <<batch, backlog, listener_ready>> /\ pc = "retire" /\ pc' = "unlist"
    BY <1>7 DEF DropTask
  <2>2. LISTENER \in events => LISTENER \in events'
    BY <1>7, DriveConstants DEF DropTask, LoopType, Token, LISTENER, FIRST_CONNECTION
  <2>3. QED
    BY <2>1, <2>2
<1>8. CASE StartAccept
  BY <1>8 DEF StartAccept
<1>9. CASE EndAccept
  <2>1. Stays("poll") \/ Ends
    BY <1>9, CountEffect DEF EndAccept, Stays
  <2>2. QED
    BY <1>9, <2>1 DEF EndAccept, Stays, Ends
<1>10. CASE Accept
  BY <1>10, AcceptEffect DEF Stays, Ends, SignalType
<1>11. CASE AcceptError
  BY <1>11, AcceptErrorEffect DEF Stays, Ends
<1>12. CASE AcceptDrained
  BY <1>12 DEF AcceptDrained, Accepting
<1>13. CASE PollReturns \/ PollFails \/ HandleEvents
  BY <1>13 DEF PollReturns, PollFails, HandleEvents, Leaves
<1>14. CASE Publish \/ Application
  <2>1. UNCHANGED <<pc, batch, backlog, listener_ready>> /\ events \subseteq events'
    BY <1>14 DEF Publish, Raise, Wake, Application, Stop, DropRecords, Close
  <2>2. QED
    BY <2>1
<1>15. CASE Kernel \/ Terminated
  BY <1>15 DEF Kernel, Arrive, TaskReady, PauseElapses, Terminated, vars
<1>16. QED
  BY <1>2, <1>3, <1>4, <1>5, <1>6, <1>7, <1>8, <1>9, <1>10, <1>11, <1>12, <1>13, <1>14, <1>15
     DEF Next, Worker

\* A signal on its way is lost by nobody: only a poll that returned it, or the
\* worker that takes the failure, makes it go away.
LEMMA PendingStays ==
    ASSUME SignalType, LoopType, Located, Next, Attached, Pending, ~TakeFailure, ~PollReturns
    PROVE  Pending'
<1> USE DEF Pending, SignalType
<1>1. CASE UNCHANGED <<events, failure, pub>>
  BY <1>1
<1>2. CASE \/ Start \/ CheckStop \/ TakeControl \/ TakeCredits \/ RunReady \/ TaskWorks
           \/ TaskSends \/ PollReturned \/ Scan \/ RetireAll \/ Unlist \/ FinishTask \/ Retired
           \/ StopAll \/ Release
  BY <1>1, <1>2 DEF Start, CheckStop, TakeControl, TakeCredits, RunReady, TaskWorks, TaskSends,
                    PollReturned, Scan, RetireAll, Unlist, FinishTask, Retired, StopAll, Release
<1>3. CASE \/ StartAccept \/ EndAccept \/ Accept \/ AcceptDrained \/ AcceptError
           \/ PollFails \/ HandleEvents
  BY <1>1, <1>3 DEF StartAccept, EndAccept, Accept, AcceptDrained, AcceptError, PollFails,
                    HandleEvents
<1>4. CASE DropTask
  <2>1. UNCHANGED <<failure, pub>>
    BY <1>4 DEF DropTask
  <2>2. CONTROL \in events => CONTROL \in events'
    BY <1>4, DriveConstants DEF DropTask, LoopType, Token, CONTROL, FIRST_CONNECTION
  <2>3. QED
    BY <2>1, <2>2
<1>5. CASE \E th \in Thread : Raise(th)
  BY <1>5 DEF Raise, Signal
<1>6. CASE \E th \in Thread : Wake(th)
  BY <1>6 DEF Wake
<1>7. CASE Application
  <2>1. (CONTROL \in events => CONTROL \in events') /\ failure' = failure
        /\ \A th \in Thread : pub'[th] = "idle" => pub[th] = "idle"
    BY <1>7 DEF Application, Stop, DropRecords, Close, Thread
  <2>2. QED
    BY <2>1
<1>8. CASE Kernel \/ Terminated
  BY <1>8 DEF Kernel, Arrive, TaskReady, PauseElapses, Terminated, vars
<1>9. QED
  BY <1>2, <1>3, <1>4, <1>5, <1>6, <1>7, <1>8 DEF Next, Worker, Publish
\* A stop that appears, and a request that appears, come with their signal.
LEMMA SignalRaised ==
    ASSUME SignalType, TableType, LoopType, Located, Next
    PROVE  /\ StopCause = "none" /\ StopCause' # "none" => Pending'
           /\ \A t \in Token : entries'[t] = "requested" /\ entries[t] # "requested" => Pending'
<1> USE DEF SignalType, Pending
<1>1. CASE UNCHANGED <<flags, entries>>
  BY <1>1 DEF StopCause
<1>3. CASE TakeControl
  BY <1>3 DEF TakeControl, StopCause
<1>4. CASE TaskWorks \/ TaskSends \/ PollReturned \/ DropTask
  BY <1>1, <1>4 DEF TaskWorks, TaskSends, PollReturned, DropTask
<1>5. CASE Unlist
  <2>1. UNCHANGED flags /\ entries' = [entries EXCEPT ![cur] = "none"]
    BY <1>5 DEF Unlist
  <2>2. QED
    BY <2>1 DEF StopCause, TableType
<1>6. CASE FinishTask \/ StopAll \/ Release
  BY <1>1, <1>6, FinishEffect DEF StopAll, Release, StopCause
<1>7. CASE Accept
  <2>1. UNCHANGED flags /\ (UNCHANGED entries \/ entries' = [entries EXCEPT ![next] = "open"])
    BY <1>7, AcceptEffect DEF Admit
  <2>2. QED
    BY <2>1 DEF StopCause, TableType
<1>8. CASE \E th \in Thread : Raise(th)
  BY <1>8 DEF Raise
<1>9. CASE \E t \in Token : Close(t)
  <2>1. pub'["closer"] = "Control" /\ "closer" \in Thread
    BY <1>9 DEF Close, Thread
  <2>2. QED
    BY <2>1
<1>10. CASE (\E th \in Thread : Wake(th)) \/ Stop \/ DropRecords \/ Kernel \/ Terminated
  BY <1>1, <1>10 DEF Wake, Stop, DropRecords, Kernel, Arrive, TaskReady, PauseElapses, Terminated,
                     vars
<1>11. CASE \/ Start \/ TakeFailure \/ CheckStop \/ TakeCredits \/ RunReady \/ Scan \/ RetireAll
            \/ Retired
  BY <1>1, <1>11 DEF Start, TakeFailure, CheckStop, TakeCredits, RunReady, Scan, RetireAll, Retired
<1>12. CASE \/ StartAccept \/ EndAccept \/ AcceptDrained \/ AcceptError \/ PollReturns \/ PollFails
            \/ HandleEvents
  BY <1>1, <1>12 DEF StartAccept, EndAccept, AcceptDrained, AcceptError, PollReturns, PollFails,
                     HandleEvents
<1>13. QED
  BY <1>3, <1>4, <1>5, <1>6, <1>7, <1>8, <1>9, <1>10, <1>11, <1>12
     DEF Next, Worker, Publish, Application

\* Where the worker was before a step that leaves it between the checks and
\* the poll.
LEMMA Between ==
    ASSUME LoopType, Located, Returned, Next,
           pc' \notin {"start", "unstarted", "top", "stop1", "events"}, outcome' = "none"
    PROVE  /\ ~TakeFailure /\ ~PollReturns
           /\ outcome = "none" /\ Attached
           /\ \/ pc \notin {"start", "unstarted", "top", "stop1", "events"}
              \/ StopCause = "none"
<1>1. outcome = "none"
  BY OutcomeStays
<1>2. ~TakeFailure /\ ~PollReturns
  BY DEF TakeFailure, PollReturns, Leaves
<1>3. CASE Publish \/ Application \/ Kernel \/ Terminated
  BY <1>1, <1>2, <1>3, OthersQuiet DEF Returned, Attached
<1>4. CASE Start \/ TakeFailure \/ PollReturns \/ PollFails \/ HandleEvents
  BY <1>4 DEF Start, TakeFailure, PollReturns, PollFails, HandleEvents, Leaves
<1>5. CASE CheckStop
  BY <1>1, <1>2, <1>5 DEF CheckStop, Leaves, StopCause, Attached
<1>6. CASE \/ TakeControl \/ TakeCredits \/ RunReady \/ TaskWorks \/ TaskSends \/ PollReturned
           \/ Scan \/ RetireAll \/ DropTask \/ Unlist \/ FinishTask \/ Retired
  BY <1>1, <1>2, <1>6 DEF TakeControl, TakeCredits, RunReady, TaskWorks, TaskSends, PollReturned,
                          Scan, RetireAll, DropTask, Unlist, FinishTask, Retired, Attached
<1>7. CASE \/ StopAll \/ Release \/ StartAccept \/ EndAccept \/ Accept \/ AcceptDrained
           \/ AcceptError
  BY <1>1, <1>2, <1>7 DEF StopAll, Release, StartAccept, EndAccept, Accept, AcceptDrained, AcceptError,
                          Accepting, Attached
<1>8. QED
  BY <1>3, <1>4, <1>5, <1>6, <1>7 DEF Next, Worker

\* A live task that the last pass of this turn has examined was examined
\* before the step, or had not asked to be closed when it was.
LEMMA ExaminedStep ==
    ASSUME LoopType, TaskType, TableType, Located, Returned, Fresh, Next, Examined',
           outcome' = "none", NEW t \in Live' \ (todo' \cup retiring'),
           entries'[t] = "requested", entries[t] = "requested"
    PROVE  Examined /\ t \in Live \ (todo \cup retiring) /\ ~TakeFailure /\ ~PollReturns /\ Attached
<1> USE DEF Examined
<1>0. /\ stage' = stage => Live' = Live
      /\ ~TakeFailure /\ ~PollReturns /\ Attached /\ outcome = "none"
  BY LiveMoves, Between
<1>1. CASE UNCHANGED <<pc, pass, stage>>
  BY <1>0, <1>1
<1>2. CASE Start \/ PollFails \/ HandleEvents \/ TakeControl \/ TakeCredits
  BY <1>2 DEF Start, PollFails, HandleEvents, TakeControl, TakeCredits, StartsPass, Leaves
<1>3. CASE CheckStop
  BY <1>0, <1>3 DEF CheckStop, StartsPass, Leaves, Located
<1>4. CASE RunReady
  BY <1>0, <1>4 DEF RunReady, StartsPass
<1>5. CASE TaskWorks \/ TaskSends \/ PollReturned
  BY <1>5 DEF TaskWorks, TaskSends, PollReturned, Leaves
<1>6. CASE Scan
  BY <1>0, <1>6 DEF Scan
<1>7. CASE RetireAll \/ Unlist \/ StopAll \/ Release
  BY <1>0, <1>7 DEF RetireAll, Unlist, StopAll, Release
<1>8. CASE Retired
  BY <1>0, <1>8 DEF Retired, Located
<1>9. CASE DropTask
  <2>1. PICK u \in retiring : retiring' = retiring \ {u} /\ Live' = Live \ {u}
    BY <1>9, LiveMoves
  <2>2. pc = "retire" /\ pc' = "unlist" /\ UNCHANGED <<back, todo>>
    BY <1>9 DEF DropTask
  <2>3. QED
    BY <1>0, <2>1, <2>2
<1>10. CASE FinishTask
  BY <1>0, <1>10, FinishEffect DEF Ends
<1>11. CASE StartAccept
  BY <1>0, <1>11 DEF StartAccept
<1>12. CASE EndAccept \/ AcceptDrained \/ AcceptError
  <2>1. pc = "accepting" /\ UNCHANGED <<pass, stage>>
    BY <1>12 DEF EndAccept, AcceptDrained, AcceptError, Accepting
  <2>2. QED
    BY <1>0, <2>1
<1>13. CASE Accept
  <2>1. pc = "accepting" /\ UNCHANGED pass
    BY <1>13, AcceptEffect
  <2>2. CASE UNCHANGED stage
    BY <1>0, <2>1, <2>2
  <2>3. CASE TokenLeft /\ Admit(next)
    <3>1. next \in Token /\ Live' = Live \cup {next} /\ entries' = [entries EXCEPT ![next] = "open"]
      BY <2>3, LiveMoves DEF Admit
    <3>2. t # next
      BY <3>1 DEF TableType
    <3>3. QED
      BY <1>0, <2>1, <3>1, <3>2
  <2>4. QED
    BY <1>13, <2>2, <2>3, AcceptEffect
<1>14. CASE Publish \/ Application \/ Kernel \/ Terminated
  BY <1>1, <1>14, OthersQuiet
<1>15. QED
  BY <1>0, <1>2, <1>3, <1>4, <1>5, <1>6, <1>7, <1>8, <1>9, <1>10, <1>11, <1>12, <1>13, <1>14
     DEF Next, Worker

\* Between the checks of a turn and its poll no stop and no request is silent.
LEMMA AlertStep ==
    ASSUME SignalType, LoopType, TaskType, TableType, Located, Returned, Fresh, Alert, Next,
           Returned'
    PROVE  Alert'
<1>1. ASSUME StopCause' # "none", outcome' = "none",
             pc' \notin {"start", "unstarted", "top", "stop1", "events"}
      PROVE  Pending'
  <2>1. CASE StopCause = "none"
    BY <1>1, <2>1, SignalRaised
  <2>2. CASE StopCause # "none"
    <3>1. Pending /\ Attached /\ ~TakeFailure /\ ~PollReturns
      BY <1>1, <2>2, Between DEF Alert
    <3>2. QED
      BY <3>1, PendingStays
  <2>3. QED
    BY <2>1, <2>2
<1>2. ASSUME Examined', NEW t \in Live' \ (todo' \cup retiring'), entries'[t] = "requested"
      PROVE  Pending'
  <2>0. outcome' = "none" /\ t \in Token
    BY <1>2 DEF Examined, Returned, Live
  <2>1. CASE entries[t] # "requested"
    BY <1>2, <2>0, <2>1, SignalRaised
  <2>2. CASE entries[t] = "requested"
    <3>1. Examined /\ t \in Live \ (todo \cup retiring) /\ Attached /\ ~TakeFailure /\ ~PollReturns
      BY <1>2, <2>0, <2>2, ExaminedStep
    <3>2. Pending
      BY <2>2, <3>1 DEF Alert
    <3>3. QED
      BY <3>1, <3>2, PendingStays
  <2>3. QED
    BY <2>1, <2>2
<1>3. QED
  BY <1>1, <1>2 DEF Alert

-----------------------------------------------------------------------------
(* The theorems.                                                           *)

DriveInv ==
    /\ SignalType /\ LoopType /\ TaskType /\ TableType /\ BookType
    /\ Located /\ Returned /\ Fresh /\ Table /\ Reasons /\ Records /\ Books
    /\ Answers /\ Heard /\ Alert /\ Cardinality(Live) <= MaxConnections

\* A receiver starts with an empty table, no task and empty books.
LEMMA DriveInvInit == Init => DriveInv
<1> SUFFICES ASSUME Init PROVE DriveInv
  OBVIOUS
<1>1. SignalType /\ LoopType
  BY DEF Init, SignalType, LoopType, Positions, CloseResult, Thread
<1>2. TaskType
  BY DriveConstants DEF Init, TaskType, NoProgress, Stages
<1>3. TableType
  <2>1. channel \in [Token -> ChannelType]
    BY DEF Init, ChannelType
  <2>2. next \in FIRST_CONNECTION..TokenMax
    BY DriveConstants DEF Init, FIRST_CONNECTION
  <2>3. QED
    BY <2>1, <2>2 DEF Init, TableType
<1>4. summary \in SummaryType /\ Fits(summary) /\ complete \in BOOLEAN
  BY DriveConstants DEF Init, SummaryType, Fits
<1>5. Live = {}
  BY DEF Init, Live
<1>6. Located /\ Returned
  BY <1>5 DEF Init, Located, Returned, StopCauses
<1>7. Fresh /\ Table
  BY <1>5 DEF Init, Fresh, Table
<1>8. Records
  <2>1. \A t \in Token : channel[t].conn = "none" /\ channel[t].wire = 0
                         /\ read[t] = 0 /\ wire[t] = 0
    BY DEF Init
  <2>2. pc \notin {"unlist", "finish"} /\ \A t \in Token : ~(t < next)
    BY DEF Init, Token, FIRST_CONNECTION
  <2>3. QED
    BY <1>5, <2>1, <2>2 DEF Records
<1>9. Reasons /\ Answers
  BY <1>5 DEF Init, Reasons, Retiring, Answers
<1>10. Heard /\ Alert
  BY <1>5 DEF Init, Heard, NoLostListener, Attached, Alert, Examined
<1>11. Cardinality(Live) = 0 /\ MaxConnections \in Nat
  BY <1>5, FS_EmptySet, DriveConstants
<1>12. Books
  <2>1. Admitted = {} /\ Requested = {} /\ \A states : "none" \notin states => Gone(states) = {}
    BY DEF Init, Admitted, Requested, Gone
  <2>2. Gone({"ended"}) = {} /\ Gone({"dropped"}) = {} /\ Gone({"ended", "dropped"}) = {}
    BY <2>1
  <2>3. SumFunctionOnSet(Wires, {}) = 0
    BY <1>3, BooksFinite, SumRec
  <2>4. /\ summary.accepted = 0 /\ summary.ended = 0 /\ summary.abandoned = 0
        /\ summary.closed = 0 /\ summary.handed = 0 /\ summary.read = 0
        /\ summary.undelivered = 0
    BY DEF Init
  <2>5. QED
    BY <2>1, <2>2, <2>3, <2>4, FS_EmptySet DEF Books
<1>13. QED
  BY <1>1, <1>2, <1>3, <1>4, <1>6, <1>7, <1>8, <1>9, <1>10, <1>11, <1>12 DEF DriveInv, BookType

\* Every step of the worker, the other threads and the kernel keeps the invariant.
LEMMA DriveInvStep == DriveInv /\ [Next]_vars => DriveInv'
<1> SUFFICES ASSUME DriveInv, [Next]_vars PROVE DriveInv'
  OBVIOUS
<1>1. CASE Next
  <2>1. SignalType' /\ LoopType' /\ Located' /\ TableType'
    BY <1>1, SignalTypeStep, LocatedStep, TableTypeStep DEF DriveInv
  <2>2. TaskType' /\ Returned' /\ Fresh' /\ Table'
    BY <1>1, <2>1, TaskTypeStep, ReturnedStep, FreshStep, TableStep DEF DriveInv
  <2>3. Reasons' /\ Records' /\ BookType' /\ Books'
    BY <1>1, <2>1, ReasonsStep, RecordsStep, BooksStep DEF DriveInv
  <2>4. Answers' /\ Heard' /\ Alert' /\ Cardinality(Live') <= MaxConnections
    BY <1>1, <2>2, AnswersStep, HeardStep, AlertStep, LiveBound DEF DriveInv
  <2>5. QED
    BY <2>1, <2>2, <2>3, <2>4 DEF DriveInv
<1>2. CASE UNCHANGED vars
  <2>0. UNCHANGED <<signals, poller, pc, pass, turn, outcome, tasks, listen, control, consumer,
                    faults, account, history>>
    BY <1>2 DEF vars
  <2>1. Live' = Live /\ StopCause' = StopCause
    BY <2>0 DEF Live, StopCause
  <2>2. (SignalType /\ LoopType /\ TaskType /\ TableType /\ BookType)'
    BY <2>0 DEF DriveInv, SignalType, LoopType, TaskType, TableType, BookType
  <2>3. (Located /\ Returned /\ Fresh /\ Table /\ Reasons /\ Records)'
    BY <2>0, <2>1 DEF DriveInv, Located, Returned, Fresh, Table, Reasons, Retiring, Records
  <2>4. Books'
    <3>1. BooksKept
      BY <2>0 DEF BooksKept
    <3>2. QED
      BY <2>0, <2>1, <3>1, BooksQuiet DEF DriveInv
  <2>5. (Answers /\ Heard /\ Alert)'
    BY <2>0, <2>1 DEF DriveInv, Answers, Heard, NoLostListener, Attached, Alert, Examined, Pending
  <2>6. QED
    BY <2>1, <2>2, <2>3, <2>4, <2>5 DEF DriveInv
<1>3. QED
  BY <1>1, <1>2

\* The invariant holds throughout every run.
LEMMA DriveInvariant == Spec => []DriveInv
  BY DriveInvInit, DriveInvStep, PTL DEF Spec

\* Tokens, counters, positions and the number of live connections stay within
\* their types and limits, whatever the other threads and the kernel do.
THEOREM DriveTyped == Spec => []TypeOK
<1>1. DriveInv => TypeOK
  <2> SUFFICES ASSUME DriveInv PROVE TypeOK
    OBVIOUS
  <2>1. \A f \in DOMAIN summary \ {"live"} : summary[f] \in 0..CounterMax
    <3>1. \A f \in DOMAIN summary : summary[f] \in Nat
      BY DEF DriveInv, BookType, SummaryType
    <3>2. QED
      BY <3>1, DriveConstants DEF DriveInv, BookType, Fits
  <2>2. QED
    BY <2>1 DEF DriveInv, TypeOK, SignalType, LoopType, TaskType, TableType, BookType
<1>2. QED
  BY <1>1, DriveInvariant, PTL

\* ConnectionControlHandle::close, finish and stop_all: every ticket is answered;
\* until then its entry is in the table or held, and run does not return before.
THEOREM EveryTicketAnswered == Spec => []TicketsAnswered
<1>1. DriveInv => TicketsAnswered
  <2> SUFFICES ASSUME DriveInv PROVE TicketsAnswered
    OBVIOUS
  <2>1. ASSUME pc = "done", NEW t \in tickets
        PROVE  result[t] # "none"
    BY <2>1 DEF DriveInv, Table, Returned, TableType
  <2>2. QED
    BY <2>1 DEF DriveInv, TicketsAnswered, Table, TableType, Live
<1>2. QED
  BY <1>1, DriveInvariant, PTL

\* retire_with and stop_all: a published result is true of the connection, and
\* closed_by_request counts the requests that were served.
THEOREM EveryResultTrue == Spec => []ResultTrue
<1>1. DriveInv => ResultTrue
  <2> SUFFICES ASSUME DriveInv PROVE ResultTrue
    OBVIOUS
  <2>1. ASSUME NEW t \in Token, result[t] # "none"
        PROVE  t \notin Live
    BY <2>1 DEF DriveInv, Table
  <2>2. QED
    BY <2>1 DEF DriveInv, ResultTrue, Answers, Books, Requested
<1>2. QED
  BY <1>1, DriveInvariant, PTL

\* A result that was published is never replaced, by retirement or by stop_all.
THEOREM ResultsStable == Spec => ResultStable
<1> DEFINE Kept == \A t \in Token : result[t] # "none" => result'[t] = result[t]
<1>1. DriveInv /\ [Next]_vars => [Kept]_vars
  <2> SUFFICES ASSUME DriveInv, Next PROVE Kept
    OBVIOUS
  <2>0. /\ LoopType /\ TableType /\ Located /\ Table
    BY DEF DriveInv
  <2>1. CASE Quiet \/ Publish \/ Application \/ Kernel \/ Terminated
    BY <2>1, OthersQuiet DEF Quiet
  <2>2. CASE TaskWorks \/ TaskSends \/ PollReturned \/ DropTask
    BY <2>2 DEF TaskWorks, TaskSends, PollReturned, DropTask
  <2>3. CASE FinishTask
    BY <2>0, <2>3, FinishEffect DEF Finish, Table, TableType
  <2>4. CASE Unlist \/ StopAll \/ Release
    BY <2>0, <2>4, ReleaseEffect DEF Unlist, StopAll
  <2>5. CASE Accept
    BY <2>5, AcceptEffect
  <2>6. QED
    BY <2>0, <2>1, <2>2, <2>3, <2>4, <2>5, QuietSteps DEF Next, Worker
<1>2. QED
  BY <1>1, DriveInvariant, PTL DEF Spec, ResultStable

\* accept_ready and its pauses: a connection in the kernel's queue is never
\* forgotten, however accept errors, batches and polls follow each other.
THEOREM ListenerKept == Spec => []NoLostListener
<1>1. DriveInv => NoLostListener
  BY DEF DriveInv, Heard
<1>2. QED
  BY <1>1, DriveInvariant, PTL

\* Signals::publish and drive: the worker does not poll over a stop or a close
\* request without a wake that is on its way or a failed one that is remembered.
THEOREM ControlHeard == Spec => []NoSilentControl
<1>1. DriveInv => NoSilentControl
  <2> SUFFICES ASSUME DriveInv, pc = "poll",
                      StopCause # "none" \/ \E t \in Live : entries[t] = "requested"
               PROVE  Pending
    BY DEF NoSilentControl, Pending
  <2>1. outcome = "none" /\ todo = {} /\ retiring = {}
    BY DEF DriveInv, Returned, Located
  <2>2. QED
    BY <2>1 DEF DriveInv, Alert, Examined
<1>2. QED
  BY <1>1, DriveInvariant, PTL

\* Once every task is retired, complete counters account for every connection.
LEMMA FinalBooks ==
    ASSUME DriveInv, Live = {}, pc \notin {"unlist", "finish"}, complete
    PROVE  /\ summary.ended = Cardinality({t \in Token : channel[t].conn = "ended"})
           /\ summary.abandoned = Cardinality({t \in Token : channel[t].conn = "dropped"})
           /\ summary.accepted = summary.ended + summary.abandoned
           /\ summary.handed = SumFunctionOnSet(Wires, Token)
           /\ summary.handed <= summary.read
           /\ summary.read - summary.handed <= summary.abandoned
           /\ summary.undelivered <= summary.abandoned
<1> DEFINE E == {t \in Token : channel[t].conn = "ended"}
           D == {t \in Token : channel[t].conn = "dropped"}
           B == Gone({"ended", "dropped"})
<1>1. /\ summary.accepted = Cardinality(Admitted)
      /\ summary.ended = Cardinality(Gone({"ended"}))
      /\ summary.abandoned = Cardinality(Gone({"dropped"}))
      /\ summary.handed = SumFunctionOnSet(Wires, B)
      /\ summary.handed <= summary.read
      /\ summary.read - summary.handed <= summary.abandoned
      /\ summary.undelivered <= summary.abandoned
  BY DEF DriveInv, Books
<1>2. Gone({"ended"}) = E /\ Gone({"dropped"}) = D
  BY DEF Gone
<1>3. \A t \in Token : channel[t].conn \in {"none", "ended", "dropped"}
                       /\ (channel[t].conn = "none" => channel[t].wire = 0)
  BY DEF DriveInv, Records
<1>4. Admitted = E \cup D /\ E \cap D = {}
  BY <1>3 DEF Admitted
<1>5. IsFiniteSet(E) /\ IsFiniteSet(D) /\ IsFiniteSet(Token) /\ B \subseteq Token
      /\ Wires \in [Token -> Int] /\ \A t \in Token : Wires[t] = channel[t].wire
  BY <1>2, BooksFinite DEF DriveInv
<1>6. \A t \in Token \ B : Wires[t] = 0
  BY <1>3, <1>5 DEF Gone
<1> HIDE DEF E, D, B
<1>7. Cardinality(Admitted) = Cardinality(E) + Cardinality(D)
  <2>1. Cardinality(E \cup D) = Cardinality(E) + Cardinality(D) - Cardinality(E \cap D)
    BY <1>5, FS_Union
  <2>2. Cardinality(E) \in Nat /\ Cardinality(D) \in Nat /\ Cardinality(E \cap D) = 0
    BY <1>4, <1>5, FS_CardinalityType, FS_EmptySet
  <2>3. QED
    BY <1>4, <2>1, <2>2
<1>8. SumFunctionOnSet(Wires, Token) = SumFunctionOnSet(Wires, B)
  BY <1>5, <1>6, SumSupport
<1>9. QED
  BY <1>1, <1>2, <1>7, <1>8 DEF E, D

\* absorb and merge_progress: a run summary that claims complete counters is
\* the exact account of the connections admitted and of the payloads handed off.
THEOREM SummaryAlwaysExact == Spec => []SummaryExact
<1>1. DriveInv => SummaryExact
  <2> SUFFICES ASSUME DriveInv, pc = "done", complete
               PROVE  SummaryExact
    BY DEF SummaryExact
  <2>1. Live = {}
    BY DEF DriveInv, Returned
  <2>2. QED
    BY <2>1, FinalBooks DEF SummaryExact, Wires
<1>2. QED
  BY <1>1, DriveInvariant, PTL

-----------------------------------------------------------------------------
(* Drive implements the contract of module Receiver.                       *)

Conn == [t \in Token |-> channel[t].conn]
Report == [f \in {"ended", "abandoned", "handed", "raw", "undelivered"} |->
               IF pc # "done" THEN 0
               ELSE IF f = "raw" THEN summary.read - summary.handed ELSE summary[f]]
Result == IF pc = "unstarted" THEN "Err" ELSE IF pc # "done" THEN "none"
          ELSE IF outcome \in StopCauses THEN "Ok" ELSE "Err"
Stopped == StopCause # "none"

\* The application sees nothing of a step that leaves these alone.
LEMMA Unseen ==
    ASSUME UNCHANGED channel, Stopped' = Stopped, UNCHANGED <<Result, Report>>
    PROVE  UNCHANGED Contract!contract
  BY DEF Contract!contract, Stopped, Result, Report

\* A run starts as the contract says.
LEMMA ContractInit == Init => Contract!Init
  BY DriveConstants DEF Init, Contract!Init, Contract!NoReport, StopCause

\* The contract counts and sums as the worker's own modules do.
LEMMA SameCount ==
    ASSUME NEW S
    PROVE  Contract!Cardinality(S) = Cardinality(S)
  BY DEF Contract!Cardinality, Cardinality

\* The same for sums: the contract has its own instance of the operators.
LEMMA SameSum ==
    ASSUME NEW f, NEW S
    PROVE  Contract!SumFunctionOnSet(f, S) = SumFunctionOnSet(f, S)
  BY DEF Contract!SumFunctionOnSet, SumFunctionOnSet, Contract!FoldFunctionOnSet,
         FoldFunctionOnSet, Contract!MapThenFoldSet, MapThenFoldSet

\* While the worker runs there is no result and no report.
LEMMA NoResult ==
    ASSUME pc \notin {"unstarted", "done"}
    PROVE  /\ Result = "none"
           /\ pc' \notin {"unstarted", "done"} => UNCHANGED <<Result, Report>>
  BY DEF Result, Report

\* The stop the application asked for is seen as it is raised.
LEMMA StopSeen ==
    ASSUME SignalType, Next
    PROVE  /\ (\E th \in Thread : Raise(th)) \/ StopCause' = StopCause
           /\ (\E th \in Thread : Raise(th)) =>
                 /\ UNCHANGED <<channel, pc, outcome, summary>>
                 /\ StopCause # "none" => StopCause' # "none"
<1>1. CASE flags' = flags
  BY <1>1, StopStays DEF StopCause, Raise
<1>2. CASE TakeControl
  BY <1>2, StopStays DEF TakeControl, StopCause, Raise
<1>3. CASE Publish \/ Application \/ Kernel \/ Terminated
  BY <1>1, <1>3, StopStays DEF Publish, Raise, Wake, Application, Stop, DropRecords, Close,
                               Kernel, Arrive, TaskReady, PauseElapses, Terminated, vars
<1>4. CASE \/ Start \/ TakeFailure \/ CheckStop \/ TakeCredits \/ RunReady \/ TaskWorks
           \/ TaskSends \/ PollReturned \/ Scan \/ RetireAll \/ DropTask \/ Unlist \/ FinishTask
           \/ Retired \/ StopAll \/ Release
  BY <1>1, <1>4 DEF Start, TakeFailure, CheckStop, TakeCredits, RunReady, TaskWorks, TaskSends,
                    PollReturned, Scan, RetireAll, DropTask, Unlist, FinishTask, Retired, StopAll,
                    Release
<1>5. CASE \/ StartAccept \/ EndAccept \/ Accept \/ AcceptDrained \/ AcceptError
           \/ PollReturns \/ PollFails \/ HandleEvents
  BY <1>1, <1>5 DEF StartAccept, EndAccept, Accept, AcceptDrained, AcceptError, PollReturns,
                    PollFails, HandleEvents
<1>6. QED
  BY <1>2, <1>3, <1>4, <1>5 DEF Next, Worker

\* One connection moves: the shape in which the contract's steps see it.
LEMMA Moves ==
    ASSUME TableType, NEW c \in Token, NEW v, NEW n,
           channel' = [channel EXCEPT ![c] = [conn |-> v, wire |-> n]]
    PROVE  /\ [t \in Token |-> channel'[t].conn] = [[t \in Token |-> channel[t].conn] EXCEPT ![c] = v]
           /\ n = channel[c].wire =>
                 [t \in Token |-> channel'[t].wire] = [t \in Token |-> channel[t].wire]
           /\ [t \in Token |-> channel'[t].wire] = [[t \in Token |-> channel[t].wire] EXCEPT ![c] = n]
<1>1. /\ channel'[c].conn = v /\ channel'[c].wire = n
      /\ \A t \in Token : t # c => channel'[t] = channel[t]
  BY DEF TableType
<1>2. \A t \in Token : /\ channel'[t].conn = IF t = c THEN v ELSE channel[t].conn
                       /\ channel'[t].wire = IF t = c THEN n ELSE channel[t].wire
  BY <1>1
<1>3. [t \in Token |-> channel'[t].conn] = [[t \in Token |-> channel[t].conn] EXCEPT ![c] = v]
  BY <1>2
<1>4. [t \in Token |-> channel'[t].wire] = [[t \in Token |-> channel[t].wire] EXCEPT ![c] = n]
  BY <1>2
<1>5. n = channel[c].wire =>
         [t \in Token |-> channel'[t].wire] = [t \in Token |-> channel[t].wire]
  BY <1>2
<1>6. QED
  BY <1>3, <1>4, <1>5

\* A step of one connection, with nothing else to see, is a step of the contract.
LEMMA ConnectionStep ==
    ASSUME NEW c \in Token,
           \/ Contract!Accept(c) \/ Contract!Connect(c) \/ Contract!Payload(c)
           \/ Contract!End(c) \/ Contract!Drop(c),
           StopCause' = StopCause, UNCHANGED <<Result, Report>>
    PROVE  Contract!Next
<1>1. UNCHANGED <<StopCause # "none", Result, Report>>
  OBVIOUS
<1>2. QED
  BY <1>1, Zenon DEF Contract!Next, Contract!Step, Result, Report

\* A send hands off the record of the contract's step.
LEMMA SendSeen ==
    ASSUME DriveInv, TaskSends, Next
    PROVE  [Contract!Next]_(Contract!contract)
<1>0. /\ TableType /\ SignalType /\ TaskType /\ LoopType
      /\ cur \in Token /\ pc = "task" /\ pc' = "task" /\ stage[cur] \in {"connected", "wire", "ended"}
      /\ Handed(stage[cur], read[cur], wire[cur], channel[cur])
      /\ flags' = flags
  BY DEF DriveInv, TaskSends, Located, Live, Records
<1>c. PICK c \in Token : c = cur
  BY <1>0
<1>1. StopCause' = StopCause
  BY <1>0 DEF StopCause
<1>2. Result = "none" /\ UNCHANGED <<Result, Report>>
  BY <1>0, NoResult
<1>3. CASE consumer # "alive"
  BY <1>1, <1>2, <1>3, Unseen DEF TaskSends, Stopped
<1>4. CASE consumer = "alive"
  <2> DEFINE v == IF stage[cur] = "ended" THEN "ended" ELSE "open"
             n == IF stage[cur] = "wire" THEN channel[cur].wire + 1 ELSE channel[cur].wire
  <2>1. channel' = [channel EXCEPT ![cur] = [conn |-> v, wire |-> n]]
    BY <1>0, <1>4, ChannelMoves
  <2>2. /\ [t \in Token |-> channel'[t].conn] = [[t \in Token |-> channel[t].conn] EXCEPT ![cur] = v]
        /\ n = channel[cur].wire =>
              [t \in Token |-> channel'[t].wire] = [t \in Token |-> channel[t].wire]
        /\ [t \in Token |-> channel'[t].wire] = [[t \in Token |-> channel[t].wire] EXCEPT ![cur] = n]
    BY <1>0, <2>1, Moves
  <2>3. CASE stage[cur] = "connected"
    <3>1. Contract!Connect(c)
      BY <1>0, <1>c, <1>2, <2>2, <2>3 DEF Contract!Connect, Contract!Becomes, Contract!Running, Handed,
                                    Result
    <3>2. QED
      BY <1>1, <1>2, <3>1, ConnectionStep
  <2>4. CASE stage[cur] = "wire"
    <3>1. Contract!Payload(c)
      BY <1>0, <1>c, <1>2, <2>2, <2>4 DEF Contract!Payload, Contract!Becomes, Contract!Running, Handed,
                                    Result
    <3>2. QED
      BY <1>1, <1>2, <3>1, ConnectionStep
  <2>5. CASE stage[cur] = "ended"
    <3>1. Contract!End(c)
      BY <1>0, <1>c, <1>2, <2>2, <2>5 DEF Contract!End, Contract!Becomes, Contract!Running, Handed,
                                    Result
    <3>2. QED
      BY <1>1, <1>2, <3>1, ConnectionStep
  <2>6. QED
    BY <1>0, <2>3, <2>4, <2>5
<1>5. QED
  BY <1>3, <1>4

\* A task that is dropped before its terminal record drops its connection.
LEMMA DropSeen ==
    ASSUME DriveInv, DropTask, Next
    PROVE  [Contract!Next]_(Contract!contract)
<1>0. TableType /\ SignalType /\ TaskType /\ LoopType /\ Located /\ Records
      /\ pc = "retire" /\ pc' = "unlist" /\ flags' = flags
  BY DEF DriveInv, DropTask
<1>1. StopCause' = StopCause
  BY <1>0 DEF StopCause
<1>2. Result = "none" /\ UNCHANGED <<Result, Report>>
  BY <1>0, NoResult
<1>3. PICK c \in retiring :
          channel' = [channel EXCEPT ![c].conn = IF @ = "ended" THEN @ ELSE "dropped"]
  BY Zenon DEF DropTask
<1>4. c \in Token /\ c \in Live
  BY <1>0 DEF LoopType, Located
<1>5. channel' = [channel EXCEPT ![c] =
                     [conn |-> IF channel[c].conn = "ended" THEN "ended" ELSE "dropped",
                      wire |-> channel[c].wire]]
  BY <1>0, <1>3, <1>4, ChannelMoves
<1>6. CASE channel[c].conn = "ended"
  <2>1. channel' = channel
    <3>1. channel[c] = [conn |-> "ended", wire |-> channel[c].wire]
      BY <1>0, <1>4, <1>6 DEF TableType, ChannelType
    <3>2. channel' = [channel EXCEPT ![c] = channel[c]]
      BY <1>5, <1>6, <3>1
    <3>3. QED
      BY <1>0, <3>2 DEF TableType
  <2>2. QED
    BY <1>1, <1>2, <2>1, Unseen DEF Stopped
<1>7. CASE channel[c].conn # "ended"
  <2>1. channel[c].conn \in {"accepted", "open"}
    <3>1. Handed(stage[c], read[c], wire[c], channel[c]) /\ stage[c] \in Stages \ {"none"}
      BY <1>0, <1>4 DEF Records, Live, TaskType
    <3>2. QED
      BY <1>7, <3>1 DEF Handed, Stages, PendingStages
  <2>2. channel' = [channel EXCEPT ![c] = [conn |-> "dropped", wire |-> channel[c].wire]]
    BY <1>5, <1>7
  <2>3. /\ [t \in Token |-> channel'[t].conn]
              = [[t \in Token |-> channel[t].conn] EXCEPT ![c] = "dropped"]
        /\ [t \in Token |-> channel'[t].wire] = [t \in Token |-> channel[t].wire]
    BY <1>0, <1>4, <2>2, Moves
  <2>4. Contract!Drop(c)
    BY <1>2, <1>4, <2>1, <2>3 DEF Contract!Drop, Contract!Becomes, Contract!Running, Result
  <2>5. QED
    BY <1>1, <1>2, <1>4, <2>4, ConnectionStep
<1>8. QED
  BY <1>6, <1>7

\* A connection is admitted in order and below the limit.
LEMMA AdmitSeen ==
    ASSUME DriveInv, Accept, Next
    PROVE  [Contract!Next]_(Contract!contract)
<1>0. TableType /\ SignalType /\ TaskType /\ LoopType /\ Located /\ Records /\ Fresh
      /\ pc = "accepting" /\ pc' \in {"accepting", "shutdown"} /\ flags' = flags /\ outcome = "none"
  BY AcceptEffect DEF DriveInv, Stays, Ends, Returned
<1>1. StopCause' = StopCause
  BY <1>0 DEF StopCause
<1>2. Result = "none" /\ UNCHANGED <<Result, Report>>
  BY <1>0, NoResult
<1>3. CASE channel' = channel
  BY <1>1, <1>2, <1>3, Unseen DEF Stopped
<1>4. CASE ~Refuse /\ TokenLeft /\ Admit(next)
  <2>1. PICK c \in Token : c = next
    BY <1>0, <1>4, LiveMoves
  <2>2. channel' = [channel EXCEPT ![c] = [conn |-> "accepted", wire |-> channel[c].wire]]
    BY <1>0, <1>4, <2>1, ChannelMoves
  <2>3. /\ [t \in Token |-> channel'[t].conn]
              = [[t \in Token |-> channel[t].conn] EXCEPT ![c] = "accepted"]
        /\ [t \in Token |-> channel'[t].wire] = [t \in Token |-> channel[t].wire]
    BY <1>0, <2>2, Moves
  <2>4. channel[c].conn = "none" /\ \A d \in Token : d < c => channel[d].conn # "none"
    BY <1>0, <2>1 DEF Fresh, Records, Token, FIRST_CONNECTION
  <2>5. Cardinality({t \in Token : channel[t].conn \in {"accepted", "open"}}) < MaxConnections
    <3> DEFINE O == {t \in Token : channel[t].conn \in {"accepted", "open"}}
    <3>1. O \in SUBSET Live /\ IsFiniteSet(Live)
      BY <1>0, BooksFinite DEF Records
    <3> HIDE DEF O
    <3>2. Cardinality(O) <= Cardinality(Live) /\ Cardinality(O) \in Nat
          /\ Cardinality(Live) \in Nat
      BY <3>1, FS_Subset, FS_CardinalityType
    <3>3. Cardinality(Live) < MaxConnections
      BY <1>4, <3>2, DriveConstants DEF Refuse, DriveInv
    <3>4. Cardinality(O) < MaxConnections
      BY <3>2, <3>3, DriveConstants
    <3>5. QED
      BY <3>4 DEF O
  <2>6. Contract!Cardinality(Contract!Open) < MaxConnections
    <3>1. Contract!Open = {t \in Token : channel[t].conn \in {"accepted", "open"}}
      BY DEF Contract!Open
    <3>2. Contract!Cardinality(Contract!Open) = Cardinality(Contract!Open)
      BY SameCount
    <3>3. QED
      BY <2>5, <3>1, <3>2
  <2>7. Contract!Accept(c)
    BY <1>2, <2>3, <2>4, <2>6 DEF Contract!Accept, Contract!Becomes, Contract!Running, Result
  <2>8. QED
    BY <1>1, <1>2, <2>7, ConnectionStep
<1>5. QED
  BY <1>3, <1>4, AcceptEffect

\* run returns Ok only when a stop was asked for and the counters are complete,
\* and then with the account of every connection.
LEMMA ReturnSeen ==
    ASSUME DriveInv, Release, Next
    PROVE  [Contract!Next]_(Contract!contract)
<1>0. pc = "release" /\ pc' = "done" /\ flags' = flags /\ Live = {}
      /\ UNCHANGED <<channel, outcome, summary, complete>>
  BY ReleaseEffect DEF DriveInv, Returned
<1>1. StopCause' = StopCause
  BY <1>0 DEF StopCause
<1>2. Result = "none" /\ Result' = IF outcome \in StopCauses THEN "Ok" ELSE "Err"
  BY <1>0 DEF Result
<1>3. /\ Report'["ended"] = summary.ended /\ Report'["abandoned"] = summary.abandoned
      /\ Report'["handed"] = summary.handed /\ Report'["raw"] = summary.read - summary.handed
      /\ Report'["undelivered"] = summary.undelivered
  BY <1>0 DEF Report
<1>4. CASE outcome \in StopCauses
  <2>1. StopCause # "none" /\ complete
    BY <1>4 DEF DriveInv, Returned
  <2>2. /\ summary.ended = Cardinality({t \in Token : channel[t].conn = "ended"})
        /\ summary.abandoned = Cardinality({t \in Token : channel[t].conn = "dropped"})
        /\ summary.handed = SumFunctionOnSet(Wires, Token)
        /\ summary.read - summary.handed <= summary.abandoned
        /\ summary.undelivered <= summary.abandoned
    BY <1>0, <2>1, FinalBooks
  <2>3. \A t \in Token : channel[t].conn \in {"none", "ended", "dropped"}
    BY <1>0 DEF DriveInv, Records
  <2>4. /\ {t \in Token : [u \in Token |-> channel[u].conn][t] \in {"ended"}}
              = {t \in Token : channel[t].conn = "ended"}
        /\ {t \in Token : [u \in Token |-> channel[u].conn][t] \in {"accepted", "open", "dropped"}}
              = {t \in Token : channel[t].conn = "dropped"}
    BY <2>3
  <2>5. Contract!Was({"ended"}) = summary.ended
        /\ Contract!Was({"accepted", "open", "dropped"}) = summary.abandoned
    BY <2>2, <2>4, SameCount DEF Contract!Was
  <2>6. Contract!SumFunctionOnSet([t \in Token |-> channel[t].wire], Token) = summary.handed
    BY <2>2, SameSum DEF Wires
  <2>7. Contract!Return("Ok")
    <3>1. Contract!Running /\ Result' = "Ok" /\ UNCHANGED channel
      BY <1>0, <1>2, <1>4 DEF Contract!Running
    <3>2. /\ Report'.ended = summary.ended /\ Report'.abandoned = summary.abandoned
          /\ Report'.handed = summary.handed /\ Report'.raw = summary.read - summary.handed
          /\ Report'.undelivered = summary.undelivered
      BY <1>3
    <3>3. QED
      BY <2>1, <2>2, <2>5, <2>6, <3>1, <3>2 DEF Contract!Return, Result, Report
  <2>8. QED
    BY <1>1, <2>7 DEF Contract!Next, Contract!Step
<1>5. CASE outcome \notin StopCauses
  <2>1. Contract!Return("Err")
    BY <1>0, <1>2, <1>5 DEF Contract!Return, Contract!Running, Result
  <2>2. QED
    BY <1>1, <2>1 DEF Contract!Next, Contract!Step
<1>6. QED
  BY <1>4, <1>5

\* Every step of the worker, of the other threads and of the kernel is a step
\* of the contract or not seen by the application.
LEMMA ContractStep == DriveInv /\ [Next]_vars => [Contract!Next]_(Contract!contract)
<1> SUFFICES ASSUME DriveInv, [Next]_vars PROVE [Contract!Next]_(Contract!contract)
  OBVIOUS
<1>0. SignalType /\ LoopType /\ Located
  BY DEF DriveInv
<1>1. ASSUME UNCHANGED channel, StopCause' = StopCause, UNCHANGED <<Result, Report>>
      PROVE  UNCHANGED Contract!contract
  BY <1>1, Unseen DEF Stopped
<1>2. CASE UNCHANGED vars
  BY <1>1, <1>2 DEF vars, StopCause, Result, Report
<1>3. CASE Next /\ \E th \in Thread : Raise(th)
  <2>1. UNCHANGED <<channel, pc, outcome, summary>>
        /\ (StopCause # "none" => StopCause' # "none")
    BY <1>0, <1>3, StopSeen
  <2>2. UNCHANGED <<Result, Report>>
    BY <2>1 DEF Result, Report
  <2>3. CASE StopCause = "none" /\ StopCause' # "none"
    BY <2>1, <2>2, <2>3 DEF Contract!Next, Contract!Step, Result, Report
  <2>4. CASE Stopped' = Stopped
    BY <2>1, <2>2, <2>4, Unseen
  <2>5. QED
    BY <2>1, <2>3, <2>4 DEF Stopped
<1>4. CASE Next /\ (Publish \/ Application \/ Kernel \/ Terminated)
  <2>1. UNCHANGED <<channel, pc, outcome, summary>>
    BY <1>4, OthersQuiet
  <2>2. UNCHANGED <<Result, Report>>
    BY <2>1 DEF Result, Report
  <2>3. QED
    BY <1>0, <1>1, <1>3, <1>4, <2>1, <2>2, StopSeen
<1>5. CASE Next /\ (TaskSends \/ DropTask \/ Accept \/ Release)
  BY <1>5, SendSeen, DropSeen, AdmitSeen, ReturnSeen
<1>6. CASE Next /\ Start
  <2>1. pc = "start" /\ pc' \in {"top", "unstarted"} /\ UNCHANGED <<channel, flags>>
    BY <1>6 DEF Start
  <2>2. StopCause' = StopCause
    BY <2>1 DEF StopCause
  <2>3. CASE pc' = "top"
    BY <1>1, <2>1, <2>2, <2>3, NoResult
  <2>4. CASE pc' = "unstarted"
    <3>1. Contract!Return("Err")
      BY <2>1, <2>4 DEF Contract!Return, Contract!Running
    <3>2. QED
      BY <2>2, <3>1 DEF Contract!Next, Contract!Step
  <2>5. QED
    BY <2>1, <2>3, <2>4
<1>7. CASE Next /\ (\/ TakeFailure \/ CheckStop \/ TakeControl \/ TakeCredits \/ RunReady \/ TaskWorks
                    \/ PollReturned \/ Scan \/ RetireAll \/ Unlist \/ FinishTask \/ Retired \/ StopAll
                    \/ StartAccept \/ EndAccept \/ AcceptDrained \/ AcceptError \/ PollReturns \/ PollFails
                    \/ HandleEvents)
  <2>1. pc \notin {"unstarted", "done"} /\ UNCHANGED channel
    BY <1>7 DEF TakeFailure, CheckStop, TakeControl, TakeCredits, RunReady, TaskWorks, PollReturned,
                Scan, RetireAll, Unlist, FinishTask, Retired, StopAll, StartAccept, EndAccept, AcceptDrained,
                AcceptError, Accepting, PollReturns, PollFails, HandleEvents
  <2>2. pc' \notin {"unstarted", "done"}
    <3>1. CASE TakeFailure \/ CheckStop \/ TakeControl \/ TakeCredits \/ RunReady \/ TaskWorks
               \/ PollReturned
      BY <3>1 DEF TakeFailure, CheckStop, TakeControl, TakeCredits, RunReady, TaskWorks,
                  PollReturned, Leaves, StartsPass
    <3>2. CASE Scan \/ RetireAll \/ Unlist \/ FinishTask \/ Retired \/ StopAll
      BY <1>0, <3>2, FinishEffect DEF Scan, RetireAll, Unlist, Retired, StopAll, Located, Ends
    <3>3. CASE EndAccept
      BY <3>3, CountEffect DEF EndAccept, Stays, Ends
    <3>4. CASE AcceptError
      BY <3>4, AcceptErrorEffect DEF Stays, Ends
    <3>5. CASE StartAccept \/ AcceptDrained \/ PollReturns \/ PollFails \/ HandleEvents
      BY <3>5 DEF StartAccept, AcceptDrained, PollReturns, PollFails, HandleEvents, Leaves
    <3>6. QED
      BY <1>7, <3>1, <3>2, <3>3, <3>4, <3>5
  <2>3. UNCHANGED <<Result, Report>>
    BY <2>1, <2>2, NoResult
  <2>4. QED
    BY <1>0, <1>1, <1>3, <1>7, <2>1, <2>3, StopSeen
<1>8. QED
  BY <1>2, <1>4, <1>5, <1>6, <1>7 DEF Next, Worker

\* run_with implements the contract of module Receiver: the records of a
\* connection come in order, no more are open than the limit, nothing is handed
\* off once run has returned, and a return without an error means that a stop
\* was asked for and that the summary accounts for everything.
THEOREM ContractKept == Spec => KeepsContract
  BY ContractInit, ContractStep, DriveInvariant, PTL DEF Spec, KeepsContract, Contract!Spec
=============================================================================
