------------------------------ MODULE Capture ------------------------------
(***************************************************************************)
(* The capture application (phonowire-capture): its main thread receives   *)
(* the records of all connections, keeps one recorder per connection,      *)
(* finalises what is left when the channel closes, joins the two threads   *)
(* it owns and decides the exit status; a signal thread may request the    *)
(* stop at any moment.                                                     *)
(*                                                                         *)
(* The receiver is the contract of module Receiver, which module Drive     *)
(* implements, behind a bounded channel.  A recorder is reduced to the     *)
(* sizes of its files, in units: one for a header, a payload or a          *)
(* description line; a prefix left by a failed write counts as a whole     *)
(* unit.  Module Recording has the detail.                                 *)
(***************************************************************************)
EXTENDS Integers, Sequences, FiniteSets, FiniteSetsExt

CONSTANTS Conns,        \* connections in the order of their identities
          Configs,      \* configurations offered on the command line
          U64Max,       \* largest u64, and usize
          Kinds,        \* payload records each connection may have
          MaxPayloads,  \* wire and audio records of a connection
          MaxFaults,    \* I/O, wake and receiver failures in a behaviour
          Ends,         \* terminal kinds that occur
          MaxSignals    \* deliveries of SIGINT or SIGTERM

Header == 1             \* size of a WAVE header
JsonLen == 2            \* size of a summary or of the run status
ReadBytes == 4          \* READ_BYTES, a connection's transport buffer
UuidBytes == 2          \* UUID_BYTES
None == "none"
Causes == {"signal", "local_failure", "admission_exhausted"}
Threads == {"main", "monitor"}
CleanEnds == {"CleanEof", "Terminate"}
EndReasons ==
    CleanEnds \cup {"PeerError", "InvalidMessage", "Decode", "Truncated", "Policy",
                    "Transport", "ResourceRefused", "OffsetExhausted"}

ASSUME CaptureConstants ==
    /\ Conns \subseteq Nat /\ IsFiniteSet(Conns)
    /\ Ends \subseteq EndReasons
    /\ Kinds \in [Conns -> SUBSET {"Wire", "Audio"}]
    /\ U64Max \in Nat
    /\ MaxPayloads \in Nat /\ MaxFaults \in Nat /\ MaxSignals \in Nat
    /\ Configs \subseteq [connections : Nat, queue : Nat, payload : Nat, turns : Nat,
                          retained : Nat, active : Nat, run : Nat, file : Nat,
                          summary : Nat, status : Nat]

VARIABLES
    config,                  \* Config
    won, cause, wake, signals,  \* Control: the claim, and StopInfo
    first,                   \* history: the cause of whoever made the claim
    pc, want,                \* the two threads; the cause a request carries
    pending, raised, closed, \* signals not yet iterated, delivered; handle closed
    conn, handed,            \* receiver: connections, and what was handed off for each
    queue, stop, result,     \* channel, stop flag, how the receiver's thread ended
    rec, entry, reserved, counts, bad,  \* locals of run
    dirs, files, end, summaries, dropped, \* directories and recorders
    status, exit, faults

control == <<won, cause, wake, signals, first>>
monitor == <<pending, raised, closed>>
receiver == <<conn, handed, queue, result>>
locals == <<entry, reserved, counts, bad>>
outputs == <<dirs, files, end, summaries, dropped>>
vars == <<config, control, pc, want, monitor, receiver, stop, rec, locals, outputs,
          status, exit, faults>>

-----------------------------------------------------------------------------
(* Configuration.                                                          *)

\* checked_output_bound: None when an intermediate value is no u64.
MutBoundWraps(recordings, file, summary, stat) ==
    (recordings * (3 * file + summary) + stat) % (U64Max + 1)
CheckedOutputBound(recordings, file, summary, stat) ==
    LET per == 3 * file + summary
        all == recordings * per + stat
    IN  IF 3 * file <= U64Max /\ per <= U64Max /\ recordings * per <= U64Max
              /\ all <= U64Max
        THEN all ELSE -1

Validate(c) ==
    /\ c.file >= Header /\ c.summary # 0 /\ c.status # 0
    /\ c.active # 0 /\ c.active <= c.connections
    /\ \A f \in {"connections", "queue", "payload", "turns", "retained", "run"} : c[f] # 0
    /\ CheckedOutputBound(c.run, c.file, c.summary, c.status) # -1

\* Limits::new: fixed_buffer_capacity, or -1 when a UUID does not fit or the
\* product is no usize.
FixedBufferCapacity(c) ==
    LET all == c.connections * (ReadBytes + c.payload)
    IN  IF c.payload >= UuidBytes /\ all <= U64Max THEN all ELSE -1

\* Where a thread waits for what comes next.
Home(t) == IF t = "main" THEN "recv" ELSE "wait"

NoStatus == [file |-> None, cause |-> None, wake |-> FALSE, signals |-> 0]
NoRecord == [connection |-> 0, kind |-> None]

Init ==
    /\ config \in {c \in Configs : Validate(c) /\ FixedBufferCapacity(c) # -1}
    /\ won = FALSE /\ cause = None /\ wake = FALSE /\ signals = 0 /\ first = None
    /\ pc = [t \in Threads |-> Home(t)] /\ want = [t \in Threads |-> None]
    /\ pending = FALSE /\ raised = 0 /\ closed = FALSE
    /\ conn = [c \in Conns |-> None]
    /\ handed = [c \in Conns |-> [wire |-> 0, wave |-> 0, log |-> 0]]
    /\ queue = <<>> /\ stop = FALSE /\ result = None
    /\ rec = NoRecord /\ entry = [c \in Conns |-> None] /\ reserved = 0 /\ bad = FALSE
    /\ counts = [admission |-> 0, stopped |-> 0, unowned |-> 0, failed |-> 0,
                 metadata |-> 0]
    /\ dirs = {} /\ files = [c \in Conns |-> [wire |-> 0, wave |-> 0, log |-> 0]]
    /\ end = [c \in Conns |-> "Incomplete"] /\ summaries = [c \in Conns |-> None]
    /\ dropped = [c \in Conns |-> 0]
    /\ status = NoStatus /\ exit = None /\ faults = 0

\* The receiver's thread has not returned yet.
Running == result = None

Fault == faults < MaxFaults /\ faults' = faults + 1

-----------------------------------------------------------------------------
(* Control, called by both threads.                                        *)

Goto(t, to) == pc' = [pc EXCEPT ![t] = to]

\* The mutex of StopInfo is held across a call of stop().
Unlocked == \A t \in Threads : pc[t] # "stopping"

\* request: the thread goes on to claim the stop for this cause.
Request(t, c) == Goto(t, "claim") /\ want' = [want EXCEPT ![t] = c]

\* claim_stop: the swap decides, whoever comes second returns at once.
Claim(t) ==
    /\ pc[t] = "claim"
    /\ won' = TRUE
    /\ IF won
       THEN Goto(t, Home(t)) /\ want' = [want EXCEPT ![t] = None] /\ UNCHANGED first
       ELSE Goto(t, "name") /\ first' = want[t] /\ UNCHANGED want
    /\ UNCHANGED <<config, cause, wake, signals, monitor, receiver, stop, rec, locals,
                   outputs, status, exit, faults>>

\* claim_stop: the winner stores its cause under the mutex.
Name(t) ==
    /\ pc[t] = "name" /\ Unlocked
    /\ cause' = want[t] /\ want' = [want EXCEPT ![t] = None]
    /\ Goto(t, "stop")
    /\ UNCHANGED <<config, won, wake, signals, first, monitor, receiver, stop, rec,
                   locals, outputs, status, exit, faults>>

\* request: the mutex again, and stop() raises the flag.
Stop(t) ==
    /\ pc[t] = "stop" /\ Unlocked
    /\ stop' = TRUE /\ Goto(t, "stopping")
    /\ UNCHANGED <<config, control, want, monitor, receiver, rec, locals, outputs,
                   status, exit, faults>>

\* stop() wakes the receiver; a failure is stored before the mutex is released.
Woken(t) ==
    /\ pc[t] = "stopping"
    /\ \/ UNCHANGED <<wake, faults>>
       \/ Running /\ Fault /\ wake' = TRUE
    /\ Goto(t, Home(t))
    /\ UNCHANGED <<config, won, cause, signals, first, want, monitor, receiver, stop,
                   rec, locals, outputs, status, exit>>

-----------------------------------------------------------------------------
(* The signal thread.                                                      *)

\* The operating system delivers a signal; those not yet iterated coalesce.
Raise ==
    /\ raised < MaxSignals /\ pc.main # "done"
    /\ raised' = raised + 1 /\ pending' = TRUE
    /\ UNCHANGED <<config, control, pc, want, closed, receiver, stop, rec, locals,
                   outputs, status, exit, faults>>

\* Control::signal counts under the mutex and then requests the stop.
Signal ==
    /\ pc.monitor = "wait" /\ pending /\ Unlocked
    /\ pending' = FALSE /\ signals' = signals + 1
    /\ Request("monitor", "signal")
    /\ UNCHANGED <<config, won, cause, wake, first, raised, closed, receiver, stop, rec,
                   locals, outputs, status, exit, faults>>

\* forever() ends once the handle is closed, before or after a pending signal.
MonitorEnds ==
    /\ pc.monitor = "wait" /\ closed
    /\ Goto("monitor", "ended")
    /\ UNCHANGED <<config, control, want, monitor, receiver, stop, rec, locals, outputs,
                   status, exit, faults>>

-----------------------------------------------------------------------------
(* The receiver as the application sees it.                                *)

receiverFrame == <<config, control, pc, want, monitor, rec, locals, outputs, status,
                   exit>>

Abandoned == Cardinality({c \in Conns : conn[c] \in {"accepted", "open"}})

\* The contract.  The application never closes a connection, so Drop happens
\* only on the way out of run: here the connection just stays open.
Contract == INSTANCE Receiver WITH
    limit <- config.connections,
    handed <- [c \in Conns |-> handed[c].wire + handed[c].wave],
    report <- [ended |-> Cardinality({c \in Conns : conn[c] = "ended"}),
               abandoned |-> Abandoned, raw |-> 0, undelivered |-> 0,
               handed |-> MapThenSumSet(LAMBDA c : handed[c].wire + handed[c].wave, Conns)]

Accept(c) ==
    /\ UNCHANGED <<receiverFrame, handed, queue, stop, result, faults>>
    /\ Contract!Accept(c)

\* A record is handed off when the channel has a slot.
HandOff(c, kind) ==
    /\ Len(queue) < config.queue
    /\ queue' = Append(queue, [connection |-> c, kind |-> kind])
    /\ handed' = [handed EXCEPT ![c].wire = IF kind = "Wire" THEN @ + 1 ELSE @,
                                ![c].wave = IF kind = "Audio" THEN @ + 1 ELSE @,
                                ![c].log = @ + 1]
    /\ UNCHANGED <<receiverFrame, stop, result, faults>>

Connect(c) == HandOff(c, "Connected") /\ Contract!Connect(c)

Payload(c) ==
    /\ handed[c].wire + handed[c].wave < MaxPayloads
    /\ \E kind \in Kinds[c] : HandOff(c, kind)
    /\ Contract!Payload(c)

Ended(c) == (\E kind \in Ends : HandOff(c, kind)) /\ Contract!End(c)

\* run: a stop, a failed wake or any other failure ends it, or it panics; the
\* sender goes with it.  After a stop the summary abandons what is still open,
\* and nothing is undelivered unless a connection is abandoned, so that Unwell
\* need not ask for it.
Returns ==
    /\ UNCHANGED <<receiverFrame, handed, queue, stop>>
    /\ \/ UNCHANGED faults /\ Contract!Return("Ok")
       \/ wake /\ UNCHANGED faults /\ Contract!Return("Err")
       \/ Fault /\ Contract!Return("Err")
       \/ Running /\ Fault /\ result' = "Panic" /\ UNCHANGED conn

-----------------------------------------------------------------------------
(* Writers.                                                                *)

\* LimitedFile: a write at the end that would pass the cap is refused.
WithinCap(size) == size + 1 <= config.file

\* The outcomes of writing one unit: refused by the cap, complete, or failed
\* with or without a prefix.
Write(size) ==
    IF ~WithinCap(size) THEN {[size |-> size, ok |-> FALSE, faults |-> 0]}
    ELSE {[size |-> size + 1, ok |-> TRUE, faults |-> 0]}
         \cup {[size |-> n, ok |-> FALSE, faults |-> 1] : n \in {size, size + 1}}

\* write_json: complete, refused by its cap after the file was created, or
\* failed before or after that.
WriteJson(cap, what) ==
    (IF JsonLen <= cap THEN {[file |-> what, ok |-> TRUE, faults |-> 0]}
     ELSE {[file |-> "torn", ok |-> FALSE, faults |-> 0]})
    \cup {[file |-> f, ok |-> FALSE, faults |-> 1] : f \in {None, "torn"}}

\* At most MaxFaults failures in a behaviour.
Spend(n) == faults + n <= MaxFaults /\ faults' = faults + n

-----------------------------------------------------------------------------
(* run: the record loop.                                                   *)

loopFrame == <<config, control, monitor, receiver, stop, status, exit>>

\* recv returns a record, or fails when the sender is gone and all is drained.
Recv ==
    /\ pc.main = "recv" /\ queue # <<>>
    /\ rec' = Head(queue) /\ queue' = Tail(queue) /\ Goto("main", "handle")
    /\ UNCHANGED <<config, control, want, monitor, conn, handed, result, stop, locals,
                   outputs, status, exit, faults>>

MutDisconnectedEarly ==
    /\ pc.main = "recv" /\ (won \/ queue = <<>>) /\ ~Running
    /\ Goto("main", "finalise")
    /\ UNCHANGED <<loopFrame, want, rec, locals, outputs, faults>>

Disconnected ==
    /\ pc.main = "recv" /\ queue = <<>> /\ ~Running
    /\ Goto("main", "finalise")
    /\ UNCHANGED <<loopFrame, want, rec, locals, outputs, faults>>

Count(f) == counts' = [counts EXCEPT ![f] = @ + 1]
Handling(c) == pc.main = "handle" /\ rec.connection = c
Owned == {c \in Conns : entry[c] # None}

\* The record is dropped and the loop goes on, with or without a request.
Continue == rec' = NoRecord /\ Goto("main", "recv") /\ UNCHANGED want
Failing(why) == rec' = NoRecord /\ bad' = TRUE /\ Request("main", why)

StoppedRefused(c) ==
    /\ Handling(c) /\ rec.kind = "Connected" /\ won
    /\ Count("stopped") /\ Continue
    /\ UNCHANGED <<loopFrame, entry, reserved, bad, outputs, faults>>

MutFullByRun == reserved = config.run
Full == reserved = config.run \/ Cardinality(Owned) >= config.active

AdmissionRefused(c) ==
    /\ Handling(c) /\ rec.kind = "Connected" /\ ~won /\ Full
    /\ Count("admission")
    /\ Failing(IF reserved = config.run THEN "admission_exhausted" ELSE "local_failure")
    /\ UNCHANGED <<loopFrame, entry, reserved, outputs, faults>>

Reserving(c) ==
    /\ Handling(c) /\ rec.kind = "Connected" /\ ~won /\ ~Full
    /\ reserved' = reserved + 1

\* The directory exists already, or cannot be created.
DirectoryRefused(c) ==
    /\ Reserving(c) /\ Spend(1)
    /\ Count("admission") /\ Failing("local_failure")
    /\ UNCHANGED <<loopFrame, entry, outputs>>

\* create fails at one of the three files, with nothing written.
CreateFails(c) ==
    /\ Reserving(c) /\ Spend(1)
    /\ dirs' = dirs \cup {c} /\ entry' = [entry EXCEPT ![c] = "Failed"]
    /\ Failing("local_failure")
    /\ UNCHANGED <<loopFrame, counts, files, end, summaries, dropped>>

\* The recorder writes its header and then the line of the Connected record.
Opens(c) ==
    /\ Reserving(c)
    /\ dirs' = dirs \cup {c}
    /\ \E h \in Write(files[c].wave) : \E l \in Write(files[c].log) :
          /\ Spend(h.faults + IF h.ok THEN l.faults ELSE 0)
          /\ files' = [files EXCEPT ![c].wave = h.size,
                                    ![c].log = IF h.ok THEN l.size ELSE @]
          /\ IF h.ok /\ l.ok
             THEN entry' = [entry EXCEPT ![c] = "Active"] /\ Continue /\ UNCHANGED bad
             ELSE entry' = [entry EXCEPT ![c] = "Failed"] /\ Failing("local_failure")
    /\ UNCHANGED <<loopFrame, counts, end, summaries, dropped>>

\* Recording::record: the payload's file, then the line.
Recorded(c, f) ==
    IF rec.kind \notin {"Wire", "Audio"}
    THEN {[files |-> [f EXCEPT !.log = l.size], ok |-> l.ok, faults |-> l.faults] :
              l \in Write(f.log)}
    ELSE LET to == IF rec.kind = "Wire" THEN "wire" ELSE "wave"
         IN  UNION {IF p.ok
                    THEN {[files |-> [f EXCEPT ![to] = p.size, !.log = l.size],
                           ok |-> l.ok, faults |-> l.faults] : l \in Write(f.log)}
                    ELSE {[files |-> [f EXCEPT ![to] = p.size], ok |-> FALSE,
                           faults |-> p.faults]} :
                        p \in Write(f[to])}

RecordActive(c) ==
    /\ Handling(c) /\ rec.kind \notin {"Connected"} \cup Ends /\ entry[c] = "Active"
    /\ \E r \in Recorded(c, files[c]) :
          /\ Spend(r.faults) /\ files' = [files EXCEPT ![c] = r.files]
          /\ IF r.ok THEN Continue /\ UNCHANGED <<entry, bad>>
             ELSE entry' = [entry EXCEPT ![c] = "Failed"] /\ Failing("local_failure")
    /\ UNCHANGED <<loopFrame, reserved, counts, dirs, end, summaries, dropped>>

\* The terminal record of an active recorder: record it, finish the recorder,
\* write the summary; each may fail.
Outcome(e) == IF e \in CleanEnds THEN "observed" ELSE "failed"

RecordEnd(c) ==
    /\ Handling(c) /\ rec.kind \in Ends /\ entry[c] = "Active"
    /\ \E r \in Recorded(c, files[c]) :
          /\ files' = [files EXCEPT ![c] = r.files]
          /\ end' = IF r.ok THEN [end EXCEPT ![c] = rec.kind] ELSE end
          /\ \/ /\ ~r.ok /\ Spend(r.faults)
                /\ entry' = [entry EXCEPT ![c] = "Failed"] /\ Failing("local_failure")
                /\ UNCHANGED <<counts, summaries>>
             \/ /\ r.ok /\ Spend(1)                          \* finish fails
                /\ entry' = [entry EXCEPT ![c] = "Failed"] /\ Failing("local_failure")
                /\ UNCHANGED <<counts, summaries>>
             \/ /\ r.ok /\ entry' = [entry EXCEPT ![c] = None]
                /\ \E w \in WriteJson(config.summary, Outcome(rec.kind)) :
                      /\ Spend(w.faults)
                      /\ summaries' = [summaries EXCEPT ![c] = w.file]
                      /\ IF w.ok
                         THEN /\ Continue /\ UNCHANGED counts
                              /\ bad' = (bad \/ rec.kind \notin CleanEnds)
                         ELSE Count("metadata") /\ Failing("local_failure")
    /\ UNCHANGED <<loopFrame, reserved, dirs, dropped>>

\* A record for a recorder that failed is dropped and counted twice: in the
\* recorder's receipt and for the run.
RecordFailed(c) ==
    /\ Handling(c) /\ rec.kind # "Connected" /\ entry[c] = "Failed"
    /\ dropped' = [dropped EXCEPT ![c] = @ + 1] /\ Count("failed") /\ Continue
    /\ UNCHANGED <<loopFrame, entry, reserved, bad, dirs, files, end, summaries, faults>>

RecordUnowned(c) ==
    /\ Handling(c) /\ rec.kind # "Connected" /\ entry[c] = None
    /\ Count("unowned") /\ Continue
    /\ UNCHANGED <<loopFrame, entry, reserved, bad, outputs, faults>>

-----------------------------------------------------------------------------
(* run: finalise, join and report.                                         *)

\* The recorders left in the map are concluded in the order of their
\* identities: an active one is finished and incomplete unless that fails.
Finalise(c) ==
    /\ pc.main = "finalise" /\ c \in Owned /\ \A d \in Owned : c <= d
    /\ \E n \in IF entry[c] = "Active" THEN 0..1 ELSE {0} :
       \E w \in WriteJson(config.summary, IF entry[c] = "Active" /\ n = 0
                                          THEN "incomplete" ELSE "failed") :
          /\ Spend(n + w.faults)
          /\ summaries' = [summaries EXCEPT ![c] = w.file]
          /\ IF w.ok THEN UNCHANGED counts ELSE Count("metadata")
    /\ entry' = [entry EXCEPT ![c] = None] /\ bad' = TRUE
    /\ UNCHANGED <<loopFrame, pc, want, rec, reserved, dirs, files, end, dropped>>

MutCloseNever ==
    /\ pc.main = "finalise" /\ Owned = {}
    /\ Goto("main", "joinMonitor")
    /\ UNCHANGED <<config, control, want, monitor, receiver, stop, rec, locals,
                   outputs, status, exit, faults>>

CloseHandle ==
    /\ pc.main = "finalise" /\ Owned = {}
    /\ closed' = TRUE /\ Goto("main", "joinMonitor")
    /\ UNCHANGED <<config, control, want, pending, raised, receiver, stop, rec, locals,
                   outputs, status, exit, faults>>

MutJoinMonitorNot ==
    /\ pc.main = "joinMonitor"
    /\ Goto("main", "joinWorker")
    /\ UNCHANGED <<loopFrame, want, rec, locals, outputs, faults>>
JoinMonitor ==
    /\ pc.main = "joinMonitor" /\ pc.monitor = "ended"
    /\ Goto("main", "joinWorker")
    /\ UNCHANGED <<loopFrame, want, rec, locals, outputs, faults>>

JoinWorker ==
    /\ pc.main = "joinWorker" /\ ~Running
    /\ bad' = (bad \/ result # "Ok")
    /\ Goto("main", "status")
    /\ UNCHANGED <<loopFrame, want, rec, entry, reserved, counts, outputs, faults>>

\* Payloads still charged to the budget.
BudgetUsed ==
    Cardinality({i \in DOMAIN queue : queue[i].kind \in {"Wire", "Audio"}})
        + IF rec.kind \in {"Wire", "Audio"} THEN 1 ELSE 0

MutUnwellForgetsAbandoned ==
    BudgetUsed # 0 \/ counts.unowned # 0 \/ counts.metadata # 0 \/ wake
MutUnwellWhenStopped == won \/ MutUnwellForgetsAbandoned
\* What the run status itself says is wrong.
Unwell ==
    \/ BudgetUsed # 0 \/ counts.unowned # 0 \/ counts.metadata # 0
    \/ result # "Panic" /\ Abandoned # 0
    \/ wake

\* The last step: the status is composed under the mutex and written, and the
\* process exits.
Report ==
    /\ pc.main = "status" /\ Unlocked
    /\ \E w \in WriteJson(config.status, "written") :
          /\ Spend(w.faults)
          /\ status' = [file |-> w.file, cause |-> cause, wake |-> wake,
                         signals |-> signals]
          /\ bad' = (bad \/ Unwell \/ ~w.ok)
          /\ exit' = IF bad \/ Unwell \/ ~w.ok THEN "failure" ELSE "success"
    /\ Goto("main", "done")
    /\ UNCHANGED <<config, control, want, monitor, receiver, stop, rec, entry, reserved,
                   counts, outputs>>

-----------------------------------------------------------------------------

Main ==
    \/ Claim("main") \/ Name("main") \/ Stop("main") \/ Woken("main")
    \/ Recv \/ Disconnected \/ CloseHandle \/ JoinMonitor \/ JoinWorker \/ Report
    \/ \E c \in Conns :
          \/ StoppedRefused(c) \/ AdmissionRefused(c) \/ DirectoryRefused(c)
          \/ CreateFails(c) \/ Opens(c) \/ RecordActive(c) \/ RecordEnd(c)
          \/ RecordFailed(c) \/ RecordUnowned(c) \/ Finalise(c)

Monitor ==
    \/ Claim("monitor") \/ Name("monitor") \/ Stop("monitor") \/ Woken("monitor")
    \/ Signal \/ MonitorEnds

Receiver ==
    \/ Returns
    \/ \E c \in Conns : Accept(c) \/ Connect(c) \/ Payload(c) \/ Ended(c)

Next == Main \/ Monitor \/ Receiver \/ Raise

Spec == Init /\ [][Next]_vars

\* Both threads of the application run, and a receiver that was asked to stop
\* returns (StopCompletes of Drive).
FairSpec == Spec /\ WF_vars(Main) /\ WF_vars(Monitor) /\ WF_vars(stop /\ Returns)

-----------------------------------------------------------------------------
(* Properties.                                                             *)

Done == pc.main = "done"

\* Every variable keeps the shape of the Rust value it stands for.
TypeOK ==
    /\ config \in Configs /\ won \in BOOLEAN /\ wake \in BOOLEAN
    /\ cause \in Causes \cup {None} /\ first \in Causes \cup {None}
    /\ want \in [Threads -> Causes \cup {None}]
    /\ pc.main \in {"recv", "handle", "claim", "name", "stop", "stopping", "finalise",
                    "joinMonitor", "joinWorker", "status", "done"}
    /\ pc.monitor \in {"wait", "claim", "name", "stop", "stopping", "ended"}
    /\ Len(queue) <= config.queue
    /\ entry \in [Conns -> {None, "Active", "Failed"}]
    /\ Cardinality(Owned) <= config.active /\ reserved \in 0..config.run
    /\ exit \in {None, "success", "failure"} /\ faults \in 0..MaxFaults

\* What the receiver handed off for a connection is in its files.
Kept(c) == files[c] = [handed[c] EXCEPT !.wave = @ + Header]

\* A successful exit means that nothing was lost: every connection the
\* receiver accepted was recorded to a clean end, whole, with a summary that
\* says so, and there is a run status.
ExitHonest ==
    exit = "success" =>
        /\ status.file = "written"
        /\ \A c \in Conns : conn[c] # None =>
              Kept(c) /\ summaries[c] = "observed" /\ end[c] \in CleanEnds

\* The exit is not a failure without a cause: an idle stop after clean
\* recordings exits successfully.
NoFalseAlarm ==
    exit = "failure" =>
        \/ faults > 0 \/ status.file # "written"
        \/ \E c \in Conns : conn[c] # None /\ summaries[c] # "observed"

\* Orderly conclusion: when the process ends, queued records were drained,
\* each directory has a summary or is a counted metadata failure, and a
\* summary without a failure describes files with everything handed off.
Concluded ==
    Done =>
        /\ queue = <<>> /\ Owned = {}
        /\ counts.metadata = Cardinality({c \in dirs : summaries[c] \in {None, "torn"}})
        /\ \A c \in Conns :
              /\ summaries[c] = "observed" => Kept(c) /\ conn[c] = "ended"
              /\ summaries[c] = "incomplete" => Kept(c) /\ conn[c] # "ended"

\* first_stop_cause is the first claim, although the claim and its cause are
\* stored apart and the other thread may be between the two.
StatusTrue ==
    status.file = "written" =>
        /\ status.cause = first /\ won = (first # None)
        /\ status.signals = signals /\ status.wake = wake

JsonSize(file, cap) == IF file # None /\ JsonLen <= cap THEN JsonLen ELSE 0
OutputSize(c) == files[c].wire + files[c].wave + files[c].log
                     + JsonSize(summaries[c], config.summary)

\* The bounds computed at the start, with their overflow checks, cover
\* everything that is written and the buffers of every open connection.
WithinBounds ==
    /\ SumFunctionOnSet([c \in Conns |-> OutputSize(c)], Conns)
             + JsonSize(status.file, config.status)
           <= CheckedOutputBound(config.run, config.file, config.summary, config.status)
    /\ Abandoned * (ReadBytes + config.payload) <= FixedBufferCapacity(config)

\* A signal delivered to the process, and a stop that the application requests
\* itself, end it: nobody waits for somebody who waits for him.
StopExits == pending \/ won ~> Done
=============================================================================
