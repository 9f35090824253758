# A TLA+ model of phonowire

phonowire receives AudioSocket connections on one worker thread, decodes them,
and hands raw bytes, decoded events and audio to a consumer as records, with
bounded memory and bounded queues. This directory holds TLA+ modules for its
core, TLC configurations that check them on small instances, and TLAPS proofs
of the results that matter for every size. `PROJECT.json` maps each definition
to the source lines it models.

Run a model with `tlc -config X.cfg M`, a proof with `tlapm M.tla`.

## The system

| Part | State | Operations | Correct when |
| --- | --- | --- | --- |
| Scheduler (`scheduler.rs`) | task states, runnable FIFO, two admission FIFOs (linked lists in maps) | insert, take, io_ready, park, resume_credit, request_turn, finish_request, retire | a waiting task is found by the credit or event that frees it; one runnable entry per task; its assertions hold |
| Signals (`scheduler.rs`) | five flags, the attached waker, a remembered wake failure | set, publish, request, take_* | a request is never both unseen and silent |
| Connection task (`connection.rs`, `TaskContext`) | await point, permits, progress counters | read, copy, send, decode, observe | FIFO admission; nothing follows the terminal record; every stream yields the same records however it is cut |
| Handoff (`handoff.rs`) | bounded channel | try_send, recv, drop of `Records` | a freed slot becomes a credit |
| Byte budget (`memory.rs`) | used bytes, subscriber, retained bytes per connection | try_copy, drop of a payload, subscribe, unsubscribe | the account is exact, refunds become credits, also across runs |
| Worker (`driver.rs`) | live tasks, listener readiness and pause, token counter, run summary | drive, run_ready, accept_ready, admit, retire_* | bounded live set, no forgotten connection, honest counters, a stop always ends the run |
| Scoped close (`driver.rs`) | table of live connections, result of each ticket | close, register, finish, stop_all | each ticket gets one true, lasting result |
| Framing and session (`phonowire-audiosocket`) | partial header and body; session state | feed of both decoders, finish, typed, receive, end_of_input, the header of encode | fragmentation is invisible; what is decoded is what was encoded |
| Recording (`recording.rs`) | state, counts, three writers | record, finish | the outputs match the counts under partial writes |
| Capture (`phonowire-capture`, `config.rs`) | stop claim and its cause, map of recorders, counters, size-limited files | validation of limits; admit, record, drain, finalise, join, report; signals | outputs, counters and exit status agree; a stop ends the process |

The parts interact as follows. The worker thread owns the scheduler, the tasks
and the listener; it polls tasks in turns of `TURN_BATCH` polls with
`turn_steps` permits each. Other threads reach it only through `Signals`: they
set a flag and then wake the poller. The consumer frees channel slots (a Queue
credit) and drops payloads (a Bytes credit, through the budget's subscriber);
`StopHandle`, the drop of `Records` and `close` set Stop, Disconnected and
Control. The kernel reports edge-triggered readiness. A close may cancel a task
at any await, which drops the future together with a charged payload and its
places in the admission FIFOs. The capture application owns three threads: its
main thread receives the records and keeps a recorder per connection, the
receiver's thread runs the worker, and a signal thread may request the stop.

What is hard about it: credits are booleans that coalesce; readiness is
reported once; flags and wakes are separate steps racing a worker that is about
to block; cancelled waiters hand their turn on; shutdown, natural ends and close
requests race for one ticket; counters and tokens may run out in the middle of
a merge; streams are cut anywhere; the capture's exit status is put together
from what three threads counted, after whichever of them ended first. `PROJECT.json` lists these hazards with
their lines and the properties that cover them.

## The modules

- **Ready** is the scheduler's record as a value, with one operator per method
  (`Enqueue`, `Park`, `RequestTurn`, `Retire`, ...). Everything runs under one
  mutex, so each operator is one step. A FIFO is the sequence of its tokens.
- **Order** is that FIFO as the code keeps it, a doubly linked list in a map,
  next to the sequence it stands for. It justifies the sequences of Ready.
- **Tasks** EXTENDS Ready. Actors: the worker (one action per step of `drive`
  and of a poll), the consumer, the peers, a closer. `op[t]` is the await point
  of task `t`: `connected`, `wire`, `event`, `audio`, `refused`, `ended` wait in
  `send`, `copyWire`, `copyAudio`, `copyPeer` in `copy`, `read`, `decode`,
  `frame` at a permit. A poll consumes one permit per step and ends by yielding,
  parking or completing. `CheckStop` and `Collect` are the stop check and the
  scan of `retire_requested`, the check first at the top of the loop and the scan
  first after the tasks have run, as in `drive`. `refused` is the Ended record that `observe` sends when
  audio does not fit the budget; `Bind` is the check that rules this out.
- **Drive** models one run from `run_with` to its return: signals with failing
  wakes, the retirement passes, the close table and its tickets, the listener
  with its error classes, tokens, counters and the summary. The table and a ticket's
  result have a lock each: `Unlist` and `StopAll` take entries out of the table,
  `Finish` (in `FinishTask`) and `Release` publish the results, and `held` is what
  the worker has taken out and not answered yet. A task is reduced to
  its stage between two records; what it waits for is left open, since Tasks
  answers that.
- **Receiver** is the contract of a receiver as its application sees it, with no
  scheduler, listener or close table: records of a connection in order, an
  identity after the other and within the limit, nothing handed off after `run`
  returned, `Ok` only after a stop and then with a summary that accounts for
  every connection and payload. `Drive` implements it (`KeepsContract`, with
  `Contract` as the refinement mapping: a connection is what the channel accepted
  of it), and `Capture` is built on it.
- **Capture** is `phonowire-capture` from the validated configuration to the exit
  status: `Claim`, `Name`, `Stop`, `Woken` are the four accesses of a stop request,
  made by either thread; the main thread takes a record per step, finalises the
  recorders left, closes the signal handle, joins, and reports. Its receiver
  steps are the actions of `Receiver`, behind a bounded channel, with failure and
  panic added. A recorder is the sizes of its files, in units. Of the ten end
  reasons (`EndReasons`) the application tells only two kinds apart:
  `successful_terminal` accepts `CleanEof` and `Terminate`, and every other reason
  is handled alike. The run has one of each kind, `CleanEof` and `Truncated`; the
  proofs cover all ten. **CaptureMC** supplies the configurations.
- **Budget** takes the locks of `memory.rs` one at a time, with payloads that
  outlive runs, two runs after each other and an application that copies into
  the same account.
- **Stream** is one connection's bytes: the read loop, the framer, the typed
  view, the session policy. A byte is its position in the stream, so a payload
  is right exactly when it holds the right positions; the value of a header
  byte is the one `EncodeHeader` put there, so lengths and types are rebuilt from
  bytes that may have arrived in different reads. `Meaning` defines the
  records from the whole stream, without reads, buffers or session state.
- **Recording** is the adapter of `recording.rs`: construction, `validate` in the
  order of its early returns, the payload's write and then the line's, and
  `finish` with its seek, patch and flushes. A write accepts any prefix and fails
  exactly when it is short, which is all `write_count` lets through of a writer.
  A WAVE header is its four regions, of which two depend on the size; a
  description line is a sequence of units (`Line`). **RecordingHistory** adds the
  accepted records as history and states the properties that need them;
  **RecordingMC** supplies the records.
- **Recorded** composes Stream and Recording: each record the connection hands
  off is given to the adapter.
- **Strict** adds the strict `Decoder`, fed with the same reads by the loop of
  `examples/incoming_session.rs`; `Judged` defines its results from the stream as
  a whole. **StreamMC** supplies the messages for all three.
- **TasksProofs**, **DriveProofs**, **BudgetProofs**, **OrderProofs**,
  **CaptureProofs**, **RecordingProofs** hold the theorems about the modules they
  are named after, **StreamProofs** those about Stream, Recorded and Strict.
  TasksProofs starts with the lemmas on the scheduler's operators; **Sums** (finite
  sums, the maximum of a finite set, `FlattenSeq`) holds the lemmas they share.

Grain of atomicity. Worker-local work is joined with at most one access to
state another thread shares (channel, budget, flags, close table, failure
slot). Other threads take one step per access: freeing, raising the flag and
waking are three steps. In `Drive` the worker too takes the table's lock and that of a
result in steps of their own, with a closer free to run in between. In `Tasks` the wake of a budget refund made by the
worker itself (a cancelled payload) is joined with it, because nobody else runs
the worker's next step. `Tasks` and `Drive` are two views of the same loop, each
with the other's detail left out; they are not composed, and the product of both
would be out of TLC's reach.

## The runs

| Run | Configuration | Shows |
| --- | --- | --- |
| tasks_contention | 2 tasks, one slot, budgets 1 and 2, payloads 0 to 2, preloaded peers, one frame each | `TypeOK`; `BoundedBypass`: a registered task is passed at most once by each competitor; `EndedIsLast` |
| tasks_cancel | two slots, close requests, dropped consumer, interrupted reads | `SchedulerConsistent`, `AssertionsHold`, `NoLostCredit`, `NoSilentSignal`, `RetainedAccounted` |
| tasks_progress | peers send and close at any time, one slot, budget 1, fair, without the 100 ms recheck | `NoLostReadiness`, `ClosedPeerRetires` |
| drive_close | 2 connections, 3 arrivals, the tokens for one of them missing, close and stop | `TypeOK`, `TicketsAnswered`, `ResultTrue`, `ResultStable` |
| drive_counters | live bound 2, 3 arrivals, counters end at 2, up to 3 chunks per task, dropped consumer, without the recheck | `SummaryExact`, `NoSilentControl`, and the refinement `KeepsContract` |
| drive_stop | live bound 1, stop and close, one failing wake, accept or other call, fair, with the recheck | `NoSilentControl`, `NoLostListener`, `KeepsContract`, `StopCompletes`, `TicketsComplete` |
| drive_shutdown | stop and close | a violation of `NoTicketDuringShutdown` (below) |
| order_links | five tokens | `Represents` |
| budget_runs | 3 payloads of 0 to 2 bytes, capacity 2, 2 runs, 2 connections | `AccountExact`, `NoLostRefund` |
| stream_cuts | all streams of up to 3 messages from 13, truncated anywhere, reads of 1 to 6 bytes, offsets up to 14, at most 2 bytes of PCM in a WAVE file; a recorder and a strict decoder attached | `EventsExact`, `OffsetsBacked`, `RecordedFaithfully`, `StrictExact` |
| recording_faults | 44 records of every kind in any order, up to six of them accepted, failing writers | `SummaryTrue`, `FinishedSound`, `HistoryCoherent`, `FailureStops` |
| capture_runs | 2 connections with a payload each, a channel of one, clean and truncated ends, one signal, one failure, 4 admissible and 2 refused configurations, fair | `TypeOK`, `ExitHonest`, `NoFalseAlarm`, `Concluded`, `StatusTrue`, `WithinBounds`, `StopExits` |

Bounds. Two tasks are the least with a head and a waiter behind it, and every
scheduler operation concerns at most the head and its successor; the credit
argument is proved for any number. Payloads of 1 and 2 against capacities 1 and
2 give the refused, the fitting and the waiting copy. One slot makes every send
contend. In Drive the constants `TokenMax`, `CounterMax`, `MaxArrivals`,
`MaxChunks`, `MaxFaults` stand for `usize::MAX`, the width of the counters and
the length of a behaviour; they are small where a run is about reaching the
limit and out of the way elsewhere. A counter of Drive counts chunks, not bytes.
In Stream three messages after each other reach a session's start, its middle
and whatever follows; a UUID has 1 byte instead of 16, and reads of up to 6
bytes hold two messages. `Radix`, the values of a byte of a length, is 3 instead
of 256, so that a length of 4 needs both bytes. In Recording `CountMax` (`u64::MAX`) is 13 and a line two
units, so the seventh line overflows its count and behaviours are finite;
`U32Max` leaves room for 2 bytes of PCM, so that the second audio payload
outgrows the file in both runs. Recorded leaves the descriptions out: they would
only tell apart states by the reads that led to them. In Capture two connections
are the least of which one is refused, failed or cut off beside another that is
recorded to its end; the configurations make the run's count, the active
recorders and the files reach their limits, and `U64Max` = 24 lies just above the
bounds of the admissible ones. One failure per behaviour reaches each error path;
paths after a second, independent one are not explored.

Fairness. `FairSpec` of Tasks assumes the worker's thread keeps running and the
consumer keeps receiving and dropping payloads, which the documentation of
`Receiver::run` asks of it. `FairSpec` of Drive assumes the worker's thread, the
passing of the accept pause, and that a thread finishes a publish it began; it
assumes nothing about tasks, peers or the application. The 100 ms recheck is
the constant `Recheck`: it is off where a property says that nothing depends on
it, and on in the run whose wakes may fail. `FairSpec` of Capture assumes that
the main and the signal thread run and that a receiver which was asked to stop
returns, which is `StopCompletes` of Drive; it assumes nothing of peers, and not
that a receiver hands anything off.

Deadlock is not checked in Tasks, Drive and Capture: a worker without events and
without the recheck blocks, a capture without connections and signals waits, and
runs end. The other modules check it.

### Finding

`ConnectionControlHandle::close` is documented to return `ReceiverStopping`
"once whole-receiver shutdown has begun" (driver.rs:291-292). The flag it looks
at is set by `stop_all`, which `run_with` calls after `drive` has returned and
`retire_all` has retired every task (driver.rs:564-566). drive_shutdown shows a
ticket issued in between. It does no harm: `TicketsAnswered` and
`TicketsComplete` hold, such a ticket is answered `ReceiverStopped`.

## The proofs

- **TypeCorrect** (TasksProofs): `Spec => []TypeOK`, action by action, from
  lemmas that each scheduler operator maps `ReadyType` to itself.
  It needs `PolledAwake` (the polled task is a token and is not asleep), since
  the actions of a poll index by `cur`.
- **CreditsKept** (TasksProofs): `Spec => []NoLostCredit`, for every number of
  tasks, channel capacity, budget and payload size. `NoLostCredit` says: when the
  oldest waiter for a resource sleeps although it could complete, the credit is
  raised or about to be. It is not inductive alone: a step of the polled task
  changes the head of a FIFO or its length, and one must know that the polled
  task itself is not asleep. The invariant is
  `TypeOK /\ PolledAwake /\ NoLostCredit`, where `PolledAwake` says that the
  scheduler's state of the polled task is not a wait. The argument: a resource
  becomes free only by a step that leaves the credit owed (`pub` or `flags`); the
  credit is consumed only together with resuming the head; a new head, after a
  completion or a cancellation, is resumed by the removal itself, so it is not
  asleep; and a task parks as head only when it has just seen the resource
  exhausted. The last two facts are lemmas on the scheduler's operators
  (`NoNewWait`, `HeadKeptOrAwake`).
- The other safety properties of Tasks rest on one invariant, `Core`, whose parts
  need each other. `Coherent`: the FIFOs hold no token twice, the runnable one holds
  exactly the Queued and Notified tasks, a task that waits for a resource stands
  in its FIFO, and the scheduler knows exactly the live tasks. `Registered`: who
  stands in a FIFO is at an await point that asks for that resource; otherwise a
  credit could wake a task that has moved on. `Placed`: the polled task is Running
  or Notified, any other Running task is about to be retired, a completed task is
  never left behind. `Payloads`: after `Bind` no payload exceeds the capacity, and a
  task has a payload only while it copies or sends one. `PollTask` sums up what a
  poll may do (go on, wake itself, sleep, complete an operation, wait for one), so
  that the other lemmas have five cases instead of thirteen.
  - **SchedulerStaysConsistent** and **NoAssertionFails**: `SchedulerConsistent`
    and `AssertionsHold` follow from `Core` and the bound on `Token`; lengths against
    cardinalities by `DistinctLength`.
  - **EndedStaysLast**: `EndedIsLast` is a part of `Payloads`.
  - **ReadinessKept**: `NoLostReadiness`, with `Handled`, that a batch of events is
    handled before the next step that could park a task.
  - **SignalsHeard**: `NoSilentSignal` speaks of the moment before the poll;
    `Announced` says for every position of the worker which flags it has still to
    read before that.
  - **BypassBounded**: `BoundedBypass` from `Turns`: how often a task was passed plus
    its place in the FIFO never exceeds `MaxConnections`. Whoever passes it
    leaves the FIFO in front of it, so that the one grows as the other shrinks.
  - **BytesAccounted**: `RetainedAccounted`, with `Lengths` (a queued record has the
    length of some payload). `PollBytes` gives the four effects of a poll on the
    account; the sums change by `SumAppend`, `SumTail` and `SumChange`.
- **AccountAlwaysExact**, **RefundsKept** (BudgetProofs): `AccountExact` and
  `NoLostRefund`. They are inductive together with the types and `SubscriberRuns`:
  the budget's subscriber is the one receiver that runs, and only that one has a
  waiter, so that the waker a refund takes along is the right one or one whose
  receiver no longer waits.
- **DriveTyped**, **EveryTicketAnswered**, **EveryResultTrue**, **ListenerKept**,
  **ControlHeard**, **SummaryAlwaysExact** (DriveProofs): the invariants of Drive
  from one inductive invariant, `DriveInv`, a conjunction of a part per concern,
  each with a lemma that every step keeps it. `Located` and `Returned` tie the
  worker's position to its locals (which pass is under way, what remains of it,
  whether `drive` has returned); `Fresh` says nothing is known of tokens not given out;
  `Table` ties the close table and what the worker holds of it to the live tasks
  and the tickets, and `Reasons` says
  that a pass retires for the reason it will publish, from which `Answers` (a
  published result is true) follows; `Records` relates each task's
  stage and counters to what the channel has accepted of it, and `Books` the
  summary to the sums over all connections, as long as no counter has
  overflowed; `Heard` and `Alert` say, position by position, why a connection in
  the kernel's queue and a request are still going to be noticed.
- **ResultsStable** (DriveProofs): the action property `ResultStable`, from `Table`: a
  connection with a result has no entry left, in the table or held, through which
  another could come.
- **ContractKept** (DriveProofs): `Spec => KeepsContract`, Drive implements Receiver.
  Under the mapping `Contract` the initial states agree, and every action of Drive
  is an action of Receiver or leaves its variables unchanged; the guards of
  Receiver (order of records, the limit, an `Ok` only after a stop and with an exact
  summary) are what `DriveInv` provides.
- **LinksRepresent** (OrderProofs): `Spec => []Represents`. `Represents` is
  inductive as it stands, because it includes that a token outside the list has
  no leftover links. The work is in `LinkStep` and `UnlinkStep`, over an
  arbitrary position, with lemmas on what `Without` does to positions.
- **StatusHonest** (CaptureProofs): `Spec => []StatusTrue`. A claim and its cause
  are stored apart, so `StatusTrue` says nothing about the moments in between.
  `ClaimInv` does: while a claim has no cause yet, a thread is about to store it
  and holds the right one (`ClaimOwned`); past its first join the main thread is
  alone (`MonitorJoined`), so no such thread is left when it reports; and a
  written status stays equal to the shared state (`StatusFinal`).
- **CaptureTyped**, **SuccessHonest**, **FailureHonest**, **RunConcludes**,
  **BoundsHold** (CaptureProofs): the other invariants of Capture, from one
  inductive invariant, `RunInv`. What an exit says about a recording is decided
  long after the receiver handed off its records, so the invariant has to follow
  them. `Under` counts a connection's records that are in the channel or in the
  main thread's hands, by kind, and `Flow` says that they are in order. `Life` says
  of each connection what there is before its Connected record was handled
  (nothing), while its recorder is active (what was handed off is in the files or
  under way, and the end, if sent, is under way too), after it failed (the run is
  bad), and with each kind of summary; and that a recording without a clean end
  is either still being received or a reason for a bad exit. With `Drained`
  (nothing is under way when the loop has ended) this gives `Concluded` and
  `ExitHonest`. `NoFalseAlarm` needs the converse, `Blame`: a bad run without a
  failure has a connection that was handled and is not recorded cleanly;
  `Excused` ties a failed wake or receiver to a failure, `Joined` the verdict to the
  receiver's result. `Limits` has the caps of the files, the reservations and the
  recorders, from which `WithinBounds` follows with `SumBound` and the two overflow
  checks; `Metadata` counts the directories left without a summary. A handler of a
  record is summed up once, in `Turn`, whatever its writers return, and the
  lemmas of each part work with its eight cases.
- **FailureIsFinal** (RecordingProofs): the action property `FailureStops`. It needs
  only that an adapter has not failed before it exists (`NewIsSound`).
- **SummaryIsTrue**, **FinishedIsSound**, **HistoryIsCoherent** (RecordingProofs): the
  invariants of RecordingHistory from one inductive invariant, `RecordingInv`. `Framed`
  says that the header's units come first and that writes go to the end of the WAVE
  file until the seek, so that a write there is an append (`WriteAtEnd`) and the
  patch leaves the PCM alone (`PatchStep`). `Written` says what the files hold, with
  numbers n and m of units of the failed record's payload and line; `CountsTrue` is
  about the counts; `Told` ties state, identity, last offset and end to the accepted
  records, which is what makes `validate` sufficient for `HistoryCoherent`
  (`AcceptFollows`). The files of a sequence of records are defined with `FlattenSeq`,
  a recursive function in the community modules; that it exists and what one more
  element adds (`FlattenAppend`) is proved by the least-number principle, as in Sums.
- **StreamEvents**, **StreamOffsets** (StreamProofs): `EventsExact` and
  `OffsetsBacked` of Stream, for any messages, limits and sizes of the reads.
  `EventsExact` compares the records with `Meaning`, which knows nothing of the
  framer; the invariant `StreamInv` says where the framer is. `FramerAt(k, c)` is the
  state a framer must be in after c bytes of which message k is the last complete
  one: the header bytes so far, or the header, the declared length and the body
  bytes so far. `Within(k)`: the connection has taken exactly the first k messages,
  none of them fatal, its records are their story and its framer is
  `FramerAt(k, consumed)`, inside a message whose length it has admitted.
  `Completed(k)`: the frame of message k + 1 waits to be typed. `EndedAfter(k)`: the
  last record is the one that `Meaning` ends with, or the cut. The step that
  carries the proof is `Fed`: from `FramerAt(k, c)`, a call with n more bytes
  leaves `FramerAt(k, c + n)`, or yields message k + 1, or fails on its declared
  length. It rests on `HeaderAt` and `LengthDeclared` (the two length bytes and the
  type byte give back what `EncodeHeader` wrote, from whatever reads they come).
  `MessageIs` and `VerdictIs` then say that a frame is typed and judged as the
  reference judges the message it was encoded from.
- **RecordingFaithful** (StreamProofs): `RecordedFaithfully`. The adapter's rules are
  its own, so one must show that no record of a connection breaks them. `Handoff`
  sums up what a step hands off in five kinds; `Mirrored` says that an adapter
  that has not failed knows the session's state, identity and last offset and that
  its files hold the bytes read and the accepted audio. With the offsets of
  `StreamInv` each of the five kinds passes `validate`, and the only refusal left is
  the size of a WAVE file.
- **StrictDecoding** (StreamProofs): `StrictExact`. A decoder is `Going` at the last
  byte read, in the state `FramerAt` gives for the messages it has returned, or
  `Stopped` at the place of the first objection. `FeedOnce` gives one call (by `Fed`,
  with lengths validated), `LoopRuns` the caller's loop over a read: each call gets a
  byte further, so as many calls as bytes are enough.

Sums. Accounts are stated with `SumFunctionOnSet`, which picks the elements of a
set in an arbitrary order. That a sum is a number, and how it changes when an element
comes, goes or changes its value, is proved in Sums, by induction on the size of
the set. The library's induction theorems cannot be instantiated by the provers;
the induction here is the least-number principle (`LeastNatural`, from the
well-foundedness of `<`) applied to the set of sizes for which the claim fails. The
same argument shows that the recursive functions `End` and that of `StrictDecode`
exist and what they compute.

Assumptions are the named ASSUMEs of the modules: limits are positive, tokens
are numbers other than the control token and not more than `MaxConnections`,
sets of sizes, charges and connections are finite, `None` and `Nobody` are no
members of the sets they are added to, payloads and lines are sequences, and
Started, Audio and Dtmf records carry an identity (their type in the code has no
other value). In Stream, a length fits two bytes and an unknown type is none of the
known ones, as `u16` and `WireType` ensure; in Recorded, the profile accepts the one
rate recorded, as the capture application configures it; in Strict, a message has no
fields beside its type, length and value. TLC evaluates them in each run. A proof
assumes nothing else; in particular every bound on the length of a behaviour
(`MaxArrivals`, `MaxChunks`, `MaxFaults`, ...) is any natural number.

Only model-checked: liveness (`ClosedPeerRetires`, `StopCompletes`,
`TicketsComplete`, `StopExits`), which needs fairness and ENABLED, both beyond the
prover. Every other property of the passing runs is also proved.

## Not modelled

- The counter `records_queued` / `records_handed_off` and its overflow in
  `send`, durations and timestamps, the process-wide instance counter.
- The errno table of `classify_accept`; Drive takes its four classes.
- mio, the standard library's channel and the sockets are external, modelled
  from how the code uses them. Memory orderings: a flag and the state it guards
  are read in the order in which they were written.
- The encoder's refusal of a destination that is too short, and the constructors
  of the value types: pure checks of one argument.
- Of the capture: the parsing of arguments, the text of its JSON files, byte counts
  beside record counts, and panics other than the receiver thread's. Whether a
  writer keeps what it accepted (durability) is the operating system's matter.
- The example programs, which have no logic of their own.

## Plan

Done: Ready, Order, Tasks, Drive, Budget, Stream, Recording and Recorded, in this
order, since the scheduler and its credits carry the rest; then Capture, the
contract between it and Drive, and Strict.

All safety properties of all modules are proved, and so is the refinement of
Receiver by Drive. Left: an abstract credit protocol that Tasks implements.
