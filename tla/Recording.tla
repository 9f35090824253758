----------------------------- MODULE Recording -----------------------------
(***************************************************************************)
(* The recording adapter of recording.rs: it validates the records of one  *)
(* connection, preserves wire and PCM bytes in two writers, describes      *)
(* every record in a third, and patches the WAVE header when it finishes.  *)
(* The records come from the caller, who may mix, repeat or reorder them;  *)
(* every writer may accept a prefix and then fail, on any call.            *)
(*                                                                         *)
(* A file is a sequence of units: payload bytes, the four regions of a     *)
(* WAVE header, or the parts of a description line, whose text is left     *)
(* out.  Calls are made one after the other by the consumer that owns the  *)
(* adapter, so a call is one action.                                       *)
(***************************************************************************)
EXTENDS Integers, Sequences, SequencesExt

CONSTANTS Records,      \* [connection, offset, kind, uuid, arg, bytes]
          Id,           \* the connection recorded
          SampleRate,   \* the rate its WAVE header declares
          Line(_),      \* the units of a record's description
          CountMax,     \* u64::MAX
          U32Max        \* u32::MAX

NoUuid == "none"
SampleBytes == 2
RiffOverhead == 36
Kinds == {"Connected", "Wire", "Started", "Audio", "Dtmf", "Ended"}

IsSequence(s) == Len(s) \in Nat /\ s = [i \in 1..Len(s) |-> s[i]]

ASSUME RecordingConstants ==
    /\ \A r \in Records : r.kind \in Kinds /\ r.offset \in Nat
    /\ \A r \in Records : IsSequence(r.bytes) /\ IsSequence(Line(r))
    /\ \A r \in Records : r.kind \notin {"Wire", "Audio"} => r.bytes = <<>>
    /\ \A r \in Records : r.kind \in {"Started", "Audio", "Dtmf"} => r.uuid # NoUuid
    /\ CountMax \in Nat /\ U32Max \in Nat

VARIABLES
    pc,               \* "new", "open", "finished", or "dropped" after an error
    state, uuid,      \* State, and the identity Active carries
    last,             \* last_event_offset
    summary,          \* RecordingSummary
    out, at, flushed, \* the three outputs, the WAVE position, outputs flushed
    outcome           \* result of the last call: "Ok", a violation or a stage

vars == <<pc, state, uuid, last, summary, out, at, flushed, outcome>>

Init ==
    /\ pc = "new" /\ state = "AwaitingConnection" /\ uuid = NoUuid /\ last = 0
    /\ summary = [wire |-> 0, audio |-> 0, events |-> 0, header |-> 0, patch |-> 0,
                  end |-> "Incomplete"]
    /\ out = [wire |-> <<>>, wave |-> <<>>, log |-> <<>>] /\ at = 0 /\ flushed = {}
    /\ outcome = "Ok"

-----------------------------------------------------------------------------
(* Outputs.                                                                *)

WaveHeader(n) == <<"RIFF", n + RiffOverhead, "fmt", n>>
WaveFits(n) == n + RiffOverhead <= U32Max

\* write_count: what a writer may accept of these units, and whether that is
\* all; a count that cannot hold them is refused before anything is written.
WriteCount(count, bytes) ==
    IF count + Len(bytes) > CountMax THEN {[n |-> 0, ok |-> FALSE]}
    ELSE {[n |-> n, ok |-> n = Len(bytes)] : n \in 0..Len(bytes)}

Prefix(bytes, n) == SubSeq(bytes, 1, n)

\* A write at a position of a file that reaches at least that far.
Overwrite(file, pos, bytes) ==
    Prefix(file, pos) \o bytes \o SubSeq(file, pos + Len(bytes) + 1, Len(file))

\* The adapter fails for good with this stage or violation.
Fail(why) == state' = "Failed" /\ outcome' = why

\* with_sample_rate; without its header there is no adapter.
New ==
    /\ pc = "new"
    /\ \E w \in WriteCount(summary.header, WaveHeader(0)) :
          /\ out' = [out EXCEPT !.wave = Prefix(WaveHeader(0), w.n)]
          /\ at' = w.n /\ summary' = [summary EXCEPT !.header = w.n]
          /\ IF w.ok THEN pc' = "open" /\ UNCHANGED <<state, outcome>>
             ELSE pc' = "dropped" /\ Fail("Header")
    /\ UNCHANGED <<uuid, last, flushed>>

-----------------------------------------------------------------------------
(* Validation.                                                             *)

MutMisplacedIgnoresWire(r) ==
    IF r.kind = "Wire" THEN r.offset # summary.wire ELSE r.offset < last
MutMisplacedAtEnd(r) ==
    IF r.kind = "Wire" THEN r.offset # summary.wire
    ELSE r.offset < last \/ (r.offset > 0 /\ r.offset >= summary.wire)
\* Offsets: a wire record continues the preserved prefix, any other one points
\* into it and does not go back.
Misplaced(r) ==
    IF r.kind = "Wire" THEN r.offset # summary.wire
    ELSE r.offset < last \/ r.offset > summary.wire

\* The state in which a kind may come, where its rank alone decides.
Disordered(r) ==
    \/ r.kind = "Connected" /\ state # "AwaitingConnection"
    \/ r.kind = "Started" /\ state # "AwaitingUuid"

Unnamed(r) == r.kind \in {"Audio", "Dtmf", "Ended"} /\ r.uuid # uuid

\* validate, in the order of its early returns.
Violation(r) ==
    IF state = "Failed" THEN "AfterFailure"
    ELSE IF state = "Ended" THEN "AfterEnd"
    ELSE IF r.connection # Id THEN "Connection"
    ELSE IF state = "AwaitingConnection" /\ r.kind # "Connected" THEN "Order"
    ELSE IF Misplaced(r) THEN "Offset"
    ELSE IF Disordered(r) THEN "Order"
    ELSE IF Unnamed(r) THEN "Uuid"
    ELSE IF r.kind # "Audio" THEN "Ok"
    ELSE IF r.arg # SampleRate \/ Len(r.bytes) % SampleBytes # 0 THEN "AudioFormat"
    ELSE IF ~WaveFits(summary.audio + Len(r.bytes)) THEN "WaveSize"
    ELSE "Ok"

NextState(r) ==
    CASE r.kind = "Connected" -> "AwaitingUuid"
      [] r.kind = "Started" -> "Active"
      [] r.kind = "Ended" -> "Ended"
      [] OTHER -> state

-----------------------------------------------------------------------------
(* Recording and finishing.                                                *)

MutCountedWhenComplete(r, kind, n) == IF r.kind = kind /\ n = Len(r.bytes) THEN n ELSE 0
\* What n payload units of this record add to the count of an output.
Counted(r, kind, n) == IF r.kind = kind THEN n ELSE 0

\* n units of the payload and m of the line are accepted by their writers.
Preserve(r, n, m, end) ==
    /\ out' = [wire |-> IF r.kind = "Wire" THEN out.wire \o Prefix(r.bytes, n) ELSE out.wire,
               wave |-> IF r.kind = "Audio" THEN Overwrite(out.wave, at, Prefix(r.bytes, n))
                        ELSE out.wave,
               log |-> out.log \o Prefix(Line(r), m)]
    /\ at' = IF r.kind = "Audio" THEN at + n ELSE at
    /\ summary' = [summary EXCEPT !.wire = @ + Counted(r, "Wire", n),
                                  !.audio = @ + Counted(r, "Audio", n),
                                  !.events = @ + m, !.end = end]

\* The payload's writer, which only wire and audio records have, then the log.
WritePayload(r) ==
    WriteCount(IF r.kind = "Wire" THEN summary.wire ELSE summary.audio, r.bytes)
WriteLine(r) == WriteCount(summary.events, Line(r))

\* record refuses before it writes anything.
Reject(r) ==
    /\ pc = "open" /\ Violation(r) # "Ok"
    /\ Fail(Violation(r))
    /\ UNCHANGED <<pc, uuid, last, summary, out, at, flushed>>

\* A writer fails during record, after accepting a prefix.
PayloadFails(r) ==
    /\ pc = "open" /\ Violation(r) = "Ok"
    /\ \E w \in WritePayload(r) : ~w.ok /\ Preserve(r, w.n, 0, summary.end)
    /\ Fail(r.kind)
    /\ UNCHANGED <<pc, uuid, last, flushed>>

LineFails(r) ==
    /\ pc = "open" /\ Violation(r) = "Ok"
    /\ \E p \in WritePayload(r), w \in WriteLine(r) :
          p.ok /\ ~w.ok /\ Preserve(r, p.n, w.n, summary.end)
    /\ Fail("Events")
    /\ UNCHANGED <<pc, uuid, last, flushed>>

\* Both writers take everything.
Accept(r) ==
    /\ pc = "open" /\ Violation(r) = "Ok"
    /\ \E p \in WritePayload(r), w \in WriteLine(r) :
          /\ p.ok /\ w.ok
          /\ Preserve(r, p.n, w.n, IF r.kind = "Ended" THEN r.arg ELSE summary.end)
    /\ last' = IF r.kind = "Wire" THEN last ELSE r.offset
    /\ state' = NextState(r) /\ uuid' = IF r.kind = "Started" THEN r.uuid ELSE uuid
    /\ outcome' = "Ok"
    /\ UNCHANGED <<pc, flushed>>

\* finish begins only on an adapter that has not failed.
MutAnyMayFinish == TRUE
MayFinish == state # "Failed" /\ WaveFits(summary.audio)

finishFrame == <<uuid, last>>

FinishRefused ==
    /\ pc = "open" /\ ~MayFinish
    /\ pc' = "dropped" /\ Fail(IF state = "Failed" THEN "AfterFailure" ELSE "WaveSize")
    /\ UNCHANGED <<finishFrame, summary, out, at, flushed>>

SeekFails ==
    /\ pc = "open" /\ MayFinish
    /\ pc' = "dropped" /\ Fail("Seek")
    /\ UNCHANGED <<finishFrame, summary, out, at, flushed>>

MutPatchAtEnd(n) ==
    /\ out' = [out EXCEPT !.wave = Overwrite(@, at, Prefix(WaveHeader(summary.audio), n))]
    /\ at' = at + n /\ summary' = [summary EXCEPT !.patch = n]
\* After the seek, n units of the final header replace the provisional ones.
Patch(n) ==
    /\ out' = [out EXCEPT !.wave = Overwrite(@, 0, Prefix(WaveHeader(summary.audio), n))]
    /\ at' = n /\ summary' = [summary EXCEPT !.patch = n]

WritePatch == WriteCount(summary.patch, WaveHeader(summary.audio))

PatchFails ==
    /\ pc = "open" /\ MayFinish
    /\ \E w \in WritePatch : ~w.ok /\ Patch(w.n)
    /\ pc' = "dropped" /\ Fail("Patch")
    /\ UNCHANGED <<finishFrame, flushed>>

\* The outputs are flushed in this order; the i-th flush fails.
Flushes == <<"wire", "wave", "log">>
FlushFails(i) ==
    /\ pc = "open" /\ MayFinish
    /\ \E w \in WritePatch : w.ok /\ Patch(w.n)
    /\ flushed' = ToSet(Prefix(Flushes, i - 1))
    /\ pc' = "dropped" /\ Fail(<<"Flush", Flushes[i]>>)
    /\ UNCHANGED finishFrame

Finish ==
    /\ pc = "open" /\ MayFinish
    /\ \E w \in WritePatch : w.ok /\ Patch(w.n)
    /\ flushed' = ToSet(Flushes)
    /\ pc' = "finished" /\ outcome' = "Ok"
    /\ UNCHANGED <<finishFrame, state>>

Terminated == pc \in {"finished", "dropped"} /\ UNCHANGED vars

Next ==
    \/ New \/ FinishRefused \/ SeekFails \/ PatchFails \/ Finish \/ Terminated
    \/ \E i \in 1..Len(Flushes) : FlushFails(i)
    \/ \E r \in Records : Reject(r) \/ PayloadFails(r) \/ LineFails(r) \/ Accept(r)

Spec == Init /\ [][Next]_vars

-----------------------------------------------------------------------------
(* Properties.                                                             *)

\* Failure stops further mutations: once a record was refused or an output
\* failed, no later call of record or finish changes an output or a count.
FailureStops == [][state = "Failed" => UNCHANGED <<out, summary>>]_vars
=============================================================================
