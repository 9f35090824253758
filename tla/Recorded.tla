------------------------------ MODULE Recorded ------------------------------
(***************************************************************************)
(* A connection and the adapter that records it: every record module       *)
(* Stream hands off is given to module Recording.  The channel between     *)
(* them is a FIFO and the consumer takes its records alone, so the adapter *)
(* sees the same calls whenever they are made, and here it takes each      *)
(* record as it is sent.  The writers do not fail (module Recording lets   *)
(* them); the profile accepts the one rate the adapter records, which is   *)
(* how the capture application sets both up.                               *)
(***************************************************************************)
EXTENDS Stream

CONSTANTS SampleRate, CountMax, U32Max

ASSUME OneRate == Rates = {SampleRate}
ASSUME CounterLimits == {CountMax, U32Max} \subseteq Nat

VARIABLES recPc, recState, recUuid, last, summary, out, at, flushed, outcome

recVars == <<recPc, recState, recUuid, last, summary, out, at, flushed, outcome>>

\* The descriptions are left out here.
NoLine(r) == <<>>

Rec == INSTANCE Recording WITH
    Records <- {}, Id <- "connection", Line <- NoLine,
    pc <- recPc, state <- recState, uuid <- recUuid

\* A wire record carries the bytes of one read, at the offset of the first.
WireRecord ==
    [connection |-> "connection", offset |-> wired, kind |-> "Wire", uuid |-> NoUuid,
     arg |-> "none", bytes |-> Bytes(wired, wired' - wired)]

\* The other records are the events of Stream; TerminalKind::from keeps the
\* kind of an end reason.
EventRecord(e) ==
    [connection |-> "connection", offset |-> e.offset, kind |-> e.kind, uuid |-> e.uuid,
     arg |-> CASE e.kind = "Audio" -> SampleRate
               [] e.kind = "Ended" -> e.arg.kind
               [] OTHER -> e.arg,
     bytes |-> IF e.kind = "Audio" THEN e.arg ELSE <<>>]

\* The records this step hands off: one at most.
Sent ==
    IF wired' # wired THEN {WireRecord}
    ELSE IF events' # events THEN {EventRecord(Last(events'))} ELSE {}

\* The adapter is called with what was sent; the writers take what they are given.
Record ==
    IF Sent = {} THEN UNCHANGED recVars
    ELSE \E r \in Sent : Rec!Reject(r) \/ Rec!Accept(r)

\* The adapter is made for the connection's first record.
RecordedInit == Init /\ Rec!Init
Open == recPc = "new" /\ Rec!New /\ recPc' = "open" /\ UNCHANGED vars

RecordedNext ==
    \/ Open
    \/ recPc = "open" /\ Connect /\ Record
    \/ ReadFails /\ Record
    \/ ReadEof /\ Record
    \/ Decode /\ Record
    \/ Refuse /\ Record
    \/ Observe /\ Record
    \/ PeerEnds /\ Record
    \/ \E n \in 1..ReadBytes : Read(n) /\ Record
    \/ Terminated /\ UNCHANGED recVars

RecordedSpec == RecordedInit /\ [][RecordedNext]_<<vars, recVars>>

-----------------------------------------------------------------------------
(* Properties.                                                             *)

Audio == FlattenSeq([i \in 1..Len(events) |->
                        IF events[i].kind = "Audio" THEN events[i].arg ELSE <<>>])

\* From socket to file: the adapter refuses nothing a connection sends, unless
\* its PCM outgrows a WAVE file.  Otherwise the wire file holds exactly the
\* bytes read, the WAVE file the payloads of the accepted audio, and the summary
\* tells the end of the connection once it has ended, and not before.
RecordedFaithfully ==
    IF recState = "Failed" THEN ~Rec!WaveFits(Len(Audio))
    ELSE /\ out.wire = Bytes(0, wired)
         /\ recPc = "open" => out.wave = Rec!WaveHeader(0) \o Audio
         /\ summary.end = IF pc = "done" THEN Last(events).arg.kind ELSE "Incomplete"
=============================================================================
