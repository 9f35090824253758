-------------------------- MODULE RecordingHistory --------------------------
(***************************************************************************)
(* Module Recording with the history its properties speak of: the records  *)
(* it has accepted and the one an output failed on.                        *)
(***************************************************************************)
EXTENDS Recording

VARIABLES accepted, partial

history == <<accepted, partial>>

HistoryInit == Init /\ accepted = <<>> /\ partial = <<>>

HistoryNext ==
    \/ (New \/ FinishRefused \/ SeekFails \/ PatchFails \/ Finish \/ Terminated)
       /\ UNCHANGED history
    \/ \E i \in 1..Len(Flushes) : FlushFails(i) /\ UNCHANGED history
    \/ \E r \in Records :
          \/ Reject(r) /\ UNCHANGED history
          \/ (PayloadFails(r) \/ LineFails(r)) /\ partial' = <<r>> /\ UNCHANGED accepted
          \/ Accept(r) /\ accepted' = Append(accepted, r) /\ UNCHANGED partial

HistorySpec == HistoryInit /\ [][HistoryNext]_<<vars, history>>

-----------------------------------------------------------------------------
(* Properties.                                                             *)

Joined(rs, kind) == FlattenSeq([i \in 1..Len(rs) |->
                                   IF rs[i].kind = kind THEN rs[i].bytes ELSE <<>>])
Lines(rs) == FlattenSeq([i \in 1..Len(rs) |-> Line(rs[i])])
Between(low, s, high) == IsPrefix(low, s) /\ IsPrefix(s, high)

\* What the outputs hold besides the header: the bytes and lines of the accepted
\* records in order, then at most a prefix of the one record an output failed
\* on, whose line does not begin before its payload is complete.  The summary
\* handed out with success or failure counts exactly those units.
SummaryTrue ==
    LET all == accepted \o partial
        pcm == SubSeq(out.wave, summary.header + 1, Len(out.wave))
    IN  /\ Between(Joined(accepted, "Wire"), out.wire, Joined(all, "Wire"))
        /\ Between(Joined(accepted, "Audio"), pcm, Joined(all, "Audio"))
        /\ Between(Lines(accepted), out.log, Lines(all))
        /\ out.log # Lines(accepted) =>
              out.wire = Joined(all, "Wire") /\ pcm = Joined(all, "Audio")
        /\ summary.wire = Len(out.wire) /\ summary.audio = Len(pcm)
        /\ summary.events = Len(out.log)

\* A recording reported as finished is a WAVE file whose header states the size
\* of exactly the accepted PCM, with every output flushed, no record half
\* written, and the end that the last record observed or none.
FinishedSound ==
    pc = "finished" =>
        LET pcm == Joined(accepted, "Audio")
            ends == {i \in 1..Len(accepted) : accepted[i].kind = "Ended"}
        IN  /\ out.wave = WaveHeader(Len(pcm)) \o pcm /\ WaveFits(Len(pcm))
            /\ partial = <<>> /\ flushed = {"wire", "wave", "log"}
            /\ summary.end = (IF ends = {} THEN "Incomplete" ELSE accepted[Len(accepted)].arg)

\* The identities under which these records start a session.
Names(rs) == {rs[j].uuid : j \in {k \in 1..Len(rs) : rs[k].kind = "Started"}}

\* Record r may follow those before it in the history of a connection.
Follows(r, before) ==
    /\ r.connection = Id /\ (r.kind = "Connected") = (before = <<>>)
    /\ \A j \in 1..Len(before) : before[j].kind # "Ended"
    /\ r.kind = "Started" => Names(before) = {}
    /\ r.kind \in {"Audio", "Dtmf"} => Names(before) = {r.uuid}
    /\ r.kind = "Ended" => Names(before) = {r.uuid} \ {NoUuid}
    /\ r.kind = "Wire" => r.offset = Len(Joined(before, "Wire"))
    /\ r.kind # "Wire" =>
          /\ r.offset <= Len(Joined(before, "Wire"))
          /\ \A j \in 1..Len(before) : before[j].kind = "Wire" \/ before[j].offset <= r.offset

\* Whatever order the caller offers records in, the accepted ones are the
\* history of one connection: connected first and once, one identity for
\* everything after Started, nothing after Ended, wire records that adjoin, and
\* other records that point into the wire bytes before them and never go back.
HistoryCoherent ==
    \A i \in 1..Len(accepted) : Follows(accepted[i], Prefix(accepted, i - 1))
=============================================================================
