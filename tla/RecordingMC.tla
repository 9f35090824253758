---------------------------- MODULE RecordingMC ----------------------------
(* Records for module Recording: every kind, with offsets, identities,     *)
(* rates and payloads that fit and that do not; a line is two units.       *)
EXTENDS RecordingHistory

MCLine(r) == <<<<r.kind, r.offset>>, "end">>

Rec(c, offsets, kind, ids, args, payloads) ==
    [connection : {c}, offset : offsets, kind : {kind}, uuid : ids, arg : args,
     bytes : payloads]
MCRecords ==
    UNION {Rec("c1", 0..1, "Connected", {NoUuid}, {"peer"}, {<<>>}),
           Rec("c2", {0}, "Connected", {NoUuid}, {"peer"}, {<<>>}),
           Rec("c1", 0..3, "Wire", {NoUuid}, {"none"}, {<<1>>, <<2, 3>>}),
           Rec("c1", 0..2, "Started", {"u1", "u2"}, {"none"}, {<<>>}),
           Rec("c1", {2, 3}, "Audio", {"u1"}, {"8k"}, {<<>>, <<4>>, <<5, 6>>}),
           Rec("c1", {2}, "Audio", {"u1"}, {"16k"}, {<<5, 6>>}),
           Rec("c1", {1, 3}, "Dtmf", {"u1", "u2"}, {"digit"}, {<<>>}),
           Rec("c1", 0..3, "Ended", {NoUuid, "u1"}, {"CleanEof", "Truncated"}, {<<>>})}
=============================================================================
