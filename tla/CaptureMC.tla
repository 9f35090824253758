----------------------------- MODULE CaptureMC -----------------------------
(* Configurations for model checking Capture. *)
EXTENDS Capture

Limited(active, run, file, summary) ==
    [connections |-> 2, queue |-> 1, payload |-> 2, turns |-> 1, retained |-> 1,
     active |-> active, run |-> run, file |-> file, summary |-> summary, status |-> 2]

\* Room for everything; a run of one recording; one recorder at a time; files
\* and summaries at their caps.  Refused: an output bound and a buffer capacity
\* that are no u64.
MCConfigs == {Limited(2, 2, 3, 2), Limited(1, 1, 3, 2), Limited(1, 2, 3, 2),
              Limited(2, 2, 1, 1), Limited(2, 2, 4, 2),
              [Limited(2, 2, 3, 2) EXCEPT !.connections = 5]}

MCKinds == [c \in Conns |-> IF c = 1 THEN {"Wire"} ELSE {"Audio"}]
=============================================================================
