----------------------------- MODULE StreamMC -----------------------------
(* Messages for Stream, Recorded and Strict: each kind and each way to be wrong. *)
EXTENDS Strict

Msg(t, n, a) == [type |-> t, len |-> n, arg |-> a]
MCMessages == {Msg("Uuid", 1, "u1"), Msg("Uuid", 0, "u1"), Msg("Audio", 2, "8k"),
               Msg("Audio", 1, "8k"), Msg("Audio", 0, "16k"), Msg("Audio", 4, "8k"),
               Msg("Dtmf", 1, "digit"), Msg("Dtmf", 1, "ascii"), Msg("Dtmf", 1, "other"),
               Msg("Terminate", 0, "none"), Msg("Terminate", 1, "none"),
               Msg("Error", 1, "none"), Msg("Unknown", 0, 2)}
=============================================================================
