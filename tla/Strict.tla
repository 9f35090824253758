------------------------------- MODULE Strict -------------------------------
(***************************************************************************)
(* The strict Decoder of decoder.rs beside the raw one of the connection:  *)
(* both are fed the same reads, cut in the same places, until one fails.   *)
(* It is the public decoder of phonowire-audiosocket; the receiver uses    *)
(* the raw one and types each frame itself.                                *)
(***************************************************************************)
EXTENDS Recorded

\* A message has no more than its envelope shows; a Terminate has no value, and
\* an Error none beside its payload.
ASSUME StrictMessages ==
    \A m \in Messages : /\ m = [type |-> m.type, len |-> m.len, arg |-> m.arg]
                        /\ m.type \in {"Terminate", "Error"} => m.arg = "none"

VARIABLES
    strict,     \* its Framer
    taken,      \* bytes it has consumed
    typed,      \* the messages it has returned
    refusal     \* its first error, or "none"

strictVars == <<strict, taken, typed, refusal>>

StrictInit == RecordedInit /\ strict = NewFramer /\ taken = 0 /\ typed = <<>> /\ refusal = "none"

MutContentGoesOn(d, upto) ==
    LET fed == Feed(d.framer, d.at, upto - d.at, TRUE)
        m == Message(fed.frame)
    IN  CASE fed.outcome = "NeedInput" -> [d EXCEPT !.framer = fed.framer, !.at = fed.at]
          [] fed.outcome = "Frame" ->
                 [framer |-> fed.framer, at |-> fed.at,
                  typed |-> IF Typed(m) THEN Append(d.typed, m) ELSE d.typed,
                  refusal |-> d.refusal]
          [] OTHER -> [d EXCEPT !.framer = fed.framer, !.at = fed.at, !.refusal = fed.outcome]

\* Decoder::feed on the bytes up to a position: a frame that cannot be typed
\* fails the decoder after its body has been consumed.
StrictFeed(d, upto) ==
    LET fed == Feed(d.framer, d.at, upto - d.at, TRUE)
        m == Message(fed.frame)
    IN  CASE fed.outcome = "NeedInput" -> [d EXCEPT !.framer = fed.framer, !.at = fed.at]
          [] fed.outcome = "Frame" ->
                 IF Typed(m)
                 THEN [d EXCEPT !.framer = fed.framer, !.at = fed.at, !.typed = Append(@, m)]
                 ELSE [d EXCEPT !.framer = [NewFramer EXCEPT !.at = "Failed"],
                                !.at = fed.at, !.refusal = "InvalidContent"]
          [] OTHER -> [d EXCEPT !.framer = fed.framer, !.at = fed.at, !.refusal = fed.outcome]

\* The caller goes on until its bytes are used up or the decoder has failed.
Call(d, upto) == IF d.at = upto \/ d.refusal # "none" THEN d ELSE StrictFeed(d, upto)

\* The caller's loop over one read.  A call consumes a byte at least, so there
\* are no more calls than bytes.
StrictDecode ==
    LET start == [framer |-> strict, at |-> taken, typed |-> typed, refusal |-> refusal]
        after[k \in 0..(read' - read)] == IF k = 0 THEN start ELSE Call(after[k - 1], read')
        d == after[read' - read]
    IN  strict' = d.framer /\ taken' = d.at /\ typed' = d.typed /\ refusal' = d.refusal

StrictNext == RecordedNext /\ IF read' # read THEN StrictDecode ELSE UNCHANGED strictVars

StrictSpec == StrictInit /\ [][StrictNext]_<<vars, recVars, strictVars>>

-----------------------------------------------------------------------------
(* Properties.                                                             *)

\* Why the strict decoder refuses a message of this stream, or "none".
Objection(m) ==
    IF ~LengthOk(m.type, m.len) THEN "InvalidLength"
    ELSE IF m.len > PayloadCapacity THEN "ResourceLimit"
    ELSE IF ~Typed(m) THEN "InvalidContent" ELSE "none"

\* What the strict decoder makes of the first n bytes: the whole messages
\* before the first objectionable one, and that objection once it is due, which
\* for a length is after the header and for content after the body.
Judged(n) ==
    LET due(i) == IF Objection(wire[i]) \in {"InvalidLength", "ResourceLimit"}
                  THEN End(wire, i - 1) + HeaderBytes ELSE End(wire, i)
        good == {i \in 1..Len(wire) :
                    End(wire, i) <= n /\ \A j \in 1..i : Objection(wire[j]) = "none"}
        k == Cardinality(good)
        refused == k < Len(wire) /\ Objection(wire[k + 1]) # "none" /\ due(k + 1) <= n
    IN  [typed |-> SubSeq(wire, 1, k),
         refusal |-> IF refused THEN Objection(wire[k + 1]) ELSE "none",
         at |-> IF refused THEN due(k + 1) ELSE n]

\* Whatever the reads, the strict decoder returns the encoded messages up to
\* the first it must refuse, refuses that one at its exact place, and consumes
\* nothing after it.
StrictExact == Judged(read) = [typed |-> typed, refusal |-> refusal, at |-> taken]
=============================================================================
