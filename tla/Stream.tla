------------------------------- MODULE Stream -------------------------------
(***************************************************************************)
(* What one connection makes of its byte stream: the read loop and         *)
(* decode_chunk of connection.rs, the framer of decoder.rs, the typed view *)
(* of envelope.rs and the incoming policy of session.rs.  The peer's bytes *)
(* arrive in reads of any size; the records that leave must not depend on  *)
(* how they were cut.                                                      *)
(*                                                                         *)
(* A byte is its position in the stream (1, 2, ...), so the header and the *)
(* scratch storage of the framer are sequences of positions, and a payload *)
(* is right exactly when it holds the right positions.  The value of a     *)
(* header byte is what the encoder put there (ByteAt).  Waiting for        *)
(* permits, slots and budget is the subject of module Tasks; a close or a  *)
(* stop cancels the task between two steps, which leaves a state of this   *)
(* module.  bind_with_profile has ensured that no copy exceeds the budget. *)
(***************************************************************************)
EXTENDS Integers, Sequences, FiniteSets, SequencesExt

CONSTANTS Messages,         \* messages a peer may send: [type, len, arg]
          MaxMessages,      \* bound: messages in a stream
          UuidBytes,        \* 16
          Radix,            \* values of a byte of a length: 256
          PayloadCapacity,  \* Limits::payload_capacity, the scratch storage
          ReadBytes,        \* READ_BYTES
          OffsetMax,        \* u64::MAX
          Rates             \* rates the IncomingProfile accepts

HeaderBytes == 3
NoUuid == "none"            \* Option::None
Types == {"Terminate", "Uuid", "Dtmf", "Audio", "Error", "Unknown"}
RateNames == <<"8k", "12k", "16k", "24k", "32k", "44.1k", "48k", "96k", "192k">>
Digits == {"digit", "ascii", "other"}   \* DTMF, other ASCII, beyond ASCII

\* WireType::known: bytes 16 to 24 are audio at the rate of that place.
Known(byte) ==
    CASE byte = 0 -> "Terminate" [] byte = 1 -> "Uuid" [] byte = 3 -> "Dtmf"
      [] byte \in 16..24 -> "Audio" [] byte = 255 -> "Error" [] OTHER -> "Unknown"

ASSUME StreamConstants ==
    /\ \A m \in Messages : m.type \in Types /\ m.len \in Nat
    /\ \A m \in Messages : m.type = "Dtmf" => m.arg \in Digits
    /\ \A m \in Messages : m.type = "Audio" => m.arg \in ToSet(RateNames)
    /\ \A m \in Messages : m.type = "Unknown" => Known(m.arg) = "Unknown"
    /\ {MaxMessages, PayloadCapacity, OffsetMax} \subseteq Nat
    /\ {UuidBytes, ReadBytes} \subseteq Nat \ {0} /\ Radix \in Nat \ {0, 1}
    /\ \A m \in Messages : m.len < Radix * Radix

VARIABLES
    wire, size,      \* the peer's messages, and the bytes sent before its end
    pc,
    read, consumed,  \* Progress counters
    wired,           \* bytes handed off in Wire records
    input,           \* bytes of the current read not yet given to the decoder
    framer, frame,   \* Framer, and the frame it has completed
    session, uuid,   \* SessionState and its identity
    events,          \* the other records handed off
    cut              \* why the task ended before the stream did, or "none"

vars == <<wire, size, pc, read, consumed, wired, input, framer, frame, session,
          uuid, events, cut>>

\* The position of the last byte of the i-th message.
End(w, i) ==
    LET end[k \in 0..Len(w)] == IF k = 0 THEN 0 ELSE end[k - 1] + HeaderBytes + w[k].len
    IN  end[i]

NewFramer == [at |-> "Header", header |-> <<>>, body |-> <<>>, length |-> 0]
NoFrame == [header |-> <<>>, body |-> <<>>]

Init ==
    /\ wire \in SeqOf(Messages, MaxMessages) /\ size \in 0..End(wire, Len(wire))
    /\ pc = "connect"
    /\ read = 0 /\ consumed = 0 /\ wired = 0 /\ input = 0
    /\ framer = NewFramer /\ frame = NoFrame
    /\ session = "AwaitingUuid" /\ uuid = NoUuid
    /\ events = <<>> /\ cut = "none"

-----------------------------------------------------------------------------
(* Records.                                                                *)

Event(kind, offset, id, arg) == [kind |-> kind, offset |-> offset, uuid |-> id, arg |-> arg]

\* An end reason, with the payload that only PeerError carries.
Reason(kind, bytes) == [kind |-> kind, bytes |-> bytes]

\* A terminal record is sent and the task returns.
EndsWith(offset, id, reason) ==
    /\ events' = Append(events, Event("Ended", offset, id, reason))
    /\ pc' = "done"
Ends(offset, id, kind) == EndsWith(offset, id, Reason(kind, <<>>))

streamFrame == <<wire, size>>

Connect ==
    /\ pc = "connect"
    /\ events' = <<Event("Connected", 0, NoUuid, "peer")>>
    /\ pc' = "read"
    /\ UNCHANGED <<streamFrame, read, consumed, wired, input, framer, frame, session,
                   uuid, cut>>

\* read_once delivers n bytes, which observe_read must be able to count; they
\* are handed off as a Wire record before the decoder sees them.
Read(n) ==
    /\ pc = "read" /\ n <= size - read
    /\ IF read + n <= OffsetMax
       THEN /\ read' = read + n /\ wired' = read + n /\ input' = n
            /\ pc' = "decode" /\ UNCHANGED <<events, cut>>
       ELSE /\ Ends(consumed, uuid, "OffsetExhausted") /\ cut' = "OffsetExhausted"
            /\ UNCHANGED <<read, wired, input>>
    /\ UNCHANGED <<streamFrame, consumed, framer, frame, session, uuid>>

\* A read error ends the task whatever the decoder holds.
ReadFails ==
    /\ pc = "read"
    /\ Ends(consumed, uuid, "Transport") /\ cut' = "Transport"
    /\ UNCHANGED <<streamFrame, read, consumed, wired, input, framer, frame, session, uuid>>

\* Framer::finish is clean only between two frames; then end_of_input ends a
\* session that has not ended.
ReadEof ==
    /\ pc = "read" /\ read = size
    /\ IF framer.at = "Header" /\ framer.header = <<>>
       THEN /\ Ends(consumed, uuid, IF session = "Ended" THEN "Policy" ELSE "CleanEof")
            /\ session' = "Ended" /\ uuid' = NoUuid
       ELSE Ends(consumed, uuid, "Truncated") /\ UNCHANGED <<session, uuid>>
    /\ UNCHANGED <<streamFrame, read, consumed, wired, input, framer, frame, cut>>

-----------------------------------------------------------------------------
(* The framer.                                                             *)

MutCopyWhole(n, available) == n
\* copy_prefix: the destination's room or the input's rest, whichever is less.
CopyPrefix(n, available) == IF n <= available THEN n ELSE available
Bytes(from, n) == [i \in 1..n |-> from + i]

\* encode: the type byte; an unknown type keeps its own.
TypeByte(m) ==
    CASE m.type = "Terminate" -> 0 [] m.type = "Uuid" -> 1 [] m.type = "Dtmf" -> 3
      [] m.type = "Audio" -> 15 + (CHOOSE i \in 1..Len(RateNames) : RateNames[i] = m.arg)
      [] m.type = "Error" -> 255 [] OTHER -> m.arg

\* write_frame: the type and the big-endian length come before the payload.
EncodeHeader(m) == <<TypeByte(m), m.len \div Radix, m.len % Radix>>

\* The value of the byte at a position of a header; 0 where a decoder that has
\* lost its step would look for one, in a payload or past the stream.
ByteAt(p) ==
    LET holds(k) == End(wire, k - 1) < p /\ p <= End(wire, k - 1) + HeaderBytes
        at == {k \in 1..Len(wire) : holds(k)}
    IN  IF at = {} THEN 0
        ELSE LET k == CHOOSE k \in at : TRUE IN EncodeHeader(wire[k])[p - End(wire, k - 1)]

\* u16::from_be_bytes.
DeclaredLength(h) == ByteAt(h[2]) * Radix + ByteAt(h[3])

\* validate_typed_length.
LengthOk(type, len) ==
    CASE type = "Terminate" -> len = 0
      [] type = "Uuid" -> len = UuidBytes
      [] type = "Dtmf" -> len = 1
      [] type = "Audio" -> len % 2 = 0
      [] OTHER -> TRUE

MutFeedBodyRestarts(f, from, available) ==
    LET n == CopyPrefix(f.length - Len(f.body), available)
        body == Bytes(from, n)
    IN  IF Len(f.body) + n < f.length
        THEN [framer |-> [f EXCEPT !.body = body], at |-> from + n, outcome |-> "NeedInput",
              frame |-> NoFrame]
        ELSE [framer |-> NewFramer, at |-> from + n, outcome |-> "Frame",
              frame |-> [header |-> f.header, body |-> body]]

\* The Body state: from is the position of the last byte consumed.
FeedBody(f, from, available) ==
    LET n == CopyPrefix(f.length - Len(f.body), available)
        body == f.body \o Bytes(from, n)
    IN  IF Len(body) < f.length
        THEN [framer |-> [f EXCEPT !.body = body], at |-> from + n, outcome |-> "NeedInput",
              frame |-> NoFrame]
        ELSE [framer |-> NewFramer, at |-> from + n, outcome |-> "Frame",
              frame |-> [header |-> f.header, body |-> body]]

\* The Header state, which goes on to the body in the same call.  The strict
\* decoder has the declared length validated first.
FeedHeader(f, from, available, strict) ==
    LET n == CopyPrefix(HeaderBytes - Len(f.header), available)
        header == f.header \o Bytes(from, n)
        length == DeclaredLength(header)
        fails(why) == [framer |-> [NewFramer EXCEPT !.at = "Failed"], at |-> from + n,
                       outcome |-> why, frame |-> NoFrame]
    IN  IF Len(header) < HeaderBytes
        THEN [framer |-> [f EXCEPT !.header = header], at |-> from + n,
              outcome |-> "NeedInput", frame |-> NoFrame]
        ELSE IF strict /\ ~LengthOk(Known(ByteAt(header[1])), length)
        THEN fails("InvalidLength")
        ELSE IF length > PayloadCapacity THEN fails("ResourceLimit")
        ELSE FeedBody([at |-> "Body", header |-> header, body |-> <<>>, length |-> length],
                      from + n, available - n)

\* Framer::feed, from a position and with the bytes that follow it.
Feed(f, from, available, strict) ==
    CASE f.at = "Header" -> FeedHeader(f, from, available, strict)
      [] f.at = "Body" -> FeedBody(f, from, available)
      [] OTHER -> [framer |-> f, at |-> from, outcome |-> "Failed", frame |-> NoFrame]

\* One turn of decode_chunk's loop up to its second await.
Decode ==
    /\ pc = "decode"
    /\ LET fed == Feed(framer, consumed, input, FALSE) IN
       /\ framer' = fed.framer /\ frame' = fed.frame
       /\ consumed' = fed.at /\ input' = input - (fed.at - consumed)
       /\ CASE fed.outcome = "NeedInput" -> pc' = "read" /\ UNCHANGED events
            [] fed.outcome = "Frame" -> pc' = "frame" /\ UNCHANGED events
            [] OTHER -> Ends(fed.at, uuid, "Decode")
    /\ UNCHANGED <<streamFrame, read, wired, session, uuid, cut>>

-----------------------------------------------------------------------------
(* Typed messages and the incoming policy.                                 *)

\* The value of a payload: a UUID, or what a DTMF byte stands for.
Value(body) ==
    LET owners == {i \in 1..Len(wire) : body = Bytes(End(wire, i) - wire[i].len, wire[i].len)}
    IN  IF body = <<>> \/ owners = {} THEN "none" ELSE wire[CHOOSE i \in owners : TRUE].arg

\* The frame as its envelope presents it.
Message(f) ==
    LET byte == ByteAt(f.header[1])
        type == Known(byte)
    IN  [type |-> type, len |-> Len(f.body),
         arg |-> CASE type = "Audio" -> RateNames[byte - 15]
                   [] type \in {"Uuid", "Dtmf"} -> Value(f.body)
                   [] type = "Unknown" -> byte
                   [] OTHER -> "none"]

\* RawEnvelope::typed succeeds.
Typed(m) == LengthOk(m.type, m.len) /\ (m.type = "Dtmf" => m.arg # "other")

\* IncomingSession::receive: the event it yields, or its refusal.
Verdict(m) ==
    IF session = "Ended" THEN "Rejected" ELSE
    CASE m.type \in {"Terminate", "Error"} -> "Ended"
      [] m.type = "Uuid" -> IF session = "AwaitingUuid" THEN "Started" ELSE "Rejected"
      [] m.type = "Audio" /\ session = "Active" ->
             IF m.arg \in Rates THEN "Audio" ELSE "Rejected"
      [] m.type = "Dtmf" /\ session = "Active" ->
             IF m.arg = "digit" THEN "Dtmf" ELSE "Rejected"
      [] OTHER -> "Rejected"

\* What an accepted event carries: its payload bytes where it has any.
Content(m, body) == IF m.type \in {"Audio", "Error"} THEN body ELSE m.arg

frameFrame == <<streamFrame, read, consumed, wired, input, framer, cut>>

\* The frame violates its type's rules, or the session refuses the message.
Refuse ==
    /\ pc = "frame"
    /\ LET m == Message(frame) IN
       \/ ~Typed(m) /\ Ends(consumed, uuid, "InvalidMessage") /\ UNCHANGED <<session, uuid>>
       \/ /\ Typed(m) /\ Verdict(m) = "Rejected"
          /\ Ends(consumed, uuid, "Policy")
          /\ session' = "Ended" /\ uuid' = NoUuid
    /\ frame' = NoFrame
    /\ UNCHANGED frameFrame

\* observe hands the event off; the loop goes on while the chunk has bytes.
Observe ==
    /\ pc = "frame"
    /\ LET m == Message(frame)
           kind == Verdict(m)
           id == IF kind = "Started" THEN m.arg ELSE uuid
       IN  /\ Typed(m) /\ kind \in {"Started", "Audio", "Dtmf"}
           /\ events' = Append(events, Event(kind, consumed, id, Content(m, frame.body)))
           /\ session' = "Active" /\ uuid' = id
           /\ pc' = IF input = 0 THEN "read" ELSE "decode"
    /\ frame' = NoFrame
    /\ UNCHANGED frameFrame

\* A message that ends the session ends the task.
PeerEnds ==
    /\ pc = "frame"
    /\ LET m == Message(frame) IN
       /\ Typed(m) /\ Verdict(m) = "Ended"
       /\ IF m.type = "Error" THEN EndsWith(consumed, uuid, Reason("PeerError", frame.body))
          ELSE Ends(consumed, uuid, "Terminate")
    /\ session' = "Ended" /\ uuid' = NoUuid
    /\ frame' = NoFrame
    /\ UNCHANGED frameFrame

Terminated == pc = "done" /\ UNCHANGED vars

Next ==
    \/ Connect \/ ReadFails \/ ReadEof \/ Decode \/ Refuse \/ Observe \/ PeerEnds
    \/ Terminated
    \/ \E n \in 1..ReadBytes : Read(n)

Spec == Init /\ [][Next]_vars

-----------------------------------------------------------------------------
(* Reference: what a stream means, read as a whole.                        *)

\* Why message i ends the connection when the stream reaches it, or "none".
Fatal(i) ==
    LET m == wire[i]
        foreign == \/ m.type = "Unknown" \/ (m.type = "Uuid") # (i = 1)
                   \/ m.type = "Audio" /\ m.arg \notin Rates
                   \/ m.type = "Dtmf" /\ m.arg # "digit"
    IN  IF m.len > PayloadCapacity THEN "Decode"
        ELSE IF ~Typed(m) THEN "InvalidMessage"
        ELSE IF m.type = "Terminate" THEN "Terminate"
        ELSE IF m.type = "Error" THEN "PeerError"
        ELSE IF foreign THEN "Policy" ELSE "none"

\* The bytes that must arrive for message i to take effect.
Due(i) == IF Fatal(i) = "Decode" THEN End(wire, i - 1) + HeaderBytes ELSE End(wire, i)

\* The messages accepted before the stream ends or is ended.
Accepted == {i \in 1..Len(wire) : \A j \in 1..i : Fatal(j) = "none" /\ Due(j) <= size}

Body(i) == Bytes(End(wire, i) - wire[i].len, wire[i].len)

Meaning ==
    LET k == Cardinality(Accepted)
        id == IF k = 0 THEN NoUuid ELSE wire[1].arg
        kinds == [i \in 1..k |-> IF i = 1 THEN "Started" ELSE wire[i].type]
        last == IF k < Len(wire) /\ Due(k + 1) <= size
                THEN Event("Ended", Due(k + 1), id,
                           Reason(Fatal(k + 1), IF Fatal(k + 1) = "PeerError"
                                                THEN Body(k + 1) ELSE <<>>))
                ELSE Event("Ended", size, id,
                           Reason(IF size = End(wire, k) THEN "CleanEof" ELSE "Truncated",
                                  <<>>))
    IN  <<Event("Connected", 0, NoUuid, "peer")>>
        \o [i \in 1..k |->
               Event(kinds[i], End(wire, i), id,
                     IF wire[i].type = "Audio" THEN Body(i) ELSE wire[i].arg)]
        \o <<last>>

\* Whatever the reads, the records are those of the stream read as a whole:
\* always a prefix of its meaning, payload bytes and offsets included, and all
\* of it when the task ends with the stream.  A transport failure or an
\* exhausted offset replaces the rest by one terminal record.
EventsExact ==
    LET sent == IF cut = "none" THEN events ELSE Front(events)
    IN  /\ IsPrefix(sent, Meaning)
        /\ pc = "done" /\ cut = "none" => events = Meaning
        /\ cut # "none" => events[Len(events)] =
              Event("Ended", consumed, IF Len(sent) = 1 THEN NoUuid ELSE wire[1].arg,
                    Reason(cut, <<>>))

\* Raw bytes come first: a record never points beyond the Wire records sent
\* before it, offsets never go back, and the decoder consumes only bytes that
\* were read, exactly the chunk's bytes it has not been given.
OffsetsBacked ==
    /\ wired = read /\ consumed <= read /\ read <= OffsetMax
    /\ pc \in {"decode", "frame"} => consumed + input = read
    /\ pc = "read" => consumed = read
    /\ \A i \in 1..Len(events) :
          /\ events[i].offset <= wired
          /\ \A j \in 1..i : events[j].offset <= events[i].offset
=============================================================================
