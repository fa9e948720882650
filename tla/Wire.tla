-------------------------------- MODULE Wire --------------------------------
(***************************************************************************)
(* A stream of enveloped messages between a sender and a                   *)
(* MessageCodecCollection (src/msgs/codec.cpp): messages are encoded,      *)
(* their bytes arrive in pieces of any size, at most one byte is damaged   *)
(* on the way, and the receiver decodes the first message it holds,        *)
(* leaving the rest for the next call.                                     *)
(***************************************************************************)
EXTENDS Messages

CONSTANTS Values,       \* records [id, value]: what the application may send first
          Followers,    \* and after that
          Headers,      \* envelope fields of a message
          MaxMessages,  \* bound on the messages sent
          Damages       \* bytes a damaged byte may become

VARIABLES codecs,       \* registered message ids
          wire,         \* bytes sent and not arrived
          data,         \* bytes arrived and not consumed
          sent,         \* values sent
          received,     \* messages decoded
          status,       \* result of the last decode_to_json
          damaged       \* a byte has been damaged
vars == <<codecs, wire, data, sent, received, status, damaged>>

MessageIds == <<"NULL_MESSAGE", "SCREEN_COMMAND", "SCREEN_RESIZE_EVENT", "CMD_FRAME_NOTIFICATION", "TERMINAL_INPUT_EVENT">>
to_wire_id(id) == ordinal(MessageIds, id)

Init ==
    /\ codecs = {"NULL_MESSAGE"}
    /\ wire = <<>> /\ data = <<>> /\ sent = <<>> /\ received = <<>>
    /\ status = "OK" /\ damaged = FALSE

\* The codecs are registered in the order of their ids, before traffic starts;
\* a second one for an id is refused and changes nothing.
register_codec(id) ==
    /\ \A i \in 0..to_wire_id(id) - 1 : MessageIds[i + 1] \in codecs
    /\ sent = <<>>
    /\ codecs' = codecs \union {id}
    /\ UNCHANGED <<wire, data, sent, received, status, damaged>>

\* The bytes of a message, when its codec and the envelope accept it.
Encoded(m) ==
    LET payload == IF m.value = Unencodable THEN <<>> ELSE encode_payload(m.id, m.value)
    IN  IF payload = <<>> THEN <<>>
        ELSE serialize_message([session_id |-> m.header.session_id, timestamp |-> m.header.timestamp,
                                multipart |-> m.header.multipart, extension |-> m.header.extension,
                                channel_id |-> m.header.channel_id, include_checksum |-> m.header.include_checksum,
                                message_id |-> to_wire_id(m.id), payload |-> payload[1]])

\* Terminal events pass through messages of their own, the rest is sent as it is.
Message(m) == IF m.id = "TERMINAL_INPUT_EVENT" THEN [m EXCEPT !.value = to_message(@)] ELSE m
Application(m) == IF m.id = "TERMINAL_INPUT_EVENT" THEN [m EXCEPT !.value = from_message(@)] ELSE m

\* A value that cannot be encoded is not sent.
serialize(v, header) ==
    LET m == [id |-> v.id, value |-> v.value, header |-> header]
    IN  /\ Len(sent) < MaxMessages
        /\ sent # <<>> => v \in Followers
        /\ v.id \in codecs
        /\ \E bytes \in {Encoded(Message(m))} :
              /\ bytes # <<>>
              /\ wire' = wire \o bytes[1]
        /\ sent' = Append(sent, m)
        /\ UNCHANGED <<codecs, data, received, status, damaged>>

\* Bound: undamaged bytes arrive in two pieces at most, damaged ones at once.
Arrive(n) ==
    /\ n <= Len(wire)
    /\ damaged \/ data # <<>> => n = Len(wire)
    /\ data' = data \o SubSeq(wire, 1, n)
    /\ wire' = SubSeq(wire, n + 1, Len(wire))
    /\ UNCHANGED <<codecs, sent, received, status, damaged>>

Damage(i, byte) ==
    /\ ~damaged /\ data = <<>>
    /\ i <= Len(wire) /\ wire[i] # byte
    /\ wire' = [wire EXCEPT ![i] = byte]
    /\ damaged' = TRUE
    /\ UNCHANGED <<codecs, data, sent, received, status>>

Decoded(id, envelope) ==
    [id |-> id, value |-> decode_payload(id, envelope.payload),
     header |-> [session_id |-> envelope.session_id, timestamp |-> envelope.timestamp,
                 multipart |-> envelope.multipart, extension |-> envelope.extension,
                 channel_id |-> envelope.channel_id, include_checksum |-> envelope.include_checksum]]

\* A message that could not be decoded stays at the head of the stream.
Reject(s) == status' = s /\ UNCHANGED <<data, received>>

decode_payload_to_json(envelope, consumed) ==
    LET id == envelope.message_id
    IN  IF id \notin 0..Len(MessageIds) - 1 \/ MessageIds[id + 1] \notin codecs
        THEN Reject("MESSAGE_ID_NOT_FOUND")
        ELSE \E m \in {Decoded(MessageIds[id + 1], envelope)} :
                IF m.value = Malformed
                THEN Reject("MALFORMED_PAYLOAD")
                ELSE /\ received' = Append(received, m)
                     /\ data' = SubSeq(data, consumed + 1, Len(data))
                     /\ status' = "OK"

\* Drops a message that has not arrived whole.
decode_to_json_dropping ==
    /\ data # <<>>
    /\ \E r \in {deserialize_message(data)} :
          IF r.status = "OK" THEN decode_payload_to_json(r.message[1], r.consumed)
          ELSE status' = "INCOMPLETE_IPC_MESSAGE" /\ data' = <<>> /\ UNCHANGED received
    /\ UNCHANGED <<codecs, wire, sent, damaged>>

decode_to_json ==
    /\ data # <<>>
    /\ \E r \in {deserialize_message(data)} :
          IF r.status = "OK" THEN decode_payload_to_json(r.message[1], r.consumed)
          ELSE IF r.status = "TRUNCATED_MESSAGE" THEN Reject("INCOMPLETE_IPC_MESSAGE")
          ELSE Reject("INVALID_IPC_MESSAGE")
    /\ UNCHANGED <<codecs, wire, sent, damaged>>

Next ==
    \/ \E i \in DOMAIN MessageIds : register_codec(MessageIds[i])
    \/ \E v \in Values, header \in Headers : serialize(v, header)
    \/ \E n \in DOMAIN wire : Arrive(n)
    \/ \E i \in DOMAIN wire, byte \in Damages : Damage(i, byte)
    \/ decode_to_json

Spec == Init /\ [][Next]_vars

----------------------------------------------------------------------------
(* While no byte was damaged, the application gets what was sent, in order
   and without a gap: every enumerator, sign, optional field and empty string
   survives to_message, the codec, the envelope, the cut of the stream and
   the way back (event_messages.cpp, terminal_msgs.cpp, screen_msgs.cpp,
   msg.cpp); a message takes its own bytes and leaves the next one's
   (codec.cpp:99); and nothing is refused but for want of bytes. *)
Delivered ==
    ~damaged => /\ Len(received) <= Len(sent)
                /\ \A n \in DOMAIN received : Application(received[n]) = sent[n]
                /\ status \in {"OK", "INCOMPLETE_IPC_MESSAGE"}
                /\ wire = <<>> /\ data = <<>> => Len(received) = Len(sent)
                /\ wire = <<>> /\ data # <<>> => deserialize_message(data).status = "OK"

CanonicalStep ==
    received' # received =>
        \A bytes \in {Encoded(received'[Len(received')])} :
            bytes # <<>> /\ data = bytes[1] \o data'

(* Whatever the bytes, a message that decode_to_json accepts is the one that
   encodes to the bytes it consumed: no codec accepts a second spelling, a
   trailing byte (codec.hpp:165) or a value its own encoder refuses. *)
Canonical == [][CanonicalStep]_vars
=============================================================================
