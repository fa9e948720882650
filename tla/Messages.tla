------------------------------ MODULE Messages ------------------------------
(***************************************************************************)
(* The wire formats of src/msgs and src/utils/ipc/msg.cpp: the payload     *)
(* codecs of terminal events, screen commands, resize events and command   *)
(* notifications, and the envelope that carries a payload.                 *)
(*                                                                         *)
(* A byte is 0..255.  A 32-bit word is the TLA+ integer with the same      *)
(* two's complement pattern, so 16^^ffffffff is -1: sizes compare as       *)
(* unsigned.  A std::size_t is a pair of words, the high one first.  An    *)
(* optional value is a sequence of at most one element.                    *)
(***************************************************************************)
EXTENDS Integers, Sequences, FiniteSets

CONSTANTS maximum_payload_bytes,  \* limit of the codec collection
          NamedKeys               \* number of enumerators of NamedKey

KeyActions == <<"PRESS", "REPEAT", "RELEASE">>
MouseButtons == <<"NONE", "LEFT", "MIDDLE", "RIGHT", "AUXILIARY_1", "AUXILIARY_2", "AUXILIARY_3", "AUXILIARY_4">>
MouseActions == <<"PRESS", "RELEASE", "MOVE", "DRAG">>
PastePhases == <<"BEGIN", "DATA", "END", "CANCEL">>
ClipboardSelections == <<"CLIPBOARD", "PRIMARY">>
ScreenSelections == <<"PRIMARY", "CLIPBOARD">>
Commands == <<"COPY", "SELECT_ALL", "ENTER_COMMAND_MODE", "ENTER_TERMINAL_MODE", "MOVE_WORD_LEFT", "MOVE_WORD_RIGHT",
              "MOVE_ROW_START", "MOVE_ROW_END", "MOVE_BUFFER_START", "MOVE_BUFFER_END", "MOVE_PAGE_UP", "MOVE_PAGE_DOWN">>
ResponseKinds == <<"KITTY_KEYBOARD_FLAGS", "CURSOR_POSITION", "DEVICE_ATTRIBUTES", "MODE_REPORT",
                   "OPERATING_SYSTEM_COMMAND", "DEVICE_CONTROL_STRING">>
Reasons == <<"UNSUPPORTED_SEQUENCE", "MALFORMED_SEQUENCE", "INVALID_UTF8", "INCOMPLETE_SEQUENCE", "LIMIT_EXCEEDED">>

ordinal(names, name) == (CHOOSE i \in DOMAIN names : names[i] = name) - 1
valid_ordinal(n, names) == n < Len(names)

----------------------------------------------------------------------------
(* Integers and strings, most significant byte first. *)

append_u16(n) == <<(n \div 256) % 256, n % 256>>
append_u32(n) == <<(n \div 16777216) % 256, (n \div 65536) % 256, (n \div 256) % 256, n % 256>>
read_u16(bytes, at) == 256 * bytes[at + 1] + bytes[at + 2]
read_u32(bytes, at) ==
    (IF bytes[at + 1] < 128 THEN bytes[at + 1] ELSE bytes[at + 1] - 256) * 16777216
        + 65536 * bytes[at + 2] + 256 * bytes[at + 3] + bytes[at + 4]
UnsignedBelow(a, b) == IF (a < 0) = (b < 0) THEN a < b ELSE b < 0

append_string(bytes) == append_u32(Len(bytes)) \o bytes

\* read_string at `at`, and the callers' check that nothing follows it.
read_string(bytes, at) ==
    IF Len(bytes) - at >= 4 /\ read_u32(bytes, at) = Len(bytes) - at - 4
    THEN <<SubSeq(bytes, at + 5, Len(bytes))>>
    ELSE <<>>

IsContinuation(b) == b \div 64 = 2

\* Bytes of the scalar at the head of text, 0 when it is not one.
ScalarLength(text) ==
    LET b == text[1]
        n == CASE b <= 127 -> 1
               [] b \in 194..223 -> 2
               [] b \in 224..239 -> 3
               [] b \in 240..244 -> 4
               [] OTHER -> 0
    IN  IF /\ Len(text) >= n
           /\ \A i \in 2..n : IsContinuation(text[i])
           /\ b = 224 => text[2] >= 160
           /\ b = 237 => text[2] < 160
           /\ b = 240 => text[2] >= 144
           /\ b = 244 => text[2] < 144
        THEN n
        ELSE 0

RECURSIVE is_valid(_)
is_valid(text) ==
    text = <<>> \/ LET n == ScalarLength(text) IN n > 0 /\ is_valid(SubSeq(text, n + 1, Len(text)))

valid_scalar(n) == n \in 0..1114111 /\ n \notin 55296..57343
known_modifiers(n) == n \in 0..255

----------------------------------------------------------------------------
(* Terminal events as messages: enumerators become ordinals, and positions *)
(* words, when they fit.  The deltas are ints and always do.               *)

Malformed == [type |-> "MALFORMED_PAYLOAD"]
Unencodable == [type |-> "PAYLOAD_ENCODING_FAILED"]

fits_u32(size) == size[1] = 0
Narrow(event) ==
    IF fits_u32(event.x) /\ fits_u32(event.y) THEN [event EXCEPT !.x = @[2], !.y = @[2]]
    ELSE Unencodable
Wide(m) == [m EXCEPT !.x = <<0, @>>, !.y = <<0, @>>]

to_message(event) ==
    CASE event.type = "KEY" -> [event EXCEPT !.action = ordinal(KeyActions, @)]
      [] event.type = "MOUSE" ->
            Narrow([event EXCEPT !.button = ordinal(MouseButtons, @), !.action = ordinal(MouseActions, @)])
      [] event.type = "SCROLL" -> Narrow(event)
      [] event.type = "PASTE" -> [event EXCEPT !.phase = ordinal(PastePhases, @)]
      [] event.type = "CLIPBOARD" -> [event EXCEPT !.selection = ordinal(ClipboardSelections, @)]
      [] event.type = "COMMAND" -> [event EXCEPT !.command = ordinal(Commands, @)]
      [] event.type = "RESPONSE" -> [event EXCEPT !.kind = ordinal(ResponseKinds, @)]
      [] event.type = "UNKNOWN" -> [event EXCEPT !.reason = ordinal(Reasons, @)]
      [] OTHER -> event

from_message(m) ==
    CASE m.type = "KEY" ->
            IF valid_ordinal(m.action, KeyActions) /\ (m.named => m.key \in 0..NamedKeys - 1)
            THEN [m EXCEPT !.action = KeyActions[@ + 1]]
            ELSE Malformed
      [] m.type = "MOUSE" ->
            IF valid_ordinal(m.button, MouseButtons) /\ valid_ordinal(m.action, MouseActions)
            THEN Wide([m EXCEPT !.button = MouseButtons[@ + 1], !.action = MouseActions[@ + 1]])
            ELSE Malformed
      [] m.type = "SCROLL" -> Wide(m)
      [] m.type = "PASTE" ->
            IF valid_ordinal(m.phase, PastePhases) THEN [m EXCEPT !.phase = PastePhases[@ + 1]] ELSE Malformed
      [] m.type = "CLIPBOARD" ->
            IF valid_ordinal(m.selection, ClipboardSelections)
            THEN [m EXCEPT !.selection = ClipboardSelections[@ + 1]]
            ELSE Malformed
      [] m.type = "COMMAND" ->
            IF valid_ordinal(m.command, Commands) THEN [m EXCEPT !.command = Commands[@ + 1]] ELSE Malformed
      [] m.type = "RESPONSE" ->
            IF valid_ordinal(m.kind, ResponseKinds) THEN [m EXCEPT !.kind = ResponseKinds[@ + 1]] ELSE Malformed
      [] m.type = "UNKNOWN" ->
            IF valid_ordinal(m.reason, Reasons) THEN [m EXCEPT !.reason = Reasons[@ + 1]] ELSE Malformed
      [] OTHER -> m

----------------------------------------------------------------------------
(* TerminalInputEventCodec.  A refused value encodes to no alternative. *)

valid_key(m) ==
    /\ m.named \/ valid_scalar(m.key)
    /\ m.action <= 2
    /\ known_modifiers(m.modifiers)
    /\ \A option \in {m.shifted_key, m.base_layout_key} : option # <<>> => valid_scalar(option[1])
    /\ is_valid(m.text)

Flag(b) == IF b THEN 1 ELSE 0
Word(option) == IF option = <<>> THEN <<>> ELSE append_u32(option[1])
If(condition, bytes) == IF condition THEN <<bytes>> ELSE <<>>

encode_event(m) ==
    CASE m.type = "KEY" ->
            If(valid_key(m),
               <<1, Flag(m.named)>> \o append_u32(m.key) \o append_u16(m.modifiers)
                   \o <<m.action, Flag(m.shifted_key # <<>>) + 2 * Flag(m.base_layout_key # <<>>)>>
                   \o Word(m.shifted_key) \o Word(m.base_layout_key) \o append_string(m.text))
      [] m.type = "TEXT" -> If(is_valid(m.utf8), <<2>> \o append_string(m.utf8))
      [] m.type = "MOUSE" ->
            If(m.button <= 7 /\ m.action <= 3 /\ known_modifiers(m.modifiers),
               <<3>> \o append_u32(m.x) \o append_u32(m.y) \o <<m.button, m.action>> \o append_u16(m.modifiers))
      [] m.type = "SCROLL" ->
            If(known_modifiers(m.modifiers),
               <<4>> \o append_u32(m.x) \o append_u32(m.y) \o append_u32(m.delta_x) \o append_u32(m.delta_y)
                   \o append_u16(m.modifiers))
      [] m.type = "PASTE" -> If(m.phase <= 3, <<5, m.phase>> \o append_string(m.data))
      [] m.type = "FOCUS" -> <<<<6, Flag(m.focused)>>>>
      [] m.type = "CLIPBOARD" -> If(m.selection <= 1, <<7, m.selection>> \o append_string(m.data))
      [] m.type = "COMMAND" -> If(m.command <= 11, <<8>> \o append_u16(m.command))
      [] m.type = "RESPONSE" -> If(m.kind <= 5, <<9, m.kind>> \o append_u32(m.value) \o append_string(m.bytes))
      [] m.type = "UNKNOWN" -> If(m.reason <= 4, <<10, m.reason>> \o append_string(m.bytes))

\* A payload that ends in a string at `at`: Make applied to it.
Ending(payload, at, Make(_)) ==
    LET text == read_string(payload, at) IN IF text = <<>> THEN Malformed ELSE Make(text[1])

Checked(Holds(_), m) == IF m # Malformed /\ ~Holds(m) THEN Malformed ELSE m

\* The key event of a payload whose fixed part is complete.
decode_key_lax(payload) ==
    LET options == payload[10]
        shifted == options % 2 = 1
        base == options \div 2 = 1
        at == 10 + 4 * Flag(shifted)
        text == at + 4 * Flag(base)
        Option(present, where) == IF present THEN <<read_u32(payload, where)>> ELSE <<>>
        Make(string) == [type |-> "KEY", named |-> payload[2] # 0, key |-> read_u32(payload, 2),
                         modifiers |-> read_u16(payload, 6), action |-> payload[9],
                         shifted_key |-> Option(shifted, 10), base_layout_key |-> Option(base, at), text |-> string]
    IN  IF Len(payload) < text THEN Malformed ELSE Ending(payload, text, Make)

decode_key(payload) == Checked(valid_key, decode_key_lax(payload))

decode_event(payload) ==
    LET n == Len(payload)
        Kind == payload[1]
        Text(s) == [type |-> "TEXT", utf8 |-> s]
        Valid(m) == is_valid(m.utf8)
        Paste(s) == [type |-> "PASTE", phase |-> payload[2], data |-> s]
        Clipboard(s) == [type |-> "CLIPBOARD", selection |-> payload[2], data |-> s]
        Response(s) == [type |-> "RESPONSE", kind |-> payload[2], value |-> read_u32(payload, 2), bytes |-> s]
        Unknown(s) == [type |-> "UNKNOWN", reason |-> payload[2], bytes |-> s]
        Mouse == [type |-> "MOUSE", x |-> read_u32(payload, 1), y |-> read_u32(payload, 5), button |-> payload[10],
                  action |-> payload[11], modifiers |-> read_u16(payload, 11)]
        Scroll == [type |-> "SCROLL", x |-> read_u32(payload, 1), y |-> read_u32(payload, 5),
                   delta_x |-> read_u32(payload, 9), delta_y |-> read_u32(payload, 13),
                   modifiers |-> read_u16(payload, 17)]
    IN  CASE n = 0 -> Malformed
          [] n > 0 /\ Kind = 1 /\ n >= 10 /\ payload[2] <= 1 /\ payload[10] <= 3 -> decode_key(payload)
          [] n > 0 /\ Kind = 2 -> Checked(Valid, Ending(payload, 1, Text))
          [] n = 13 /\ Kind = 3 /\ payload[10] <= 7 /\ payload[11] <= 3 /\ payload[12] = 0 -> Mouse
          [] n = 19 /\ Kind = 4 /\ payload[18] = 0 -> Scroll
          [] n >= 6 /\ Kind = 5 /\ payload[2] <= 3 -> Ending(payload, 2, Paste)
          [] n = 2 /\ Kind = 6 /\ payload[2] <= 1 -> [type |-> "FOCUS", focused |-> payload[2] # 0]
          [] n >= 6 /\ Kind = 7 /\ payload[2] <= 1 -> Ending(payload, 2, Clipboard)
          [] n = 3 /\ Kind = 8 /\ read_u16(payload, 1) <= 11 -> [type |-> "COMMAND", command |-> read_u16(payload, 1)]
          [] n >= 10 /\ Kind = 9 /\ payload[2] <= 5 -> Ending(payload, 6, Response)
          [] n >= 6 /\ Kind = 10 /\ payload[2] <= 4 -> Ending(payload, 2, Unknown)
          [] OTHER -> Malformed

----------------------------------------------------------------------------
(* ScreenCommandCodec, ScreenResizeEventCodec, CmdFrameNotificationCodec   *)
(* and NullMessageCodec.                                                   *)

valid_clipboard_selection(n) == n < Len(ScreenSelections)

encode_command(c) ==
    CASE c.type = "TAKE" -> <<<<1>> \o append_string(c.initial_bytes) \o append_string(c.final_bytes)>>
      [] c.type = "RELEASE" -> <<<<2>>>>
      [] c.type = "PRESENT" -> <<<<3>> \o append_string(c.bytes)>>
      [] c.type = "SET_CLIPBOARD" ->
            LET selection == ordinal(ScreenSelections, c.selection)
            IN  If(valid_clipboard_selection(selection), <<4, selection>> \o append_string(c.text))

\* The initial bytes must leave room for the size of the final bytes.
decode_take(payload) ==
    LET size == read_u32(payload, 1)
        Make(s) == [type |-> "TAKE", initial_bytes |-> SubSeq(payload, 6, 5 + size), final_bytes |-> s]
    IN  IF UnsignedBelow(Len(payload) - 9, size) THEN Malformed ELSE Ending(payload, 5 + size, Make)

decode_command(payload) ==
    LET n == Len(payload)
        Present(s) == [type |-> "PRESENT", bytes |-> s]
        SetClipboard(s) == [type |-> "SET_CLIPBOARD", selection |-> ScreenSelections[payload[2] + 1], text |-> s]
    IN  CASE n >= 9 /\ payload[1] = 1 -> decode_take(payload)
          [] n = 1 /\ payload[1] = 2 -> [type |-> "RELEASE"]
          [] n >= 5 /\ payload[1] = 3 -> Ending(payload, 1, Present)
          [] n >= 6 /\ payload[1] = 4 /\ valid_clipboard_selection(payload[2]) -> Ending(payload, 2, SetClipboard)
          [] OTHER -> Malformed

encode_resize(e) ==
    If(e.width # 0 /\ e.height # 0,
       append_u32(e.width) \o append_u32(e.height) \o append_u32(e.pixel_width) \o append_u32(e.pixel_height))

decode_resize(payload) ==
    IF Len(payload) = 16 /\ read_u32(payload, 0) # 0 /\ read_u32(payload, 4) # 0
    THEN [type |-> "RESIZE", width |-> read_u32(payload, 0), height |-> read_u32(payload, 4),
          pixel_width |-> read_u32(payload, 8), pixel_height |-> read_u32(payload, 12)]
    ELSE Malformed

encode_notification(m) == If(is_valid(m.text), m.text)
decode_notification(payload) == IF is_valid(payload) THEN [type |-> "NOTIFICATION", text |-> payload] ELSE Malformed

encode_null(m) == <<<<>>>>
decode_null(payload) == IF payload = <<>> THEN [type |-> "NULL"] ELSE Malformed

\* A codec is chosen by the message id.
encode_payload(id, message) ==
    CASE id = "TERMINAL_INPUT_EVENT" -> encode_event(message)
      [] id = "SCREEN_COMMAND" -> encode_command(message)
      [] id = "SCREEN_RESIZE_EVENT" -> encode_resize(message)
      [] id = "CMD_FRAME_NOTIFICATION" -> encode_notification(message)
      [] id = "NULL_MESSAGE" -> encode_null(message)

decode_payload(id, payload) ==
    CASE id = "TERMINAL_INPUT_EVENT" -> decode_event(payload)
      [] id = "SCREEN_COMMAND" -> decode_command(payload)
      [] id = "SCREEN_RESIZE_EVENT" -> decode_resize(payload)
      [] id = "CMD_FRAME_NOTIFICATION" -> decode_notification(payload)
      [] id = "NULL_MESSAGE" -> decode_null(payload)

----------------------------------------------------------------------------
(* The envelope of src/utils/ipc/msg.cpp. *)

kMagic == <<80, 85, 67, 73>>
kWireVersion == 0
kBaseHeaderBytes == 24
kKnownFlags == 0..31
kMaximumSessionIdBytes == 16
HasFlag(flags, bit) == (flags \div bit) % 2 = 1

\* src/utils/hashing is modelled by what the envelope needs of it: two bytes
\* that any change of one byte changes.
RECURSIVE WeightedSum(_, _)
WeightedSum(bytes, n) == IF n = 0 THEN 0 ELSE (WeightedSum(bytes, n - 1) + (2 * n + 1) * bytes[n]) % 65536
kChecksumBytes == 2
sha256(bytes) == append_u16(WeightedSum(bytes, Len(bytes)))

\* A 64-bit length: the size, or a negative number beyond every limit.
read_length(bytes, at) ==
    IF \A i \in 1..4 : bytes[at + i] = 0 THEN read_u32(bytes, at + 4) ELSE -1

serialize_message(m) ==
    LET session == IF m.session_id = <<>> THEN <<>> ELSE <<Len(m.session_id[1])>> \o m.session_id[1]
        timestamp == IF m.timestamp = <<>> THEN <<>> ELSE append_u32(m.timestamp[1][1]) \o append_u32(m.timestamp[1][2])
        multipart == IF m.multipart = <<>> THEN <<>> ELSE append_u32(m.multipart[1][1]) \o append_u32(m.multipart[1][2])
        optional == session \o timestamp \o multipart \o m.extension
        flags == Flag(m.session_id # <<>>) + 2 * Flag(m.timestamp # <<>>) + 4 * Flag(m.multipart # <<>>)
                     + 8 * Flag(m.include_checksum) + 16 * Flag(m.extension # <<>>)
        body == kMagic \o <<kWireVersion, flags>> \o append_u16(kBaseHeaderBytes + Len(optional))
                    \o append_u32(m.channel_id) \o append_u32(m.message_id)
                    \o append_u32(0) \o append_u32(Len(m.payload)) \o optional \o m.payload
    IN  If(/\ m.channel_id # 0
           /\ Len(m.payload) <= maximum_payload_bytes
           /\ m.session_id # <<>> => Len(m.session_id[1]) \in 1..kMaximumSessionIdBytes
           /\ m.multipart # <<>> => UnsignedBelow(m.multipart[1][2], m.multipart[1][1])
           /\ kBaseHeaderBytes + Len(optional) <= 65535,
           body \o IF m.include_checksum THEN sha256(body) ELSE <<>>)

Refused(status) == [status |-> status, consumed |-> 0, message |-> <<>>]

\* The optional header fields of data, read one after the other from `cursor`.
ReadHeader(data, flags, header_bytes) ==
    LET session_at == kBaseHeaderBytes
        has_session == HasFlag(flags, 1)
        length == IF has_session /\ session_at < header_bytes THEN data[session_at + 1] ELSE 0
        time_at == session_at + (IF has_session THEN 1 + length ELSE 0)
        part_at == time_at + (IF HasFlag(flags, 2) THEN 8 ELSE 0)
        rest_at == part_at + (IF HasFlag(flags, 4) THEN 8 ELSE 0)
        Words(at) == <<<<read_u32(data, at), read_u32(data, at + 4)>>>>
        extended == HasFlag(flags, 16)
    IN  IF /\ has_session => length \in 1..kMaximumSessionIdBytes
           /\ rest_at <= header_bytes
           /\ HasFlag(flags, 4) => UnsignedBelow(read_u32(data, part_at + 4), read_u32(data, part_at))
           /\ extended <=> rest_at < header_bytes
        THEN <<[session_id |-> IF has_session THEN <<SubSeq(data, session_at + 2, time_at)>> ELSE <<>>,
                timestamp |-> IF HasFlag(flags, 2) THEN Words(time_at) ELSE <<>>,
                multipart |-> IF HasFlag(flags, 4) THEN Words(part_at) ELSE <<>>,
                extension |-> SubSeq(data, rest_at + 1, header_bytes),
                channel_id |-> read_u32(data, 8), message_id |-> read_u32(data, 12),
                include_checksum |-> HasFlag(flags, 8)]>>
        ELSE <<>>

Payload(data, header, header_bytes, payload_bytes) ==
    LET body == header_bytes + payload_bytes
        total == body + (IF header.include_checksum THEN kChecksumBytes ELSE 0)
    IN  IF Len(data) < total THEN Refused("TRUNCATED_MESSAGE")
        ELSE IF header.include_checksum /\ sha256(SubSeq(data, 1, body)) # SubSeq(data, body + 1, total)
        THEN Refused("CHECKSUM_MISMATCH")
        ELSE [status |-> "OK", consumed |-> total,
              message |-> <<[session_id |-> header.session_id, timestamp |-> header.timestamp,
                             multipart |-> header.multipart, extension |-> header.extension,
                             channel_id |-> header.channel_id, message_id |-> header.message_id,
                             include_checksum |-> header.include_checksum,
                             payload |-> SubSeq(data, header_bytes + 1, body)]>>]

deserialize_message(data) ==
    IF Len(data) < kBaseHeaderBytes THEN Refused("TRUNCATED_MESSAGE")
    ELSE IF SubSeq(data, 1, 4) # kMagic THEN Refused("MALFORMED_MESSAGE")
    ELSE IF data[5] # kWireVersion THEN Refused("UNSUPPORTED_VERSION")
    ELSE IF data[6] \notin kKnownFlags THEN Refused("MALFORMED_MESSAGE")
    ELSE LET header_bytes == read_u16(data, 6)
             payload_bytes == read_length(data, 16)
         IN  IF header_bytes < kBaseHeaderBytes THEN Refused("MALFORMED_MESSAGE")
             ELSE IF Len(data) < header_bytes THEN Refused("TRUNCATED_MESSAGE")
             ELSE IF read_u32(data, 8) = 0 THEN Refused("MALFORMED_MESSAGE")
             ELSE IF payload_bytes \notin 0..maximum_payload_bytes THEN Refused("MESSAGE_TOO_LARGE")
             ELSE LET header == ReadHeader(data, data[6], header_bytes)
                  IN  IF header = <<>> THEN Refused("MALFORMED_MESSAGE")
                      ELSE Payload(data, header[1], header_bytes, payload_bytes)
=============================================================================
