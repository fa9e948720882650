--------------------------- MODULE TerminalReports ---------------------------
(***************************************************************************)
(* The pure half of the terminal input decoder: what a complete CSI, SGR   *)
(* mouse or OSC 52 sequence, one UTF-8 scalar and a Base64 clipboard       *)
(* payload mean.  Bytes are numbers, texts are sequences of bytes.  A      *)
(* number of a report is below 10^9 here; the code refuses those above     *)
(* 2^32 - 1.                                                               *)
(***************************************************************************)
EXTENDS Integers, Sequences, FiniteSets, FiniteSetsExt

ESC == 27
BEL == 7
BACKSLASH == 92
SEMICOLON == 59
COLON == 58

Leading(s, n) == SubSeq(s, 1, n)
Drop(s, n) == SubSeq(s, n + 1, Len(s))

-----------------------------------------------------------------------------
(* UTF-8: the scalar at the head of bytes is its own encoding here. *)

Expected(first) ==
    CASE first <= 127 -> 1
      [] first \in 194 .. 223 -> 2
      [] first \in 224 .. 239 -> 3
      [] first \in 240 .. 244 -> 4
      [] OTHER -> 0

Overlong(first, second) ==
    \/ first = 224 /\ second < 160
    \/ first = 237 /\ second >= 160
    \/ first = 240 /\ second < 144
    \/ first = 244 /\ second >= 144

decode_utf8(bytes) ==
    LET first == bytes[1]
        expected == Expected(first)
        seen == IF Len(bytes) < expected THEN Len(bytes) ELSE expected
    IN  CASE expected = 0 \/ \E i \in 2 .. seen : bytes[i] \notin 128 .. 191 -> "INVALID"
          [] expected # 0 /\ (\A i \in 2 .. seen : bytes[i] \in 128 .. 191) /\ Len(bytes) < expected ->
               "INCOMPLETE"
          [] OTHER -> IF expected > 1 /\ Overlong(first, bytes[2]) THEN "INVALID" ELSE "VALID"

is_unicode_scalar(n) == n <= 1114111 /\ n \notin 55296 .. 57343

-----------------------------------------------------------------------------
(* Fields of a report *)

RECURSIVE Decimal(_)
Decimal(text) == IF text = <<>> THEN 0 ELSE 10 * Decimal(Leading(text, Len(text) - 1)) + text[Len(text)] - 48

(* The number, or -1 when text is not one. *)
parse_unsigned(text) ==
    IF text = <<>> \/ \E i \in DOMAIN text : text[i] \notin 48 .. 57 THEN -1 ELSE Decimal(text)

RECURSIVE Split(_, _)
Split(text, delimiter) ==
    LET At(places) == IF places = {} THEN <<text>>
                      ELSE <<Leading(text, Min(places) - 1)>> \o Split(Drop(text, Min(places)), delimiter)
    IN  At({i \in DOMAIN text : text[i] = delimiter})

split_fields(text, delimiter) == IF text = <<>> THEN <<>> ELSE Split(text, delimiter)

Field(fields, i) == IF i \in DOMAIN fields THEN fields[i] ELSE <<>>
Numbers(fields) == [i \in DOMAIN fields |-> parse_unsigned(fields[i])]

Action(n) == CASE n = 1 -> "PRESS" [] n = 2 -> "REPEAT" [] n = 3 -> "RELEASE"

parse_modifiers_and_action_offset(field) ==
    LET parts == split_fields(field, COLON)
        encoded == IF Field(parts, 1) = <<>> THEN 1 ELSE parse_unsigned(parts[1])
    IN  [ok |-> encoded \in 0 .. 255, modifiers |-> encoded, action |-> "PRESS"]

(* Modifier bits plus one, and an optional event type after a colon. *)
parse_modifiers_and_action(field) ==
    LET Parsed(count, encoded, action) ==
            IF count <= 2 /\ encoded \in 1 .. 256 /\ action \in 1 .. 3
            THEN [ok |-> TRUE, modifiers |-> encoded - 1, action |-> Action(action)]
            ELSE [ok |-> FALSE, modifiers |-> 0, action |-> "PRESS"]
        Of(parts) == Parsed(Len(parts),
                            IF Field(parts, 1) = <<>> THEN 1 ELSE parse_unsigned(parts[1]),
                            IF Len(parts) = 2 THEN parse_unsigned(parts[2]) ELSE 1)
    IN  Of(split_fields(field, COLON))

-----------------------------------------------------------------------------
(* Keys: a named key is its name, or its family and its index there *)

KittyNames ==
    <<"INSERT", "DELETE", "LEFT", "RIGHT", "UP", "DOWN", "PAGE_UP", "PAGE_DOWN", "HOME", "END",
      "CAPS_LOCK", "SCROLL_LOCK", "NUM_LOCK", "PRINT_SCREEN", "PAUSE", "MENU">>

kitty_named_key(code) ==
    CASE code = 9 -> <<"TAB">>
      [] code = 13 -> <<"ENTER">>
      [] code = 27 -> <<"ESCAPE">>
      [] code = 127 -> <<"BACKSPACE">>
      [] code \in 57348 .. 57363 -> <<KittyNames[code - 57347]>>
      [] code \in 57364 .. 57375 -> <<"F", 1 + code - 57364>>
      [] code \in 57376 .. 57398 -> <<"F", 13 + code - 57376>>
      [] code \in 57399 .. 57454 -> <<"KEYPAD", code - 57399>>
      [] OTHER -> <<>>

(* The key of a protocol number, or <<>>. *)
protocol_key_code(code) ==
    CASE kitty_named_key(code) # <<>> -> kitty_named_key(code)
      [] kitty_named_key(code) = <<>> /\ (code = 0 \/ ~is_unicode_scalar(code) \/ code \in 57344 .. 63743) ->
           <<>>
      [] OTHER -> <<"CHARACTER", code>>

tilde_named_key(code) ==
    CASE code \in {1, 7} -> <<"HOME">>
      [] code \in 2 .. 6 -> <<<<"INSERT", "DELETE", "END", "PAGE_UP", "PAGE_DOWN">>[code - 1]>>
      [] code = 8 -> <<"END">>
      [] code \in 11 .. 15 -> <<"F", code - 10>>
      [] code \in 17 .. 21 -> <<"F", code - 11>>
      [] code \in 23 .. 24 -> <<"F", code - 12>>
      [] code = 57427 -> <<"KEYPAD", 28>>
      [] OTHER -> <<>>

csi_final_key(final) ==
    CASE final \in 65 .. 68 -> <<<<"UP", "DOWN", "RIGHT", "LEFT">>[final - 64]>>
      [] final = 72 -> <<"HOME">>
      [] final = 70 -> <<"END">>
      [] final = 80 -> <<"F", 1>>
      [] final = 81 -> <<"F", 2>>
      [] final = 83 -> <<"F", 4>>
      [] OTHER -> <<>>

(* Alt-prefixed C0 bytes; a control letter carries modifier bit 4. *)
legacy_control_key(byte) ==
    CASE byte \in {8, 127} -> [key |-> <<"BACKSPACE">>, modifiers |-> 0]
      [] byte = 9 -> [key |-> <<"TAB">>, modifiers |-> 0]
      [] byte \in {10, 13} -> [key |-> <<"ENTER">>, modifiers |-> 0]
      [] byte = 0 -> [key |-> <<"CHARACTER", 32>>, modifiers |-> 4]
      [] byte \in (1 .. 26) \ {8, 9, 10, 13} -> [key |-> <<"CHARACTER", 96 + byte>>, modifiers |-> 4]
      [] byte \in 28 .. 31 -> [key |-> <<"CHARACTER", 64 + byte>>, modifiers |-> 4]
      [] OTHER -> [key |-> <<>>, modifiers |-> 0]

Unknown(reason) == [type |-> "unknown", reason |-> reason]
Malformed == Unknown("MALFORMED_SEQUENCE")
Unsupported == Unknown("UNSUPPORTED_SEQUENCE")
Response(kind, value) == [type |-> "response", kind |-> kind, value |-> value]

Key(key, m) ==
    [type |-> "key", key |-> key, modifiers |-> m.modifiers, action |-> m.action,
     shifted |-> -1, base |-> -1, text |-> <<>>]

(* CSI code : shifted : base ; modifiers : action ; text u *)
KittyKey(body) ==
    LET Printable(n) == n >= 32 /\ is_unicode_scalar(n) /\ n \notin 127 .. 159
        Make(n, m, points, key) ==
            CASE n[1] = 0 /\ points = <<>> -> Malformed
              [] n[1] = 0 /\ points # <<>> -> [type |-> "text", text |-> points]
              [] n[1] # 0 /\ key = <<>> -> Unsupported
              [] OTHER -> [Key(key, m) EXCEPT !.shifted = n[2], !.base = n[3], !.text = points]
        Check(fields, keys, n, m, points) ==
            IF /\ Len(fields) \in 1 .. 3 /\ Len(keys) <= 3 /\ n[1] >= 0
               /\ \A i \in 2 .. 3 : Field(keys, i) = <<>> \/ (n[i] >= 0 /\ is_unicode_scalar(n[i]))
               /\ m.ok /\ Len(points) <= 64 /\ \A i \in DOMAIN points : Printable(points[i])
            THEN Make(n, m, points, protocol_key_code(n[1])) ELSE Malformed
        OfKeys(fields, keys) ==
            Check(fields, keys, [i \in 1 .. 3 |-> parse_unsigned(Field(keys, i))],
                  parse_modifiers_and_action(Field(fields, 2)),
                  Numbers(split_fields(Field(fields, 3), COLON)))
        Of(fields) == OfKeys(fields, split_fields(Field(fields, 1), COLON))
    IN  Of(split_fields(body, SEMICOLON))

(* CSI number ; modifiers ~ and CSI 27 ; modifiers ; code ~ *)
TildeKey(body) ==
    LET Other(key, m) == IF m.ok /\ key # <<>> THEN Key(key, m) ELSE Malformed
        Named(count, key, m) ==
            IF key = <<>> \/ count # 2 THEN Unsupported ELSE IF m.ok THEN Key(key, m) ELSE Malformed
        Make(n, m) ==
            IF Len(n) \notin 1 .. 3 \/ n[1] < 0 THEN Malformed
            ELSE IF n[1] = 27 /\ Len(n) = 3
                 THEN Other(IF n[3] >= 0 THEN protocol_key_code(n[3]) ELSE <<>>, m)
                 ELSE Named(Len(n), tilde_named_key(n[1]), m)
        Of(fields) == Make(Numbers(fields), parse_modifiers_and_action(Field(fields, 2)))
    IN  Of(split_fields(body, SEMICOLON))

(* parse_letter_key_fields: CSI 1 ; modifiers letter *)
LetterKey(key, body) ==
    LET Make(count, first, m) == IF count <= 2 /\ first = 1 /\ m.ok THEN Key(key, m) ELSE Malformed
        Of(fields) == Make(Len(fields), parse_unsigned(fields[1]),
                           parse_modifiers_and_action(Field(fields, 2)))
    IN  Of(split_fields(body, SEMICOLON))

CursorPosition(body) ==
    LET Make(n) == IF Len(n) = 2 /\ n[1] >= 0 /\ n[2] >= 0
                   THEN Response("CURSOR_POSITION", n[1]) ELSE Malformed
    IN  Make(Numbers(split_fields(body, SEMICOLON)))

(* A complete CSI sequence, ESC [ body final. *)
parse_csi(sequence) ==
    LET Flags(n) == IF n >= 0 THEN Response("KITTY_FLAGS", n) ELSE Malformed
        Letter(final) == IF final = 69 THEN <<"KEYPAD", 28>> ELSE csi_final_key(final)
        Parse(final, body, opening) ==
            CASE final = 117 /\ opening = 63 -> Flags(parse_unsigned(Tail(body)))
              [] final = 117 /\ opening \in {60, 62} -> Response("KITTY_FLAGS", 0)
              [] final = 117 /\ opening \notin {60, 62, 63} -> KittyKey(body)
              [] final = 126 -> TildeKey(body)
              [] body # <<>> /\ Letter(final) # <<>> -> LetterKey(Letter(final), body)
              [] final = 82 -> CursorPosition(body)
              [] final = 99 -> Response("DEVICE_ATTRIBUTES", 0)
              [] final = 121 /\ \E i \in DOMAIN body : body[i] = 36 -> Response("MODE_REPORT", 0)
              [] OTHER -> Unsupported
        Of(final, body) == Parse(final, body, IF body = <<>> THEN 0 ELSE body[1])
    IN  Of(sequence[Len(sequence)], SubSeq(sequence, 3, Len(sequence) - 1))

-----------------------------------------------------------------------------
(* Mouse *)

Bit(n, mask) == (n \div mask) % 2 = 1

Button(code) ==
    CASE Bit(code, 128) -> <<"AUXILIARY", 1 + (code % 4)>>
      [] ~Bit(code, 128) /\ code % 4 # 3 -> <<<<"LEFT", "MIDDLE", "RIGHT">>[1 + (code % 4)]>>
      [] OTHER -> <<"NONE">>

MouseAction(code, final) ==
    CASE final = 109 -> "RELEASE"
      [] final # 109 /\ ~Bit(code, 32) -> "PRESS"
      [] OTHER -> IF Button(code) = <<"NONE">> THEN "MOVE" ELSE "DRAG"

(* ESC [ < code ; x ; y M: positions count from one on the wire. *)
parse_sgr_mouse(sequence) ==
    LET final == sequence[Len(sequence)]
        body == SubSeq(sequence, 3, Len(sequence) - 1)
        Report(code, place, modifiers) ==
            CASE code >= 256 \/ (Bit(code, 64) /\ Bit(code, 128)) -> Unsupported
              [] code < 256 /\ Bit(code, 64) /\ ~Bit(code, 128) ->
                   [type |-> "scroll", place |-> place, modifiers |-> modifiers,
                    delta |-> << <<0, 1>>, <<0, -1>>, <<1, 0>>, <<-1, 0>> >>[1 + (code % 4)]]
              [] OTHER -> [type |-> "mouse", place |-> place, modifiers |-> modifiers,
                           button |-> Button(code), action |-> MouseAction(code, final)]
        Of(n) == IF Len(n) # 3 \/ n[1] < 0 \/ n[2] <= 0 \/ n[3] <= 0 THEN Malformed
                 ELSE Report(n[1], [x |-> n[2] - 1, y |-> n[3] - 1], (n[1] \div 4) % 8)
    IN  IF body = <<>> \/ body[1] # 60 THEN Malformed
        ELSE Of(Numbers(split_fields(Tail(body), SEMICOLON)))

-----------------------------------------------------------------------------
(* Clipboard: Base64 digits are compared by their six-bit values *)

base64_value(c) ==
    CASE c \in 65 .. 90 -> c - 65
      [] c \in 97 .. 122 -> c - 71
      [] c \in 48 .. 57 -> c + 4
      [] c = 43 -> 62
      [] c = 47 -> 63
      [] OTHER -> -1

Alphabet(value) == CHOOSE c \in 43 .. 122 : base64_value(c) = value

RECURSIVE append_base64(_)
append_base64(data) ==
    LET byte(i) == IF i <= Len(data) THEN data[i] ELSE 0
        bits == 65536 * byte(1) + 256 * byte(2) + byte(3)
        digits == <<Alphabet(bits \div 262144), Alphabet((bits \div 4096) % 64),
                    Alphabet((bits \div 64) % 64), Alphabet(bits % 64)>>
    IN  CASE data = <<>> -> <<>>
          [] Len(data) \in 1 .. 2 -> Leading(digits, Len(data) + 1) \o Leading(<<61, 61>>, 3 - Len(data))
          [] OTHER -> digits \o append_base64(Drop(data, 3))

(* Bytes out of six-bit groups; rest holds the bits not yet a byte. *)
RECURSIVE Octets(_, _, _)
Octets(content, rest, bits) ==
    LET joined == rest * 64 + base64_value(content[1])
        left == bits + 6
    IN  CASE content = <<>> -> [data |-> <<>>, rest |-> rest]
          [] content # <<>> /\ left < 8 -> Octets(Tail(content), joined, left)
          [] OTHER -> LET scale == 2 ^ (left - 8)
                          more == Octets(Tail(content), joined % scale, left - 8)
                      IN  [data |-> <<joined \div scale>> \o more.data, rest |-> more.rest]

Padding(encoded) ==
    IF encoded = <<>> \/ encoded[Len(encoded)] # 61 THEN 0
    ELSE Cardinality({i \in DOMAIN encoded : \A j \in i .. Len(encoded) : encoded[j] = 61})

decode_clipboard_payload(encoded, maximum) ==
    LET Size(n) == (n \div 4) * 3 + (IF n % 4 = 0 THEN 0 ELSE (n % 4) - 1)
        Illegal(n, padding) ==
            \/ padding > 2 \/ n % 4 = 1 \/ (padding # 0 /\ Len(encoded) % 4 # 0)
            \/ (padding = 1 /\ n % 4 # 3) \/ (padding = 2 /\ n % 4 # 2)
        Whole(octets) == IF octets.rest = 0 THEN [status |-> "OK", data |-> octets.data]
                         ELSE [status |-> "INVALID_ARGUMENT", data |-> <<>>]
        Decode(content) ==
            IF \A i \in DOMAIN content : base64_value(content[i]) >= 0 THEN Whole(Octets(content, 0, 0))
            ELSE [status |-> "INVALID_ARGUMENT", data |-> <<>>]
        Of(n, padding) ==
            CASE Illegal(n, padding) -> [status |-> "INVALID_ARGUMENT", data |-> <<>>]
              [] ~Illegal(n, padding) /\ Size(n) > maximum ->
                   [status |-> "INPUT_LIMIT_EXCEEDED", data |-> <<>>]
              [] OTHER -> Decode(Leading(encoded, n))
    IN  Of(Len(encoded) - Padding(encoded), Padding(encoded))

Selector(selection) == IF selection = "PRIMARY" THEN 112 ELSE 99

build_clipboard_write(selection, data) ==
    <<ESC, 93, 53, 50, SEMICOLON, Selector(selection), SEMICOLON>> \o append_base64(data)
        \o <<ESC, BACKSLASH>>

(* A complete OSC 52 sequence, ESC ] 52 ; selectors ; payload terminator. *)
parse_osc52(sequence, maximum) ==
    LET terminator == IF sequence[Len(sequence)] = BEL THEN 1 ELSE 2
        content == SubSeq(sequence, 3, Len(sequence) - terminator)
        Among(c, selectors) == \E i \in DOMAIN selectors : selectors[i] = c
        Event(selectors, decoded) ==
            IF decoded.status = "OK"
            THEN [type |-> "clipboard", data |-> decoded.data,
                  selection |-> IF Among(99, selectors) THEN "CLIPBOARD" ELSE "PRIMARY"]
            ELSE Unknown(IF decoded.status = "INPUT_LIMIT_EXCEEDED" THEN "LIMIT_EXCEEDED"
                         ELSE "MALFORMED_SEQUENCE")
        Reply(selectors, payload) ==
            CASE payload = <<63>> -> Response("OPERATING_SYSTEM_COMMAND", 0)
              [] payload # <<63>> /\ ~Among(99, selectors) /\ ~Among(112, selectors) -> Unsupported
              [] OTHER -> Event(selectors, decode_clipboard_payload(payload, maximum))
        Of(parts) == IF Len(parts) = 1 THEN Malformed
                     ELSE Reply(parts[1], Drop(content, 4 + Len(parts[1])))
    IN  IF Leading(content, 3) # <<53, 50, SEMICOLON>> THEN Malformed
        ELSE Of(Split(Drop(content, 3), SEMICOLON))
=============================================================================
