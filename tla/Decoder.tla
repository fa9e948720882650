------------------------------- MODULE Decoder -------------------------------
(***************************************************************************)
(* The incremental terminal input decoder, as operators on its state d.    *)
(* The trie is given by the sequences it holds: Mappings binds a sequence  *)
(* to an action, Disabled are sequences whose binding was removed and      *)
(* whose nodes remain.  The code's trie cursor is a function of the bytes  *)
(* pending, so it is not part of d.  Every event is paired with the bytes  *)
(* it stands for (from), which the code does not keep; bytes of a paste    *)
(* that was cancelled are paired with the event Dropped, which is never    *)
(* published.                                                              *)
(***************************************************************************)
EXTENDS TerminalReports, SequencesExt

CONSTANTS Mappings, Disabled,
          maximum_pending_bytes, maximum_sequence_bytes, maximum_paste_bytes, maximum_clipboard_bytes,
          MaxGeneration  \* where the timeout generations wrap around (2^64 - 1 in the code)

EventAction(e) == [kind |-> "event", event |-> e]
EnterInputProtocol(p) == [kind |-> "protocol", protocol |-> p]

TrieNodes ==
    UNION {{Leading(s, n) : n \in 0 .. Len(s)} : s \in DOMAIN Mappings \cup Disabled \cup {<<>>}}

find_child(node, byte) == Append(node, byte) \in TrieNodes
Leaf(node) == ~ \E n \in TrieNodes : Len(n) = Len(node) + 1 /\ IsPrefix(node, n)
sequence_end(node) == node \in DOMAIN Mappings

NoTrieNode == <<-1>>
Protocol(node) ==
    IF sequence_end(node) /\ Mappings[node].kind = "protocol" THEN Mappings[node].protocol ELSE "NONE"

paste_end_sequence ==
    IF \E s \in DOMAIN Mappings : Protocol(s) = "PASTE_END"
    THEN CHOOSE s \in DOMAIN Mappings : Protocol(s) = "PASTE_END" ELSE <<>>

NewDecoder ==
    [buffer |-> <<>>, active |-> NoTrieNode, sequence |-> <<>>, candidate |-> <<>>, pasting |-> FALSE,
     discarding |-> FALSE, pasted |-> 0, timeout |-> 0, generation |-> 0, out |-> <<>>, status |-> "OK"]

Dropped == [type |-> "dropped"]
Paste(phase, data) == [type |-> "paste", phase |-> phase, data |-> data]
Text(bytes) == [type |-> "text", text |-> bytes]
EscapeKey(modifiers) == Key(<<"ESCAPE">>, [modifiers |-> modifiers, action |-> "PRESS"])

Emit(d, event, from) == [d EXCEPT !.out = Append(@, [event |-> event, from |-> from])]
consume(d, n) == [d EXCEPT !.buffer = Drop(@, n)]
reset_active_action(d) == [d EXCEPT !.active = NoTrieNode, !.sequence = <<>>]
Fail(d, status) == [d EXCEPT !.status = IF @ = "OK" THEN status ELSE @]

pending_bytes(d) == Len(d.buffer) + Len(d.sequence) + Len(d.candidate)

(* Emit an event for the n first bytes pending, then consume them. *)
Consumed(d, n, event) == consume(Emit(d, event, Leading(d.buffer, n)), n)

(* Emit an event for the sequence captured so far and leave the capture. *)
Finished(d, event) == reset_active_action(Emit(d, event, d.sequence))
LimitExceeded(d) == Fail(Finished(d, Unknown("LIMIT_EXCEEDED")), "INPUT_LIMIT_EXCEEDED")

(* Move n bytes pending into the captured sequence. *)
Capture(d, n) == consume([d EXCEPT !.sequence = @ \o Leading(d.buffer, n)], n)

-----------------------------------------------------------------------------
(* Text outside any sequence *)

Control(byte) == byte < 32 \/ byte = 127

(* Length of the longest run of whole printable scalars at the head. *)
RECURSIVE TextSize(_)
TextSize(bytes) ==
    IF bytes = <<>> \/ Control(bytes[1]) \/ decode_utf8(bytes) # "VALID" THEN 0
    ELSE Expected(bytes[1]) + TextSize(Drop(bytes, Expected(bytes[1])))

parse_text(d) ==
    LET Parse(size) ==
            CASE Control(d.buffer[1]) -> Consumed(d, 1, Unsupported)
              [] size > 0 -> Consumed(d, size, Text(Leading(d.buffer, size)))
              [] OTHER -> IF decode_utf8(d.buffer) = "INCOMPLETE" THEN d
                          ELSE Consumed(d, 1, Unknown("INVALID_UTF8"))
    IN  Parse(TextSize(d.buffer))

(* After a lone Escape: the next key with Alt (modifier bit 2). *)
parse_alt_key(d) ==
    LET first == d.buffer[1]
        Alt(key, modifiers) == Key(key, [modifiers |-> modifiers + 2, action |-> "PRESS"])
        Event(control, utf8, length) ==
            CASE first = ESC -> Alt(<<"ESCAPE">>, 0)
              [] first # ESC /\ control.key # <<>> -> Alt(control.key, control.modifiers)
              [] OTHER -> IF utf8 = "VALID" THEN Alt(<<"CHARACTER">> \o Leading(d.buffer, length), 0)
                          ELSE Unknown("INVALID_UTF8")
        Parsed(utf8, length) == Finished(Capture(d, length), Event(legacy_control_key(first), utf8, length))
        Of(utf8) == IF utf8 = "INCOMPLETE" THEN d
                    ELSE Parsed(utf8, IF utf8 = "VALID" THEN Expected(first) ELSE 1)
    IN  Of(decode_utf8(d.buffer))

-----------------------------------------------------------------------------
(* Parameterised sequences: one byte of the capture loop per step *)

InBody(byte) == byte \in 32 .. 63
Final(byte) == byte \in 64 .. 126

capture_ss3(d) ==
    LET byte == d.buffer[1]
        n == Capture(d, 1)
    IN  CASE byte = ESC -> Finished(d, Unknown("INCOMPLETE_SEQUENCE"))
          [] Final(byte) -> Finished(n, Unsupported)
          [] InBody(byte) -> IF Len(n.sequence) >= maximum_sequence_bytes THEN LimitExceeded(n) ELSE n
          [] OTHER -> Finished(n, Malformed)

capture_csi(d) ==
    LET byte == d.buffer[1]
        n == Capture(d, 1)
        mouse == Protocol(d.active) = "SGR_MOUSE" /\ byte \in {77, 109}
    IN  CASE byte = ESC -> Finished(d, Unknown("INCOMPLETE_SEQUENCE"))
          [] Final(byte) -> Finished(n, IF mouse THEN parse_sgr_mouse(n.sequence) ELSE parse_csi(n.sequence))
          [] InBody(byte) -> IF Len(n.sequence) >= maximum_sequence_bytes THEN LimitExceeded(n) ELSE n
          [] OTHER -> Finished(n, Malformed)

maximum_osc52_sequence_bytes == ((maximum_clipboard_bytes + 2) \div 3) * 4 + 24

OscReply(d) ==
    LET Reply(event) ==
            IF event = Unknown("LIMIT_EXCEEDED") THEN Fail(Finished(d, event), "INPUT_LIMIT_EXCEEDED")
            ELSE Finished(d, event)
    IN  Reply(IF Protocol(d.active) = "OSC52" THEN parse_osc52(d.sequence, maximum_clipboard_bytes)
              ELSE Response("OPERATING_SYSTEM_COMMAND", 0))

(* A string ends with ESC backslash; a lone ESC has to wait for the next byte. *)
CaptureString(d, limit, Reply(_), bel) ==
    LET byte == d.buffer[1]
        ended == byte = ESC /\ Len(d.buffer) > 1 /\ d.buffer[2] = BACKSLASH
        Grown(n) == IF Len(n.sequence) >= limit THEN LimitExceeded(n) ELSE n
    IN  CASE byte = ESC /\ Len(d.buffer) = 1 -> d
          [] byte = ESC /\ Len(d.buffer) > 1 /\ ~ended -> Finished(d, Unknown("INCOMPLETE_SEQUENCE"))
          [] ended /\ Len(d.sequence) > limit - 2 -> LimitExceeded(d)
          [] (ended /\ Len(d.sequence) <= limit - 2) \/ (byte = BEL /\ bel) ->
               Reply(Capture(d, IF ended THEN 2 ELSE 1))
          [] OTHER -> Grown(Capture(d, 1))

capture_osc(d) ==
    CaptureString(d, IF Protocol(d.active) = "OSC52" THEN maximum_osc52_sequence_bytes
                     ELSE maximum_sequence_bytes, OscReply, TRUE)

capture_st_string(d) ==
    LET Reply(n) == Finished(n, Response(IF Protocol(d.active) = "DEVICE_CONTROL_STRING"
                                         THEN "DEVICE_CONTROL_STRING" ELSE "OPERATING_SYSTEM_COMMAND", 0))
    IN  CaptureString(d, maximum_sequence_bytes, Reply, FALSE)

-----------------------------------------------------------------------------
(* Bracketed paste *)

append_paste_data(d, data) ==
    CASE data = <<>> -> d
      [] data # <<>> /\ d.discarding -> Emit(d, Dropped, data)
      [] data # <<>> /\ ~d.discarding /\ Len(data) > maximum_paste_bytes - d.pasted ->
           Fail([Emit(d, Paste("CANCEL", <<>>), data) EXCEPT !.discarding = TRUE], "INPUT_LIMIT_EXCEEDED")
      [] OTHER -> [Emit(d, Paste("DATA", data), data) EXCEPT !.pasted = @ + Len(data)]

ClosePaste(d) ==
    reset_active_action([d EXCEPT !.candidate = <<>>, !.pasting = FALSE, !.discarding = FALSE, !.pasted = 0])

(* Bytes that can no longer start the end marker leave the candidate. *)
RECURSIVE PasteScan(_, _, _)
PasteScan(candidate, data, rest) ==
    LET Kept(grown) == Min({i \in 0 .. Len(grown) : IsPrefix(Drop(grown, i), paste_end_sequence)})
        Scan(grown, k) == PasteScan(Drop(grown, k), data \o Leading(grown, k), Tail(rest))
        Grow(grown) == Scan(grown, Kept(grown))
    IN  IF rest = <<>> \/ candidate = paste_end_sequence
        THEN [candidate |-> candidate, data |-> data, rest |-> rest]
        ELSE Grow(Append(candidate, rest[1]))

(* The bytes of a paste, and its end when the marker is complete. *)
Scanned(d, scan) ==
    LET Close(n) == IF scan.candidate # paste_end_sequence THEN n
                    ELSE ClosePaste(Emit(n, IF n.discarding THEN Dropped ELSE Paste("END", <<>>),
                                         scan.candidate))
    IN  Close(append_paste_data([d EXCEPT !.buffer = scan.rest, !.candidate = scan.candidate], scan.data))

capture_paste_forgets(d) == Scanned(d, PasteScan(<<>>, <<>>, d.buffer))

capture_paste(d) ==
    IF paste_end_sequence = <<>>
    THEN Fail(reset_active_action([Emit(d, Unsupported, <<>>) EXCEPT !.pasting = FALSE]), "UNSUPPORTED")
    ELSE Scanned(d, PasteScan(d.candidate, <<>>, d.buffer))

-----------------------------------------------------------------------------
(* The trie *)

execute_action(d, node) ==
    LET size == Len(node)
        action == Mappings[node]
        entered == [consume(d, size) EXCEPT !.active = node]
    IN  CASE action.kind = "event" -> Consumed(d, size, action.event)
          [] Protocol(node) = "TEXT" -> parse_text(d)
          [] Protocol(node) = "PASTE_BEGIN" ->
               [Emit(entered, Paste("BEGIN", <<>>), node) EXCEPT
                    !.sequence = <<>>, !.candidate = <<>>, !.pasting = TRUE, !.discarding = FALSE, !.pasted = 0]
          [] Protocol(node) = "PASTE_END" -> Consumed(d, size, Unsupported)
          [] OTHER -> [entered EXCEPT !.sequence = node]

WalkLength(bytes) == Max({n \in 0 .. Len(bytes) : Leading(bytes, n) \in TrieNodes})
MatchLength(bytes) == Max({0} \cup {n \in 1 .. WalkLength(bytes) : sequence_end(Leading(bytes, n))})

advance_trie(d) ==
    LET Advance(walked, matched) ==
            CASE walked > 0 /\ Leaf(Leading(d.buffer, walked)) /\ matched # walked ->
                   Consumed(d, walked, Unsupported)
              [] walked = Len(d.buffer) /\ ~Leaf(Leading(d.buffer, walked)) -> d
              [] OTHER -> IF matched > 0 \/ (walked = 0 /\ sequence_end(<<>>))
                          THEN execute_action(d, Leading(d.buffer, matched))
                          ELSE Consumed(d, IF walked > 0 THEN walked ELSE 1, Unsupported)
    IN  Advance(WalkLength(d.buffer), MatchLength(d.buffer))

advance_active_action(d) ==
    LET protocol == Protocol(d.active)
    IN  CASE protocol = "TEXT" -> parse_text(d)
          [] protocol = "ESCAPE" -> parse_alt_key(d)
          [] protocol = "SS3" -> capture_ss3(d)
          [] protocol \in {"CSI", "SGR_MOUSE"} -> capture_csi(d)
          [] protocol \in {"OSC", "OSC52"} -> capture_osc(d)
          [] protocol \in {"DEVICE_CONTROL_STRING", "APPLICATION_PROGRAM_COMMAND", "PRIVACY_MESSAGE"} ->
               capture_st_string(d)
          [] protocol = "PASTE_BEGIN" -> capture_paste(d)
          [] OTHER -> Fail(reset_active_action(d), "INVALID_ARGUMENT")

(* Op(v), with v evaluated once. *)
With(v, Op(_)) == CHOOSE r \in {Op(x) : x \in {v}} : TRUE

(* NEED_MORE leaves the decoder as it is, which ends the loop. *)
RECURSIVE process(_)
process(decoder) ==
    LET Continue(d, next) == IF next = d THEN d ELSE process(next)
        Step(d) == LET After(next) == Continue(d, next)
                   IN  IF d.buffer = <<>> THEN d
                       ELSE With(IF d.active = NoTrieNode THEN advance_trie(d) ELSE advance_active_action(d), After)
    IN  With(decoder, Step)

-----------------------------------------------------------------------------
(* The public operations *)

NextGeneration(d) == (d.generation % MaxGeneration) + 1

update_pending_timeout_once(d, rearm) ==
    LET needed == ~d.pasting /\ (d.active # NoTrieNode \/ d.buffer # <<>>)
    IN  CASE ~needed -> [d EXCEPT !.timeout = 0]
          [] needed /\ d.timeout # 0 -> d
          [] OTHER -> [d EXCEPT !.generation = NextGeneration(d), !.timeout = NextGeneration(d)]

update_pending_timeout(d, rearm) ==
    LET needed == ~d.pasting /\ (d.active # NoTrieNode \/ d.buffer # <<>>)
    IN  CASE ~needed -> [d EXCEPT !.timeout = 0]
          [] needed /\ ~rearm /\ d.timeout # 0 -> d
          [] OTHER -> [d EXCEPT !.generation = NextGeneration(d), !.timeout = NextGeneration(d)]

(* The caller took the events and the status. *)
Fresh(d) == [d EXCEPT !.out = <<>>, !.status = "OK"]

feed(d, bytes) ==
    LET Armed(n) == update_pending_timeout(n, bytes # <<>>)
    IN  IF Len(bytes) > maximum_pending_bytes - Min({pending_bytes(d), maximum_pending_bytes})
        THEN Fail(Emit(d, Unknown("LIMIT_EXCEEDED"), <<>>), "INPUT_LIMIT_EXCEEDED")
        ELSE With(process([d EXCEPT !.buffer = @ \o bytes]), Armed)

(* A path that timed out gives up its first byte as Escape and replays the rest. *)
resolve_timed_out_active_action(d) ==
    LET protocol == Protocol(d.active)
        idle == reset_active_action(d)
        replayed == [idle EXCEPT !.buffer = Tail(d.sequence) \o d.buffer]
    IN  CASE protocol = "NONE" -> Fail(idle, "INVALID_ARGUMENT")
          [] protocol # "NONE" /\ d.pasting -> d
          [] OTHER ->
               CASE d.sequence = <<>> \/ d.sequence[1] # ESC ->
                      [reset_active_action(Emit(d, Unknown("INCOMPLETE_SEQUENCE"), d.sequence \o d.buffer))
                           EXCEPT !.buffer = <<>>]
                 [] OTHER ->
                      process(CASE protocol = "ESCAPE" -> Finished(d, EscapeKey(0))
                                [] protocol # "ESCAPE" /\ find_child(<<>>, ESC) ->
                                     [replayed EXCEPT !.active = <<ESC>>, !.sequence = <<ESC>>]
                                [] OTHER -> Emit(replayed, EscapeKey(0), <<ESC>>))

(* Commit the longest match, then resolve what it entered or left over. *)
TimedOutTrie(d) ==
    LET matched == MatchLength(d.buffer)
        Resolved(n) == IF n.status = "OK" /\ n.active # NoTrieNode THEN resolve_timed_out_active_action(n) ELSE n
        Processed(n) == IF n.status = "OK" THEN process(n) ELSE n
        Committed(n) == With(With(IF matched = Len(d.buffer) THEN With(n, Resolved) ELSE n, Processed),
                             Resolved)
    IN  CASE d.buffer = <<>> -> d
          [] d.buffer # <<>> /\ matched = 0 -> Consumed(d, Len(d.buffer), Unknown("INCOMPLETE_SEQUENCE"))
          [] OTHER -> Committed(execute_action(d, Leading(d.buffer, matched)))

handle_timeout(d, generation) ==
    LET current == [d EXCEPT !.timeout = 0]
        Resolved(n) == IF n.active # NoTrieNode THEN resolve_timed_out_active_action(n) ELSE TimedOutTrie(n)
        Rearmed(n) == update_pending_timeout(n, TRUE)
    IN  CASE d.timeout = 0 \/ generation # d.timeout -> d
          [] d.timeout # 0 /\ generation = d.timeout /\ d.pasting -> current
          [] OTHER -> IF d.active = NoTrieNode /\ d.buffer = <<>> THEN current
                      ELSE With(With(current, Resolved), Rearmed)

(* What is left of a stream that ended outside a sequence. *)
FinishTrie(d) ==
    LET bytes == d.buffer
        Rest(n) == CASE n.buffer = <<>> -> n
                     [] n.buffer = <<ESC>> -> Consumed(n, 1, EscapeKey(0))
                     [] OTHER -> Consumed(n, Len(n.buffer), Unknown("INCOMPLETE_SEQUENCE"))
    IN  Rest(IF bytes \in TrieNodes \ {<<>>} /\ sequence_end(bytes) /\ Mappings[bytes].kind = "event"
             THEN Consumed(d, Len(bytes), Mappings[bytes].event) ELSE d)

finish(d) ==
    LET Cancel(n) == IF n.discarding THEN n ELSE Emit(n, Paste("CANCEL", <<>>), <<>>)
        closed == CASE d.pasting ->
                       ClosePaste(Cancel(append_paste_data([d EXCEPT !.candidate = <<>>, !.buffer = <<>>],
                                                           d.candidate \o d.buffer)))
                   [] ~d.pasting /\ d.active # NoTrieNode ->
                        Finished(Capture(d, Len(d.buffer)), Unknown("INCOMPLETE_SEQUENCE"))
                   [] OTHER -> FinishTrie(d)
    IN  [closed EXCEPT !.timeout = 0]

(* The generation counter survives a reset. *)
reset(d) == [NewDecoder EXCEPT !.generation = d.generation]
=============================================================================
