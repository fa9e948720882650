------------------------------ MODULE InputMap ------------------------------
(***************************************************************************)
(* Building the table of terminal input sequences: InputMap::setup merges  *)
(* terminfo, the universal mappings, those of the operating system and the *)
(* terminal's profile into a candidate that replaces the decoder's map     *)
(* only when every step succeeded.  A document has the outcome of loading  *)
(* it, its version, its mappings and its terminfo keys; a mapping names    *)
(* its bytes in the readable notation, as a sequence of tokens.            *)
(***************************************************************************)
EXTENDS Trie, Integers, Sequences, FiniteSets, SequencesExt

CONSTANTS Universals, Systems, Profiles,  \* the documents that may be installed
          Capability,                     \* the bytes terminfo gives for its one key, <<>> if none
          kMaximumConfiguredSequenceBytes

VARIABLES map,       \* the installed trie
          sources    \* the documents it was built from

vars == <<map, sources>>

NoSources == <<>>

(* The bytes of a token; a caret and a letter is one token here, <<-1>> an unknown name. *)
Expansion(token) ==
    CASE token = "ESC" -> <<27>>
      [] token = "CSI" -> <<27, 91>>
      [] token = "OSC" -> <<27, 93>>
      [] token = "DCS" -> <<27, 80>>
      [] token = "APC" -> <<27, 95>>
      [] token = "PM" -> <<27, 94>>
      [] token = "ST" -> <<27, 92>>
      [] token = "BEL" -> <<7>>
      [] token \in {"DEL", "^?"} -> <<127>>
      [] token = "NUL" -> <<0>>
      [] token = "TAB" -> <<9>>
      [] token = "CR" -> <<13>>
      [] token = "LF" -> <<10>>
      [] token = "LT" -> <<60>>
      [] token = "^A" -> <<1>>
      [] token = "a" -> <<97>>
      [] token = "b" -> <<98>>
      [] OTHER -> <<-1>>

Expanded(encoded) == FlattenSeq([i \in DOMAIN encoded |-> Expansion(encoded[i])])

decode_sequence(encoded) ==
    LET Checked(bytes) ==
            IF -1 \in ToSet(bytes) \/ Len(bytes) > kMaximumConfiguredSequenceBytes
            THEN [ok |-> FALSE, bytes |-> <<>>] ELSE [ok |-> TRUE, bytes |-> bytes]
    IN  Checked(Expanded(encoded))

(* An action is [kind, name]: a key, a protocol, a focus change or a command. *)
parse_action(action) == action.kind \in {"key", "protocol", "focus", "command"} /\ action.name # "unknown"

(* The empty sequence is only for text. *)
Registrable(sequence, action) == sequence = <<>> => action.kind = "protocol" /\ action.name = "TEXT"

Candidate == [status |-> "OK", trie |-> EmptyTrie, commands |-> <<>>, conflicts |-> 0]

Rejected(c, status) == [c EXCEPT !.status = status]

register_sequence(c, sequence, action) ==
    IF Registrable(sequence, action) THEN [c EXCEPT !.trie = insert(@, sequence, action)]
    ELSE Rejected(c, "CONFIGURATION_PARSE_FAILED")

(* commands lists the sequences bound to commands, with their source. *)
track_command_sequence(c, sequence, action, source) ==
    LET declaration == [sequence |-> sequence, source |-> source]
        Track(at) ==
          CASE action.kind # "command" -> IF at = 0 THEN c ELSE [c EXCEPT !.commands = RemoveAt(@, at)]
            [] action.kind = "command" /\ at = 0 -> [c EXCEPT !.commands = Append(@, declaration)]
            [] OTHER -> [c EXCEPT !.conflicts = @ + (IF c.commands[at].source = source THEN 1 ELSE 0),
                                  !.commands[at] = declaration]
    IN  Track(SelectInSeq(c.commands, LAMBDA command : command.sequence = sequence))

ApplyMapping(c, m, source) ==
    LET Apply(decoded) ==
          CASE ~decoded.ok -> Rejected(c, "CONFIGURATION_PARSE_FAILED")
            [] decoded.ok /\ m.disabled ->
                 [track_command_sequence(c, decoded.bytes, [kind |-> "none"], source)
                      EXCEPT !.trie = erase(@, decoded.bytes)]
            [] OTHER -> IF parse_action(m.action)
                        THEN register_sequence(track_command_sequence(c, decoded.bytes, m.action, source),
                                               decoded.bytes, m.action)
                        ELSE Rejected(c, "CONFIGURATION_PARSE_FAILED")
    IN  Apply(decode_sequence(m.sequence))

RECURSIVE ApplyFrom(_, _, _)
ApplyFrom(c, mappings, source) ==
    IF c.status # "OK" \/ mappings = <<>> THEN c
    ELSE ApplyFrom(ApplyMapping(c, Head(mappings), source), Tail(mappings), source)

apply_mappings(c, document, source) == ApplyFrom(c, document.mappings, source)

validate_config(c, document) ==
    IF document.version = 1 THEN c ELSE Rejected(c, "CONFIGURATION_PARSE_FAILED")

(* Only the universal document may declare terminfo keys. *)
ValidateOverlay(c, document) ==
    IF document.version = 1 /\ document.terminfo = <<>> THEN c ELSE Rejected(c, "CONFIGURATION_PARSE_FAILED")

(* Keys bound to capabilities, registered for those the terminal has. *)
RECURSIVE RegisterKeys(_, _)
RegisterKeys(c, bindings) ==
    CASE bindings = <<>> \/ c.status # "OK" -> c
      [] OTHER -> RegisterKeys(IF Capability = <<>> THEN c ELSE register_sequence(c, Capability, Head(bindings)),
                               Tail(bindings))

(* register_terminfo_key keeps one binding of a capability, the last. *)
load_terminfo(c, document) ==
    LET keys == document.terminfo
    IN  CASE c.status # "OK" -> c
          [] c.status = "OK" /\ \E i \in DOMAIN keys : ~parse_action(keys[i]) ->
               Rejected(c, "CONFIGURATION_PARSE_FAILED")
          [] OTHER -> RegisterKeys(c, IF keys = <<>> THEN <<>> ELSE <<Last(keys)>>)

Prefixed(a, b) == IsPrefix(a, b) \/ IsPrefix(b, a)

validate_command_sequences_exact(c) ==
    IF c.status = "OK" /\ c.conflicts > 0 THEN Rejected(c, "CONFIGURATION_PARSE_FAILED") ELSE c

validate_command_sequences(c) ==
    LET ambiguous == \E i, j \in DOMAIN c.commands :
                        i < j /\ Prefixed(c.commands[i].sequence, c.commands[j].sequence)
    IN  IF c.status = "OK" /\ (c.conflicts > 0 \/ ambiguous) THEN Rejected(c, "CONFIGURATION_PARSE_FAILED")
        ELSE c

(* Op(c, document), unless an earlier step failed. *)
Then(c, Op(_, _), document) == IF c.status = "OK" THEN Op(c, document) ELSE c

Loaded(c, document) ==
    IF document.load = "OK" THEN c
    ELSE Rejected(c, IF document.load = "PARSE_ERROR" THEN "CONFIGURATION_PARSE_FAILED"
                     ELSE "CONFIGURATION_LOAD_FAILED")

setup(universal, system, profile) ==
    LET AsUniversal(c, document) == apply_mappings(c, document, "universal")
        AsSystem(c, document) == apply_mappings(c, document, "system")
        AsProfile(c, document) == apply_mappings(c, document, "profile")
        Profile(c, Op(_, _)) == IF profile.load = "NOT_FOUND" THEN c ELSE Then(c, Op, profile)
        Universal == Then(Then(Then(Candidate, Loaded, universal), validate_config, universal),
                          load_terminfo, universal)
        Overlay == Then(Profile(Profile(Universal, Loaded), ValidateOverlay), AsUniversal, universal)
        System == Then(Then(Then(Overlay, Loaded, system), ValidateOverlay, system), AsSystem, system)
    IN  validate_command_sequences(Profile(System, AsProfile))

Init == map = EmptyTrie /\ sources = NoSources

(* The decoder keeps its map unless setup succeeds. *)
Setup(universal, system, profile) ==
    /\ sources = NoSources
    /\ \E c \in {setup(universal, system, profile)} : c.status = "OK" /\ map' = c.trie
    /\ sources' = <<universal, system, profile>>

SetupFails(universal, system, profile) ==
    /\ sources = NoSources
    /\ setup(universal, system, profile).status # "OK"
    /\ UNCHANGED vars

(* Terminating the subsystem destroys the decoder; initialize makes a new one. *)
Terminate == sources # NoSources /\ map' = EmptyTrie /\ sources' = NoSources

Next ==
    \/ \E universal \in Universals, system \in Systems, profile \in Profiles :
          Setup(universal, system, profile) \/ SetupFails(universal, system, profile)
    \/ Terminate

Spec == Init /\ [][Next]_vars

-----------------------------------------------------------------------------

Commands == {s \in ToSet(completions(map, <<>>)) : find(map, s).kind = "command"}

(* In the map the decoder uses, no command's sequence begins another's, so  *)
(* no timeout is needed to tell two commands apart; a key may still begin a *)
(* command (validate_command_sequences, through every override and disabled *)
(* entry).                                                                  *)
CommandsUnambiguous == \A s, t \in Commands : s # t => ~IsPrefix(s, t)

Declarations ==
    LET Keys(document) == IF Capability = <<>> THEN <<>>
                          ELSE [i \in DOMAIN document.terminfo |->
                                   [bytes |-> Capability, disabled |-> FALSE, action |-> document.terminfo[i]]]
        Of(document) == [i \in DOMAIN document.mappings |->
                            [bytes |-> Expanded(document.mappings[i].sequence),
                             disabled |-> document.mappings[i].disabled,
                             action |-> document.mappings[i].action]]
    IN  IF sources = NoSources THEN <<>>
        ELSE Keys(sources[1]) \o Of(sources[1]) \o Of(sources[2])
                 \o (IF sources[3].load = "NOT_FOUND" THEN <<>> ELSE Of(sources[3]))

Precedes(s, t) ==
    \/ IsStrictPrefix(s, t)
    \/ \E i \in DOMAIN s \cap DOMAIN t : s[i] < t[i] /\ \A j \in 1 .. i - 1 : s[j] = t[j]

(* The node array behaves as the finite map of the last declarations: every *)
(* sequence has the action that the last source to mention it gives it, and *)
(* the completions are the sequences bound, in lexicographic order.         *)
MapIsLastDeclaration ==
    \A ds \in {Declarations}, all \in {completions(map, <<>>)} :
    LET bound == {i \in DOMAIN ds : ~ds[i].disabled /\ \A j \in i + 1 .. Len(ds) : ds[j].bytes # ds[i].bytes}
    IN  /\ ToSet(all) = {ds[i].bytes : i \in bound}
        /\ \A i \in bound : find(map, ds[i].bytes) = ds[i].action
        /\ \A i \in 1 .. Len(all) - 1 : Precedes(all[i], all[i + 1])

(* The map is what the configuration says, and its commands are unambiguous. *)
MapSound == MapIsLastDeclaration /\ CommandsUnambiguous

=============================================================================
