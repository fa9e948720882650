---------------------------- MODULE Configuration ----------------------------
(***************************************************************************)
(* TOML documents as puc reads them: src/utils/config/config.cpp loads one *)
(* relative path below two roots, merges them and gives typed views;       *)
(* src/properties/properties.cpp flattens a document to its scalar leaves, *)
(* reads text as a scalar and shows numbers and booleans as text.          *)
(*                                                                         *)
(* A text is a sequence of one-character strings.  A document value is a   *)
(* record with a type: a table holds a sequence of <<key, value>> pairs    *)
(* whose keys are texts, an array a sequence of values, and every other    *)
(* type one datum.  The root directories and files are given by what       *)
(* opening and parsing them yields.  Integers have Width bits.             *)
(***************************************************************************)
EXTENDS Integers, Sequences, FiniteSets, TLC
CONSTANTS Width,     \* bits of the integer type, 64 in the code
          Unclean    \* the paths that are not clean relative paths

Missing == [type |-> "NONE"]
Table(entries) == [type |-> "TABLE", items |-> entries]
Array(values) == [type |-> "ARRAY", elements |-> values]
Number(kind, n) == [type |-> kind, number |-> n]
Boolean(b) == [type |-> "BOOLEAN", boolean |-> b]
String(text) == [type |-> "STRING", text |-> text]
Scalars == {"STRING", "INTEGER", "FLOAT", "BOOLEAN", "DATE", "TIME",
            "DATE_TIME", "OFFSET_DATE_TIME"}

------------------------------------------------------------------------------
(* Views of a document (config.cpp). *)

size(value) ==
    CASE value.type = "ARRAY" -> Len(value.elements)
      [] value.type = "TABLE" -> Len(value.items)
      [] OTHER -> 0

at(value, index) ==
    IF value.type = "ARRAY" /\ index < size(value)
    THEN value.elements[index + 1] ELSE Missing

key_at(value, index) ==
    IF value.type = "TABLE" /\ index < size(value)
    THEN value.items[index + 1][1] ELSE <<>>

value_at(value, index) ==
    IF value.type = "TABLE" /\ index < size(value)
    THEN value.items[index + 1][2] ELSE Missing

find_key(value, key) ==
    IF value.type = "TABLE" /\ \E entry \in 1..size(value) : value.items[entry][1] = key
    THEN value.items[CHOOSE entry \in 1..size(value) :
                        /\ value.items[entry][1] = key
                        /\ \A earlier \in 1..entry - 1 : value.items[earlier][1] # key][2]
    ELSE Missing

------------------------------------------------------------------------------
(* Loading.  A root is [kind, files]; a file is [status] or, parsed,       *)
(* [status |-> "OK", root].                                                *)

load_one(root, path) ==
    CASE root.kind = "missing" -> [status |-> "NOT_FOUND"]
      [] root.kind = "file" -> [status |-> "INVALID_ROOT"]
      [] OTHER -> root.files[path]

IsTables(value) ==
    value.type = "ARRAY" /\ \A n \in 1..size(value) : value.elements[n].type = "TABLE"

(* The library's merge: tables recursively, arrays of tables one after the *)
(* other, anything else replaced.                                          *)
RECURSIVE toml_merge(_, _)
toml_merge(base, over) ==
    LET Has(value, key) == \E n \in 1..size(value) : value.items[n][1] = key
        Merged(n) == IF Has(over, base.items[n][1])
                     THEN <<base.items[n][1],
                            toml_merge(base.items[n][2], find_key(over, base.items[n][1]))>>
                     ELSE base.items[n]
    IN  CASE base.type = "TABLE" /\ over.type = "TABLE" ->
                Table([n \in 1..size(base) |-> Merged(n)] \o
                      SelectSeq(over.items, LAMBDA entry : ~Has(base, entry[1])))
          [] IsTables(base) /\ IsTables(over) -> Array(base.elements \o over.elements)
          [] OTHER -> over

load(disk, path) ==
    LET primary == load_one(disk.primary, path)
        user_override == load_one(disk.user, path)
    IN  CASE path \in Unclean -> [status |-> "INVALID_PATH"]
          [] path \notin Unclean /\ primary.status \notin {"OK", "NOT_FOUND"} ->
                [status |-> primary.status]
          [] OTHER ->
                IF user_override.status = "NOT_FOUND" THEN primary
                ELSE IF user_override.status # "OK" THEN [status |-> user_override.status]
                ELSE IF primary.status = "NOT_FOUND" THEN user_override
                ELSE [status |-> "OK", root |-> toml_merge(primary.root, user_override.root)]

------------------------------------------------------------------------------
(* Scalars as properties (properties.cpp). *)

valid_source_name(name) ==
    /\ name # <<>> /\ name[1] # "." /\ name[Len(name)] # "."
    /\ \A n \in 1..Len(name) : name[n] # " "
    /\ \A n \in 1..Len(name) - 1 : ~(name[n] = "." /\ name[n + 1] = ".")

qualified_name(source, local) ==
    IF local = <<>> THEN source ELSE source \o <<".">> \o local

scalar_value(value) == IF value.type \in Scalars THEN value ELSE Missing

(* Each leaf extends the result of the leaves before it; a failure ends it. *)
RECURSIVE collect_scalars(_, _, _, _)
collect_scalars(value, path, mutable_source, output) ==
    LET Child(n) == IF value.type = "TABLE"
                    THEN (IF path = <<>> THEN <<>> ELSE path \o <<".">>) \o key_at(value, n)
                    ELSE path \o <<"[" \o ToString(n) \o "]">>
        Item(n) == IF value.type = "TABLE" THEN value_at(value, n) ELSE at(value, n)
        RECURSIVE From(_, _)
        From(n, result) ==
            IF n = size(value) \/ result.status # "OK" THEN result
            ELSE From(n + 1, collect_scalars(Item(n), Child(n), mutable_source, result.values))
    IN  CASE value.type = "TABLE" \/ (value.type = "ARRAY" /\ ~mutable_source) ->
                From(0, [status |-> "OK", values |-> output])
          [] value.type = "ARRAY" /\ mutable_source ->
                [status |-> "UNSUPPORTED_VALUE", values |-> output]
          [] OTHER ->
                IF scalar_value(value) = Missing \/ path = <<>>
                THEN [status |-> "UNSUPPORTED_VALUE", values |-> output]
                ELSE IF path \in DOMAIN output
                THEN [status |-> "DUPLICATE_PROPERTY", values |-> output]
                ELSE [status |-> "OK", values |-> output @@ (path :> scalar_value(value))]

(* The variant's alternatives: both date-times are one. *)
same_type(left, right) ==
    LET Alternative(scalar) == IF scalar.type = "OFFSET_DATE_TIME" THEN "DATE_TIME"
                               ELSE scalar.type
    IN  Alternative(left) = Alternative(right)

Digits == <<"0", "1", "2", "3", "4", "5", "6", "7", "8", "9", "a", "b", "c", "d", "e", "f">>
Capitals == <<"A", "B", "C", "D", "E", "F">>
IsDigit(char, n) == char = Digits[n + 1] \/ (n > 9 /\ char = Capitals[n - 9])
IntegerLimit == 2 ^ (Width - 1)

(* from_chars over the whole text: no digits, a foreign character or a     *)
(* value at or above the bound is -1.                                      *)
RECURSIVE from_chars(_, _, _)
from_chars(text, base, bound) ==
    LET last == text[Len(text)]
        before == from_chars(SubSeq(text, 1, Len(text) - 1), base, bound)
        digit == CHOOSE n \in 0..base - 1 : IsDigit(last, n)
        Bounded(n) == IF n < bound THEN n ELSE -1
    IN  CASE text = <<>> -> -1
          [] text # <<>> /\ ~\E n \in 0..base - 1 : IsDigit(last, n) -> -1
          [] OTHER -> IF Len(text) = 1 THEN Bounded(digit)
                      ELSE IF before = -1 THEN -1 ELSE Bounded(before * base + digit)

(* A prefixed number has its own sign and limit; a plain one is read by    *)
(* from_chars whole, which takes "-" and not "+".                          *)
parse_integer(text) ==
    LET signed == text # <<>> /\ text[1] \in {"+", "-"}
        negative == text # <<>> /\ text[1] = "-"
        digits == SubSeq(text, IF signed THEN 2 ELSE 1, Len(text))
        base == IF Len(digits) < 2 \/ digits[1] # "0" THEN 10
                ELSE CASE digits[2] \in {"x", "X"} -> 16
                       [] digits[2] \in {"o", "O"} -> 8
                       [] digits[2] \in {"b", "B"} -> 2
                       [] OTHER -> 10
        limit == IF negative THEN IntegerLimit + 1 ELSE IntegerLimit
        magnitude == IF base # 10 THEN from_chars(SubSeq(digits, 3, Len(digits)), base, limit)
                     ELSE IF signed /\ ~negative THEN -1
                     ELSE from_chars(digits, 10, limit)
    IN  IF magnitude = -1 THEN Missing
        ELSE Number("INTEGER", IF negative THEN -magnitude ELSE magnitude)

(* A float's text in the model is a plain decimal. *)
parse_float(text) ==
    LET negative == text # <<>> /\ text[1] = "-"
        magnitude == from_chars(SubSeq(text, IF negative THEN 2 ELSE 1, Len(text)),
                                10, IntegerLimit)
    IN  IF magnitude = -1 THEN Missing
        ELSE Number("FLOAT", IF negative THEN -magnitude ELSE magnitude)

True == <<"t", "r", "u", "e">>
False == <<"f", "a", "l", "s", "e">>

(* The text read as the type the property already has. *)
parse_as(scalar, text) ==
    CASE scalar.type = "STRING" -> String(text)
      [] scalar.type = "INTEGER" -> parse_integer(text)
      [] scalar.type = "FLOAT" -> parse_float(text)
      [] scalar.type = "BOOLEAN" -> IF text = True THEN Boolean(TRUE)
                                    ELSE IF text = False THEN Boolean(FALSE)
                                    ELSE Missing
      [] OTHER -> Missing

RECURSIVE to_string(_)
to_string(n) ==
    IF n < 0 THEN <<"-">> \o to_string(-n)
    ELSE IF n < 10 THEN <<Digits[n + 1]>>
    ELSE to_string(n \div 10) \o <<Digits[(n % 10) + 1]>>

(* Strings are shown quoted and the other types by layouts of their own,   *)
(* which `config set` does not undo: their text is left out.               *)
scalar_text(scalar) ==
    CASE scalar.type = "INTEGER" -> to_string(scalar.number)
      [] scalar.type = "BOOLEAN" -> IF scalar.boolean THEN True ELSE False
      [] OTHER -> <<scalar.type>>
=============================================================================
