------------------------------ MODULE Properties ------------------------------
(***************************************************************************)
(* The property service of src/properties/properties.cpp, the commands     *)
(* that read and change it (src/commands/config.cpp) and the theme that is *)
(* taken from it (src/themes).                                             *)
(*                                                                         *)
(* A source is registered in three steps: a look under the shared lock, a  *)
(* read of the disk with no lock held, and an installation under the       *)
(* exclusive lock.  Loaders interleave with each other, with the commands  *)
(* and with edits of the files.  get, list, set and reload hold the lock   *)
(* for their whole run and are one step each; `config set` sets and then   *)
(* gets, and a theme gets its colours one by one, so that others come in   *)
(* between.  `written` records the last value the user set for each name,  *)
(* for as long as the documents still hold a value of that type.           *)
(***************************************************************************)
EXTENDS Configuration
CONSTANTS Loaders,    \* threads that register sources
          Requests,   \* what they register: [name, path, mutability]
          Disks,      \* what the two roots can hold
          Names,      \* property names the user types
          Texts,      \* values the user types
          Theme,      \* the theme's source name
          Colors,     \* the colour names a palette must have, in their order
          ColorMax,   \* the largest colour, 0xffffff in the code
          MaxEdits    \* edits of the files
VARIABLES disk, edits, sources, properties, loads,
          changed,    \* the name a `config set` has set and is about to get
          reply,      \* the status of the last command
          taking,     \* whether a theme is being applied
          taken,      \* the colours it has so far
          palette,    \* the theme's colours, and how its last apply ended
          written
vars == <<disk, edits, sources, properties, loads, changed, reply, taking, taken, palette,
          written>>
service == <<sources, properties, written>>
command == <<changed, reply>>
theme == <<taking, taken, palette>>

Empty == [name \in {} |-> Missing]
NoLoad == [pc |-> "idle"]

Init ==
    /\ disk \in Disks /\ edits = 0
    /\ sources = Empty /\ properties = Empty
    /\ loads = [l \in Loaders |-> NoLoad]
    /\ changed = <<>> /\ reply = "OK"
    /\ taking = FALSE /\ taken = <<>> /\ palette = [status |-> "OK", colors |-> <<>>]
    /\ written = Empty

read_source(request) ==
    LET Source(root, collected) ==
          IF collected.status # "OK" THEN [status |-> collected.status]
          ELSE [status |-> "OK",
                source |-> [path |-> request.path, mutability |-> request.mutability,
                            document |-> root, values |-> collected.values,
                            user_modified |-> {}]]
        Collected(loaded) ==
          IF loaded.status # "OK" THEN [status |-> loaded.status]
          ELSE Source(loaded.root, collect_scalars(loaded.root, <<>>,
                                                   request.mutability = "USER_MUTABLE", Empty))
    IN  Collected(load(disk, request.path))

(* A name two sources both give is an error and yields no index. *)
build_index(candidates) ==
    LET Leaves == UNION {{<<name, local>> : local \in DOMAIN candidates[name].values} :
                         name \in DOMAIN candidates}
        Named(full) == {leaf \in Leaves : qualified_name(leaf[1], leaf[2]) = full}
        Indexed(leaf) ==
            [value |-> candidates[leaf[1]].values[leaf[2]],
             mutability |-> candidates[leaf[1]].mutability,
             user_modified |-> leaf[2] \in candidates[leaf[1]].user_modified,
             source |-> leaf[1], local_name |-> leaf[2]]
        Full == {qualified_name(leaf[1], leaf[2]) : leaf \in Leaves}
    IN  IF \E full \in Full : Cardinality(Named(full)) > 1
        THEN [status |-> "DUPLICATE_PROPERTY", index |-> Empty]
        ELSE [status |-> "OK",
              index |-> [full \in Full |-> Indexed(CHOOSE leaf \in Named(full) : TRUE)]]

(* Registered before: fine when it is the same registration. *)
Existing(request) ==
    IF /\ sources[request.name].mutability = request.mutability
       /\ sources[request.name].path = request.path
    THEN "OK" ELSE "DUPLICATE_SOURCE"

Answer(l, status) == loads' = [loads EXCEPT ![l] = [pc |-> "done", status |-> status]]

Check(l, request) ==
    /\ loads[l].pc = "idle"
    /\ IF ~valid_source_name(request.name) THEN Answer(l, "INVALID_PATH")
       ELSE IF request.name \in DOMAIN sources THEN Answer(l, Existing(request))
       ELSE loads' = [loads EXCEPT ![l] = [pc |-> "read", request |-> request]]
    /\ UNCHANGED <<disk, edits, service, command, theme>>

Read(l) ==
    /\ loads[l].pc = "read"
    /\ \E result \in {read_source(loads[l].request)} :
          IF result.status # "OK" THEN Answer(l, result.status)
          ELSE loads' = [loads EXCEPT ![l] = [pc |-> "install", request |-> loads[l].request,
                                              source |-> result.source]]
    /\ UNCHANGED <<disk, edits, service, command, theme>>

(* Installs without looking again. *)
Install_unchecked(l) ==
    /\ loads[l].pc = "install"
    /\ \E candidates \in {(loads[l].request.name :> loads[l].source) @@ sources} :
       \E built \in {build_index(candidates)} :
          /\ Answer(l, built.status)
          /\ IF built.status = "OK"
             THEN sources' = candidates /\ properties' = built.index
             ELSE UNCHANGED <<sources, properties>>
    /\ UNCHANGED <<disk, edits, written, command, theme>>

Install(l) ==
    /\ loads[l].pc = "install"
    /\ IF loads[l].request.name \in DOMAIN sources
       THEN Answer(l, Existing(loads[l].request)) /\ UNCHANGED <<sources, properties>>
       ELSE \E candidates \in {(loads[l].request.name :> loads[l].source) @@ sources} :
            \E built \in {build_index(candidates)} :
               /\ Answer(l, built.status)
               /\ IF built.status = "OK"
                  THEN sources' = candidates /\ properties' = built.index
                  ELSE UNCHANGED <<sources, properties>>
    /\ UNCHANGED <<disk, edits, written, command, theme>>

load_source(l) ==
    \/ \E request \in Requests : Check(l, request)
    \/ Read(l)
    \/ Install(l)

get(name) == IF name \in DOMAIN properties THEN "OK" ELSE "NOT_FOUND"

set(name, text) ==
    LET Refused(status) == [status |-> status, sources |-> sources, properties |-> properties]
        indexed == properties[name]
        Stored(next) ==
          IF next = Missing THEN Refused("INVALID_VALUE")
          ELSE [status |-> "OK",
                sources |-> [sources EXCEPT
                    ![indexed.source].values[indexed.local_name] = next,
                    ![indexed.source].user_modified = @ \cup {indexed.local_name}],
                properties |-> [properties EXCEPT ![name].value = next,
                                                  ![name].user_modified = TRUE]]
    IN  IF name \notin DOMAIN properties THEN Refused("NOT_FOUND")
        ELSE IF indexed.mutability # "USER_MUTABLE" THEN Refused("IMMUTABLE_PROPERTY")
        ELSE Stored(parse_as(indexed.value, text))

(* A user's value stays where the fresh document has one of its type. *)
Reloaded(name) ==
    LET Kept(source, fresh) ==
          {local \in source.user_modified :
              /\ source.mutability = "USER_MUTABLE"
              /\ local \in DOMAIN fresh.values
              /\ same_type(source.values[local], fresh.values[local])}
        Merged(source, fresh, kept) ==
          [fresh EXCEPT !.user_modified = kept,
                        !.values = [local \in DOMAIN fresh.values |->
                                       IF local \in kept THEN source.values[local]
                                       ELSE fresh.values[local]]]
        Of(source, fresh) ==
          IF fresh.status # "OK" THEN fresh
          ELSE [status |-> "OK",
                source |-> Merged(source, fresh.source, Kept(source, fresh.source))]
    IN  Of(sources[name], read_source([name |-> name, path |-> sources[name].path,
                                       mutability |-> sources[name].mutability]))

(* Nothing is replaced unless every source reads and the index builds. *)
reload ==
    LET Refused(status) == [status |-> status, sources |-> sources, properties |-> properties]
        Installed(fresh, built) ==
          IF built.status # "OK" THEN {Refused(built.status)}
          ELSE {[status |-> "OK", sources |-> fresh, properties |-> built.index]}
        Indexed(fresh) == Installed(fresh, build_index(fresh))
        Of(candidates, failed) ==
          IF failed # {} THEN {Refused(candidates[name].status) : name \in failed}
          ELSE Indexed([name \in DOMAIN sources |-> candidates[name].source])
        Checked(candidates) ==
          Of(candidates, {name \in DOMAIN sources : candidates[name].status # "OK"})
    IN  Checked([name \in DOMAIN sources |-> Reloaded(name)])

command_status(status) ==
    CASE status = "OK" -> "OK"
      [] status \in {"NOT_FOUND", "INVALID_PATH", "IMMUTABLE_PROPERTY", "UNSUPPORTED_VALUE",
                     "INVALID_VALUE"} -> "INVALID_ARGUMENT"
      [] OTHER -> "INTERNAL_ERROR"

(* The `config` command.  What it publishes is left out, and so is `config *)
(* list`, which always succeeds.                                           *)

ConfigGet ==
    /\ \E name \in Names : reply' = command_status(get(name))
    /\ UNCHANGED <<disk, edits, loads, service, changed, theme>>

(* Bound: one command at a time is between its set and its get. *)
ConfigSet ==
    \E name \in Names, text \in Texts :
    \E result \in {set(name, text)} :
        /\ changed = <<>>
        /\ sources' = result.sources /\ properties' = result.properties
        /\ IF result.status = "OK"
           THEN /\ changed' = <<name>> /\ UNCHANGED reply
                /\ written' = (name :> result.properties[name].value) @@ written
           ELSE /\ reply' = command_status(result.status)
                /\ UNCHANGED <<changed, written>>
        /\ UNCHANGED <<disk, edits, loads, theme>>

ConfigSetAnswers ==
    /\ changed # <<>>
    /\ reply' = command_status(get(changed[1])) /\ changed' = <<>>
    /\ UNCHANGED <<disk, edits, loads, service, theme>>

ConfigReload ==
    \E result \in reload :
        /\ sources' = result.sources /\ properties' = result.properties
        /\ reply' = command_status(result.status)
        /\ written' = [name \in {n \in DOMAIN written :
                                    /\ n \in DOMAIN result.properties
                                    /\ same_type(result.properties[n].value, written[n])} |->
                          written[name]]
        /\ UNCHANGED <<disk, edits, loads, changed, theme>>

(* Initialization and every start apply the theme once it is registered. *)
ThemeStart ==
    /\ Theme \in DOMAIN sources
    /\ ~taking /\ taking' = TRUE
    /\ UNCHANGED <<disk, edits, loads, service, command, taken, palette>>

(* The next colour is got.  The first that is absent or no colour ends it; *)
(* the palette is replaced with the last.                                  *)
apply ==
    LET name == Theme \o <<".">> \o Colors[Len(taken) + 1]
        Fits(scalar) == scalar.type = "INTEGER" /\ scalar.number \in 0..ColorMax
        Ended(result) == palette' = result /\ taking' = FALSE /\ taken' = <<>>
        Refused(status) == Ended([palette EXCEPT !.status = status])
        Taken(colors) == IF Len(colors) = Len(Colors)
                         THEN Ended([status |-> "OK", colors |-> colors])
                         ELSE taken' = colors /\ UNCHANGED <<taking, palette>>
    IN
    /\ taking
    /\ IF name \notin DOMAIN properties THEN Refused("MISSING_COLOR")
       ELSE IF ~Fits(properties[name].value) THEN Refused("INVALID_COLOR")
       ELSE Taken(Append(taken, properties[name].value.number))
    /\ UNCHANGED <<disk, edits, loads, service, command>>

Edit ==
    /\ edits < MaxEdits
    /\ disk' \in Disks /\ edits' = edits + 1
    /\ UNCHANGED <<loads, service, command, theme>>

Next ==
    \/ \E l \in Loaders : load_source(l)
    \/ ConfigGet \/ ConfigSet \/ ConfigSetAnswers \/ ConfigReload
    \/ ThemeStart \/ apply
    \/ Edit

Spec == Init /\ [][Next]_vars

(* What a user set is what is read, however sources are loaded and         *)
(* reloaded in between, and nothing else counts as modified: set writes    *)
(* the index and the source, and reload rebuilds the one from the other.   *)
SetSurvives ==
    /\ \A name \in DOMAIN written :
          /\ name \in DOMAIN properties
          /\ properties[name].user_modified /\ properties[name].value = written[name]
    /\ \A name \in DOMAIN properties :
          properties[name].user_modified => name \in DOMAIN written

(* An integer or a boolean, as `config get` shows it and typed back into   *)
(* `config set`, is the same value, the smallest integer included:         *)
(* scalar_text and parse_integer agree at both ends of the range.  Of a    *)
(* string this does not hold: it is shown quoted and set as typed.         *)
ShownReadsBack ==
    \A name \in DOMAIN properties :
        properties[name].value.type \in {"INTEGER", "BOOLEAN"} =>
            parse_as(properties[name].value, scalar_text(properties[name].value))
                = properties[name].value

(* The theme has every colour or none, and only colours, although others   *)
(* set and reload between the colours apply takes.                         *)
PaletteWhole ==
    palette.colors # <<>> =>
        /\ Len(palette.colors) = Len(Colors)
        /\ \A n \in DOMAIN palette.colors : palette.colors[n] \in 0..ColorMax

(* Values that were set survive, integers and booleans shown can be typed  *)
(* back, and the theme is whole.                                           *)
SettingsSound == SetSurvives /\ ShownReadsBack /\ PaletteWhole

=============================================================================
