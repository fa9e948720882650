------------------------------ MODULE MCServices ------------------------------
(* What the terminal interface rests on, checked side by side: layout,       *)
(* rendering, selection, configuration and the byte streams. A behaviour is  *)
(* that of the one part chosen at the start, while the others rest.          *)
EXTENDS Selection, TLC

CONSTANTS Loaders    \* threads that load configuration

VARIABLES
  which,
  zbuffer, description, solved,
  canvas, context, graph, shown,
  disk, edits, sources, properties, loads, changed, reply, taking, taken, palette, written,
  pipe, open, shut, mutex, status, stopping, writer, reader, sent, delivered, sends, faults, clients,
  codecs, wire, data, outgoing, received, decoded, damaged

-----------------------------------------------------------------------------
(* Constraints on two frames that can be met, that conflict, that anchor the *)
(* frames to one another and that leave the range of std::size_t.            *)

Characters(t, v) == [type |-> t, unit |-> "CHARACTERS", value |-> v]
Percent(t, v) == [type |-> t, unit |-> "PERCENT", value |-> v]
Ratio(w, h) == [type |-> "ASPECT_RATIO", unit |-> "RATIO", value |-> <<w, h>>]
Anchor(t, v) == [type |-> t, unit |-> "NAME", value |-> v]

Placing == INSTANCE Layout WITH
  SizeMax <- 20, PercentOne <- 4, FrameIds <- {"a", "b"},
  Catalogue <-
    {Characters("MIN_WIDTH", 3), Characters("MIN_HEIGHT", 2), Percent("MAX_WIDTH", 2),
     Characters("MAX_HEIGHT", 2), Characters("LEFT_MARGIN", 1), Percent("RIGHT_MARGIN", 1),
     Percent("TOP_MARGIN", 5), Ratio(3, 2), Anchor("LEFT_ANCHOR", "a"),
     Anchor("RIGHT_ANCHOR", "b"), Characters("HORIZONTAL_CENTER", 20),
     Characters("BOTTOM_ANCHOR", 1), Anchor("TOP_ANCHOR", "b")},
  Screens <- {<<0, 3>>, <<4, 2>>, <<7, 5>>}, Cells <- {<<1, 2>>},
  MaxOrders <- 3, MaxRevision <- 5

\* Scenes of equal frame count but different overlap, and an empty frame.
Rect(x, y, w, h) == <<[origin |-> x, extent |-> w], [origin |-> y, extent |-> h]>>
Left == Rect(0, 0, 2, 1)
Right == Rect(1, 0, 2, 1)
Edge == Rect(2, 0, 1, 2)
Nothing == Rect(1, 0, 0, 1)

Painting == INSTANCE Renderer WITH
  SizeMax <- 20, PercentOne <- 4, Width <- 3, Height <- 2, MaxRuns <- 2,
  Scenes <- {<<>>, <<Left>>, <<Left, Right>>, <<Left, Edge>>, <<Left, Right, Edge>>,
             <<Edge, Left, Right>>, <<Nothing, Left, Edge>>}

\* Frames that overlap, disappear and cannot be selected.
Arrangements ==
  {[a |-> <<0, 2>>, b |-> <<1, 1>>], [a |-> <<0, 2>>], [b |-> <<0, 1>>, c |-> <<1, 1>>]}
BackToFront == <<"a", "b", "c">>

-----------------------------------------------------------------------------
(* Two sources, each with a shipped file and a user's: values of another     *)
(* type, keys that vanish, nested tables, names that collide once flattened, *)
(* roots that are missing and files that do not parse.                       *)

Integer(n) == [type |-> "INTEGER", number |-> n]
Flag(b) == [type |-> "BOOLEAN", boolean |-> b]
List(values) == [type |-> "ARRAY", elements |-> values]
Table(entries) == [type |-> "TABLE", items |-> entries]
File(entries) == [status |-> "OK", root |-> Table(entries)]
Unread(problem) == [status |-> problem]
NoRoot == [kind |-> "missing"]
Root(x, y) == [kind |-> "directory", files |-> [x |-> x, y |-> y]]
Request(n, p, m) == [name |-> n, path |-> p, mutability |-> m]

Small == File(<< << <<"p">>, Integer(3)>>, << <<"q">>, Integer(1)>> >>)
Retyped == File(<< << <<"p">>, [type |-> "STRING", text |-> <<"z">>]>>,
                   << <<"q">>, Integer(-8)>> >>)
Users == File(<< << <<"p">>, Integer(1)>>, << <<"q">>, List(<<Integer(1)>>)>> >>)
Nested == File(<< << <<"a">>, Table(<< << <<"b">>, Flag(TRUE)>> >>)>>,
                  << <<"c">>, List(<<Integer(1), Integer(2)>>)>> >>)
Colliding == File(<< << <<"a">>, Table(<< << <<"b">>, Integer(7)>> >>)>>,
                     << <<"a", ".", "b">>, Integer(1)>> >>)
NoFile == Unread("NOT_FOUND")

Settings == INSTANCE Properties WITH
  Width <- 4, Unclean <- {".."},
  Requests <- {Request(<<"t">>, "x", "USER_MUTABLE"), Request(<<"t">>, "y", "IMMUTABLE"),
               Request(<<"t", ".", "a">>, "x", "IMMUTABLE"),
               Request(<<".">>, "x", "IMMUTABLE"), Request(<<"u">>, "..", "IMMUTABLE")},
  Disks <- {[primary |-> Root(Small, Nested), user |-> Root(NoFile, NoFile)],
            [primary |-> Root(Retyped, Nested), user |-> NoRoot],
            [primary |-> Root(Small, Colliding), user |-> Root(Users, NoFile)],
            [primary |-> NoRoot, user |-> Root(Users, Unread("PARSE_ERROR"))],
            [primary |-> Root(Retyped, Nested), user |-> Root(Small, NoFile)]},
  Names <- {<<"t", ".", "p">>, <<"t", ".", "q">>},
  Texts <- {<<"+", "0", "X", "7">>, <<"9">>},
  Theme <- <<"t">>, Colors <- << <<"p">>, <<"q">> >>, ColorMax <- 6, MaxEdits <- 1

-----------------------------------------------------------------------------
\* Two writers at one end of a socket and one at the other; a frame too long.
Transport == INSTANCE Streams WITH
  Kind <- "SOCKET", Writers <- {"a1", "a2", "b1"},
  EndOf <- [a1 |-> "a", a2 |-> "a", b1 |-> "b"],
  Bodies <- {<<0, 2>>, <<1, 1, 1, 1>>}, Base <- 3, maximum_message_bytes <- 3,
  Capacity <- 2, MaxSends <- 3, MaxFaults <- 1, MaxClients <- 2

(* One message of every type, with the extremes of its integers and of its   *)
(* UTF-8 and a position too far to send, under a minimal and a full envelope,*)
(* and after any of them a short one.                                        *)

Input(v) == [id |-> "TERMINAL_INPUT_EVENT", value |-> v]
Key(named, key, mods, action, shifted, base, text) ==
  Input([type |-> "KEY", named |-> named, key |-> key, modifiers |-> mods, action |-> action,
         shifted_key |-> shifted, base_layout_key |-> base, text |-> text])
Command(v) == [id |-> "SCREEN_COMMAND", value |-> v]
Notification(t) == [id |-> "CMD_FRAME_NOTIFICATION",
                    value |-> [type |-> "NOTIFICATION", text |-> t]]

Samples == {
  Key(TRUE, 110, 255, "RELEASE", <<>>, <<>>, <<>>),
  Key(FALSE, 1114111, 0, "REPEAT", <<55295>>, <<57344>>, <<195, 169>>),
  Key(FALSE, 97, 1, "PRESS", <<65>>, <<>>, <<65>>),
  Input([type |-> "TEXT", utf8 |-> <<240, 144, 128, 128>>]),
  Input([type |-> "MOUSE", x |-> <<0, -1>>, y |-> <<0, 70000>>, button |-> "AUXILIARY_4", action |-> "DRAG",
         modifiers |-> 255]),
  Input([type |-> "MOUSE", x |-> <<0, 0>>, y |-> <<1, 0>>, button |-> "NONE", action |-> "MOVE",
         modifiers |-> 0]),
  Input([type |-> "SCROLL", x |-> <<0, 0>>, y |-> <<0, 1>>, delta_x |-> -1, delta_y |-> -70000,
         modifiers |-> 4]),
  Input([type |-> "PASTE", phase |-> "CANCEL", data |-> <<>>]),
  Input([type |-> "PASTE", phase |-> "DATA", data |-> <<255, 0>>]),
  Input([type |-> "FOCUS", focused |-> TRUE]),
  Input([type |-> "CLIPBOARD", selection |-> "PRIMARY", data |-> <<0>>]),
  Input([type |-> "COMMAND", command |-> "MOVE_PAGE_DOWN"]),
  Input([type |-> "RESPONSE", kind |-> "DEVICE_CONTROL_STRING", value |-> -2, bytes |-> <<27>>]),
  Input([type |-> "UNKNOWN", reason |-> "LIMIT_EXCEEDED", bytes |-> <<>>]),
  Command([type |-> "TAKE", initial_bytes |-> <<27>>, final_bytes |-> <<>>]),
  Command([type |-> "RELEASE"]), Command([type |-> "PRESENT", bytes |-> <<1, 2>>]),
  Command([type |-> "SET_CLIPBOARD", selection |-> "CLIPBOARD", text |-> <<>>]),
  [id |-> "SCREEN_RESIZE_EVENT",
   value |-> [type |-> "RESIZE", width |-> 1, height |-> -1, pixel_width |-> 0,
              pixel_height |-> 300]],
  Notification(<<>>), Notification(<<65>>), Notification(<<237, 159, 191>>),
  [id |-> "NULL_MESSAGE", value |-> [type |-> "NULL"]]}

Envelope(session, time, part, extension, channel, checked) ==
  [session_id |-> session, timestamp |-> time, multipart |-> part, extension |-> extension,
   channel_id |-> channel, include_checksum |-> checked]

Encoding == INSTANCE Wire WITH
  maximum_payload_bytes <- 40, NamedKeys <- 111, Values <- Samples,
  Followers <- {Notification(<<65>>)}, MaxMessages <- 2,
  Headers <- {Envelope(<<>>, <<>>, <<>>, <<>>, 1, FALSE),
              Envelope(<<<<7>>>>, <<<<1, -1>>>>, <<<<-1, 2>>>>, <<9>>, -1, TRUE)},
  Damages <- {0, 1, 8, 255}, sent <- outgoing, status <- decoded

-----------------------------------------------------------------------------
ASSUME SelectionAssumption

placingVars == <<zbuffer, description, solved>>
paintingVars == <<canvas, context, graph, shown>>
settingsVars ==
  <<disk, edits, sources, properties, loads, changed, reply, taking, taken, palette, written>>
transportVars ==
  <<pipe, open, shut, mutex, status, stopping, writer, reader, sent, delivered, sends, faults, clients>>
encodingVars == <<codecs, wire, data, outgoing, received, decoded, damaged>>
allVars == <<which, placingVars, paintingVars, selectionVars, settingsVars, transportVars,
             encodingVars>>

Parts == {"placing", "painting", "pointing", "settings", "transport", "encoding"}

ServicesInit ==
  /\ which \in Parts
  /\ Placing!Init /\ Painting!Init /\ Transport!Init /\ Encoding!Init
  /\ SelectionInit /\ (which # "pointing" => layout = [a |-> <<0, 2>>])
  /\ Settings!Init /\ (which # "settings" => disk.user = NoRoot)

ServicesNext ==
  \/ /\ which = "placing" /\ Placing!Next
     /\ UNCHANGED <<which, paintingVars, selectionVars, settingsVars, transportVars, encodingVars>>
  \/ /\ which = "painting" /\ Painting!Next
     /\ UNCHANGED <<which, placingVars, selectionVars, settingsVars, transportVars, encodingVars>>
  \/ /\ which = "pointing" /\ SelectionNext
     /\ UNCHANGED <<which, placingVars, paintingVars, settingsVars, transportVars, encodingVars>>
  \/ /\ which = "settings" /\ Settings!Next
     /\ UNCHANGED <<which, placingVars, paintingVars, selectionVars, transportVars, encodingVars>>
  \/ /\ which = "transport" /\ Transport!Next
     /\ UNCHANGED <<which, placingVars, paintingVars, selectionVars, settingsVars, encodingVars>>
  \/ /\ which = "encoding" /\ Encoding!Next
     /\ UNCHANGED <<which, placingVars, paintingVars, selectionVars, settingsVars, transportVars>>

ServicesSpec == ServicesInit /\ [][ServicesNext]_allVars

-----------------------------------------------------------------------------
(* Properties, each of the part whose behaviour it is: the others rest.      *)

(* A layout from the caches is the one its description means when nothing    *)
(* is cached; its frames lie on the screen and have their minimum sizes if   *)
(* the screen has the minimum dimensions the solver asks for.                *)
LayoutSound == which = "placing" => Placing!LayoutSound

(* Between runs the canvas shows the frames of the last successful run as if *)
(* painted back to front, although jobs draw in parallel and frames fail.    *)
PictureExact == which = "painting" => Painting!PictureExact

(* What the user set is what is read, however sources are loaded and         *)
(* reloaded in between, and nothing else counts as modified; an integer or a *)
(* boolean shown is read back as itself when it is typed in; the theme has   *)
(* every colour or none.                                                     *)
SettingsSound == which = "settings" => Settings!SettingsSound

(* An endpoint receives the first messages its peer sent over the            *)
(* connection, whole and in order, whatever writes fail or interleave.       *)
FramesWhole == which = "transport" => Transport!FramesWhole

(* While no byte is damaged, what is decoded is what was sent, in order and  *)
(* without a gap, and nothing is refused but for want of bytes.              *)
Delivered == which = "encoding" => Encoding!Delivered

(* Whatever the bytes, a message that is accepted is the one that encodes to *)
(* the bytes it consumed.                                                    *)
Canonical == [][Encoding!CanonicalStep]_allVars

=============================================================================
