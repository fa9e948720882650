------------------------------- MODULE MCInput --------------------------------
(* What the user's input goes through behind the decoder, checked side by    *)
(* side: a behaviour is that of the one part chosen at the start, while the  *)
(* others rest.                                                              *)
EXTENDS InputStack, TLC

VARIABLES
  which,
  editor, given, quiet, settled,
  stack, screen, pty, layout, shown, events,
  map, sources

-----------------------------------------------------------------------------
(* A scalar of two bytes is typed; a paste may divide it and a CR LF between *)
(* its events. The viewport holds two cells, and the pointer leaves it.     *)

Editing == INSTANCE TextEditor WITH
  TabWidth <- 2, Fallback <- 3, ReservePlainEnter <- TRUE,
  Typed <- {<<195, 169>>}, Chunks <- {<<195>>, <<169, 13>>, <<10>>},
  Viewports <- {<<2, 1>>}, Cells <- {<<1, -1>>},
  MaxScalars <- 2, MaxLines <- 2, MaxPaste <- 3, MaxBefore <- 1, MaxPasted <- 2

\* Two commands, one of which is a prefix of the other.
Registered == <<<<"c">>, <<"c", "c">>>>

(* The smallest screen the frame accepts, and one with room for the session; *)
(* binary line numbers, so that the gutter grows at the second line.         *)

Drawing == INSTANCE Frames WITH
  kMinimumWidth <- 8, Radix <- 2, Fallback <- 4, Typed <- {<<97, 97>>, <<10>>},
  Screens <- {<<8, 5>>, <<9, 12>>}, Helps <- {0, 3}, MaxText <- 5, MaxBeside <- 1,
  MaxEvents <- 1, frame <- stack

-----------------------------------------------------------------------------
(* Bindings: two declarations in the universal document, one in each overlay, *)
(* a key of terminfo that may collide, and documents that cannot be used.     *)

(* Escape sequences that begin one another, bound by the universal bindings, *)
(* rebound or disabled by the system's and the terminal profile's, and files *)
(* that cannot be read.                                                      *)
Mapping(s, a) == [sequence |-> s, disabled |-> FALSE, action |-> a]
Off(s) == [sequence |-> s, disabled |-> TRUE, action |-> [kind |-> "none", name |-> "none"]]
TextAction == [kind |-> "protocol", name |-> "TEXT"]
Up == [kind |-> "key", name |-> "UP"]
Copy == [kind |-> "command", name |-> "COPY"]
Document(ms, keys) == [load |-> "OK", version |-> 1, mappings |-> ms, terminfo |-> keys]
Unread(load) == [Document(<<>>, <<>>) EXCEPT !.load = load]
Declared ==
  {Mapping(s, a) : s \in {<<"ESC">>, <<"CSI", "a">>, <<"b">>, <<"a", "b">>}, a \in {Up, Copy}}
    \cup {Off(<<"CSI", "a">>)}

Bindings == INSTANCE InputMap WITH
  Universals <- {Document(<<Mapping(<<>>, TextAction), m, n>>, <<Up>>) : m, n \in Declared}
                  \cup {Unread("PARSE_ERROR"), [Unread("OK") EXCEPT !.version = 2]},
  Systems <- {Document(<<m>>, <<>>) : m \in Declared}
               \cup {Document(<<>>, <<Up>>), Document(<<Mapping(<<"NO">>, Up)>>, <<>>)},
  Profiles <- {Document(<<m>>, <<>>) :
                 m \in {Mapping(<<"ESC">>, Up), Mapping(<<"a", "b">>, Copy), Off(<<"CSI", "a">>)}}
                \cup {Unread("NOT_FOUND"), Unread("IO_ERROR"), Document(<<Mapping(<<>>, Up)>>, <<>>)},
  Capability <- <<27, 91, 97>>,
  kMaximumConfiguredSequenceBytes <- 3, kLinearSearchMaximumChildren <- 1

-----------------------------------------------------------------------------
editingVars == <<editor, given, quiet, settled>>
drawingVars == <<stack, screen, pty, layout, shown, events>>
bindingVars == <<map, sources>>
allVars == <<which, editingVars, vars, drawingVars, bindingVars>>

Parts == {"editing", "modes", "drawing", "bindings"}

InputInit ==
  /\ which \in Parts
  /\ Editing!Init /\ Init /\ Bindings!Init
  /\ Drawing!Init /\ (which # "drawing" => screen = <<8, 5>>)

InputNext ==
  \/ /\ which = "editing" /\ Editing!Next
     /\ UNCHANGED <<which, vars, drawingVars, bindingVars>>
  \/ /\ which = "modes" /\ Next
     /\ UNCHANGED <<which, editingVars, drawingVars, bindingVars>>
  \/ /\ which = "drawing" /\ Drawing!Next
     /\ UNCHANGED <<which, editingVars, vars, bindingVars>>
  \/ /\ which = "bindings" /\ Bindings!Next
     /\ UNCHANGED <<which, editingVars, vars, drawingVars>>

InputSpec == InputInit /\ [][InputNext]_allVars

-----------------------------------------------------------------------------
(* Properties *)

(* A committed paste leaves in the buffer what its bytes would have left    *)
(* inserted at once, however the terminal divided it into chunks; and no    *)
(* caret is left outside the text.                                          *)
EditorSound == Editing!EditorSound

(* InputFrame is given the height it asks for and shows the whole text,     *)
(* unless it is at its maximum, where the text fills it.                    *)
WholeTextShown == Drawing!WholeTextShown

(* A click or a drag hits the characters the screen shows, through border,  *)
(* gutter, help rows and scroll position, and nothing else.                 *)
PointerHitsShown == Drawing!PointerHitsShown

(* A terminal on the screen has the size its shell was told, although the   *)
(* subsystem that tells it computes it apart from the frames.               *)
ShellSeesItsSize == Drawing!ShellSeesItsSize

(* In the map the decoder uses, no command's sequence begins another's,     *)
(* through every override and disabled entry, and every sequence has the    *)
(* action the last source to mention it declares.                           *)
MapSound == Bindings!MapSound

=============================================================================
