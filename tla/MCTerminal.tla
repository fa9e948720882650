------------------------------ MODULE MCTerminal ------------------------------
(* The terminal's input and its ownership, and the pipeline that runs        *)
(* submitted Turns, checked side by side with what must eventually happen: a *)
(* behaviour is that of the one part chosen at the start, while the others   *)
(* rest.                                                                     *)
EXTENDS TerminalInput, Screen, TurnPipeline, TLC

VARIABLE which

-----------------------------------------------------------------------------
(* Terminal input: a few bindings of every protocol, the reports of a        *)
(* keyboard and a pointer, and what can be put together from short pieces,   *)
(* whole and truncated.                                                      *)

Press(k) == EventAction(Key(<<k>>, [modifiers |-> 0, action |-> "PRESS"]))
Enter(p) == EnterInputProtocol(p)
PasteBegin == <<27, 91, 34>>
PasteEnd == <<27, 91, 35>>

MCMappings ==
  <<>> :> Enter("TEXT") @@ <<13>> :> Press("ENTER") @@ <<27>> :> Enter("ESCAPE")
  @@ <<27, 58>> :> Press("COMMAND") @@ <<27, 79>> :> Enter("SS3")
  @@ <<27, 79, 80>> :> Press("F1") @@ <<27, 91>> :> Enter("CSI")
  @@ <<27, 93>> :> Enter("OSC") @@ <<27, 80>> :> Enter("DEVICE_CONTROL_STRING")
  @@ <<27, 91, 60>> :> Enter("SGR_MOUSE") @@ <<27, 93, 53, 50, 59>> :> Enter("OSC52")
  @@ PasteBegin :> Enter("PASTE_BEGIN") @@ PasteEnd :> Enter("PASTE_END")
  @@ <<27, 91, 65>> :> Press("UP")

MCDisabled == {<<27, 91, 90>>}

Modified(m) == [modifiers |-> m, action |-> "PRESS"]

MCReports ==
  <<27, 91, 57, 55, 117>> :> Key(<<"CHARACTER", 97>>, Modified(0))
  @@ <<27, 91, 57, 59, 50, 53, 54, 117>> :> Key(<<"TAB">>, Modified(255))
  @@ <<27, 91, 51, 59, 50, 58, 51, 126>> :>
       Key(<<"DELETE">>, [modifiers |-> 1, action |-> "RELEASE"])
  @@ <<27, 91, 49, 59, 53, 65>> :> Key(<<"UP">>, Modified(4))
  @@ <<27, 91, 60, 48, 59, 49, 59, 50, 77>> :>
       [type |-> "mouse", place |-> [x |-> 0, y |-> 1], modifiers |-> 0,
        button |-> <<"LEFT">>, action |-> "PRESS"]
  @@ <<27, 91, 60, 54, 53, 59, 50, 59, 49, 77>> :>
       [type |-> "scroll", place |-> [x |-> 1, y |-> 0], modifiers |-> 0, delta |-> <<0, -1>>]
  @@ build_clipboard_write("PRIMARY", <<1, 255>>) :>
       [type |-> "clipboard", data |-> <<1, 255>>, selection |-> "PRIMARY"]

Pieces ==
  {<<97>>, <<195, 169>>, <<195>>, <<27>>, <<13>>, <<27, 58>>, <<27, 79>>, <<27, 79, 80>>,
   <<27, 91>>, <<27, 91, 90>>, <<27, 91, 57>>, <<27, 93, 49, 7>>, <<27, 93, 49>>,
   <<27, 92>>, <<27, 80, 49>>, PasteBegin, PasteEnd}

Followers ==
  {<<97>>, <<195>>, <<27>>, <<27, 91>>, <<27, 92>>, PasteBegin, PasteEnd}

MCInputs ==
  DOMAIN MCReports \cup {a \o b : a \in Pieces, b \in Followers}
    \cup {PasteBegin \o a \o PasteEnd \o <<97>> : a \in Pieces}

-----------------------------------------------------------------------------
\* Two independent stages of the pipeline and one that needs both.
Branches == "persist" :> {} @@ "update" :> {} @@ "commit" :> {"persist", "update"}
Stages == DOMAIN Branches

-----------------------------------------------------------------------------
ASSUME ScreenAssumption /\ PipelineAssumption

allVars == <<which, inputVars, screenVars, vars>>

Parts == {"input", "ownership", "pipeline"}

TerminalInit ==
  /\ which \in Parts
  /\ InputInit /\ (which # "input" => input = <<97, 97>>)
  /\ ScreenInit /\ (which # "ownership" => tty.size = 1)
  /\ Init

TerminalNext ==
  \/ which = "input" /\ InputNext /\ UNCHANGED <<which, screenVars, vars>>
  \/ which = "ownership" /\ ScreenNext /\ UNCHANGED <<which, inputVars, vars>>
  \/ which = "pipeline" /\ Next /\ UNCHANGED <<which, inputVars, screenVars>>

(* Time passes, the event loop keeps polling and drawing, workers deliver    *)
(* what is queued, and no thread stops between two steps.                    *)
TerminalFairness ==
  /\ WF_inputVars(which = "input" /\ Elapse)
  /\ WF_inputVars(which = "input" /\ resolve_decoder_timeout)
  /\ WF_screenVars(which = "ownership" /\ Worker)
  /\ WF_screenVars(which = "ownership" /\ receive_resize_event)
  /\ WF_screenVars(which = "ownership" /\ draw)
  /\ WF_screenVars(which = "ownership" /\ (terminal_stop \/ close_channels))
  /\ \A r \in Runs : WF_vars(which = "pipeline" /\ SubmitterStep(r))
  /\ \A w \in Workers : WF_vars(which = "pipeline" /\ WorkerStep(w))
  /\ WF_vars(which = "pipeline" /\ Drain)

TerminalSpec == TerminalInit /\ [][TerminalNext]_allVars /\ TerminalFairness

=============================================================================
