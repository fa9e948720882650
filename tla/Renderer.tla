------------------------------ MODULE Renderer ------------------------------
(***************************************************************************)
(* ParallelRenderer over a double-buffered Canvas.  Frames are drawn by    *)
(* jobs of an execution graph whose edges are the overlaps of the solved   *)
(* layout; the last frame to finish publishes or cancels the transaction.  *)
(* A frame writes its rectangle cell by cell, so that jobs that run at the *)
(* same time interleave.  The graph runs a job once its prerequisites have *)
(* run (external here, modelled by ExecutionGraph), and may fail to        *)
(* dispatch jobs.                                                          *)
(***************************************************************************)
EXTENDS LayoutSolver

CONSTANTS Scenes,      \* sequences of rectangles, back to front
          Width, Height, MaxRuns

VARIABLES canvas,      \* front and back buffers, frame_in_progress_
          context,     \* the RenderContext of the run
          graph,       \* cached topology and the jobs of the run
          shown        \* the picture the last successful run asked for

vars == <<canvas, context, graph, shown>>

Positions == (0 .. Width - 1) \X (0 .. Height - 1)
Base == 0
Blank == [p \in Positions |-> Base]

Idle == [active |-> FALSE, status |-> "OK", remaining |-> 0, published |-> FALSE,
         scene |-> <<>>, clears |-> TRUE, runs |-> 0]

NoTopology == [count |-> -1, dependencies |-> {}]

Init ==
  /\ canvas = [front |-> Blank, back |-> Blank, drawing |-> FALSE]
  /\ context = Idle
  /\ graph = [topology |-> NoTopology, todo |-> <<>>, done |-> {}, failed |-> FALSE]
  /\ shown = Blank

-----------------------------------------------------------------------------
(* The canvas.                                                             *)

begin_frame(c) == [c EXCEPT !.back = c.front, !.drawing = TRUE]
clear(c) == [c EXCEPT !.back = Blank]
end_frame(c) == [front |-> c.back, back |-> c.front, drawing |-> FALSE]
cancel_frame(c) == [c EXCEPT !.drawing = FALSE]

\* One cell of write_cells.
write_cells(c, position, color) == [c EXCEPT !.back[position] = color]

Covered(rect) ==
  {p \in Positions : \A i \in 1 .. 2 :
     rect[i].origin <= p[i] /\ p[i] < rect[i].origin + rect[i].extent}

-----------------------------------------------------------------------------
(* Starting a run.                                                         *)

\* A graph kept whenever the number of frames is unchanged.
prepare_graph_by_count(count, dependencies) ==
  IF graph.topology.count = count THEN graph.topology
  ELSE [count |-> count, dependencies |-> dependencies]

\* The graph is rebuilt when the frames or their overlaps changed.
prepare_graph(count, dependencies) ==
  IF graph.topology = [count |-> count, dependencies |-> dependencies]
  THEN graph.topology
  ELSE [count |-> count, dependencies |-> dependencies]

\* The jobs of the graph: one per frame, or the publication job 0.
Jobs(count) == IF count = 0 THEN {0} ELSE 1 .. count

\* The transaction of a run, cleared when the caller gave a base cell.
Begun(clears) == IF clears THEN clear(begin_frame(canvas)) ELSE begin_frame(canvas)

prepare(scene, clears) ==
  [active |-> TRUE, status |-> "OK", remaining |-> Len(scene), published |-> FALSE,
   scene |-> scene, clears |-> clears, runs |-> context.runs + 1]

start(scene, clears) ==
  LET frames == [i \in 1 .. Len(scene) |-> i]
      dependencies == build_frame_dependencies(frames, scene)
      todo == [j \in Jobs(Len(scene)) |->
                 IF j = 0 THEN {} ELSE Covered(scene[j])]
  IN  /\ ~context.active /\ context.runs < MaxRuns
      /\ context' = prepare(scene, clears)
      /\ canvas' = Begun(clears)
      /\ graph' = [topology |-> prepare_graph(Len(scene), dependencies),
                   todo |-> todo, done |-> {}, failed |-> FALSE]
      /\ UNCHANGED shown

\* ExecutionGraph::start is refused after the transaction was begun.
StartRefused(scene, clears) ==
  LET frames == [i \in 1 .. Len(scene) |-> i]
  IN  /\ ~context.active /\ context.runs < MaxRuns
      /\ context' = [Idle EXCEPT !.runs = context.runs + 1]
      /\ canvas' = cancel_frame(Begun(clears))
      /\ graph' = [topology |-> prepare_graph(Len(scene),
                                              build_frame_dependencies(frames, scene)),
                   todo |-> <<>>, done |-> {}, failed |-> FALSE]
      /\ UNCHANGED shown

-----------------------------------------------------------------------------
(* Running.                                                                *)

Runnable(j) ==
  /\ context.active
  /\ j \in DOMAIN graph.todo \ graph.done
  /\ \A e \in graph.topology.dependencies : e[2] = j => e[1] \in graph.done

\* A job that wrote part of its rectangle keeps running when dispatch fails.
Started(j) == context.scene # <<>> /\ graph.todo[j] # Covered(context.scene[j])

\* A frame writes one more cell of its rectangle.
Draw(j) ==
  /\ Runnable(j) /\ (graph.failed => Started(j))
  /\ \E p \in graph.todo[j] :
       /\ canvas' = write_cells(canvas, p, j)
       /\ graph' = [graph EXCEPT !.todo[j] = @ \ {p}]
  /\ UNCHANGED <<context, shown>>

\* Publish a successful transaction or cancel one containing an error.
publish(c) ==
  /\ canvas' = IF c.status = "OK" THEN end_frame(canvas) ELSE cancel_frame(canvas)
  /\ context' = [c EXCEPT !.published = TRUE]

\* The first failure is kept; the last frame publishes.
finish_frame(status) ==
  LET c == [context EXCEPT !.status = IF @ = "OK" THEN status ELSE @,
                           !.remaining = @ - 1]
  IN  IF c.remaining = 0 THEN publish(c) ELSE context' = c /\ UNCHANGED canvas

\* A frame job ends, having drawn its rectangle or failed on the way.
render(j, status) ==
  /\ Runnable(j) /\ j # 0
  /\ status = "OK" => graph.todo[j] = {}
  /\ graph.failed => Started(j)
  /\ finish_frame(status)
  /\ graph' = [graph EXCEPT !.done = @ \cup {j}]
  /\ UNCHANGED shown

\* The publication job of a layout without frames.
PublishJob ==
  /\ Runnable(0) /\ ~graph.failed
  /\ publish(context)
  /\ graph' = [graph EXCEPT !.done = @ \cup {0}]
  /\ UNCHANGED shown

\* The worker queue refuses further jobs of the run.
DispatchFails ==
  /\ context.active /\ ~graph.failed
  /\ graph.done # DOMAIN graph.todo
  /\ graph' = [graph EXCEPT !.failed = TRUE]
  /\ UNCHANGED <<canvas, context, shown>>

-----------------------------------------------------------------------------
(* Collecting the result.                                                  *)

\* Back-to-front painting of the scene, one frame after the other, over the
\* base cell or over the picture before.
Painted(scene, clears) ==
  [p \in Positions |->
     LET on == {j \in 1 .. Len(scene) : p \in Covered(scene[j])}
     IN  IF on = {} THEN (IF clears THEN Base ELSE shown[p])
         ELSE CHOOSE j \in on : \A k \in on : k <= j]

Quiesced == \A j \in DOMAIN graph.todo : j \in graph.done \/ (graph.failed /\ ~Started(j))

\* wait(): the graph has run every job.
WaitSucceeds ==
  /\ context.active /\ graph.done = DOMAIN graph.todo
  /\ shown' = IF context.status = "OK" THEN Painted(context.scene, context.clears) ELSE shown
  /\ context' = [Idle EXCEPT !.runs = context.runs]
  /\ UNCHANGED <<canvas, graph>>

\* wait(): the graph failed; an unpublished transaction is cancelled.
cancel_after_graph_failure ==
  /\ context.active /\ graph.failed
  /\ Quiesced /\ graph.done # DOMAIN graph.todo
  /\ canvas' = IF context.published THEN canvas ELSE cancel_frame(canvas)
  /\ context' = [Idle EXCEPT !.runs = context.runs]
  /\ UNCHANGED <<graph, shown>>

Next ==
  \/ \E scene \in Scenes, clears \in BOOLEAN : start(scene, clears)
  \/ \E scene \in Scenes, clears \in BOOLEAN : StartRefused(scene, clears)
  \/ \E j \in DOMAIN graph.todo : Draw(j)
  \/ \E j \in DOMAIN graph.todo, s \in {"OK", "FRAME_FAILED"} : render(j, s)
  \/ PublishJob
  \/ DispatchFails
  \/ WaitSucceeds
  \/ cancel_after_graph_failure

Spec == Init /\ [][Next]_vars

-----------------------------------------------------------------------------
(* What present() sends of the published canvas, and what a terminal makes *)
(* of it.                                                                  *)

\* The colours of a cell frame j drew; the character is the frame's number.
Colors(j) == <<j % 2, j \div 2>>

Command(name, value) == [name |-> name, value |-> value]

\* Colours are sent when none were sent yet or either one differs.
append_color(known, j) ==
  IF known = Colors(j) THEN <<>> ELSE <<Command("color", Colors(j))>>

\* The output for the cells from number n on, the colours known so far.
RECURSIVE RenderFrom(_, _, _)
RenderFrom(picture, n, known) ==
  LET x == n % Width
      y == n \div Width
      j == picture[<<x, y>>]
      row == IF x = 0 /\ y # 0 THEN <<Command("row", y)>> ELSE <<>>
  IN  IF n = Width * Height THEN <<Command("reset", 0)>>
      ELSE row \o append_color(known, j) \o <<Command("character", j)>>
           \o RenderFrom(picture, n + 1, Colors(j))

render_canvas(picture) == <<Command("home", 0)>> \o RenderFrom(picture, 0, <<>>)

\* A terminal: cursor position, colours in force, characters shown.
RECURSIVE Interpret(_, _)
Interpret(output, screen) ==
  IF output = <<>> THEN screen
  ELSE LET c == output[1]
           next == CASE c.name = "home" -> [screen EXCEPT !.at = <<0, 0>>]
                     [] c.name = "row" -> [screen EXCEPT !.at = <<0, c.value>>]
                     [] c.name = "color" -> [screen EXCEPT !.color = c.value]
                     [] c.name = "reset" -> [screen EXCEPT !.color = <<>>]
                     [] c.name = "character" ->
                          [screen EXCEPT !.cells[screen.at] = <<c.value, screen.color>>,
                                         !.at[1] = @ + 1]
       IN  Interpret(Tail(output), next)

Displayed(output) ==
  Interpret(output, [at |-> <<0, 0>>, color |-> <<>>,
                     cells |-> [q \in Positions |-> <<>>]]).cells

-----------------------------------------------------------------------------
\* Between runs the canvas holds the picture of the last run that succeeded,
\* as if its frames had been painted back to front one after the other, over
\* base cells or, without one, over the picture before, and no transaction is
\* open: jobs that draw in parallel never mix their cells,
\* and a failing frame or a failing graph publishes nothing of its run.  A
\* terminal that is sent the serialized canvas shows each cell's character
\* in that cell's colours.
PictureExact ==
  ~context.active =>
    /\ canvas.front = shown /\ ~canvas.drawing
    /\ Displayed(render_canvas(canvas.front)) =
         [q \in Positions |-> <<shown[q], Colors(shown[q])>>]
=============================================================================
