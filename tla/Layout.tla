------------------------------- MODULE Layout -------------------------------
(***************************************************************************)
(* A LayoutDescription: the Z-buffer that orders its frames, their         *)
(* constraints, and the two caches of compute_absolute_layout, the order   *)
(* in which named anchors resolve and the last absolute layout, both keyed *)
(* by revision counters.  The application edits the description and solves *)
(* it again for every screen it meets; solved is the AbsoluteLayout just   *)
(* computed, with the description and the screen it was computed for.      *)
(***************************************************************************)
EXTENDS LayoutSolver

CONSTANTS FrameIds,     \* the frames of the application
          Catalogue,    \* the constraints it may add
          Screens, Cells,
          MaxOrders, MaxRevision

VARIABLES zbuffer, description, solved

vars == <<zbuffer, description, solved>>

NoLayout == [status |-> "none"]

Init ==
  /\ zbuffer = [frames |-> <<>>, revision |-> 0]
  /\ description = [constraints |-> <<>>, revision |-> 0, order |-> NoLayout,
                    cached |-> NoLayout]
  /\ solved = NoLayout

Holds(id) == \E i \in 1 .. Len(zbuffer.frames) : zbuffer.frames[i] = id

Without(id) == SelectSeq(zbuffer.frames, LAMBDA f : f # id)

Reordered(frames) == [frames |-> frames, revision |-> zbuffer.revision + 1]

\* An edit that leaves the revision and the caches as they are.
Constrained_silently(constraints) ==
  [description EXCEPT !.constraints = constraints]

\* A description whose constraints changed: a new revision and no caches.
Constrained(constraints) ==
  [constraints |-> constraints, revision |-> description.revision + 1,
   order |-> NoLayout, cached |-> NoLayout]

-----------------------------------------------------------------------------
(* Editing.  An operation that is refused changes nothing.                 *)

\* ZBuffer::add and the entry for the frame's constraints, which are the old
\* ones when a frame of that id was removed before.
add_frame_to_layout_description(id) ==
  /\ ~Holds(id)
  /\ zbuffer.revision < MaxOrders
  /\ zbuffer' = Reordered(Append(zbuffer.frames, id))
  /\ description' = Constrained(IF id \in DOMAIN description.constraints
                                THEN description.constraints
                                ELSE With(description.constraints, id, {}))
  /\ solved' = NoLayout

add_constraint_to_frame(id, c) ==
  /\ Holds(id)
  /\ validate_constraint(c) = "OK"
  /\ \A e \in description.constraints[id] : ~Conflicting(c, e)
  /\ description.revision < MaxRevision
  /\ description' =
       Constrained([description.constraints EXCEPT ![id] = @ \cup {c}])
  /\ solved' = NoLayout
  /\ UNCHANGED zbuffer

\* Only the Z-buffer forgets the frame.
remove(id) ==
  /\ Holds(id)
  /\ zbuffer.revision < MaxOrders
  /\ zbuffer' = Reordered(Without(id))
  /\ solved' = NoLayout
  /\ UNCHANGED description

bring_to_front(id) ==
  /\ Holds(id)
  /\ zbuffer.frames[Len(zbuffer.frames)] # id
  /\ zbuffer.revision < MaxOrders
  /\ zbuffer' = Reordered(Append(Without(id), id))
  /\ solved' = NoLayout
  /\ UNCHANGED description

-----------------------------------------------------------------------------
(* Solving.                                                                *)

Revisions == <<zbuffer.revision, description.revision>>

Failed(status) ==
  [status |-> status, rects |-> <<>>, dependencies |-> {}, order |-> <<>>]

\* What the description means on a screen, resolving the frames in ids order.
Solve(frames, constraints, screen, cell, ids) ==
  LET Result(st) ==
        IF st.status # "OK" THEN Failed(st.status)
        ELSE [status |-> "OK", rects |-> st.rects, order |-> st.order,
              dependencies |-> build_frame_dependencies(frames, st.rects)]
      parsed == parse_layout(frames, constraints)
  IN  IF parsed # "OK" THEN Failed(parsed)
      ELSE Result(resolve_all(frames, constraints, screen, cell, ids, NothingResolved))

Cached(screen, cell) ==
  /\ description.cached.status = "OK"
  /\ description.cached.key = <<screen, cell, Revisions>>

OrderCached ==
  description.order.status = "OK" /\ description.order.key = Revisions

compute_absolute_layout(screen, cell) ==
  \E r \in {IF Cached(screen, cell) THEN description.cached.layout
            ELSE Solve(zbuffer.frames, description.constraints, screen, cell,
                       IF OrderCached THEN description.order.ids ELSE zbuffer.frames)} :
      /\ solved' = [status |-> r.status, rects |-> r.rects,
                    dependencies |-> r.dependencies, screen |-> screen,
                    cell |-> cell, frames |-> zbuffer.frames,
                    constraints |-> description.constraints]
      /\ description' =
           IF r.status # "OK" THEN description
           ELSE [description EXCEPT
                   !.order = IF OrderCached THEN @
                             ELSE [status |-> "OK", key |-> Revisions, ids |-> r.order],
                   !.cached = [status |-> "OK", key |-> <<screen, cell, Revisions>>,
                               layout |-> r]]
      /\ UNCHANGED zbuffer

Next ==
  \/ \E id \in FrameIds : add_frame_to_layout_description(id)
  \/ \E id \in FrameIds, c \in Catalogue : add_constraint_to_frame(id, c)
  \/ \E id \in FrameIds : remove(id)
  \/ \E id \in FrameIds : bring_to_front(id)
  \/ \E screen \in Screens, cell \in Cells : compute_absolute_layout(screen, cell)

Spec == Init /\ [][Next]_vars

-----------------------------------------------------------------------------
\* A layout that compute_absolute_layout returns, from its caches or not, is
\* the one its description means when nothing is cached: no edit, reordering
\* or removal leaves a stale rectangle or a stale compositing order behind.
LayoutCurrent ==
  solved.status # "none" =>
    \A fresh \in {Solve(solved.frames, solved.constraints, solved.screen,
                        solved.cell, solved.frames)} :
        /\ solved.rects = fresh.rects
        /\ solved.dependencies = fresh.dependencies
        /\ (solved.status = "OK") = (fresh.status = "OK")

\* Every frame of a solved layout has a rectangle, and it lies within the
\* screen: Resolver::resolve clamps sizes, offsets and named anchors alike.
FramesOnScreen ==
  solved.status = "OK" =>
    /\ DOMAIN solved.rects = {solved.frames[i] : i \in 1 .. Len(solved.frames)}
    /\ \A id \in DOMAIN solved.rects, i \in 1 .. 2 :
         LET r == solved.rects[id][i]
         IN  r.origin \in 0 .. solved.screen[i] /\ r.origin + r.extent <= solved.screen[i]

\* A screen of the dimensions compute_minimum_dimensions asks for gives every
\* frame the minimum declared in characters, whatever margins, percentages,
\* maximums and aspect ratios round to.
MinimumSuffices ==
  solved.status = "OK" =>
    \A minimum \in {compute_minimum_dimensions(solved.frames, solved.constraints,
                                               solved.cell, solved.screen)} :
        minimum.known /\ minimum.fits =>
          \A id \in DOMAIN solved.rects, i \in 1 .. 2 :
            solved.rects[id][i].extent >=
              character_minimum(Parsed(solved.constraints[id]), Axes[i].min)

\* A layout handed out is current, keeps its frames on the screen, and gives
\* every frame its minimum once the screen has the minimum dimensions.
LayoutSound == LayoutCurrent /\ FramesOnScreen /\ MinimumSuffices

=============================================================================
