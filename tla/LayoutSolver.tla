---------------------------- MODULE LayoutSolver ----------------------------
(***************************************************************************)
(* The constraint solver behind Layout, as operators.  A constraint is a   *)
(* record [type, unit, value]; the value of a PERCENT is a number of       *)
(* PercentOne-ths of the screen, which stands for the binary fractions a   *)
(* float holds exactly; the value of a RATIO is <<width, height>> and that *)
(* of a NAME is a frame id.  A rectangle is a pair, horizontal and         *)
(* vertical, of [origin, extent].  SizeMax stands for the largest size_t.  *)
(***************************************************************************)
EXTENDS Integers, Sequences, FiniteSets

CONSTANTS SizeMax, PercentOne

Overflow == -1

Horizontal ==
  [lower |-> "LEFT_MARGIN", upper |-> "RIGHT_MARGIN", max |-> "MAX_WIDTH",
   min |-> "MIN_WIDTH", lowerAnchor |-> "LEFT_ANCHOR",
   upperAnchor |-> "RIGHT_ANCHOR", center |-> "HORIZONTAL_CENTER"]

Vertical ==
  [lower |-> "TOP_MARGIN", upper |-> "BOTTOM_MARGIN", max |-> "MAX_HEIGHT",
   min |-> "MIN_HEIGHT", lowerAnchor |-> "TOP_ANCHOR",
   upperAnchor |-> "BOTTOM_ANCHOR", center |-> "VERTICAL_CENTER"]

Axes == <<Horizontal, Vertical>>

Placements(axis) == {axis.lowerAnchor, axis.upperAnchor, axis.center}

is_edge_anchor(type) ==
  \E i \in 1 .. 2 : type \in {Axes[i].lowerAnchor, Axes[i].upperAnchor}

Smaller(a, b) == IF a < b THEN a ELSE b
Larger(a, b) == IF a < b THEN b ELSE a
Ceiling(n, d) == (n + d - 1) \div d

-----------------------------------------------------------------------------
(* Validation.                                                             *)

validate_constraint(c) ==
  CASE c.unit = "CHARACTERS" ->
         IF c.type = "ASPECT_RATIO" THEN "INVALID_CONSTRAINT" ELSE "OK"
    [] c.unit = "PERCENT" ->
         IF c.type = "ASPECT_RATIO" THEN "INVALID_CONSTRAINT"
         ELSE IF c.value \in 0 .. PercentOne THEN "OK" ELSE "INVALID_PERCENTAGE"
    [] c.unit = "RATIO" ->
         IF c.type # "ASPECT_RATIO" THEN "INVALID_CONSTRAINT"
         ELSE IF c.value[1] > 0 /\ c.value[2] > 0 THEN "OK" ELSE "INVALID_RATIO"
    [] c.unit = "NAME" ->
         IF is_edge_anchor(c.type) THEN "OK" ELSE "INVALID_CONSTRAINT"

\* Two constraints of one type, or two placements on one axis.
Conflicting(c, e) ==
  \/ c.type = e.type
  \/ \E i \in 1 .. 2 : {c.type, e.type} \subseteq Placements(Axes[i])

\* The lookup form of a frame's constraints: a function of their types.
Parsed(constraints) ==
  [t \in {c.type : c \in constraints} |->
     CHOOSE c \in constraints : c.type = t]

Crossed(p, minimum, maximum) ==
  /\ {minimum, maximum} \subseteq DOMAIN p
  /\ p[minimum].unit = p[maximum].unit
  /\ p[minimum].value > p[maximum].value

\* validate_bound_pair on both axes: bounds of one unit may not cross.
validate_bound_pair(p) ==
  \A i \in 1 .. 2 : ~Crossed(p, Axes[i].min, Axes[i].max)

\* Constraints are validated as they are added, so that what parse_layout can
\* still find is a pair of crossed bounds and the constraints of a frame that
\* has left the Z-buffer.
parse_layout(frames, constraints) ==
  IF \E i \in 1 .. Len(frames) : ~validate_bound_pair(Parsed(constraints[frames[i]]))
  THEN "INVALID_CONSTRAINT"
  ELSE IF DOMAIN constraints \subseteq {frames[i] : i \in 1 .. Len(frames)}
       THEN "OK" ELSE "FRAME_NOT_FOUND"

-----------------------------------------------------------------------------
(* Sizes.                                                                  *)

Measure(c, extent) ==
  IF c.unit = "CHARACTERS" THEN c.value ELSE (extent * c.value) \div PercentOne

resolve_measure(p, type, extent, default) ==
  IF type \in DOMAIN p THEN Measure(p[type], extent) ELSE default

checked_derived_dimension(cells, sourceCell, sourceRatio, targetCell, targetRatio, up) ==
  LET scaled == cells * sourceCell * targetRatio
      unit == targetCell * sourceRatio
      rounded == IF up THEN Ceiling(scaled, unit) ELSE scaled \div unit
  IN  IF rounded > SizeMax THEN Overflow ELSE rounded

height_for_width(width, ratio, cell, up) ==
  checked_derived_dimension(width, cell[1], ratio[1], cell[2], ratio[2], up)

width_for_height(height, ratio, cell, up) ==
  checked_derived_dimension(height, cell[2], ratio[2], cell[1], ratio[1], up)

AtLeastOne(derived, width, height) ==
  IF derived = 0 /\ width > 0 /\ height > 0 THEN 1 ELSE derived

\* The size left of <<width, height>>, or <<Overflow, Overflow>>.
apply_aspect_ratio(p, width, height, cell) ==
  LET ratio == p["ASPECT_RATIO"].value
      Narrow(wide) == IF wide = Overflow THEN <<Overflow, Overflow>>
                      ELSE <<Smaller(width, AtLeastOne(wide, width, height)), height>>
      Fit(tall) == IF tall = Overflow THEN <<Overflow, Overflow>>
                   ELSE IF tall <= height THEN <<width, tall>>
                   ELSE Narrow(width_for_height(height, ratio, cell, FALSE))
  IN  IF "ASPECT_RATIO" \notin DOMAIN p THEN <<width, height>>
      ELSE Fit(AtLeastOne(height_for_width(width, ratio, cell, FALSE), width, height))

\* The half-open interval the margins leave: <<lower, upper>>.
resolve_axis_bounds(p, axis, extent) ==
  LET Bounds(lower, upper) == <<lower, Larger(lower, upper)>>
  IN  Bounds(Smaller(resolve_measure(p, axis.lower, extent, 0), extent),
             extent - Smaller(resolve_measure(p, axis.upper, extent, 0), extent))

\* The extent before the aspect ratio: the maximum, within the bounds.
Available(p, axis, extent) ==
  LET Within(b) == Smaller(resolve_measure(p, axis.max, extent, b[2] - b[1]), b[2] - b[1])
  IN  Within(resolve_axis_bounds(p, axis, extent))

FrameSize(p, screen, cell) ==
  apply_aspect_ratio(p, Available(p, Horizontal, screen[1]),
                     Available(p, Vertical, screen[2]), cell)

-----------------------------------------------------------------------------
(* Places.                                                                 *)

\* The placement of an axis, as a set of at most one constraint.
placement_constraint(p, axis) == {p[t] : t \in DOMAIN p \cap Placements(axis)}

clamp_origin(origin, lower, upper, extent) ==
  IF extent > upper - lower THEN lower
  ELSE Smaller(Larger(origin, lower), upper - extent)

resolve_axis_origin(c, axis, screenExtent, lower, upper, extent, reference) ==
  LET edge == reference.origin + reference.extent
      offset == Measure(c, screenExtent)
      needed == Smaller(SizeMax, offset + extent)
      centered == IF extent > upper - lower THEN lower
                  ELSE lower + (upper - lower - extent) \div 2
      origin ==
        IF c.unit = "NAME"
        THEN IF c.type = axis.lowerAnchor THEN reference.origin
             ELSE IF extent > edge THEN 0 ELSE edge - extent
        ELSE IF c.type = axis.lowerAnchor THEN Smaller(SizeMax, lower + offset)
        ELSE IF c.type = axis.upperAnchor
             THEN IF needed > upper THEN lower ELSE upper - needed
             ELSE Smaller(SizeMax, centered + offset)
  IN  clamp_origin(origin, lower, upper, extent)

\* The frames a frame's named anchors refer to, horizontal one first.
References(p) ==
  LET named(axis) == {c.value : c \in {k \in placement_constraint(p, axis) : k.unit = "NAME"}}
      one(s) == IF s = {} THEN <<>> ELSE <<CHOOSE n \in s : TRUE>>
  IN  one(named(Horizontal)) \o one(named(Vertical))

Place(p, i, screen, size, rects) ==
  LET axis == Axes[i]
      Reference(c) == IF c.unit = "NAME" THEN rects[c.value][i] ELSE [origin |-> 0, extent |-> 0]
      Origins(b) ==
        {resolve_axis_origin(c, axis, screen[i], b[1], b[2], size[i], Reference(c)) :
           c \in placement_constraint(p, axis)}
      At(origins, b) == [origin |-> IF origins = {} THEN b[1] ELSE CHOOSE o \in origins : TRUE,
                         extent |-> size[i]]
      Between(b) == At(Origins(b), b)
  IN  Between(resolve_axis_bounds(p, axis, screen[i]))

-----------------------------------------------------------------------------
(* Resolution: depth first along the named anchors.                        *)

NothingResolved == [status |-> "OK", rects |-> <<>>, visiting |-> {}, order |-> <<>>]

With(rects, id, rect) ==
  [f \in DOMAIN rects \cup {id} |-> IF f = id THEN rect ELSE rects[f]]

RECURSIVE resolve(_, _, _, _, _, _), resolve_all(_, _, _, _, _, _)

resolve_all(frames, constraints, screen, cell, ids, st) ==
  IF ids = <<>> \/ st.status # "OK" THEN st
  ELSE resolve_all(frames, constraints, screen, cell, Tail(ids),
                   resolve(frames, constraints, screen, cell, Head(ids), st))

resolve(frames, constraints, screen, cell, id, st) ==
  IF \A i \in 1 .. Len(frames) : frames[i] # id
  THEN [st EXCEPT !.status = "FRAME_NOT_FOUND"]
  ELSE IF id \in DOMAIN st.rects THEN st
  ELSE IF id \in st.visiting THEN [st EXCEPT !.status = "CONSTRAINT_CYCLE"]
  ELSE LET Set(p, size, after) ==
             IF after.status # "OK" THEN after
             ELSE [after EXCEPT
                     !.rects = With(@, id, [i \in 1 .. 2 |-> Place(p, i, screen, size, after.rects)]),
                     !.order = Append(@, id)]
           Sized(p, size) ==
             IF size[1] = Overflow THEN [st EXCEPT !.status = "DIMENSION_OVERFLOW"]
             ELSE Set(p, size, resolve_all(frames, constraints, screen, cell, References(p),
                                           [st EXCEPT !.visiting = @ \cup {id}]))
           Of(p) == Sized(p, FrameSize(p, screen, cell))
       IN  Of(Parsed(constraints[id]))

rectangles_intersect(r, s) ==
  \A i \in 1 .. 2 : /\ r[i].extent > 0 /\ s[i].extent > 0
                    /\ r[i].origin < s[i].origin + s[i].extent
                    /\ s[i].origin < r[i].origin + r[i].extent

\* Pairs <<back, front>> of Z-buffer indices whose rectangles intersect.
build_frame_dependencies(frames, rects) ==
  {<<back, front>> \in (1 .. Len(frames)) \X (1 .. Len(frames)) :
     back < front /\ rectangles_intersect(rects[frames[back]], rects[frames[front]])}

-----------------------------------------------------------------------------
(* Minimum dimensions.                                                     *)

character_minimum(p, type) ==
  IF type \in DOMAIN p /\ p[type].unit = "CHARACTERS" THEN p[type].value ELSE 0

frame_minimum_size(p, cell) ==
  LET Wide(wide, width, height) == IF wide = Overflow THEN <<Overflow, Overflow>>
                                   ELSE <<Larger(width, wide), height>>
      Fit(tall, width, height, ratio) ==
        IF tall = Overflow THEN <<Overflow, Overflow>>
        ELSE IF height < tall THEN <<width, tall>>
        ELSE Wide(width_for_height(height, ratio, cell, TRUE), width, height)
      Of(width, height) ==
        IF "ASPECT_RATIO" \notin DOMAIN p THEN <<width, height>>
        ELSE Fit(height_for_width(width, p["ASPECT_RATIO"].value, cell, TRUE), width, height,
                 p["ASPECT_RATIO"].value)
  IN  Of(character_minimum(p, "MIN_WIDTH"), character_minimum(p, "MIN_HEIGHT"))

\* What a margin or placement adds to <<fixed, fraction>>.
add_minimum_component(c, multiplier, sum) ==
  CASE c.unit = "CHARACTERS" -> <<sum[1] + c.value * multiplier, sum[2]>>
    [] c.unit = "PERCENT" -> <<sum[1], sum[2] + c.value * multiplier>>
    [] c.unit = "NAME" -> sum

\* <<status, extent>>: the screen a maximum needs to admit the minimum.
required_for_percentage_maximum(p, axis, minimum) ==
  IF axis.max \notin DOMAIN p THEN <<"OK", 0>>
  ELSE LET m == p[axis.max]
       IN  IF m.unit = "CHARACTERS"
           THEN <<IF m.value < minimum THEN "INVALID_CONSTRAINT" ELSE "OK", 0>>
           ELSE IF minimum = 0 THEN <<"OK", 0>>
           ELSE IF m.value = 0 THEN <<"INVALID_CONSTRAINT", 0>>
           ELSE IF Ceiling(minimum * PercentOne, m.value) > SizeMax
                THEN <<"DIMENSION_OVERFLOW", 0>>
                ELSE <<"OK", Ceiling(minimum * PercentOne, m.value)>>

minimum_axis(p, axis, minimum) ==
  LET Add(type, multiplier, sum) ==
        IF type \in DOMAIN p THEN add_minimum_component(p[type], multiplier, sum) ELSE sum
      Sum == Add(axis.center, 2, Add(axis.upperAnchor, 1, Add(axis.lowerAnchor, 1,
               Add(axis.upper, 1, Add(axis.lower, 1, <<minimum, 0>>)))))
      Of(sum, needed, maximum) ==
        IF sum[1] > SizeMax \/ needed > SizeMax THEN <<"DIMENSION_OVERFLOW", 0>>
        ELSE IF sum[2] >= PercentOne /\ sum[1] # 0 THEN <<"INVALID_CONSTRAINT", 0>>
        ELSE <<maximum[1], Larger(needed, maximum[2])>>
      Needed(sum) == IF sum[2] >= PercentOne THEN 0
                     ELSE Ceiling(sum[1] * PercentOne, PercentOne - sum[2])
      For(sum) == Of(sum, Needed(sum), required_for_percentage_maximum(p, axis, minimum))
  IN  For(Sum)

\* <<status, screen needed>> of one frame.
FrameMinimum(p, cell) ==
  LET Both(wide, tall) == <<IF wide[1] # "OK" THEN wide[1] ELSE tall[1], <<wide[2], tall[2]>>>>
      Of(size) == IF size[1] = Overflow THEN <<"DIMENSION_OVERFLOW", <<0, 0>>>>
                  ELSE Both(minimum_axis(p, Horizontal, size[1]), minimum_axis(p, Vertical, size[2]))
  IN  Of(frame_minimum_size(p, cell))

\* Whether every frame has a minimum, and whether the screen is that large.
compute_minimum_dimensions(frames, constraints, cell, screen) ==
  LET Of(all) ==
        [known |-> /\ parse_layout(frames, constraints) = "OK"
                   /\ \A m \in all : m[1] = "OK",
         fits |-> \A m \in all : m[2][1] <= screen[1] /\ m[2][2] <= screen[2]]
  IN  Of({FrameMinimum(Parsed(constraints[frames[i]]), cell) : i \in 1 .. Len(frames)})
=============================================================================
