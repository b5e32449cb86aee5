---------------------------- MODULE TileGeometry ----------------------------
(***************************************************************************)
(* Half-open pixel boxes, the tilings of a chip by them and the windows read   *)
(* around them (streaming/geometry.py, core_halo.py, ownership.py).  A list of *)
(* boxes is a sequence in the order of the code.                               *)
(***************************************************************************)
EXTENDS Integers, Sequences, SequencesExt, FiniteSets, FiniteSetsExt, Functions

Box(x0, y0, x1, y1) == [x0 |-> x0, y0 |-> y0, x1 |-> x1, y1 |-> y1]
Nonempty(b) == b.x0 < b.x1 /\ b.y0 < b.y1
Area(b) == (b.x1 - b.x0) * (b.y1 - b.y0)
Shape(b) == <<b.y1 - b.y0, b.x1 - b.x0>>
Pixels(b) == (b.x0 .. b.x1 - 1) \X (b.y0 .. b.y1 - 1)
Covers(a, b) == a.x0 <= b.x0 /\ a.y0 <= b.y0 /\ a.x1 >= b.x1 /\ a.y1 >= b.y1
TotalArea(boxes) == SumFunction([b \in boxes |-> Area(b)])
Lesser(a, b) == IF a < b THEN a ELSE b
Greater(a, b) == IF a < b THEN b ELSE a

Uniform(px) == [left |-> px, top |-> px, right |-> px, bottom |-> px]

\* read_bbox_for: the core and its halo, clipped to the chip.
ReadBox(core, halo, w, h) ==
  Box(Greater(0, core.x0 - halo.left), Greater(0, core.y0 - halo.top),
      Lesser(w, core.x1 + halo.right), Lesser(h, core.y1 + halo.bottom))

HaloActual(core, read) ==
  [left |-> core.x0 - read.x0, top |-> core.y0 - read.y0,
   right |-> read.x1 - core.x1, bottom |-> read.y1 - core.y1]

WidestSide(halo) == Max({halo.left, halo.top, halo.right, halo.bottom})

\* The boxes between the cuts of two axes, row by row.
Grid(xs, ys, cols, rows) ==
  LET At(c, r) == Box(xs[c], ys[r], xs[c + 1], ys[r + 1])
  IN  [i \in 1 .. cols * rows |-> At((i - 1) % cols, (i - 1) \div cols)]

\* range(0, extent, size) as a number of steps, and where they end.
Steps(extent, size) == (extent + size - 1) \div size
StepCuts(extent, size) == [i \in 0 .. Steps(extent, size) |-> Lesser(size * i, extent)]

\* core_grid_boxes with the stride of the core size.
CoreGrid(w, h, size) ==
  Grid(StepCuts(w, size), StepCuts(h, size), Steps(w, size), Steps(h, size))

\* _split_axis: the first span % parts pieces are one longer.  Seeded fault: they are not.
SplitAxisTruncates(lo, hi, parts) ==
  [i \in 0 .. parts |-> lo + i * ((hi - lo) \div parts)]
SplitAxis(lo, hi, parts) ==
  LET base == (hi - lo) \div parts
      rem  == (hi - lo) % parts
  IN  [i \in 0 .. parts |-> lo + i * base + Lesser(i, rem)]

\* partition_core: the grid of the split axes without its empty boxes.  A span has as many
\* pieces as it has pixels, if those are fewer than the parts: the later ones are empty.
PartitionCore(b, parts) ==
  Grid(SplitAxis(b.x0, b.x1, parts), SplitAxis(b.y0, b.y1, parts),
       Lesser(parts, b.x1 - b.x0), Lesser(parts, b.y1 - b.y0))

\* _check_partition: inside the parent, no box twice, the areas add up.
CheckPartition(parent, boxes) ==
  /\ boxes # <<>>
  /\ \A i \in DOMAIN boxes : Covers(parent, boxes[i])
  /\ IsInjective(boxes)
  /\ TotalArea(Range(boxes)) = Area(parent)

\* What every tiling means: each pixel of the region in exactly one box.
ExactCover(boxes, region) ==
  /\ \A i \in DOMAIN boxes : Pixels(boxes[i]) \subseteq region /\ Pixels(boxes[i]) # {}
  /\ \A p \in region : Cardinality({i \in DOMAIN boxes : p \in Pixels(boxes[i])}) = 1
=============================================================================
