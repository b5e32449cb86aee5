---------------------------- MODULE MCDecisions ----------------------------
(***************************************************************************)
(* The pure algorithms of the two executors against what they are for.  Each   *)
(* action poses one question; the properties are about the answer.             *)
(*   PoseLayout    a triangle over any three vertices and a second shape, read  *)
(*                 as runs, tile by tile, and written as Manhattan boxes        *)
(*   PoseGrid      a chip, a core size, a number of parts and a halo            *)
(*   PoseOverlap   one axis of the dense executor                               *)
(*   PoseHalo      what is known of node and model, and a tile                  *)
(*   PoseRequest   an optimize request                                          *)
(***************************************************************************)
EXTENDS VectorRuns, DenseTiling, ExecutionPlanner

CONSTANTS MaxSide,      \* chips up to this side, vertices up to this coordinate
          MaxExtent,    \* axes of the dense executor up to this extent
          Sizes,        \* bytes of a layout as a dense raster
          Budgets       \* dense memory policies, 0 for unlimited

ASSUME DecisionsAssumption ==
  MaxSide \in Nat \ {0} /\ MaxExtent \in Nat /\ Sizes \subseteq Nat /\ Budgets \subseteq Nat

VARIABLE case

BandHeight == 3         \* rows to a band of the index of polygons

Vertices == (0 .. MaxSide) \X (0 .. MaxSide)

Triangles ==
  {t \in Vertices \X Vertices \X Vertices :
     /\ t[1][1] * 10 + t[1][2] < t[2][1] * 10 + t[2][2]
     /\ t[1][1] * 10 + t[1][2] < t[3][1] * 10 + t[3][2]
     /\ (t[2][1] - t[1][1]) * (t[3][2] - t[1][2])
          # (t[3][1] - t[1][1]) * (t[2][2] - t[1][2])}

Rectangle(x0, y0, x1, y1) == <<<<x0, y0>>, <<x1, y0>>, <<x1, y1>>, <<x0, y1>>>>

\* A frame, one that is cut by the edge of the chip, a step, a bow tie, and a plate with
\* two holes that meet.
Others == {[outer |-> Rectangle(0, 0, 3, 3), holes |-> <<Rectangle(1, 1, 2, 2)>>],
           [outer |-> Rectangle(-1, 1, MaxSide + 2, 2), holes |-> <<>>],
           [outer |-> <<<<0, 0>>, <<3, 0>>, <<3, 1>>, <<1, 1>>, <<1, 3>>, <<0, 3>>>>, holes |-> <<>>],
           [outer |-> <<<<0, 0>>, <<3, 3>>, <<3, 0>>, <<0, 3>>>>, holes |-> <<>>],
           [outer |-> Rectangle(0, 0, 4, 2),
            holes |-> <<Rectangle(0, 0, 2, 1), Rectangle(1, 0, 3, 2)>>]}

Layout(t, o) == {[id |-> 1, outer |-> t, holes |-> <<>>],
                 [id |-> 2, outer |-> o.outer, holes |-> o.holes]}

PoseInit == case = [kind |-> "none"]

PoseLayout ==
  /\ case.kind = "none"
  /\ \E t \in Triangles, o \in Others :
       case' = [kind |-> "layout", polys |-> Layout(t, o), band |-> BandHeight]
PoseGrid ==
  /\ case.kind = "none"
  /\ \E w, h \in 1 .. MaxSide + 1, size \in 1 .. MaxSide, parts \in 2 .. 3, halo \in 0 .. 2 :
       case' = [kind |-> "grid", w |-> w, h |-> h, size |-> size, parts |-> parts, halo |-> halo]
PoseOverlap ==
  /\ case.kind = "none"
  /\ \E extent \in 1 .. MaxExtent, size \in 2 .. MaxExtent :
       \E overlap \in 0 .. size - 1 :
         case' = [kind |-> "overlap", extent |-> extent, size |-> size, overlap |-> overlap]
PoseHalo ==
  /\ case.kind = "none"
  /\ \E known \in SUBSET {"node", "model"}, oir \in {0, 3, 20, 65, 400}, rf \in {0, 1, 9, 40},
        size \in {2, 8, 9, 33, 128, 129, 256} :
       case' = [kind |-> "halo", known |-> known, oir |-> oir, rf |-> rf, size |-> size]
PoseRequest ==
  /\ case.kind = "none"
  /\ \E r \in Requests(Sizes, Budgets) : case' = [kind |-> "request", request |-> r]

PoseNext == PoseLayout \/ PoseGrid \/ PoseOverlap \/ PoseHalo \/ PoseRequest

-----------------------------------------------------------------------------

Square == Box(0, 0, MaxSide, MaxSide)
Foreground(polys) == {p \in Pixels(Square) : \E q \in polys : Inside(q, p[1], p[2])}
Owners(polys, x, y) == {q.id : q \in {p \in polys : Inside(p, x, y)}}

\* What a tile reads of a vector layout is its window of the one mask that exact
\* geometry defines, whatever the tile: every run has exactly the objects over it as
\* its owners, runs do not overlap and none could be longer, and the boxes the sink
\* writes for a core are an exact cover of the core's part of the mask.
RunsAreTheMask ==
  case.kind = "layout" =>
    LET polys == case.polys
        W == MaxSide
        rows == [y \in 0 .. W - 1 |-> OwnedRow(polys, y, W, case.band)]
        mask == Foreground(polys)
    IN  /\ \A y \in 0 .. W - 1 :
             /\ \A x \in 0 .. W - 1 :
                  LET here == {r \in rows[y] : r.x0 <= x /\ x < r.x1}
                  IN  IF Owners(polys, x, y) = {} THEN here = {}
                      ELSE \E r \in here : here = {r} /\ r.owners = Owners(polys, x, y)
             /\ \A r, s \in rows[y] : r.x1 = s.x0 => r.owners # s.owners
        /\ LET grid == CoreGrid(W, W, 2)
               Tile(i) == grid[i]
           IN  \A i \in DOMAIN grid :
                 LET read == ReadBox(Tile(i), Uniform(1), W, W)
                     seen == ReadWindow(polys, read, W, case.band)
                     core == seen \cap Pixels(Tile(i))
                     boxes == SetToSeq(ManhattanBoxes(core, Tile(i)))
                 IN  /\ seen = mask \cap Pixels(read)
                     /\ ExactCover(boxes, core)

\* Every pixel of the chip belongs to exactly one core, before and after cores are
\* split, and is read with its core from inside the chip; on the dense path every pixel
\* has a tile that counts, and the halo is as wide as optics and model need, or the fixed
\* one where neither is known, unless the tile is too small for it.
EveryPixelIsTiled ==
  /\ case.kind = "grid" =>
       LET grid == CoreGrid(case.w, case.h, case.size)
           chip == Box(0, 0, case.w, case.h)
       IN  /\ ExactCover(grid, Pixels(chip))
           /\ \A i \in DOMAIN grid :
                LET parts == PartitionCore(grid[i], case.parts)
                    read  == ReadBox(grid[i], Uniform(case.halo), case.w, case.h)
                IN  /\ ExactCover(parts, Pixels(grid[i]))
                    /\ CheckPartition(grid[i], parts)
                    /\ Covers(chip, read) /\ Covers(read, grid[i])
                    /\ WidestSide(HaloActual(grid[i], read)) <= case.halo
  /\ case.kind = "overlap" =>
       /\ \A x \in 0 .. case.extent - 1 :
            TotalWeight(case.extent, case.size, case.overlap, x) > 0
       /\ \A p \in Pieces(case.extent, case.size, case.overlap) :
            0 <= p.at /\ p.at + p.len <= case.extent
  /\ case.kind = "halo" =>
       LET halo == HaloPx(case.known, case.oir, 2, case.rf, case.size)
       IN  /\ halo < case.size
           /\ \/ halo = case.size - 1
              \/ /\ "node" \in case.known => halo * 2 >= case.oir
                 /\ "model" \in case.known => halo >= case.rf
                 /\ case.known = {} => halo = DEFAULT_HALO_PX

\* The same request under another mode and policy.
Under(r, mode, budget) == PlanExecution([r EXCEPT !.mode = mode, !.budget = budget])

\* A plan can be carried out and is the one asked for.  Streaming has a source to read,
\* a sink for the output and a model that allows it, and under auto neither end is a
\* raster in memory and the layout is above the policy; dense is never imposed on one
\* who asked for streaming; a refusal names something that is really missing.  And the
\* answers to different requests agree: what auto streams can be asked for, and what auto
\* refuses under a policy it refuses under every tighter one.
PlanIsSound ==
  case.kind = "request" =>
    LET r == case.request
        plan == PlanExecution(r)
        sinkOk == r.output = "oasis" => r.writer = "vsb" /\ r.klayout
        inMemory == r.input \in {"pt", "tensor"} \/ r.output = "tensor-mask"
    IN  /\ plan.mode = "streaming" =>
             /\ Probe(r).source /\ sinkOk /\ r.modelOk
             /\ r.mode = "auto" => ~inMemory /\ r.budget > 0 /\ r.bytes > r.budget
        /\ plan.mode = "dense" => r.mode # "streaming"
        /\ plan.mode = "refused" =>
             /\ r.mode = "auto" => r.budget > 0 /\ r.bytes > r.budget
             /\ CASE plan.reason = "UNSUPPORTED_INPUT" ->
                       ~Probe(r).source \/ (r.mode = "auto" /\ r.input = "tensor")
                  [] plan.reason = "UNSUPPORTED_OUTPUT" ->
                       ~sinkOk \/ (r.mode = "auto" /\ r.output = "tensor-mask")
                  [] OTHER -> ~r.modelOk
        /\ Under(r, "auto", r.budget).mode = "streaming"
             => Under(r, "streaming", r.budget).mode = "streaming"
        /\ Under(r, "auto", r.budget).mode = "refused"
             => \A b \in Budgets : 0 < b /\ b <= r.budget => Under(r, "auto", b).mode = "refused"

\* "Above the policy it picks streaming only when the whole combination is
\* streaming-capable; otherwise it fails closed" (workflow/execution.py:28-32): under auto
\* a layout above the memory policy is never planned dense.
AutoFailsClosed ==
  case.kind = "request" =>
    LET r == case.request
    IN  r.mode = "auto" /\ r.budget > 0 /\ r.bytes > r.budget => PlanExecution(r).mode # "dense"
=============================================================================
