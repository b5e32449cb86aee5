----------------------------- MODULE VectorRuns -----------------------------
(***************************************************************************)
(* Polygons to pixels and back (streaming/vector_runs.py, streaming/sinks.py):  *)
(* exact scanlines, holes, the union of objects into canonical owned runs, the  *)
(* window a tile reads, and the rectangles the Manhattan sink writes for a      *)
(* core.  Vertices are integer pixel edges <<x, y>>; a loop is their sequence;  *)
(* a polygon is [id, outer, holes].  A span <<a, b>> is half-open.              *)
(***************************************************************************)
EXTENDS TileGeometry

\* The edges of a loop that cross the scanline through the pixel centres of row y: an
\* edge begins with its lower row and ends before its upper one.  Seeded fault: it has both.
CrossingTwice(loop, y) ==
  {i \in DOMAIN loop : LET p == loop[i]
                           q == loop[(i % Len(loop)) + 1]
                       IN  p[2] # q[2] /\ Lesser(p[2], q[2]) <= y /\ y <= Greater(p[2], q[2])}
Crossing(loop, y) ==
  {i \in DOMAIN loop : LET p == loop[i]
                           q == loop[(i % Len(loop)) + 1]
                       IN  Lesser(p[2], q[2]) <= y /\ y < Greater(p[2], q[2])}

\* _ceil_fraction of where edge i meets the scanline, less one half: the first pixel
\* whose centre is not to the left of it.
FirstRight(loop, i, y) ==
  LET p == loop[i]
      q == loop[(i % Len(loop)) + 1]
      lo == IF p[2] < q[2] THEN p ELSE q
      hi == IF p[2] < q[2] THEN q ELSE p
      den == 2 * (hi[2] - lo[2])
      num == lo[1] * den + (2 * y + 1 - 2 * lo[2]) * (hi[1] - lo[1])
  IN  -((den - 2 * num) \div (2 * den))

\* _loop_row_spans: crossings from left to right, two by two.  Rounding up keeps their
\* order, so it is the rounded ones that are sorted.
LoopRowSpans(loop, y) ==
  LET xs == {<<FirstRight(loop, i, y), i>> : i \in Crossing(loop, y)}
      Rank(s) == Cardinality({t \in xs : t[1] < s[1] \/ (t[1] = s[1] /\ t[2] <= s[2])})
      ranked == {<<Rank(s), s[1]>> : s \in xs}
      pairs == {p \in ranked \X ranked : p[1][1] % 2 = 1 /\ p[2][1] = p[1][1] + 1}
  IN  {s \in {<<p[1][2], p[2][2]>> : p \in pairs} : s[1] < s[2]}

\* _subtract_spans.
Cut(spans, c) ==
  LET Rest(s) == IF c[2] <= s[1] \/ c[1] >= s[2] THEN {s}
                 ELSE {<<s[1], Lesser(s[2], c[1])>>, <<Greater(s[1], c[2]), s[2]>>}
  IN  {s \in UNION {Rest(t) : t \in spans} : s[1] < s[2]}
SubtractSpans(spans, cuts) == FoldSet(LAMBDA c, acc : Cut(acc, c), spans, cuts)

PolygonRowSpans(poly, y) ==
  FoldLeft(LAMBDA acc, hole : SubtractSpans(acc, LoopRowSpans(hole, y)),
           LoopRowSpans(poly.outer, y), poly.holes)

-----------------------------------------------------------------------------

Rows(poly) == [lo |-> Min({p[2] : p \in Range(poly.outer)}),
               hi |-> Max({p[2] : p \in Range(poly.outer)})]

\* The band index: a polygon is in each band it spans; then its own rows decide.
Bands(poly, height) ==
  IF Rows(poly).hi <= Rows(poly).lo THEN {}
  ELSE Rows(poly).lo \div height .. (Rows(poly).hi - 1) \div height
CandidatesForRow(polys, y, height) ==
  {p \in polys : y \div height \in Bands(p, height) /\ Rows(p).lo <= y /\ y < Rows(p).hi}

\* _union_with_contributors: between two neighbouring ends the owners are those with
\* more spans begun than ended; neighbours with the same owners are one run.
ActiveAt(spans, pos) ==
  {o \in {s.owner : s \in spans} :
     Cardinality({s \in spans : s.owner = o /\ s.x0 <= pos})
       # Cardinality({s \in spans : s.owner = o /\ s.x1 <= pos})}
UnionWithContributors(spans) ==
  LET ends == {s.x0 : s \in spans} \cup {s.x1 : s \in spans}
      Sweep(left, acc) ==
        LET run == [x0 |-> left, x1 |-> Min({e \in ends : left < e}), owners |-> ActiveAt(spans, left)]
            joins == acc # <<>> /\ Last(acc).x1 = run.x0 /\ Last(acc).owners = run.owners
        IN  IF run.owners = {} THEN acc
            ELSE IF joins THEN Append(Front(acc), [run EXCEPT !.x0 = Last(acc).x0])
            ELSE Append(acc, run)
  IN  MapThenFoldSet(Sweep, <<>>, LAMBDA e : e, Max, {e \in ends : \E d \in ends : e < d})

\* _global_owned_row: spans are clipped to the layout before they are united.
OwnedRow(polys, y, w, height) ==
  LET Clipped(p) == {[x0 |-> Greater(0, s[1]), x1 |-> Lesser(w, s[2]), owner |-> p.id] :
                       s \in PolygonRowSpans(p, y)}
      clipped == UNION {Clipped(p) : p \in CandidatesForRow(polys, y, height)}
  IN  Range(UnionWithContributors({s \in clipped : s.x0 < s.x1}))

\* read_window: the slices of the canonical runs in the window.
ReadWindow(polys, box, w, height) ==
  UNION {LET slices == {<<Greater(r.x0, box.x0), Lesser(r.x1, box.x1)>> : r \in OwnedRow(polys, y, w, height)}
         IN  UNION {(s[1] .. s[2] - 1) \X {y} : s \in slices} : y \in box.y0 .. box.y1 - 1}

-----------------------------------------------------------------------------
(* The Manhattan sink                                                          *)

\* _row_runs: the foreground of one row of a core, run by run.
RowRuns(pixels, y) ==
  LET xs == {p[1] : p \in {q \in pixels : q[2] = y}}
      End(x) == CHOOSE e \in x + 1 .. x + 1 + Cardinality(xs) :
                  e \notin xs /\ \A k \in x .. e - 1 : k \in xs
  IN  {<<x, End(x)>> : x \in {k \in xs : k - 1 \notin xs}}

\* write_core: a run that the next row repeats stays open, one that it does not is
\* closed into a box.
ManhattanBoxes(pixels, core) ==
  LET Row(acc, y) ==
        LET closed == {o \in acc.open : o.run \notin RowRuns(pixels, y)}
            kept   == acc.open \ closed
        IN  [boxes |-> acc.boxes \cup {Box(o.run[1], o.y, o.run[2], y) : o \in closed},
             open  |-> kept \cup {[run |-> r, y |-> y] :
                                    r \in RowRuns(pixels, y) \ {o.run : o \in kept}}]
      end == FoldLeft(Row, [boxes |-> {}, open |-> {}],
                      [i \in 1 .. core.y1 - core.y0 |-> core.y0 + i - 1])
  IN  end.boxes \cup {Box(o.run[1], o.y, o.run[2], core.y1) : o \in end.open}

-----------------------------------------------------------------------------
(* What they mean                                                              *)

\* The centre of a pixel is inside a loop: the ray to its left meets an odd number of
\* edges.
InLoop(loop, x, y) ==
  Cardinality({i \in DOMAIN loop :
                 LET p == loop[i]
                     q == loop[(i % Len(loop)) + 1]
                     up == q[2] - p[2]
                     at == 2 * p[1] * up + (2 * y + 1 - 2 * p[2]) * (q[1] - p[1])
                 IN  \/ p[2] <= y /\ y < q[2] /\ at <= (2 * x + 1) * up
                     \/ q[2] <= y /\ y < p[2] /\ at >= (2 * x + 1) * up}) % 2 = 1

Inside(poly, x, y) ==
  InLoop(poly.outer, x, y) /\ \A h \in DOMAIN poly.holes : ~InLoop(poly.holes[h], x, y)
=============================================================================
