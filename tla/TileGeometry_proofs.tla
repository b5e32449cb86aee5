------------------------- MODULE TileGeometry_proofs -------------------------
(***************************************************************************)
(* Theorems about TileGeometry and VectorRuns: what the grids of cores and the  *)
(* partitions of a core are, for every extent, core size and number of parts;   *)
(* and what the scanlines, the canonical runs, the window of a tile and the     *)
(* boxes of the Manhattan sink are, for any finite set of polygons with holes.  *)
(***************************************************************************)
EXTENDS VectorRuns, FiniteSetTheorems, WellFoundedInduction, TLAPS

Boxes == {b \in [x0 : Int, y0 : Int, x1 : Int, y1 : Int] : Nonempty(b)}

\* Every pixel of the region in one box, and only there, and nothing else in any.
Tiles(boxes, region) ==
  /\ \A i \in DOMAIN boxes : boxes[i] \in Boxes /\ Covers(region, boxes[i])
  /\ \A i, j \in DOMAIN boxes : i # j => Pixels(boxes[i]) \cap Pixels(boxes[j]) = {}
  /\ \A p \in Pixels(region) : \E i \in DOMAIN boxes : p \in Pixels(boxes[i])

\* Where an axis from lo to hi is cut into n pieces.
Cuts(xs, n, lo, hi) ==
  /\ n \in Nat \ {0} /\ \A i \in 0 .. n : xs[i] \in Int
  /\ xs[0] = lo /\ xs[n] = hi
  /\ \A i, j \in 0 .. n : i < j => xs[i] < xs[j]

-----------------------------------------------------------------------------
(* Numbers                                                                     *)

\* A set of natural numbers that is not empty has a least one.
LEMMA LeastNumber ==
  ASSUME NEW S \in SUBSET Nat, S # {}
  PROVE  \E n \in S : \A m \in S : n <= m
  <1> DEFINE less == OpToRel(<, Nat)
  <1>1. IsWellFoundedOn(less, Nat)
    BY NatLessThanWellFounded
  <1>2. \A m, n \in Nat : <<m, n>> \in less <=> m < n
    BY DEF OpToRel
  <1> HIDE DEF less
  <1>3. PICK n \in S : \A m \in S : ~ (<<m, n>> \in less)
    BY <1>1, WFMin
  <1>4. \A m \in S : ~ (m < n)
    BY <1>2, <1>3
  <1> QED BY <1>4

\* Quotient and remainder are the only such pair.
LEMMA Quotient ==
  ASSUME NEW n \in Nat \ {0}, NEW q \in Int, NEW r \in 0 .. n - 1, NEW a \in Int, a = n * q + r
  PROVE  a \div n = q /\ a % n = r
  <1> PICK p, s : p = a \div n /\ s = a % n
    OBVIOUS
  <1>1. p \in Int /\ s \in 0 .. n - 1 /\ a = n * p + s
    OBVIOUS
  <1>2. ASSUME NEW u \in Int, NEW v \in Int, u < v PROVE n * u + n <= n * v
    <2>1. u + 1 <= v
      BY <1>2
    <2>2. n * (u + 1) <= n * v
      BY <2>1
    <2> QED BY <2>2
  <1>3. ~(p < q)
    BY <1>1, <1>2
  <1>4. ~(q < p)
    BY <1>1, <1>2
  <1>5. p = q
    BY <1>1, <1>3, <1>4
  <1> QED BY <1>1, <1>5

\* The order of a grid, row by row.
LEMMA RowByRow ==
  ASSUME NEW cols \in Nat \ {0}, NEW rows \in Nat \ {0}
  PROVE  /\ \A i \in 1 .. cols * rows :
              /\ (i - 1) % cols \in 0 .. cols - 1 /\ (i - 1) \div cols \in 0 .. rows - 1
              /\ i = cols * ((i - 1) \div cols) + ((i - 1) % cols) + 1
         /\ \A c \in 0 .. cols - 1, r \in 0 .. rows - 1 :
              /\ cols * r + c + 1 \in 1 .. cols * rows
              /\ (cols * r + c) % cols = c /\ (cols * r + c) \div cols = r
  <1>1. ASSUME NEW i \in 1 .. cols * rows
        PROVE  /\ (i - 1) % cols \in 0 .. cols - 1 /\ (i - 1) \div cols \in 0 .. rows - 1
               /\ i = cols * ((i - 1) \div cols) + ((i - 1) % cols) + 1
    <2> PICK q, r : q = (i - 1) \div cols /\ r = (i - 1) % cols
      OBVIOUS
    <2>1. q \in Int /\ r \in 0 .. cols - 1 /\ i - 1 = cols * q + r
      OBVIOUS
    <2>2. q >= 0
      <3>1. q < 0 => cols * q + cols <= 0
        <4>1. q < 0 => q + 1 <= 0
          BY <2>1
        <4>2. q < 0 => cols * (q + 1) <= 0
          BY <2>1, <4>1
        <4> QED BY <2>1, <4>2
      <3> QED BY <2>1, <3>1
    <2>3. q < rows
      <3>1. rows <= q => cols * rows <= cols * q
        BY <2>1
      <3> PICK m, n : m = cols * rows /\ n = cols * q
        OBVIOUS
      <3>2. m \in Int /\ n \in Int /\ i \in 1 .. m /\ i - 1 = n + r /\ (rows <= q => m <= n)
        BY <2>1, <3>1
      <3> QED BY <2>1, <3>2
    <2> QED BY <2>1, <2>2, <2>3
  <1>2. ASSUME NEW c \in 0 .. cols - 1, NEW r \in 0 .. rows - 1
        PROVE  /\ cols * r + c + 1 \in 1 .. cols * rows
               /\ (cols * r + c) % cols = c /\ (cols * r + c) \div cols = r
    <2>1. cols * r + c \in Nat
      OBVIOUS
    <2>2. (cols * r + c) % cols = c /\ (cols * r + c) \div cols = r
      BY <2>1, Quotient
    <2>3. cols * (r + 1) <= cols * rows
      OBVIOUS
    <2>4. cols * r + c + 1 <= cols * rows
      BY <2>3
    <2> QED BY <2>1, <2>2, <2>4
  <1> QED BY <1>1, <1>2

-----------------------------------------------------------------------------
(* Grids                                                                       *)

\* A pixel of the axis lies between two cuts.
LEMMA PieceOfPixel ==
  ASSUME NEW xs, NEW n, NEW lo, NEW hi, Cuts(xs, n, lo, hi), NEW p \in Int, lo <= p, p < hi
  PROVE  \E c \in 0 .. n - 1 : xs[c] <= p /\ p < xs[c + 1]
  <1> DEFINE after == {k \in 0 .. n : p < xs[k]}
  <1>1. after \in SUBSET Nat /\ n \in after
    BY DEF Cuts
  <1>2. PICK k \in after : \A m \in after : k <= m
    BY <1>1, LeastNumber
  <1>3. k \in 0 .. n /\ k # 0 /\ p < xs[k] /\ k - 1 \in 0 .. n - 1
    BY <1>2 DEF Cuts
  <1>4. k - 1 \notin after
    BY <1>2, <1>3
  <1>5. xs[k - 1] <= p
    BY <1>3, <1>4 DEF Cuts
  <1>6. xs[(k - 1) + 1] = xs[k]
    BY <1>3
  <1> QED BY <1>3, <1>5, <1>6

\* And not between two others.
LEMMA PiecesAreApart ==
  ASSUME NEW xs, NEW n, NEW lo, NEW hi, Cuts(xs, n, lo, hi), NEW p \in Int,
         NEW c \in 0 .. n - 1, NEW d \in 0 .. n - 1,
         xs[c] <= p, p < xs[c + 1], xs[d] <= p, p < xs[d + 1]
  PROVE  c = d
  <1>1. \A i, j \in 0 .. n : i <= j => xs[i] <= xs[j]
    BY DEF Cuts
  <1>2. ~(c + 1 <= d) /\ ~(d + 1 <= c)
    BY <1>1 DEF Cuts
  <1> QED BY <1>2 DEF Cuts

\* The pixels of a box, by their coordinates.
LEMMA PixelsOfBox ==
  ASSUME NEW x0 \in Int, NEW y0 \in Int, NEW x1 \in Int, NEW y1 \in Int, NEW p
  PROVE  p \in Pixels(Box(x0, y0, x1, y1)) <=>
           p \in Int \X Int /\ x0 <= p[1] /\ p[1] < x1 /\ y0 <= p[2] /\ p[2] < y1
  <1> PICK b : b = Box(x0, y0, x1, y1)
    OBVIOUS
  <1>1. b.x0 = x0 /\ b.x1 = x1 /\ b.y0 = y0 /\ b.y1 = y1
    BY DEF Box
  <1>2. p \in Pixels(b) <=> p \in (x0 .. x1 - 1) \X (y0 .. y1 - 1)
    BY <1>1 DEF Pixels
  <1>3. p \in (x0 .. x1 - 1) \X (y0 .. y1 - 1) <=>
          p \in Int \X Int /\ p[1] \in x0 .. x1 - 1 /\ p[2] \in y0 .. y1 - 1
    OBVIOUS
  <1>4. p \in Int \X Int => p[1] \in Int /\ p[2] \in Int
    OBVIOUS
  <1> QED BY <1>2, <1>3, <1>4

\* The boxes between the cuts of two axes.
LEMMA GridTiles ==
  ASSUME NEW xs, NEW ys, NEW cols, NEW rows, NEW x0, NEW y0, NEW x1, NEW y1,
         Cuts(xs, cols, x0, x1), Cuts(ys, rows, y0, y1)
  PROVE  /\ Tiles(Grid(xs, ys, cols, rows), Box(x0, y0, x1, y1))
         /\ Grid(xs, ys, cols, rows) \in Seq(Boxes) /\ Grid(xs, ys, cols, rows) # <<>>
         /\ Len(Grid(xs, ys, cols, rows)) = cols * rows
  <1> DEFINE At(c, r) == Box(xs[c], ys[r], xs[c + 1], ys[r + 1])
             g == Grid(xs, ys, cols, rows)
             C(i) == (i - 1) % cols
             R(i) == (i - 1) \div cols
  <1>1. cols \in Nat \ {0} /\ rows \in Nat \ {0}
    BY DEF Cuts
  <1>2. DOMAIN g = 1 .. cols * rows /\ \A i \in DOMAIN g : g[i] = At(C(i), R(i))
    BY DEF Grid
  <1>3. \A i \in DOMAIN g : C(i) \in 0 .. cols - 1 /\ R(i) \in 0 .. rows - 1
    BY <1>1, <1>2, RowByRow
  <1>4. \A c \in 0 .. cols - 1, r \in 0 .. rows - 1 :
          /\ xs[c] \in Int /\ xs[c + 1] \in Int /\ ys[r] \in Int /\ ys[r + 1] \in Int
          /\ x0 <= xs[c] /\ xs[c] < xs[c + 1] /\ xs[c + 1] <= x1
          /\ y0 <= ys[r] /\ ys[r] < ys[r + 1] /\ ys[r + 1] <= y1
    BY DEF Cuts
  <1>5. x0 \in Int /\ y0 \in Int /\ x1 \in Int /\ y1 \in Int
    BY DEF Cuts
  <1>6. \A c \in 0 .. cols - 1, r \in 0 .. rows - 1 :
          At(c, r) \in Boxes /\ Covers(Box(x0, y0, x1, y1), At(c, r))
    BY <1>4, <1>5 DEF Boxes, Covers, Nonempty, Box
  <1>7. \A i \in DOMAIN g : g[i] \in Boxes /\ Covers(Box(x0, y0, x1, y1), g[i])
    BY <1>2, <1>3, <1>6
  <1>8. \A i, j \in DOMAIN g : i # j => Pixels(g[i]) \cap Pixels(g[j]) = {}
    <2> SUFFICES ASSUME NEW i \in DOMAIN g, NEW j \in DOMAIN g, i # j,
                        NEW p \in Pixels(g[i]) \cap Pixels(g[j])
                 PROVE  FALSE
      OBVIOUS
    <2>1. C(i) = C(j) /\ R(i) = R(j)
      <3> PICK x, y : x = p[1] /\ y = p[2]
        OBVIOUS
      <3>1. p \in Pixels(At(C(i), R(i))) /\ p \in Pixels(At(C(j), R(j)))
        BY <1>2
      <3> HIDE DEF C, R
      <3>2. /\ p \in Int \X Int /\ xs[C(i)] <= x /\ x < xs[C(i) + 1]
            /\ ys[R(i)] <= y /\ y < ys[R(i) + 1]
        BY <1>3, <1>4, <3>1, PixelsOfBox
      <3>3. xs[C(j)] <= x /\ x < xs[C(j) + 1] /\ ys[R(j)] <= y /\ y < ys[R(j) + 1]
        BY <1>3, <1>4, <3>1, PixelsOfBox
      <3>4. x \in Int /\ y \in Int
        BY <3>2
      <3> QED BY <1>3, <3>2, <3>3, <3>4, PiecesAreApart
    <2>2. i = cols * R(i) + C(i) + 1 /\ j = cols * R(j) + C(j) + 1
      BY <1>1, <1>2, RowByRow
    <2>3. i = j
      <3> HIDE DEF C, R
      <3> QED BY <2>1, <2>2
    <2> QED BY <2>3
  <1>9. \A p \in Pixels(Box(x0, y0, x1, y1)) : \E i \in DOMAIN g : p \in Pixels(g[i])
    <2> SUFFICES ASSUME NEW p \in Pixels(Box(x0, y0, x1, y1))
                 PROVE  \E i \in DOMAIN g : p \in Pixels(g[i])
      OBVIOUS
    <2> PICK x, y : x = p[1] /\ y = p[2]
      OBVIOUS
    <2>1. p \in Int \X Int /\ x \in Int /\ y \in Int /\ x0 <= x /\ x < x1 /\ y0 <= y /\ y < y1
      BY <1>5, PixelsOfBox
    <2>2. PICK c \in 0 .. cols - 1 : xs[c] <= x /\ x < xs[c + 1]
      BY <2>1, PieceOfPixel
    <2>3. PICK r \in 0 .. rows - 1 : ys[r] <= y /\ y < ys[r + 1]
      BY <2>1, PieceOfPixel
    <2>4. PICK i : i = cols * r + c + 1
      OBVIOUS
    <2>5. i \in 1 .. cols * rows /\ i - 1 = cols * r + c
      BY <1>1, <2>4, RowByRow
    <2>6. C(i) = c /\ R(i) = r
      BY <1>1, <2>5, RowByRow
    <2>7. g[i] = At(c, r)
      BY <1>2, <2>5, <2>6
    <2>8. p \in Pixels(At(c, r))
      BY <1>4, <2>1, <2>2, <2>3, PixelsOfBox
    <2> QED BY <1>2, <2>5, <2>7, <2>8
  <1>10. g \in Seq(Boxes) /\ Len(g) = cols * rows /\ g # <<>>
    <2>1. cols * rows \in Nat /\ cols * rows > 0
      BY <1>1
    <2>2. g = [i \in 1 .. cols * rows |-> g[i]] /\ \A i \in 1 .. cols * rows : g[i] \in Boxes
      BY <1>2, <1>7 DEF Grid
    <2> HIDE DEF g
    <2> PICK n : n = cols * rows
      OBVIOUS
    <2>3. g \in Seq(Boxes) /\ Len(g) = n
      BY <2>1, <2>2
    <2> QED BY <2>1, <2>3
  <1> QED BY <1>7, <1>8, <1>9, <1>10 DEF Tiles

\* Steps of one size, the last one cut off at the end of the axis.
LEMMA StepsCutAxis ==
  ASSUME NEW extent \in Nat \ {0}, NEW size \in Nat \ {0}
  PROVE  Cuts(StepCuts(extent, size), Steps(extent, size), 0, extent)
  <1> DEFINE xs == StepCuts(extent, size)
  <1> PICK n : n = Steps(extent, size)
    OBVIOUS
  <1>1. n \in Int /\ extent <= size * n /\ size * (n - 1) < extent
    BY DEF Steps
  <1>2. n \in Nat \ {0}
    <2>1. n <= 0 => size * n <= 0
      BY <1>1
    <2> QED BY <1>1, <2>1
  <1>3. \A i \in 0 .. n : xs[i] = Lesser(size * i, extent)
    BY DEF StepCuts
  <1>4. ASSUME NEW i \in 0 .. n - 1 PROVE xs[i] = size * i /\ size * i < extent
    <2>1. size * i <= size * (n - 1)
      BY <1>2
    <2> PICK m, k : m = size * i /\ k = size * (n - 1)
      OBVIOUS
    <2>2. m \in Int /\ k \in Int /\ m <= k /\ k < extent /\ xs[i] = Lesser(m, extent)
      BY <1>1, <1>2, <1>3, <2>1
    <2> QED BY <2>2 DEF Lesser
  <1>5. xs[n] = extent
    <2> PICK m : m = size * n
      OBVIOUS
    <2>1. m \in Int /\ extent <= m /\ xs[n] = Lesser(m, extent)
      BY <1>1, <1>2, <1>3
    <2> QED BY <2>1 DEF Lesser
  <1>6. xs[0] = 0
    BY <1>2, <1>4
  <1>7. \A i \in 0 .. n : xs[i] \in Int
    BY <1>2, <1>4, <1>5
  <1>8. ASSUME NEW i \in 0 .. n, NEW j \in 0 .. n, i < j PROVE xs[i] < xs[j]
    <2>1. i \in 0 .. n - 1
      BY <1>2, <1>8
    <2>2. CASE j = n
      BY <1>4, <1>5, <2>1, <2>2
    <2>3. CASE j # n
      <3>1. j \in 0 .. n - 1
        BY <1>2, <2>3
      <3>2. size * (i + 1) <= size * j
        BY <1>2, <1>8
      <3>3. size * (i + 1) = size * i + size
        BY <1>2
      <3> PICK m, k : m = size * i /\ k = size * j
        OBVIOUS
      <3>4. m \in Int /\ k \in Int /\ m + size <= k /\ xs[i] = m /\ xs[j] = k
        BY <1>2, <1>4, <2>1, <3>1, <3>2, <3>3
      <3> QED BY <3>4
    <2> QED BY <2>2, <2>3
  <1> QED BY <1>2, <1>5, <1>6, <1>7, <1>8 DEF Cuts

\* Pieces that differ by one pixel at most, as many as there are parts or pixels.
LEMMA SplitCutsAxis ==
  ASSUME NEW lo \in Int, NEW hi \in Int, lo < hi, NEW parts \in Nat \ {0}
  PROVE  Cuts(SplitAxis(lo, hi, parts), Lesser(parts, hi - lo), lo, hi)
  <1> DEFINE xs == SplitAxis(lo, hi, parts)
  <1> PICK n, base, rem :
        n = Lesser(parts, hi - lo) /\ base = (hi - lo) \div parts /\ rem = (hi - lo) % parts
    OBVIOUS
  <1>1. base \in Int /\ rem \in 0 .. parts - 1 /\ hi - lo = parts * base + rem
    OBVIOUS
  <1>2. n \in Nat \ {0} /\ n <= parts
    BY DEF Lesser
  <1>3. \A i \in 0 .. n : xs[i] = lo + i * base + Lesser(i, rem)
    BY <1>2 DEF SplitAxis
  <1>4. CASE hi - lo < parts
    <2>1. base = 0 /\ rem = hi - lo
      <3>1. hi - lo \in 0 .. parts - 1 /\ hi - lo = parts * 0 + (hi - lo)
        BY <1>4
      <3> QED BY <3>1, Quotient
    <2>2. n = hi - lo
      BY <1>4 DEF Lesser
    <2>3. \A i \in 0 .. n : xs[i] = lo + i
      BY <1>2, <1>3, <2>1, <2>2 DEF Lesser
    <2> QED BY <1>2, <2>2, <2>3 DEF Cuts
  <1>5. CASE parts <= hi - lo
    <2>1. n = parts
      BY <1>5 DEF Lesser
    <2>2. base >= 1
      <3>1. base <= 0 => parts * base <= 0
        BY <1>1
      <3> PICK m : m = parts * base
        OBVIOUS
      <3>2. m \in Int /\ hi - lo = m + rem /\ (base <= 0 => m <= 0)
        BY <1>1, <3>1
      <3> QED BY <1>1, <1>5, <3>2
    <2>3. ASSUME NEW i \in 0 .. n, NEW j \in 0 .. n, i < j
          PROVE  xs[i] \in Int /\ xs[j] \in Int /\ xs[i] < xs[j]
      <3>1. (i + 1) * base <= j * base
        <4>1. i + 1 \in Int /\ j \in Int /\ i + 1 <= j
          BY <1>2, <2>3
        <4> QED BY <1>1, <2>2, <4>1
      <3>2. (i + 1) * base = i * base + base
        BY <1>1, <1>2
      <3> PICK m, k : m = i * base /\ k = j * base
        OBVIOUS
      <3>3. m \in Int /\ k \in Int /\ m + base <= k
        BY <1>1, <1>2, <3>1, <3>2
      <3>4. xs[i] = lo + m + Lesser(i, rem) /\ xs[j] = lo + k + Lesser(j, rem)
        BY <1>3
      <3>5. Lesser(i, rem) \in Int /\ Lesser(j, rem) \in Int /\ Lesser(i, rem) <= Lesser(j, rem)
        BY <1>1, <1>2, <2>3 DEF Lesser
      <3> QED BY <1>1, <2>2, <3>3, <3>4, <3>5
    <2>4. xs[0] = lo
      BY <1>1, <1>2, <1>3 DEF Lesser
    <2>5. xs[n] = hi
      <3>1. xs[n] = lo + parts * base + Lesser(parts, rem)
        BY <1>2, <1>3, <2>1
      <3> PICK m : m = parts * base
        OBVIOUS
      <3>2. m \in Int /\ Lesser(parts, rem) = rem /\ hi - lo = m + rem
        BY <1>1 DEF Lesser
      <3> QED BY <1>1, <3>1, <3>2
    <2>6. \A i \in 0 .. n : xs[i] \in Int
      BY <1>2, <2>3, <2>5
    <2> QED BY <1>2, <2>3, <2>4, <2>5, <2>6 DEF Cuts
  <1> QED BY <1>4, <1>5

\* The plan of a chip, for every size of chip and core: each pixel is in exactly one core.
THEOREM CoreGridTiles ==
  ASSUME NEW w \in Nat \ {0}, NEW h \in Nat \ {0}, NEW size \in Nat \ {0}
  PROVE  Tiles(CoreGrid(w, h, size), Box(0, 0, w, h)) /\ CoreGrid(w, h, size) \in Seq(Boxes)
  BY StepsCutAxis, GridTiles DEF CoreGrid

\* The children of a core, for every core and number of parts: each of its pixels is in
\* exactly one, also where a side has fewer pixels than parts or is no multiple of them.
THEOREM PartitionTiles ==
  ASSUME NEW b \in Boxes, NEW parts \in Nat \ {0}
  PROVE  /\ Tiles(PartitionCore(b, parts), b)
         /\ PartitionCore(b, parts) \in Seq(Boxes) /\ PartitionCore(b, parts) # <<>>
         /\ Len(PartitionCore(b, parts)) <= parts * parts
  <1> PICK xs, ys, cols, rows :
        /\ xs = SplitAxis(b.x0, b.x1, parts) /\ cols = Lesser(parts, b.x1 - b.x0)
        /\ ys = SplitAxis(b.y0, b.y1, parts) /\ rows = Lesser(parts, b.y1 - b.y0)
    OBVIOUS
  <1>1. /\ b.x0 \in Int /\ b.x1 \in Int /\ b.x0 < b.x1 /\ b.y0 \in Int /\ b.y1 \in Int /\ b.y0 < b.y1
        /\ b = Box(b.x0, b.y0, b.x1, b.y1)
    BY DEF Boxes, Nonempty, Box
  <1>2. Cuts(xs, cols, b.x0, b.x1) /\ Cuts(ys, rows, b.y0, b.y1)
    BY <1>1, SplitCutsAxis
  <1>3. /\ Tiles(Grid(xs, ys, cols, rows), b)
        /\ Grid(xs, ys, cols, rows) \in Seq(Boxes) /\ Grid(xs, ys, cols, rows) # <<>>
        /\ Len(Grid(xs, ys, cols, rows)) = cols * rows
    BY <1>1, <1>2, GridTiles
  <1>4. cols \in Nat /\ rows \in Nat /\ cols <= parts /\ rows <= parts
    BY <1>1 DEF Lesser
  <1>5. cols * rows <= parts * rows /\ parts * rows <= parts * parts
    BY <1>4
  <1>6. cols * rows <= parts * parts
    BY <1>4, <1>5
  <1> QED BY <1>3, <1>6 DEF PartitionCore

-----------------------------------------------------------------------------
(* Areas                                                                       *)

\* What it is for g to give the sum of f over each part of S.
Sums(g, f, S) ==
  /\ g \in [SUBSET S -> Int] /\ g[{}] = 0
  /\ \A T \in SUBSET S : \A x \in T : g[T] = f[x] + g[T \ {x}]

\* In whatever order a fold takes the terms, it comes to that.
LEMMA SumIsUnique ==
  ASSUME NEW S, IsFiniteSet(S), NEW f, NEW g, Sums(g, f, S)
  PROVE  SumFunctionOnSet(f, S) = g[S]
  <1> USE DEF Sums
  <1> DEFINE One(T) == CHOOSE x \in T : TRUE
             Adds(h) == h = [T \in SUBSET S |-> IF T = {} THEN 0 ELSE f[One(T)] + h[T \ {One(T)}]]
  <1>1. \A T \in SUBSET S : T # {} => One(T) \in T /\ T \ {One(T)} \in SUBSET S
    OBVIOUS
  <1> HIDE DEF One
  <1>2. Adds(g)
    <2>1. \A T \in SUBSET S : g[T] = IF T = {} THEN 0 ELSE f[One(T)] + g[T \ {One(T)}]
      BY <1>1
    <2> QED BY <2>1
  <1>3. ASSUME NEW h, Adds(h) PROVE h[S] = g[S]
    <2> DEFINE Differ == {n \in Nat : \E T \in SUBSET S : Cardinality(T) = n /\ h[T] # g[T]}
    <2>1. \A T \in SUBSET S : h[T] = IF T = {} THEN 0 ELSE f[One(T)] + h[T \ {One(T)}]
      BY <1>3
    <2>2. Differ = {}
      <3> SUFFICES ASSUME Differ # {} PROVE FALSE
        OBVIOUS
      <3>1. PICK n \in Differ : \A m \in Differ : n <= m
        BY LeastNumber
      <3>2. PICK T \in SUBSET S : Cardinality(T) = n /\ h[T] # g[T]
        BY <3>1
      <3>3. T # {}
        BY <2>1, <3>2
      <3> PICK U : U = T \ {One(T)}
        OBVIOUS
      <3>4. One(T) \in T /\ U \in SUBSET S /\ Cardinality(U) = n - 1 /\ n - 1 \in Nat
        <4>1. IsFiniteSet(T)
          BY FS_Subset
        <4>2. IsFiniteSet(U) /\ Cardinality(U) = n - 1
          BY <1>1, <3>2, <3>3, <4>1, FS_RemoveElement
        <4> QED BY <1>1, <3>3, <4>2, FS_CardinalityType
      <3>5. h[U] = g[U]
        BY <3>1, <3>4
      <3>6. h[T] = f[One(T)] + h[U]
        BY <2>1, <3>3
      <3>7. g[T] = f[One(T)] + g[U]
        BY <3>4
      <3> QED BY <3>2, <3>5, <3>6, <3>7
    <2>3. Cardinality(S) \in Nat
      BY FS_CardinalityType
    <2> QED BY <2>2, <2>3
  <1> DEFINE sum == CHOOSE h : Adds(h)
  <1>4. Adds(sum)
    BY <1>2
  <1>5. sum[S] = g[S]
    BY <1>3, <1>4
  <1>6. SumFunctionOnSet(f, S) = sum[S]
    BY DEF SumFunctionOnSet, FoldFunctionOnSet, MapThenFoldSet, One
  <1> QED BY <1>5, <1>6

\* The area of a box is the number of its pixels.
LEMMA AreaCounts ==
  ASSUME NEW b \in Boxes
  PROVE  /\ IsFiniteSet(Pixels(b)) /\ Cardinality(Pixels(b)) = Area(b)
         /\ Pixels(b) # {} /\ Area(b) \in Nat
  <1>1. b.x0 \in Int /\ b.x1 \in Int /\ b.x0 < b.x1 /\ b.y0 \in Int /\ b.y1 \in Int /\ b.y0 < b.y1
    BY DEF Boxes, Nonempty
  <1>2. /\ IsFiniteSet(b.x0 .. b.x1 - 1) /\ Cardinality(b.x0 .. b.x1 - 1) = b.x1 - b.x0
        /\ IsFiniteSet(b.y0 .. b.y1 - 1) /\ Cardinality(b.y0 .. b.y1 - 1) = b.y1 - b.y0
    <2>1. ASSUME NEW lo \in Int, NEW hi \in Int, lo < hi
          PROVE  IsFiniteSet(lo .. hi - 1) /\ Cardinality(lo .. hi - 1) = hi - lo
      <3> PICK last : last = hi - 1
        OBVIOUS
      <3>1. last \in Int /\ ~(lo > last) /\ last - lo + 1 = hi - lo
        BY <2>1
      <3>2. IsFiniteSet(lo .. last) /\ Cardinality(lo .. last) = last - lo + 1
        BY <3>1, FS_Interval
      <3> QED BY <3>1, <3>2
    <2> QED BY <1>1, <2>1
  <1>3. IsFiniteSet(Pixels(b)) /\ Cardinality(Pixels(b)) = Area(b)
    <2> PICK cols, rows, wide, tall :
          /\ cols = b.x0 .. b.x1 - 1 /\ wide = b.x1 - b.x0
          /\ rows = b.y0 .. b.y1 - 1 /\ tall = b.y1 - b.y0
      OBVIOUS
    <2>1. /\ IsFiniteSet(cols) /\ Cardinality(cols) = wide
          /\ IsFiniteSet(rows) /\ Cardinality(rows) = tall
      BY <1>2
    <2>2. wide \in Int /\ tall \in Int /\ wide * tall = tall * wide
      BY <1>1
    <2>3. Pixels(b) = cols \X rows /\ Area(b) = wide * tall
      BY DEF Pixels, Area
    <2>4. /\ IsFiniteSet(cols \X rows)
          /\ Cardinality(cols \X rows) = Cardinality(cols) * Cardinality(rows)
      BY ONLY <2>1, FS_Product
    <2> QED BY ONLY <2>1, <2>3, <2>4
  <1>4. <<b.x0, b.y0>> \in Pixels(b)
    BY <1>1 DEF Pixels
  <1> QED BY <1>3, <1>4, FS_CardinalityType

\* The areas of boxes apart add up to the number of pixels that they have together.
LEMMA AreasAddUp ==
  ASSUME NEW S, IsFiniteSet(S), NEW core \in [S -> Boxes],
         \A x, y \in S : x # y => Pixels(core[x]) \cap Pixels(core[y]) = {}
  PROVE  /\ SumFunction([x \in S |-> Area(core[x])]) = Cardinality(UNION {Pixels(core[x]) : x \in S})
         /\ IsFiniteSet(UNION {Pixels(core[x]) : x \in S})
  <1>1. PICK all : all = [T \in SUBSET S |-> UNION {Pixels(core[x]) : x \in T}]
    OBVIOUS
  <1>2. PICK f : f = [x \in S |-> Area(core[x])]
    OBVIOUS
  <1>3. PICK g : g = [T \in SUBSET S |-> Cardinality(all[T])]
    OBVIOUS
  <1>4. ASSUME NEW T \in SUBSET S PROVE IsFiniteSet(all[T]) /\ Cardinality(all[T]) \in Nat
    <2> DEFINE pixels == {Pixels(core[x]) : x \in T}
               image == [x \in T |-> Pixels(core[x])]
    <2>1. IsFiniteSet(T)
      BY FS_Subset
    <2>2. image \in Surjection(T, pixels)
      BY DEF Surjection
    <2>3. IsFiniteSet(pixels)
      BY <2>1, <2>2, FS_Surjection
    <2>4. \A P \in pixels : IsFiniteSet(P)
      BY AreaCounts
    <2>5. IsFiniteSet(all[T])
      BY <1>1, <2>3, <2>4, FS_UNION
    <2> QED BY <2>5, FS_CardinalityType
  <1>5. ASSUME NEW T \in SUBSET S, NEW x \in T PROVE g[T] = f[x] + g[T \ {x}]
    <2>1. PICK U, P, Q, R : U = T \ {x} /\ P = Pixels(core[x]) /\ Q = all[U] /\ R = all[T]
      OBVIOUS
    <2>2. R = P \cup Q /\ P \cap Q = {}
      BY <1>1, <2>1
    <2>3. f[x] = Area(core[x]) /\ g[T] = Cardinality(R) /\ g[U] = Cardinality(Q)
      BY <1>2, <1>3, <2>1
    <2>4. /\ IsFiniteSet(P) /\ Cardinality(P) = f[x] /\ f[x] \in Nat
          /\ IsFiniteSet(Q) /\ Cardinality(Q) \in Nat
      BY <1>4, <2>1, <2>3, AreaCounts
    <2>5. Cardinality(P \cap Q) = 0
      BY <2>2, FS_EmptySet
    <2>6. Cardinality(P \cup Q) = Cardinality(P) + Cardinality(Q) - Cardinality(P \cap Q)
      BY <2>4, FS_Union
    <2>7. Cardinality(R) = f[x] + Cardinality(Q)
      BY <2>2, <2>4, <2>5, <2>6
    <2> QED BY <2>1, <2>3, <2>7
  <1>6. g[{}] = 0
    <2>1. all[{}] = {}
      BY <1>1
    <2> QED BY <1>3, <2>1, FS_EmptySet
  <1>7. g \in [SUBSET S -> Int]
    <2>1. \A T \in SUBSET S : Cardinality(all[T]) \in Int
      BY <1>4
    <2> QED BY <1>3, <2>1
  <1>8. \A T \in SUBSET S : \A x \in T : g[T] = f[x] + g[T \ {x}]
    BY <1>5
  <1>9. SumFunctionOnSet(f, S) = g[S]
    <2>1. Sums(g, f, S)
      BY <1>6, <1>7, <1>8 DEF Sums
    <2> QED BY <2>1, SumIsUnique
  <1>10. SumFunction(f) = Cardinality(all[S])
    <2>1. DOMAIN f = S /\ g[S] = Cardinality(all[S])
      BY <1>2, <1>3
    <2> QED BY <1>9, <2>1 DEF SumFunction
  <1> QED BY <1>1, <1>2, <1>4, <1>10

\* The same of a set of boxes.
LEMMA TotalAreaCounts ==
  ASSUME NEW boxes \in SUBSET Boxes, IsFiniteSet(boxes),
         \A a, b \in boxes : a # b => Pixels(a) \cap Pixels(b) = {}
  PROVE  TotalArea(boxes) = Cardinality(UNION {Pixels(b) : b \in boxes})
  <1>1. PICK core : core = [b \in boxes |-> b]
    OBVIOUS
  <1>2. core \in [boxes -> Boxes] /\ \A b \in boxes : core[b] = b
    BY <1>1
  <1>3. \A a, b \in boxes : a # b => Pixels(core[a]) \cap Pixels(core[b]) = {}
    BY <1>2
  <1>4. SumFunction([b \in boxes |-> Area(core[b])]) = Cardinality(UNION {Pixels(core[b]) : b \in boxes})
    BY <1>2, <1>3, AreasAddUp
  <1>5. /\ [b \in boxes |-> Area(core[b])] = [b \in boxes |-> Area(b)]
        /\ {Pixels(core[b]) : b \in boxes} = {Pixels(b) : b \in boxes}
    BY <1>2
  <1> QED BY <1>4, <1>5 DEF TotalArea

\* A box covers another exactly if it has its pixels.
LEMMA CoversPixels ==
  ASSUME NEW a \in Boxes, NEW b \in Boxes
  PROVE  Covers(a, b) <=> Pixels(b) \subseteq Pixels(a)
  <1>1. /\ a.x0 \in Int /\ a.x1 \in Int /\ a.y0 \in Int /\ a.y1 \in Int
        /\ b.x0 \in Int /\ b.x1 \in Int /\ b.x0 < b.x1 /\ b.y0 \in Int /\ b.y1 \in Int /\ b.y0 < b.y1
        /\ a = Box(a.x0, a.y0, a.x1, a.y1) /\ b = Box(b.x0, b.y0, b.x1, b.y1)
    BY DEF Boxes, Nonempty, Box
  <1>2. ASSUME Covers(a, b) PROVE Pixels(b) \subseteq Pixels(a)
    <2> SUFFICES ASSUME NEW p \in Pixels(b) PROVE p \in Pixels(a)
      OBVIOUS
    <2>1. p \in Int \X Int /\ b.x0 <= p[1] /\ p[1] < b.x1 /\ b.y0 <= p[2] /\ p[2] < b.y1
      BY <1>1, PixelsOfBox
    <2>2. a.x0 <= p[1] /\ p[1] < a.x1 /\ a.y0 <= p[2] /\ p[2] < a.y1
      BY <1>1, <1>2, <2>1 DEF Covers
    <2> QED BY <1>1, <2>1, <2>2, PixelsOfBox
  <1>3. ASSUME Pixels(b) \subseteq Pixels(a) PROVE Covers(a, b)
    <2>1. ASSUME NEW x \in Int, NEW y \in Int, b.x0 <= x, x < b.x1, b.y0 <= y, y < b.y1
          PROVE  a.x0 <= x /\ x < a.x1 /\ a.y0 <= y /\ y < a.y1
      <3> PICK p : p = <<x, y>>
        OBVIOUS
      <3>1. p \in Int \X Int /\ p[1] = x /\ p[2] = y
        OBVIOUS
      <3>2. p \in Pixels(b)
        BY <1>1, <2>1, <3>1, PixelsOfBox
      <3>3. p \in Pixels(a)
        BY <1>3, <3>2
      <3> QED BY <1>1, <3>1, <3>3, PixelsOfBox
    <2>2. a.x0 <= b.x0 /\ a.y0 <= b.y0
      BY <1>1, <2>1
    <2>3. b.x1 - 1 < a.x1 /\ b.y1 - 1 < a.y1
      BY <1>1, <2>1
    <2> QED BY <1>1, <2>2, <2>3 DEF Covers
  <1> QED BY <1>2, <1>3

\* What a tiling has together.
LEMMA TilesTogether ==
  ASSUME NEW region \in Boxes, NEW boxes, Tiles(boxes, region)
  PROVE  UNION {Pixels(boxes[i]) : i \in DOMAIN boxes} = Pixels(region)
  <1>1. \A i \in DOMAIN boxes : Pixels(boxes[i]) \subseteq Pixels(region)
    BY CoversPixels DEF Tiles
  <1>2. \A p \in Pixels(region) : \E i \in DOMAIN boxes : p \in Pixels(boxes[i])
    BY DEF Tiles
  <1> QED BY <1>1, <1>2

\* No box is there twice.
LEMMA TilesDiffer ==
  ASSUME NEW region \in Boxes, NEW boxes, Tiles(boxes, region)
  PROVE  IsInjective(boxes)
  <1>1. \A i, j \in DOMAIN boxes : boxes[i] = boxes[j] => i = j
    BY AreaCounts DEF Tiles
  <1> QED BY <1>1 DEF IsInjective

\* A tiling is an exact cover, in the sense that the bounded checks ask of it.
LEMMA TilesCover ==
  ASSUME NEW region \in Boxes, NEW boxes, Tiles(boxes, region)
  PROVE  ExactCover(boxes, Pixels(region))
  <1>1. \A i \in DOMAIN boxes : Pixels(boxes[i]) \subseteq Pixels(region) /\ Pixels(boxes[i]) # {}
    BY CoversPixels, AreaCounts DEF Tiles
  <1>2. ASSUME NEW p \in Pixels(region)
        PROVE  Cardinality({i \in DOMAIN boxes : p \in Pixels(boxes[i])}) = 1
    <2>1. PICK i \in DOMAIN boxes : p \in Pixels(boxes[i])
      BY DEF Tiles
    <2>2. \A j \in DOMAIN boxes : p \in Pixels(boxes[j]) => j = i
      BY <2>1 DEF Tiles
    <2>3. {j \in DOMAIN boxes : p \in Pixels(boxes[j])} = {i}
      BY <2>1, <2>2
    <2> QED BY <2>3, FS_Singleton
  <1> QED BY <1>1, <1>2 DEF ExactCover

\* The check of the ownership tree accepts every tiling of the parent.
LEMMA TilesPassCheck ==
  ASSUME NEW parent \in Boxes, NEW boxes \in Seq(Boxes), boxes # <<>>, Tiles(boxes, parent)
  PROVE  CheckPartition(parent, boxes)
  <1>1. \A i \in DOMAIN boxes : Covers(parent, boxes[i])
    BY DEF Tiles
  <1>2. PICK all : all = Range(boxes)
    OBVIOUS
  <1>3. all = {boxes[i] : i \in DOMAIN boxes}
    BY <1>2 DEF Range
  <1>4. IsFiniteSet(all)
    <2>1. DOMAIN boxes = 1 .. Len(boxes) /\ Len(boxes) \in Nat
      OBVIOUS
    <2>2. IsFiniteSet(DOMAIN boxes)
      BY <2>1, FS_Interval
    <2>3. boxes \in Surjection(DOMAIN boxes, all)
      BY <1>3 DEF Surjection
    <2> QED BY <2>2, <2>3, FS_Surjection
  <1>5. all \in SUBSET Boxes /\ \A a, b \in all : a # b => Pixels(a) \cap Pixels(b) = {}
    BY <1>3 DEF Tiles
  <1>6. TotalArea(all) = Cardinality(UNION {Pixels(b) : b \in all})
    BY <1>4, <1>5, TotalAreaCounts
  <1>7. UNION {Pixels(b) : b \in all} = UNION {Pixels(boxes[i]) : i \in DOMAIN boxes}
    BY <1>3
  <1>8. TotalArea(all) = Area(parent)
    <2>1. UNION {Pixels(boxes[i]) : i \in DOMAIN boxes} = Pixels(parent)
      BY TilesTogether
    <2>2. Cardinality(Pixels(parent)) = Area(parent)
      BY AreaCounts
    <2> QED BY ONLY <1>6, <1>7, <2>1, <2>2
  <1> QED BY <1>1, <1>2, <1>8, TilesDiffer DEF CheckPartition

\* The cores of a grid are an exact cover of the chip.
LEMMA CoreGridCovers ==
  ASSUME NEW w \in Nat \ {0}, NEW h \in Nat \ {0}, NEW size \in Nat \ {0}
  PROVE  ExactCover(CoreGrid(w, h, size), Pixels(Box(0, 0, w, h)))
  <1>1. Box(0, 0, w, h) \in Boxes
    BY DEF Box, Boxes, Nonempty
  <1> QED BY <1>1, CoreGridTiles, TilesCover

\* A core is split into an exact cover of it that the fail-closed check of the ownership tree
\* accepts, for every core and number of parts.
THEOREM SplitConserves ==
  ASSUME NEW b \in Boxes, NEW parts \in Nat \ {0}
  PROVE  ExactCover(PartitionCore(b, parts), Pixels(b)) /\ CheckPartition(b, PartitionCore(b, parts))
  BY PartitionTiles, TilesCover, TilesPassCheck

\* Pixel p is in leaf (i, j) of a grid some cores of which are split, core i into parts[i] per
\* side: in its j-th child, or, where it is not split, in core i itself (j = 0).
OwnsPixel(grid, parts, i, j, p) ==
  /\ i \in DOMAIN grid
  /\ IF i \in DOMAIN parts
     THEN LET children == PartitionCore(grid[i], parts[i])
          IN  j \in DOMAIN children /\ p \in Pixels(children[j])
     ELSE j = 0 /\ p \in Pixels(grid[i])

\* Whichever cores of a chip are split, and into however many parts each, every pixel of the
\* chip belongs to exactly one leaf, and nothing else belongs to any.
THEOREM EveryPixelHasACore ==
  ASSUME NEW w \in Nat \ {0}, NEW h \in Nat \ {0}, NEW size \in Nat \ {0},
         NEW split \in SUBSET DOMAIN CoreGrid(w, h, size), NEW parts \in [split -> Nat \ {0}]
  PROVE  LET grid == CoreGrid(w, h, size)
         IN  /\ \A p \in Pixels(Box(0, 0, w, h)) :
                  \E i, j : /\ OwnsPixel(grid, parts, i, j, p)
                            /\ \A k, l : OwnsPixel(grid, parts, k, l, p) => k = i /\ l = j
             /\ \A i, j, p : OwnsPixel(grid, parts, i, j, p) => p \in Pixels(Box(0, 0, w, h))
  <1> PICK grid, chip : grid = CoreGrid(w, h, size) /\ chip = Box(0, 0, w, h)
    OBVIOUS
  <1>0. Box(0, 0, w, h) \in Boxes
    BY DEF Box, Boxes, Nonempty
  <1>1. Tiles(grid, chip) /\ chip \in Boxes
    BY <1>0, CoreGridTiles
  <1>2. ASSUME NEW i \in DOMAIN grid
        PROVE  /\ grid[i] \in Boxes /\ Pixels(grid[i]) \subseteq Pixels(chip)
               /\ i \in split => Tiles(PartitionCore(grid[i], parts[i]), grid[i])
    <2>1. grid[i] \in Boxes /\ Covers(chip, grid[i])
      BY <1>1 DEF Tiles
    <2>2. i \in split => parts[i] \in Nat \ {0}
      OBVIOUS
    <2> QED BY <1>1, <2>1, <2>2, CoversPixels, PartitionTiles
  <1>3. ASSUME NEW i, NEW j, NEW p, OwnsPixel(grid, parts, i, j, p)
        PROVE  i \in DOMAIN grid /\ p \in Pixels(grid[i]) /\ p \in Pixels(chip)
    <2>1. CASE i \in split
      <3> PICK children : children = PartitionCore(grid[i], parts[i])
        OBVIOUS
      <3>1. i \in DOMAIN grid /\ j \in DOMAIN children /\ p \in Pixels(children[j])
        BY <1>3, <2>1 DEF OwnsPixel
      <3>2. children[j] \in Boxes /\ Covers(grid[i], children[j])
        BY <1>2, <2>1, <3>1 DEF Tiles
      <3> QED BY <1>2, <3>1, <3>2, CoversPixels
    <2>2. CASE i \notin split
      BY <1>2, <1>3, <2>2 DEF OwnsPixel
    <2> QED BY <2>1, <2>2
  <1>4. ASSUME NEW p \in Pixels(chip)
        PROVE  \E i, j : /\ OwnsPixel(grid, parts, i, j, p)
                         /\ \A k, l : OwnsPixel(grid, parts, k, l, p) => k = i /\ l = j
    <2>1. PICK i \in DOMAIN grid : p \in Pixels(grid[i])
      BY <1>1 DEF Tiles
    <2>2. ASSUME NEW k, NEW l, OwnsPixel(grid, parts, k, l, p) PROVE k = i
      <3>1. k \in DOMAIN grid /\ p \in Pixels(grid[k])
        BY <1>3, <2>2
      <3> QED BY <1>1, <2>1, <3>1 DEF Tiles
    <2>3. CASE i \in split
      <3> PICK children : children = PartitionCore(grid[i], parts[i])
        OBVIOUS
      <3>1. Tiles(children, grid[i])
        BY <1>2, <2>1, <2>3
      <3>2. PICK j \in DOMAIN children : p \in Pixels(children[j])
        BY <2>1, <3>1 DEF Tiles
      <3>3. OwnsPixel(grid, parts, i, j, p)
        BY <2>1, <2>3, <3>2 DEF OwnsPixel
      <3>4. ASSUME NEW l, OwnsPixel(grid, parts, i, l, p) PROVE l = j
        <4>1. l \in DOMAIN children /\ p \in Pixels(children[l])
          BY <2>3, <3>4 DEF OwnsPixel
        <4> QED BY <3>1, <3>2, <4>1 DEF Tiles
      <3> QED BY <2>2, <3>3, <3>4
    <2>4. CASE i \notin split
      <3>1. OwnsPixel(grid, parts, i, 0, p)
        BY <2>1, <2>4 DEF OwnsPixel
      <3>2. \A l : OwnsPixel(grid, parts, i, l, p) => l = 0
        BY <2>4 DEF OwnsPixel
      <3> QED BY <2>2, <3>1, <3>2
    <2> QED BY <2>3, <2>4
  <1> QED BY <1>3, <1>4

-----------------------------------------------------------------------------
(* Folds                                                                       *)

\* The sets of an image are as finite as their origin.
LEMMA FiniteImage ==
  ASSUME NEW S, IsFiniteSet(S), NEW f
  PROVE  IsFiniteSet({f[x] : x \in S})
  <1> DEFINE T == {f[x] : x \in S}
             g == [x \in S |-> f[x]]
  <1>1. g \in Surjection(S, T)
    BY DEF Surjection
  <1> HIDE DEF T, g
  <1>2. IsFiniteSet(T)
    BY <1>1, FS_Surjection
  <1> QED BY <1>2 DEF T

\* What a fold over S that takes the elements as c chooses them and starts at base
\* has come to after any part of S.
Folds(h, S, c, base, F) ==
  h = [T \in SUBSET S |-> IF T = {} THEN base ELSE F[<<h[T \ {c[T]}], c[T]>>]]

\* That c chooses an element of every part of S.
Chooses(c, S) == \A T \in SUBSET S : T # {} => c[T] \in T

\* That a fold that is Good after some elements is Good after the next.
Preserves(F, S, c, Good) ==
  \A T \in SUBSET S : T # {} =>
    \A v : <<T \ {c[T]}, v>> \in Good => <<T, F[<<v, c[T]>>]>> \in Good

\* The steps of a fold: the parts of S become smaller by one.
LEMMA PartsOfFold ==
  ASSUME NEW S, IsFiniteSet(S), NEW c, Chooses(c, S)
  PROVE  /\ \A T \in SUBSET S : /\ IsFiniteSet(T) /\ Cardinality(T) \in Nat
                                /\ Cardinality(T) <= Cardinality(S)
                                /\ Cardinality(T) = 0 <=> T = {}
         /\ \A T \in SUBSET S : T # {} =>
              /\ T \ {c[T]} \in SUBSET S /\ Cardinality(T) - 1 \in Nat
              /\ Cardinality(T \ {c[T]}) = Cardinality(T) - 1
  <1>1. \A T \in SUBSET S : /\ IsFiniteSet(T) /\ Cardinality(T) \in Nat
                            /\ Cardinality(T) <= Cardinality(S)
                            /\ Cardinality(T) = 0 <=> T = {}
    BY FS_Subset, FS_CardinalityType, FS_EmptySet
  <1>2. ASSUME NEW T \in SUBSET S, T # {}
        PROVE  /\ T \ {c[T]} \in SUBSET S /\ Cardinality(T) - 1 \in Nat
               /\ Cardinality(T \ {c[T]}) = Cardinality(T) - 1
    <2>1. IsFiniteSet(T) /\ c[T] \in T /\ Cardinality(T) \in Nat /\ Cardinality(T) # 0
      BY <1>1, <1>2 DEF Chooses
    <2>2. Cardinality(T \ {c[T]}) = Cardinality(T) - 1
      BY <2>1, FS_RemoveElement
    <2> QED BY <2>1, <2>2
  <1> QED BY <1>1, <1>2

\* A fold has a value, and what each of its steps preserves holds of it.
LEMMA FoldExists ==
  ASSUME NEW S, IsFiniteSet(S), NEW c, Chooses(c, S),
         NEW base, NEW F, NEW Good, <<{}, base>> \in Good, Preserves(F, S, c, Good)
  PROVE  \E h : Folds(h, S, c, base, F) /\ \A T \in SUBSET S : <<T, h[T]>> \in Good
  <1> DEFINE Value(h, T) == IF T = {} THEN base ELSE F[<<h[T \ {c[T]}], c[T]>>]
             Upto(h, n) == \A T \in SUBSET S : Cardinality(T) <= n => h[T] = Value(h, T)
             Without == {n \in Nat : ~\E h : Upto(h, n)}
  <1>1. /\ \A T \in SUBSET S : /\ IsFiniteSet(T) /\ Cardinality(T) \in Nat
                               /\ Cardinality(T) <= Cardinality(S)
                               /\ Cardinality(T) = 0 <=> T = {}
        /\ \A T \in SUBSET S : T # {} =>
             /\ T \ {c[T]} \in SUBSET S /\ Cardinality(T) - 1 \in Nat
             /\ Cardinality(T \ {c[T]}) = Cardinality(T) - 1
    BY PartsOfFold
  <1>2. Without = {}
    <2> SUFFICES ASSUME Without # {} PROVE FALSE
      OBVIOUS
    <2>1. PICK n \in Without : \A m \in Without : n <= m
      BY LeastNumber
    <2>2. CASE n = 0
      <3>1. PICK h : h = [T \in SUBSET S |-> base]
        OBVIOUS
      <3>2. Upto(h, 0)
        <4>1. ASSUME NEW T \in SUBSET S, Cardinality(T) <= 0 PROVE T = {}
          <5>1. Cardinality(T) \in Nat /\ (Cardinality(T) = 0 <=> T = {})
            BY <1>1
          <5> HIDE DEF Upto, Without, Value
          <5> QED BY <4>1, <5>1
        <4> QED BY <3>1, <4>1
      <3> QED BY <2>1, <2>2, <3>2
    <2>3. CASE n # 0
      <3>1. n - 1 \in Nat /\ n - 1 \notin Without
        <4>1. n \in Nat /\ n - 1 \in Nat /\ ~(n <= n - 1)
          BY <2>3
        <4> HIDE DEF Without
        <4> QED BY <2>1, <4>1
      <3>2. PICK h : Upto(h, n - 1)
        BY <3>1
      <3>3. PICK g : g = [T \in SUBSET S |-> Value(h, T)]
        OBVIOUS
      <3>4. \A T \in SUBSET S : Cardinality(T) <= n - 1 => g[T] = h[T]
        BY <3>2, <3>3
      <3>5. ASSUME NEW T \in SUBSET S, Cardinality(T) <= n PROVE g[T] = Value(g, T)
        <4>1. CASE T = {}
          BY <3>3, <4>1
        <4>2. CASE T # {}
          <5>1. T \ {c[T]} \in SUBSET S /\ Cardinality(T \ {c[T]}) <= n - 1
            <6>1. /\ T \ {c[T]} \in SUBSET S /\ Cardinality(T \ {c[T]}) = Cardinality(T) - 1
                  /\ Cardinality(T) \in Nat /\ n \in Nat
              BY <1>1, <4>2
            <6> HIDE DEF Upto, Without, Value
            <6> QED BY <3>5, <6>1
          <5>2. g[T \ {c[T]}] = h[T \ {c[T]}]
            BY <3>4, <5>1
          <5> QED BY <3>3, <5>2
        <4> QED BY <4>1, <4>2
      <3>6. Upto(g, n)
        BY <3>5
      <3> HIDE DEF Upto
      <3> QED BY <2>1, <3>6
    <2> QED BY <2>2, <2>3
  <1>3. Cardinality(S) \in Nat
    BY FS_CardinalityType
  <1>4. PICK h : Upto(h, Cardinality(S))
    BY <1>2, <1>3
  <1>5. PICK g : g = [T \in SUBSET S |-> h[T]]
    OBVIOUS
  <1>6. \A T \in SUBSET S : g[T] = Value(g, T)
    <2>1. \A T \in SUBSET S : h[T] = Value(h, T)
      BY <1>1, <1>4
    <2>2. \A T \in SUBSET S : g[T] = h[T] /\ g[T \ {c[T]}] = h[T \ {c[T]}]
      BY <1>5
    <2> QED BY <2>1, <2>2
  <1>7. Folds(g, S, c, base, F)
    <2>1. g = [T \in SUBSET S |-> Value(g, T)]
      <3> HIDE DEF Value
      <3> QED BY <1>5, <1>6
    <2> QED BY <2>1 DEF Folds
  <1>8. \A T \in SUBSET S : <<T, g[T]>> \in Good
    <2> DEFINE Bad == {n \in Nat : \E T \in SUBSET S : Cardinality(T) = n /\ <<T, g[T]>> \notin Good}
    <2>1. Bad = {}
      <3> SUFFICES ASSUME Bad # {} PROVE FALSE
        OBVIOUS
      <3>1. PICK n \in Bad : \A m \in Bad : n <= m
        BY LeastNumber
      <3>2. PICK T \in SUBSET S : Cardinality(T) = n /\ <<T, g[T]>> \notin Good
        BY <3>1
      <3>3. T # {}
        BY <1>6, <3>2
      <3>4. <<T \ {c[T]}, g[T \ {c[T]}]>> \in Good
        <4>1. T \ {c[T]} \in SUBSET S /\ Cardinality(T \ {c[T]}) = n - 1 /\ n - 1 \in Nat
          BY <1>1, <3>2, <3>3
        <4>2. n - 1 \notin Bad
          <5>1. n \in Nat /\ ~(n <= n - 1)
            OBVIOUS
          <5> HIDE DEF Bad
          <5> QED BY <3>1, <5>1
        <4> QED BY <4>1, <4>2
      <3>5. g[T] = F[<<g[T \ {c[T]}], c[T]>>]
        BY <1>6, <3>3
      <3> QED BY <3>2, <3>3, <3>4, <3>5 DEF Preserves
    <2> QED BY <1>1, <2>1
  <1> QED BY <1>7, <1>8

\* A fold has one value.
LEMMA FoldIsOne ==
  ASSUME NEW S, IsFiniteSet(S), NEW c, Chooses(c, S),
         NEW base, NEW F, NEW g, NEW h, Folds(g, S, c, base, F), Folds(h, S, c, base, F)
  PROVE  g[S] = h[S]
  <1> DEFINE Differ == {n \in Nat : \E T \in SUBSET S : Cardinality(T) = n /\ h[T] # g[T]}
  <1>1. /\ \A T \in SUBSET S : /\ IsFiniteSet(T) /\ Cardinality(T) \in Nat
                               /\ Cardinality(T) <= Cardinality(S)
                               /\ Cardinality(T) = 0 <=> T = {}
        /\ \A T \in SUBSET S : T # {} =>
             /\ T \ {c[T]} \in SUBSET S /\ Cardinality(T) - 1 \in Nat
             /\ Cardinality(T \ {c[T]}) = Cardinality(T) - 1
    BY PartsOfFold
  <1>2. \A T \in SUBSET S :
          /\ g[T] = IF T = {} THEN base ELSE F[<<g[T \ {c[T]}], c[T]>>]
          /\ h[T] = IF T = {} THEN base ELSE F[<<h[T \ {c[T]}], c[T]>>]
    BY DEF Folds
  <1>3. Differ = {}
    <2> SUFFICES ASSUME Differ # {} PROVE FALSE
      OBVIOUS
    <2>1. PICK n \in Differ : \A m \in Differ : n <= m
      BY LeastNumber
    <2>2. PICK T \in SUBSET S : Cardinality(T) = n /\ h[T] # g[T]
      BY <2>1
    <2>3. T # {}
      BY <1>2, <2>2
    <2>4. h[T \ {c[T]}] = g[T \ {c[T]}]
      <3>1. T \ {c[T]} \in SUBSET S /\ Cardinality(T \ {c[T]}) = n - 1 /\ n - 1 \in Nat
        BY <1>1, <2>2, <2>3
      <3>2. n - 1 \notin Differ
        <4>1. n \in Nat /\ ~(n <= n - 1)
          OBVIOUS
        <4> HIDE DEF Differ
        <4> QED BY <2>1, <4>1
      <3> QED BY <3>1, <3>2
    <2>5. g[T] = F[<<g[T \ {c[T]}], c[T]>>]
      BY <1>2, <2>3
    <2>6. h[T] = F[<<h[T \ {c[T]}], c[T]>>]
      BY <1>2, <2>3
    <2> QED BY <2>2, <2>4, <2>5, <2>6
  <1> QED BY <1>1, <1>3

-----------------------------------------------------------------------------
(* Scan conversion                                                             *)

\* Points are pairs of whole numbers, and a loop is a sequence of them.
Points == Int \X Int

\* A pixel whose centre is not to the left of num / den.
LEMMA CentreIsRight ==
  ASSUME NEW den \in Nat \ {0}, NEW num \in Int, NEW x \in Int
  PROVE  /\ -((den - 2 * num) \div (2 * den)) \in Int
         /\ -((den - 2 * num) \div (2 * den)) <= x <=> 2 * num <= (2 * x + 1) * den
  <1> PICK m, a : m = 2 * den /\ a = den - 2 * num
    OBVIOUS
  <1>1. m \in Nat \ {0} /\ a \in Int
    OBVIOUS
  <1> PICK q : q = a \div m
    OBVIOUS
  <1>2. q \in Int /\ m * q <= a /\ a < m * q + m
    BY <1>1
  <1>3. -x <= q <=> m * (-x) <= a
    <2>1. ASSUME -x <= q PROVE m * (-x) <= a
      <3>1. m * (-x) <= m * q
        BY <1>1, <1>2, <2>1
      <3> QED BY <1>1, <1>2, <3>1
    <2>2. ASSUME ~(-x <= q) PROVE ~(m * (-x) <= a)
      <3>1. q + 1 <= -x
        BY <1>2, <2>2
      <3>2. m * (q + 1) <= m * (-x)
        BY <1>1, <1>2, <3>1
      <3>3. m * (q + 1) = m * q + m
        BY <1>1, <1>2
      <3> QED BY <1>1, <1>2, <3>2, <3>3
    <2> QED BY <2>1, <2>2
  <1>4. m * (-x) <= a <=> 2 * num <= (2 * x + 1) * den
    <2>1. m * (-x) = -(2 * (x * den)) /\ (2 * x + 1) * den = 2 * (x * den) + den /\ x * den \in Int
      OBVIOUS
    <2> QED BY <2>1
  <1> QED BY <1>2, <1>3, <1>4

\* The pixel is to the right of an edge that crosses its row.
RightOf(loop, i, x, y) ==
  LET p == loop[i]
      q == loop[(i % Len(loop)) + 1]
      up == q[2] - p[2]
      at == 2 * p[1] * up + (2 * y + 1 - 2 * p[2]) * (q[1] - p[1])
  IN  \/ p[2] <= y /\ y < q[2] /\ at <= (2 * x + 1) * up
      \/ q[2] <= y /\ y < p[2] /\ at >= (2 * x + 1) * up

\* The end of an edge is a vertex.
LEMMA EdgesEnd ==
  ASSUME NEW loop \in Seq(Points), NEW i \in DOMAIN loop
  PROVE  /\ (i % Len(loop)) + 1 \in DOMAIN loop
         /\ loop[i] \in Points /\ loop[(i % Len(loop)) + 1] \in Points
  <1> PICK n \in Nat : n = Len(loop) /\ DOMAIN loop = 1 .. n
    OBVIOUS
  <1>1. n > 0 /\ i \in Int
    OBVIOUS
  <1>2. i % n \in 0 .. n - 1
    BY <1>1
  <1> QED BY <1>2

\* Where a rising edge from <<a, b>> to <<c, d>> meets the row.
LEMMA RisingEdge ==
  ASSUME NEW a \in Int, NEW b \in Int, NEW c \in Int, NEW d \in Int, NEW x \in Int, NEW y \in Int,
         b <= y, y < d,
         NEW den, NEW num, den = 2 * (d - b), num = a * den + (2 * y + 1 - 2 * b) * (c - a)
  PROVE  /\ -((den - 2 * num) \div (2 * den)) \in Int
         /\ -((den - 2 * num) \div (2 * den)) <= x <=>
              2 * a * (d - b) + (2 * y + 1 - 2 * b) * (c - a) <= (2 * x + 1) * (d - b)
  <1>1. den \in Nat \ {0}
    OBVIOUS
  <1> PICK u, v, w : u = a * (d - b) /\ v = (2 * y + 1 - 2 * b) * (c - a) /\ w = (2 * x + 1) * (d - b)
    OBVIOUS
  <1>2. u \in Int /\ v \in Int /\ w \in Int
    OBVIOUS
  <1>3. a * den = 2 * u /\ (2 * x + 1) * den = 2 * w /\ 2 * a * (d - b) = 2 * u
    OBVIOUS
  <1>4. num = 2 * u + v
    BY <1>3
  <1>5. num \in Int
    BY <1>2, <1>4
  <1>6. 2 * num <= (2 * x + 1) * den <=> 2 * a * (d - b) + v <= w
    BY <1>2, <1>3, <1>4
  <1> QED BY <1>1, <1>5, <1>6, CentreIsRight

\* Where a falling edge from <<a, b>> to <<c, d>> meets the row.
LEMMA FallingEdge ==
  ASSUME NEW a \in Int, NEW b \in Int, NEW c \in Int, NEW d \in Int, NEW x \in Int, NEW y \in Int,
         d <= y, y < b,
         NEW den, NEW num, den = 2 * (b - d), num = c * den + (2 * y + 1 - 2 * d) * (a - c)
  PROVE  /\ -((den - 2 * num) \div (2 * den)) \in Int
         /\ -((den - 2 * num) \div (2 * den)) <= x <=>
              2 * a * (d - b) + (2 * y + 1 - 2 * b) * (c - a) >= (2 * x + 1) * (d - b)
  <1>1. /\ -((den - 2 * num) \div (2 * den)) \in Int
        /\ -((den - 2 * num) \div (2 * den)) <= x <=>
             2 * c * (b - d) + (2 * y + 1 - 2 * d) * (a - c) <= (2 * x + 1) * (b - d)
    BY RisingEdge
  <1> PICK u, v : u = 2 * a * (d - b) + (2 * y + 1 - 2 * b) * (c - a) /\ v = (2 * x + 1) * (d - b)
    OBVIOUS
  <1>2. u \in Int /\ v \in Int
    OBVIOUS
  <1>3. (2 * x + 1) * (b - d) = -v
    OBVIOUS
  <1>4. 2 * c * (b - d) + (2 * y + 1 - 2 * d) * (a - c) = -u
    OBVIOUS
  <1> QED BY <1>1, <1>2, <1>3, <1>4

\* FirstRight is the first pixel to the right of the edge.
LEMMA FirstIsRight ==
  ASSUME NEW loop \in Seq(Points), NEW i \in DOMAIN loop, NEW x \in Int, NEW y \in Int
  PROVE  /\ i \in Crossing(loop, y) => FirstRight(loop, i, y) \in Int
         /\ i \in Crossing(loop, y) /\ FirstRight(loop, i, y) <= x <=> RightOf(loop, i, x, y)
  <1> PICK a, b, c, d : /\ a = loop[i][1] /\ b = loop[i][2]
                        /\ c = loop[(i % Len(loop)) + 1][1] /\ d = loop[(i % Len(loop)) + 1][2]
    OBVIOUS
  <1>1. a \in Int /\ b \in Int /\ c \in Int /\ d \in Int
    BY EdgesEnd DEF Points
  <1>2. i \in Crossing(loop, y) <=> (b <= y /\ y < d) \/ (d <= y /\ y < b)
    BY <1>1 DEF Crossing, Lesser, Greater
  <1>3. RightOf(loop, i, x, y) <=>
          \/ b <= y /\ y < d /\ 2 * a * (d - b) + (2 * y + 1 - 2 * b) * (c - a) <= (2 * x + 1) * (d - b)
          \/ d <= y /\ y < b /\ 2 * a * (d - b) + (2 * y + 1 - 2 * b) * (c - a) >= (2 * x + 1) * (d - b)
    BY DEF RightOf
  <1>4. CASE b <= y /\ y < d
    <2>1. b < d /\ ~(d <= y /\ y < b)
      BY <1>1, <1>4
    <2> DEFINE den == 2 * (d - b)
               num == a * den + (2 * y + 1 - 2 * b) * (c - a)
    <2>2. FirstRight(loop, i, y) = -((den - 2 * num) \div (2 * den))
      BY <2>1 DEF FirstRight
    <2>3. den = 2 * (d - b) /\ num = a * den + (2 * y + 1 - 2 * b) * (c - a)
      OBVIOUS
    <2> HIDE DEF den, num
    <2>4. /\ -((den - 2 * num) \div (2 * den)) \in Int
          /\ -((den - 2 * num) \div (2 * den)) <= x <=>
               2 * a * (d - b) + (2 * y + 1 - 2 * b) * (c - a) <= (2 * x + 1) * (d - b)
      BY ONLY <1>1, <1>4, <2>3, x \in Int, y \in Int, RisingEdge
    <2> QED BY <1>2, <1>3, <1>4, <2>1, <2>2, <2>4
  <1>5. CASE d <= y /\ y < b
    <2>1. d < b /\ ~(b <= y /\ y < d) /\ ~(b < d)
      BY <1>1, <1>5
    <2> DEFINE den == 2 * (b - d)
               num == c * den + (2 * y + 1 - 2 * d) * (a - c)
    <2>2. FirstRight(loop, i, y) = -((den - 2 * num) \div (2 * den))
      BY <2>1 DEF FirstRight
    <2>3. den = 2 * (b - d) /\ num = c * den + (2 * y + 1 - 2 * d) * (a - c)
      OBVIOUS
    <2> HIDE DEF den, num
    <2>4. /\ -((den - 2 * num) \div (2 * den)) \in Int
          /\ -((den - 2 * num) \div (2 * den)) <= x <=>
               2 * a * (d - b) + (2 * y + 1 - 2 * b) * (c - a) >= (2 * x + 1) * (d - b)
      BY ONLY <1>1, <1>5, <2>3, x \in Int, y \in Int, FallingEdge
    <2> QED BY <1>2, <1>3, <1>5, <2>1, <2>2, <2>4
  <1>6. CASE ~(b <= y /\ y < d) /\ ~(d <= y /\ y < b)
    BY <1>2, <1>3, <1>6
  <1> QED BY <1>4, <1>5, <1>6

\* Where a circle of n places enters or leaves A.
Changes(n, A) == {i \in 1 .. n : ~(i \in A <=> (i % n) + 1 \in A)}

\* On the way around a circle one leaves a set as often as one enters it.
LEMMA ChangesAreEven ==
  ASSUME NEW n \in Nat \ {0}, NEW A
  PROVE  Cardinality(Changes(n, A)) % 2 = 0
  <1> DEFINE D(k) == {i \in 1 .. k - 1 : ~(i \in A <=> i + 1 \in A)}
             Odd(k) == Cardinality(D(k)) % 2 = 1
             Wrong == {k \in Nat : k + 1 <= n /\ ~(Odd(k + 1) <=> ~(1 \in A <=> k + 1 \in A))}
  <1>1. ASSUME NEW k \in Nat PROVE IsFiniteSet(D(k)) /\ Cardinality(D(k)) \in Nat
    <2>1. IsFiniteSet(1 .. k - 1)
      BY FS_Interval
    <2>2. D(k) \in SUBSET (1 .. k - 1)
      OBVIOUS
    <2> HIDE DEF D
    <2> QED BY <2>1, <2>2, FS_Subset, FS_CardinalityType
  <1>2. ASSUME NEW k \in Nat \ {0}
        PROVE  D(k + 1) = IF k \in A <=> k + 1 \in A THEN D(k) ELSE D(k) \cup {k}
    <2>1. \A i \in Int : i \in 1 .. (k + 1) - 1 <=> i \in 1 .. k - 1 \/ i = k
      OBVIOUS
    <2> QED BY <2>1
  <1>3. ASSUME NEW S, IsFiniteSet(S), NEW k, k \notin S
        PROVE  Cardinality(S \cup {k}) % 2 = 1 <=> ~(Cardinality(S) % 2 = 1)
    <2>1. Cardinality(S) \in Nat /\ Cardinality(S \cup {k}) = Cardinality(S) + 1
      BY <1>3, FS_CardinalityType, FS_AddElement
    <2> QED BY <2>1
  <1>4. Wrong = {}
    <2> SUFFICES ASSUME Wrong # {} PROVE FALSE
      OBVIOUS
    <2>1. PICK k \in Wrong : \A j \in Wrong : k <= j
      <3> HIDE DEF Odd
      <3>1. Wrong \in SUBSET Nat
        OBVIOUS
      <3> HIDE DEF Wrong
      <3> QED BY <3>1, LeastNumber
    <2>2. CASE k = 0
      <3>1. D(1) = {}
        OBVIOUS
      <3>2. Cardinality(D(1)) = 0
        BY <3>1, FS_EmptySet
      <3> HIDE DEF D
      <3> QED BY <2>1, <2>2, <3>2
    <2>3. CASE k # 0
      <3>1. k \in Nat \ {0} /\ k - 1 \in Nat /\ (k - 1) + 1 = k /\ ~(k <= k - 1) /\ k + 1 <= n
        BY <2>3
      <3>2. Odd(k) <=> ~(1 \in A <=> k \in A)
        <4>1. k - 1 \notin Wrong
          <5> HIDE DEF Wrong
          <5> QED BY <2>1, <3>1
        <4> HIDE DEF Odd
        <4> QED BY <3>1, <4>1
      <3>3. k \notin D(k)
        BY <3>1
      <3>4. ~(Odd(k + 1) <=> ~(1 \in A <=> k + 1 \in A))
        <4> HIDE DEF Odd
        <4> QED BY <2>1
      <3>5. CASE k \in A <=> k + 1 \in A
        <4>1. D(k + 1) = D(k)
          BY <1>2, <3>1, <3>5
        <4>2. Odd(k + 1) <=> Odd(k)
          <5> HIDE DEF D
          <5> QED BY <4>1
        <4> HIDE DEF Odd
        <4> QED BY <3>2, <3>4, <3>5, <4>2
      <3>6. CASE ~(k \in A <=> k + 1 \in A)
        <4>1. D(k + 1) = D(k) \cup {k}
          BY <1>2, <3>1, <3>6
        <4>2. Odd(k + 1) <=> ~Odd(k)
          <5>1. IsFiniteSet(D(k))
            BY <1>1, <3>1
          <5> HIDE DEF D
          <5> QED BY <1>3, <3>3, <4>1, <5>1
        <4> HIDE DEF Odd
        <4> QED BY <3>2, <3>4, <3>6, <4>2
      <3> QED BY <3>5, <3>6
    <2> QED BY <2>2, <2>3
  <1>5. Odd(n) <=> ~(1 \in A <=> n \in A)
    <2>1. n - 1 \notin Wrong
      BY <1>4
    <2>2. n - 1 \in Nat /\ (n - 1) + 1 = n
      OBVIOUS
    <2> HIDE DEF Odd
    <2> QED BY <2>1, <2>2
  <1> DEFINE all == {i \in 1 .. n : ~(i \in A <=> (i % n) + 1 \in A)}
  <1>6. \A i \in 1 .. n : (i % n) + 1 = IF i = n THEN 1 ELSE i + 1
    <2>1. \A i \in 1 .. n : i # n => i % n = i
      OBVIOUS
    <2>2. n % n = 0
      BY Quotient
    <2> QED BY <2>1, <2>2
  <1>7. all = IF n \in A <=> 1 \in A THEN D(n) ELSE D(n) \cup {n}
    <2>1. \A i : i \in all <=> \/ i \in 1 .. n - 1 /\ ~(i \in A <=> i + 1 \in A)
                               \/ i = n /\ ~(n \in A <=> 1 \in A)
      BY <1>6
    <2> HIDE DEF all
    <2> QED BY <2>1
  <1>8. Cardinality(all) \in Nat /\ ~(Cardinality(all) % 2 = 1)
    <2>1. IsFiniteSet(D(n)) /\ Cardinality(D(n)) \in Nat /\ n \notin D(n)
      BY <1>1
    <2>2. CASE n \in A <=> 1 \in A
      <3>1. all = D(n) /\ ~Odd(n)
        <4> HIDE DEF Odd, D, all
        <4> QED BY <1>5, <1>7, <2>2
      <3> HIDE DEF D, all
      <3> QED BY <2>1, <3>1
    <2>3. CASE ~(n \in A <=> 1 \in A)
      <3>1. all = D(n) \cup {n} /\ Odd(n)
        <4> HIDE DEF Odd, D, all
        <4> QED BY <1>5, <1>7, <2>3
      <3> HIDE DEF D, all
      <3>2. Cardinality(all) \in Nat
        <4>1. Cardinality(D(n) \cup {n}) = Cardinality(D(n)) + 1
          BY <2>1, FS_AddElement
        <4> QED BY <2>1, <3>1, <4>1
      <3> QED BY <1>3, <2>1, <3>1, <3>2
    <2> QED BY <2>2, <2>3
  <1> HIDE DEF all
  <1>9. Cardinality(all) % 2 = 0
    BY <1>8
  <1> QED BY <1>9 DEF all, Changes

\* How many elements of X stand at or before s in the order R.
RankIn(X, R, s) == Cardinality({t \in X : <<t, s>> \in R})

\* That R is a total order on X.
Orders(R, X) ==
  /\ \A s \in X : <<s, s>> \in R
  /\ \A s, t \in X : s # t => ~(<<s, t>> \in R <=> <<t, s>> \in R)
  /\ \A r, s, t \in X : <<r, s>> \in R /\ <<s, t>> \in R => <<r, t>> \in R

\* In a total order each element of a finite set has a rank of its own, and each rank is taken.
LEMMA RanksOfOrder ==
  ASSUME NEW X, IsFiniteSet(X), NEW R, Orders(R, X)
  PROVE  /\ Cardinality(X) \in Nat /\ \A s \in X : RankIn(X, R, s) \in 1 .. Cardinality(X)
         /\ \A s, t \in X : s # t /\ <<s, t>> \in R => RankIn(X, R, s) < RankIn(X, R, t)
         /\ \A k \in 1 .. Cardinality(X) : \E s \in X : RankIn(X, R, s) = k
  <1> USE DEF Orders
  <1> DEFINE upto(s) == {t \in X : <<t, s>> \in R}
  <1> PICK n : n = Cardinality(X)
    OBVIOUS
  <1>1. n \in Nat
    BY FS_CardinalityType
  <1>2. ASSUME NEW s \in X
        PROVE  /\ IsFiniteSet(upto(s)) /\ Cardinality(upto(s)) \in 1 .. n
               /\ s \in upto(s) /\ RankIn(X, R, s) = Cardinality(upto(s))
    <2>1. upto(s) \in SUBSET X /\ s \in upto(s) /\ RankIn(X, R, s) = Cardinality(upto(s))
      BY DEF RankIn
    <2> HIDE DEF upto
    <2>2. IsFiniteSet(upto(s)) /\ Cardinality(upto(s)) <= n
      BY <2>1, FS_Subset
    <2>3. Cardinality(upto(s)) \in Nat /\ Cardinality(upto(s)) # 0
      BY <2>1, <2>2, FS_CardinalityType, FS_EmptySet
    <2> QED BY <1>1, <2>1, <2>2, <2>3
  <1>3. ASSUME NEW s \in X, NEW t \in X, s # t, <<s, t>> \in R PROVE RankIn(X, R, s) < RankIn(X, R, t)
    <2>1. upto(s) \in SUBSET (upto(t) \ {t})
      BY <1>3
    <2>2. /\ IsFiniteSet(upto(t)) /\ Cardinality(upto(t)) \in 1 .. n /\ t \in upto(t)
          /\ Cardinality(upto(s)) \in 1 .. n
          /\ RankIn(X, R, t) = Cardinality(upto(t)) /\ RankIn(X, R, s) = Cardinality(upto(s))
      BY <1>2
    <2> HIDE DEF upto
    <2>3. IsFiniteSet(upto(t) \ {t}) /\ Cardinality(upto(t) \ {t}) = Cardinality(upto(t)) - 1
      BY <2>2, FS_RemoveElement
    <2>4. Cardinality(upto(s)) <= Cardinality(upto(t) \ {t})
      BY <2>1, <2>3, FS_Subset
    <2> QED BY <2>2, <2>3, <2>4
  <1>4. ASSUME NEW s \in X PROVE RankIn(X, R, s) \in 1 .. n
    <2>1. Cardinality(upto(s)) \in 1 .. n /\ RankIn(X, R, s) = Cardinality(upto(s))
      BY <1>2
    <2> HIDE DEF upto
    <2> QED BY <2>1
  <1> PICK rank : rank = [s \in X |-> RankIn(X, R, s)]
    OBVIOUS
  <1>5. rank \in Injection(X, 1 .. n)
    <2>1. ASSUME NEW s \in X, NEW t \in X, rank[s] = rank[t] PROVE s = t
      <3>1. CASE s # t
        <4>1. <<s, t>> \in R \/ <<t, s>> \in R
          BY <3>1
        <4>2. RankIn(X, R, s) < RankIn(X, R, t) \/ RankIn(X, R, t) < RankIn(X, R, s)
          BY <1>3, <3>1, <4>1
        <4>3. RankIn(X, R, s) \in Int
          BY <1>4
        <4> QED BY <2>1, <4>2, <4>3
      <3> QED BY <3>1
    <2>2. rank \in [X -> 1 .. n]
      BY <1>4
    <2> QED BY <2>1, <2>2 DEF Injection, IsInjective
  <1>6. rank \in Surjection(X, 1 .. n)
    <2>1. IsFiniteSet(1 .. n) /\ Cardinality(1 .. n) = n
      <3>1. 1 \in Int /\ n \in Int
        BY <1>1
      <3>2. /\ IsFiniteSet(1 .. n)
            /\ Cardinality(1 .. n) = IF 1 > n THEN 0 ELSE n - 1 + 1
        BY <3>1, FS_Interval
      <3> QED BY <1>1, <3>2
    <2> QED BY <1>5, <2>1, FS_Injection
  <1>7. \A k \in 1 .. n : \E s \in X : RankIn(X, R, s) = k
    BY <1>6 DEF Surjection
  <1> QED BY <1>1, <1>3, <1>4, <1>7

\* What a set of spans covers.
Spanned(spans, x) == \E s \in spans : s[1] <= x /\ x < s[2]

\* From left to right, and by their number among equals.
LeftToRight(X) ==
  {p \in X \X X : p[1][1] < p[2][1] \/ (p[1][1] = p[2][1] /\ p[1][2] <= p[2][2])}

\* That is an order.
LEMMA LeftToRightIsAnOrder ==
  ASSUME NEW X \in SUBSET Points
  PROVE  Orders(LeftToRight(X), X)
  <1>1. \A s \in X : s[1] \in Int /\ s[2] \in Int /\ s = <<s[1], s[2]>>
    BY DEF Points
  <1>2. \A s, t \in X : <<s, t>> \in LeftToRight(X) <=> s[1] < t[1] \/ (s[1] = t[1] /\ s[2] <= t[2])
    BY DEF LeftToRight
  <1>3. \A s \in X : <<s, s>> \in LeftToRight(X)
    BY <1>1, <1>2
  <1>4. ASSUME NEW s \in X, NEW t \in X, s # t
        PROVE  ~(<<s, t>> \in LeftToRight(X) <=> <<t, s>> \in LeftToRight(X))
    <2>1. s[1] # t[1] \/ s[2] # t[2]
      BY <1>1, <1>4
    <2> QED BY <1>1, <1>2, <2>1
  <1>5. \A r, s, t \in X : <<r, s>> \in LeftToRight(X) /\ <<s, t>> \in LeftToRight(X)
                             => <<r, t>> \in LeftToRight(X)
    BY <1>1, <1>2
  <1> QED BY <1>3, <1>4, <1>5 DEF Orders

\* Ends of an even number, taken two by two from left to right, span a place exactly if an
\* odd number of them is not to the right of it.
LEMMA TwoByTwo ==
  ASSUME NEW X \in SUBSET Points, IsFiniteSet(X), Cardinality(X) % 2 = 0,
         NEW x \in Int
  PROVE  (\E s, t \in X : /\ RankIn(X, LeftToRight(X), s) % 2 = 1
                          /\ RankIn(X, LeftToRight(X), t) = RankIn(X, LeftToRight(X), s) + 1
                          /\ s[1] <= x /\ x < t[1])
           <=> Cardinality({s \in X : s[1] <= x}) % 2 = 1
  <1> PICK R : R = LeftToRight(X)
    OBVIOUS
  <1> PICK n : n = Cardinality(X)
    OBVIOUS
  <1>1. /\ n \in Nat /\ \A s \in X : RankIn(X, R, s) \in 1 .. n
        /\ \A k \in 1 .. n : \E s \in X : RankIn(X, R, s) = k
    <2>1. Orders(R, X)
      BY LeftToRightIsAnOrder
    <2> QED BY <2>1, RanksOfOrder
  <1> DEFINE A == {s \in X : s[1] <= x}
             upto(s) == {t \in X : <<t, s>> \in R}
  <1> PICK m : m = Cardinality(A)
    OBVIOUS
  <1>2. \A s \in X : s[1] \in Int
    BY DEF Points
  <1>3. \A s, t \in X : <<s, t>> \in R => s[1] <= t[1]
    BY <1>2 DEF LeftToRight
  <1>4. \A s, t \in X : <<s, t>> \in R \/ <<t, s>> \in R
    BY LeftToRightIsAnOrder DEF Orders
  <1>5. IsFiniteSet(A) /\ m \in 0 .. n
    <2>1. A \in SUBSET X
      OBVIOUS
    <2> HIDE DEF A
    <2> QED BY <1>1, <2>1, FS_Subset, FS_CardinalityType
  <1>6. ASSUME NEW s \in X PROVE s[1] <= x <=> RankIn(X, R, s) <= m
    <2>1. /\ IsFiniteSet(upto(s)) /\ RankIn(X, R, s) = Cardinality(upto(s)) /\ RankIn(X, R, s) \in 1 .. n
          /\ s \in upto(s)
      <3>1. upto(s) \in SUBSET X /\ RankIn(X, R, s) = Cardinality(upto(s))
        BY DEF RankIn
      <3>2. s \in upto(s)
        BY LeftToRightIsAnOrder DEF Orders
      <3> HIDE DEF upto
      <3> QED BY <1>1, <3>1, <3>2, FS_Subset
    <2>2. ASSUME s[1] <= x PROVE RankIn(X, R, s) <= m
      <3>1. \A t \in upto(s) : t[1] <= s[1] /\ t[1] \in Int /\ s[1] \in Int
        BY <1>2, <1>3
      <3>2. upto(s) \in SUBSET A
        BY <2>2, <3>1
      <3> HIDE DEF A, upto
      <3> QED BY <1>5, <2>1, <3>2, FS_Subset
    <2>3. ASSUME ~(s[1] <= x) PROVE ~(RankIn(X, R, s) <= m)
      <3>1. A \in SUBSET (upto(s) \ {s})
        <4>1. \A t \in A : <<t, s>> \in R /\ t # s
          <5> TAKE t \in A
          <5>1. t \in X /\ t[1] <= x /\ t[1] \in Int /\ s[1] \in Int
            BY <1>2
          <5>2. ~(s[1] <= t[1])
            BY <2>3, <5>1
          <5>3. ~(<<s, t>> \in R)
            BY <1>3, <5>1, <5>2
          <5> QED BY <1>4, <5>1, <5>2, <5>3
        <4> QED BY <4>1
      <3> HIDE DEF A, upto
      <3>2. IsFiniteSet(upto(s) \ {s}) /\ Cardinality(upto(s) \ {s}) = Cardinality(upto(s)) - 1
        BY <2>1, FS_RemoveElement
      <3>3. m <= Cardinality(upto(s) \ {s})
        BY <3>1, <3>2, FS_Subset
      <3> QED BY <1>5, <2>1, <3>2, <3>3
    <2> QED BY <2>2, <2>3
  <1> HIDE DEF A, upto
  <1>7. ASSUME NEW s \in X, NEW t \in X, RankIn(X, R, s) % 2 = 1,
               RankIn(X, R, t) = RankIn(X, R, s) + 1, s[1] <= x, x < t[1]
        PROVE  m % 2 = 1
    <2>1. RankIn(X, R, s) <= m /\ ~(RankIn(X, R, t) <= m)
      BY <1>2, <1>6, <1>7
    <2>2. RankIn(X, R, s) \in Int /\ m \in Int
      BY <1>1, <1>5
    <2>3. RankIn(X, R, s) = m
      BY <1>7, <2>1, <2>2
    <2> QED BY <1>7, <2>3
  <1>8. ASSUME m % 2 = 1
        PROVE  \E s, t \in X : /\ RankIn(X, R, s) % 2 = 1 /\ RankIn(X, R, t) = RankIn(X, R, s) + 1
                               /\ s[1] <= x /\ x < t[1]
    <2>1. m \in 1 .. n /\ m + 1 \in 1 .. n
      BY <1>1, <1>5, <1>8
    <2>2. PICK s \in X, t \in X : RankIn(X, R, s) = m /\ RankIn(X, R, t) = m + 1
      BY <1>1, <2>1
    <2>3. s[1] <= x /\ ~(t[1] <= x)
      BY <1>6, <2>1, <2>2
    <2>4. RankIn(X, R, s) % 2 = 1 /\ RankIn(X, R, t) = RankIn(X, R, s) + 1 /\ x < t[1]
      <3>1. t[1] \in Int
        BY <1>2
      <3> QED BY <1>8, <2>2, <2>3, <3>1
    <2> QED BY <2>3, <2>4
  <1> QED BY <1>7, <1>8 DEF A

\* The crossings of a loop are even in number, and each is an end of a span.
LEMMA CrossingsAreEven ==
  ASSUME NEW loop \in Seq(Points), NEW y \in Int
  PROVE  /\ IsFiniteSet(Crossing(loop, y)) /\ Cardinality(Crossing(loop, y)) % 2 = 0
         /\ \A i \in Crossing(loop, y) : FirstRight(loop, i, y) \in Int /\ i \in Int
  <1> PICK n \in Nat : n = Len(loop) /\ DOMAIN loop = 1 .. n
    OBVIOUS
  <1>1. Crossing(loop, y) \in SUBSET (1 .. n)
    BY DEF Crossing
  <1>2. \A i \in Crossing(loop, y) : FirstRight(loop, i, y) \in Int /\ i \in Int
    <2> TAKE i \in Crossing(loop, y)
    <2>1. i \in DOMAIN loop /\ 0 \in Int
      BY <1>1
    <2>2. i \in Crossing(loop, y) => FirstRight(loop, i, y) \in Int
      BY ONLY <2>1, loop \in Seq(Points), y \in Int, FirstIsRight
    <2> QED BY <2>1, <2>2
  <1>3. IsFiniteSet(Crossing(loop, y))
    <2>1. IsFiniteSet(1 .. n)
      BY FS_Interval
    <2> QED BY <1>1, <2>1, FS_Subset
  <1>4. CASE n = 0
    <2>1. Crossing(loop, y) = {}
      BY <1>1, <1>4
    <2>2. Cardinality(Crossing(loop, y)) = 0
      BY <2>1, FS_EmptySet
    <2> QED BY <1>2, <1>3, <2>2
  <1>5. CASE n # 0
    <2> PICK A : A = {i \in 1 .. n : y < loop[i][2]}
      OBVIOUS
    <2>1. ASSUME NEW i \in 1 .. n
          PROVE  i \in Crossing(loop, y) <=> ~(i \in A <=> (i % n) + 1 \in A)
      <3>1. (i % n) + 1 \in 1 .. n /\ loop[i][2] \in Int /\ loop[(i % n) + 1][2] \in Int
        BY EdgesEnd DEF Points
      <3> PICK b, d : b = loop[i][2] /\ d = loop[(i % n) + 1][2]
        OBVIOUS
      <3>2. b \in Int /\ d \in Int
        BY <3>1
      <3>3. i \in Crossing(loop, y) <=> Lesser(b, d) <= y /\ y < Greater(b, d)
        BY DEF Crossing
      <3>4. Lesser(b, d) <= y /\ y < Greater(b, d) <=> ~(y < b <=> y < d)
        BY <3>2 DEF Lesser, Greater
      <3> QED BY <3>1, <3>3, <3>4
    <2>2. Crossing(loop, y) = Changes(n, A)
      BY <1>1, <2>1 DEF Changes
    <2>3. Cardinality(Crossing(loop, y)) % 2 = 0
      <3>1. n \in Nat \ {0}
        BY <1>5
      <3> QED BY <2>2, <3>1, ChangesAreEven
    <2> QED BY <1>2, <1>3, <2>3
  <1> QED BY <1>4, <1>5

\* The spans of a loop in a row are the pixels whose centres are inside it.
LEMMA SpansAreInside ==
  ASSUME NEW loop \in Seq(Points), NEW y \in Int
  PROVE  /\ IsFiniteSet(LoopRowSpans(loop, y)) /\ LoopRowSpans(loop, y) \in SUBSET Points
         /\ \A x \in Int : Spanned(LoopRowSpans(loop, y), x) <=> InLoop(loop, x, y)
  <1> DEFINE C == Crossing(loop, y)
             f == [i \in C |-> <<FirstRight(loop, i, y), i>>]
             X == {<<FirstRight(loop, i, y), i>> : i \in C}
             R == LeftToRight(X)
             ranked == {<<RankIn(X, R, s), s[1]>> : s \in X}
             pairs == {p \in ranked \X ranked : p[1][1] % 2 = 1 /\ p[2][1] = p[1][1] + 1}
             all == {<<p[1][2], p[2][2]>> : p \in pairs}
  <1>1. /\ IsFiniteSet(C) /\ Cardinality(C) % 2 = 0
        /\ \A i \in C : FirstRight(loop, i, y) \in Int /\ i \in Int
    BY CrossingsAreEven
  <1>2. X \in SUBSET Points
    BY <1>1 DEF Points
  <1>3. f \in Bijection(C, X)
    <2>1. \A i, j \in C : f[i] = f[j] => i = j
      OBVIOUS
    <2>2. \A s \in X : \E i \in C : f[i] = s
      OBVIOUS
    <2>3. f \in [C -> X]
      OBVIOUS
    <2> HIDE DEF C, f, X
    <2> QED BY <2>1, <2>2, <2>3 DEF Bijection, Injection, Surjection, IsInjective
  <1>4. IsFiniteSet(X) /\ Cardinality(X) = Cardinality(C)
    <2> HIDE DEF C, f, X
    <2> QED BY <1>1, <1>3, FS_Bijection DEF ExistsBijection
  <1>5. LoopRowSpans(loop, y) = {s \in all : s[1] < s[2]}
    <2>1. \A s \in X : Cardinality({t \in X : t[1] < s[1] \/ (t[1] = s[1] /\ t[2] <= s[2])})
                        = RankIn(X, R, s)
      <3> USE DEF RankIn
      <3> SUFFICES ASSUME NEW s \in X
                   PROVE  {t \in X : t[1] < s[1] \/ (t[1] = s[1] /\ t[2] <= s[2])}
                            = {t \in X : <<t, s>> \in R}
        OBVIOUS
      <3> QED BY DEF LeftToRight
    <2>2. {<<Cardinality({t \in X : t[1] < s[1] \/ (t[1] = s[1] /\ t[2] <= s[2])}), s[1]>> : s \in X}
            = ranked
      <3> HIDE DEF X, R
      <3> QED BY <2>1
    <2> QED BY <2>2 DEF LoopRowSpans
  <1>6. IsFiniteSet(LoopRowSpans(loop, y)) /\ LoopRowSpans(loop, y) \in SUBSET Points
    <2> DEFINE firsts == {s[1] : s \in X}
               g == [s \in X |-> s[1]]
    <2>1. firsts = {g[s] : s \in X} /\ \A s \in X : s[1] \in Int
      BY <1>2 DEF Points
    <2>2. IsFiniteSet(firsts)
      <3> HIDE DEF X, g, firsts
      <3> QED BY <1>4, <2>1, FiniteImage
    <2>3. LoopRowSpans(loop, y) \in SUBSET (firsts \X firsts)
      <3> HIDE DEF X, R
      <3> QED BY <1>5
    <2>4. IsFiniteSet(firsts \X firsts) /\ firsts \X firsts \in SUBSET Points
      <3>1. firsts \in SUBSET Int
        BY <2>1
      <3> HIDE DEF firsts
      <3> QED BY <2>2, <3>1, FS_Product DEF Points
    <2> HIDE DEF firsts
    <2> QED BY <2>3, <2>4, FS_Subset
  <1>7. ASSUME NEW x \in Int PROVE Spanned(LoopRowSpans(loop, y), x) <=> InLoop(loop, x, y)
    <2>1. Spanned(LoopRowSpans(loop, y), x) <=>
            \E s, t \in X : /\ RankIn(X, R, s) % 2 = 1 /\ RankIn(X, R, t) = RankIn(X, R, s) + 1
                            /\ s[1] <= x /\ x < t[1]
      <3>1. \A s \in X : s[1] \in Int
        BY <1>2 DEF Points
      <3> HIDE DEF X, R
      <3>2. ASSUME Spanned(LoopRowSpans(loop, y), x)
            PROVE  \E s, t \in X : /\ RankIn(X, R, s) % 2 = 1 /\ RankIn(X, R, t) = RankIn(X, R, s) + 1
                                   /\ s[1] <= x /\ x < t[1]
        <4>1. PICK p \in pairs : p[1][2] <= x /\ x < p[2][2]
          BY <1>5, <3>2 DEF Spanned
        <4>2. PICK s \in X, t \in X : p[1] = <<RankIn(X, R, s), s[1]>> /\ p[2] = <<RankIn(X, R, t), t[1]>>
          OBVIOUS
        <4> QED BY <4>1, <4>2
      <3>3. ASSUME NEW s \in X, NEW t \in X,
                   RankIn(X, R, s) % 2 = 1, RankIn(X, R, t) = RankIn(X, R, s) + 1, s[1] <= x, x < t[1]
            PROVE  Spanned(LoopRowSpans(loop, y), x)
        <4> DEFINE p == <<<<RankIn(X, R, s), s[1]>>, <<RankIn(X, R, t), t[1]>>>>
        <4>1. p \in pairs
          BY <3>3
        <4>2. <<s[1], t[1]>> \in all
          <5>1. p[1][2] = s[1] /\ p[2][2] = t[1]
            OBVIOUS
          <5> HIDE DEF pairs, p
          <5> QED BY <4>1, <5>1
        <4>3. s[1] < t[1]
          BY <3>1, <3>3
        <4>4. <<s[1], t[1]>> \in LoopRowSpans(loop, y)
          BY <1>5, <4>2, <4>3
        <4> QED BY <3>3, <4>4 DEF Spanned
      <3> QED BY <3>2, <3>3
    <2>2. Cardinality({s \in X : s[1] <= x}) = Cardinality({i \in DOMAIN loop : RightOf(loop, i, x, y)})
      <3> DEFINE A == {s \in X : s[1] <= x}
                 B == {i \in DOMAIN loop : RightOf(loop, i, x, y)}
                 g == [i \in B |-> <<FirstRight(loop, i, y), i>>]
      <3>1. \A i : i \in B <=> i \in C /\ FirstRight(loop, i, y) <= x
        <4>1. C \in SUBSET DOMAIN loop
          BY DEF Crossing
        <4>2. \A i \in DOMAIN loop : RightOf(loop, i, x, y) <=> i \in C /\ FirstRight(loop, i, y) <= x
          BY FirstIsRight
        <4> HIDE DEF C
        <4> QED BY <4>1, <4>2
      <3>2. g \in Bijection(B, A)
        <4>1. \A i, j \in B : g[i] = g[j] => i = j
          OBVIOUS
        <4>2. g \in [B -> A]
          <5> HIDE DEF C, B
          <5> QED BY <3>1
        <4>3. \A s \in A : \E i \in B : g[i] = s
          <5> HIDE DEF C, B
          <5> QED BY <3>1
        <4> HIDE DEF A, B, g
        <4> QED BY <4>1, <4>2, <4>3 DEF Bijection, Injection, Surjection, IsInjective
      <3>3. IsFiniteSet(B)
        <4>1. B \in SUBSET C
          BY <3>1
        <4> HIDE DEF B, C
        <4> QED BY <1>1, <4>1, FS_Subset
      <3> HIDE DEF A, B, g
      <3>4. Cardinality(A) = Cardinality(B)
        BY <3>2, <3>3, FS_Bijection DEF ExistsBijection
      <3> QED BY <3>4 DEF A, B
    <2>3. InLoop(loop, x, y) <=> Cardinality({i \in DOMAIN loop : RightOf(loop, i, x, y)}) % 2 = 1
      BY DEF InLoop, RightOf
    <2>4. (\E s, t \in X : /\ RankIn(X, R, s) % 2 = 1 /\ RankIn(X, R, t) = RankIn(X, R, s) + 1
                           /\ s[1] <= x /\ x < t[1])
            <=> Cardinality({s \in X : s[1] <= x}) % 2 = 1
      <3>2. Cardinality(X) % 2 = 0
        <4> HIDE DEF X, C
        <4> QED BY <1>1, <1>4
      <3> HIDE DEF X
      <3> QED BY <1>2, <1>4, <3>2, TwoByTwo
    <2> HIDE DEF X, R
    <2> QED BY <2>1, <2>2, <2>3, <2>4
  <1> QED BY <1>6, <1>7

\* Finitely many spans.
SpanSets == {v \in SUBSET Points : IsFiniteSet(v)}

\* A cut leaves what it does not cover.
LEMMA CutLeavesTheRest ==
  ASSUME NEW v \in SpanSets, NEW c \in Points
  PROVE  /\ Cut(v, c) \in SpanSets
         /\ \A x \in Int : Spanned(Cut(v, c), x) <=> Spanned(v, x) /\ ~(c[1] <= x /\ x < c[2])
  <1> DEFINE Rest(s) == IF c[2] <= s[1] \/ c[1] >= s[2] THEN {s}
                        ELSE {<<s[1], Lesser(s[2], c[1])>>, <<Greater(s[1], c[2]), s[2]>>}
             rests == {Rest(t) : t \in v}
             f == [t \in v |-> Rest(t)]
  <1>1. c[1] \in Int /\ c[2] \in Int
    BY DEF Points
  <1>2. \A t \in v : t \in Points /\ t[1] \in Int /\ t[2] \in Int /\ t = <<t[1], t[2]>>
    BY DEF SpanSets, Points
  <1>3. ASSUME NEW t \in v PROVE Rest(t) \in SUBSET Points /\ IsFiniteSet(Rest(t))
    <2>1. Rest(t) \in SUBSET Points
      BY <1>1, <1>2 DEF Points, Lesser, Greater
    <2>2. \E a, b : Rest(t) = {a} \cup {b}
      BY DEF Rest
    <2> HIDE DEF Rest
    <2>3. IsFiniteSet(Rest(t))
      <3> PICK a, b : Rest(t) = {a} \cup {b}
        BY <2>2
      <3>1. IsFiniteSet({a}) /\ IsFiniteSet({b})
        BY FS_Singleton
      <3> QED BY <3>1, FS_Union
    <2> QED BY <2>1, <2>3
  <1>4. Cut(v, c) = {s \in UNION rests : s[1] < s[2]}
    BY DEF Cut
  <1>5. IsFiniteSet(rests)
    <2>1. rests = {f[t] : t \in v}
      <3> HIDE DEF Rest
      <3> QED OBVIOUS
    <2>2. IsFiniteSet(v)
      BY DEF SpanSets
    <2> HIDE DEF rests, f
    <2> QED BY <2>1, <2>2, FiniteImage
  <1>6. Cut(v, c) \in SpanSets
    <2>1. \A r \in rests : IsFiniteSet(r) /\ r \in SUBSET Points
      <3> HIDE DEF Rest
      <3> QED BY <1>3
    <2> HIDE DEF rests, Rest
    <2>2. IsFiniteSet(UNION rests) /\ UNION rests \in SUBSET Points
      BY <1>5, <2>1, FS_UNION
    <2>3. Cut(v, c) \in SUBSET UNION rests
      BY <1>4
    <2> QED BY <2>2, <2>3, FS_Subset DEF SpanSets
  <1>7. ASSUME NEW x \in Int
        PROVE  Spanned(Cut(v, c), x) <=> Spanned(v, x) /\ ~(c[1] <= x /\ x < c[2])
    <2>1. ASSUME NEW t \in v
          PROVE  (\E s \in Rest(t) : s[1] <= x /\ x < s[2])
                   <=> t[1] <= x /\ x < t[2] /\ ~(c[1] <= x /\ x < c[2])
      <3> PICK a, b, d, e : a = t[1] /\ b = t[2] /\ d = c[1] /\ e = c[2]
        OBVIOUS
      <3>1. a \in Int /\ b \in Int /\ d \in Int /\ e \in Int
        BY <1>1, <1>2
      <3>2. CASE e <= a \/ d >= b
        <4>1. Rest(t) = {t}
          BY <3>2
        <4> HIDE DEF Rest
        <4> QED BY <3>1, <3>2, <4>1
      <3>3. CASE ~(e <= a \/ d >= b)
        <4>1. Rest(t) = {<<a, Lesser(b, d)>>, <<Greater(a, e), b>>}
          BY <3>3
        <4>2. (\E s \in Rest(t) : s[1] <= x /\ x < s[2])
                <=> (a <= x /\ x < Lesser(b, d)) \/ (Greater(a, e) <= x /\ x < b)
          <5> HIDE DEF Rest
          <5> QED BY <4>1
        <4> HIDE DEF Rest
        <4> QED BY <3>1, <3>3, <4>2 DEF Lesser, Greater
      <3> QED BY <3>2, <3>3
    <2>2. Spanned(Cut(v, c), x) <=> \E t \in v : \E s \in Rest(t) : s[1] <= x /\ x < s[2]
      <3>1. \A t \in v : \A s \in Rest(t) : s[1] \in Int /\ s[2] \in Int
        BY <1>3 DEF Points
      <3>2. Spanned(Cut(v, c), x) <=> \E s \in UNION rests : s[1] < s[2] /\ s[1] <= x /\ x < s[2]
        <4> HIDE DEF rests, Rest
        <4> QED BY <1>4 DEF Spanned
      <3>3. \A s : s \in UNION rests <=> \E t \in v : s \in Rest(t)
        <4> HIDE DEF Rest
        <4> QED OBVIOUS
      <3>4. \A s \in UNION rests : s[1] <= x /\ x < s[2] => s[1] < s[2]
        <4> HIDE DEF rests, Rest
        <4> QED BY <3>1, <3>3
      <3> HIDE DEF rests, Rest
      <3> QED BY <3>2, <3>3, <3>4
    <2> HIDE DEF Rest, rests
    <2> QED BY <2>1, <2>2 DEF Spanned
  <1> QED BY <1>6, <1>7

\* Cuts leave what none of them covers.
LEMMA CutsLeaveTheRest ==
  ASSUME NEW v \in SpanSets, NEW cuts \in SpanSets
  PROVE  /\ SubtractSpans(v, cuts) \in SpanSets
         /\ \A x \in Int : Spanned(SubtractSpans(v, cuts), x) <=> Spanned(v, x) /\ ~Spanned(cuts, x)
  <1> DEFINE One(T) == CHOOSE x \in T : TRUE
             Cuts1(h) == h = [T \in SUBSET cuts |->
                                IF T = {} THEN v ELSE Cut(h[T \ {One(T)}], One(T))]
             Good == {p \in (SUBSET cuts) \X SpanSets :
                        \A x \in Int : Spanned(p[2], x) <=> Spanned(v, x) /\ ~Spanned(p[1], x)}
  <1> PICK c : c = [T \in SUBSET cuts |-> One(T)]
    OBVIOUS
  <1>1. \A T \in SUBSET cuts : c[T] = One(T) /\ (T # {} => c[T] \in T)
    OBVIOUS
  <1> HIDE DEF One
  <1>2. IsFiniteSet(cuts) /\ cuts \in SUBSET Points
    BY DEF SpanSets
  <1>3. ASSUME NEW V, SpanSets \subseteq V,
               NEW F, F = [p \in V \X cuts |-> Cut(p[1], p[2])]
        PROVE  \E h : Folds(h, cuts, c, v, F) /\ \A T \in SUBSET cuts : <<T, h[T]>> \in Good
    <2>1. <<{}, v>> \in Good
      BY DEF Spanned
    <2>2. ASSUME NEW T \in SUBSET cuts, T # {}, NEW u, <<T \ {c[T]}, u>> \in Good
          PROVE  <<T, F[<<u, c[T]>>]>> \in Good
      <3> PICK e : e = c[T]
        OBVIOUS
      <3>1. e \in T /\ e \in Points /\ u \in SpanSets
        BY <1>1, <1>2, <2>2
      <3>2. F[<<u, e>>] = Cut(u, e)
        BY <1>3, <3>1
      <3>3. /\ Cut(u, e) \in SpanSets
            /\ \A x \in Int : Spanned(Cut(u, e), x) <=> Spanned(u, x) /\ ~(e[1] <= x /\ x < e[2])
        BY <3>1, CutLeavesTheRest
      <3>4. \A x \in Int : Spanned(u, x) <=> Spanned(v, x) /\ ~Spanned(T \ {e}, x)
        BY <2>2
      <3>5. \A x \in Int : Spanned(T, x) <=> Spanned(T \ {e}, x) \/ (e[1] <= x /\ x < e[2])
        BY <3>1 DEF Spanned
      <3>6. \A x \in Int : Spanned(Cut(u, e), x) <=> Spanned(v, x) /\ ~Spanned(T, x)
        BY <3>3, <3>4, <3>5
      <3> QED BY <3>2, <3>3, <3>6
    <2>3. \A T \in SUBSET cuts : T # {} =>
            \A u : <<T \ {c[T]}, u>> \in Good => <<T, F[<<u, c[T]>>]>> \in Good
      <3> HIDE DEF Good
      <3> QED BY <2>2
    <2> HIDE DEF Good
    <2>4. Preserves(F, cuts, c, Good) /\ Chooses(c, cuts)
      BY <1>1, <2>3 DEF Preserves, Chooses
    <2> QED BY <1>2, <2>1, <2>4, FoldExists
  <1>4. \E h : Cuts1(h)
    <2> PICK F : F = [p \in SpanSets \X cuts |-> Cut(p[1], p[2])]
      OBVIOUS
    <2>1. PICK h : Folds(h, cuts, c, v, F) /\ \A T \in SUBSET cuts : <<T, h[T]>> \in Good
      BY <1>3
    <2>2. \A T \in SUBSET cuts : h[T] \in SpanSets
      BY <2>1
    <2>3. ASSUME NEW T \in SUBSET cuts, T # {}
          PROVE  F[<<h[T \ {c[T]}], c[T]>>] = Cut(h[T \ {One(T)}], One(T))
      BY <1>1, <2>2, <2>3
    <2>4. Cuts1(h)
      <3>1. h = [T \in SUBSET cuts |-> IF T = {} THEN v ELSE F[<<h[T \ {c[T]}], c[T]>>]]
        BY <2>1 DEF Folds
      <3>2. \A T \in SUBSET cuts : (IF T = {} THEN v ELSE F[<<h[T \ {c[T]}], c[T]>>])
                                   = IF T = {} THEN v ELSE Cut(h[T \ {One(T)}], One(T))
        BY <2>3
      <3> QED BY <3>1, <3>2
    <2> QED BY <2>4
  <1> DEFINE g == CHOOSE h : Cuts1(h)
  <1>5. Cuts1(g)
    BY <1>4
  <1>6. SubtractSpans(v, cuts) = g[cuts]
    BY DEF SubtractSpans, FoldSet, MapThenFoldSet, One
  <1> HIDE DEF g
  <1>7. <<cuts, g[cuts]>> \in Good
    <2> PICK V : V = SpanSets \cup {g[T] : T \in SUBSET cuts}
      OBVIOUS
    <2> PICK F : F = [p \in V \X cuts |-> Cut(p[1], p[2])]
      OBVIOUS
    <2>1. PICK h : Folds(h, cuts, c, v, F) /\ \A T \in SUBSET cuts : <<T, h[T]>> \in Good
      BY <1>3
    <2>2. ASSUME NEW T \in SUBSET cuts, T # {}
          PROVE  F[<<g[T \ {c[T]}], c[T]>>] = Cut(g[T \ {One(T)}], One(T))
      BY <1>1, <2>2
    <2>3. Folds(g, cuts, c, v, F)
      BY <1>5, <2>2 DEF Folds
    <2>4. g[cuts] = h[cuts]
      <3>1. Chooses(c, cuts)
        BY <1>1 DEF Chooses
      <3> QED BY ONLY <1>2, <2>1, <2>3, <3>1, FoldIsOne
    <2> QED BY <2>1, <2>4
  <1> QED BY <1>6, <1>7

\* A finite set of numbers that is not empty has a greatest and a least one.
LEMMA Extremes ==
  ASSUME NEW X \in SUBSET Int, IsFiniteSet(X), X # {}
  PROVE  /\ Max(X) \in X /\ \A a \in X : Max(X) >= a
         /\ Min(X) \in X /\ \A a \in X : Min(X) <= a
  <1> PICK R : R = {p \in X \X X : p[1] <= p[2]}
    OBVIOUS
  <1> PICK n : n = Cardinality(X)
    OBVIOUS
  <1>1. \A s, t \in X : (<<s, t>> \in R <=> s <= t) /\ s \in Int
    OBVIOUS
  <1>2. Orders(R, X)
    BY <1>1 DEF Orders
  <1>3. /\ n \in Nat /\ \A s \in X : RankIn(X, R, s) \in 1 .. n
        /\ \A s, t \in X : s # t /\ <<s, t>> \in R => RankIn(X, R, s) < RankIn(X, R, t)
        /\ \A k \in 1 .. n : \E s \in X : RankIn(X, R, s) = k
    <2>1. n = Cardinality(X) /\ IsFiniteSet(X)
      OBVIOUS
    <2> QED BY ONLY <1>2, <2>1, RanksOfOrder
  <1>4. 1 \in 1 .. n /\ n \in 1 .. n
    BY <1>3, FS_EmptySet
  <1> PICK a \in X, b \in X : RankIn(X, R, a) = 1 /\ RankIn(X, R, b) = n
    BY <1>3, <1>4
  <1>5. ASSUME NEW t \in X PROVE a <= t /\ t <= b
    <2>1. RankIn(X, R, t) \in 1 .. n
      BY <1>3
    <2>2. t # a => ~(<<t, a>> \in R)
      BY <1>3, <2>1
    <2>3. t # b => ~(<<b, t>> \in R)
      BY <1>3, <2>1
    <2> QED BY <1>1, <2>2, <2>3
  <1>6. \E s \in X : \A t \in X : s >= t
    BY <1>1, <1>5
  <1>7. \E s \in X : \A t \in X : s <= t
    BY <1>1, <1>5
  <1> QED BY <1>6, <1>7 DEF Max, Min

\* What the fold over a sequence of n takes last.
LEMMA LastOfPart ==
  ASSUME NEW n \in Nat, NEW c, c = [T \in SUBSET (1 .. n) |-> Max(T)]
  PROVE  IsFiniteSet(1 .. n) /\ Chooses(c, 1 .. n)
  <1>1. IsFiniteSet(1 .. n)
    BY FS_Interval
  <1>2. ASSUME NEW T \in SUBSET (1 .. n), T # {} PROVE Max(T) \in T
    <2>1. IsFiniteSet(T)
      BY <1>1, FS_Subset
    <2>2. T \in SUBSET Int
      OBVIOUS
    <2> QED BY <1>2, <2>1, <2>2, Extremes
  <1> QED BY <1>1, <1>2 DEF Chooses

\* An outline and its holes.
IsPolygon(poly) ==
  /\ poly.outer \in Seq(Points) /\ poly.outer # <<>>
  /\ poly.holes \in Seq(Seq(Points))

\* In a row a polygon spans the pixels whose centres are in its outline and in no hole of it.
THEOREM PolygonSpansAreInside ==
  ASSUME NEW poly, IsPolygon(poly), NEW y \in Int
  PROVE  /\ PolygonRowSpans(poly, y) \in SpanSets
         /\ \A x \in Int : Spanned(PolygonRowSpans(poly, y), x) <=> Inside(poly, x, y)
  <1> PICK n \in Nat : DOMAIN poly.holes = 1 .. n /\ \A i \in 1 .. n : poly.holes[i] \in Seq(Points)
    <2>1. poly.holes \in Seq(Seq(Points))
      BY DEF IsPolygon
    <2> QED BY <2>1
  <1> DEFINE S == DOMAIN poly.holes
             base == LoopRowSpans(poly.outer, y)
             Holed(h) == h = [T \in SUBSET S |->
                                IF T = {} THEN base
                                ELSE SubtractSpans(h[T \ {Max(T)}], LoopRowSpans(poly.holes[Max(T)], y))]
             Left(T, x) == InLoop(poly.outer, x, y) /\ \A i \in T : ~InLoop(poly.holes[i], x, y)
             Good == {p \in (SUBSET S) \X SpanSets : \A x \in Int : Spanned(p[2], x) <=> Left(p[1], x)}
  <1> PICK c : c = [T \in SUBSET S |-> Max(T)]
    OBVIOUS
  <1>1. /\ IsFiniteSet(S) /\ Chooses(c, S)
        /\ \A T \in SUBSET S : c[T] = Max(T) /\ (T # {} => c[T] \in T)
    BY LastOfPart DEF Chooses
  <1>2. base \in SpanSets /\ \A x \in Int : Spanned(base, x) <=> InLoop(poly.outer, x, y)
    <2>1. poly.outer \in Seq(Points)
      BY DEF IsPolygon
    <2> QED BY <2>1, SpansAreInside DEF SpanSets
  <1>3. \A i \in S : /\ LoopRowSpans(poly.holes[i], y) \in SpanSets
                     /\ \A x \in Int : Spanned(LoopRowSpans(poly.holes[i], y), x)
                                         <=> InLoop(poly.holes[i], x, y)
    BY SpansAreInside DEF SpanSets
  <1> HIDE DEF S, base
  <1>4. ASSUME NEW V, SpanSets \subseteq V,
               NEW F, F = [p \in V \X S |-> SubtractSpans(p[1], LoopRowSpans(poly.holes[p[2]], y))]
        PROVE  \E h : Folds(h, S, c, base, F) /\ \A T \in SUBSET S : <<T, h[T]>> \in Good
    <2>1. <<{}, base>> \in Good
      BY <1>2
    <2>2. ASSUME NEW T \in SUBSET S, T # {}, NEW u, <<T \ {c[T]}, u>> \in Good
          PROVE  <<T, F[<<u, c[T]>>]>> \in Good
      <3> PICK e, w : e = c[T] /\ w = LoopRowSpans(poly.holes[e], y)
        OBVIOUS
      <3>1. e \in T /\ e \in S /\ u \in SpanSets /\ w \in SpanSets
        BY <1>1, <1>3, <2>2
      <3>2. F[<<u, e>>] = SubtractSpans(u, w)
        BY <1>4, <3>1
      <3>3. /\ SubtractSpans(u, w) \in SpanSets
            /\ \A x \in Int : Spanned(SubtractSpans(u, w), x) <=> Spanned(u, x) /\ ~Spanned(w, x)
        BY <3>1, CutsLeaveTheRest
      <3>4. \A x \in Int : Spanned(u, x) <=> Left(T \ {e}, x)
        BY <2>2
      <3>5. \A x \in Int : Left(T, x) <=> Left(T \ {e}, x) /\ ~InLoop(poly.holes[e], x, y)
        BY <3>1
      <3>6. \A x \in Int : Spanned(w, x) <=> InLoop(poly.holes[e], x, y)
        BY <1>3, <3>1
      <3>7. \A x \in Int : Spanned(SubtractSpans(u, w), x) <=> Left(T, x)
        <4> HIDE DEF Left
        <4> QED BY <3>3, <3>4, <3>5, <3>6
      <3> HIDE DEF Left
      <3> QED BY <3>2, <3>3, <3>7
    <2> HIDE DEF Good
    <2>3. Preserves(F, S, c, Good)
      BY <2>2 DEF Preserves
    <2>4. IsFiniteSet(S) /\ Chooses(c, S)
      BY <1>1
    <2> QED BY ONLY <2>1, <2>3, <2>4, FoldExists
  <1>5. \E h : Holed(h)
    <2> PICK F : F = [p \in SpanSets \X S |-> SubtractSpans(p[1], LoopRowSpans(poly.holes[p[2]], y))]
      OBVIOUS
    <2>1. PICK h : Folds(h, S, c, base, F) /\ \A T \in SUBSET S : <<T, h[T]>> \in Good
      BY <1>4
    <2>2. \A T \in SUBSET S : h[T] \in SpanSets
      BY <2>1
    <2>3. ASSUME NEW T \in SUBSET S, T # {}
          PROVE  F[<<h[T \ {c[T]}], c[T]>>]
                   = SubtractSpans(h[T \ {Max(T)}], LoopRowSpans(poly.holes[Max(T)], y))
      <3> HIDE DEF Good
      <3> QED BY <1>1, <2>2, <2>3
    <2>4. Holed(h)
      <3>1. h = [T \in SUBSET S |-> IF T = {} THEN base ELSE F[<<h[T \ {c[T]}], c[T]>>]]
        BY <2>1 DEF Folds
      <3>2. \A T \in SUBSET S :
              (IF T = {} THEN base ELSE F[<<h[T \ {c[T]}], c[T]>>])
                = IF T = {} THEN base
                  ELSE SubtractSpans(h[T \ {Max(T)}], LoopRowSpans(poly.holes[Max(T)], y))
        BY <2>3
      <3> HIDE DEF Good
      <3> QED BY <3>1, <3>2
    <2> QED BY <2>4
  <1> DEFINE g == CHOOSE h : Holed(h)
  <1>6. Holed(g)
    BY <1>5
  <1>7. PolygonRowSpans(poly, y) = g[S]
    BY DEF PolygonRowSpans, FoldLeft, MapThenFoldSet, S, base
  <1> HIDE DEF g
  <1>8. <<S, g[S]>> \in Good
    <2> PICK V : V = SpanSets \cup {g[T] : T \in SUBSET S}
      OBVIOUS
    <2> PICK F : F = [p \in V \X S |-> SubtractSpans(p[1], LoopRowSpans(poly.holes[p[2]], y))]
      OBVIOUS
    <2>1. PICK h : Folds(h, S, c, base, F) /\ \A T \in SUBSET S : <<T, h[T]>> \in Good
      BY <1>4
    <2> HIDE DEF Good
    <2>2. ASSUME NEW T \in SUBSET S, T # {}
          PROVE  F[<<g[T \ {c[T]}], c[T]>>]
                   = SubtractSpans(g[T \ {Max(T)}], LoopRowSpans(poly.holes[Max(T)], y))
      BY <1>1, <2>2
    <2>3. Folds(g, S, c, base, F)
      BY <1>6, <2>2 DEF Folds
    <2>4. g[S] = h[S]
      BY <1>1, <2>1, <2>3, FoldIsOne
    <2> QED BY <2>1, <2>4
  <1>9. \A x \in Int : Left(S, x) <=> Inside(poly, x, y)
    <2>1. DOMAIN poly.holes = S
      BY DEF S
    <2> QED BY <2>1 DEF Inside
  <1> HIDE DEF Left
  <1> QED BY <1>7, <1>8, <1>9

-----------------------------------------------------------------------------
(* The canonical runs of a row                                                 *)

\* Finitely many spans of objects, none of them empty.
IsSpans(spans) ==
  /\ IsFiniteSet(spans)
  /\ \A s \in spans : s.x0 \in Int /\ s.x1 \in Int /\ s.x0 < s.x1

\* The objects over a place.
OwnersAt(spans, x) == {s.owner : s \in {t \in spans : t.x0 <= x /\ x < t.x1}}

\* Those that have more spans begun than ended.
LEMMA ActiveOwnersAreOver ==
  ASSUME NEW spans, IsSpans(spans), NEW x \in Int
  PROVE  ActiveAt(spans, x) = OwnersAt(spans, x)
  <1> DEFINE begun(o) == {s \in spans : s.owner = o /\ s.x0 <= x}
             ended(o) == {s \in spans : s.owner = o /\ s.x1 <= x}
             here(o) == \E s \in spans : s.owner = o /\ s.x0 <= x /\ x < s.x1
  <1>1. ASSUME NEW o
        PROVE  Cardinality(begun(o)) # Cardinality(ended(o)) <=> here(o)
    <2>1. ended(o) \in SUBSET begun(o) /\ begun(o) \in SUBSET spans
      BY DEF IsSpans
    <2>2. begun(o) = ended(o) <=> ~here(o)
      BY DEF IsSpans
    <2> HIDE DEF begun, ended, here
    <2>3. IsFiniteSet(begun(o))
      BY <2>1, FS_Subset DEF IsSpans
    <2>4. Cardinality(begun(o)) = Cardinality(ended(o)) => begun(o) = ended(o)
      BY <2>1, <2>3, FS_Subset
    <2> QED BY <2>2, <2>4
  <1>2. ActiveAt(spans, x) = {o \in {s.owner : s \in spans} : Cardinality(begun(o)) # Cardinality(ended(o))}
    BY DEF ActiveAt
  <1> HIDE DEF begun, ended
  <1>3. ActiveAt(spans, x) = {o \in {s.owner : s \in spans} : here(o)}
    BY <1>1, <1>2
  <1> QED BY <1>3 DEF OwnersAt

\* Where the objects over a row may change.
EndsOf(spans) == {s.x0 : s \in spans} \cup {s.x1 : s \in spans}
StartsOf(spans) == {e \in EndsOf(spans) : \E d \in EndsOf(spans) : e < d}
NextEnd(spans, e) == Min({d \in EndsOf(spans) : e < d})

\* The ends are finitely many, and between two neighbours nothing changes.
LEMMA NothingChangesBetween ==
  ASSUME NEW spans, IsSpans(spans)
  PROVE  /\ EndsOf(spans) \in SUBSET Int /\ IsFiniteSet(EndsOf(spans))
         /\ \A e \in StartsOf(spans) :
              /\ e \in Int /\ NextEnd(spans, e) \in EndsOf(spans) /\ e < NextEnd(spans, e)
              /\ \A d \in EndsOf(spans) : e < d => NextEnd(spans, e) <= d
              /\ \A x \in Int : e <= x /\ x < NextEnd(spans, e) => OwnersAt(spans, x) = OwnersAt(spans, e)
         /\ \A x \in Int : OwnersAt(spans, x) # {} =>
              \E e \in StartsOf(spans) : e <= x /\ x < NextEnd(spans, e)
  <1> DEFINE E == EndsOf(spans)
  <1>1. E \in SUBSET Int
    BY DEF EndsOf, IsSpans
  <1>2. IsFiniteSet(E)
    <2> DEFINE f == [s \in spans |-> s.x0]
               g == [s \in spans |-> s.x1]
    <2>1. E = {f[s] : s \in spans} \cup {g[s] : s \in spans}
      BY DEF EndsOf
    <2> HIDE DEF E, f, g
    <2>2. IsFiniteSet({f[s] : s \in spans}) /\ IsFiniteSet({g[s] : s \in spans})
      BY FiniteImage DEF IsSpans
    <2> QED BY <2>1, <2>2, FS_Union
  <1>3. ASSUME NEW e \in StartsOf(spans)
        PROVE  /\ e \in Int /\ NextEnd(spans, e) \in E /\ e < NextEnd(spans, e)
               /\ \A d \in E : e < d => NextEnd(spans, e) <= d
    <2> DEFINE later == {d \in E : e < d}
    <2>1. later # {} /\ later \in SUBSET E /\ e \in E /\ later \in SUBSET Int
      BY <1>1 DEF StartsOf
    <2>2. NextEnd(spans, e) = Min(later)
      BY DEF NextEnd
    <2>3. Min(later) \in later /\ \A d \in later : Min(later) <= d
      <3> HIDE DEF later, E
      <3>1. IsFiniteSet(later)
        BY <1>2, <2>1, FS_Subset
      <3> QED BY <2>1, <3>1, Extremes
    <2> QED BY <1>1, <2>1, <2>2, <2>3
  <1>4. ASSUME NEW e \in Int, NEW x \in Int, e <= x, \A d \in E : e < d => x < d
        PROVE  OwnersAt(spans, x) = OwnersAt(spans, e)
    <2>1. ASSUME NEW s \in spans PROVE s.x0 <= x /\ x < s.x1 <=> s.x0 <= e /\ e < s.x1
      <3>1. s.x0 \in E /\ s.x1 \in E /\ s.x0 \in Int /\ s.x1 \in Int
        BY DEF EndsOf, IsSpans
      <3>2. (e < s.x0 => x < s.x0) /\ (e < s.x1 => x < s.x1)
        BY <1>4, <3>1
      <3> QED BY <1>4, <3>1, <3>2
    <2> QED BY <2>1 DEF OwnersAt
  <1>5. ASSUME NEW x \in Int, OwnersAt(spans, x) # {}
        PROVE  \E e \in StartsOf(spans) : e <= x /\ x < NextEnd(spans, e)
    <2>1. PICK s \in spans : s.x0 <= x /\ x < s.x1
      BY <1>5 DEF OwnersAt
    <2>2. s.x0 \in E /\ s.x1 \in E /\ s.x0 \in Int /\ s.x1 \in Int
      BY DEF EndsOf, IsSpans
    <2> DEFINE upto == {d \in E : d <= x}
    <2>3. Max(upto) \in upto /\ \A d \in upto : Max(upto) >= d
      <3>1. upto # {} /\ upto \in SUBSET E /\ upto \in SUBSET Int
        BY <1>1, <2>1, <2>2
      <3> HIDE DEF upto, E
      <3>2. IsFiniteSet(upto)
        BY <1>2, <3>1, FS_Subset
      <3> QED BY <3>1, <3>2, Extremes
    <2> PICK e \in E : e = Max(upto) /\ e <= x
      BY <2>3
    <2>4. e \in StartsOf(spans)
      BY <1>1, <2>1, <2>2 DEF StartsOf
    <2>5. NextEnd(spans, e) \in E /\ e < NextEnd(spans, e)
      BY <1>3, <2>4
    <2>6. ~(NextEnd(spans, e) <= x)
      <3>1. \A d \in E : d <= x => d <= e
        <4>1. \A d \in upto : d <= e
          BY <1>1, <2>3
        <4> HIDE DEF E
        <4> QED BY <4>1
      <3>2. e \in Int /\ NextEnd(spans, e) \in Int
        BY <1>1, <2>5
      <3> HIDE DEF E
      <3> QED BY <2>5, <3>1, <3>2
    <2> QED BY <1>1, <2>4, <2>5, <2>6
  <1>6. ASSUME NEW e \in StartsOf(spans), NEW x \in Int, e <= x, x < NextEnd(spans, e)
        PROVE  OwnersAt(spans, x) = OwnersAt(spans, e)
    <2>1. \A d \in E : e < d => x < d
      BY <1>1, <1>3, <1>6
    <2> QED BY <1>3, <1>4, <1>6, <2>1
  <1> QED BY <1>1, <1>2, <1>3, <1>5, <1>6

\* A run of a row, and rows of runs from left to right that do not meet or differ in owners.
Runs(O) == [x0 : Int, x1 : Int, owners : SUBSET O]
Tidy(v) ==
  /\ \A i \in DOMAIN v : v[i].x0 < v[i].x1
  /\ \A i, j \in DOMAIN v : i < j =>
       v[i].x1 < v[j].x0 \/ (v[i].x1 = v[j].x0 /\ v[i].owners # v[j].owners)

\* Place x has owners w in the row, if it has any.
RowCovers(v, x, w) == \E i \in DOMAIN v : v[i].x0 <= x /\ x < v[i].x1 /\ v[i].owners = w

\* No run ends after a place.
EndsBy(v, x) == \A i \in DOMAIN v : v[i].x1 <= x

\* A tidy row u covers with what v and the run cover, and each run of it is one of v or ends
\* with the run.
GrowsBy(u, v, run) ==
  /\ Tidy(u)
  /\ \A i \in DOMAIN u : \/ i \in DOMAIN v /\ u[i] = v[i]
                         \/ u[i].owners = run.owners /\ u[i].x1 = run.x1
  /\ \A x \in Int : \A w : RowCovers(u, x, w) <=>
       RowCovers(v, x, w) \/ (run.x0 <= x /\ x < run.x1 /\ run.owners = w)

\* A run that is neither before the last one ends nor its continuation is appended.
LEMMA RunIsAppended ==
  ASSUME NEW O, NEW v \in Seq(Runs(O)), Tidy(v), NEW run \in Runs(O), run.x0 < run.x1,
         EndsBy(v, run.x0),
         ~(v # <<>> /\ Last(v).x1 = run.x0 /\ Last(v).owners = run.owners),
         NEW u, u = Append(v, run)
  PROVE  GrowsBy(u, v, run)
  <1> PICK n \in Nat : n = Len(v) /\ DOMAIN v = 1 .. n
    OBVIOUS
  <1>1. /\ u \in Seq(Runs(O)) /\ DOMAIN u = 1 .. n + 1 /\ u[n + 1] = run
        /\ \A i \in 1 .. n : u[i] = v[i] /\ i \in DOMAIN u
    OBVIOUS
  <1>2. \A i \in 1 .. n : v[i] \in Runs(O) /\ v[i].x0 \in Int /\ v[i].x1 \in Int
    <2>1. \A i \in 1 .. n : v[i] \in Runs(O)
      OBVIOUS
    <2>2. \A r \in Runs(O) : r.x0 \in Int /\ r.x1 \in Int
      BY DEF Runs
    <2> QED BY <2>1, <2>2
  <1>3. run.x0 \in Int /\ run.x1 \in Int
    BY DEF Runs
  <1>4. ASSUME NEW i \in 1 .. n
        PROVE  v[i].x1 < run.x0 \/ (v[i].x1 = run.x0 /\ v[i].owners # run.owners)
    <2>1. CASE i = n
      <3>1. v # <<>> /\ Last(v) = v[n]
        BY <2>1 DEF Last
      <3> QED BY <1>2, <1>3, <2>1, <3>1 DEF EndsBy
    <2>2. CASE i # n
      <3>1. n \in DOMAIN v /\ i < n /\ i \in DOMAIN v
        BY <2>2
      <3>2. v[i].x1 \in Int /\ v[n].x0 \in Int /\ v[n].x1 \in Int
        BY <1>2, <3>1
      <3>3. v[i].x1 < v[n].x0 \/ v[i].x1 = v[n].x0
        BY <3>1 DEF Tidy
      <3>4. v[n].x0 < v[n].x1
        BY <3>1 DEF Tidy
      <3>5. v[n].x1 <= run.x0
        BY <3>1 DEF EndsBy
      <3> QED BY ONLY <1>3, <3>2, <3>3, <3>4, <3>5
    <2> QED BY <2>1, <2>2
  <1>5. Tidy(u)
    <2>1. \A i \in DOMAIN u : u[i].x0 < u[i].x1
      BY <1>1 DEF Tidy
    <2>2. ASSUME NEW i \in DOMAIN u, NEW j \in DOMAIN u, i < j
          PROVE  u[i].x1 < u[j].x0 \/ (u[i].x1 = u[j].x0 /\ u[i].owners # u[j].owners)
      <3>1. i \in 1 .. n
        BY <1>1, <2>2
      <3>2. CASE j = n + 1
        BY <1>1, <1>4, <3>1, <3>2
      <3>3. CASE j # n + 1
        <4>1. j \in 1 .. n
          BY <1>1, <3>3
        <4> QED BY <1>1, <2>2, <3>1, <4>1 DEF Tidy
      <3> QED BY <3>2, <3>3
    <2> QED BY <2>1, <2>2 DEF Tidy
  <1>6. \A x, w : RowCovers(u, x, w) <=> RowCovers(v, x, w) \/ (run.x0 <= x /\ x < run.x1 /\ run.owners = w)
    <2> TAKE x, w
    <2>1. \A i : i \in DOMAIN u <=> i \in 1 .. n \/ i = n + 1
      BY <1>1
    <2> QED BY <1>1, <2>1 DEF RowCovers
  <1>7. \A i \in DOMAIN u : (i \in DOMAIN v /\ u[i] = v[i]) \/ u[i] = run
    <2> TAKE i \in DOMAIN u
    <2>1. i \in 1 .. n \/ i = n + 1
      BY <1>1
    <2> QED BY <1>1, <2>1
  <1> QED BY <1>5, <1>6, <1>7 DEF GrowsBy

\* The run that continues the last one.
Joined(v, run) == [run EXCEPT !.x0 = Last(v).x0]

\* A run that continues the last one takes its place.
LEMMA RunIsContinued ==
  ASSUME NEW O, NEW v \in Seq(Runs(O)), Tidy(v), NEW run \in Runs(O), run.x0 < run.x1,
         v # <<>>, Last(v).x1 = run.x0, Last(v).owners = run.owners,
         NEW u, u = Append(Front(v), Joined(v, run))
  PROVE  GrowsBy(u, v, run)
  <1> PICK n \in Nat : n = Len(v) /\ DOMAIN v = 1 .. n
    OBVIOUS
  <1>1. n # 0 /\ n \in DOMAIN v
    OBVIOUS
  <1>2. \A i \in 1 .. n : v[i] \in Runs(O) /\ v[i].x0 \in Int /\ v[i].x1 \in Int
    <2>1. \A i \in 1 .. n : v[i] \in Runs(O)
      OBVIOUS
    <2>2. \A r \in Runs(O) : r.x0 \in Int /\ r.x1 \in Int
      BY DEF Runs
    <2> QED BY <2>1, <2>2
  <1>3. run.x0 \in Int /\ run.x1 \in Int /\ run.owners \in SUBSET O
    BY DEF Runs
  <1>4. Last(v) = v[n]
    BY DEF Last
  <1> PICK longer : longer = [run EXCEPT !.x0 = v[n].x0]
    OBVIOUS
  <1>5. /\ longer.x0 = v[n].x0 /\ longer.x1 = run.x1 /\ longer.owners = run.owners
        /\ longer \in Runs(O)
    BY <1>1, <1>2, <1>3 DEF Runs
  <1>6. /\ Front(v) \in Seq(Runs(O)) /\ Len(Front(v)) = n - 1
        /\ \A i \in 1 .. n - 1 : Front(v)[i] = v[i]
    BY <1>1 DEF Front
  <1>7. /\ u \in Seq(Runs(O)) /\ DOMAIN u = 1 .. n /\ u[n] = longer
        /\ \A i \in 1 .. n : i # n => u[i] = v[i]
    <2>1. u = Append(Front(v), longer)
      BY <1>4 DEF Joined
    <2>2. u \in Seq(Runs(O)) /\ Len(u) = n /\ u[n] = longer
      BY <1>1, <1>5, <1>6, <2>1
    <2>3. \A i \in 1 .. n - 1 : u[i] = Front(v)[i]
      BY <1>6, <2>1
    <2>4. \A i \in 1 .. n : i # n => i \in 1 .. n - 1
      OBVIOUS
    <2> QED BY <1>6, <2>2, <2>3, <2>4
  <1>8. v[n].x0 < v[n].x1 /\ v[n].x1 = run.x0 /\ v[n].owners = run.owners
    BY <1>1, <1>4 DEF Tidy
  <1>9. Tidy(u)
    <2>1. ASSUME NEW i \in 1 .. n PROVE u[i].x0 < u[i].x1
      <3>1. CASE i = n
        <4>1. u[i].x0 = v[n].x0 /\ u[i].x1 = run.x1
          BY <1>5, <1>7, <3>1
        <4>2. v[n].x0 \in Int /\ v[n].x1 \in Int
          BY <1>1, <1>2
        <4>3. run.x0 < run.x1
          OBVIOUS
        <4> QED BY ONLY <1>3, <1>8, <4>1, <4>2, <4>3
      <3>2. CASE i # n
        BY <1>7, <3>2 DEF Tidy
      <3> QED BY <3>1, <3>2
    <2>2. ASSUME NEW i \in 1 .. n, NEW j \in 1 .. n, i < j
          PROVE  u[i].x1 < u[j].x0 \/ (u[i].x1 = u[j].x0 /\ u[i].owners # u[j].owners)
      <3>1. v[i].x1 < v[j].x0 \/ (v[i].x1 = v[j].x0 /\ v[i].owners # v[j].owners)
        BY <2>2 DEF Tidy
      <3>2. u[i] = v[i]
        BY <1>7, <2>2
      <3>3. u[j].x0 = v[j].x0 /\ u[j].owners = v[j].owners
        BY <1>5, <1>7, <1>8
      <3> QED BY <3>1, <3>2, <3>3
    <2>3. DOMAIN u = 1 .. n
      BY <1>7
    <2> QED BY ONLY <2>1, <2>2, <2>3 DEF Tidy
  <1>10. ASSUME NEW x \in Int, NEW w
         PROVE  RowCovers(u, x, w) <=> RowCovers(v, x, w) \/ (run.x0 <= x /\ x < run.x1 /\ run.owners = w)
    <2> DEFINE on(r) == r.x0 <= x /\ x < r.x1 /\ r.owners = w
    <2>1. on(longer) <=> on(v[n]) \/ on(run)
      BY <1>1, <1>2, <1>3, <1>5, <1>8
    <2>2. RowCovers(u, x, w) <=> \E i \in 1 .. n : on(u[i])
      BY <1>7 DEF RowCovers
    <2>3. RowCovers(v, x, w) <=> \E i \in 1 .. n : on(v[i])
      BY DEF RowCovers
    <2>4. on(run) <=> run.x0 <= x /\ x < run.x1 /\ run.owners = w
      OBVIOUS
    <2>5. \A i \in 1 .. n : i # n => (on(u[i]) <=> on(v[i]))
      BY <1>7
    <2>6. on(u[n]) <=> on(longer)
      BY <1>7
    <2>7. n \in 1 .. n
      BY <1>1
    <2> HIDE DEF on
    <2> QED BY <2>1, <2>2, <2>3, <2>4, <2>5, <2>6, <2>7
  <1>11. \A i \in DOMAIN u :
           i \in DOMAIN v /\ (u[i] = v[i] \/ (u[i].owners = run.owners /\ u[i].x1 = run.x1))
    BY <1>5, <1>7
  <1> QED BY <1>9, <1>10, <1>11 DEF GrowsBy

\* What the sweep has made of the starts in T, if those are the first ones.
SweptTo(spans, T, v) ==
  (\A e \in T, f \in StartsOf(spans) : f < e => f \in T) =>
    /\ Tidy(v)
    /\ \A i \in DOMAIN v : v[i].owners # {} /\ \E e \in T : v[i].x1 = NextEnd(spans, e)
    /\ \A x \in Int : \A w : RowCovers(v, x, w) <=>
         /\ w # {} /\ w = OwnersAt(spans, x)
         /\ \E e \in T : e <= x /\ x < NextEnd(spans, e)

\* The last of some starts.
LEMMA LastStart ==
  ASSUME NEW spans, IsSpans(spans), NEW T \in SUBSET StartsOf(spans), T # {}
  PROVE  Max(T) \in T /\ \A e \in T : e <= Max(T)
  <1>1. T \in SUBSET EndsOf(spans) /\ T \in SUBSET Int /\ IsFiniteSet(T)
    <2>1. EndsOf(spans) \in SUBSET Int /\ IsFiniteSet(EndsOf(spans))
      BY NothingChangesBetween
    <2>2. T \in SUBSET EndsOf(spans)
      BY DEF StartsOf
    <2> QED BY <2>1, <2>2, FS_Subset
  <1>2. Max(T) \in T /\ \A e \in T : Max(T) >= e
    BY <1>1, Extremes
  <1> QED BY <1>1, <1>2

\* What a step does with the next run.
SweepRun(v, run) ==
  IF run.owners = {} THEN v
  ELSE IF v # <<>> /\ Last(v).x1 = run.x0 /\ Last(v).owners = run.owners
       THEN Append(Front(v), Joined(v, run))
  ELSE Append(v, run)

\* It makes rows of runs.
LEMMA RowOfRuns ==
  ASSUME NEW O, NEW v \in Seq(Runs(O)), NEW run \in Runs(O)
  PROVE  /\ Append(v, run) \in Seq(Runs(O))
         /\ v # <<>> => Append(Front(v), Joined(v, run)) \in Seq(Runs(O))
  <1>1. ASSUME v # <<>> PROVE Append(Front(v), Joined(v, run)) \in Seq(Runs(O))
    <2> PICK n \in Nat : n = Len(v) /\ DOMAIN v = 1 .. n
      OBVIOUS
    <2>1. n # 0
      BY <1>1
    <2>2. Front(v) \in Seq(Runs(O))
      BY <2>1 DEF Front
    <2>3. v[n] \in Runs(O) /\ Last(v) = v[n]
      BY <2>1 DEF Last
    <2>4. [run EXCEPT !.x0 = v[n].x0] \in Runs(O)
      BY <2>3 DEF Runs
    <2> QED BY <2>2, <2>3, <2>4 DEF Joined
  <1> QED BY <1>1

\* One step of the sweep.
LEMMA SweepStep ==
  ASSUME NEW spans, IsSpans(spans), NEW O, O = {s.owner : s \in spans},
         NEW T \in SUBSET StartsOf(spans), NEW left \in T, \A e \in T : e <= left,
         NEW v \in Seq(Runs(O)), SweptTo(spans, T \ {left}, v),
         NEW run, run = [x0 |-> left, x1 |-> NextEnd(spans, left), owners |-> ActiveAt(spans, left)],
         NEW u, u = SweepRun(v, run)
  PROVE  u \in Seq(Runs(O)) /\ SweptTo(spans, T, u)
  <1> DEFINE First == \A e \in T, f \in StartsOf(spans) : f < e => f \in T
             before == T \ {left}
             Next(e) == NextEnd(spans, e)
             reached(x) == \E e \in T : e <= x /\ x < Next(e)
             reachedBefore(x) == \E e \in before : e <= x /\ x < Next(e)
  <1>1. \A e \in StartsOf(spans) :
          /\ e \in Int /\ Next(e) \in Int /\ e < Next(e) /\ e \in EndsOf(spans)
          /\ \A d \in EndsOf(spans) : e < d => Next(e) <= d
          /\ \A x \in Int : e <= x /\ x < Next(e) => OwnersAt(spans, x) = OwnersAt(spans, e)
    BY NothingChangesBetween DEF StartsOf
  <1>2. run.x0 = left /\ run.x1 = Next(left) /\ run.owners = OwnersAt(spans, left)
    BY <1>1, ActiveOwnersAreOver
  <1>3. run \in Runs(O) /\ run.x0 < run.x1
    <2>1. OwnersAt(spans, left) \in SUBSET O
      BY DEF OwnersAt
    <2>2. run = [x0 |-> left, x1 |-> Next(left), owners |-> OwnersAt(spans, left)]
      BY <1>1, ActiveOwnersAreOver
    <2>3. left \in Int /\ Next(left) \in Int /\ left < Next(left)
      BY <1>1
    <2> HIDE DEF Next
    <2> QED BY <1>2, <2>1, <2>2, <2>3 DEF Runs
  <1>4. \A x \in Int : reached(x) <=> reachedBefore(x) \/ (left <= x /\ x < Next(left))
    BY DEF before
  <1>5. ASSUME NEW e \in before PROVE e < left /\ Next(e) <= left
    BY <1>1
  <1> HIDE DEF Next, before
  <1>6. ASSUME First
        PROVE  \A e \in before, f \in StartsOf(spans) : f < e => f \in before
    BY <1>1, <1>5, <1>6 DEF before
  <1>7. ASSUME First
        PROVE  /\ Tidy(v)
               /\ \A i \in DOMAIN v : v[i].owners # {} /\ (\E e \in before : v[i].x1 = Next(e))
                                      /\ v[i].x1 <= run.x0
               /\ \A x \in Int : \A w : RowCovers(v, x, w) <=>
                    w # {} /\ w = OwnersAt(spans, x) /\ reachedBefore(x)
    <2>1. SweptTo(spans, before, v)
      BY DEF before
    <2>2. /\ Tidy(v)
          /\ \A i \in DOMAIN v : v[i].owners # {} /\ (\E e \in before : v[i].x1 = Next(e))
          /\ \A x \in Int : \A w : RowCovers(v, x, w) <=>
               w # {} /\ w = OwnersAt(spans, x) /\ reachedBefore(x)
      BY <1>6, <1>7, <2>1 DEF SweptTo, Next
    <2>3. \A i \in DOMAIN v : v[i].x1 <= run.x0
      BY <1>2, <1>5, <2>2
    <2> QED BY <2>2, <2>3
  <1>8. \A x \in Int : \A w : w = OwnersAt(spans, x) /\ left <= x /\ x < Next(left)
                                <=> w = run.owners /\ run.x0 <= x /\ x < run.x1
    BY <1>1, <1>2 DEF Next
  <1>9. ASSUME NEW r \in Seq(Runs(O)), First => Tidy(r),
               First => \A i \in DOMAIN r :
                 \/ i \in DOMAIN v /\ r[i] = v[i]
                 \/ r[i].owners = run.owners /\ r[i].x1 = run.x1 /\ run.owners # {},
               First => \A x \in Int : \A w : RowCovers(r, x, w) <=>
                 \/ RowCovers(v, x, w)
                 \/ run.owners # {} /\ run.x0 <= x /\ x < run.x1 /\ run.owners = w
        PROVE  SweptTo(spans, T, r)
    <2> SUFFICES ASSUME First
                 PROVE  /\ Tidy(r)
                        /\ \A i \in DOMAIN r : r[i].owners # {} /\ \E e \in T : r[i].x1 = Next(e)
                        /\ \A x \in Int : \A w : RowCovers(r, x, w) <=>
                             w # {} /\ w = OwnersAt(spans, x) /\ reached(x)
      BY DEF SweptTo, Next
    <2>1. \A i \in DOMAIN r : r[i].owners # {} /\ \E e \in T : r[i].x1 = Next(e)
      BY <1>2, <1>7, <1>9 DEF before
    <2>2. ASSUME NEW x \in Int, NEW w
          PROVE  RowCovers(r, x, w) <=> w # {} /\ w = OwnersAt(spans, x) /\ reached(x)
      <3>1. RowCovers(r, x, w) <=> \/ RowCovers(v, x, w)
                                   \/ run.owners # {} /\ run.x0 <= x /\ x < run.x1 /\ run.owners = w
        BY <1>9
      <3>2. RowCovers(v, x, w) <=> w # {} /\ w = OwnersAt(spans, x) /\ reachedBefore(x)
        BY <1>7
      <3>3. reached(x) <=> reachedBefore(x) \/ (left <= x /\ x < Next(left))
        BY <1>4
      <3>4. w = OwnersAt(spans, x) /\ left <= x /\ x < Next(left)
              <=> w = run.owners /\ run.x0 <= x /\ x < run.x1
        BY <1>8
      <3> HIDE DEF reached, reachedBefore
      <3> QED BY <3>1, <3>2, <3>3, <3>4
    <2> QED BY <1>9, <2>1, <2>2
  <1>10. CASE run.owners = {}
    <2>1. u = v
      BY <1>10 DEF SweepRun
    <2> QED BY <1>7, <1>9, <1>10, <2>1
  <1>11. CASE run.owners # {} /\ v # <<>> /\ Last(v).x1 = run.x0 /\ Last(v).owners = run.owners
    <2>1. u = Append(Front(v), Joined(v, run))
      BY <1>11 DEF SweepRun
    <2>2. u \in Seq(Runs(O))
      BY <1>3, <1>11, <2>1, RowOfRuns
    <2>3. ASSUME First PROVE GrowsBy(u, v, run)
      <3>1. Tidy(v)
        BY <1>7, <2>3
      <3>2. v \in Seq(Runs(O))
        OBVIOUS
      <3> QED BY ONLY <1>3, <1>11, <2>1, <3>1, <3>2, RunIsContinued
    <2>4. SweptTo(spans, T, u)
      BY <1>9, <1>11, <2>2, <2>3 DEF GrowsBy
    <2> QED BY <2>2, <2>4
  <1>12. CASE run.owners # {} /\ ~(v # <<>> /\ Last(v).x1 = run.x0 /\ Last(v).owners = run.owners)
    <2>1. u = Append(v, run)
      BY <1>12 DEF SweepRun
    <2>2. u \in Seq(Runs(O))
      BY <1>3, <2>1, RowOfRuns
    <2>3. ASSUME First PROVE GrowsBy(u, v, run)
      <3>1. Tidy(v) /\ EndsBy(v, run.x0)
        BY <1>7, <2>3 DEF EndsBy
      <3>2. v \in Seq(Runs(O))
        OBVIOUS
      <3> QED BY ONLY <1>3, <1>12, <2>1, <3>1, <3>2, RunIsAppended
    <2>4. SweptTo(spans, T, u)
      BY <1>9, <1>12, <2>2, <2>3 DEF GrowsBy
    <2> QED BY <2>2, <2>4
  <1> QED BY <1>10, <1>11, <1>12

\* The sweep of a row: every place of a run has the owners of the run, a place with owners is
\* in one run, and a run is as long as it can be.
LEMMA RunsOfSpans ==
  ASSUME NEW spans, IsSpans(spans)
  PROVE  \E v : /\ UnionWithContributors(spans) = v /\ v \in Seq(Runs({s.owner : s \in spans}))
                /\ Tidy(v) /\ \A i \in DOMAIN v : v[i].owners # {}
                /\ \A x \in Int : \A w : RowCovers(v, x, w) <=> w # {} /\ w = OwnersAt(spans, x)
  <1> DEFINE S == {e \in EndsOf(spans) : \E d \in EndsOf(spans) : e < d}
             O == {s.owner : s \in spans}
             run(left) == [x0 |-> left, x1 |-> Min({e \in EndsOf(spans) : left < e}),
                           owners |-> ActiveAt(spans, left)]
             Sweep(left, acc) ==
               IF run(left).owners = {} THEN acc
               ELSE IF acc # <<>> /\ Last(acc).x1 = run(left).x0 /\ Last(acc).owners = run(left).owners
                    THEN Append(Front(acc), [run(left) EXCEPT !.x0 = Last(acc).x0])
               ELSE Append(acc, run(left))
             Swept(h) == h = [T \in SUBSET S |-> IF T = {} THEN <<>> ELSE Sweep(Max(T), h[T \ {Max(T)}])]
             Good == {p \in (SUBSET S) \X Seq(Runs(O)) : SweptTo(spans, p[1], p[2])}
  <1>1. UnionWithContributors(spans) = (CHOOSE h : Swept(h))[S]
    BY DEF UnionWithContributors, MapThenFoldSet, EndsOf
  <1>2. S = StartsOf(spans) /\ IsFiniteSet(S)
    <2>1. IsFiniteSet(EndsOf(spans))
      BY NothingChangesBetween
    <2>2. S = StartsOf(spans) /\ S \in SUBSET EndsOf(spans)
      BY DEF StartsOf
    <2> HIDE DEF S
    <2> QED BY <2>1, <2>2, FS_Subset
  <1> PICK c : c = [T \in SUBSET S |-> Max(T)]
    OBVIOUS
  <1> HIDE DEF S, O
  <1>3. /\ Chooses(c, S)
        /\ \A T \in SUBSET S : T # {} => c[T] = Max(T) /\ Max(T) \in T /\ \A e \in T : e <= Max(T)
    <2>1. ASSUME NEW T \in SUBSET S, T # {}
          PROVE  c[T] = Max(T) /\ Max(T) \in T /\ \A e \in T : e <= Max(T)
      BY <1>2, <2>1, LastStart
    <2> QED BY <2>1 DEF Chooses
  <1> PICK Rows1 : Rows1 = Seq(Runs(O))
    OBVIOUS
  <1>4. ASSUME NEW V, Rows1 \subseteq V, NEW F, F = [p \in V \X S |-> Sweep(p[2], p[1])]
        PROVE  \E h : Folds(h, S, c, <<>>, F) /\ \A T \in SUBSET S : <<T, h[T]>> \in Good
    <2>1. <<{}, <<>>>> \in Good
      <3>1. SweptTo(spans, {}, <<>>)
        BY DEF SweptTo, Tidy, RowCovers
      <3>2. <<>> \in Seq(Runs(O))
        OBVIOUS
      <3> QED BY <3>1, <3>2
    <2>2. ASSUME NEW T \in SUBSET S, T # {}, NEW v, <<T \ {c[T]}, v>> \in Good
          PROVE  <<T, F[<<v, c[T]>>]>> \in Good
      <3> PICK left : left = c[T]
        OBVIOUS
      <3>1. left \in T /\ left \in S /\ T \in SUBSET StartsOf(spans) /\ \A e \in T : e <= left
        BY <1>2, <1>3, <2>2
      <3>2. v \in Seq(Runs(O)) /\ v \in Rows1 /\ SweptTo(spans, T \ {left}, v)
        BY <2>2
      <3> PICK u : u = Sweep(left, v)
        OBVIOUS
      <3>3. F[<<v, left>>] = u
        <4> HIDE DEF Sweep
        <4> QED BY <1>4, <3>1, <3>2
      <3>4. u \in Seq(Runs(O)) /\ SweptTo(spans, T, u)
        <4> PICK r : r = run(left)
          OBVIOUS
        <4>1. r = [x0 |-> left, x1 |-> NextEnd(spans, left), owners |-> ActiveAt(spans, left)]
          BY DEF NextEnd
        <4>2. u = SweepRun(v, r)
          BY DEF SweepRun, Joined
        <4>3. O = {s.owner : s \in spans} /\ IsSpans(spans)
          BY DEF O
        <4> QED BY ONLY <3>1, <3>2, <4>1, <4>2, <4>3, SweepStep
      <3> QED BY <3>3, <3>4
    <2> HIDE DEF Good
    <2>3. Preserves(F, S, c, Good)
      BY <2>2 DEF Preserves
    <2>4. IsFiniteSet(S) /\ Chooses(c, S)
      BY <1>2, <1>3
    <2> QED BY ONLY <2>1, <2>3, <2>4, FoldExists
  <1> HIDE DEF Sweep
  <1>5. \E h : Swept(h)
    <2> PICK F : F = [p \in Rows1 \X S |-> Sweep(p[2], p[1])]
      OBVIOUS
    <2>1. PICK h : Folds(h, S, c, <<>>, F) /\ \A T \in SUBSET S : <<T, h[T]>> \in Good
      BY <1>4
    <2>2. \A T \in SUBSET S : h[T] \in Rows1
      BY <2>1
    <2> HIDE DEF Good
    <2>3. ASSUME NEW T \in SUBSET S, T # {}
          PROVE  F[<<h[T \ {c[T]}], c[T]>>] = Sweep(Max(T), h[T \ {Max(T)}])
      BY <1>3, <2>2, <2>3
    <2>4. h = [T \in SUBSET S |-> IF T = {} THEN <<>> ELSE F[<<h[T \ {c[T]}], c[T]>>]]
      BY <2>1 DEF Folds
    <2>5. \A T \in SUBSET S : (IF T = {} THEN <<>> ELSE F[<<h[T \ {c[T]}], c[T]>>])
                               = IF T = {} THEN <<>> ELSE Sweep(Max(T), h[T \ {Max(T)}])
      BY <2>3
    <2>6. Swept(h)
      BY <2>4, <2>5
    <2> QED BY <2>6
  <1> DEFINE g == CHOOSE h : Swept(h)
  <1>6. Swept(g)
    BY <1>5
  <1> HIDE DEF g
  <1>7. <<S, g[S]>> \in Good
    <2> PICK V : V = Rows1 \cup {g[T] : T \in SUBSET S}
      OBVIOUS
    <2> PICK F : F = [p \in V \X S |-> Sweep(p[2], p[1])]
      OBVIOUS
    <2>1. PICK h : Folds(h, S, c, <<>>, F) /\ \A T \in SUBSET S : <<T, h[T]>> \in Good
      BY <1>4
    <2> HIDE DEF Good
    <2>2. ASSUME NEW T \in SUBSET S, T # {}
          PROVE  F[<<g[T \ {c[T]}], c[T]>>] = Sweep(Max(T), g[T \ {Max(T)}])
      BY <1>3, <2>2
    <2>3. Folds(g, S, c, <<>>, F)
      BY <1>6, <2>2 DEF Folds
    <2>4. g[S] = h[S]
      BY <1>2, <1>3, <2>1, <2>3, FoldIsOne
    <2> QED BY <2>1, <2>4
  <1>8. \A x \in Int : (\E e \in S : e <= x /\ x < NextEnd(spans, e)) \/ OwnersAt(spans, x) = {}
    BY <1>2, NothingChangesBetween
  <1>9. g[S] \in Seq(Runs(O)) /\ SweptTo(spans, S, g[S])
    BY <1>7
  <1>10. UnionWithContributors(spans) = g[S]
    BY <1>1 DEF g
  <1> PICK v : v = g[S]
    OBVIOUS
  <1>11. /\ Tidy(v) /\ \A i \in DOMAIN v : v[i].owners # {}
         /\ \A x \in Int : \A w : RowCovers(v, x, w) <=> w # {} /\ w = OwnersAt(spans, x)
    BY <1>2, <1>8, <1>9 DEF SweptTo
  <1> QED BY <1>9, <1>10, <1>11 DEF O

\* Division keeps the order.
LEMMA DivisionKeepsOrder ==
  ASSUME NEW n \in Nat \ {0}, NEW a \in Int, NEW b \in Int, a <= b
  PROVE  a \div n \in Int /\ b \div n \in Int /\ a \div n <= b \div n
  <1> PICK p, q : p = a \div n /\ q = b \div n
    OBVIOUS
  <1>1. /\ p \in Int /\ n * p <= a /\ a < n * p + n
        /\ q \in Int /\ n * q <= b /\ b < n * q + n
    OBVIOUS
  <1>2. ASSUME q < p PROVE FALSE
    <2>1. q + 1 <= p
      BY <1>1, <1>2
    <2>2. n * (q + 1) <= n * p
      BY <1>1, <2>1
    <2>3. n * (q + 1) = n * q + n
      BY <1>1
    <2> PICK u, v : u = n * p /\ v = n * q
      OBVIOUS
    <2>4. u \in Int /\ v \in Int
      BY <1>1
    <2> QED BY <1>1, <2>2, <2>3, <2>4
  <1> QED BY <1>1, <1>2

\* The rows of the vertices of a polygon lie between its first and its last.
LEMMA VerticesAreInRows ==
  ASSUME NEW poly, IsPolygon(poly)
  PROVE  /\ Rows(poly).lo \in Int /\ Rows(poly).hi \in Int
         /\ \A i \in DOMAIN poly.outer : /\ poly.outer[i][2] \in Int
                                         /\ Rows(poly).lo <= poly.outer[i][2]
                                         /\ poly.outer[i][2] <= Rows(poly).hi
  <1> DEFINE ys == {p[2] : p \in Range(poly.outer)}
  <1> PICK outer : outer = poly.outer
    OBVIOUS
  <1>1. outer \in Seq(Points) /\ outer # <<>>
    BY DEF IsPolygon
  <1> PICK n \in Nat : n = Len(outer) /\ DOMAIN outer = 1 .. n
    BY <1>1
  <1>2. n # 0 /\ \A i \in 1 .. n : outer[i] \in Points
    BY <1>1
  <1>3. \A i \in 1 .. n : outer[i][2] \in ys /\ outer[i][2] \in Int
    BY <1>2 DEF Range, Points
  <1> PICK f : f = [i \in 1 .. n |-> outer[i][2]]
    OBVIOUS
  <1>4. ys = {f[i] : i \in 1 .. n}
    BY DEF Range
  <1>5. ys \in SUBSET Int /\ ys # {}
    <2>1. \A i \in 1 .. n : f[i] \in Int
      BY <1>3
    <2>2. 1 \in 1 .. n
      BY <1>2
    <2> HIDE DEF ys
    <2> QED BY <1>4, <2>1, <2>2
  <1> HIDE DEF ys
  <1>6. IsFiniteSet(ys)
    <2>1. IsFiniteSet(1 .. n)
      BY FS_Interval
    <2> QED BY ONLY <1>4, <2>1, FiniteImage
  <1>7. Max(ys) \in ys /\ (\A a \in ys : Max(ys) >= a) /\ Min(ys) \in ys /\ \A a \in ys : Min(ys) <= a
    BY <1>5, <1>6, Extremes
  <1>8. Rows(poly).lo = Min(ys) /\ Rows(poly).hi = Max(ys)
    BY DEF Rows, ys
  <1>9. Min(ys) \in Int /\ Max(ys) \in Int
    BY <1>5, <1>7
  <1> QED BY <1>3, <1>7, <1>8, <1>9

\* The index of polygons finds each one that is inside the row.
LEMMA InsideIsCandidate ==
  ASSUME NEW polys, NEW p \in polys, IsPolygon(p), NEW x \in Int, NEW y \in Int,
         NEW height \in Nat \ {0}, Inside(p, x, y)
  PROVE  p \in CandidatesForRow(polys, y, height)
  <1>1. p.outer \in Seq(Points)
    BY DEF IsPolygon
  <1> DEFINE met == {i \in DOMAIN p.outer : RightOf(p.outer, i, x, y)}
  <1>2. Cardinality(met) % 2 = 1
    BY DEF Inside, InLoop, RightOf
  <1>3. met # {}
    <2>1. Cardinality({}) = 0
      BY FS_EmptySet
    <2>2. 0 % 2 = 0
      OBVIOUS
    <2> HIDE DEF met
    <2> QED BY <1>2, <2>1, <2>2
  <1>4. PICK i \in DOMAIN p.outer : RightOf(p.outer, i, x, y)
    BY <1>3
  <1> PICK a, b, c, d : a = p.outer[i][2] /\ b = p.outer[(i % Len(p.outer)) + 1][2]
                        /\ c = Rows(p).lo /\ d = Rows(p).hi
    OBVIOUS
  <1>5. (a <= y /\ y < b) \/ (b <= y /\ y < a)
    BY <1>4 DEF RightOf
  <1>6. (i % Len(p.outer)) + 1 \in DOMAIN p.outer
    BY <1>1, EdgesEnd
  <1>7. /\ a \in Int /\ b \in Int /\ c \in Int /\ d \in Int
        /\ c <= a /\ a <= d /\ c <= b /\ b <= d
    BY <1>6, VerticesAreInRows
  <1>8. c <= y /\ y < d /\ ~(d <= c) /\ y <= d - 1 /\ d - 1 \in Int
    <2>1. y \in Int
      OBVIOUS
    <2> QED BY ONLY <1>5, <1>7, <2>1
  <1>9. /\ c \div height \in Int /\ y \div height \in Int /\ (d - 1) \div height \in Int
        /\ c \div height <= y \div height /\ y \div height <= (d - 1) \div height
    BY <1>7, <1>8, DivisionKeepsOrder
  <1>10. y \div height \in c \div height .. (d - 1) \div height
    BY <1>9
  <1> QED BY <1>8, <1>10 DEF CandidatesForRow, Bands

\* The objects whose interior a pixel is in.
Over(polys, x, y) == {q.id : q \in {p \in polys : Inside(p, x, y)}}

\* Finitely many polygons.
IsLayout(polys) == IsFiniteSet(polys) /\ \A p \in polys : IsPolygon(p)

\* The clipped spans of polygon p in a row of width w, and those of all of them.
ClippedSpans(p, y, w) ==
  {[x0 |-> Greater(0, s[1]), x1 |-> Lesser(w, s[2]), owner |-> p.id] : s \in PolygonRowSpans(p, y)}
SpansOfRow(polys, y, w, height) ==
  {s \in UNION {ClippedSpans(p, y, w) : p \in CandidatesForRow(polys, y, height)} : s.x0 < s.x1}

\* The clipped spans are over the pixels of the row that the objects are over.
LEMMA RowSpansAreExact ==
  ASSUME NEW polys, IsLayout(polys), NEW y \in Int, NEW w \in Nat, NEW height \in Nat \ {0}
  PROVE  /\ IsSpans(SpansOfRow(polys, y, w, height))
         /\ \A x \in Int : OwnersAt(SpansOfRow(polys, y, w, height), x)
                             = IF 0 <= x /\ x < w THEN Over(polys, x, y) ELSE {}
  <1> DEFINE C == CandidatesForRow(polys, y, height)
             all == UNION {ClippedSpans(p, y, w) : p \in C}
             spans == SpansOfRow(polys, y, w, height)
  <1>1. C \in SUBSET polys /\ IsFiniteSet(C)
    <2>1. C \in SUBSET polys
      BY DEF CandidatesForRow
    <2> HIDE DEF C
    <2> QED BY <2>1, FS_Subset DEF IsLayout
  <1> HIDE DEF C
  <1>2. ASSUME NEW p \in C
        PROVE  /\ IsPolygon(p) /\ PolygonRowSpans(p, y) \in SpanSets
               /\ \A x \in Int : Spanned(PolygonRowSpans(p, y), x) <=> Inside(p, x, y)
    <2>1. IsPolygon(p)
      BY <1>1 DEF IsLayout
    <2> QED BY <2>1, PolygonSpansAreInside
  <1>3. ASSUME NEW p \in C
        PROVE  /\ IsFiniteSet(ClippedSpans(p, y, w))
               /\ \A s \in ClippedSpans(p, y, w) : s.x0 \in Int /\ s.x1 \in Int
    <2> PICK v : v = PolygonRowSpans(p, y)
      OBVIOUS
    <2>1. IsFiniteSet(v) /\ \A s \in v : s[1] \in Int /\ s[2] \in Int
      BY <1>2 DEF SpanSets, Points
    <2> PICK f : f = [s \in v |-> [x0 |-> Greater(0, s[1]), x1 |-> Lesser(w, s[2]), owner |-> p.id]]
      OBVIOUS
    <2>2. ClippedSpans(p, y, w) = {f[s] : s \in v}
      BY DEF ClippedSpans
    <2>3. IsFiniteSet(ClippedSpans(p, y, w))
      BY <2>1, <2>2, FiniteImage
    <2>4. \A s \in v : Greater(0, s[1]) \in Int /\ Lesser(w, s[2]) \in Int
      BY <2>1 DEF Greater, Lesser
    <2> QED BY <2>3, <2>4 DEF ClippedSpans
  <1>4. IsSpans(spans)
    <2> PICK f : f = [p \in C |-> ClippedSpans(p, y, w)]
      OBVIOUS
    <2>1. {ClippedSpans(p, y, w) : p \in C} = {f[p] : p \in C}
      OBVIOUS
    <2>2. IsFiniteSet({f[p] : p \in C})
      BY <1>1, FiniteImage
    <2>3. IsFiniteSet(all)
      <3>1. \A c \in {f[p] : p \in C} : IsFiniteSet(c)
        BY <1>3
      <3> QED BY <2>1, <2>2, <3>1, FS_UNION
    <2>4. spans = {s \in all : s.x0 < s.x1}
      BY DEF SpansOfRow, C
    <2>5. \A s \in all : s.x0 \in Int /\ s.x1 \in Int
      BY <1>3
    <2> HIDE DEF all, spans
    <2>6. IsFiniteSet(spans)
      <3>1. spans \in SUBSET all
        BY <2>4
      <3> QED BY <2>3, <3>1, FS_Subset
    <2> QED BY <2>4, <2>5, <2>6 DEF IsSpans
  <1>5. ASSUME NEW x \in Int
        PROVE  OwnersAt(spans, x) = IF 0 <= x /\ x < w THEN Over(polys, x, y) ELSE {}
    <2>1. ASSUME NEW o
          PROVE  o \in OwnersAt(spans, x) <=>
                   \E p \in C : \E s \in PolygonRowSpans(p, y) :
                     o = p.id /\ Greater(0, s[1]) <= x /\ x < Lesser(w, s[2])
      <3>1. o \in OwnersAt(spans, x) <=> \E t \in spans : o = t.owner /\ t.x0 <= x /\ x < t.x1
        BY DEF OwnersAt
      <3>2. \A t : t \in spans <=> t \in all /\ t.x0 < t.x1
        BY DEF SpansOfRow, C
      <3>3. \A t \in all : t.x0 \in Int /\ t.x1 \in Int
        BY <1>3
      <3>4. \A t : t \in all <=> \E p \in C : t \in ClippedSpans(p, y, w)
        OBVIOUS
      <3> HIDE DEF spans, all
      <3>5. o \in OwnersAt(spans, x) <=>
              \E p \in C : \E t \in ClippedSpans(p, y, w) : o = t.owner /\ t.x0 <= x /\ x < t.x1
        BY <3>1, <3>2, <3>3, <3>4
      <3>6. ASSUME NEW p \in C
            PROVE  (\E t \in ClippedSpans(p, y, w) : o = t.owner /\ t.x0 <= x /\ x < t.x1) <=>
                     \E s \in PolygonRowSpans(p, y) :
                       o = p.id /\ Greater(0, s[1]) <= x /\ x < Lesser(w, s[2])
        <4> PICK v : v = PolygonRowSpans(p, y)
          OBVIOUS
        <4> PICK f : f = [s \in v |-> [x0 |-> Greater(0, s[1]), x1 |-> Lesser(w, s[2]), owner |-> p.id]]
          OBVIOUS
        <4>1. ClippedSpans(p, y, w) = {f[s] : s \in v}
          BY DEF ClippedSpans
        <4>2. \A s \in v : f[s].x0 = Greater(0, s[1]) /\ f[s].x1 = Lesser(w, s[2]) /\ f[s].owner = p.id
          OBVIOUS
        <4> QED BY <4>1, <4>2
      <3> QED BY <3>5, <3>6
    <2>2. ASSUME NEW p \in C
          PROVE  (\E s \in PolygonRowSpans(p, y) : Greater(0, s[1]) <= x /\ x < Lesser(w, s[2]))
                   <=> 0 <= x /\ x < w /\ Inside(p, x, y)
      <3>1. \A s \in PolygonRowSpans(p, y) : s[1] \in Int /\ s[2] \in Int
        BY <1>2 DEF SpanSets, Points
      <3>2. \A s \in PolygonRowSpans(p, y) :
              Greater(0, s[1]) <= x /\ x < Lesser(w, s[2]) <=> 0 <= x /\ x < w /\ s[1] <= x /\ x < s[2]
        BY <3>1 DEF Greater, Lesser
      <3>3. Spanned(PolygonRowSpans(p, y), x) <=> Inside(p, x, y)
        BY <1>2
      <3> QED BY <3>2, <3>3 DEF Spanned
    <2>3. ASSUME NEW p \in polys, Inside(p, x, y) PROVE p \in C
      BY <2>3, InsideIsCandidate DEF IsLayout, C
    <2>4. ASSUME NEW o
          PROVE  o \in OwnersAt(spans, x) <=> 0 <= x /\ x < w /\ o \in Over(polys, x, y)
      <3>1. o \in OwnersAt(spans, x) <=> \E p \in C : o = p.id /\ 0 <= x /\ x < w /\ Inside(p, x, y)
        BY <2>1, <2>2
      <3>2. o \in Over(polys, x, y) <=> \E p \in polys : o = p.id /\ Inside(p, x, y)
        BY DEF Over
      <3> QED BY <1>1, <2>3, <3>1, <3>2
    <2> HIDE DEF spans
    <2>5. CASE 0 <= x /\ x < w
      BY <2>4, <2>5
    <2>6. CASE ~(0 <= x /\ x < w)
      BY <2>4, <2>6
    <2> QED BY <2>5, <2>6
  <1> QED BY <1>4, <1>5

\* A row of canonical runs: each place with owners is in one run, which has them, no place
\* without any is in a run, and runs that meet differ.
IsRowOf(rows, polys, y, w) ==
  /\ \A r \in rows : r.x0 \in Int /\ r.x1 \in Int /\ r.x0 < r.x1
  /\ \A x \in Int, r \in rows : r.x0 <= x /\ x < r.x1 =>
       0 <= x /\ x < w /\ r.owners # {} /\ r.owners = Over(polys, x, y)
  /\ \A x \in Int : 0 <= x /\ x < w /\ Over(polys, x, y) # {} => \E r \in rows : r.x0 <= x /\ x < r.x1
  /\ \A x \in Int, r, s \in rows : r.x0 <= x /\ x < r.x1 /\ s.x0 <= x /\ x < s.x1 => r = s
  /\ \A r, s \in rows : r.x1 = s.x0 => r.owners # s.owners

\* The runs of a row are that, for any layout, row and width.
THEOREM OwnedRowIsExact ==
  ASSUME NEW polys, IsLayout(polys), NEW y \in Int, NEW w \in Nat, NEW height \in Nat \ {0}
  PROVE  IsRowOf(OwnedRow(polys, y, w, height), polys, y, w)
  <1> PICK spans : spans = SpansOfRow(polys, y, w, height)
    OBVIOUS
  <1>1. /\ IsSpans(spans)
        /\ \A x \in Int : OwnersAt(spans, x) = IF 0 <= x /\ x < w THEN Over(polys, x, y) ELSE {}
    BY RowSpansAreExact
  <1> PICK O : O = {s.owner : s \in spans}
    OBVIOUS
  <1>2. PICK v : /\ UnionWithContributors(spans) = v /\ v \in Seq(Runs(O))
                 /\ Tidy(v) /\ \A i \in DOMAIN v : v[i].owners # {}
                 /\ \A x \in Int : \A u : RowCovers(v, x, u) <=> u # {} /\ u = OwnersAt(spans, x)
    BY <1>1, RunsOfSpans
  <1> PICK rows : rows = OwnedRow(polys, y, w, height)
    OBVIOUS
  <1>3. rows = {v[i] : i \in DOMAIN v}
    <2>1. spans = {s \in UNION {ClippedSpans(p, y, w) : p \in CandidatesForRow(polys, y, height)} :
                     s.x0 < s.x1}
      BY DEF SpansOfRow
    <2>2. OwnedRow(polys, y, w, height) = Range(UnionWithContributors(spans))
      BY <2>1 DEF OwnedRow, ClippedSpans
    <2> QED BY <1>2, <2>2 DEF Range
  <1>4. \A i \in DOMAIN v : v[i].x0 \in Int /\ v[i].x1 \in Int /\ v[i].x0 < v[i].x1 /\ i \in Int
    <2>1. \A i \in DOMAIN v : v[i] \in Runs(O) /\ i \in Int
      BY <1>2
    <2>2. \A r \in Runs(O) : r.x0 \in Int /\ r.x1 \in Int
      BY DEF Runs
    <2> QED BY <1>2, <2>1, <2>2 DEF Tidy
  <1>5. \A i, j \in DOMAIN v : i < j =>
          v[i].x1 < v[j].x0 \/ (v[i].x1 = v[j].x0 /\ v[i].owners # v[j].owners)
    BY <1>2 DEF Tidy
  <1>6. ASSUME NEW x \in Int, NEW r \in rows, r.x0 <= x, x < r.x1
        PROVE  0 <= x /\ x < w /\ r.owners # {} /\ r.owners = Over(polys, x, y)
    <2>1. RowCovers(v, x, r.owners)
      BY <1>3, <1>6 DEF RowCovers
    <2>2. r.owners # {} /\ r.owners = OwnersAt(spans, x)
      BY <1>2, <2>1
    <2> QED BY <1>1, <2>2
  <1>7. ASSUME NEW x \in Int, 0 <= x, x < w, Over(polys, x, y) # {}
        PROVE  \E r \in rows : r.x0 <= x /\ x < r.x1
    <2>1. RowCovers(v, x, Over(polys, x, y))
      BY <1>1, <1>2, <1>7
    <2> QED BY <1>3, <2>1 DEF RowCovers
  <1>8. ASSUME NEW x \in Int, NEW i \in DOMAIN v, NEW j \in DOMAIN v,
               v[i].x0 <= x, x < v[i].x1, v[j].x0 <= x, x < v[j].x1
        PROVE  i = j
    <2>1. ~(i < j)
      BY <1>4, <1>5, <1>8
    <2>2. ~(j < i)
      BY <1>4, <1>5, <1>8
    <2> QED BY <1>4, <2>1, <2>2
  <1>9. ASSUME NEW i \in DOMAIN v, NEW j \in DOMAIN v, v[i].x1 = v[j].x0
        PROVE  v[i].owners # v[j].owners
    <2>1. ~(j < i) /\ i # j
      BY <1>4, <1>5, <1>9
    <2>2. i < j
      BY <1>4, <2>1
    <2> QED BY <1>4, <1>5, <1>9, <2>2
  <1> QED BY <1>3, <1>4, <1>6, <1>7, <1>8, <1>9 DEF IsRowOf

\* What a tile reads of a window of the layout is what is inside some object there.
THEOREM WindowIsExact ==
  ASSUME NEW polys, IsLayout(polys), NEW w \in Nat, NEW height \in Nat \ {0},
         NEW box, box.x0 \in Int, box.x1 \in Int, box.y0 \in Int, box.y1 \in Int,
         0 <= box.x0, box.x1 <= w
  PROVE  ReadWindow(polys, box, w, height)
           = {p \in Pixels(box) : \E q \in polys : Inside(q, p[1], p[2])}
  <1> DEFINE slices(y) == {<<Greater(r.x0, box.x0), Lesser(r.x1, box.x1)>> :
                             r \in OwnedRow(polys, y, w, height)}
             row(y) == UNION {(s[1] .. s[2] - 1) \X {y} : s \in slices(y)}
  <1>1. ReadWindow(polys, box, w, height) = UNION {row(y) : y \in box.y0 .. box.y1 - 1}
    BY DEF ReadWindow
  <1>2. ASSUME NEW y \in box.y0 .. box.y1 - 1, NEW p
        PROVE  p \in row(y) <=> p \in Pixels(box) /\ p[2] = y /\ \E q \in polys : Inside(q, p[1], p[2])
    <2> PICK rows : rows = OwnedRow(polys, y, w, height)
      OBVIOUS
    <2>1. IsRowOf(rows, polys, y, w)
      BY OwnedRowIsExact
    <2>2. \A r \in rows : r.x0 \in Int /\ r.x1 \in Int
      BY <2>1 DEF IsRowOf
    <2>3. p \in row(y) <=> \E s \in slices(y) : p \in (s[1] .. s[2] - 1) \X {y}
      OBVIOUS
    <2>4. p \in row(y) <=>
            \E r \in rows : p \in (Greater(r.x0, box.x0) .. Lesser(r.x1, box.x1) - 1) \X {y}
      <3> PICK f : f = [r \in rows |-> <<Greater(r.x0, box.x0), Lesser(r.x1, box.x1)>>]
        OBVIOUS
      <3>1. slices(y) = {f[r] : r \in rows}
        OBVIOUS
      <3>2. \A r \in rows : f[r][1] = Greater(r.x0, box.x0) /\ f[r][2] = Lesser(r.x1, box.x1)
        OBVIOUS
      <3> HIDE DEF row, slices
      <3> QED BY <2>3, <3>1, <3>2
    <2> HIDE DEF row, slices
    <2>5. ASSUME NEW x \in Int, NEW r \in rows
          PROVE  x \in Greater(r.x0, box.x0) .. Lesser(r.x1, box.x1) - 1 <=>
                   box.x0 <= x /\ x < box.x1 /\ r.x0 <= x /\ x < r.x1
      BY <2>2 DEF Greater, Lesser
    <2>6. ASSUME NEW x \in Int
          PROVE  (\E r \in rows : x \in Greater(r.x0, box.x0) .. Lesser(r.x1, box.x1) - 1)
                   <=> box.x0 <= x /\ x < box.x1 /\ \E q \in polys : Inside(q, x, y)
      <3>1. Over(polys, x, y) # {} <=> \E q \in polys : Inside(q, x, y)
        BY DEF Over
      <3>2. box.x0 <= x /\ x < box.x1 => 0 <= x /\ x < w
        OBVIOUS
      <3>3. ASSUME box.x0 <= x, x < box.x1
            PROVE  (\E r \in rows : r.x0 <= x /\ x < r.x1) <=> Over(polys, x, y) # {}
        BY <2>1, <3>2, <3>3 DEF IsRowOf
      <3> QED BY <2>5, <3>1, <3>3
    <2>7. ASSUME NEW r \in rows
          PROVE  Greater(r.x0, box.x0) .. Lesser(r.x1, box.x1) - 1 \in SUBSET Int
      OBVIOUS
    <2>8. p \in row(y) <=> /\ p = <<p[1], p[2]>> /\ p[2] = y /\ p[1] \in Int
                           /\ \E r \in rows : p[1] \in Greater(r.x0, box.x0) .. Lesser(r.x1, box.x1) - 1
      BY <2>4, <2>7
    <2>9. p \in Pixels(box) /\ p[2] = y <=>
            p = <<p[1], p[2]>> /\ p[2] = y /\ p[1] \in Int /\ box.x0 <= p[1] /\ p[1] < box.x1
      BY DEF Pixels
    <2> QED BY <2>6, <2>8, <2>9
  <1>3. \A p \in Pixels(box) : p[2] \in box.y0 .. box.y1 - 1
    BY DEF Pixels
  <1> HIDE DEF row
  <1> QED BY <1>1, <1>2, <1>3

-----------------------------------------------------------------------------
(* The boxes of the Manhattan sink                                             *)

\* The columns of the pixels of a row.
Columns(pixels, y) == {p[1] : p \in {q \in pixels : q[2] = y}}

\* Runs that cover xs and nothing else, each place by one of them.
AreRunsOf(runs, xs) ==
  /\ IsFiniteSet(runs)
  /\ \A r \in runs : /\ r \in Points /\ r[1] < r[2]
                     /\ \A k \in Int : r[1] <= k /\ k < r[2] => k \in xs
  /\ \A k \in xs : \E r \in runs : r[1] <= k /\ k < r[2]
  /\ \A k \in Int, r, s \in runs : r[1] <= k /\ k < r[2] /\ s[1] <= k /\ k < s[2] => r = s

\* From x on there is an end of the places of xs, no further than there are places.
LEMMA RunEnds ==
  ASSUME NEW xs \in SUBSET Int, IsFiniteSet(xs), NEW x \in xs
  PROVE  /\ Cardinality(xs) \in Nat
         /\ \E e \in x + 1 .. x + 1 + Cardinality(xs) : e \notin xs /\ \A k \in x .. e - 1 : k \in xs
         /\ \E b \in xs : b <= x /\ b - 1 \notin xs /\ \A k \in b .. x : k \in xs
  <1> DEFINE out == {n \in Nat : x + n \notin xs}
             back == {n \in Nat : x - n \notin xs}
  <1> PICK m \in Nat : m = Cardinality(xs)
    BY FS_CardinalityType
  <1>1. Max(xs) \in xs /\ (\A a \in xs : Max(xs) >= a) /\ Min(xs) \in xs /\ \A a \in xs : Min(xs) <= a
    BY Extremes
  <1> PICK hi \in Int, lo \in Int : hi = Max(xs) /\ lo = Min(xs) /\ x <= hi /\ lo <= x
    BY <1>1
  <1>2. hi + 1 - x \in out
    <2>1. hi + 1 \notin xs /\ x + (hi + 1 - x) = hi + 1 /\ hi + 1 - x \in Nat
      BY <1>1
    <2> QED BY <2>1
  <1>3. x - lo + 1 \in back
    <2>1. lo - 1 \notin xs /\ x - (x - lo + 1) = lo - 1 /\ x - lo + 1 \in Nat
      BY <1>1
    <2> QED BY <2>1
  <1>4. PICK n \in out : \A i \in out : n <= i
    BY <1>2, LeastNumber
  <1>5. PICK b \in back : \A i \in back : b <= i
    BY <1>3, LeastNumber
  <1>6. n # 0 /\ b # 0
    OBVIOUS
  <1>7. \A k \in x .. x + n - 1 : k \in xs
    <2> TAKE k \in x .. x + n - 1
    <2>1. k - x \in Nat /\ ~(n <= k - x) /\ x + (k - x) = k
      OBVIOUS
    <2> QED BY <1>4, <2>1
  <1>8. \A k \in x - b + 1 .. x : k \in xs
    <2> TAKE k \in x - b + 1 .. x
    <2>1. x - k \in Nat /\ ~(b <= x - k) /\ x - (x - k) = k
      OBVIOUS
    <2> QED BY <1>5, <2>1
  <1>9. n <= m
    <2>1. IsFiniteSet(x .. x + n - 1) /\ Cardinality(x .. x + n - 1) = n
      <3> PICK e : e = x + n - 1
        OBVIOUS
      <3>1. x \in Int /\ e \in Int /\ n \in Nat
        OBVIOUS
      <3>2. IsFiniteSet(x .. e) /\ Cardinality(x .. e) = IF x > e THEN 0 ELSE e - x + 1
        BY ONLY <3>1, FS_Interval
      <3> QED BY <1>6, <3>1, <3>2
    <2>2. x .. x + n - 1 \in SUBSET xs
      BY <1>7
    <2> QED BY <2>1, <2>2, FS_Subset
  <1>10. x + n \notin xs /\ x - b \notin xs /\ n \in Nat /\ b \in Nat
    OBVIOUS
  <1>11. \E e \in x + 1 .. x + 1 + m : e \notin xs /\ \A k \in x .. e - 1 : k \in xs
    <2>1. x + n \in x + 1 .. x + 1 + m
      BY <1>6, <1>9
    <2> QED BY <1>7, <1>10, <2>1
  <1>12. \E a \in xs : a <= x /\ a - 1 \notin xs /\ \A k \in a .. x : k \in xs
    <2>1. x - b + 1 \in xs /\ x - b + 1 <= x /\ (x - b + 1) - 1 = x - b
      BY <1>6, <1>8
    <2> QED BY <1>8, <1>10, <2>1
  <1> QED BY <1>11, <1>12

\* The runs of a row are that.
LEMMA RowRunsAreRuns ==
  ASSUME NEW pixels, NEW y, NEW lo \in Int, NEW hi \in Int, Columns(pixels, y) \in SUBSET (lo .. hi)
  PROVE  AreRunsOf(RowRuns(pixels, y), Columns(pixels, y))
  <1> DEFINE xs == Columns(pixels, y)
             End(x) == CHOOSE e \in x + 1 .. x + 1 + Cardinality(xs) :
                         e \notin xs /\ \A k \in x .. e - 1 : k \in xs
             starts == {k \in xs : k - 1 \notin xs}
             R == RowRuns(pixels, y)
  <1>1. xs \in SUBSET Int /\ IsFiniteSet(xs)
    <2>1. IsFiniteSet(lo .. hi)
      BY FS_Interval
    <2>2. lo .. hi \in SUBSET Int
      OBVIOUS
    <2> QED BY <2>1, <2>2, FS_Subset
  <1>2. R = {<<x, End(x)>> : x \in starts}
    BY DEF RowRuns, Columns
  <1> HIDE DEF xs, R
  <1>3. ASSUME NEW x \in xs
        PROVE  /\ x \in Int /\ End(x) \in Int /\ x < End(x)
               /\ End(x) \notin xs /\ \A k \in x .. End(x) - 1 : k \in xs
    <2>1. Cardinality(xs) \in Nat /\ x \in Int
      BY <1>1, RunEnds
    <2>2. \E e \in x + 1 .. x + 1 + Cardinality(xs) : e \notin xs /\ \A k \in x .. e - 1 : k \in xs
      BY <1>1, RunEnds
    <2>3. /\ End(x) \in x + 1 .. x + 1 + Cardinality(xs)
          /\ End(x) \notin xs /\ \A k \in x .. End(x) - 1 : k \in xs
      BY <2>2
    <2> HIDE DEF End
    <2> QED BY <2>1, <2>3
  <1> HIDE DEF End
  <1>4. IsFiniteSet(R)
    <2> PICK f : f = [x \in starts |-> <<x, End(x)>>]
      OBVIOUS
    <2>1. R = {f[x] : x \in starts}
      BY <1>2
    <2>2. IsFiniteSet(starts)
      BY <1>1, FS_Subset
    <2> QED BY <2>1, <2>2, FiniteImage
  <1>5. ASSUME NEW r \in R
        PROVE  /\ r \in Points /\ r[1] < r[2] /\ r[1] \in xs /\ r[1] - 1 \notin xs /\ r = <<r[1], End(r[1])>>
               /\ \A k \in Int : r[1] <= k /\ k < r[2] => k \in xs
    <2>1. PICK x \in starts : r = <<x, End(x)>>
      BY <1>2
    <2>2. x \in Int /\ End(x) \in Int /\ x < End(x) /\ \A k \in x .. End(x) - 1 : k \in xs
      BY <1>3
    <2> QED BY <2>1, <2>2 DEF Points
  <1>6. ASSUME NEW k \in xs PROVE \E r \in R : r[1] <= k /\ k < r[2]
    <2>1. PICK b \in xs : b <= k /\ b - 1 \notin xs /\ \A i \in b .. k : i \in xs
      BY <1>1, RunEnds
    <2>2. b \in Int /\ k \in Int /\ End(b) \in Int /\ b < End(b) /\ End(b) \notin xs
      BY <1>1, <1>3
    <2>3. ~(End(b) <= k)
      BY <2>1, <2>2
    <2>4. <<b, End(b)>> \in R
      BY <1>2, <2>1
    <2> QED BY <2>1, <2>2, <2>3, <2>4
  <1>7. ASSUME NEW k \in Int, NEW r \in R, NEW s \in R, r[1] <= k, k < r[2], s[1] <= k, k < s[2]
        PROVE  r = s
    <2>1. r[1] \in Int /\ r[2] \in Int /\ s[1] \in Int /\ s[2] \in Int
      BY <1>5 DEF Points
    <2>2. ~(r[1] < s[1])
      <3>1. ASSUME r[1] < s[1] PROVE FALSE
        <4>1. s[1] - 1 \in Int /\ r[1] <= s[1] - 1 /\ s[1] - 1 < r[2]
          BY <1>7, <2>1, <3>1
        <4> QED BY <1>5, <4>1
      <3> QED BY <3>1
    <2>3. ~(s[1] < r[1])
      <3>1. ASSUME s[1] < r[1] PROVE FALSE
        <4>1. r[1] - 1 \in Int /\ s[1] <= r[1] - 1 /\ r[1] - 1 < s[2]
          BY <1>7, <2>1, <3>1
        <4> QED BY <1>5, <4>1
      <3> QED BY <3>1
    <2>4. r[1] = s[1]
      BY <2>1, <2>2, <2>3
    <2> QED BY <1>5, <2>4
  <1> QED BY <1>4, <1>5, <1>6, <1>7 DEF AreRunsOf, xs, R

\* Boxes that are closed, and runs that are open since a row.
AllBoxes == [x0 : Int, y0 : Int, x1 : Int, y1 : Int]
Opened == [run : Points, y : Int]
Sinks == [boxes : {b \in SUBSET AllBoxes : IsFiniteSet(b)},
          open  : {o \in SUBSET Opened : IsFiniteSet(o)}]

\* An open run is over a pixel below its first row.
IsOver(o, p) == o.run[1] <= p[1] /\ p[1] < o.run[2] /\ o.y <= p[2]

\* What the sink holds of the pixels from row from on when it has seen the rows above row to.
Holds(acc, pixels, from, to) ==
  /\ \A b \in acc.boxes : Nonempty(b) /\ from <= b.y0 /\ b.y1 < to /\ Pixels(b) \subseteq pixels
  /\ \A o \in acc.open : o.run[1] < o.run[2] /\ from <= o.y /\ o.y < to
  /\ from < to => {o.run : o \in acc.open} = RowRuns(pixels, to - 1)
  /\ \A o, q \in acc.open : o.run = q.run => o = q
  /\ \A p \in Points : \A o \in acc.open : p[2] < to /\ IsOver(o, p) => p \in pixels
  /\ \A p \in pixels : from <= p[2] /\ p[2] < to =>
       (\E b \in acc.boxes : p \in Pixels(b)) \/ (\E o \in acc.open : IsOver(o, p))
  /\ \A p \in Points : p[2] < to =>
       /\ \A b, c \in acc.boxes : p \in Pixels(b) /\ p \in Pixels(c) => b = c
       /\ \A o, q \in acc.open : IsOver(o, p) /\ IsOver(q, p) => o = q
       /\ \A b \in acc.boxes, o \in acc.open : ~(p \in Pixels(b) /\ IsOver(o, p))

\* What the sink makes of a row.
SinkRow(acc, pixels, y) ==
  LET closed == {o \in acc.open : o.run \notin RowRuns(pixels, y)}
      kept   == acc.open \ closed
  IN  [boxes |-> acc.boxes \cup {Box(o.run[1], o.y, o.run[2], y) : o \in closed},
       open  |-> kept \cup {[run |-> r, y |-> y] : r \in RowRuns(pixels, y) \ {o.run : o \in kept}}]

\* An open run as a box that ends above row y.
ClosedAt(o, y) == Box(o.run[1], o.y, o.run[2], y)

\* Its pixels are those that the run is over, above row y.
LEMMA PixelsOfClosed ==
  ASSUME NEW o \in Opened, NEW y \in Int
  PROVE  /\ ClosedAt(o, y) \in AllBoxes
         /\ \A p \in Points : p \in Pixels(ClosedAt(o, y)) <=> IsOver(o, p) /\ p[2] < y
         /\ \A p \in Pixels(ClosedAt(o, y)) : p \in Points /\ IsOver(o, p) /\ p[2] < y
  <1>1. o.run \in Points /\ o.y \in Int /\ o.run[1] \in Int /\ o.run[2] \in Int
    BY DEF Opened, Points
  <1>2. ClosedAt(o, y) \in AllBoxes
    BY <1>1 DEF ClosedAt, Box, AllBoxes
  <1>3. /\ ClosedAt(o, y).x0 = o.run[1] /\ ClosedAt(o, y).x1 = o.run[2]
        /\ ClosedAt(o, y).y0 = o.y /\ ClosedAt(o, y).y1 = y
    BY DEF ClosedAt, Box
  <1> PICK b : b = ClosedAt(o, y)
    OBVIOUS
  <1>4. ASSUME NEW p
        PROVE  p \in Pixels(b) <=> p \in Points /\ IsOver(o, p) /\ p[2] < y
    BY <1>1, <1>3 DEF Pixels, Points, IsOver
  <1> QED BY <1>2, <1>4

\* The sink stays what it should be.
LEMMA RowStep ==
  ASSUME NEW pixels \in SUBSET Points, NEW from \in Int, NEW y \in Int, from <= y,
         NEW runs, runs = RowRuns(pixels, y), AreRunsOf(runs, Columns(pixels, y)),
         NEW acc \in Sinks, Holds(acc, pixels, from, y),
         NEW new, new = SinkRow(acc, pixels, y)
  PROVE  Holds(new, pixels, from, y + 1)
  <1> DEFINE closed == {o \in acc.open : o.run \notin runs}
             kept == acc.open \ closed
             fresh == runs \ {o.run : o \in kept}
  <1>1. /\ new.boxes = acc.boxes \cup {ClosedAt(o, y) : o \in closed}
        /\ new.open = kept \cup {[run |-> r, y |-> y] : r \in fresh}
    BY DEF SinkRow, ClosedAt
  <1>2. /\ \A o \in acc.open : o \in Opened /\ o.run \in Points /\ o.y \in Int
                               /\ o.run[1] \in Int /\ o.run[2] \in Int
        /\ \A b \in acc.boxes : b \in AllBoxes
    BY DEF Sinks, Opened, Points
  <1>3. \A r \in runs : r \in Points /\ r[1] \in Int /\ r[2] \in Int /\ r[1] < r[2]
    BY DEF AreRunsOf, Points
  <1>4. \A b : b \in new.boxes <=> b \in acc.boxes \/ \E o \in closed : b = ClosedAt(o, y)
    BY <1>1
  <1>5. \A o : o \in new.open <=> o \in kept \/ (o = [run |-> o.run, y |-> y] /\ o.run \in fresh)
    BY <1>1
  <1>6. /\ \A o \in kept : o \in acc.open /\ o.run \in runs
        /\ \A o \in closed : o \in acc.open /\ o.run \notin runs
        /\ \A r \in fresh : r \in runs /\ \A o \in kept : o.run # r
        /\ \A o \in new.open : o.run \in runs /\ (o \in kept \/ (o.y = y /\ o.run \in fresh))
        /\ \A r \in runs : r \in fresh \/ \E o \in kept : o.run = r
    BY <1>5
  <1> HIDE DEF closed, kept, fresh
  <1>7. \A b \in new.boxes : Nonempty(b) /\ from <= b.y0 /\ b.y1 < y + 1 /\ Pixels(b) \subseteq pixels
    <2> TAKE b \in new.boxes
    <2>1. CASE b \in acc.boxes
      <3>1. b.y1 \in Int
        BY <1>2, <2>1 DEF AllBoxes
      <3> QED BY <2>1, <3>1 DEF Holds
    <2>2. CASE \E o \in closed : b = ClosedAt(o, y)
      <3>1. PICK o \in acc.open : b = ClosedAt(o, y)
        BY <1>6, <2>2
      <3>2. o.run[1] < o.run[2] /\ from <= o.y /\ o.y < y
        BY DEF Holds
      <3>3. Nonempty(b) /\ from <= b.y0 /\ b.y1 < y + 1
        BY <3>1, <3>2 DEF ClosedAt, Box, Nonempty
      <3>4. ASSUME NEW p \in Pixels(b) PROVE p \in pixels
        <4>1. p \in Points /\ IsOver(o, p) /\ p[2] < y
          BY <1>2, <3>1, PixelsOfClosed
        <4> QED BY <4>1 DEF Holds
      <3> QED BY <3>3, <3>4
    <2> QED BY <1>4, <2>1, <2>2
  <1>8. \A o \in new.open : o.run[1] < o.run[2] /\ from <= o.y /\ o.y < y + 1
    <2> TAKE o \in new.open
    <2>1. CASE o \in kept
      <3>1. o \in acc.open
        BY <1>6, <2>1
      <3> QED BY <1>2, <3>1 DEF Holds
    <2>2. CASE o.y = y
      BY <1>3, <1>6, <2>2
    <2> QED BY <1>6, <2>1, <2>2
  <1>9. {o.run : o \in new.open} = RowRuns(pixels, (y + 1) - 1)
    <2>1. ASSUME NEW r \in runs PROVE \E o \in new.open : o.run = r
      <3>1. CASE r \in fresh
        <4> PICK o : o = [run |-> r, y |-> y]
          OBVIOUS
        <4>1. o \in new.open /\ o.run = r
          BY <1>5, <3>1
        <4> QED BY <4>1
      <3>2. CASE \E o \in kept : o.run = r
        BY <1>5, <3>2
      <3> QED BY <1>6, <3>1, <3>2
    <2>2. (y + 1) - 1 = y
      OBVIOUS
    <2> QED BY <1>6, <2>1, <2>2
  <1>10. \A o, q \in new.open : o.run = q.run => o = q
    <2> TAKE o, q \in new.open
    <2>1. CASE o \in kept /\ q \in kept
      BY <1>6, <2>1 DEF Holds
    <2>2. CASE o \notin kept /\ q \notin kept
      BY <1>5, <2>2
    <2>3. CASE ~(o \in kept <=> q \in kept)
      BY <1>6, <2>3
    <2> QED BY <2>1, <2>2, <2>3
  <1>11. ASSUME NEW p \in Points, p[2] < y + 1, p[2] # y
         PROVE  /\ p[2] < y
                /\ \A b \in new.boxes : p \in Pixels(b) =>
                     (b \in acc.boxes \/ \E o \in closed : b = ClosedAt(o, y) /\ IsOver(o, p))
                /\ \A o \in closed : IsOver(o, p) => p \in Pixels(ClosedAt(o, y))
                /\ \A o \in new.open : IsOver(o, p) => o \in kept
    <2>1. p[2] \in Int /\ p[2] < y
      BY <1>11 DEF Points
    <2>2. \A o \in closed : p \in Pixels(ClosedAt(o, y)) <=> IsOver(o, p)
      BY <1>2, <1>6, <2>1, PixelsOfClosed
    <2>3. \A o \in new.open : IsOver(o, p) => o \in kept
      BY <1>6, <2>1 DEF IsOver
    <2> QED BY <1>4, <2>1, <2>2, <2>3
  <1>12. ASSUME NEW p \in Points, p[2] = y
         PROVE  /\ \A b \in new.boxes : p \notin Pixels(b)
                /\ \A o \in new.open : IsOver(o, p) <=> o.run[1] <= p[1] /\ p[1] < o.run[2]
    <2>1. ASSUME NEW b \in new.boxes PROVE p \notin Pixels(b)
      <3>1. CASE b \in acc.boxes
        <4>1. b.y1 \in Int /\ b.y1 < y
          BY <1>2, <3>1 DEF Holds, AllBoxes
        <4> QED BY <1>12, <4>1 DEF Pixels
      <3>2. CASE \E o \in closed : b = ClosedAt(o, y)
        BY <1>2, <1>6, <1>12, <3>2, PixelsOfClosed
      <3> QED BY <1>4, <3>1, <3>2
    <2>2. \A o \in new.open : o.y \in Int /\ o.y < y + 1
      BY <1>2, <1>6, <1>8
    <2> QED BY <1>12, <2>1, <2>2 DEF IsOver
  <1>13. ASSUME NEW p \in Points, p[2] = y
         PROVE  /\ p \in pixels <=> \E r \in runs : r[1] <= p[1] /\ p[1] < r[2]
                /\ \A r, s \in runs : r[1] <= p[1] /\ p[1] < r[2] /\ s[1] <= p[1] /\ p[1] < s[2] => r = s
    <2>1. p \in pixels <=> p[1] \in Columns(pixels, y)
      <3>1. ASSUME p[1] \in Columns(pixels, y) PROVE p \in pixels
        <4>1. PICK q \in pixels : q[2] = y /\ q[1] = p[1]
          BY <3>1 DEF Columns
        <4>2. q = p
          BY <1>13, <4>1 DEF Points
        <4> QED BY <4>2
      <3>2. p \in pixels => p[1] \in Columns(pixels, y)
        BY <1>13 DEF Columns
      <3> QED BY <3>1, <3>2
    <2>2. p[1] \in Int
      BY DEF Points
    <2> QED BY <2>1, <2>2 DEF AreRunsOf
  <1>14. ASSUME NEW p \in Points, NEW o \in new.open, p[2] < y + 1, IsOver(o, p) PROVE p \in pixels
    <2>1. CASE p[2] = y
      BY <1>6, <1>12, <1>13, <1>14, <2>1
    <2>2. CASE p[2] # y
      BY <1>6, <1>11, <1>14, <2>2 DEF Holds
    <2> QED BY <2>1, <2>2
  <1>15. ASSUME NEW p \in pixels, from <= p[2], p[2] < y + 1
         PROVE  (\E b \in new.boxes : p \in Pixels(b)) \/ (\E o \in new.open : IsOver(o, p))
    <2>1. CASE p[2] = y
      <3>1. PICK r \in runs : r[1] <= p[1] /\ p[1] < r[2]
        BY <1>13, <2>1
      <3>2. PICK o \in new.open : o.run = r
        BY <1>9
      <3> QED BY <1>12, <2>1, <3>1, <3>2
    <2>2. CASE p[2] # y
      <3>1. (\E b \in acc.boxes : p \in Pixels(b)) \/ (\E o \in acc.open : IsOver(o, p))
        BY <1>11, <1>15, <2>2 DEF Holds
      <3>2. \A o \in acc.open : o \in kept \/ o \in closed
        BY DEF kept
      <3>3. kept \subseteq new.open
        BY <1>5
      <3> QED BY <1>4, <1>11, <1>15, <2>2, <3>1, <3>2, <3>3
    <2> QED BY <2>1, <2>2
  <1>16. ASSUME NEW p \in Points, p[2] < y + 1
         PROVE  /\ \A b, c \in new.boxes : p \in Pixels(b) /\ p \in Pixels(c) => b = c
                /\ \A o, q \in new.open : IsOver(o, p) /\ IsOver(q, p) => o = q
                /\ \A b \in new.boxes, o \in new.open : ~(p \in Pixels(b) /\ IsOver(o, p))
    <2>1. CASE p[2] = y
      <3>1. \A o, q \in new.open : IsOver(o, p) /\ IsOver(q, p) => o = q
        BY <1>6, <1>10, <1>12, <1>13, <2>1
      <3> QED BY <1>12, <2>1, <3>1
    <2>2. CASE p[2] # y
      <3>1. p[2] < y
        BY <1>11, <1>16, <2>2
      <3>2. /\ \A b, c \in acc.boxes : p \in Pixels(b) /\ p \in Pixels(c) => b = c
            /\ \A o, q \in acc.open : IsOver(o, p) /\ IsOver(q, p) => o = q
            /\ \A b \in acc.boxes, o \in acc.open : ~(p \in Pixels(b) /\ IsOver(o, p))
        BY <3>1 DEF Holds
      <3>3. \A o \in kept : o \in acc.open /\ o \notin closed
        BY DEF kept
      <3>4. /\ \A b \in new.boxes : p \in Pixels(b) =>
                 (b \in acc.boxes \/ \E o \in closed : b = ClosedAt(o, y) /\ IsOver(o, p))
            /\ \A o \in new.open : IsOver(o, p) => o \in kept
        BY <1>11, <1>16, <2>2
      <3>5. \A b, c \in new.boxes : p \in Pixels(b) /\ p \in Pixels(c) => b = c
        BY <1>6, <3>2, <3>4
      <3>6. \A o, q \in new.open : IsOver(o, p) /\ IsOver(q, p) => o = q
        BY <3>2, <3>3, <3>4
      <3>7. \A b \in new.boxes, o \in new.open : ~(p \in Pixels(b) /\ IsOver(o, p))
        BY <1>6, <3>2, <3>3, <3>4
      <3> QED BY <3>5, <3>6, <3>7
    <2> QED BY <2>1, <2>2
  <1> QED BY <1>7, <1>8, <1>9, <1>10, <1>14, <1>15, <1>16 DEF Holds

\* A row keeps what the sink holds finite.
LEMMA SinkIsTyped ==
  ASSUME NEW pixels, NEW y \in Int, NEW acc \in Sinks,
         AreRunsOf(RowRuns(pixels, y), Columns(pixels, y))
  PROVE  SinkRow(acc, pixels, y) \in Sinks
  <1> PICK runs : runs = RowRuns(pixels, y)
    OBVIOUS
  <1> DEFINE closed == {o \in acc.open : o.run \notin runs}
             kept == acc.open \ closed
             fresh == runs \ {o.run : o \in kept}
             shut == {ClosedAt(o, y) : o \in closed}
             begun == {[run |-> r, y |-> y] : r \in fresh}
             new == SinkRow(acc, pixels, y)
  <1>1. new = [boxes |-> acc.boxes \cup shut, open |-> kept \cup begun]
    BY DEF SinkRow, ClosedAt
  <1>2. /\ acc.boxes \in SUBSET AllBoxes /\ IsFiniteSet(acc.boxes)
        /\ acc.open \in SUBSET Opened /\ IsFiniteSet(acc.open)
    BY DEF Sinks
  <1>3. IsFiniteSet(runs) /\ runs \in SUBSET Points
    BY DEF AreRunsOf
  <1>4. IsFiniteSet(closed) /\ IsFiniteSet(kept) /\ IsFiniteSet(fresh)
    <2>1. closed \in SUBSET acc.open /\ kept \in SUBSET acc.open /\ fresh \in SUBSET runs
      OBVIOUS
    <2> HIDE DEF closed, kept, fresh
    <2> QED BY <1>2, <1>3, <2>1, FS_Subset
  <1>5. IsFiniteSet(shut) /\ shut \in SUBSET AllBoxes
    <2> PICK f : f = [o \in closed |-> ClosedAt(o, y)]
      OBVIOUS
    <2>1. shut = {f[o] : o \in closed}
      OBVIOUS
    <2>2. \A o \in closed : ClosedAt(o, y) \in AllBoxes
      BY <1>2, PixelsOfClosed
    <2> HIDE DEF closed
    <2> QED BY <1>4, <2>1, <2>2, FiniteImage
  <1>6. IsFiniteSet(begun) /\ begun \in SUBSET Opened
    <2> PICK f : f = [r \in fresh |-> [run |-> r, y |-> y]]
      OBVIOUS
    <2>1. begun = {f[r] : r \in fresh}
      OBVIOUS
    <2>2. \A r \in fresh : [run |-> r, y |-> y] \in Opened
      BY <1>3 DEF Opened
    <2> HIDE DEF fresh
    <2> QED BY <1>4, <2>1, <2>2, FiniteImage
  <1>7. kept \in SUBSET Opened
    BY <1>2
  <1> HIDE DEF closed, kept, fresh, shut, begun, new
  <1>8. IsFiniteSet(acc.boxes \cup shut) /\ IsFiniteSet(kept \cup begun)
    BY <1>2, <1>4, <1>5, <1>6, FS_Union
  <1>9. acc.boxes \cup shut \in SUBSET AllBoxes /\ kept \cup begun \in SUBSET Opened
    BY <1>2, <1>5, <1>6, <1>7
  <1> PICK b, o : b = acc.boxes \cup shut /\ o = kept \cup begun
    OBVIOUS
  <1>10. [boxes |-> b, open |-> o] \in Sinks
    BY <1>8, <1>9 DEF Sinks
  <1> QED BY <1>1, <1>10 DEF new

\* The boxes that the sink writes for a core are finitely many, none is empty, and each pixel of
\* the foreground is in one of them and no other pixel is.
LEMMA ManhattanBoxesCover ==
  ASSUME NEW core \in Boxes, NEW pixels \in SUBSET Pixels(core)
  PROVE  /\ IsFiniteSet(ManhattanBoxes(pixels, core))
         /\ \A b \in ManhattanBoxes(pixels, core) : Pixels(b) # {} /\ Pixels(b) \subseteq pixels
         /\ \A p \in pixels : \E b \in ManhattanBoxes(pixels, core) :
              p \in Pixels(b) /\ \A c \in ManhattanBoxes(pixels, core) : p \in Pixels(c) => c = b
  <1> PICK x0 \in Int, y0 \in Int, x1 \in Int, y1 \in Int :
        x0 = core.x0 /\ y0 = core.y0 /\ x1 = core.x1 /\ y1 = core.y1 /\ x0 < x1 /\ y0 < y1
    BY DEF Boxes, Nonempty
  <1>1. \A p \in pixels : p \in Points /\ x0 <= p[1] /\ p[1] < x1 /\ y0 <= p[2] /\ p[2] < y1
    BY DEF Pixels, Points
  <1>2. ASSUME NEW y \in Int PROVE AreRunsOf(RowRuns(pixels, y), Columns(pixels, y))
    <2>1. Columns(pixels, y) \in SUBSET (x0 .. x1 - 1)
      BY <1>1 DEF Columns, Points
    <2>2. x1 - 1 \in Int
      OBVIOUS
    <2> QED BY <2>1, <2>2, RowRunsAreRuns
  <1> DEFINE seq == [i \in 1 .. core.y1 - core.y0 |-> core.y0 + i - 1]
             empty == [boxes |-> {}, open |-> {}]
             Sunk(h) == h = [T \in SUBSET DOMAIN seq |->
                               IF T = {} THEN empty
                               ELSE SinkRow(h[T \ {Max(T)}], pixels, seq[Max(T)])]
             Good == {p \in (SUBSET DOMAIN seq) \X Sinks :
                        \A k \in Nat : p[1] = 1 .. k => Holds(p[2], pixels, y0, y0 + k)}
  <1> DEFINE end == (CHOOSE h : Sunk(h))[DOMAIN seq]
  <1>3. ManhattanBoxes(pixels, core) = end.boxes \cup {ClosedAt(o, core.y1) : o \in end.open}
    BY DEF ManhattanBoxes, FoldLeft, MapThenFoldSet, SinkRow, ClosedAt
  <1> PICK n \in Nat : n = y1 - y0 /\ n > 0
    OBVIOUS
  <1>4. DOMAIN seq = 1 .. n /\ \A i \in 1 .. n : seq[i] = y0 + i - 1 /\ seq[i] \in Int
    OBVIOUS
  <1> PICK S : S = DOMAIN seq
    OBVIOUS
  <1> PICK c : c = [T \in SUBSET S |-> Max(T)]
    OBVIOUS
  <1>5. /\ IsFiniteSet(S) /\ Chooses(c, S)
        /\ \A T \in SUBSET S : c[T] = Max(T) /\ (T # {} => c[T] \in T)
    <2>1. S = 1 .. n
      BY <1>4
    <2> HIDE DEF seq
    <2>2. IsFiniteSet(S) /\ Chooses(c, S)
      BY ONLY <2>1, n \in Nat, c = [T \in SUBSET S |-> Max(T)], LastOfPart
    <2> QED BY <2>2 DEF Chooses
  <1>6. empty \in Sinks /\ Holds(empty, pixels, y0, y0)
    <2>1. empty \in Sinks
      BY FS_EmptySet DEF Sinks
    <2>2. \A p \in pixels : ~(y0 <= p[2] /\ p[2] < y0)
      BY <1>1 DEF Points
    <2> QED BY <2>1, <2>2 DEF Holds
  <1> HIDE DEF seq, empty
  <1>7. ASSUME NEW V, Sinks \subseteq V, NEW F, F = [p \in V \X S |-> SinkRow(p[1], pixels, seq[p[2]])]
        PROVE  \E h : Folds(h, S, c, empty, F) /\ \A T \in SUBSET S : <<T, h[T]>> \in Good
    <2>1. <<{}, empty>> \in Good
      <3>1. ASSUME NEW k \in Nat, {} = 1 .. k PROVE y0 + k = y0
        <4>1. 1 \notin 1 .. k
          BY <3>1
        <4> QED BY <4>1
      <3> QED BY <1>6, <3>1
    <2>2. ASSUME NEW T \in SUBSET S, T # {}, NEW u, <<T \ {c[T]}, u>> \in Good
          PROVE  <<T, F[<<u, c[T]>>]>> \in Good
      <3> PICK e : e = c[T]
        OBVIOUS
      <3>1. e \in T /\ e \in 1 .. n /\ e \in S /\ u \in Sinks /\ e = Max(T)
        BY <1>4, <1>5, <2>2
      <3> PICK y : y = y0 + e - 1
        OBVIOUS
      <3>2. y \in Int /\ seq[e] = y /\ y0 <= y
        <4>1. e \in Int /\ 1 <= e /\ y0 \in Int
          BY <3>1
        <4>2. y \in Int /\ y0 <= y
          BY ONLY <4>1, y = y0 + e - 1
        <4> QED BY <1>4, <3>1, <4>2
      <3> PICK v : v = SinkRow(u, pixels, y)
        OBVIOUS
      <3>3. F[<<u, e>>] = v
        BY <1>7, <3>1, <3>2
      <3>4. v \in Sinks
        BY <1>2, <3>1, <3>2, SinkIsTyped
      <3>5. ASSUME NEW k \in Nat, T = 1 .. k PROVE Holds(v, pixels, y0, y0 + k)
        <4>1. k \in T /\ k # 0
          BY <2>2, <3>5
        <4>2. e = k
          <5>1. T \in SUBSET Int /\ IsFiniteSet(T)
            BY <1>5, <3>5, FS_Subset
          <5>2. e >= k
            BY <3>1, <4>1, <5>1, Extremes
          <5> QED BY <3>1, <3>5, <5>2
        <4>3. T \ {e} = 1 .. k - 1 /\ k - 1 \in Nat
          BY <3>5, <4>1, <4>2
        <4>4. Holds(u, pixels, y0, y0 + (k - 1))
          BY <2>2, <4>3
        <4>5. y0 + (k - 1) = y /\ y0 + k = y + 1
          BY <4>2
        <4>6. pixels \in SUBSET Points
          BY <1>1
        <4> PICK runs : runs = RowRuns(pixels, y)
          OBVIOUS
        <4>7. AreRunsOf(runs, Columns(pixels, y)) /\ runs = RowRuns(pixels, y)
          BY <1>2, <3>2
        <4>8. v = SinkRow(u, pixels, y) /\ y0 \in Int
          OBVIOUS
        <4>9. Holds(u, pixels, y0, y)
          BY <4>4, <4>5
        <4>10. Holds(v, pixels, y0, y + 1)
          BY ONLY <3>1, <3>2, <4>6, <4>7, <4>8, <4>9, RowStep
        <4> QED BY <4>5, <4>10
      <3> QED BY <3>3, <3>4, <3>5
    <2> HIDE DEF Good
    <2>3. Preserves(F, S, c, Good)
      BY <2>2 DEF Preserves
    <2>4. IsFiniteSet(S) /\ Chooses(c, S)
      BY <1>5
    <2> QED BY ONLY <2>1, <2>3, <2>4, FoldExists
  <1>8. \E h : Sunk(h)
    <2> PICK F : F = [p \in Sinks \X S |-> SinkRow(p[1], pixels, seq[p[2]])]
      OBVIOUS
    <2>1. PICK h : Folds(h, S, c, empty, F) /\ \A T \in SUBSET S : <<T, h[T]>> \in Good
      BY <1>7
    <2>2. \A T \in SUBSET S : h[T] \in Sinks
      BY <2>1
    <2> HIDE DEF Good
    <2>3. ASSUME NEW T \in SUBSET S, T # {}
          PROVE  F[<<h[T \ {c[T]}], c[T]>>] = SinkRow(h[T \ {Max(T)}], pixels, seq[Max(T)])
      BY <1>5, <2>2, <2>3
    <2>4. h = [T \in SUBSET S |-> IF T = {} THEN empty ELSE F[<<h[T \ {c[T]}], c[T]>>]]
      BY <2>1 DEF Folds
    <2>5. \A T \in SUBSET S : (IF T = {} THEN empty ELSE F[<<h[T \ {c[T]}], c[T]>>])
                               = IF T = {} THEN empty
                                 ELSE SinkRow(h[T \ {Max(T)}], pixels, seq[Max(T)])
      BY <2>3
    <2>6. Sunk(h)
      BY <2>4, <2>5
    <2> QED BY <2>6
  <1> PICK g : Sunk(g) /\ end = g[S]
    BY <1>8
  <1>9. <<S, g[S]>> \in Good
    <2> PICK V : V = Sinks \cup {g[T] : T \in SUBSET S}
      OBVIOUS
    <2> PICK F : F = [p \in V \X S |-> SinkRow(p[1], pixels, seq[p[2]])]
      OBVIOUS
    <2>1. PICK h : Folds(h, S, c, empty, F) /\ \A T \in SUBSET S : <<T, h[T]>> \in Good
      BY <1>7
    <2> HIDE DEF Good
    <2>2. ASSUME NEW T \in SUBSET S, T # {}
          PROVE  F[<<g[T \ {c[T]}], c[T]>>] = SinkRow(g[T \ {Max(T)}], pixels, seq[Max(T)])
      BY <1>5, <2>2
    <2>3. Folds(g, S, c, empty, F)
      BY <2>2 DEF Folds
    <2>4. g[S] = h[S]
      <3>1. IsFiniteSet(S) /\ Chooses(c, S)
        BY <1>5
      <3> QED BY ONLY <2>1, <2>3, <3>1, FoldIsOne
    <2> QED BY <2>1, <2>4
  <1> PICK acc : acc = end
    OBVIOUS
  <1>10. acc \in Sinks /\ Holds(acc, pixels, y0, y1)
    <2>1. S = 1 .. n /\ y0 + n = y1
      BY <1>4
    <2> QED BY <1>9, <2>1
  <1> HIDE DEF end, Good, Sunk
  <1> DEFINE shut == {ClosedAt(o, y1) : o \in acc.open}
             all == acc.boxes \cup shut
  <1>11. ManhattanBoxes(pixels, core) = all
    BY <1>3
  <1>12. /\ acc.boxes \in SUBSET AllBoxes /\ IsFiniteSet(acc.boxes)
         /\ acc.open \in SUBSET Opened /\ IsFiniteSet(acc.open)
    BY <1>10 DEF Sinks
  <1>13. IsFiniteSet(all)
    <2> PICK f : f = [o \in acc.open |-> ClosedAt(o, y1)]
      OBVIOUS
    <2>1. shut = {f[o] : o \in acc.open}
      OBVIOUS
    <2>2. IsFiniteSet(shut)
      <3> HIDE DEF shut
      <3> QED BY ONLY <1>12, <2>1, FiniteImage
    <2> QED BY <1>12, <2>2, FS_Union
  <1>14. ASSUME NEW p \in Points
         PROVE  /\ p[2] \in Int
                /\ \A o \in acc.open : p \in Pixels(ClosedAt(o, y1)) <=> IsOver(o, p) /\ p[2] < y1
    BY <1>12, PixelsOfClosed DEF Points
  <1>15. ASSUME NEW b \in all PROVE Pixels(b) # {} /\ Pixels(b) \subseteq pixels
    <2>1. CASE b \in acc.boxes
      <3>1. Nonempty(b) /\ Pixels(b) \subseteq pixels /\ b \in AllBoxes
        BY <1>10, <1>12, <2>1 DEF Holds
      <3>2. <<b.x0, b.y0>> \in Pixels(b)
        BY <3>1 DEF Pixels, Nonempty, AllBoxes
      <3> QED BY <3>1, <3>2
    <2>2. CASE b \in shut
      <3>1. PICK o \in acc.open : b = ClosedAt(o, y1)
        BY <2>2
      <3>2. o \in Opened /\ o.run[1] < o.run[2] /\ o.y < y1
        BY <1>10, <1>12 DEF Holds
      <3> PICK p : p = <<o.run[1], o.y>>
        OBVIOUS
      <3>3. p \in Points /\ IsOver(o, p) /\ p[2] < y1
        BY <3>2 DEF Opened, Points, IsOver
      <3>4. p \in Pixels(b)
        BY <1>14, <3>1, <3>3
      <3>5. ASSUME NEW q \in Pixels(b) PROVE q \in pixels
        <4>1. q \in Points /\ IsOver(o, q) /\ q[2] < y1
          BY <3>1, <3>2, PixelsOfClosed
        <4> QED BY <1>10, <4>1 DEF Holds
      <3> QED BY <3>4, <3>5
    <2> QED BY <2>1, <2>2
  <1>16. ASSUME NEW p \in pixels
         PROVE  \E b \in all : p \in Pixels(b) /\ \A c1 \in all : p \in Pixels(c1) => c1 = b
    <2>1. p \in Points /\ y0 <= p[2] /\ p[2] < y1
      BY <1>1
    <2>2. /\ (\E b \in acc.boxes : p \in Pixels(b)) \/ (\E o \in acc.open : IsOver(o, p))
          /\ \A b, d \in acc.boxes : p \in Pixels(b) /\ p \in Pixels(d) => b = d
          /\ \A o, q \in acc.open : IsOver(o, p) /\ IsOver(q, p) => o = q
          /\ \A b \in acc.boxes, o \in acc.open : ~(p \in Pixels(b) /\ IsOver(o, p))
      BY <1>10, <2>1 DEF Holds
    <2>3. \A o \in acc.open : p \in Pixels(ClosedAt(o, y1)) <=> IsOver(o, p)
      BY <1>14, <2>1
    <2> QED BY <2>2, <2>3
  <1> HIDE DEF all
  <1> QED BY <1>11, <1>13, <1>15, <1>16

\* As a list they are an exact cover of the foreground of the core.
LEMMA ListedBoxesCover ==
  ASSUME NEW B, IsFiniteSet(B), NEW region,
         \A b \in B : Pixels(b) # {} /\ Pixels(b) \subseteq region,
         \A p \in region : \E b \in B : p \in Pixels(b) /\ \A c \in B : p \in Pixels(c) => c = b
  PROVE  ExactCover(SetToSeq(B), region)
  <1> PICK n \in Nat : n = Cardinality(B) /\ ExistsBijection(1 .. n, B)
    BY FS_CardinalityType
  <1> PICK f : f = SetToSeq(B)
    OBVIOUS
  <1>1. f \in [1 .. n -> B] /\ IsInjective(f)
    <2>1. \E g \in [1 .. n -> B] : IsInjective(g)
      BY DEF ExistsBijection, Bijection, Injection, IsInjective
    <2> QED BY <2>1 DEF SetToSeq
  <1>2. f \in Injection(1 .. n, B)
    BY <1>1 DEF Injection, IsInjective
  <1>3. \A b \in B : \E i \in 1 .. n : f[i] = b
    <2>1. IsFiniteSet(1 .. n) /\ Cardinality(1 .. n) = n
      <3>1. 1 \in Int /\ n \in Int
        OBVIOUS
      <3>2. IsFiniteSet(1 .. n) /\ Cardinality(1 .. n) = IF 1 > n THEN 0 ELSE n - 1 + 1
        BY <3>1, FS_Interval
      <3> QED BY <3>2
    <2>2. f \in Surjection(1 .. n, B)
      BY <1>2, <2>1, FS_Injection
    <2> QED BY <2>2 DEF Surjection
  <1>4. ASSUME NEW p \in region
        PROVE  Cardinality({i \in 1 .. n : p \in Pixels(f[i])}) = 1
    <2>1. PICK b \in B : p \in Pixels(b) /\ \A c \in B : p \in Pixels(c) => c = b
      OBVIOUS
    <2>2. PICK i \in 1 .. n : f[i] = b
      BY <1>3
    <2>3. \A j \in 1 .. n : p \in Pixels(f[j]) <=> j = i
      BY <1>1, <2>1, <2>2 DEF IsInjective
    <2>4. {j \in 1 .. n : p \in Pixels(f[j])} = {i}
      BY <2>3
    <2> QED BY <2>4, FS_Singleton
  <1>5. DOMAIN f = 1 .. n
    BY <1>1
  <1>6. \A i \in 1 .. n : Pixels(f[i]) \subseteq region /\ Pixels(f[i]) # {}
    BY <1>1
  <1> QED BY <1>4, <1>5, <1>6 DEF ExactCover

\* write_core and finish: the boxes that the Manhattan sink writes for a core are an exact cover
\* of the foreground of the core, for any core and any foreground.
THEOREM BoxesCoverForeground ==
  ASSUME NEW core \in Boxes, NEW pixels \in SUBSET Pixels(core)
  PROVE  ExactCover(SetToSeq(ManhattanBoxes(pixels, core)), pixels)
  BY ManhattanBoxesCover, ListedBoxesCover
=============================================================================
