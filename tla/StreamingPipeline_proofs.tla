----------------------- MODULE StreamingPipeline_proofs -----------------------
(***************************************************************************)
(* Theorems about StreamingPipeline, for every chip, core size, halo, budget,  *)
(* subdivision, batch size and set of verifiers.  They rest on one inductive   *)
(* invariant, PipelineInv.                                                     *)
(***************************************************************************)
EXTENDS StreamingPipelineProps, TileGeometry_proofs, SequenceTheorems

Halos == [left : Int, top : Int, right : Int, bottom : Int]
Windows == [x0 : Int, y0 : Int, x1 : Int, y1 : Int]
Requests == [id : Seq(Nat), core : Boxes, read : Windows]
Leaves == [core : Boxes, seen : BOOLEAN, terminal : {"none", "ACTIVE", "EXACT_OUTPUT_SKIP"}]
IdsOf(s) == {s[i].id : i \in DOMAIN s}

\* What waits is owned by a final leaf with its core, was not committed and is there once.
Queue(s) ==
  /\ s \in Seq(Requests)
  /\ \A i \in DOMAIN s : /\ s[i].id \in final \ DOMAIN written
                         /\ s[i].core = leaves[s[i].id].core
  /\ \A i, j \in DOMAIN s : s[i].id = s[j].id => i = j

PipelineTypes ==
  /\ mode \in {"verified", "batched"} /\ next \in 0 .. Len(Plan) /\ left \in 0 .. MaxRequeues
  /\ phase \in {"running", "done", "failed"}
  /\ leaves \in [DOMAIN leaves -> Leaves] /\ final \subseteq DOMAIN leaves /\ IsFiniteSet(final)

\* A final leaf is committed, or it waits on the stack or in the batch.
WorkInv ==
  /\ Queue(pending) /\ Queue(batch) /\ IdsOf(pending) \cap IdsOf(batch) = {}
  /\ final = DOMAIN written \cup IdsOf(pending) \cup IdsOf(batch)
  /\ written = [id \in DOMAIN written |-> leaves[id].core]
  /\ \A id \in final : leaves[id].terminal = "none" <=> id \notin DOMAIN written
  /\ phase = "done" => pending = <<>> /\ batch = <<>> /\ next = Len(Plan)

\* Ids grow from the plan, and only what is no longer final has children.
FreshInv ==
  \A id \in DOMAIN leaves :
    /\ id \in Seq(Nat) /\ id # <<>> /\ id[1] \in 1 .. next
    /\ Len(id) > 1 => Front(id) \in DOMAIN leaves \ final

Started == UNION {Pixels(Plan[i]) : i \in 1 .. next}

\* The final leaves tile what was started.
CoverInv ==
  /\ UNION {Pixels(leaves[id].core) : id \in final} = Started
  /\ \A a, b \in final : a # b => Pixels(leaves[a].core) \cap Pixels(leaves[b].core) = {}

SeenInv ==
  /\ touched \subseteq Started
  /\ \A id \in final : IF leaves[id].seen THEN Pixels(leaves[id].core) \subseteq touched
                                          ELSE Pixels(leaves[id].core) \cap touched = {}

\* A set of boxes that lie apart and together have these pixels.
Ledger(boxes, pixels) ==
  /\ boxes \subseteq Boxes /\ IsFiniteSet(boxes)
  /\ \A a, b \in boxes : a # b => Pixels(a) \cap Pixels(b) = {}
  /\ UNION {Pixels(b) : b \in boxes} = pixels

\* No box has a part of the core only.
Fits(boxes, core) == \A b \in boxes : Covers(b, core) \/ Pixels(b) \cap Pixels(core) = {}

UnionInv ==
  /\ Ledger(union, touched)
  /\ \A id \in final : Fits(union, leaves[id].core)

\* Every session has a verdict of each leaf that was committed, and of no other than a final
\* one; only where there are no sessions is a batch.
VerdictInv ==
  /\ mask \in Masks /\ (mode = "verified" => batch = <<>>)
  /\ latest = [v \in Sessions |-> latest[v]]
  /\ \A v \in Sessions :
       /\ latest[v] \in [DOMAIN latest[v] -> TileResults]
       /\ DOMAIN written \subseteq DOMAIN latest[v] /\ DOMAIN latest[v] \subseteq final

\* A split may add this many leaves.
Growth == Subdivision * Subdivision - 1

BudgetInv ==
  /\ Cardinality(final) <= next * (1 + MaxRequeues * Growth) - left * Growth
  /\ \A id \in DOMAIN leaves : Len(id) <= MaxRequeues + 1
  /\ \A i \in DOMAIN pending : Len(pending[i].id) + left <= MaxRequeues + 1

TreeInv == PipelineTypes /\ WorkInv /\ FreshInv /\ CoverInv
PipelineInv == TreeInv /\ SeenInv /\ UnionInv /\ VerdictInv /\ BudgetInv

-----------------------------------------------------------------------------
(* Sequences and windows                                                       *)

\* A sequence that is not empty is its front and its last element.
LEMMA FrontAndLast ==
  ASSUME NEW S, NEW s \in Seq(S), s # <<>>
  PROVE  /\ Front(s) \in Seq(S) /\ Len(s) \in Nat \ {0} /\ Len(Front(s)) = Len(s) - 1
         /\ DOMAIN s = 1 .. Len(s) /\ DOMAIN Front(s) = 1 .. Len(s) - 1
         /\ \A i \in 1 .. Len(s) - 1 : Front(s)[i] = s[i]
         /\ Last(s) = s[Len(s)] /\ Len(s) \in DOMAIN s /\ Last(s) \in S
  <1>1. Len(s) \in Nat \ {0} /\ DOMAIN s = 1 .. Len(s)
    OBVIOUS
  <1>2. /\ SubSeq(s, 1, Len(s) - 1) \in Seq(S) /\ Len(SubSeq(s, 1, Len(s) - 1)) = Len(s) - 1
        /\ \A i \in 1 .. Len(s) - 1 : SubSeq(s, 1, Len(s) - 1)[i] = s[i]
    BY <1>1
  <1>3. s[Len(s)] \in S
    BY <1>1
  <1> QED BY <1>1, <1>2, <1>3 DEF Front, Last

\* The id of a child determines that of its parent.
LEMMA ChildId ==
  ASSUME NEW id \in Seq(Nat), NEW i \in Nat
  PROVE  /\ Append(id, i) \in Seq(Nat) /\ Append(id, i) # <<>>
         /\ Len(Append(id, i)) = Len(id) + 1
         /\ Front(Append(id, i)) = id /\ Last(Append(id, i)) = i
         /\ id # <<>> => Append(id, i)[1] = id[1]
  <1> PICK c : c = Append(id, i)
    OBVIOUS
  <1>1. c \in Seq(Nat) /\ Len(c) = Len(id) + 1 /\ c[Len(id) + 1] = i /\ c # <<>>
    OBVIOUS
  <1>2. \A k \in 1 .. Len(id) : c[k] = id[k]
    OBVIOUS
  <1>3. /\ Front(c) \in Seq(Nat) /\ Len(Front(c)) = Len(id)
        /\ \A k \in 1 .. Len(id) : Front(c)[k] = id[k]
    <2>1. /\ Front(c) \in Seq(Nat) /\ Len(Front(c)) = Len(c) - 1
          /\ \A k \in 1 .. Len(c) - 1 : Front(c)[k] = c[k]
      BY <1>1, FrontAndLast
    <2>2. Len(id) \in Nat /\ Len(c) - 1 = Len(id)
      BY <1>1
    <2> QED BY <1>2, <2>1, <2>2
  <1>4. Front(c) = id
    BY <1>3, SeqEqual
  <1>5. Last(c) = i
    BY <1>1, FrontAndLast
  <1>6. id # <<>> => 1 \in 1 .. Len(id)
    OBVIOUS
  <1> QED BY <1>1, <1>2, <1>4, <1>5, <1>6

\* A request with a halo of numbers is one.
LEMMA RequestType ==
  ASSUME NEW id \in Seq(Nat), NEW core \in Boxes, NEW halo \in Halos
  PROVE  Request(id, core, halo) \in Requests
  <1>1. core.x0 \in Int /\ core.x1 \in Int /\ core.y0 \in Int /\ core.y1 \in Int
    BY DEF Boxes
  <1>2. Width \in Int /\ Height \in Int
    BY PipelineAssumption
  <1>3. /\ core.x0 - halo.left \in Int /\ core.y0 - halo.top \in Int
        /\ core.x1 + halo.right \in Int /\ core.y1 + halo.bottom \in Int
    <2>1. halo.left \in Int /\ halo.top \in Int /\ halo.right \in Int /\ halo.bottom \in Int
      BY DEF Halos
    <2>2. \A a, b \in Int : a - b \in Int /\ a + b \in Int
      OBVIOUS
    <2> QED BY ONLY <1>1, <2>1, <2>2
  <1>4. ReadBox(core, halo, Width, Height) \in Windows
    BY <1>2, <1>3 DEF ReadBox, Box, Windows, Greater, Lesser
  <1> QED BY <1>4 DEF Request, Requests

\* So the halo of a request, and the one that is wider.
LEMMA HaloType ==
  ASSUME NEW r \in Requests
  PROVE  HaloOf(r) \in Halos /\ Uniform(WidestSide(HaloOf(r)) + ExtraHalo) \in Halos
  <1>1. /\ r.core.x0 \in Int /\ r.core.x1 \in Int /\ r.core.y0 \in Int /\ r.core.y1 \in Int
        /\ r.read \in Windows
    BY DEF Requests, Boxes
  <1>2. HaloOf(r) \in Halos
    BY <1>1 DEF HaloOf, HaloActual, Halos, Windows
  <1>3. ASSUME NEW a \in Int, NEW b \in Int PROVE \E m \in {a, b} : m >= a /\ m >= b
    BY <1>3
  <1>4. ASSUME NEW h \in Halos PROVE WidestSide(h) \in Int
    <2> PICK a, b, c, d : a = h.left /\ b = h.top /\ c = h.right /\ d = h.bottom
      OBVIOUS
    <2>1. a \in Int /\ b \in Int /\ c \in Int /\ d \in Int
      BY DEF Halos
    <2>2. PICK m \in {a, b} : m >= a /\ m >= b
      BY <1>3, <2>1
    <2>3. PICK n \in {c, d} : n >= c /\ n >= d
      BY <1>3, <2>1
    <2>4. PICK k \in {m, n} : k >= m /\ k >= n
      BY <1>3, <2>1, <2>2, <2>3
    <2>5. k \in {a, b, c, d} /\ \A y \in {a, b, c, d} : k >= y
      BY <2>1, <2>2, <2>3, <2>4
    <2>6. Max({a, b, c, d}) \in {a, b, c, d}
      BY <2>5 DEF Max
    <2> QED BY <2>1, <2>6 DEF WidestSide
  <1>5. ExtraHalo \in Int
    BY PipelineAssumption
  <1>6. WidestSide(HaloOf(r)) + ExtraHalo \in Int
    BY <1>2, <1>4, <1>5
  <1> QED BY <1>2, <1>6 DEF Uniform, Halos

-----------------------------------------------------------------------------
(* The ledger of forwarded cores                                               *)

\* A core that fits adds itself or, if it is covered, nothing.
LEMMA RecordAdds ==
  ASSUME NEW boxes \in SUBSET Boxes, NEW core \in Boxes, Fits(boxes, core)
  PROVE  RecordForward(boxes, core) =
           IF \E b \in boxes : Covers(b, core) THEN boxes ELSE boxes \cup {core}
  <1>1. \A b \in boxes : Pixels(b) # {}
    BY AreaCounts
  <1>2. ASSUME \A b \in boxes : ~Covers(b, core)
        PROVE  {b \in boxes : ~Covers(core, b)} = boxes
    <2>1. \A b \in boxes : ~(Pixels(b) \subseteq Pixels(core))
      BY <1>1, <1>2 DEF Fits
    <2> QED BY <2>1, CoversPixels
  <1> QED BY <1>2 DEF RecordForward

\* A fold in order is a function of the indices taken so far.
Folded(g, base, cores, S) ==
  /\ g = [T \in SUBSET S |-> g[T]] /\ g[{}] = base
  /\ \A T \in SUBSET S, m \in S :
       (m \in T /\ \A n \in T : n <= m) => g[T] = RecordForward(g[T \ {m}], cores[m])

\* It is the only such function.
LEMMA FoldIsUnique ==
  ASSUME NEW n \in Nat, NEW cores, DOMAIN cores = 1 .. n, NEW base, NEW g,
         Folded(g, base, cores, 1 .. n)
  PROVE  FoldLeft(RecordForward, base, cores) = g[1 .. n]
  <1> DEFINE S == 1 .. n
             Adds(h) == h = [T \in SUBSET S |->
                               IF T = {} THEN base ELSE RecordForward(h[T \ {Max(T)}], cores[Max(T)])]
  <1>1. ASSUME NEW T \in SUBSET S, T # {}
        PROVE  Max(T) \in T /\ \A m \in T : m <= Max(T)
    <2> PICK D : D = {n - m : m \in T}
      OBVIOUS
    <2>0. \A m \in T : m \in Int /\ n - m \in Nat
      OBVIOUS
    <2>1. D \in SUBSET Nat /\ D # {}
      BY <1>1, <2>0
    <2>2. PICK d \in D : \A e \in D : d <= e
      BY <2>1, LeastNumber
    <2>3. PICK k \in T : d = n - k
      BY <2>2
    <2>4. \A m \in T : m <= k
      <3>1. \A m \in T : n - k <= n - m
        BY <2>2, <2>3
      <3> QED BY <2>0, <3>1
    <2>5. Max(T) \in T /\ \A m \in T : Max(T) >= m
      BY <2>4 DEF Max
    <2> QED BY <2>5
  <1>2. Adds(g)
    <2>1. \A T \in SUBSET S :
            g[T] = IF T = {} THEN base ELSE RecordForward(g[T \ {Max(T)}], cores[Max(T)])
      BY <1>1 DEF Folded
    <2>2. g = [T \in SUBSET S |-> g[T]]
      BY DEF Folded
    <2> QED BY <2>1, <2>2
  <1>3. ASSUME NEW h, Adds(h) PROVE h[S] = g[S]
    <2> DEFINE Differ == {k \in Nat : \E T \in SUBSET S : Cardinality(T) = k /\ h[T] # g[T]}
    <2>1. \A T \in SUBSET S :
            h[T] = IF T = {} THEN base ELSE RecordForward(h[T \ {Max(T)}], cores[Max(T)])
      BY <1>3
    <2>2. \A T \in SUBSET S :
            g[T] = IF T = {} THEN base ELSE RecordForward(g[T \ {Max(T)}], cores[Max(T)])
      BY <1>2
    <2>3. IsFiniteSet(S)
      BY FS_Interval
    <2>4. Differ = {}
      <3> SUFFICES ASSUME Differ # {} PROVE FALSE
        OBVIOUS
      <3>1. PICK k \in Differ : \A m \in Differ : k <= m
        BY LeastNumber
      <3>2. PICK T \in SUBSET S : Cardinality(T) = k /\ h[T] # g[T]
        BY <3>1
      <3>3. T # {}
        BY <2>1, <2>2, <3>2
      <3> PICK U : U = T \ {Max(T)}
        OBVIOUS
      <3>4. U \in SUBSET S /\ Cardinality(U) = k - 1 /\ k - 1 \in Nat
        <4>1. IsFiniteSet(T)
          BY <2>3, FS_Subset
        <4>2. IsFiniteSet(U) /\ Cardinality(U) = k - 1
          BY <1>1, <3>2, <3>3, <4>1, FS_RemoveElement
        <4> QED BY <4>2, FS_CardinalityType
      <3>5. h[U] = g[U]
        BY <3>1, <3>4
      <3>6. h[T] = RecordForward(h[U], cores[Max(T)])
        BY <2>1, <3>3
      <3>7. g[T] = RecordForward(g[U], cores[Max(T)])
        BY <2>2, <3>3
      <3> QED BY <3>2, <3>5, <3>6, <3>7
    <2>5. Cardinality(S) \in Nat
      BY <2>3, FS_CardinalityType
    <2> QED BY <2>4, <2>5
  <1> DEFINE fold == CHOOSE h : Adds(h)
  <1>4. Adds(fold)
    BY <1>2
  <1>5. fold[S] = g[S]
    BY <1>3, <1>4
  <1>6. FoldLeft(RecordForward, base, cores) = fold[S]
    BY DEF FoldLeft, MapThenFoldSet
  <1> QED BY <1>5, <1>6

Apart(cores) == \A i, j \in DOMAIN cores : i # j => Pixels(cores[i]) \cap Pixels(cores[j]) = {}
AllFit(boxes, cores) == \A i \in DOMAIN cores : Fits(boxes, cores[i])
Uncovered(boxes, cores) == {i \in DOMAIN cores : \A b \in boxes : ~Covers(b, cores[i])}

\* Cores that lie apart and fit are added, in whatever order, unless they are covered.
LEMMA FoldRecords ==
  ASSUME NEW boxes \in SUBSET Boxes, NEW cores \in Seq(Boxes), Apart(cores), AllFit(boxes, cores)
  PROVE  FoldLeft(RecordForward, boxes, cores) = boxes \cup {cores[i] : i \in Uncovered(boxes, cores)}
  <1> PICK n : n = Len(cores)
    OBVIOUS
  <1>1. n \in Nat /\ DOMAIN cores = 1 .. n /\ \A i \in 1 .. n : cores[i] \in Boxes
    OBVIOUS
  <1> PICK new : new = Uncovered(boxes, cores)
    OBVIOUS
  <1> PICK g : g = [T \in SUBSET (1 .. n) |-> boxes \cup {cores[i] : i \in T \cap new}]
    OBVIOUS
  <1>2. \A T \in SUBSET (1 .. n) : g[T] = boxes \cup {cores[i] : i \in T \cap new}
    OBVIOUS
  <1>3. \A T \in SUBSET (1 .. n) : g[T] \in SUBSET Boxes
    BY <1>1, <1>2
  <1>4. ASSUME NEW T \in SUBSET (1 .. n), NEW m \in T
        PROVE  g[T] = RecordForward(g[T \ {m}], cores[m])
    <2> PICK U : U = T \ {m}
      OBVIOUS
    <2>1. U \in SUBSET (1 .. n) /\ m \in 1 .. n /\ cores[m] \in Boxes
      BY <1>1
    <2>2. \A i \in U \cap new : Pixels(cores[i]) \cap Pixels(cores[m]) = {}
      BY <1>1, <2>1 DEF Apart
    <2>3. Fits(boxes, cores[m])
      BY <1>1, <2>1 DEF AllFit
    <2>4. Fits(g[U], cores[m])
      <3> SUFFICES ASSUME NEW b \in g[U]
                   PROVE  Covers(b, cores[m]) \/ Pixels(b) \cap Pixels(cores[m]) = {}
        BY DEF Fits
      <3>1. b \in boxes \/ \E i \in U \cap new : b = cores[i]
        BY <1>2, <2>1
      <3> QED BY <2>2, <2>3, <3>1 DEF Fits
    <2>5. RecordForward(g[U], cores[m]) =
            IF \E b \in g[U] : Covers(b, cores[m]) THEN g[U] ELSE g[U] \cup {cores[m]}
      BY <1>3, <2>1, <2>4, RecordAdds
    <2>6. (\E b \in g[U] : Covers(b, cores[m])) <=> m \notin new
      <3>1. m \notin new <=> \E b \in boxes : Covers(b, cores[m])
        BY <1>1, <2>1 DEF Uncovered
      <3>2. ASSUME NEW i \in U \cap new PROVE ~Covers(cores[i], cores[m])
        <4>1. cores[i] \in Boxes /\ Pixels(cores[m]) # {}
          BY <1>1, <2>1, AreaCounts
        <4> QED BY <2>1, <2>2, <4>1, CoversPixels
      <3>3. \A b \in g[U] : b \in boxes \/ \E i \in U \cap new : b = cores[i]
        BY <1>2, <2>1
      <3>4. boxes \subseteq g[U]
        BY <1>2, <2>1
      <3>5. ASSUME NEW b \in g[U], Covers(b, cores[m]) PROVE m \notin new
        <4>1. CASE b \in boxes
          BY <3>1, <3>5, <4>1
        <4>2. CASE b \notin boxes
          <5>1. PICK i \in U \cap new : b = cores[i]
            BY <3>3, <4>2
          <5> QED BY <3>2, <3>5, <5>1
        <4> QED BY <4>1, <4>2
      <3>6. ASSUME m \notin new PROVE \E b \in g[U] : Covers(b, cores[m])
        BY <3>1, <3>4, <3>6
      <3> QED BY <3>5, <3>6
    <2>7. CASE m \in new
      <3>1. T \cap new = (U \cap new) \cup {m}
        BY <2>7
      <3>2. g[T] = g[U] \cup {cores[m]}
        BY <1>2, <2>1, <3>1
      <3> QED BY <2>5, <2>6, <2>7, <3>2
    <2>8. CASE m \notin new
      <3>1. T \cap new = U \cap new
        BY <2>8
      <3>2. g[T] = g[U]
        BY <1>2, <2>1, <3>1
      <3> QED BY <2>5, <2>6, <2>8, <3>2
    <2> QED BY <2>7, <2>8
  <1>5. g[{}] = boxes
    BY <1>2
  <1>6. Folded(g, boxes, cores, 1 .. n)
    BY <1>4, <1>5 DEF Folded
  <1>7. FoldLeft(RecordForward, boxes, cores) = g[1 .. n]
    BY <1>1, <1>6, FoldIsUnique
  <1>8. (1 .. n) \cap new = new
    BY <1>1 DEF Uncovered
  <1> QED BY <1>2, <1>7, <1>8

\* Boxes that lie apart from the ledger and from each other extend it.
LEMMA LedgerExtends ==
  ASSUME NEW boxes, NEW pixels, Ledger(boxes, pixels), NEW more \in SUBSET Boxes,
         IsFiniteSet(more),
         \A a, b \in more : a # b => Pixels(a) \cap Pixels(b) = {},
         \A a \in boxes, b \in more : Pixels(a) \cap Pixels(b) = {}
  PROVE  Ledger(boxes \cup more, pixels \cup UNION {Pixels(b) : b \in more})
  <1>1. boxes \cup more \subseteq Boxes /\ IsFiniteSet(boxes \cup more)
    BY FS_Union DEF Ledger
  <1>2. \A a, b \in boxes \cup more : a # b => Pixels(a) \cap Pixels(b) = {}
    BY DEF Ledger
  <1>3. UNION {Pixels(b) : b \in boxes \cup more} = pixels \cup UNION {Pixels(b) : b \in more}
    BY DEF Ledger
  <1> QED BY <1>1, <1>2, <1>3 DEF Ledger

\* One core that fits is recorded exactly.
LEMMA LedgerRecords ==
  ASSUME NEW boxes, NEW pixels, Ledger(boxes, pixels), NEW core \in Boxes, Fits(boxes, core)
  PROVE  /\ Ledger(RecordForward(boxes, core), pixels \cup Pixels(core))
         /\ RecordForward(boxes, core) \subseteq boxes \cup {core}
         /\ boxes \subseteq RecordForward(boxes, core)
         /\ \E b \in RecordForward(boxes, core) : Covers(b, core)
  <1>1. RecordForward(boxes, core) =
          IF \E b \in boxes : Covers(b, core) THEN boxes ELSE boxes \cup {core}
    BY RecordAdds DEF Ledger
  <1>2. CASE \E b \in boxes : Covers(b, core)
    <2>1. Pixels(core) \subseteq pixels
      <3>1. PICK b \in boxes : Covers(b, core)
        BY <1>2
      <3>2. b \in Boxes /\ Pixels(b) \subseteq pixels
        BY DEF Ledger
      <3> QED BY <3>1, <3>2, CoversPixels
    <2>2. pixels \cup Pixels(core) = pixels
      BY <2>1
    <2> QED BY <1>1, <1>2, <2>2
  <1>3. CASE ~ \E b \in boxes : Covers(b, core)
    <2>1. Ledger(boxes \cup {core}, pixels \cup UNION {Pixels(b) : b \in {core}})
      <3>1. {core} \in SUBSET Boxes /\ IsFiniteSet({core})
        BY FS_Singleton
      <3>2. \A a \in boxes, b \in {core} : Pixels(a) \cap Pixels(b) = {}
        BY <1>3 DEF Fits
      <3> QED BY <3>1, <3>2, LedgerExtends
    <2>2. UNION {Pixels(b) : b \in {core}} = Pixels(core)
      OBVIOUS
    <2>3. Covers(core, core)
      BY CoversPixels
    <2> QED BY <1>1, <1>3, <2>1, <2>2, <2>3
  <1> QED BY <1>2, <1>3

\* So is a sequence of cores that lie apart.
LEMMA LedgerFolds ==
  ASSUME NEW boxes, NEW pixels, Ledger(boxes, pixels), NEW cores \in Seq(Boxes),
         Apart(cores), AllFit(boxes, cores)
  PROVE  /\ Ledger(FoldLeft(RecordForward, boxes, cores),
                   pixels \cup UNION {Pixels(cores[i]) : i \in DOMAIN cores})
         /\ FoldLeft(RecordForward, boxes, cores) \subseteq boxes \cup {cores[i] : i \in DOMAIN cores}
  <1> PICK new, more : new = Uncovered(boxes, cores) /\ more = {cores[i] : i \in new}
    OBVIOUS
  <1>1. FoldLeft(RecordForward, boxes, cores) = boxes \cup more
    BY FoldRecords DEF Ledger
  <1>2. new \subseteq DOMAIN cores /\ DOMAIN cores = 1 .. Len(cores) /\ Len(cores) \in Nat
    BY DEF Uncovered
  <1>3. more \in SUBSET Boxes /\ IsFiniteSet(more)
    <2>1. IsFiniteSet(new)
      <3>1. IsFiniteSet(1 .. Len(cores))
        BY <1>2, FS_Interval
      <3> QED BY <1>2, <3>1, FS_Subset
    <2>2. PICK f : f = [i \in new |-> cores[i]]
      OBVIOUS
    <2>3. f \in Surjection(new, more)
      BY <2>2 DEF Surjection
    <2> QED BY <1>2, <2>1, <2>3, FS_Surjection
  <1>4. \A a, b \in more : a # b => Pixels(a) \cap Pixels(b) = {}
    BY <1>2 DEF Apart
  <1>5. \A a \in boxes, b \in more : Pixels(a) \cap Pixels(b) = {}
    <2> SUFFICES ASSUME NEW a \in boxes, NEW i \in new PROVE Pixels(a) \cap Pixels(cores[i]) = {}
      OBVIOUS
    <2> QED BY <1>2 DEF AllFit, Fits, Uncovered
  <1>6. Ledger(boxes \cup more, pixels \cup UNION {Pixels(b) : b \in more})
    BY <1>3, <1>4, <1>5, LedgerExtends
  <1>7. pixels \cup UNION {Pixels(b) : b \in more}
          = pixels \cup UNION {Pixels(cores[i]) : i \in DOMAIN cores}
    <2>1. ASSUME NEW i \in DOMAIN cores, i \notin new PROVE Pixels(cores[i]) \subseteq pixels
      <3>1. PICK b \in boxes : Covers(b, cores[i])
        BY <2>1 DEF Uncovered
      <3>2. b \in Boxes /\ Pixels(b) \subseteq pixels /\ cores[i] \in Boxes
        BY <1>2 DEF Ledger
      <3> QED BY <3>1, <3>2, CoversPixels
    <2>2. UNION {Pixels(b) : b \in more} = UNION {Pixels(cores[i]) : i \in new}
      OBVIOUS
    <2> QED BY <1>2, <2>1, <2>2
  <1> QED BY <1>1, <1>2, <1>6, <1>7

-----------------------------------------------------------------------------
(* The invariant: committing                                                   *)

\* The plan tiles the chip.
LEMMA PlanTiles ==
  /\ Plan \in Seq(Boxes) /\ Len(Plan) \in Nat /\ DOMAIN Plan = 1 .. Len(Plan)
  /\ Apart(Plan) /\ UNION {Pixels(Plan[i]) : i \in 1 .. Len(Plan)} = Chip
  /\ IsFiniteSet(Chip) /\ Cardinality(Chip) = Width * Height /\ Chip # {}
  <1> PICK chip : chip = Box(0, 0, Width, Height)
    OBVIOUS
  <1>1. Width \in Nat \ {0} /\ Height \in Nat \ {0} /\ CoreSize \in Nat \ {0}
    BY PipelineAssumption
  <1>2. chip \in Boxes /\ Area(chip) = Width * Height /\ Pixels(chip) = Chip
    BY <1>1 DEF Boxes, Nonempty, Box, Area, Pixels, Chip
  <1>3. Tiles(Plan, chip) /\ Plan \in Seq(Boxes)
    BY <1>1, CoreGridTiles DEF Plan
  <1>4. DOMAIN Plan = 1 .. Len(Plan) /\ Len(Plan) \in Nat
    BY <1>3
  <1>5. UNION {Pixels(Plan[i]) : i \in DOMAIN Plan} = Pixels(chip)
    BY <1>2, <1>3, TilesTogether
  <1>6. IsFiniteSet(Pixels(chip)) /\ Cardinality(Pixels(chip)) = Area(chip) /\ Pixels(chip) # {}
    BY <1>2, AreaCounts
  <1>7. Apart(Plan)
    BY <1>3 DEF Tiles, Apart
  <1> QED BY <1>2, <1>3, <1>4, <1>5, <1>6, <1>7

\* A run starts with nothing.
LEMMA PipelineInit == Init => PipelineInv
  <1> SUFFICES ASSUME Init PROVE PipelineInv
    OBVIOUS
  <1> USE DEF Init
  <1>1. DOMAIN leaves = {} /\ DOMAIN written = {} /\ DOMAIN pending = {} /\ DOMAIN batch = {}
    OBVIOUS
  <1>2. MaxRequeues \in Nat /\ Subdivision \in Nat
    BY PipelineAssumption
  <1>3. PipelineTypes
    BY <1>1, <1>2, PlanTiles, FS_EmptySet DEF PipelineTypes
  <1>4. WorkInv
    <2>1. Queue(pending) /\ Queue(batch) /\ IdsOf(pending) = {} /\ IdsOf(batch) = {}
      BY <1>1 DEF Queue, IdsOf
    <2>2. written = [id \in DOMAIN written |-> leaves[id].core]
      BY <1>1
    <2> QED BY <1>1, <2>1, <2>2 DEF WorkInv
  <1>5. Started = {}
    BY DEF Started
  <1>6. FreshInv /\ CoverInv /\ SeenInv
    BY <1>1, <1>5 DEF FreshInv, CoverInv, SeenInv
  <1>7. UnionInv
    BY FS_EmptySet DEF UnionInv, Ledger
  <1>8. VerdictInv
    BY <1>1 DEF VerdictInv
  <1>9. BudgetInv
    <2>1. Cardinality(final) = 0
      BY FS_EmptySet
    <2>2. Growth \in Int
      BY <1>2 DEF Growth
    <2> QED BY <1>1, <1>2, <2>1, <2>2 DEF BudgetInv
  <1> QED BY <1>3, <1>4, <1>6, <1>7, <1>8, <1>9 DEF PipelineInv, TreeInv

\* What it is to commit the leaves with these ids.
Commits(ids) ==
  /\ phase' = phase /\ final' = final /\ mode' = mode /\ next' = next
  /\ leaves' \in [DOMAIN leaves -> Leaves]
  /\ \A id \in DOMAIN leaves :
       /\ leaves'[id].core = leaves[id].core
       /\ leaves'[id].terminal = "none" <=> leaves[id].terminal = "none" /\ id \notin ids
  /\ written' = [id \in DOMAIN written \cup ids |-> leaves'[id].core]

\* What waits is committed or waits still, in this stack and batch.
WaitsStill(stack, windows, ids) ==
  /\ Queue(stack) /\ Queue(windows) /\ IdsOf(stack) \cap IdsOf(windows) = {}
  /\ ids \cap (IdsOf(stack) \cup IdsOf(windows)) = {}
  /\ IdsOf(stack) \cup IdsOf(windows) \cup ids = IdsOf(pending) \cup IdsOf(batch)

\* Committing disturbs neither the tree nor what still waits.
LEMMA CommitKeepsTree ==
  ASSUME TreeInv, phase = "running", NEW ids, Commits(ids), NEW stack, NEW windows,
         WaitsStill(stack, windows, ids), pending' = stack, batch' = windows,
         left' \in 0 .. MaxRequeues
  PROVE  TreeInv'
  <1> USE DEF TreeInv
  <1>1. /\ DOMAIN leaves' = DOMAIN leaves /\ DOMAIN written' = DOMAIN written \cup ids
        /\ ids \subseteq final /\ ids \cap DOMAIN written = {}
    <2>1. IdsOf(pending) \cup IdsOf(batch) \subseteq final \ DOMAIN written
      BY DEF WorkInv, Queue, IdsOf
    <2> QED BY <2>1 DEF Commits, WaitsStill
  <1>2. PipelineTypes'
    BY <1>1 DEF PipelineTypes, Commits
  <1>3. WorkInv'
    <2>1. ASSUME NEW s, Queue(s), ids \cap IdsOf(s) = {}
          PROVE  /\ s \in Seq(Requests)
                 /\ \A i \in DOMAIN s : /\ s[i].id \in final' \ DOMAIN written'
                                        /\ s[i].core = leaves'[s[i].id].core
                 /\ \A i, j \in DOMAIN s : s[i].id = s[j].id => i = j
      BY <1>1, <2>1 DEF Queue, IdsOf, Commits, PipelineTypes
    <2>2. Queue(pending)' /\ Queue(batch)'
      BY <2>1 DEF Queue, WaitsStill
    <2>3. IdsOf(pending)' = IdsOf(stack) /\ IdsOf(batch)' = IdsOf(windows)
      BY DEF IdsOf
    <2>4. final' = DOMAIN written' \cup IdsOf(stack) \cup IdsOf(windows)
      BY <1>1 DEF Commits, WaitsStill, WorkInv
    <2>5. written' = [id \in DOMAIN written' |-> leaves'[id].core]
      BY <1>1 DEF Commits
    <2>6. \A id \in final' : leaves'[id].terminal = "none" <=> id \notin DOMAIN written'
      BY <1>1 DEF Commits, WorkInv, PipelineTypes
    <2>7. phase' # "done"
      BY DEF Commits
    <2> QED BY <2>2, <2>3, <2>4, <2>5, <2>6, <2>7 DEF WorkInv, WaitsStill
  <1>4. FreshInv'
    BY <1>1 DEF FreshInv, Commits
  <1>5. CoverInv'
    <2>1. Started' = Started
      BY DEF Started, Commits, Plan
    <2>2. \A id \in final : leaves'[id].core = leaves[id].core
      BY DEF Commits, PipelineTypes
    <2>3. {Pixels(leaves'[id].core) : id \in final} = {Pixels(leaves[id].core) : id \in final}
      BY <2>2
    <2> QED BY <2>1, <2>2, <2>3 DEF CoverInv, Commits
  <1> QED BY <1>2, <1>3, <1>4, <1>5

\* Forwarding a queue commits its ids and marks them seen, and raises nothing.
LEMMA ForwardCommits ==
  ASSUME TreeInv, phase = "running", NEW requests, Queue(requests), ForwardAndCommit(requests),
         mode' = mode, next' = next
  PROVE  /\ Commits(IdsOf(requests))
         /\ \A id \in DOMAIN leaves :
              leaves'[id].seen = (leaves[id].seen \/ id \in IdsOf(requests))
  <1> USE DEF TreeInv
  <1> PICK ids : ids = IdsOf(requests)
    OBVIOUS
  <1>1. ids = {requests[i].id : i \in DOMAIN requests} /\ ids \subseteq final /\ final \subseteq DOMAIN leaves
    BY DEF IdsOf, Queue, PipelineTypes
  <1>2. leaves' = [id \in DOMAIN leaves |->
                     IF id \in ids THEN [leaves[id] EXCEPT !.seen = TRUE, !.terminal = "ACTIVE"]
                     ELSE leaves[id]]
    BY <1>1 DEF ForwardAndCommit
  <1>3. \A id \in DOMAIN leaves :
          /\ leaves'[id] \in Leaves /\ leaves'[id].core = leaves[id].core
          /\ leaves'[id].seen = (leaves[id].seen \/ id \in ids)
          /\ leaves'[id].terminal = "none" <=> leaves[id].terminal = "none" /\ id \notin ids
    BY <1>2 DEF PipelineTypes, Leaves
  <1>4. leaves' \in [DOMAIN leaves -> Leaves]
    BY <1>2, <1>3
  <1>5. phase' = phase /\ final' = final
    <2>1. \A i \in DOMAIN requests : Committable(requests[i])
      BY DEF Committable, Queue, WorkInv
    <2> QED BY <2>1 DEF ForwardAndCommit
  <1>6. written' = [id \in DOMAIN written \cup ids |-> leaves'[id].core]
    <2> DEFINE Index(id) == CHOOSE i \in DOMAIN requests : requests[i].id = id
               cores == [i \in DOMAIN requests |-> requests[i].core]
    <2>1. written' = [id \in DOMAIN written \cup ids |->
                        IF id \in ids THEN cores[Index(id)] ELSE written[id]]
      BY <1>1 DEF ForwardAndCommit
    <2>2. ASSUME NEW id \in ids PROVE cores[Index(id)] = leaves'[id].core
      <3>1. Index(id) \in DOMAIN requests /\ requests[Index(id)].id = id
        BY <1>1
      <3> HIDE DEF Index
      <3>2. cores[Index(id)] = leaves[id].core
        BY <3>1 DEF Queue
      <3> QED BY <1>1, <1>3, <3>2
    <2>3. ASSUME NEW id \in DOMAIN written PROVE written[id] = leaves'[id].core
      <3>1. id \in DOMAIN leaves
        BY DEF WorkInv, PipelineTypes
      <3> QED BY <1>3, <3>1 DEF WorkInv
    <2> HIDE DEF Index, cores
    <2>4. \A id \in DOMAIN written \cup ids :
            (IF id \in ids THEN cores[Index(id)] ELSE written[id]) = leaves'[id].core
      BY <2>2, <2>3
    <2> QED BY <2>1, <2>4
  <1> QED BY <1>3, <1>4, <1>5, <1>6 DEF Commits

\* A leaf of the tree lies among what was started, apart from the other leaves.
LEMMA LeavesAreApart ==
  ASSUME TreeInv, NEW id \in final
  PROVE  /\ id \in DOMAIN leaves /\ leaves[id] \in Leaves /\ leaves[id].core \in Boxes
         /\ Pixels(leaves[id].core) \subseteq Started /\ Pixels(leaves[id].core) # {}
         /\ \A other \in final :
              other # id => Pixels(leaves[id].core) \cap Pixels(leaves[other].core) = {}
  <1> USE DEF TreeInv
  <1>1. id \in DOMAIN leaves /\ leaves[id] \in Leaves /\ leaves[id].core \in Boxes
    BY DEF PipelineTypes, Leaves
  <1>2. Pixels(leaves[id].core) # {}
    BY <1>1, AreaCounts
  <1>3. Pixels(leaves[id].core) \subseteq Started
    BY DEF CoverInv
  <1>4. \A other \in final :
          other # id => Pixels(leaves[id].core) \cap Pixels(leaves[other].core) = {}
    BY DEF CoverInv
  <1> QED BY <1>1, <1>2, <1>3, <1>4

\* What was started is part of the chip.
LEMMA StartedInChip ==
  ASSUME next \in 0 .. Len(Plan)
  PROVE  Started \subseteq Chip
  <1>1. 1 .. next \subseteq 1 .. Len(Plan)
    BY PlanTiles
  <1>2. UNION {Pixels(Plan[i]) : i \in 1 .. next} \subseteq UNION {Pixels(Plan[i]) : i \in 1 .. Len(Plan)}
    BY <1>1
  <1> QED BY <1>2, PlanTiles DEF Started

\* Forwarding a queue keeps both ledgers exact.
LEMMA ForwardKeepsLedgers ==
  ASSUME TreeInv, SeenInv, UnionInv, phase = "running", NEW requests, Queue(requests),
         ForwardAndCommit(requests), mode' = mode, next' = next
  PROVE  SeenInv' /\ UnionInv'
  <1> PICK cores : cores = [i \in DOMAIN requests |-> requests[i].core]
    OBVIOUS
  <1> PICK fresh : fresh = UNION {Pixels(cores[i]) : i \in DOMAIN cores}
    OBVIOUS
  <1>1. /\ requests \in Seq(Requests) /\ cores \in Seq(Boxes) /\ DOMAIN cores = DOMAIN requests
        /\ \A i \in DOMAIN cores : requests[i].id \in final /\ cores[i] = leaves[requests[i].id].core
        /\ \A i, j \in DOMAIN cores : requests[i].id = requests[j].id => i = j
    <2>1. /\ requests \in Seq(Requests)
          /\ \A i \in DOMAIN requests : /\ requests[i].id \in final
                                        /\ requests[i].core = leaves[requests[i].id].core
          /\ \A i, j \in DOMAIN requests : requests[i].id = requests[j].id => i = j
      BY DEF Queue
    <2>2. \A i \in DOMAIN requests : requests[i].core \in Boxes
      <3>1. \A i \in DOMAIN requests : requests[i] \in Requests
        BY <2>1
      <3> QED BY <3>1 DEF Requests
    <2>3. DOMAIN requests = 1 .. Len(requests) /\ Len(requests) \in Nat
      BY <2>1
    <2>4. cores \in Seq(Boxes)
      BY <2>2, <2>3
    <2> QED BY <2>1, <2>4
  <1>2. Apart(cores)
    <2> SUFFICES ASSUME NEW i \in DOMAIN cores, NEW j \in DOMAIN cores, i # j
                 PROVE  Pixels(cores[i]) \cap Pixels(cores[j]) = {}
      BY DEF Apart
    <2>1. requests[i].id # requests[j].id /\ requests[i].id \in final /\ requests[j].id \in final
      BY <1>1
    <2> PICK a, b : a = requests[i].id /\ b = requests[j].id
      OBVIOUS
    <2>2. Pixels(leaves[a].core) \cap Pixels(leaves[b].core) = {}
      BY <2>1, LeavesAreApart
    <2>3. cores[i] = leaves[a].core /\ cores[j] = leaves[b].core
      BY <1>1
    <2> QED BY <2>2, <2>3
  <1>3. AllFit(union, cores)
    BY <1>1 DEF AllFit, UnionInv
  <1>4. Range(cores) = {cores[i] : i \in DOMAIN cores}
    BY DEF Range
  <1>5. union' = FoldLeft(RecordForward, union, cores) /\ touched' = touched \cup fresh
    <2>1. /\ union' = FoldLeft(RecordForward, union, cores)
          /\ touched' = touched \cup UNION {Pixels(core) : core \in Range(cores)}
      BY DEF ForwardAndCommit
    <2>2. {Pixels(core) : core \in Range(cores)} = {Pixels(cores[i]) : i \in DOMAIN cores}
      BY <1>4
    <2> QED BY <2>1, <2>2
  <1>6. Ledger(union', touched') /\ union' \subseteq union \cup {cores[i] : i \in DOMAIN cores}
    BY <1>1, <1>2, <1>3, <1>5, LedgerFolds DEF UnionInv
  <1>7. Commits(IdsOf(requests)) /\ \A id \in DOMAIN leaves :
          leaves'[id].seen = (leaves[id].seen \/ id \in IdsOf(requests))
    BY ForwardCommits
  <1>8. final' = final /\ \A id \in final : leaves'[id].core = leaves[id].core
    BY <1>7 DEF Commits, TreeInv, PipelineTypes
  <1>9. ASSUME NEW id \in final, NEW i \in DOMAIN cores
        PROVE  \/ id = requests[i].id /\ leaves[id].core = cores[i]
               \/ Pixels(leaves[id].core) \cap Pixels(cores[i]) = {}
    BY <1>1, LeavesAreApart
  <1>10. SeenInv'
    <2>1. Started' = Started
      BY DEF Started, Plan
    <2>2. fresh \subseteq Started
      <3> SUFFICES ASSUME NEW i \in DOMAIN cores PROVE Pixels(cores[i]) \subseteq Started
        OBVIOUS
      <3> QED BY <1>1, LeavesAreApart
    <2>3. ASSUME NEW id \in final
          PROVE  IF leaves'[id].seen THEN Pixels(leaves[id].core) \subseteq touched'
                                     ELSE Pixels(leaves[id].core) \cap touched' = {}
      <3>1. id \in DOMAIN leaves
        BY LeavesAreApart
      <3>2. CASE id \in IdsOf(requests)
        <4>1. PICK i \in DOMAIN requests : id = requests[i].id
          BY <3>2 DEF IdsOf
        <4>2. Pixels(leaves[id].core) \subseteq fresh
          BY <1>1, <4>1
        <4> QED BY <1>5, <1>7, <3>1, <3>2, <4>2
      <3>3. CASE id \notin IdsOf(requests)
        <4>1. Pixels(leaves[id].core) \cap fresh = {}
          <5> SUFFICES ASSUME NEW i \in DOMAIN cores
                       PROVE  Pixels(leaves[id].core) \cap Pixels(cores[i]) = {}
            OBVIOUS
          <5>1. id # requests[i].id
            BY <1>1, <3>3 DEF IdsOf
          <5> QED BY <1>9, <5>1
        <4>2. leaves'[id].seen = leaves[id].seen
          BY <1>7, <3>1, <3>3 DEF TreeInv, PipelineTypes, Leaves
        <4> QED BY <1>5, <4>1, <4>2 DEF SeenInv
      <3> QED BY <3>2, <3>3
    <2>4. touched' \subseteq Started
      BY <1>5, <2>2 DEF SeenInv
    <2> QED BY <1>8, <2>1, <2>3, <2>4 DEF SeenInv
  <1>11. UnionInv'
    <2>1. ASSUME NEW id \in final PROVE Fits(union', leaves[id].core)
      <3>1. leaves[id].core \in Boxes /\ Covers(leaves[id].core, leaves[id].core)
        BY LeavesAreApart, CoversPixels
      <3>2. Fits(union, leaves[id].core)
        BY DEF UnionInv
      <3> QED BY <1>6, <1>9, <3>1, <3>2 DEF Fits
    <2> QED BY <1>6, <1>8, <2>1 DEF UnionInv
  <1> QED BY <1>10, <1>11

\* A commit is a step of ChipCover: the leaves decide pixels that were not.
LEMMA CommitDecides ==
  ASSUME TreeInv, phase = "running", NEW ids, Commits(ids), NEW stack, NEW windows,
         WaitsStill(stack, windows, ids)
  PROVE  [Cover!Next]_Cover!vars
  <1>1. ids \subseteq final /\ ids \cap DOMAIN written = {} /\ DOMAIN written \subseteq final
    <2>1. Queue(pending) /\ Queue(batch) /\ DOMAIN written \subseteq final
      BY DEF TreeInv, WorkInv
    <2>2. IdsOf(pending) \cup IdsOf(batch) \subseteq final \ DOMAIN written
      BY <2>1 DEF Queue, IdsOf
    <2> QED BY <2>1, <2>2 DEF WaitsStill
  <1>2. DOMAIN written' = DOMAIN written \cup ids /\ final \subseteq DOMAIN leaves
    BY DEF Commits, TreeInv, PipelineTypes
  <1> PICK S : S = UNION {Pixels(leaves[id].core) : id \in ids}
    OBVIOUS
  <1>3. /\ \A id \in DOMAIN written : written[id] = leaves[id].core
        /\ \A id \in DOMAIN written \cup ids : written'[id] = leaves[id].core
    BY <1>1, <1>2 DEF Commits, TreeInv, WorkInv
  <1>4. Decided = UNION {Pixels(leaves[id].core) : id \in DOMAIN written}
    BY <1>3 DEF Decided
  <1>5. Decided' = Decided \cup S
    <2>1. Decided' = UNION {Pixels(leaves[id].core) : id \in DOMAIN written \cup ids}
      BY <1>2, <1>3 DEF Decided
    <2> QED BY <1>4, <2>1
  <1>6. S \subseteq Chip \ Decided
    <2>1. next \in 0 .. Len(Plan)
      BY DEF TreeInv, PipelineTypes
    <2>2. ASSUME NEW id \in ids, NEW other \in DOMAIN written
          PROVE  Pixels(leaves[id].core) \cap Pixels(leaves[other].core) = {}
      BY <1>1, LeavesAreApart
    <2>3. ASSUME NEW id \in ids PROVE Pixels(leaves[id].core) \subseteq Chip
      BY <1>1, <2>1, LeavesAreApart, StartedInChip
    <2> QED BY <1>4, <2>2, <2>3
  <1>7. Abstract[phase] = "running" /\ Abstract'[phase'] = "running"
    BY DEF Abstract, Commits
  <1>8. CASE S = {}
    <2>1. UNCHANGED Cover!vars
      BY <1>5, <1>7, <1>8 DEF Cover!vars
    <2> QED BY <2>1
  <1>9. CASE S # {}
    <2>1. Cover!Commit
      BY <1>5, <1>6, <1>7, <1>9 DEF Cover!Commit
    <2> QED BY <2>1 DEF Cover!Next
  <1> QED BY <1>8, <1>9

-----------------------------------------------------------------------------
(* The invariant: the steps that commit                                        *)

\* The current tile is the one of the stack that is taken; the rest waits still.
LEMMA CurrentTile ==
  ASSUME TreeInv, pending # <<>>
  PROVE  /\ Current \in Requests /\ Current.id \in final \ DOMAIN written
         /\ Current.core = leaves[Current.id].core /\ Current.id \in Seq(Nat)
         /\ Queue(Front(pending)) /\ IdsOf(pending) = IdsOf(Front(pending)) \cup {Current.id}
         /\ Current.id \notin IdsOf(Front(pending)) /\ Current.id \notin IdsOf(batch)
         /\ \A i \in DOMAIN Front(pending) : i \in DOMAIN pending /\ Front(pending)[i] = pending[i]
         /\ \E i \in DOMAIN pending : Current = pending[i]
  <1> PICK n, front : n = Len(pending) /\ front = Front(pending)
    OBVIOUS
  <1>1. /\ pending \in Seq(Requests) /\ IdsOf(pending) \cap IdsOf(batch) = {}
        /\ \A i \in DOMAIN pending : /\ pending[i].id \in final \ DOMAIN written
                                     /\ pending[i].core = leaves[pending[i].id].core
        /\ \A i, j \in DOMAIN pending : pending[i].id = pending[j].id => i = j
    BY DEF TreeInv, WorkInv, Queue
  <1>2. /\ front \in Seq(Requests) /\ n \in Nat \ {0} /\ DOMAIN pending = 1 .. n
        /\ DOMAIN front = 1 .. n - 1 /\ \A i \in 1 .. n - 1 : front[i] = pending[i]
        /\ Current = pending[n] /\ n \in DOMAIN pending /\ Current \in Requests
    BY <1>1, FrontAndLast DEF Current
  <1>3. \A i \in DOMAIN front : i \in DOMAIN pending /\ i # n /\ front[i] = pending[i]
    BY <1>2
  <1>4. \A i \in DOMAIN pending : i = n \/ i \in DOMAIN front
    BY <1>2
  <1>5. Queue(front)
    BY <1>1, <1>2, <1>3 DEF Queue
  <1>6. IdsOf(pending) = IdsOf(front) \cup {Current.id}
    BY <1>2, <1>3, <1>4 DEF IdsOf
  <1>7. Current.id \notin IdsOf(front)
    BY <1>1, <1>2, <1>3 DEF IdsOf
  <1>8. Current.id \in Seq(Nat)
    BY <1>2 DEF Requests
  <1>9. Current.id \in final \ DOMAIN written /\ Current.core = leaves[Current.id].core
    BY <1>1, <1>2
  <1>10. Current.id \notin IdsOf(batch)
    BY <1>1, <1>6
  <1> QED BY <1>2, <1>3, <1>5, <1>6, <1>7, <1>8, <1>9, <1>10

\* A queue of one, of none, and one that grows at its end.
LEMMA Queues ==
  /\ Queue(<<>>) /\ IdsOf(<<>>) = {}
  /\ \A r \in Requests :
       (r.id \in final \ DOMAIN written /\ r.core = leaves[r.id].core) =>
         /\ Queue(<<r>>) /\ IdsOf(<<r>>) = {r.id}
         /\ \A s : Queue(s) /\ r.id \notin IdsOf(s) =>
              Queue(Append(s, r)) /\ IdsOf(Append(s, r)) = IdsOf(s) \cup {r.id}
  <1>1. Queue(<<>>) /\ IdsOf(<<>>) = {}
    BY DEF Queue, IdsOf
  <1>2. ASSUME NEW r \in Requests, r.id \in final \ DOMAIN written, r.core = leaves[r.id].core
        PROVE  Queue(<<r>>) /\ IdsOf(<<r>>) = {r.id}
    <2> PICK one : one = <<r>>
      OBVIOUS
    <2>1. one \in Seq(Requests) /\ DOMAIN one = {1} /\ one[1] = r
      OBVIOUS
    <2> QED BY <1>2, <2>1 DEF Queue, IdsOf
  <1>3. ASSUME NEW r \in Requests, r.id \in final \ DOMAIN written, r.core = leaves[r.id].core,
               NEW s, Queue(s), r.id \notin IdsOf(s)
        PROVE  Queue(Append(s, r)) /\ IdsOf(Append(s, r)) = IdsOf(s) \cup {r.id}
    <2> PICK t, n : t = Append(s, r) /\ n = Len(s)
      OBVIOUS
    <2>1. s \in Seq(Requests)
      BY <1>3 DEF Queue
    <2>2. /\ t \in Seq(Requests) /\ n \in Nat /\ DOMAIN s = 1 .. n /\ DOMAIN t = 1 .. n + 1
          /\ t[n + 1] = r /\ \A i \in 1 .. n : t[i] = s[i]
      BY <2>1
    <2>3. n + 1 \in DOMAIN t /\ \A i \in DOMAIN t : i = n + 1 \/ i \in DOMAIN s
      BY <2>2
    <2>4. \A i \in DOMAIN s : i \in DOMAIN t /\ t[i] = s[i] /\ t[i].id # r.id
      BY <1>3, <2>2 DEF IdsOf
    <2>5. IdsOf(t) = IdsOf(s) \cup {r.id}
      BY <2>2, <2>3, <2>4 DEF IdsOf
    <2>6. Queue(t)
      BY <1>3, <2>2, <2>3, <2>4 DEF Queue
    <2> QED BY <2>5, <2>6
  <1> QED BY <1>1, <1>2, <1>3

\* What numbers the budget is made of.
LEMMA BudgetTypes ==
  ASSUME PipelineTypes
  PROVE  /\ MaxRequeues \in Nat /\ Growth \in Nat /\ next \in Nat /\ left \in Nat
         /\ Cardinality(final) \in Nat /\ MaxRequeues * Growth \in Nat
  <1>1. Subdivision \in Nat /\ Subdivision >= 2 /\ MaxRequeues \in Nat
    BY PipelineAssumption
  <1>2. Subdivision * Subdivision \in Nat /\ Subdivision * Subdivision >= 1
    BY <1>1
  <1>3. Growth \in Nat
    BY <1>2 DEF Growth
  <1>4. Len(Plan) \in Nat
    BY PlanTiles
  <1>5. next \in Nat /\ left \in Nat /\ Cardinality(final) \in Nat
    BY <1>1, <1>4, FS_CardinalityType DEF PipelineTypes
  <1>6. MaxRequeues * Growth \in Nat
    BY <1>1, <1>3
  <1> QED BY <1>1, <1>3, <1>5, <1>6

\* Less is left, less may grow.
LEMMA LessLeft ==
  ASSUME NEW l \in Nat, NEW k \in Nat, k <= l, NEW g \in Nat
  PROVE  k * g \in Nat /\ l * g \in Nat /\ k * g <= l * g
  <1> PICK d : d = l - k
    OBVIOUS
  <1>1. d \in Nat /\ l = k + d
    OBVIOUS
  <1>2. d * g \in Nat /\ k * g \in Nat
    BY <1>1
  <1>3. (k + d) * g = k * g + d * g
    BY <1>1
  <1>4. l * g = k * g + d * g
    BY <1>1, <1>3
  <1> QED BY <1>2, <1>4

\* The budget stays, or some of it is spent, and the tree with it.
LEMMA BudgetKept ==
  ASSUME PipelineTypes, BudgetInv, final' = final, DOMAIN leaves' = DOMAIN leaves, next' = next,
         left' \in 0 .. left, IdsOf(pending)' \subseteq IdsOf(pending)
  PROVE  BudgetInv'
  <1> PICK m, g, c : m = MaxRequeues /\ g = Growth /\ c = Cardinality(final)
    OBVIOUS
  <1>1. m \in Nat /\ g \in Nat /\ next \in Nat /\ left \in Nat /\ c \in Nat
    BY BudgetTypes
  <1>2. left' \in Nat /\ left' <= left
    BY <1>1
  <1>3. PICK bound, a, b : bound = next * (1 + m * g) /\ a = left * g /\ b = left' * g
    OBVIOUS
  <1>4. a \in Nat /\ b \in Nat /\ b <= a
    BY <1>1, <1>2, <1>3, LessLeft
  <1>5. Cardinality(final') <= next' * (1 + MaxRequeues * Growth) - left' * Growth
    <2>1. bound \in Int
      BY <1>1, <1>3
    <2>2. c <= bound - a
      BY <1>3 DEF BudgetInv
    <2>3. c <= bound - b
      BY <1>1, <1>4, <2>1, <2>2
    <2> QED BY <1>3, <2>3
  <1>6. ASSUME NEW i \in DOMAIN pending' PROVE Len(pending'[i].id) + left' <= MaxRequeues + 1
    <2>1. PICK j \in DOMAIN pending : pending'[i].id = pending[j].id
      BY <1>6 DEF IdsOf
    <2>2. Len(pending[j].id) + left <= m + 1
      BY DEF BudgetInv
    <2> PICK n : n = Len(pending[j].id)
      OBVIOUS
    <2>3. n + left <= m + 1 => n + left' <= m + 1
      BY <1>1, <1>2
    <2> QED BY <2>1, <2>2, <2>3
  <1>7. \A id \in DOMAIN leaves' : Len(id) <= MaxRequeues + 1
    BY DEF BudgetInv
  <1> QED BY <1>5, <1>6, <1>7 DEF BudgetInv, Growth

\* What the verifiers answer is a result of each session.
LEMMA AnswersAreResults ==
  ASSUME VerdictInv, NEW verdict \in Answers
  PROVE  verdict \in [Sessions -> TileResults]
  <1>1. AnswersOn[mask] \subseteq TileResults
    BY PipelineAssumption DEF VerdictInv
  <1> QED BY <1>1 DEF Answers

\* A verdict of a leaf that stays is added in every session.
LEMMA VerdictsRecorded ==
  ASSUME VerdictInv, NEW id \in final, NEW verdict \in [Sessions -> TileResults],
         latest' = [v \in Sessions |-> Extend(latest[v], id, verdict[v])],
         UNCHANGED <<mask, mode, final, batch>>, DOMAIN written' \subseteq DOMAIN written \cup {id}
  PROVE  VerdictInv'
  <1>1. Sessions' = Sessions
    BY DEF Sessions
  <1>2. latest' = [v \in Sessions |-> latest'[v]]
    OBVIOUS
  <1>3. ASSUME NEW v \in Sessions
        PROVE  /\ latest'[v] \in [DOMAIN latest'[v] -> TileResults]
               /\ DOMAIN written' \subseteq DOMAIN latest'[v] /\ DOMAIN latest'[v] \subseteq final
    <2> PICK old, new, said : old = latest[v] /\ new = latest'[v] /\ said = verdict[v]
      OBVIOUS
    <2>1. /\ old \in [DOMAIN old -> TileResults] /\ said \in TileResults
          /\ DOMAIN written \subseteq DOMAIN old /\ DOMAIN old \subseteq final
      BY DEF VerdictInv
    <2>2. new = [i \in DOMAIN old \cup {id} |-> IF i = id THEN said ELSE old[i]]
      BY DEF Extend
    <2>3. new \in [DOMAIN new -> TileResults] /\ DOMAIN new = DOMAIN old \cup {id}
      BY <2>1, <2>2
    <2> QED BY <2>1, <2>3
  <1> QED BY <1>1, <1>2, <1>3 DEF VerdictInv

\* Without sessions there is nothing to record.
LEMMA NoVerdicts ==
  ASSUME VerdictInv, mode = "batched", UNCHANGED <<mask, mode, latest>>
  PROVE  VerdictInv'
  <1>1. Sessions = {} /\ Sessions' = {}
    BY DEF Sessions
  <1>2. latest = [v \in {} |-> latest[v]]
    BY <1>1 DEF VerdictInv
  <1> QED BY <1>1, <1>2 DEF VerdictInv

\* A commit that keeps the ledgers keeps the invariant, and is a step of ChipCover.
LEMMA CommitStep ==
  ASSUME PipelineInv, phase = "running", NEW ids, Commits(ids), NEW stack, NEW windows,
         WaitsStill(stack, windows, ids), pending' = stack, batch' = windows, left' = left,
         IdsOf(stack) \subseteq IdsOf(pending), SeenInv', UnionInv', VerdictInv'
  PROVE  PipelineInv' /\ [Cover!Next]_Cover!vars
  <1>1. TreeInv /\ PipelineTypes /\ BudgetInv
    BY DEF PipelineInv, TreeInv
  <1>2. left \in 0 .. MaxRequeues /\ left \in 0 .. left
    BY <1>1, BudgetTypes DEF PipelineTypes
  <1>3. TreeInv'
    BY <1>1, <1>2, CommitKeepsTree
  <1>4. BudgetInv'
    <2>1. final' = final /\ DOMAIN leaves' = DOMAIN leaves /\ next' = next
      BY DEF Commits
    <2>2. IdsOf(pending)' = IdsOf(stack)
      BY DEF IdsOf
    <2> QED BY <1>1, <1>2, <2>1, <2>2, BudgetKept
  <1>5. [Cover!Next]_Cover!vars
    BY <1>1, CommitDecides
  <1> QED BY <1>3, <1>4, <1>5 DEF PipelineInv

\* The current tile is taken from the stack and committed.
LEMMA TakingCurrent ==
  ASSUME TreeInv, pending # <<>>
  PROVE  WaitsStill(Front(pending), batch, {Current.id})
  <1>1. Queue(batch) /\ IdsOf(pending) \cap IdsOf(batch) = {}
    BY DEF TreeInv, WorkInv
  <1> QED BY <1>1, CurrentTile DEF WaitsStill

\* A tile is skipped and committed: neither ledger changes.
LEMMA SkipStep == PipelineInv /\ SkipTile => PipelineInv' /\ [Cover!Next]_Cover!vars
  <1> SUFFICES ASSUME PipelineInv, SkipTile PROVE PipelineInv' /\ [Cover!Next]_Cover!vars
    OBVIOUS
  <1> PICK id : id = Current.id
    OBVIOUS
  <1>1. TreeInv /\ phase = "running" /\ pending # <<>>
    BY DEF PipelineInv, SkipTile, Busy
  <1>2. id \in final \ DOMAIN written /\ Current.core = leaves[id].core
    BY <1>1, CurrentTile
  <1>3. id \in DOMAIN leaves /\ leaves \in [DOMAIN leaves -> Leaves] /\ final \subseteq DOMAIN leaves
    BY <1>1, <1>2 DEF TreeInv, PipelineTypes
  <1>4. leaves' = [leaves EXCEPT ![id].terminal = "EXACT_OUTPUT_SKIP"]
    BY DEF SkipTile
  <1>5. /\ leaves' \in [DOMAIN leaves -> Leaves]
        /\ \A i \in DOMAIN leaves :
             /\ leaves'[i].core = leaves[i].core /\ leaves'[i].seen = leaves[i].seen
             /\ leaves'[i].terminal = "none" <=> leaves[i].terminal = "none" /\ i \notin {id}
    BY <1>3, <1>4 DEF Leaves
  <1>6. Commits({id})
    <2>1. Committable(Current)
      BY <1>1, <1>2 DEF Committable, TreeInv, WorkInv
    <2>2. phase' = phase /\ final' = final /\ mode' = mode /\ next' = next
      BY <2>1 DEF SkipTile
    <2>3. written' = [i \in DOMAIN written \cup {id} |-> IF i = id THEN Current.core ELSE written[i]]
      BY DEF SkipTile, Extend
    <2>4. \A i \in DOMAIN written : written[i] = leaves'[i].core
      BY <1>1, <1>5 DEF TreeInv, WorkInv, PipelineTypes
    <2>5. Current.core = leaves'[id].core
      BY <1>2, <1>3, <1>5
    <2>6. written' = [i \in DOMAIN written \cup {id} |-> leaves'[i].core]
      BY <2>3, <2>4, <2>5
    <2> QED BY <1>5, <2>2, <2>6 DEF Commits
  <1>7. WaitsStill(Front(pending), batch, {id})
    BY <1>1, TakingCurrent
  <1>8. SeenInv' /\ UnionInv'
    <2>1. Started' = Started
      BY DEF Started, Plan, SkipTile
    <2>2. final' = final /\ touched' = touched /\ union' = union
      BY DEF SkipTile
    <2>3. SeenInv /\ UnionInv
      BY DEF PipelineInv
    <2>4. \A i \in final : leaves'[i].core = leaves[i].core /\ leaves'[i].seen = leaves[i].seen
      BY <1>3, <1>5
    <2>5. SeenInv'
      BY <2>1, <2>2, <2>3, <2>4 DEF SeenInv
    <2>6. UnionInv'
      BY <2>2, <2>3, <2>4 DEF UnionInv
    <2> QED BY <2>5, <2>6
  <1>9. VerdictInv'
    <2>1. PICK accepted \in Answers : latest' = Added(accepted)
      BY DEF SkipTile
    <2>2. accepted \in [Sessions -> TileResults]
      BY <2>1, AnswersAreResults DEF PipelineInv
    <2>3. latest' = [v \in Sessions |-> Extend(latest[v], id, accepted[v])]
      BY <2>1 DEF Added
    <2>4. DOMAIN written' \subseteq DOMAIN written \cup {id} /\ UNCHANGED <<mask, mode, final, batch>>
      BY DEF SkipTile, Extend
    <2> QED BY <1>2, <2>2, <2>3, <2>4, VerdictsRecorded DEF PipelineInv
  <1>10. pending' = Front(pending) /\ batch' = batch /\ left' = left
    BY DEF SkipTile
  <1>11. IdsOf(Front(pending)) \subseteq IdsOf(pending)
    BY <1>1, CurrentTile
  <1> QED BY <1>1, <1>6, <1>7, <1>8, <1>9, <1>10, <1>11, CommitStep

\* A tile is verified and committed.
LEMMA CommitTileStep == PipelineInv /\ CommitTile => PipelineInv' /\ [Cover!Next]_Cover!vars
  <1> SUFFICES ASSUME PipelineInv, CommitTile PROVE PipelineInv' /\ [Cover!Next]_Cover!vars
    OBVIOUS
  <1> PICK id, one : id = Current.id /\ one = <<Current>>
    OBVIOUS
  <1>1. TreeInv /\ SeenInv /\ UnionInv /\ phase = "running" /\ pending # <<>>
    BY DEF PipelineInv, CommitTile, Verify, Busy
  <1>2. /\ Current \in Requests /\ id \in final \ DOMAIN written /\ Current.core = leaves[id].core
        /\ IdsOf(Front(pending)) \subseteq IdsOf(pending)
    BY <1>1, CurrentTile
  <1>3. Queue(one) /\ IdsOf(one) = {id}
    BY <1>2, Queues
  <1>4. /\ ForwardAndCommit(one) /\ mode' = mode /\ next' = next /\ left' = left
        /\ pending' = Front(pending) /\ batch' = batch
    BY DEF CommitTile
  <1>5. Commits({id})
    BY <1>1, <1>3, <1>4, ForwardCommits
  <1>6. SeenInv' /\ UnionInv'
    BY <1>1, <1>3, <1>4, ForwardKeepsLedgers
  <1>7. VerdictInv'
    <2>1. PICK verdict \in Answers : latest' = Added(verdict)
      BY DEF CommitTile
    <2>2. latest' = [v \in Sessions |-> Extend(latest[v], id, verdict[v])]
      BY <2>1 DEF Added
    <2>3. DOMAIN written' \subseteq DOMAIN written \cup {id} /\ final' = final
      BY <1>5 DEF Commits
    <2>4. mask' = mask /\ verdict \in [Sessions -> TileResults]
      BY <2>1, AnswersAreResults DEF CommitTile, PipelineInv
    <2> QED BY <1>2, <1>4, <2>2, <2>3, <2>4, VerdictsRecorded DEF PipelineInv
  <1>8. WaitsStill(Front(pending), batch, {id})
    BY <1>1, TakingCurrent
  <1> QED BY <1>1, <1>2, <1>4, <1>5, <1>6, <1>7, <1>8, CommitStep

\* A batch forwards some of what waits in it, with or without the current tile.
LEMMA BatchStep ==
  ASSUME PipelineInv, phase = "running", mode = "batched", NEW requests, NEW stack, NEW windows,
         Queue(requests), ForwardAndCommit(requests), WaitsStill(stack, windows, IdsOf(requests)),
         pending' = stack, batch' = windows, UNCHANGED <<mask, mode, next, left, latest>>,
         IdsOf(stack) \subseteq IdsOf(pending)
  PROVE  PipelineInv' /\ [Cover!Next]_Cover!vars
  <1>1. TreeInv /\ SeenInv /\ UnionInv /\ VerdictInv
    BY DEF PipelineInv
  <1>2. Commits(IdsOf(requests))
    BY <1>1, ForwardCommits
  <1>3. SeenInv' /\ UnionInv'
    BY <1>1, ForwardKeepsLedgers
  <1>4. VerdictInv'
    BY <1>1, NoVerdicts
  <1> QED BY <1>2, <1>3, <1>4, CommitStep

\* A window is put into the batch; what is forwarded then is the batch so far, the batch with
\* it, or nothing.
LEMMA BatchTileStep == PipelineInv /\ BatchTile => PipelineInv' /\ [Cover!Next]_Cover!vars
  <1> SUFFICES ASSUME PipelineInv, BatchTile PROVE PipelineInv' /\ [Cover!Next]_Cover!vars
    OBVIOUS
  <1> PICK id, front, more, one :
        /\ id = Current.id /\ front = Front(pending)
        /\ more = Append(batch, Current) /\ one = <<Current>>
    OBVIOUS
  <1>1. /\ TreeInv /\ phase = "running" /\ mode = "batched" /\ pending # <<>>
        /\ Queue(batch) /\ batch \in Seq(Requests) /\ IdsOf(pending) \cap IdsOf(batch) = {}
    BY DEF PipelineInv, BatchTile, Busy, TreeInv, WorkInv, Queue
  <1>2. /\ Current \in Requests /\ id \in final \ DOMAIN written /\ Current.core = leaves[id].core
        /\ Queue(front) /\ IdsOf(pending) = IdsOf(front) \cup {id}
        /\ id \notin IdsOf(front) /\ id \notin IdsOf(batch)
    BY <1>1, CurrentTile
  <1>3. /\ Queue(one) /\ IdsOf(one) = {id} /\ Queue(<<>>) /\ IdsOf(<<>>) = {}
        /\ Queue(more) /\ IdsOf(more) = IdsOf(batch) \cup {id}
    BY <1>1, <1>2, Queues
  <1>4. pending' = front /\ UNCHANGED <<mask, mode, next, left, latest>>
    BY DEF BatchTile
  <1>5. \/ ForwardAndCommit(batch) /\ batch' = one
        \/ ForwardAndCommit(more) /\ batch' = <<>>
        \/ ForwardAndCommit(<<>>) /\ batch' = more
    <2> PICK change : change = (batch # <<>> /\ Shape(batch[1].read) # Shape(Current.read))
      OBVIOUS
    <2> PICK grown : grown = IF change THEN one ELSE more
      OBVIOUS
    <2> PICK full : full = (Len(grown) >= BatchSize)
      OBVIOUS
    <2>1. /\ ForwardAndCommit((IF change THEN batch ELSE <<>>) \o (IF full THEN grown ELSE <<>>))
          /\ batch' = IF full THEN <<>> ELSE grown
      BY DEF BatchTile
    <2>2. more \in Seq(Requests) /\ one \in Seq(Requests) /\ Len(one) = 1
      BY <1>1, <1>2
    <2>3. BatchSize \in Nat /\ BatchSize >= 2
      BY PipelineAssumption
    <2>4. CASE change
      <3>1. grown = one /\ ~full
        <4>1. grown = one
          BY <2>4
        <4>2. ~(Len(grown) >= BatchSize)
          BY <2>2, <2>3, <4>1
        <4> QED BY <4>1, <4>2
      <3>2. batch \o <<>> = batch
        BY <1>1, ConcatEmptySeq
      <3> QED BY <2>1, <2>4, <3>1, <3>2
    <2>5. CASE ~change /\ full
      <3>1. <<>> \o more = more
        BY <2>2, ConcatEmptySeq
      <3> QED BY <2>1, <2>5, <3>1
    <2>6. CASE ~change /\ ~full
      <3>1. <<>> \o <<>> = <<>>
        OBVIOUS
      <3> QED BY <2>1, <2>6, <3>1
    <2> QED BY <2>4, <2>5, <2>6
  <1>6. CASE ForwardAndCommit(batch) /\ batch' = one
    <2>1. WaitsStill(front, one, IdsOf(batch))
      BY <1>1, <1>2, <1>3 DEF WaitsStill
    <2> QED BY <1>1, <1>2, <1>4, <1>6, <2>1, BatchStep
  <1>7. CASE ForwardAndCommit(more) /\ batch' = <<>>
    <2>1. WaitsStill(front, <<>>, IdsOf(more))
      BY <1>1, <1>2, <1>3 DEF WaitsStill
    <2> QED BY <1>1, <1>2, <1>3, <1>4, <1>7, <2>1, BatchStep
  <1>8. CASE ForwardAndCommit(<<>>) /\ batch' = more
    <2>1. WaitsStill(front, more, IdsOf(<<>>))
      BY <1>1, <1>2, <1>3 DEF WaitsStill
    <2> QED BY <1>1, <1>2, <1>3, <1>4, <1>8, <2>1, BatchStep
  <1> QED BY <1>5, <1>6, <1>7, <1>8

\* What is left in the batch is flushed.
LEMMA FlushStep == PipelineInv /\ FlushRest => PipelineInv' /\ [Cover!Next]_Cover!vars
  <1> SUFFICES ASSUME PipelineInv, FlushRest PROVE PipelineInv' /\ [Cover!Next]_Cover!vars
    OBVIOUS
  <1>1. /\ TreeInv /\ phase = "running" /\ pending = <<>> /\ Queue(batch) /\ batch # <<>>
    BY DEF PipelineInv, FlushRest, PlanDone, TreeInv, WorkInv
  <1>2. Queue(<<>>) /\ IdsOf(<<>>) = {}
    BY Queues
  <1>3. /\ ForwardAndCommit(batch) /\ batch' = <<>> /\ pending' = <<>>
        /\ UNCHANGED <<mask, mode, next, left, latest>>
    BY <1>1 DEF FlushRest
  <1>4. WaitsStill(<<>>, <<>>, IdsOf(batch))
    BY <1>1, <1>2 DEF WaitsStill
  <1>5. mode = "batched"
    BY <1>1 DEF PipelineInv, PipelineTypes, TreeInv, VerdictInv
  <1> QED BY <1>1, <1>2, <1>3, <1>4, <1>5, BatchStep

-----------------------------------------------------------------------------
(* The invariant: the steps that refine                                        *)

\* A refinement records the current core and is paid for.
LEMMA RefineRecords ==
  ASSUME TreeInv, SeenInv, UnionInv, pending # <<>>, NEW action, Refine(action)
  PROVE  /\ Ledger(union', touched') /\ \A id \in final : Fits(union', leaves[id].core)
         /\ touched' = touched \cup Pixels(Current.core) /\ touched' \subseteq Started
         /\ \E b \in union' : Covers(b, Current.core)
         /\ left \in Nat /\ left > 0 /\ left' = left - 1 /\ left' \in 0 .. MaxRequeues
  <1> PICK id, core : id = Current.id /\ core = Current.core
    OBVIOUS
  <1>1. id \in final /\ core = leaves[id].core
    BY CurrentTile
  <1>2. core \in Boxes /\ Fits(union, core) /\ Ledger(union, touched) /\ Pixels(core) \subseteq Started
    BY <1>1, LeavesAreApart DEF UnionInv
  <1>3. union' = RecordForward(union, core) /\ touched' = touched \cup Pixels(core)
    BY DEF Refine
  <1>4. /\ Ledger(union', touched') /\ union' \subseteq union \cup {core}
        /\ \E b \in union' : Covers(b, core)
    BY <1>2, <1>3, LedgerRecords
  <1>5. ASSUME NEW other \in final PROVE Fits(union', leaves[other].core)
    <2>1. Fits(union, leaves[other].core)
      BY DEF UnionInv
    <2>2. other = id \/ Pixels(core) \cap Pixels(leaves[other].core) = {}
      BY <1>1, LeavesAreApart
    <2>3. Covers(core, core)
      BY <1>2, CoversPixels
    <2> QED BY <1>1, <1>4, <2>1, <2>2, <2>3 DEF Fits
  <1>6. touched' \subseteq Started
    BY <1>2, <1>3 DEF SeenInv
  <1>7. left \in Nat /\ left > 0 /\ left' = left - 1 /\ left' \in 0 .. MaxRequeues
    <2>1. left \in 0 .. MaxRequeues /\ MaxRequeues \in Nat
      BY BudgetTypes DEF TreeInv, PipelineTypes
    <2> QED BY <2>1 DEF Refine
  <1> QED BY <1>3, <1>4, <1>5, <1>6, <1>7

\* The tile waits again, with a wider window.
LEMMA GrowStep == PipelineInv /\ GrowTile => PipelineInv' /\ [Cover!Next]_Cover!vars
  <1> SUFFICES ASSUME PipelineInv, GrowTile PROVE PipelineInv' /\ [Cover!Next]_Cover!vars
    OBVIOUS
  <1> PICK id, core, front, wide :
        /\ id = Current.id /\ core = Current.core /\ front = Front(pending)
        /\ wide = Request(Current.id, Current.core, Uniform(WidestSide(HaloOf(Current)) + ExtraHalo))
    OBVIOUS
  <1>1. /\ TreeInv /\ PipelineTypes /\ SeenInv /\ UnionInv /\ VerdictInv /\ BudgetInv
        /\ phase = "running" /\ pending # <<>> /\ Refine("increase_halo")
    BY DEF PipelineInv, TreeInv, GrowTile, Verify, Busy
  <1>2. /\ Current \in Requests /\ id \in final \ DOMAIN written /\ core = leaves[id].core
        /\ Queue(front) /\ IdsOf(pending) = IdsOf(front) \cup {id}
        /\ id \notin IdsOf(front) /\ id \notin IdsOf(batch)
    BY <1>1, CurrentTile
  <1>3. /\ Ledger(union', touched') /\ \A i \in final : Fits(union', leaves[i].core)
        /\ touched' = touched \cup Pixels(core) /\ touched' \subseteq Started
        /\ left \in Nat /\ left > 0 /\ left' = left - 1 /\ left' \in 0 .. MaxRequeues
    BY <1>1, RefineRecords
  <1>4. /\ leaves' = [leaves EXCEPT ![id].seen = TRUE] /\ pending' = Append(front, wide)
        /\ UNCHANGED <<mode, next, final, batch, written, phase>>
    BY DEF GrowTile
  <1>5. /\ leaves' \in [DOMAIN leaves -> Leaves] /\ DOMAIN leaves' = DOMAIN leaves
        /\ \A i \in DOMAIN leaves :
             /\ leaves'[i].core = leaves[i].core /\ leaves'[i].terminal = leaves[i].terminal
             /\ leaves'[i].seen = (leaves[i].seen \/ i = id)
    <2>1. leaves \in [DOMAIN leaves -> Leaves] /\ id \in DOMAIN leaves
      BY <1>1, <1>2 DEF PipelineTypes
    <2> PICK leaf : leaf = [leaves[id] EXCEPT !.seen = TRUE]
      OBVIOUS
    <2>2. /\ leaf \in Leaves /\ leaf.core = leaves[id].core
          /\ leaf.terminal = leaves[id].terminal /\ leaf.seen = TRUE
      BY <2>1 DEF Leaves
    <2>3. leaves' = [leaves EXCEPT ![id] = leaf]
      BY <1>4
    <2>4. /\ DOMAIN leaves' = DOMAIN leaves /\ leaves' \in [DOMAIN leaves -> Leaves]
          /\ \A i \in DOMAIN leaves : leaves'[i] = IF i = id THEN leaf ELSE leaves[i]
      BY ONLY <2>1, <2>2, <2>3
    <2>5. \A i \in DOMAIN leaves : leaves[i].seen \in BOOLEAN
      BY <2>1 DEF Leaves
    <2> QED BY <2>2, <2>4, <2>5
  <1>6. wide \in Requests /\ wide.id = id /\ wide.core = core
    <2>1. Current.id \in Seq(Nat) /\ Current.core \in Boxes
      BY <1>2 DEF Requests
    <2> QED BY <1>2, <2>1, HaloType, RequestType DEF Request
  <1>7. Commits({})
    <2>1. written = [i \in DOMAIN written |-> leaves[i].core] /\ DOMAIN written \subseteq DOMAIN leaves
      BY <1>1 DEF TreeInv, WorkInv, PipelineTypes
    <2>2. written' = [i \in DOMAIN written \cup {} |-> leaves'[i].core]
      BY <1>4, <1>5, <2>1
    <2> QED BY <1>4, <1>5, <2>2 DEF Commits
  <1>8. Queue(pending') /\ IdsOf(pending') = IdsOf(pending)
    <2>1. /\ wide \in Requests /\ wide.id \in final \ DOMAIN written
          /\ wide.core = leaves[wide.id].core /\ Queue(front) /\ wide.id \notin IdsOf(front)
      BY <1>2, <1>6
    <2>2. Queue(Append(front, wide)) /\ IdsOf(Append(front, wide)) = IdsOf(front) \cup {wide.id}
      BY <2>1, Queues
    <2> QED BY <1>2, <1>4, <1>6, <2>2
  <1>9. WaitsStill(pending', batch, {})
    BY <1>1, <1>8 DEF WaitsStill, TreeInv, WorkInv
  <1>10. TreeInv'
    BY <1>1, <1>3, <1>4, <1>7, <1>9, CommitKeepsTree
  <1>11. [Cover!Next]_Cover!vars
    BY <1>1, <1>7, <1>9, CommitDecides
  <1>12. SeenInv'
    <2>1. Started' = Started
      BY <1>4 DEF Started, Plan
    <2>2. ASSUME NEW i \in final
          PROVE  IF leaves'[i].seen THEN Pixels(leaves'[i].core) \subseteq touched'
                                    ELSE Pixels(leaves'[i].core) \cap touched' = {}
      <3>1. i \in DOMAIN leaves /\ leaves'[i].core = leaves[i].core
        BY <1>1, <1>5 DEF PipelineTypes
      <3>2. CASE i = id
        BY <1>2, <1>3, <1>5, <3>1, <3>2
      <3>3. CASE i # id
        <4>1. Pixels(leaves[i].core) \cap Pixels(core) = {}
          BY <1>1, <1>2, <3>3, LeavesAreApart
        <4>2. leaves'[i].seen = leaves[i].seen
          BY <1>1, <1>5, <3>1, <3>3 DEF PipelineTypes, Leaves
        <4> QED BY <1>1, <1>3, <3>1, <4>1, <4>2 DEF SeenInv
      <3> QED BY <3>2, <3>3
    <2> QED BY <1>3, <1>4, <2>1, <2>2 DEF SeenInv
  <1>13. UnionInv'
    <2>1. \A i \in final : leaves'[i].core = leaves[i].core
      BY <1>1, <1>5 DEF PipelineTypes
    <2> QED BY <1>3, <1>4, <2>1 DEF UnionInv
  <1>14. VerdictInv'
    <2>1. PICK verdict \in Answers : latest' = Added(verdict)
      BY DEF GrowTile, Verify
    <2>2. latest' = [v \in Sessions |-> Extend(latest[v], id, verdict[v])]
      BY <2>1 DEF Added
    <2>3. mask' = mask /\ verdict \in [Sessions -> TileResults]
      BY <1>1, <2>1, AnswersAreResults DEF GrowTile
    <2> QED BY <1>1, <1>2, <1>4, <2>2, <2>3, VerdictsRecorded
  <1>15. BudgetInv'
    <2>1. left' \in 0 .. left
      BY <1>3
    <2>2. IdsOf(pending)' = IdsOf(pending')
      BY DEF IdsOf
    <2> QED BY <1>1, <1>4, <1>5, <1>8, <2>1, <2>2, BudgetKept
  <1> QED BY <1>10, <1>11, <1>12, <1>13, <1>14, <1>15 DEF PipelineInv

-----------------------------------------------------------------------------
(* The invariant: the steps that start and end                                 *)

\* A tile of the plan lies apart from what was started, and starts.
LEMMA StartedGrows ==
  ASSUME next \in 0 .. Len(Plan), next < Len(Plan), next' = next + 1
  PROVE  /\ next' \in 0 .. Len(Plan) /\ next + 1 \in Nat \ {0} /\ Plan[next + 1] \in Boxes
         /\ Started' = Started \cup Pixels(Plan[next + 1])
         /\ Pixels(Plan[next + 1]) \cap Started = {}
  <1> PICK n, core : n = next + 1 /\ core = Plan[next + 1]
    OBVIOUS
  <1>1. Len(Plan) \in Nat /\ Plan \in Seq(Boxes) /\ DOMAIN Plan = 1 .. Len(Plan) /\ Apart(Plan)
    BY PlanTiles
  <1>2. n \in 1 .. Len(Plan) /\ n \in Nat \ {0} /\ next \in Nat
    BY <1>1
  <1>3. 1 .. n = (1 .. next) \cup {n} /\ \A i \in 1 .. next : i # n /\ i \in 1 .. Len(Plan)
    BY <1>1, <1>2
  <1>4. core \in Boxes
    BY <1>1, <1>2
  <1>5. UNION {Pixels(Plan[i]) : i \in 1 .. n} 
          = (UNION {Pixels(Plan[i]) : i \in 1 .. next}) \cup Pixels(core)
    BY <1>3
  <1>6. Started' = UNION {Pixels(Plan[i]) : i \in 1 .. n}
    BY DEF Started, Plan
  <1>7. \A i \in 1 .. next : Pixels(core) \cap Pixels(Plan[i]) = {}
    BY <1>1, <1>2, <1>3 DEF Apart
  <1>8. Pixels(core) \cap Started = {}
    BY <1>7 DEF Started
  <1> QED BY <1>2, <1>4, <1>5, <1>6, <1>8 DEF Started

\* A tile of the plan becomes a leaf.
LEMMA StartStep == PipelineInv /\ StartTile => PipelineInv' /\ [Cover!Next]_Cover!vars
  <1> SUFFICES ASSUME PipelineInv, StartTile PROVE PipelineInv' /\ [Cover!Next]_Cover!vars
    OBVIOUS
  <1> PICK id, core, r :
        id = <<next + 1>> /\ core = Plan[next + 1] /\ r = Request(id, core, Uniform(Halo))
    OBVIOUS
  <1>1. /\ TreeInv /\ PipelineTypes /\ WorkInv /\ FreshInv /\ CoverInv
        /\ SeenInv /\ UnionInv /\ VerdictInv /\ BudgetInv
        /\ phase = "running" /\ pending = <<>> /\ next < Len(Plan) /\ next' = next + 1
    BY DEF PipelineInv, TreeInv, StartTile
  <1>2. /\ next' \in 0 .. Len(Plan) /\ next + 1 \in Nat \ {0} /\ core \in Boxes
        /\ Started' = Started \cup Pixels(core) /\ Pixels(core) \cap Started = {}
    BY <1>1, StartedGrows DEF PipelineTypes
  <1>3. id \in Seq(Nat) /\ id # <<>> /\ Len(id) = 1 /\ id[1] = next + 1
    BY <1>2
  <1>4. id \notin DOMAIN leaves /\ id \notin final /\ next \in Nat
    <2>1. next \in Nat /\ next + 1 \notin 1 .. next
      BY <1>1, PlanTiles DEF PipelineTypes
    <2>2. id \notin DOMAIN leaves
      BY <1>1, <1>3, <2>1 DEF FreshInv
    <2> QED BY <1>1, <2>1, <2>2 DEF PipelineTypes
  <1>5. /\ pending' = <<r>> /\ final' = final \cup {id} /\ phase' = phase /\ left' = MaxRequeues
        /\ leaves' = [i \in DOMAIN leaves \cup {id} |-> IF i = id THEN Leaf(core, FALSE) ELSE leaves[i]]
        /\ UNCHANGED <<mode, latest, union, batch, written, touched>>
    BY <1>4 DEF StartTile, Extend
  <1>6. /\ leaves' \in [DOMAIN leaves -> Leaves]' /\ DOMAIN leaves' = DOMAIN leaves \cup {id}
        /\ leaves'[id] = Leaf(core, FALSE) /\ \A i \in DOMAIN leaves : leaves'[i] = leaves[i]
    <2>1. Leaf(core, FALSE) \in Leaves
      BY <1>2 DEF Leaf, Leaves
    <2>2. \A i \in DOMAIN leaves : leaves[i] \in Leaves
      BY <1>1 DEF PipelineTypes
    <2> QED BY <1>4, <1>5, <2>1, <2>2
  <1>7. \A i \in final : i \in DOMAIN leaves /\ i # id /\ leaves'[i] = leaves[i]
    BY <1>1, <1>4, <1>6 DEF PipelineTypes
  <1>8. leaves'[id].core = core /\ leaves'[id].seen = FALSE /\ leaves'[id].terminal = "none"
    BY <1>6 DEF Leaf
  <1>9. MaxRequeues \in Nat /\ Halo \in Int
    BY PipelineAssumption
  <1>10. PipelineTypes'
    <2>1. IsFiniteSet(final')
      BY <1>1, <1>5, FS_AddElement DEF PipelineTypes
    <2>2. left' \in 0 .. MaxRequeues /\ final' \subseteq DOMAIN leaves'
      BY <1>1, <1>5, <1>6, <1>9 DEF PipelineTypes
    <2> QED BY <1>1, <1>2, <1>5, <1>6, <2>1, <2>2 DEF PipelineTypes, Plan
  <1>11. WorkInv'
    <2>1. r \in Requests /\ r.id = id /\ r.core = core
      <3>1. Uniform(Halo) \in Halos
        BY <1>9 DEF Uniform, Halos
      <3> QED BY <1>2, <1>3, <3>1, RequestType DEF Request
    <2>2. id \notin DOMAIN written /\ DOMAIN written \subseteq final
      BY <1>1, <1>4 DEF WorkInv
    <2>3. Queue(pending)' /\ IdsOf(pending)' = {id}
      <3> PICK one : one = <<r>>
        OBVIOUS
      <3>1. one \in Seq(Requests) /\ DOMAIN one = {1} /\ one[1] = r
        BY <2>1
      <3>2. pending' = one
        BY <1>5
      <3>3. \A i \in DOMAIN one : i = 1 /\ one[i].id = id /\ one[i].core = leaves'[id].core
        BY <1>8, <2>1, <3>1
      <3>4. id \in final' \ DOMAIN written'
        BY <1>5, <2>2
      <3>5. Queue(pending)'
        BY <3>1, <3>2, <3>3, <3>4 DEF Queue
      <3>6. {one[i].id : i \in DOMAIN one} = {id}
        BY <3>1, <3>3
      <3> QED BY <3>2, <3>5, <3>6 DEF IdsOf
    <2>4. Queue(batch)' /\ IdsOf(batch)' = IdsOf(batch) /\ IdsOf(batch) \subseteq final
      <3>1. Queue(batch)
        BY <1>1 DEF WorkInv
      <3>2. \A i \in DOMAIN batch : batch[i].id \in final /\ leaves'[batch[i].id] = leaves[batch[i].id]
        BY <1>7, <3>1 DEF Queue
      <3>3. Queue(batch)'
        BY <1>5, <3>1, <3>2 DEF Queue
      <3> QED BY <1>5, <3>2, <3>3 DEF IdsOf
    <2>5. final' = DOMAIN written' \cup {id} \cup IdsOf(batch)
      <3>1. IdsOf(pending) = {}
        BY <1>1, Queues
      <3> QED BY <1>1, <1>5, <3>1 DEF WorkInv
    <2>6. written' = [i \in DOMAIN written' |-> leaves'[i].core]
      <3>1. \A i \in DOMAIN written : leaves[i].core = leaves'[i].core
        BY <1>7, <2>2
      <3>2. written = [i \in DOMAIN written |-> leaves[i].core]
        BY <1>1 DEF WorkInv
      <3> QED BY <1>5, <3>1, <3>2
    <2>7. \A i \in final' : leaves'[i].terminal = "none" <=> i \notin DOMAIN written'
      BY <1>1, <1>5, <1>7, <1>8, <2>2 DEF WorkInv
    <2>8. phase' # "done"
      BY <1>1, <1>5
    <2> QED BY <1>4, <2>3, <2>4, <2>5, <2>6, <2>7, <2>8 DEF WorkInv
  <1>12. FreshInv'
    <2>1. ASSUME NEW i \in DOMAIN leaves
          PROVE  /\ i \in Seq(Nat) /\ i # <<>> /\ i[1] \in 1 .. next'
                 /\ Len(i) > 1 => Front(i) \in DOMAIN leaves' \ final'
      <3>1. /\ i \in Seq(Nat) /\ i # <<>> /\ i[1] \in 1 .. next
            /\ Len(i) > 1 => Front(i) \in DOMAIN leaves \ final
        BY <1>1 DEF FreshInv
      <3>2. i[1] \in 1 .. next'
        BY <1>1, <1>4, <3>1
      <3> QED BY <1>4, <1>5, <1>6, <3>1, <3>2
    <2>2. id[1] \in 1 .. next'
      BY <1>1, <1>3, <1>4
    <2> SUFFICES ASSUME NEW i \in DOMAIN leaves'
                 PROVE  /\ i \in Seq(Nat) /\ i # <<>> /\ i[1] \in 1 .. next'
                        /\ Len(i) > 1 => Front(i) \in DOMAIN leaves' \ final'
      BY DEF FreshInv
    <2>3. CASE i \in DOMAIN leaves
      BY <2>1, <2>3
    <2>4. CASE i = id
      BY <1>3, <2>2, <2>4
    <2> QED BY <1>6, <2>3, <2>4
  <1>13. CoverInv'
    <2>1. {Pixels(leaves'[i].core) : i \in final'} = {Pixels(leaves[i].core) : i \in final} \cup {Pixels(core)}
      BY <1>5, <1>7, <1>8
    <2>2. UNION {Pixels(leaves'[i].core) : i \in final'} = Started'
      BY <1>1, <1>2, <2>1, ZenonT(40) DEF CoverInv
    <2>3. ASSUME NEW i \in final PROVE Pixels(leaves'[i].core) \cap Pixels(core) = {}
      BY <1>1, <1>2, <1>7, LeavesAreApart
    <2>4. \A i, j \in final : i # j => Pixels(leaves'[i].core) \cap Pixels(leaves'[j].core) = {}
      BY <1>1, <1>7 DEF CoverInv
    <2>5. \A i, j \in final' : i # j => Pixels(leaves'[i].core) \cap Pixels(leaves'[j].core) = {}
      <3> SUFFICES ASSUME NEW i \in final', NEW j \in final', i # j
                   PROVE  Pixels(leaves'[i].core) \cap Pixels(leaves'[j].core) = {}
        OBVIOUS
      <3>0. i \in final \cup {id} /\ j \in final \cup {id}
        BY <1>5
      <3>1. CASE i \in final /\ j \in final
        BY <2>4, <3>1
      <3>2. CASE i = id
        <4>1. j \in final
          BY <3>0, <3>2
        <4>2. Pixels(leaves'[j].core) \cap Pixels(core) = {}
          BY <2>3, <4>1
        <4> QED BY <1>8, <3>2, <4>2
      <3>3. CASE j = id
        <4>1. i \in final
          BY <3>0, <3>3
        <4>2. Pixels(leaves'[i].core) \cap Pixels(core) = {}
          BY <2>3, <4>1
        <4> QED BY <1>8, <3>3, <4>2
      <3> QED BY <3>0, <3>1, <3>2, <3>3
    <2> QED BY <2>2, <2>5 DEF CoverInv
  <1>14. SeenInv'
    <2>1. touched' \subseteq Started' /\ Pixels(core) \cap touched' = {}
      BY <1>1, <1>2, <1>5 DEF SeenInv
    <2> QED BY <1>1, <1>5, <1>7, <1>8, <2>1 DEF SeenInv
  <1>15. UnionInv'
    <2>1. Fits(union, core)
      <3>1. \A b \in union : Pixels(b) \subseteq touched
        BY <1>1 DEF UnionInv, Ledger
      <3>2. touched \cap Pixels(core) = {}
        BY <1>1, <1>2 DEF SeenInv
      <3> QED BY <3>1, <3>2 DEF Fits
    <2>2. \A i \in final' : Fits(union, leaves'[i].core)
      BY <1>1, <1>5, <1>7, <1>8, <2>1 DEF UnionInv
    <2> QED BY <1>1, <1>5, <2>2 DEF UnionInv
  <1>16. VerdictInv'
    <2>1. Sessions' = Sessions
      BY <1>5 DEF Sessions
    <2>2. mask' = mask
      BY DEF StartTile
    <2> QED BY <1>1, <1>5, <2>1, <2>2 DEF VerdictInv
  <1>17. BudgetInv'
    <2>1. PICK m, g, c : m = MaxRequeues /\ g = Growth /\ c = Cardinality(final)
      OBVIOUS
    <2>2. m \in Nat /\ g \in Nat /\ next \in Nat /\ left \in Nat /\ c \in Nat /\ m * g \in Nat
      BY <1>1, <2>1, BudgetTypes
    <2>3. Cardinality(final') = c + 1
      BY <1>1, <1>4, <1>5, <2>1, FS_AddElement DEF PipelineTypes
    <2>4. PICK spent, held, each : spent = next * (1 + m * g) /\ held = left * g /\ each = m * g
      OBVIOUS
    <2>5. spent \in Int /\ held \in Nat /\ each \in Nat /\ c <= spent - held
      BY <1>1, <2>1, <2>2, <2>4, LessLeft DEF BudgetInv
    <2>6. (next + 1) * (1 + each) = spent + (1 + each)
      BY <2>2, <2>4, <2>5
    <2>7. c + 1 <= spent + (1 + each) - each
      BY <2>2, <2>5
    <2>8. Cardinality(final') <= next' * (1 + MaxRequeues * Growth) - left' * Growth
      <3>1. Cardinality(final') <= (next + 1) * (1 + each) - each
        BY <2>2, <2>3, <2>5, <2>6, <2>7
      <3> QED BY <1>1, <1>5, <2>1, <2>4, <3>1
    <2>9. \A i \in DOMAIN leaves' : Len(i) <= MaxRequeues + 1
      <3>1. \A i \in DOMAIN leaves : Len(i) <= MaxRequeues + 1
        BY <1>1 DEF BudgetInv
      <3>2. Len(id) <= MaxRequeues + 1
        BY <1>3, <1>9
      <3> QED BY <1>6, <3>1, <3>2
    <2>10. \A i \in DOMAIN pending' : Len(pending'[i].id) + left' <= MaxRequeues + 1
      <3> PICK one : one = <<r>>
        OBVIOUS
      <3>1. DOMAIN one = {1} /\ one[1] = r /\ r.id = id /\ pending' = one
        BY <1>5 DEF Request
      <3>2. 1 + left' <= MaxRequeues + 1
        BY <1>5, <1>9
      <3>3. \A i \in DOMAIN one : one[i].id = id
        BY <3>1
      <3> QED BY <1>3, <3>1, <3>2, <3>3
    <2> QED BY <2>8, <2>9, <2>10 DEF BudgetInv, Growth
  <1>18. UNCHANGED Cover!vars
    <2>1. Decided' = Decided
      BY <1>5 DEF Decided
    <2> QED BY <1>5, <2>1 DEF Cover!vars, Abstract
  <1> QED BY <1>10, <1>11, <1>12, <1>13, <1>14, <1>15, <1>16, <1>17, <1>18 DEF PipelineInv, TreeInv

\* The run ends, and all it has done stays.
LEMMA EndKeeps ==
  ASSUME PipelineInv, phase' \in {"done", "failed"},
         phase' = "done" => pending = <<>> /\ batch = <<>> /\ next = Len(Plan),
         UNCHANGED <<mask, mode, next, pending, left, batch, ledgers>>
  PROVE  PipelineInv'
  <1>1. /\ UNCHANGED <<mask, mode, next, pending, left, batch>>
        /\ UNCHANGED <<leaves, final, latest, union, written, touched>>
    BY DEF ledgers
  <1>2. PipelineTypes'
    BY <1>1 DEF PipelineInv, TreeInv, PipelineTypes, Plan
  <1>3. WorkInv'
    <2>1. Queue(pending)' = Queue(pending) /\ Queue(batch)' = Queue(batch)
      BY <1>1 DEF Queue
    <2>2. IdsOf(pending)' = IdsOf(pending) /\ IdsOf(batch)' = IdsOf(batch)
      BY <1>1 DEF IdsOf
    <2>3. phase' = "done" => pending' = <<>> /\ batch' = <<>> /\ next' = Len(Plan)
      BY <1>1
    <2>4. WorkInv
      BY DEF PipelineInv, TreeInv
    <2> QED BY <1>1, <2>1, <2>2, <2>3, <2>4 DEF WorkInv, Plan
  <1>4. Started' = Started /\ Sessions' = Sessions
    BY <1>1 DEF Started, Plan, Sessions
  <1>5. FreshInv' /\ CoverInv' /\ SeenInv' /\ UnionInv'
    BY <1>1, <1>4 DEF PipelineInv, TreeInv, FreshInv, CoverInv, SeenInv, UnionInv
  <1>6. VerdictInv'
    BY <1>1, <1>4 DEF PipelineInv, VerdictInv
  <1>7. BudgetInv'
    BY <1>1 DEF PipelineInv, BudgetInv, Growth
  <1> QED BY <1>2, <1>3, <1>5, <1>6, <1>7 DEF PipelineInv, TreeInv

\* When the plan is through and nothing waits, the leaves that were committed are all final
\* ones, and they have the pixels of the chip.
LEMMA AllIsCommitted ==
  ASSUME TreeInv, pending = <<>>, batch = <<>>, next = Len(Plan)
  PROVE  /\ final = DOMAIN written /\ final # {} /\ Decided = Chip /\ TotalCoverage
  <1>1. final = DOMAIN written
    <2>1. IdsOf(pending) = {} /\ IdsOf(batch) = {}
      BY Queues
    <2> QED BY <2>1 DEF TreeInv, WorkInv
  <1>2. UNION {Pixels(leaves[id].core) : id \in final} = Chip
    BY PlanTiles DEF TreeInv, CoverInv, Started
  <1>3. Decided = Chip
    <2>1. \A id \in DOMAIN written : written[id] = leaves[id].core
      BY DEF TreeInv, WorkInv
    <2>2. {Pixels(written[id]) : id \in DOMAIN written} = {Pixels(leaves[id].core) : id \in final}
      BY <1>1, <2>1
    <2> QED BY <1>2, <2>2 DEF Decided
  <1>4. final # {}
    BY <1>2, PlanTiles
  <1>5. \A id \in final : leaves[id].terminal # "none"
    BY <1>1 DEF TreeInv, WorkInv
  <1>6. SumFunction([id \in final |-> Area(leaves[id].core)]) = Width * Height
    <2>0. PICK core : core = [id \in final |-> leaves[id].core]
      OBVIOUS
    <2>1. core \in [final -> Boxes] /\ \A id \in final : core[id] = leaves[id].core
      BY <2>0, LeavesAreApart
    <2>2. \A x, y \in final : x # y => Pixels(core[x]) \cap Pixels(core[y]) = {}
      BY <2>1 DEF TreeInv, CoverInv
    <2>3. IsFiniteSet(final)
      BY DEF TreeInv, PipelineTypes
    <2>4. SumFunction([id \in final |-> Area(core[id])]) = Cardinality(UNION {Pixels(core[id]) : id \in final})
      <3>0. PICK S : S = final
        OBVIOUS
      <3>1. /\ IsFiniteSet(S) /\ core \in [S -> Boxes]
            /\ \A x, y \in S : x # y => Pixels(core[x]) \cap Pixels(core[y]) = {}
        BY <2>1, <2>2, <2>3, <3>0
      <3>2. SumFunction([x \in S |-> Area(core[x])]) = Cardinality(UNION {Pixels(core[x]) : x \in S})
        BY <3>1, AreasAddUp
      <3> QED BY <3>0, <3>2
    <2>5. /\ [id \in final |-> Area(core[id])] = [id \in final |-> Area(leaves[id].core)]
          /\ {Pixels(core[id]) : id \in final} = {Pixels(leaves[id].core) : id \in final}
      BY <2>1
    <2> QED BY <1>2, <2>4, <2>5, PlanTiles
  <1> QED BY <1>1, <1>3, <1>4, <1>5, <1>6 DEF TotalCoverage

\* The coverage check accepts, and ChipCover finishes.
LEMMA FinishStep == PipelineInv /\ Finish => PipelineInv' /\ [Cover!Next]_Cover!vars
  <1> SUFFICES ASSUME PipelineInv, Finish PROVE PipelineInv' /\ [Cover!Next]_Cover!vars
    OBVIOUS
  <1>1. /\ phase = "running" /\ pending = <<>> /\ batch = <<>> /\ next = Len(Plan)
        /\ UNCHANGED <<mask, mode, next, pending, left, batch, ledgers>> /\ TreeInv
    BY DEF Finish, PlanDone, PipelineInv
  <1>2. TotalCoverage /\ Decided = Chip
    BY <1>1, AllIsCommitted
  <1>3. phase' = "done"
    BY <1>2 DEF Finish
  <1>4. PipelineInv'
    BY <1>1, <1>3, EndKeeps
  <1>5. Decided' = Decided
    BY <1>1 DEF Decided, ledgers
  <1>6. Cover!Finish
    BY <1>1, <1>2, <1>3, <1>5 DEF Cover!Finish, Abstract
  <1> QED BY <1>4, <1>6 DEF Cover!Next

\* A callback that raises ends the run without a report.
LEMMA RaiseStep == PipelineInv /\ CallbackRaises => PipelineInv' /\ [Cover!Next]_Cover!vars
  <1> SUFFICES ASSUME PipelineInv, CallbackRaises PROVE PipelineInv' /\ [Cover!Next]_Cover!vars
    OBVIOUS
  <1>1. /\ phase = "running" /\ phase' = "failed"
        /\ UNCHANGED <<mask, mode, next, pending, left, batch, ledgers>>
    BY DEF CallbackRaises
  <1>2. PipelineInv'
    BY <1>1, EndKeeps
  <1>3. Decided' = Decided
    BY <1>1 DEF Decided, ledgers
  <1>4. Cover!Abandon
    BY <1>1, <1>3 DEF Cover!Abandon, Abstract
  <1> QED BY <1>2, <1>4 DEF Cover!Next

\* A step that changes nothing.
LEMMA StutterStep == PipelineInv /\ UNCHANGED vars => PipelineInv' /\ [Cover!Next]_Cover!vars
  <1> SUFFICES ASSUME PipelineInv, UNCHANGED vars PROVE PipelineInv' /\ [Cover!Next]_Cover!vars
    OBVIOUS
  <1>1. /\ UNCHANGED <<mask, mode, next, pending, left, batch, phase>>
        /\ UNCHANGED <<leaves, final, latest, union, written, touched>>
    BY DEF vars, ledgers
  <1>2. TreeInv'
    <2>1. Queue(pending)' = Queue(pending) /\ Queue(batch)' = Queue(batch)
      BY <1>1 DEF Queue
    <2>2. IdsOf(pending)' = IdsOf(pending) /\ IdsOf(batch)' = IdsOf(batch)
      BY <1>1 DEF IdsOf
    <2>3. WorkInv'
      BY <1>1, <2>1, <2>2 DEF PipelineInv, TreeInv, WorkInv, Plan
    <2>4. PipelineTypes'
      BY <1>1 DEF PipelineInv, TreeInv, PipelineTypes, Plan
    <2>5. FreshInv' /\ CoverInv'
      BY <1>1 DEF PipelineInv, TreeInv, FreshInv, CoverInv, Started, Plan
    <2> QED BY <2>3, <2>4, <2>5 DEF TreeInv
  <1>3. SeenInv' /\ UnionInv'
    BY <1>1 DEF PipelineInv, SeenInv, UnionInv, Started, Plan
  <1>4. VerdictInv'
    BY <1>1 DEF PipelineInv, VerdictInv, Sessions
  <1>5. BudgetInv'
    BY <1>1 DEF PipelineInv, BudgetInv, Growth
  <1>6. UNCHANGED Cover!vars
    BY <1>1 DEF Cover!vars, Decided, Abstract
  <1> QED BY <1>2, <1>3, <1>4, <1>5, <1>6 DEF PipelineInv

-----------------------------------------------------------------------------
(* The invariant: a subdivision                                                *)

\* The places of a concatenation.
LEMMA Concatenated ==
  ASSUME NEW S, NEW s \in Seq(S), NEW t \in Seq(S)
  PROVE  /\ s \o t \in Seq(S) /\ Len(s) \in Nat
         /\ \A k \in DOMAIN (s \o t) :
              \/ k \in DOMAIN s /\ (s \o t)[k] = s[k]
              \/ \E i \in DOMAIN t : k = Len(s) + i /\ (s \o t)[k] = t[i]
         /\ \A k \in DOMAIN s : k \in DOMAIN (s \o t) /\ (s \o t)[k] = s[k]
         /\ \A i \in DOMAIN t : Len(s) + i \in DOMAIN (s \o t) /\ (s \o t)[Len(s) + i] = t[i]
         /\ \A i \in DOMAIN t : Len(s) + i \notin DOMAIN s
  <1> PICK u, m, n : u = s \o t /\ m = Len(s) /\ n = Len(t)
    OBVIOUS
  <1>1. /\ u \in Seq(S) /\ m \in Nat /\ n \in Nat /\ DOMAIN u = 1 .. m + n
        /\ DOMAIN s = 1 .. m /\ DOMAIN t = 1 .. n
        /\ \A k \in 1 .. m + n : u[k] = IF k <= m THEN s[k] ELSE t[k - m]
    BY ConcatProperties
  <1>2. ASSUME NEW k \in DOMAIN u
        PROVE  \/ k \in DOMAIN s /\ u[k] = s[k]
               \/ \E i \in DOMAIN t : k = m + i /\ u[k] = t[i]
    <2>1. CASE k <= m
      BY <1>1, <2>1
    <2>2. CASE k > m
      <3>1. k - m \in DOMAIN t /\ k = m + (k - m) /\ u[k] = t[k - m]
        BY <1>1, <2>2
      <3> QED BY <3>1
    <2> QED BY <1>1, <2>1, <2>2
  <1>3. \A k \in DOMAIN s : k \in DOMAIN u /\ u[k] = s[k]
    BY <1>1
  <1>4. \A i \in DOMAIN t : m + i \in DOMAIN u /\ u[m + i] = t[i] /\ m + i \notin DOMAIN s
    BY <1>1
  <1> QED BY <1>1, <1>2, <1>3, <1>4

\* The parts of the current core, and their ids.
LEMMA PartsOfCore ==
  ASSUME TreeInv, pending # <<>>, NEW cores, cores = PartitionCore(Current.core, Subdivision)
  PROVE  /\ cores \in Seq(Boxes) /\ DOMAIN cores = 1 .. Len(cores) /\ Len(cores) \in Nat
         /\ Len(cores) <= Subdivision * Subdivision
         /\ CheckPartition(Current.core, cores) /\ Apart(cores)
         /\ UNION {Pixels(cores[i]) : i \in DOMAIN cores} = Pixels(Current.core)
         /\ \A i \in DOMAIN cores : /\ cores[i] \in Boxes /\ Covers(Current.core, cores[i])
                                    /\ Pixels(cores[i]) \subseteq Pixels(Current.core)
  <1>1. Current.core \in Boxes
    BY CurrentTile DEF Requests
  <1>2. Subdivision \in Nat \ {0}
    BY PipelineAssumption
  <1>3. /\ Tiles(cores, Current.core) /\ cores \in Seq(Boxes) /\ CheckPartition(Current.core, cores)
        /\ Len(cores) <= Subdivision * Subdivision
    BY <1>1, <1>2, PartitionTiles, SplitConserves
  <1>4. DOMAIN cores = 1 .. Len(cores) /\ Len(cores) \in Nat
    BY <1>3
  <1>5. Apart(cores)
    BY <1>3 DEF Tiles, Apart
  <1>6. UNION {Pixels(cores[i]) : i \in DOMAIN cores} = Pixels(Current.core)
    BY <1>1, <1>3, TilesTogether
  <1>7. \A i \in DOMAIN cores : /\ cores[i] \in Boxes /\ Covers(Current.core, cores[i])
                                /\ Pixels(cores[i]) \subseteq Pixels(Current.core)
    BY <1>1, <1>3, CoversPixels DEF Tiles
  <1> QED BY <1>3, <1>4, <1>5, <1>6, <1>7

\* The children have ids that no leaf has.
LEMMA IdsOfChildren ==
  ASSUME TreeInv, pending # <<>>, NEW cores, cores = PartitionCore(Current.core, Subdivision)
  PROVE  /\ ChildIds(Current) = {Append(Current.id, i) : i \in DOMAIN cores}
         /\ ChildIds(Current) \cap DOMAIN leaves = {} /\ Current.id \notin ChildIds(Current)
         /\ \A i \in DOMAIN cores :
              /\ Append(Current.id, i) \in Seq(Nat) /\ Append(Current.id, i) # <<>>
              /\ Front(Append(Current.id, i)) = Current.id /\ Last(Append(Current.id, i)) = i
              /\ Append(Current.id, i)[1] \in 1 .. next
              /\ Len(Append(Current.id, i)) = Len(Current.id) + 1
              /\ CoreOfChild(Current, Append(Current.id, i)) = cores[i]
         /\ IsFiniteSet(ChildIds(Current)) /\ Cardinality(ChildIds(Current)) <= Len(cores)
  <1> PICK id : id = Current.id
    OBVIOUS
  <1>1. id \in final /\ id \in DOMAIN leaves /\ id \in Seq(Nat) /\ id # <<>> /\ id[1] \in 1 .. next
    BY CurrentTile DEF TreeInv, PipelineTypes, FreshInv
  <1>2. DOMAIN cores = 1 .. Len(cores) /\ Len(cores) \in Nat
    BY PartsOfCore
  <1>3. ASSUME NEW i \in DOMAIN cores
        PROVE  /\ Append(id, i) \in Seq(Nat) /\ Append(id, i) # <<>>
               /\ Front(Append(id, i)) = id /\ Last(Append(id, i)) = i
               /\ Append(id, i)[1] \in 1 .. next /\ Len(Append(id, i)) = Len(id) + 1
               /\ Append(id, i) \notin DOMAIN leaves
    <2>1. i \in Nat
      BY <1>2
    <2>2. /\ Append(id, i) \in Seq(Nat) /\ Append(id, i) # <<>>
          /\ Front(Append(id, i)) = id /\ Last(Append(id, i)) = i
          /\ Append(id, i)[1] = id[1] /\ Len(Append(id, i)) = Len(id) + 1
      BY <1>1, <2>1, ChildId
    <2>3. Len(Append(id, i)) > 1
      <3>1. Len(id) \in Nat \ {0}
        BY <1>1
      <3> QED BY <2>2, <3>1
    <2>4. Append(id, i) \notin DOMAIN leaves
      BY <1>1, <2>2, <2>3 DEF TreeInv, FreshInv
    <2> QED BY <1>1, <2>2, <2>4
  <1>4. ChildIds(Current) = {Append(id, i) : i \in DOMAIN cores}
    BY DEF ChildIds
  <1>5. \A i \in DOMAIN cores : CoreOfChild(Current, Append(id, i)) = cores[i]
    BY <1>3 DEF CoreOfChild
  <1>6. IsFiniteSet(ChildIds(Current)) /\ Cardinality(ChildIds(Current)) <= Len(cores)
    <2>1. IsFiniteSet(1 .. Len(cores)) /\ Cardinality(1 .. Len(cores)) = Len(cores)
      <3>1. 1 \in Int /\ Len(cores) \in Int
        BY <1>2
      <3>2. /\ IsFiniteSet(1 .. Len(cores))
            /\ Cardinality(1 .. Len(cores)) = IF 1 > Len(cores) THEN 0 ELSE Len(cores) - 1 + 1
        BY ONLY <3>1, FS_Interval
      <3> QED BY <1>2, <3>2
    <2>2. PICK f : f = [i \in 1 .. Len(cores) |-> Append(id, i)]
      OBVIOUS
    <2>3. f \in Surjection(1 .. Len(cores), ChildIds(Current))
      BY <1>2, <1>4, <2>2 DEF Surjection
    <2> QED BY <2>1, <2>3, FS_Surjection
  <1>7. ChildIds(Current) \cap DOMAIN leaves = {} /\ id \notin ChildIds(Current)
    <2>1. \A i \in DOMAIN cores : Append(id, i) \notin DOMAIN leaves
      BY <1>3
    <2>2. \A c \in ChildIds(Current) : c \notin DOMAIN leaves
      BY <1>4, <2>1
    <2> QED BY <1>1, <2>2
  <1> QED BY <1>3, <1>4, <1>5, <1>6, <1>7

\* What a subdivision does to the tree and the stack.
LEMMA SplitEffect ==
  ASSUME TreeInv, SplitTile, NEW cores, cores = PartitionCore(Current.core, Subdivision)
  PROVE  /\ phase = "running" /\ pending # <<>> /\ phase' = phase /\ Refine("subdivide")
         /\ UNCHANGED <<mode, next, batch, written>>
         /\ final' = (final \ {Current.id}) \cup ChildIds(Current)
         /\ pending' = Front(pending) \o
              [i \in DOMAIN cores |-> Request(Append(Current.id, i), cores[i], HaloOf(Current))]
         /\ leaves' \in [DOMAIN leaves -> Leaves]' /\ DOMAIN leaves' = DOMAIN leaves \cup ChildIds(Current)
         /\ \A i \in DOMAIN leaves \ {Current.id} : leaves'[i] = leaves[i]
         /\ \A i \in DOMAIN cores : leaves'[Append(Current.id, i)] = Leaf(cores[i], TRUE)
  <1> PICK id, kids : id = Current.id /\ kids = ChildIds(Current)
    OBVIOUS
  <1>1. /\ phase = "running" /\ pending # <<>> /\ Refine("subdivide")
        /\ UNCHANGED <<mode, next, batch, written>>
    BY DEF SplitTile, Verify, Busy
  <1>2. id \in final /\ id \in DOMAIN leaves /\ id \in DOMAIN leaves \ kids
    BY <1>1, CurrentTile, IdsOfChildren DEF TreeInv, PipelineTypes
  <1>3. CheckPartition(Current.core, cores) /\ \A i \in DOMAIN cores : cores[i] \in Boxes
    BY <1>1, PartsOfCore
  <1>4. /\ kids = {Append(id, i) : i \in DOMAIN cores} /\ kids \cap DOMAIN leaves = {}
        /\ \A i \in DOMAIN cores : CoreOfChild(Current, Append(id, i)) = cores[i]
    BY <1>1, IdsOfChildren
  <1>5. /\ leaves' = Owned(Current) /\ final' = (final \ {id}) \cup kids
        /\ pending' = Front(pending) \o
             [i \in DOMAIN cores |-> Request(Append(id, i), cores[i], HaloOf(Current))]
        /\ phase' = IF /\ id \in final /\ CheckPartition(Current.core, cores)
                       /\ kids \cap DOMAIN leaves = {}
                    THEN phase ELSE "rejected"
    BY DEF SplitTile
  <1>6. phase' = phase
    BY <1>2, <1>3, <1>4, <1>5
  <1>7. leaves' = [i \in DOMAIN leaves \cup kids |->
                     CASE i \in kids -> Leaf(CoreOfChild(Current, i), TRUE)
                       [] i = id     -> [leaves[i] EXCEPT !.seen = TRUE]
                       [] OTHER      -> leaves[i]]
    BY <1>5 DEF Owned
  <1>8. DOMAIN leaves' = DOMAIN leaves \cup kids
    BY <1>7
  <1>9. \A i \in DOMAIN leaves \ {id} : leaves'[i] = leaves[i]
    BY <1>4, <1>7
  <1>10. leaves'[id] = [leaves[id] EXCEPT !.seen = TRUE]
    BY <1>2, <1>7
  <1>11. \A i \in kids : leaves'[i] = Leaf(CoreOfChild(Current, i), TRUE)
    <2> SUFFICES ASSUME NEW i \in kids PROVE leaves'[i] = Leaf(CoreOfChild(Current, i), TRUE)
      OBVIOUS
    <2>1. leaves'[i] = CASE i \in kids -> Leaf(CoreOfChild(Current, i), TRUE)
                         [] i = id     -> [leaves[i] EXCEPT !.seen = TRUE]
                         [] OTHER      -> leaves[i]
      BY <1>7
    <2>2. i # id
      BY <1>2
    <2> QED BY <2>1, <2>2
  <1>12. \A i \in DOMAIN cores : leaves'[Append(id, i)] = Leaf(cores[i], TRUE)
    BY <1>4, <1>11
  <1>13. \A i \in DOMAIN leaves' : leaves'[i] \in Leaves
    <2>1. \A i \in DOMAIN leaves : leaves[i] \in Leaves
      BY DEF TreeInv, PipelineTypes
    <2>2. leaves'[id] \in Leaves
      BY <1>2, <1>10, <2>1 DEF Leaves
    <2>3. \A i \in DOMAIN cores : leaves'[Append(id, i)] \in Leaves
      <3>1. \A i \in DOMAIN cores : Leaf(cores[i], TRUE) \in Leaves
        BY <1>3 DEF Leaf, Leaves
      <3> QED BY <1>12, <3>1
    <2>4. \A i \in kids : leaves'[i] \in Leaves
      BY <1>4, <2>3
    <2> QED BY <1>8, <1>9, <2>1, <2>2, <2>4
  <1>14. leaves' \in [DOMAIN leaves -> Leaves]'
    BY <1>7, <1>13
  <1> QED BY <1>1, <1>5, <1>6, <1>8, <1>9, <1>12, <1>14

\* The children are final instead of their parent, and wait instead of it.
LEMMA SplitKeepsWork ==
  ASSUME TreeInv, SplitTile
  PROVE  WorkInv' /\ FreshInv'
  <1>1. PICK id, kids, cores, front, tail :
          /\ id = Current.id /\ kids = ChildIds(Current)
          /\ cores = PartitionCore(Current.core, Subdivision) /\ front = Front(pending)
          /\ tail = [i \in DOMAIN cores |-> Request(Append(id, i), cores[i], HaloOf(Current))]
    OBVIOUS
  <1>2. /\ phase = "running" /\ pending # <<>> /\ phase' = phase
        /\ UNCHANGED <<mode, next, batch, written>>
        /\ final' = (final \ {id}) \cup kids /\ pending' = front \o tail
        /\ DOMAIN leaves' = DOMAIN leaves \cup kids
        /\ \A i \in DOMAIN leaves \ {id} : leaves'[i] = leaves[i]
        /\ \A i \in DOMAIN cores : leaves'[Append(id, i)] = Leaf(cores[i], TRUE)
    BY <1>1, SplitEffect
  <1>3. /\ Current \in Requests /\ id \in final \ DOMAIN written
        /\ Queue(front) /\ IdsOf(pending) = IdsOf(front) \cup {id}
        /\ id \notin IdsOf(front) /\ id \notin IdsOf(batch)
    BY <1>1, <1>2, CurrentTile
  <1>4. /\ cores \in Seq(Boxes) /\ DOMAIN cores = 1 .. Len(cores) /\ Len(cores) \in Nat
        /\ \A i \in DOMAIN cores : cores[i] \in Boxes
    BY <1>1, <1>2, PartsOfCore
  <1>5. /\ kids = {Append(id, i) : i \in DOMAIN cores} /\ kids \cap DOMAIN leaves = {}
        /\ \A i \in DOMAIN cores :
             /\ Append(id, i) \in Seq(Nat) /\ Append(id, i) # <<>>
             /\ Front(Append(id, i)) = id /\ Last(Append(id, i)) = i
             /\ Append(id, i)[1] \in 1 .. next
    BY <1>1, <1>2, IdsOfChildren
  <1>6. /\ WorkInv /\ FreshInv /\ final \subseteq DOMAIN leaves /\ DOMAIN written \subseteq final
        /\ Queue(batch) /\ IdsOf(pending) \cap IdsOf(batch) = {}
        /\ final = DOMAIN written \cup IdsOf(pending) \cup IdsOf(batch)
    BY DEF TreeInv, WorkInv, PipelineTypes
  <1>7. /\ tail \in Seq(Requests) /\ DOMAIN tail = DOMAIN cores
        /\ \A i \in DOMAIN tail : tail[i].id = Append(id, i) /\ tail[i].core = cores[i]
    <2>1. \A i \in DOMAIN cores : Request(Append(id, i), cores[i], HaloOf(Current)) \in Requests
      BY <1>3, <1>4, <1>5, HaloType, RequestType
    <2>2. DOMAIN tail = DOMAIN cores /\ \A i \in DOMAIN tail : tail[i] \in Requests
      BY <1>1, <2>1
    <2>3. tail \in Seq(Requests)
      BY <1>1, <1>4, <2>1
    <2>4. \A i \in DOMAIN tail : tail[i].id = Append(id, i) /\ tail[i].core = cores[i]
      BY <1>1 DEF Request
    <2> QED BY <2>2, <2>3, <2>4
  <1>8. IdsOf(tail) = kids
    <2>1. {tail[i].id : i \in DOMAIN tail} = {Append(id, i) : i \in DOMAIN cores}
      BY <1>7
    <2> QED BY <1>5, <2>1 DEF IdsOf
  <1>9. ASSUME NEW s, Queue(s), id \notin IdsOf(s)
        PROVE  /\ s \in Seq(Requests) /\ IdsOf(s) \cap kids = {}
               /\ \A i \in DOMAIN s : /\ s[i].id \in final' \ DOMAIN written'
                                      /\ s[i].core = leaves'[s[i].id].core
               /\ \A i, j \in DOMAIN s : s[i].id = s[j].id => i = j
    <2>1. s \in Seq(Requests) /\ \A i, j \in DOMAIN s : s[i].id = s[j].id => i = j
      BY <1>9 DEF Queue
    <2>2. \A i \in DOMAIN s : /\ s[i].id \in final \ DOMAIN written /\ s[i].id # id
                              /\ s[i].core = leaves[s[i].id].core
      BY <1>9 DEF Queue, IdsOf
    <2>3. IdsOf(s) \cap kids = {}
      BY <1>5, <1>6, <2>2 DEF IdsOf
    <2>4. \A i \in DOMAIN s : leaves'[s[i].id] = leaves[s[i].id]
      BY <1>2, <1>6, <2>2
    <2> QED BY <1>2, <2>1, <2>2, <2>3, <2>4
  <1>10. IdsOf(front) \cap kids = {} /\ IdsOf(batch) \cap kids = {}
    BY <1>3, <1>6, <1>9
  <1>11. Queue(batch)' /\ IdsOf(batch)' = IdsOf(batch)
    <2>1. Queue(batch)'
      BY <1>2, <1>3, <1>6, <1>9 DEF Queue
    <2> QED BY <1>2, <2>1 DEF IdsOf
  <1>12. Queue(pending)' /\ IdsOf(pending)' = IdsOf(front) \cup kids
    <2>1. PICK u, m : u = front \o tail /\ m = Len(front)
      OBVIOUS
    <2>2. front \in Seq(Requests)
      BY <1>3 DEF Queue
    <2>3. /\ u \in Seq(Requests)
          /\ \A k \in DOMAIN u : \/ k \in DOMAIN front /\ u[k] = front[k]
                                 \/ \E i \in DOMAIN tail : k = m + i /\ u[k] = tail[i]
          /\ \A k \in DOMAIN front : k \in DOMAIN u /\ u[k] = front[k]
          /\ \A i \in DOMAIN tail : m + i \in DOMAIN u /\ u[m + i] = tail[i]
      <3>1. tail \in Seq(Requests)
        BY <1>7
      <3>2. /\ front \o tail \in Seq(Requests)
            /\ \A k \in DOMAIN (front \o tail) :
                 \/ k \in DOMAIN front /\ (front \o tail)[k] = front[k]
                 \/ \E i \in DOMAIN tail : k = Len(front) + i /\ (front \o tail)[k] = tail[i]
            /\ \A k \in DOMAIN front : k \in DOMAIN (front \o tail) /\ (front \o tail)[k] = front[k]
            /\ \A i \in DOMAIN tail :
                 Len(front) + i \in DOMAIN (front \o tail) /\ (front \o tail)[Len(front) + i] = tail[i]
        BY <2>2, <3>1, Concatenated
      <3> QED BY <2>1, <3>2, Zenon
    <2>4. /\ \A i \in DOMAIN front : /\ front[i].id \in final' \ DOMAIN written'
                                     /\ front[i].core = leaves'[front[i].id].core
                                     /\ front[i].id \notin kids
          /\ \A i, j \in DOMAIN front : front[i].id = front[j].id => i = j
      BY <1>3, <1>9 DEF IdsOf
    <2>5. \A i \in DOMAIN tail : /\ tail[i].id \in final' \ DOMAIN written'
                                 /\ tail[i].core = leaves'[tail[i].id].core
                                 /\ tail[i].id \in kids
      <3> SUFFICES ASSUME NEW i \in DOMAIN tail
                   PROVE  /\ tail[i].id \in final' \ DOMAIN written' /\ tail[i].id \in kids
                          /\ tail[i].core = leaves'[tail[i].id].core
        OBVIOUS
      <3>1. tail[i].id = Append(id, i) /\ tail[i].core = cores[i] /\ Append(id, i) \in kids
        BY <1>5, <1>7
      <3>2. Append(id, i) \in final' /\ Append(id, i) \notin DOMAIN written'
        BY <1>2, <1>5, <1>6, <3>1
      <3>3. leaves'[Append(id, i)].core = cores[i]
        <4>1. leaves'[Append(id, i)] = Leaf(cores[i], TRUE)
          BY <1>2, <1>7
        <4> QED BY <4>1 DEF Leaf
      <3> QED BY <3>1, <3>2, <3>3
    <2>6. \A i, j \in DOMAIN tail : tail[i].id = tail[j].id => i = j
      <3> SUFFICES ASSUME NEW i \in DOMAIN tail, NEW j \in DOMAIN tail, tail[i].id = tail[j].id
                   PROVE  i = j
        OBVIOUS
      <3>1. Append(id, i) = Append(id, j)
        BY <1>7
      <3>2. Last(Append(id, i)) = i /\ Last(Append(id, j)) = j
        BY <1>5, <1>7
      <3> QED BY <3>1, <3>2
    <2>7. \A k \in DOMAIN u : /\ u[k].id \in final' \ DOMAIN written'
                              /\ u[k].core = leaves'[u[k].id].core
      BY <2>3, <2>4, <2>5
    <2>8. \A k, l \in DOMAIN u : u[k].id = u[l].id => k = l
      <3> SUFFICES ASSUME NEW k \in DOMAIN u, NEW l \in DOMAIN u, u[k].id = u[l].id PROVE k = l
        OBVIOUS
      <3>1. CASE k \in DOMAIN front /\ u[k] = front[k]
        <4>1. u[l].id \notin kids
          BY <2>4, <3>1
        <4>2. l \in DOMAIN front /\ u[l] = front[l]
          BY <2>3, <2>5, <4>1
        <4> QED BY <2>4, <3>1, <4>2
      <3>2. ASSUME NEW i \in DOMAIN tail, k = m + i, u[k] = tail[i] PROVE k = l
        <4>1. u[l].id \in kids
          BY <2>5, <3>2
        <4>2. PICK j \in DOMAIN tail : l = m + j /\ u[l] = tail[j]
          BY <2>3, <2>4, <4>1
        <4>3. i = j
          BY <2>6, <3>2, <4>2
        <4> QED BY <3>2, <4>2, <4>3
      <3> QED BY <2>3, <3>1, <3>2
    <2>9. IdsOf(u) = IdsOf(front) \cup IdsOf(tail)
      <3>1. \A k \in DOMAIN u : u[k].id \in IdsOf(front) \cup IdsOf(tail)
        BY <2>3 DEF IdsOf
      <3>2. \A k \in DOMAIN front : front[k].id \in IdsOf(u)
        BY <2>3 DEF IdsOf
      <3>3. \A k \in DOMAIN tail : tail[k].id \in IdsOf(u)
        BY <2>3 DEF IdsOf
      <3> QED BY <3>1, <3>2, <3>3 DEF IdsOf
    <2>10. pending' = u
      BY <1>2, <2>1
    <2>11. Queue(pending)'
      BY <2>3, <2>7, <2>8, <2>10 DEF Queue
    <2>12. IdsOf(pending)' = IdsOf(u)
      BY <2>10 DEF IdsOf
    <2> QED BY <1>8, <2>9, <2>11, <2>12
  <1>13. WorkInv'
    <2>1. (IdsOf(front) \cup kids) \cap IdsOf(batch) = {}
      BY <1>3, <1>6, <1>10
    <2>2. final' = DOMAIN written' \cup (IdsOf(front) \cup kids) \cup IdsOf(batch)
      BY <1>2, <1>3, <1>6
    <2>3. written' = [i \in DOMAIN written' |-> leaves'[i].core]
      <3>1. \A i \in DOMAIN written : i \in DOMAIN leaves \ {id}
        BY <1>3, <1>6
      <3>2. \A i \in DOMAIN written : leaves'[i].core = leaves[i].core
        BY <1>2, <3>1
      <3>3. written = [i \in DOMAIN written |-> leaves[i].core]
        BY <1>6 DEF WorkInv
      <3> QED BY <1>2, <3>2, <3>3
    <2>4. \A i \in final' : leaves'[i].terminal = "none" <=> i \notin DOMAIN written'
      <3>1. ASSUME NEW i \in final, i # id
            PROVE  leaves'[i].terminal = "none" <=> i \notin DOMAIN written'
        <4>1. leaves'[i] = leaves[i]
          BY <1>2, <1>6, <3>1
        <4> QED BY <1>2, <1>6, <4>1 DEF WorkInv
      <3>2. ASSUME NEW i \in DOMAIN cores
            PROVE  leaves'[Append(id, i)].terminal = "none" /\ Append(id, i) \notin DOMAIN written'
        <4>1. Append(id, i) \notin DOMAIN leaves
          BY <1>5
        <4>2. Append(id, i) \notin DOMAIN written'
          BY <1>2, <1>6, <4>1
        <4>3. leaves'[Append(id, i)] = Leaf(cores[i], TRUE)
          BY <1>2
        <4> QED BY <4>2, <4>3 DEF Leaf
      <3>3. \A i \in final' : (i \in final /\ i # id) \/ \E k \in DOMAIN cores : i = Append(id, k)
        BY <1>2, <1>5
      <3> QED BY ONLY <3>1, <3>2, <3>3
    <2>5. phase' # "done"
      BY <1>2
    <2> QED BY <1>11, <1>12, <2>1, <2>2, <2>3, <2>4, <2>5 DEF WorkInv
  <1>14. FreshInv'
    <2> SUFFICES ASSUME NEW i \in DOMAIN leaves'
                 PROVE  /\ i \in Seq(Nat) /\ i # <<>> /\ i[1] \in 1 .. next'
                        /\ Len(i) > 1 => Front(i) \in DOMAIN leaves' \ final'
      BY DEF FreshInv
    <2>1. CASE i \in DOMAIN leaves
      <3>1. /\ i \in Seq(Nat) /\ i # <<>> /\ i[1] \in 1 .. next
            /\ Len(i) > 1 => Front(i) \in DOMAIN leaves \ final
        BY <1>6, <2>1 DEF FreshInv
      <3> QED BY <1>2, <1>5, <3>1
    <2>2. CASE i \in kids
      <3>1. PICK k \in DOMAIN cores : i = Append(id, k)
        BY <1>5, <2>2
      <3>2. id \in DOMAIN leaves /\ id \notin final'
        BY <1>2, <1>3, <1>5, <1>6
      <3> QED BY <1>2, <1>5, <3>1, <3>2
    <2> QED BY <1>2, <2>1, <2>2
  <1> QED BY <1>13, <1>14

\* The final leaves once leaf id is split into cores.
IsSplitInto(id, cores) ==
  /\ \A i \in final \ {id} : i \in final' /\ i \in DOMAIN leaves /\ leaves'[i] = leaves[i]
  /\ \A k \in DOMAIN cores : /\ Append(id, k) \in final'
                             /\ leaves'[Append(id, k)].core = cores[k]
                             /\ leaves'[Append(id, k)].seen = TRUE
  /\ \A i \in final' : i \in final \ {id} \/ \E k \in DOMAIN cores : i = Append(id, k)

\* What the final leaves are after a subdivision.
LEMMA SplitLeaves ==
  ASSUME TreeInv, SplitTile
  PROVE  IsSplitInto(Current.id, PartitionCore(Current.core, Subdivision))
  <1>1. PICK id, cores, kids :
          /\ id = Current.id /\ cores = PartitionCore(Current.core, Subdivision)
          /\ kids = ChildIds(Current)
    OBVIOUS
  <1>2. /\ pending # <<>> /\ final' = (final \ {id}) \cup kids
        /\ \A i \in DOMAIN leaves \ {id} : leaves'[i] = leaves[i]
        /\ \A i \in DOMAIN cores : leaves'[Append(id, i)] = Leaf(cores[i], TRUE)
    BY <1>1, SplitEffect
  <1>3. kids = {Append(id, i) : i \in DOMAIN cores}
    BY <1>1, <1>2, IdsOfChildren
  <1>4. final \subseteq DOMAIN leaves
    BY DEF TreeInv, PipelineTypes
  <1>5. ASSUME NEW k \in DOMAIN cores
        PROVE  leaves'[Append(id, k)].core = cores[k] /\ leaves'[Append(id, k)].seen = TRUE
    <2>1. leaves'[Append(id, k)] = Leaf(cores[k], TRUE)
      BY <1>2
    <2> QED BY <2>1 DEF Leaf
  <1>6. \A i \in final \ {id} : i \in final' /\ i \in DOMAIN leaves /\ leaves'[i] = leaves[i]
    BY <1>2, <1>4
  <1>7. \A k \in DOMAIN cores : Append(id, k) \in final'
    BY <1>2, <1>3
  <1>8. \A i \in final' : i \in final \ {id} \/ \E k \in DOMAIN cores : i = Append(id, k)
    BY <1>2, <1>3
  <1>9. IsSplitInto(id, cores)
    BY <1>5, <1>6, <1>7, <1>8 DEF IsSplitInto
  <1> QED BY <1>1, <1>9

\* The children have the pixels of their parent, each of them one of them.
LEMMA SplitKeepsCover ==
  ASSUME TreeInv, SplitTile
  PROVE  CoverInv'
  <1>1. PICK id, core, cores : /\ id = Current.id /\ core = Current.core
                               /\ cores = PartitionCore(Current.core, Subdivision)
    OBVIOUS
  <1>2. pending # <<>> /\ next' = next
    BY <1>1, SplitEffect
  <1>3. /\ \A i \in final \ {id} : i \in final' /\ leaves'[i] = leaves[i]
        /\ \A k \in DOMAIN cores : /\ Append(id, k) \in final'
                                   /\ leaves'[Append(id, k)].core = cores[k]
        /\ \A i \in final' : i \in final \ {id} \/ \E k \in DOMAIN cores : i = Append(id, k)
    <2>1. IsSplitInto(id, cores)
      BY <1>1, SplitLeaves
    <2> QED BY <2>1 DEF IsSplitInto
  <1>4. id \in final /\ core = leaves[id].core
    BY <1>1, <1>2, CurrentTile
  <1>5. /\ UNION {Pixels(cores[k]) : k \in DOMAIN cores} = Pixels(core) /\ Apart(cores)
        /\ \A k \in DOMAIN cores : Pixels(cores[k]) \subseteq Pixels(core)
    BY <1>1, <1>2, PartsOfCore
  <1>6. Started' = Started
    BY <1>2 DEF Started, Plan
  <1>7. /\ UNION {Pixels(leaves[i].core) : i \in final} = Started
        /\ \A a, b \in final : a # b => Pixels(leaves[a].core) \cap Pixels(leaves[b].core) = {}
    BY DEF TreeInv, CoverInv
  <1>8. UNION {Pixels(leaves'[i].core) : i \in final'} = Started
    <2>1. ASSUME NEW p \in Started
          PROVE  \E i \in final' : p \in Pixels(leaves'[i].core)
      <3>1. PICK i \in final : p \in Pixels(leaves[i].core)
        BY <1>7
      <3>2. CASE i # id
        BY <1>3, <3>1, <3>2
      <3>3. CASE i = id
        <4>1. PICK k \in DOMAIN cores : p \in Pixels(cores[k])
          BY <1>4, <1>5, <3>1, <3>3
        <4> QED BY <1>3, <4>1
      <3> QED BY <3>2, <3>3
    <2>2. ASSUME NEW i \in final' PROVE Pixels(leaves'[i].core) \subseteq Started
      <3>1. CASE i \in final \ {id}
        BY <1>3, <1>7, <3>1
      <3>2. ASSUME NEW k \in DOMAIN cores, i = Append(id, k)
            PROVE  Pixels(leaves'[i].core) \subseteq Started
        <4>1. Pixels(leaves'[i].core) \subseteq Pixels(core)
          BY <1>3, <1>5, <3>2
        <4>2. Pixels(core) \subseteq Started
          BY <1>4, <1>7
        <4> QED BY <4>1, <4>2
      <3> QED BY <1>3, <3>1, <3>2
    <2> QED BY <2>1, <2>2
  <1>9. ASSUME NEW a \in final', NEW b \in final', a # b
        PROVE  Pixels(leaves'[a].core) \cap Pixels(leaves'[b].core) = {}
    <2>1. ASSUME NEW i \in final \ {id}, NEW k \in DOMAIN cores
          PROVE  Pixels(leaves'[i].core) \cap Pixels(leaves'[Append(id, k)].core) = {}
      <3>1. Pixels(leaves[i].core) \cap Pixels(core) = {}
        BY <1>4, <1>7
      <3>2. Pixels(cores[k]) \subseteq Pixels(core)
        BY <1>5
      <3> QED BY <1>3, <3>1, <3>2
    <2>2. CASE a \in final \ {id} /\ b \in final \ {id}
      BY <1>3, <1>7, <1>9, <2>2
    <2>3. ASSUME NEW k \in DOMAIN cores, b = Append(id, k), a \in final \ {id}
          PROVE  Pixels(leaves'[a].core) \cap Pixels(leaves'[b].core) = {}
      BY <2>1, <2>3
    <2>4. ASSUME NEW k \in DOMAIN cores, a = Append(id, k), b \in final \ {id}
          PROVE  Pixels(leaves'[a].core) \cap Pixels(leaves'[b].core) = {}
      <3>1. Pixels(leaves'[b].core) \cap Pixels(leaves'[a].core) = {}
        BY <2>1, <2>4
      <3> QED BY <3>1
    <2>5. ASSUME NEW k \in DOMAIN cores, NEW l \in DOMAIN cores, a = Append(id, k), b = Append(id, l)
          PROVE  Pixels(leaves'[a].core) \cap Pixels(leaves'[b].core) = {}
      <3>1. k # l
        BY <1>9, <2>5
      <3>2. Pixels(cores[k]) \cap Pixels(cores[l]) = {}
        BY <1>5, <3>1 DEF Apart
      <3>3. leaves'[a].core = cores[k] /\ leaves'[b].core = cores[l]
        BY <1>3, <2>5
      <3> QED BY <3>2, <3>3
    <2> QED BY <1>3, <2>2, <2>3, <2>4, <2>5
  <1> QED BY <1>6, <1>8, <1>9 DEF CoverInv

\* The children take over what was forwarded of their parent.
LEMMA SplitKeepsLedgers ==
  ASSUME TreeInv, SeenInv, UnionInv, SplitTile
  PROVE  SeenInv' /\ UnionInv'
  <1>1. PICK id, core, cores : /\ id = Current.id /\ core = Current.core
                               /\ cores = PartitionCore(Current.core, Subdivision)
    OBVIOUS
  <1>2. pending # <<>> /\ next' = next /\ Refine("subdivide")
    BY <1>1, SplitEffect
  <1>3. /\ \A i \in final \ {id} : leaves'[i] = leaves[i]
        /\ \A k \in DOMAIN cores : /\ leaves'[Append(id, k)].core = cores[k]
                                   /\ leaves'[Append(id, k)].seen = TRUE
        /\ \A i \in final' : i \in final \ {id} \/ \E k \in DOMAIN cores : i = Append(id, k)
    <2>1. IsSplitInto(id, cores)
      BY <1>1, SplitLeaves
    <2> QED BY <2>1 DEF IsSplitInto
  <1>4. id \in final /\ core = leaves[id].core /\ core \in Boxes
    BY <1>1, <1>2, CurrentTile, LeavesAreApart
  <1>5. \A k \in DOMAIN cores : /\ Pixels(cores[k]) \subseteq Pixels(core) /\ cores[k] \in Boxes
                                /\ Covers(core, cores[k])
    BY <1>1, <1>2, PartsOfCore
  <1>6. /\ Ledger(union', touched') /\ \A i \in final : Fits(union', leaves[i].core)
        /\ touched' = touched \cup Pixels(core) /\ touched' \subseteq Started
    BY <1>1, <1>2, RefineRecords
  <1>7. Started' = Started
    BY <1>2 DEF Started, Plan
  <1>8. SeenInv'
    <2>1. ASSUME NEW i \in final \ {id}
          PROVE  IF leaves[i].seen THEN Pixels(leaves[i].core) \subseteq touched'
                                   ELSE Pixels(leaves[i].core) \cap touched' = {}
      <3>1. Pixels(leaves[i].core) \cap Pixels(core) = {}
        BY <1>4, LeavesAreApart
      <3> QED BY <1>6, <3>1 DEF SeenInv
    <2>2. ASSUME NEW k \in DOMAIN cores PROVE Pixels(cores[k]) \subseteq touched'
      BY <1>5, <1>6
    <2>3. ASSUME NEW i \in final'
          PROVE  IF leaves'[i].seen THEN Pixels(leaves'[i].core) \subseteq touched'
                                    ELSE Pixels(leaves'[i].core) \cap touched' = {}
      <3>1. CASE i \in final \ {id}
        BY <1>3, <2>1, <3>1
      <3>2. ASSUME NEW k \in DOMAIN cores, i = Append(id, k)
            PROVE  leaves'[i].seen /\ Pixels(leaves'[i].core) \subseteq touched'
        BY <1>3, <2>2, <3>2
      <3> QED BY <1>3, <3>1, <3>2
    <2> QED BY <1>6, <1>7, <2>3 DEF SeenInv
  <1>9. UnionInv'
    <2>1. ASSUME NEW k \in DOMAIN cores PROVE Fits(union', cores[k])
      <3> SUFFICES ASSUME NEW b \in union'
                   PROVE  Covers(b, cores[k]) \/ Pixels(b) \cap Pixels(cores[k]) = {}
        BY DEF Fits
      <3>1. b \in Boxes
        BY <1>6 DEF Ledger
      <3>2. CASE Covers(b, core)
        BY <1>4, <1>5, <3>1, <3>2, CoversPixels
      <3>3. CASE Pixels(b) \cap Pixels(core) = {}
        BY <1>5, <3>3
      <3> QED BY <1>4, <1>6, <3>2, <3>3 DEF Fits
    <2>2. ASSUME NEW i \in final' PROVE Fits(union', leaves'[i].core)
      <3>1. CASE i \in final \ {id}
        BY <1>3, <1>6, <3>1
      <3>2. ASSUME NEW k \in DOMAIN cores, i = Append(id, k) PROVE Fits(union', leaves'[i].core)
        BY <1>3, <2>1, <3>2
      <3> QED BY <1>3, <3>1, <3>2
    <2> QED BY <1>6, <2>2 DEF UnionInv
  <1> QED BY <1>8, <1>9

\* The sessions forget the parent.
LEMMA SplitKeepsVerdicts ==
  ASSUME TreeInv, VerdictInv, SplitTile
  PROVE  VerdictInv'
  <1>1. PICK id : id = Current.id
    OBVIOUS
  <1>2. /\ pending # <<>> /\ final' = (final \ {id}) \cup ChildIds(Current)
        /\ UNCHANGED <<mode, batch, written>>
    BY <1>1, SplitEffect
  <1>3. id \notin DOMAIN written
    BY <1>1, <1>2, CurrentTile
  <1>4. PICK verdict \in [Sessions -> TileResults] : latest' = Retired(verdict, id)
    <2>1. PICK verdict \in Answers : latest' = Retired(verdict, id)
      BY <1>1 DEF SplitTile, Verify
    <2> QED BY <2>1, AnswersAreResults
  <1>5. Sessions' = Sessions
    BY <1>2 DEF Sessions
  <1>6. latest' = [v \in Sessions |-> latest'[v]]
    BY <1>4 DEF Retired
  <1>7. ASSUME NEW v \in Sessions
        PROVE  /\ latest'[v] \in [DOMAIN latest'[v] -> TileResults]
               /\ DOMAIN written \subseteq DOMAIN latest'[v] /\ DOMAIN latest'[v] \subseteq final'
    <2>1. PICK old, new, said : old = latest[v] /\ new = latest'[v] /\ said = verdict[v]
      OBVIOUS
    <2>2. /\ old \in [DOMAIN old -> TileResults] /\ said \in TileResults
          /\ DOMAIN written \subseteq DOMAIN old /\ DOMAIN old \subseteq final
      BY <1>4, <2>1 DEF VerdictInv
    <2>3. new = Without(Extend(old, id, said), id)
      BY <1>1, <1>4, <2>1 DEF Retired, Added
    <2>4. DOMAIN new = DOMAIN old \ {id} /\ \A i \in DOMAIN new : new[i] = old[i]
      BY <2>3 DEF Without, Extend
    <2>5. new = [i \in DOMAIN new |-> new[i]]
      BY <2>3 DEF Without
    <2>6. new \in [DOMAIN new -> TileResults]
      BY <2>2, <2>4, <2>5
    <2> QED BY <1>2, <1>3, <2>1, <2>2, <2>4, <2>6
  <1>8. mask' = mask
    BY DEF SplitTile
  <1> QED BY <1>2, <1>5, <1>6, <1>7, <1>8 DEF VerdictInv

\* One refinement is paid, and at most Growth leaves are added.
LEMMA SplitKeepsBudget ==
  ASSUME TreeInv, BudgetInv, SplitTile
  PROVE  IsFiniteSet(final') /\ left' \in 0 .. MaxRequeues /\ BudgetInv'
  <1>1. PICK id, kids, cores, front, tail :
          /\ id = Current.id /\ kids = ChildIds(Current)
          /\ cores = PartitionCore(Current.core, Subdivision) /\ front = Front(pending)
          /\ tail = [i \in DOMAIN cores |-> Request(Append(id, i), cores[i], HaloOf(Current))]
    OBVIOUS
  <1>2. /\ pending # <<>> /\ next' = next /\ Refine("subdivide")
        /\ final' = (final \ {id}) \cup kids /\ pending' = front \o tail
        /\ DOMAIN leaves' = DOMAIN leaves \cup kids
    BY <1>1, SplitEffect
  <1>3. /\ kids = {Append(id, i) : i \in DOMAIN cores}
        /\ \A i \in DOMAIN cores : Len(Append(id, i)) = Len(id) + 1 /\ Append(id, i) \in Seq(Nat)
        /\ IsFiniteSet(kids) /\ Cardinality(kids) <= Len(cores)
    BY <1>1, <1>2, IdsOfChildren
  <1>4. /\ Len(cores) \in Nat /\ Len(cores) <= Subdivision * Subdivision /\ cores \in Seq(Boxes)
        /\ DOMAIN cores = 1 .. Len(cores) /\ \A i \in DOMAIN cores : cores[i] \in Boxes
    BY <1>1, <1>2, PartsOfCore
  <1>5. /\ id \in final /\ id \in Seq(Nat) /\ Current \in Requests /\ Queue(front)
        /\ \A i \in DOMAIN front : i \in DOMAIN pending /\ front[i] = pending[i]
        /\ \E i \in DOMAIN pending : Current = pending[i]
    BY <1>1, <1>2, CurrentTile
  <1>6. PipelineTypes /\ IsFiniteSet(final)
    BY DEF TreeInv, PipelineTypes
  <1>7. PICK m, g, c : m = MaxRequeues /\ g = Growth /\ c = Cardinality(final)
    OBVIOUS
  <1>8. m \in Nat /\ g \in Nat /\ next \in Nat /\ left \in Nat /\ c \in Nat
    BY <1>6, <1>7, BudgetTypes
  <1>9. left > 0 /\ left' = left - 1
    BY <1>2 DEF Refine
  <1>10. left' \in 0 .. MaxRequeues
    BY <1>6, <1>7, <1>8, <1>9 DEF PipelineTypes
  <1>11. Cardinality(kids) \in Nat /\ Cardinality(kids) <= g + 1
    <2>1. Cardinality(kids) \in Nat
      BY <1>3, FS_CardinalityType
    <2>2. PICK s : s = Subdivision * Subdivision
      OBVIOUS
    <2>3. s \in Int /\ g = s - 1
      BY <1>7, <2>2, PipelineAssumption DEF Growth
    <2>4. Len(cores) <= s
      BY <1>4, <2>2
    <2> QED BY <1>3, <1>4, <2>1, <2>3, <2>4
  <1>12. IsFiniteSet(final') /\ Cardinality(final') \in Nat /\ Cardinality(final') <= c + g
    <2>1. PICK rest : rest = final \ {id}
      OBVIOUS
    <2>2. IsFiniteSet(rest) /\ Cardinality(rest) = c - 1
      BY <1>5, <1>6, <1>7, <2>1, FS_RemoveElement
    <2>3. /\ IsFiniteSet(rest \cup kids)
          /\ Cardinality(rest \cup kids) = Cardinality(rest) + Cardinality(kids) - Cardinality(rest \cap kids)
      BY <1>3, <2>2, FS_Union
    <2>4. Cardinality(rest \cap kids) \in Nat
      BY <2>2, FS_Subset, FS_CardinalityType
    <2>5. Cardinality(rest \cup kids) \in Nat
      BY <2>3, FS_CardinalityType
    <2>6. Cardinality(rest \cup kids) <= c + g
      BY <1>8, <1>11, <2>2, <2>3, <2>4
    <2> QED BY <1>2, <2>1, <2>3, <2>5, <2>6
  <1>13. Cardinality(final') <= next' * (1 + MaxRequeues * Growth) - left' * Growth
    <2>1. PICK bound, held, rest : bound = next * (1 + m * g) /\ held = left * g /\ rest = left' * g
      OBVIOUS
    <2>2. bound \in Int /\ held \in Int /\ rest \in Int
      BY <1>8, <1>9, <2>1
    <2>3. c <= bound - held
      BY <1>7, <2>1 DEF BudgetInv
    <2>4. held = rest + g
      BY <1>8, <1>9, <2>1
    <2>5. Cardinality(final') <= bound - rest
      BY <1>8, <1>12, <2>2, <2>3, <2>4
    <2> QED BY <1>2, <1>7, <2>1, <2>5
  <1>14. PICK n : n = Len(id)
    OBVIOUS
  <1>15. n \in Nat /\ n + left <= m + 1
    <2>1. n \in Nat
      BY <1>5, <1>14
    <2>2. PICK i \in DOMAIN pending : Current = pending[i]
      BY <1>5
    <2>3. Len(pending[i].id) + left <= MaxRequeues + 1
      BY DEF BudgetInv
    <2> QED BY <1>1, <1>7, <1>14, <2>1, <2>2, <2>3
  <1>16. \A i \in DOMAIN leaves' : Len(i) <= MaxRequeues + 1
    <2>1. \A i \in DOMAIN leaves : Len(i) <= MaxRequeues + 1
      BY DEF BudgetInv
    <2>2. n + 1 <= m + 1
      BY <1>8, <1>9, <1>15
    <2>3. \A i \in DOMAIN cores : Len(Append(id, i)) <= MaxRequeues + 1
      BY <1>3, <1>7, <1>14, <2>2
    <2> QED BY <1>2, <1>3, <2>1, <2>3
  <1>17. \A k \in DOMAIN pending' : Len(pending'[k].id) + left' <= MaxRequeues + 1
    <2>1. tail \in Seq(Requests)
      <3>1. \A i \in DOMAIN cores : Request(Append(id, i), cores[i], HaloOf(Current)) \in Requests
        BY <1>3, <1>4, <1>5, HaloType, RequestType
      <3> QED BY <1>1, <1>4, <3>1
    <2>2. front \in Seq(Requests)
      BY <1>5 DEF Queue
    <2>3. \A i \in DOMAIN front : Len(front[i].id) + left' <= MaxRequeues + 1
      <3> SUFFICES ASSUME NEW i \in DOMAIN front PROVE Len(front[i].id) + left' <= MaxRequeues + 1
        OBVIOUS
      <3>1. Len(pending[i].id) + left <= MaxRequeues + 1 /\ front[i] = pending[i]
        BY <1>5 DEF BudgetInv
      <3>2. front[i] \in Requests
        BY <2>2
      <3>3. PICK l : l = Len(front[i].id)
        OBVIOUS
      <3>4. l \in Nat
        BY <3>2, <3>3 DEF Requests
      <3> QED BY <1>7, <1>8, <1>9, <3>1, <3>3, <3>4
    <2>4. \A i \in DOMAIN tail : Len(tail[i].id) + left' <= MaxRequeues + 1
      <3> SUFFICES ASSUME NEW i \in DOMAIN tail PROVE Len(tail[i].id) + left' <= MaxRequeues + 1
        OBVIOUS
      <3>1. i \in DOMAIN cores /\ tail[i].id = Append(id, i)
        BY <1>1 DEF Request
      <3>2. Len(tail[i].id) = n + 1
        BY <1>3, <1>14, <3>1
      <3> QED BY <1>7, <1>8, <1>9, <1>15, <3>2
    <2>5. \A k \in DOMAIN (front \o tail) :
            \/ k \in DOMAIN front /\ (front \o tail)[k] = front[k]
            \/ \E i \in DOMAIN tail : k = Len(front) + i /\ (front \o tail)[k] = tail[i]
      BY <2>1, <2>2, Concatenated
    <2>6. PICK u : u = front \o tail
      OBVIOUS
    <2>7. \A k \in DOMAIN u : (\E i \in DOMAIN front : u[k] = front[i]) \/ \E i \in DOMAIN tail : u[k] = tail[i]
      BY <2>5, <2>6, Zenon
    <2>8. pending' = u
      BY <1>2, <2>6
    <2> QED BY <2>3, <2>4, <2>7, <2>8
  <1> QED BY <1>10, <1>12, <1>13, <1>16, <1>17 DEF BudgetInv, Growth

\* A tile is subdivided.
LEMMA SplitStep == PipelineInv /\ SplitTile => PipelineInv' /\ [Cover!Next]_Cover!vars
  <1> SUFFICES ASSUME PipelineInv, SplitTile PROVE PipelineInv' /\ [Cover!Next]_Cover!vars
    OBVIOUS
  <1>1. TreeInv /\ SeenInv /\ UnionInv /\ VerdictInv /\ BudgetInv
    BY DEF PipelineInv
  <1>2. PICK cores : cores = PartitionCore(Current.core, Subdivision)
    OBVIOUS
  <1>3. /\ pending # <<>> /\ phase' = phase /\ UNCHANGED <<mode, next, written>>
        /\ leaves' \in [DOMAIN leaves -> Leaves]' /\ DOMAIN leaves' = DOMAIN leaves \cup ChildIds(Current)
        /\ final' = (final \ {Current.id}) \cup ChildIds(Current)
    BY <1>1, <1>2, SplitEffect
  <1>4. IsFiniteSet(final') /\ left' \in 0 .. MaxRequeues /\ BudgetInv'
    BY <1>1, SplitKeepsBudget
  <1>5. PipelineTypes'
    <2>1. PipelineTypes
      BY <1>1 DEF TreeInv
    <2>2. final' \subseteq DOMAIN leaves'
      BY <1>3, <2>1 DEF PipelineTypes
    <2>3. next' \in 0 .. Len(Plan)' /\ mode' \in {"verified", "batched"}
          /\ phase' \in {"running", "done", "failed"}
      BY <1>3, <2>1 DEF PipelineTypes, Plan
    <2> QED BY <1>3, <1>4, <2>2, <2>3 DEF PipelineTypes
  <1>6. TreeInv'
    BY <1>1, <1>5, SplitKeepsWork, SplitKeepsCover DEF TreeInv
  <1>7. SeenInv' /\ UnionInv' /\ VerdictInv'
    BY <1>1, SplitKeepsLedgers, SplitKeepsVerdicts
  <1>8. UNCHANGED Cover!vars
    <2>1. Decided' = Decided
      BY <1>3 DEF Decided
    <2> QED BY <1>3, <2>1 DEF Cover!vars, Abstract
  <1> QED BY <1>4, <1>6, <1>7, <1>8 DEF PipelineInv

-----------------------------------------------------------------------------
(* The theorems                                                                *)

\* Every step keeps the invariant, and is one of ChipCover or none.
LEMMA PipelineStep == PipelineInv /\ [Next]_vars => PipelineInv' /\ [Cover!Next]_Cover!vars
  <1> SUFFICES ASSUME PipelineInv, [Next]_vars PROVE PipelineInv' /\ [Cover!Next]_Cover!vars
    OBVIOUS
  <1>1. CASE StartTile
    BY <1>1, StartStep
  <1>2. CASE SkipTile
    BY <1>2, SkipStep
  <1>3. CASE CommitTile
    BY <1>3, CommitTileStep
  <1>4. CASE GrowTile
    BY <1>4, GrowStep
  <1>5. CASE SplitTile
    BY <1>5, SplitStep
  <1>6. CASE BatchTile
    BY <1>6, BatchTileStep
  <1>7. CASE FlushRest
    BY <1>7, FlushStep
  <1>8. CASE Finish
    BY <1>8, FinishStep
  <1>9. CASE CallbackRaises
    BY <1>9, RaiseStep
  <1>10. CASE UNCHANGED vars
    BY <1>10, StutterStep
  <1> QED
    BY <1>1, <1>2, <1>3, <1>4, <1>5, <1>6, <1>7, <1>8, <1>9, <1>10 DEF Next, Step

\* The invariant holds throughout.
THEOREM PipelineInvariant == Spec => []PipelineInv
  <1>1. Init => PipelineInv
    BY PipelineInit
  <1>2. PipelineInv /\ [Next]_vars => PipelineInv'
    BY PipelineStep
  <1> QED BY <1>1, <1>2, PTL DEF Spec

\* No fail-closed check of run_streaming ever rejects what it does itself: no tile is a root
\* twice, no leaf is terminated twice, no core is written twice, every partition conserves the
\* area, and the coverage adds up at the end.
THEOREM PipelineIsAccepted == Spec => []ChecksNeverFire
  <1>1. PipelineInv => ChecksNeverFire
    BY DEF PipelineInv, TreeInv, PipelineTypes, ChecksNeverFire
  <1> QED BY <1>1, PipelineInvariant, PTL

\* The leaves of a tile, and the depth of its tree, are bounded by its refinements_left.
THEOREM BudgetIsShared == Spec => []RefinementIsBounded
  <1>1. PipelineInv => RefinementIsBounded
    <2> SUFFICES ASSUME PipelineInv PROVE RefinementIsBounded
      OBVIOUS
    <2>1. PICK m, g, c : m = MaxRequeues /\ g = Growth /\ c = Cardinality(final)
      OBVIOUS
    <2>2. m \in Nat /\ g \in Nat /\ next \in Nat /\ left \in Nat /\ c \in Nat
      BY <2>1, BudgetTypes DEF PipelineInv, TreeInv
    <2>3. PICK bound, held : bound = next * (1 + m * g) /\ held = left * g
      OBVIOUS
    <2>4. bound \in Int /\ held \in Nat
      BY <2>2, <2>3
    <2>5. c <= bound - held
      BY <2>1, <2>3 DEF PipelineInv, BudgetInv
    <2>6. Cardinality(final) <= next * (1 + MaxRequeues * Growth)
      BY <2>1, <2>2, <2>3, <2>4, <2>5
    <2> QED BY <2>6 DEF PipelineInv, BudgetInv, RefinementIsBounded, Growth
  <1> QED BY <1>1, PipelineInvariant, PTL

\* unique_forward_pixels counts each pixel that was forwarded once, and forward_seen of a
\* final leaf tells whether its pixels were.
THEOREM LedgersCount == Spec => []LedgersAreExact
  <1>1. PipelineInv => LedgersAreExact
    <2> SUFFICES ASSUME PipelineInv PROVE LedgersAreExact
      OBVIOUS
    <2>1. Ledger(union, touched) /\ SeenInv
      BY DEF PipelineInv, UnionInv
    <2>2. PICK boxes : boxes = union
      OBVIOUS
    <2>3. /\ boxes \in SUBSET Boxes /\ IsFiniteSet(boxes)
          /\ \A a, b \in boxes : a # b => Pixels(a) \cap Pixels(b) = {}
          /\ UNION {Pixels(b) : b \in boxes} = touched
      BY <2>1, <2>2 DEF Ledger
    <2>4. TotalArea(boxes) = Cardinality(UNION {Pixels(b) : b \in boxes})
      BY <2>3, TotalAreaCounts
    <2>5. UniqueForwardPixels = Cardinality(touched)
      BY <2>2, <2>3, <2>4 DEF UniqueForwardPixels
    <2> QED BY <2>1, <2>5 DEF LedgersAreExact, SeenInv
  <1> QED BY <1>1, PipelineInvariant, PTL

\* What a fold says of statuses, if there are any.
LEMMA FoldSays ==
  ASSUME NEW all \in SUBSET Statuses, all # {}
  PROVE  /\ Fold(all) \in Statuses
         /\ Fold(all) = "FAIL" <=> "FAIL" \in all
         /\ Fold(all) = "PASS" <=> all = {"PASS"}
  <1>1. CASE "FAIL" \in all
    <2>1. Fold(all) = "FAIL"
      BY <1>1 DEF Fold
    <2>2. all # {"PASS"}
      BY <1>1
    <2> QED BY <1>1, <2>1, <2>2 DEF Statuses
  <1>2. CASE "FAIL" \notin all /\ "INCONCLUSIVE" \in all
    <2>1. Fold(all) = "INCONCLUSIVE"
      BY <1>2 DEF Fold
    <2>2. all # {"PASS"}
      BY <1>2
    <2> QED BY <1>2, <2>1, <2>2 DEF Statuses
  <1>3. CASE "FAIL" \notin all /\ "INCONCLUSIVE" \notin all
    <2>1. all = {"PASS"}
      BY <1>3 DEF Statuses
    <2>2. Fold(all) = "PASS"
      BY <1>3 DEF Fold
    <2> QED BY <1>3, <2>1, <2>2 DEF Statuses
  <1> QED BY <1>1, <1>2, <1>3

\* The coverage of the whole is partial if a tile is covered and another that claims any is not.
CoverageAgrees(results) ==
  \A a, b \in results : a.coverage = "ALL_COMPONENTS_COVERED"
                          => b.coverage \in {"ALL_COMPONENTS_COVERED", "NOT_APPLICABLE"}

LEMMA PartialCoverage ==
  ASSUME NEW results
  PROVE  Coverage(results) = "PARTIAL_COVER" <=> ~CoverageAgrees(results)
  <1>1. Covered(results) = Claiming(results) <=>
          \A b \in results : b.coverage \in {"ALL_COMPONENTS_COVERED", "NOT_APPLICABLE"}
    BY DEF Covered, Claiming
  <1>2. Covered(results) = {} <=> \A a \in results : a.coverage # "ALL_COMPONENTS_COVERED"
    BY DEF Covered
  <1>3. Claiming(results) = {} => Covered(results) = {}
    BY DEF Covered, Claiming
  <1>4. Coverage(results) = "PARTIAL_COVER" <=>
          Covered(results) # Claiming(results) /\ Covered(results) # {}
    BY <1>3 DEF Coverage
  <1> QED BY <1>1, <1>2, <1>4 DEF CoverageAgrees

\* What finalize says of the results of a session, if there are any.
LEMMA FinalizeSays ==
  ASSUME NEW results \in SUBSET TileResults, results # {}
  PROVE  /\ Finalize(results) \in Statuses
         /\ Finalize(results) = "FAIL" <=> \E r \in results : r.status = "FAIL"
         /\ Finalize(results) = "PASS" <=>
              /\ \A r \in results : r.status = "PASS" /\ ~r.overBudget
              /\ CoverageAgrees(results)
  <1> PICK all : all = StatusesOf(results)
    OBVIOUS
  <1>1. all \in SUBSET Statuses /\ all # {}
    BY DEF StatusesOf, TileResults
  <1>2. "FAIL" \in all <=> \E r \in results : r.status = "FAIL"
    BY DEF StatusesOf
  <1>3. all = {"PASS"} <=> \A r \in results : r.status = "PASS"
    BY DEF StatusesOf
  <1>4. Breached(results) <=> \E r \in results : r.overBudget
    BY DEF Breached
  <1>5. CASE Coverage(results) = "PARTIAL_COVER" \/ Breached(results)
    <2> PICK some : some = all \cup {"INCONCLUSIVE"}
      OBVIOUS
    <2>1. Finalize(results) = Fold(some)
      BY <1>5 DEF Finalize
    <2>2. /\ some \in SUBSET Statuses /\ some # {} /\ some # {"PASS"}
          /\ "FAIL" \in some <=> "FAIL" \in all
      BY <1>1 DEF Statuses
    <2>3. /\ Fold(some) \in Statuses /\ Fold(some) # "PASS"
          /\ Fold(some) = "FAIL" <=> "FAIL" \in all
      BY <2>2, FoldSays
    <2>4. ~(CoverageAgrees(results) /\ \A r \in results : ~r.overBudget)
      BY <1>4, <1>5, PartialCoverage
    <2> QED BY <1>2, <2>1, <2>3, <2>4
  <1>6. CASE ~(Coverage(results) = "PARTIAL_COVER" \/ Breached(results))
    <2>1. Finalize(results) = Fold(all)
      BY <1>6 DEF Finalize
    <2>2. /\ Fold(all) \in Statuses
          /\ Fold(all) = "FAIL" <=> "FAIL" \in all
          /\ Fold(all) = "PASS" <=> all = {"PASS"}
      BY <1>1, FoldSays
    <2>3. CoverageAgrees(results) /\ \A r \in results : ~r.overBudget
      BY <1>4, <1>6, PartialCoverage
    <2>4. Finalize(results) = "FAIL" <=> \E r \in results : r.status = "FAIL"
      BY <1>2, <2>1, <2>2
    <2>5. Finalize(results) = "PASS" <=> \A r \in results : r.status = "PASS"
      BY <1>3, <2>1, <2>2
    <2>6. Finalize(results) \in Statuses
      BY <2>1, <2>2
    <2> QED BY <2>3, <2>4, <2>5, <2>6
  <1> QED BY <1>5, <1>6

\* The global verdict follows from the results of exactly the committed leaves, in every
\* session, with partial cover and breached error budgets blocking a PASS.
THEOREM ReportIsExact == Spec => []ReportIsOfFinalLeaves
  <1>1. PipelineInv => ReportIsOfFinalLeaves
    <2> SUFFICES ASSUME PipelineInv, phase = "done", Sessions # {}
                 PROVE  /\ \A v \in Sessions : DOMAIN latest[v] = final /\ final = DOMAIN written
                        /\ Report = "PASS" <=> \A v \in Sessions : SessionPasses(v)
                        /\ Report = "FAIL" <=>
                             \E v \in Sessions, id \in final : latest[v][id].status = "FAIL"
      BY DEF ReportIsOfFinalLeaves
    <2>1. TreeInv /\ pending = <<>> /\ batch = <<>> /\ next = Len(Plan)
      BY DEF PipelineInv, TreeInv, WorkInv
    <2>2. final = DOMAIN written /\ final # {}
      BY <2>1, AllIsCommitted
    <2>3. ASSUME NEW v \in Sessions
          PROVE  DOMAIN latest[v] = final /\ latest[v] \in [final -> TileResults]
          BY <2>2 DEF PipelineInv, VerdictInv
    <2>4. PICK said : said = [v \in Sessions |-> Finalize(Range(latest[v]))]
      OBVIOUS
    <2>5. ASSUME NEW v \in Sessions
          PROVE  /\ said[v] \in Statuses
                 /\ said[v] = "PASS" <=> SessionPasses(v)
                 /\ said[v] = "FAIL" <=> \E id \in final : latest[v][id].status = "FAIL"
      <3>1. PICK results : results = Range(latest[v])
        OBVIOUS
      <3>2. results = {latest[v][id] : id \in final}
        BY <2>3, <3>1 DEF Range
      <3>3. results \in SUBSET TileResults /\ results # {}
        BY <2>2, <2>3, <3>2
      <3>4. /\ Finalize(results) \in Statuses
            /\ Finalize(results) = "FAIL" <=> \E r \in results : r.status = "FAIL"
            /\ Finalize(results) = "PASS" <=>
                 /\ \A r \in results : r.status = "PASS" /\ ~r.overBudget
                 /\ CoverageAgrees(results)
        BY <3>3, FinalizeSays
      <3>5. said[v] = Finalize(results)
        BY <2>4, <3>1
      <3>6. SessionPasses(v) <=> /\ \A r \in results : r.status = "PASS" /\ ~r.overBudget
                                 /\ CoverageAgrees(results)
        BY <3>2 DEF SessionPasses, CoverageAgrees
      <3>7. (\E r \in results : r.status = "FAIL") <=> \E id \in final : latest[v][id].status = "FAIL"
        BY <3>2
      <3> QED BY <3>4, <3>5, <3>6, <3>7
    <2>6. PICK all : all = {said[v] : v \in Sessions}
      OBVIOUS
    <2>7. all \in SUBSET Statuses /\ all # {}
      BY <2>5, <2>6
    <2>8. Report = Fold(all)
      <3>1. DOMAIN said = Sessions
        BY <2>4
      <3> QED BY <2>4, <2>6, <3>1 DEF Report, FoldGlobal, Range
    <2>9. Report = "FAIL" <=> "FAIL" \in all
      BY <2>7, <2>8, FoldSays
    <2>10. Report = "PASS" <=> all = {"PASS"}
      BY <2>7, <2>8, FoldSays
    <2>11. "FAIL" \in all <=> \E v \in Sessions : said[v] = "FAIL"
      BY <2>6
    <2>12. all = {"PASS"} <=> \A v \in Sessions : said[v] = "PASS"
      BY <2>6
    <2> QED BY <2>2, <2>3, <2>5, <2>9, <2>10, <2>11, <2>12
  <1> QED BY <1>1, PipelineInvariant, PTL

\* The pipeline implements ChipCover: every pixel is decided once, and a run that reports has
\* decided all of them.
THEOREM PipelineCovers == Spec => ImplementsCover
  <1>1. Init => Cover!Init
    <2> SUFFICES ASSUME Init PROVE Cover!Init
      OBVIOUS
    <2>1. Decided = {}
      BY DEF Init, Decided
    <2> QED BY <2>1 DEF Init, Cover!Init, Abstract
  <1>2. PipelineInv /\ [Next]_vars => [Cover!Next]_Cover!vars
    BY PipelineStep
  <1> QED BY <1>1, <1>2, PipelineInvariant, PTL DEF Spec, ImplementsCover, Cover!Spec
=============================================================================
