----------------------------- MODULE DenseTiling -----------------------------
(***************************************************************************)
(* The dense executor's overlapping tiles, the weights they are blended with    *)
(* (workflow/tiling.py) and the halo they overlap by (workflow/halo.py).  Rows  *)
(* and columns are independent: a tile is a piece of each axis.                 *)
(***************************************************************************)
EXTENDS TileGeometry

HALO_ROUND_PX == 8
DEFAULT_HALO_PX == 128

\* compute_halo_px: what node and model need, as far as they are known, rounded up; a fixed
\* halo if neither is; and less than a tile.
HaloPx(known, oirNm, pixelNm, receptiveField, tileSize) ==
  LET oir  == IF "node" \in known THEN Steps(oirNm, pixelNm) ELSE 0
      rf   == IF "model" \in known THEN receptiveField ELSE 0
      halo == IF known = {} THEN DEFAULT_HALO_PX
              ELSE HALO_ROUND_PX * Steps(Greater(oir, rf), HALO_ROUND_PX)
  IN  Lesser(halo, tileSize - 1)

\* tile_layout on one axis: the window slides by size - overlap, and is pulled back
\* where it would run over the edge; the same piece twice is one.
Pieces(extent, size, overlap) ==
  LET step == size - overlap
      cap  == IF extent < size THEN 1 ELSE extent
      At(p) == IF p + size > extent /\ extent >= size THEN extent - size ELSE p
  IN  {[at |-> At(p * step), len |-> Lesser(size, extent)] : p \in 0 .. Steps(cap, step) - 1}

\* stitch_tiles on one axis, in units of 1/(overlap - 1): a ramp on each side that has
\* a neighbour, none for an overlap of one.
\* Seeded fault: an overlap of one is blended like any other.
RampAlways(overlap) == overlap > 0
Ramped(overlap) == overlap > 1

Weight(piece, x, extent, overlap) ==
  LET full  == IF overlap > 1 THEN overlap - 1 ELSE 1
      left  == x - piece.at
      right == piece.at + piece.len - 1 - x
      Side(neighbour, i) == IF Ramped(overlap) /\ neighbour /\ i < overlap THEN i ELSE full
  IN  Side(piece.at > 0, left) * Side(piece.at + piece.len < extent, right)

Holding(extent, size, overlap, x) ==
  {p \in Pieces(extent, size, overlap) : p.at <= x /\ x < p.at + p.len}

\* weight_map along one axis; a pixel of weight zero stays black whatever the tiles say.
TotalWeight(extent, size, overlap, x) ==
  SumFunction([p \in Holding(extent, size, overlap, x) |-> Weight(p, x, extent, overlap)])
=============================================================================
