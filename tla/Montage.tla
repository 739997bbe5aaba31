------------------------------- MODULE Montage -------------------------------
(***************************************************************************)
(* The layout of the preview picture (skeet-feed/src/preview/mod.rs): each *)
(* tile is scaled to the width of a column and cut to a height of which    *)
(* two rows fit, and the rows are placed from the top until one overflows. *)
(* A behaviour is one run of the loop; pixels and the fade are left out.   *)
(***************************************************************************)
EXTENDS Integers, Sequences

CONSTANTS
    Offered,    \* the sequences of tiles that may be offered: [width, height]
    Canvas      \* the size of the picture

MontageColumns == 4    \* MONTAGE_COLUMNS
MinRows == 2           \* MONTAGE_MIN_ROWS
Gutter == 6            \* TILE_GUTTER

Extent == [width : Nat, height : Nat]

\* The canvas is wide and high enough for all gutters.
MontageConstants ==
    /\ Offered \subseteq Seq(Extent)
    /\ Canvas \in Extent
    /\ Canvas.width >= (MontageColumns + 1) * Gutter /\ Canvas.height >= (MinRows + 1) * Gutter

VARIABLES
    tiles,      \* the tiles offered
    row, y,     \* the row that is next, counted from 0, and its top
    placed,     \* the placements so far, by tile
    done

vars == <<tiles, row, y, placed, done>>

----------------------------------------------------------------------------
TargetTileWidth == (Canvas.width - (MontageColumns + 1) * Gutter) \div MontageColumns
MaxTileHeight == (Canvas.height - (MinRows + 1) * Gutter) \div MinRows

AtLeastOne(n) == IF n < 1 THEN 1 ELSE n

\* The height that keeps the proportions, in whole pixels.
ScaledHeight(tile) == AtLeastOne((TargetTileWidth * tile.height) \div AtLeastOne(tile.width))

ScaleAndCap(tile) ==
    IF ScaledHeight(tile) <= MaxTileHeight THEN ScaledHeight(tile) ELSE MaxTileHeight

RowOf(i) == (i - 1) \div MontageColumns
ColumnOf(i) == (i - 1) % MontageColumns

Row == {i \in DOMAIN tiles : RowOf(i) = row}

RowHeight ==
    LET height(i) == ScaleAndCap(tiles[i])
    IN  CHOOSE h \in {height(i) : i \in Row} : \A i \in Row : height(i) <= h

Fits == y + RowHeight + Gutter <= Canvas.height

Placement(i) == [x |-> Gutter + ColumnOf(i) * (TargetTileWidth + Gutter), y |-> y,
                 width |-> TargetTileWidth, height |-> ScaleAndCap(tiles[i])]

----------------------------------------------------------------------------
\* compose: the tiles are scaled and laid out from the top.
Init ==
    /\ tiles \in Offered
    /\ row = 0 /\ y = Gutter
    /\ placed = << >> /\ done = FALSE

PlaceRow ==
    /\ ~done /\ Row # {} /\ Fits
    /\ placed' = [i \in DOMAIN placed \cup Row |-> IF i \in Row THEN Placement(i) ELSE placed[i]]
    /\ row' = row + 1 /\ y' = y + RowHeight + Gutter
    /\ UNCHANGED <<tiles, done>>

\* There is no further row, or the first that overflows ends the loop.
Finish ==
    /\ ~done
    /\ ~(Row # {} /\ Fits)
    /\ done' = TRUE
    /\ UNCHANGED <<tiles, row, y, placed>>

Next == PlaceRow \/ Finish

Spec == Init /\ [][Next]_vars
----------------------------------------------------------------------------
(* Properties                                                              *)

Right(p) == p.x + p.width + Gutter
Bottom(p) == p.y + p.height + Gutter

\* What is placed lies within the canvas, its gutter included.
WithinCanvas == \A i \in DOMAIN placed : Right(placed[i]) <= Canvas.width /\ Bottom(placed[i]) <= Canvas.height

\* No two tiles touch.
TilesApart ==
    \A i, j \in DOMAIN placed :
        i < j => Right(placed[i]) <= placed[j].x \/ Bottom(placed[i]) <= placed[j].y

\* However tall the tiles are, the first two rows of them are shown
\* (preview/mod.rs:48-51).
TwoRowsFit == done => \A i \in DOMAIN tiles : RowOf(i) < MinRows => i \in DOMAIN placed
=============================================================================
