--------------------------- MODULE PlotGenerator ----------------------------
(***************************************************************************)
(* The chunk generator of plot dimensions.  Chunks are generated on        *)
(* several threads, for several dimensions, each with a layout of its own; *)
(* a thread has one buffer of blocks, filled for the generator that used   *)
(* it last, of which a chunk only rewrites the two layers that vary.       *)
(***************************************************************************)
EXTENDS Integers

CONSTANTS
    Threads, Dims,
    Asked,            \* the layouts as the callers gave them, per dimension
    MinY, MaxY,     \* kWorldMinY, kWorldMaxY
    BedrockY,
    Width,          \* kChunkWidth
    ChunkXs,        \* chunk coordinates, of either axis
    None

VARIABLES
    buf,        \* per thread: [owner, blocks]
    out         \* per thread: the chunk it generated last: [dim, x, z, blocks]

Columns == 0 .. Width - 1
Layers == MaxY - MinY
Cells == Columns \X (0 .. Layers - 1) \X Columns

-----------------------------------------------------------------------------
(* PlotLayout.                                                             *)

Within(v, lo, hi) == IF v < lo THEN lo ELSE IF v > hi THEN hi ELSE v

\* clamp; the border is given up when it would fill the plot.
Clamped(l) ==
    LET size == Within(l.plotSize, 4, 512)
        border == IF l.borderWidth < 0 \/ l.borderWidth * 2 >= size THEN 0 ELSE l.borderWidth
    IN  [plotSize |-> size, roadWidth |-> Within(l.roadWidth, 0, 64), borderWidth |-> border,
         floorY |-> Within(l.floorY, MinY + 1, MaxY - 2)]

Layout(d) == Clamped(Asked[d])

\* The blocks of a layout are its own; all that matters is that no other's are used.
Of(d, kind) == <<d, kind>>

Classify1D(offset, l) ==
    IF offset >= l.plotSize THEN "road"
    ELSE IF l.borderWidth > 0 /\ (offset < l.borderWidth \/ offset >= l.plotSize - l.borderWidth)
         THEN "border" ELSE "plot"

Combine2D(x, z) ==
    IF "road" \in {x, z} THEN "road" ELSE IF {x, z} = {"plot"} THEN "plot" ELSE "border"

\* % is C++'s remainder made positive.
Area(l, x, z) ==
    LET cell == l.plotSize + l.roadWidth
    IN  Combine2D(Classify1D(x % cell, l), Classify1D(z % cell, l))

-----------------------------------------------------------------------------
(* The buffer.                                                             *)

FloorAt(d) == Layout(d).floorY - MinY
BedrockAt == BedrockY - MinY

\* refillStatic: air, bedrock, fill and air again, each over what was there.
Refilled(d) ==
    [c \in Cells |->
        CASE c[2] >= FloorAt(d) \/ c[2] < BedrockAt -> "air"
          [] c[2] < FloorAt(d) /\ c[2] = BedrockAt -> "bedrock"
          [] OTHER -> Of(d, "fill")]

\* Mutant: a buffer that is filled is used as it is, whoever filled it.
AcquiredOnce(t, d) == IF buf[t].owner = None THEN Refilled(d) ELSE buf[t].blocks

\* acquireBuffer: filled anew for another generator than the last.
Acquired(t, d) == IF buf[t].owner = d THEN buf[t].blocks ELSE Refilled(d)

\* Both layers are reset, then each column of a road and of a border is written.
Written(blocks, d, cx, cz) ==
    [c \in Cells |->
        LET area == Area(Layout(d), cx * Width + c[1], cz * Width + c[3]) IN
        CASE c[2] = FloorAt(d) -> Of(d, IF area = "road" THEN "road" ELSE "floor")
          [] c[2] = FloorAt(d) + 1 -> IF area = "border" THEN Of(d, "border") ELSE "air"
          [] OTHER -> blocks[c]]

LoadChunk(t, d, cx, cz) ==
    LET blocks == Written(Acquired(t, d), d, cx, cz) IN
    /\ buf' = [buf EXCEPT ![t] = [owner |-> d, blocks |-> blocks]]
    /\ out' = [out EXCEPT ![t] = [dim |-> d, x |-> cx, z |-> cz, blocks |-> blocks]]

GenInit ==
    /\ buf = [t \in Threads |-> [owner |-> None, blocks |-> <<>>]]
    /\ out = [t \in Threads |-> None]

GenNext == \E t \in Threads, d \in Dims, cx, cz \in ChunkXs : LoadChunk(t, d, cx, cz)

-----------------------------------------------------------------------------
(* What a world looks like, block by block: in the plane and from the      *)
(* ground up as PlotLayout.h:14-35 says, below the ground as               *)
(* DimensionHeight.h:72-80 says, with the bedrock at kBedrockY and air     *)
(* beneath it.  (PlotLayout.h:31-32 still has the bedrock at minY and fill *)
(* right above it, from before the dimension was made deeper.)             *)

Promised(d, x, y, z) ==
    LET l == Layout(d)
        cell == l.plotSize + l.roadWidth
        onRoad == x % cell >= l.plotSize \/ z % cell >= l.plotSize
        inside(v) == v % cell \in l.borderWidth .. l.plotSize - l.borderWidth - 1
        rim == ~onRoad /\ ~(inside(x) /\ inside(z))
    IN  CASE y = BedrockY -> "bedrock"
          [] y > BedrockY /\ y < l.floorY -> Of(d, "fill")
          [] y = l.floorY -> Of(d, IF onRoad THEN "road" ELSE "floor")
          [] y = l.floorY + 1 /\ rim -> Of(d, "border")
          [] OTHER -> "air"

(***************************************************************************)
(* A chunk depends on its dimension and its place alone: whatever a thread *)
(* generated before, of which dimension and where, every block is the one  *)
(* those headers promise, across chunk borders and on both sides of zero.  *)
(* (For a floor above the bedrock.)                                        *)
(***************************************************************************)
ChunksAsPromised ==
    \A t \in Threads :
        LET o == out[t] IN
        o # None => (Layout(o.dim).floorY > BedrockY =>
            \A c \in Cells :
                o.blocks[c] = Promised(o.dim, o.x * Width + c[1], MinY + c[2], o.z * Width + c[3]))
=============================================================================
