------------------------------- MODULE Erase -------------------------------
(***************************************************************************)
(* Putting land back to what its generator makes: a mod deletes the saved  *)
(* keys of a chunk (bridge/world/GapFill.cpp, server/world/blocks.rs), and *)
(* the engine generates the chunk when it is loaded next.  The engine      *)
(* writes a chunk that is in memory back when it unloads it, so a mod has  *)
(* to ask first whether it is: two calls, and anything may come between    *)
(* them.  All of it runs on the server thread.                             *)
(***************************************************************************)
EXTENDS Integers, SequencesExt

CONSTANTS
  Dims,               \* ids of dimensions; the overworld is 0
  ChunkXs, ChunkZs    \* coordinates of chunks

VARIABLES
  memory,    \* the chunks in memory: TRUE if it is not what the generator made
  storage,   \* per saved key: the same of the chunk it was written for
  told,      \* history: the chunks the loader said are not loaded, and not loaded since
  restored   \* history: the chunks a mod erased on that word, and not loaded since

vars == <<memory, storage, told, restored>>

Chunks == [dim : Dims, x : ChunkXs, z : ChunkZs]

\* put_le: 32 bits, the lowest byte first.
Le(v) ==
  LET a == v \div 256
      b == a \div 256
      c == b \div 256
  IN  <<v % 256, a % 256, b % 256, c % 256>>

\* chunkKeyPrefix
ChunkKeyPrefix(c) == Le(c.x) \o Le(c.z) \o (IF c.dim = 0 THEN <<>> ELSE Le(c.dim))

\* What the engine saves of a chunk (LeviRsAbi.h:2072-2076): a tag, and for some the
\* number of a sub-chunk.
KeysOf(c) == {ChunkKeyPrefix(c) \o tail : tail \in {<<44>>, <<47, 0>>}}

Init == memory = <<>> /\ storage = <<>> /\ told = {} /\ restored = {}

-----------------------------------------------------------------------------
(* The mod.                                                                *)

\* api_level_chunk_keys
Listed(c) == {k \in DOMAIN storage : IsPrefix(ChunkKeyPrefix(c), k)}

\* Server::delete_chunk_keys: each listed key with api_level_delete_key.
Erased(c) == [k \in DOMAIN storage \ Listed(c) |-> storage[k]]

\* Nothing tells it from an erasure nobody asked about first.
EraseChunk(c) ==
  /\ storage' = Erased(c)
  /\ restored' = restored \cup ({c} \intersect told)
  /\ UNCHANGED <<memory, told>>

\* C++ division rounds towards zero.
Half(i) == IF i < 0 THEN -((-i) \div 2) ELSE i \div 2

\* BlockSource::hasChunksAt: every chunk at a block of the square is in memory.
HasChunksAt(dim, x, z, r) ==
  \A i \in (x - r) \div 16 .. (x + r) \div 16, j \in (z - r) \div 16 .. (z + r) \div 16 :
    [dim |-> dim, x |-> i, z |-> j] \in DOMAIN memory

\* Mutant: the square is as large as the box, and may reach into a neighbour.
ChunksLoadedWide(dim, minX, minZ, maxX, maxZ) ==
  LET halfX == Half(maxX - minX)
      halfZ == Half(maxZ - minZ)
  IN  HasChunksAt(dim, Half(minX + maxX), Half(minZ + maxZ),
                  IF halfX < halfZ THEN halfX ELSE halfZ)

\* api_level_chunks_loaded: a square about the middle, one block smaller than the box.
ChunksLoaded(dim, minX, minZ, maxX, maxZ) ==
  LET halfX == Half(maxX - minX)
      halfZ == Half(maxZ - minZ)
      r == IF halfX < halfZ THEN halfX ELSE halfZ
  IN  HasChunksAt(dim, Half(minX + maxX), Half(minZ + maxZ), IF r > 0 THEN r - 1 ELSE 0)

\* A box given by its last block, or by the first one past it.
Edges == {15, 16}

\* Server::chunks_loaded: no, yes, or an error when the dimension is not there.
Ask(c, edge, there) ==
  /\ told' = IF /\ there
                /\ ~ChunksLoaded(c.dim, 16 * c.x, 16 * c.z, 16 * c.x + edge, 16 * c.z + edge)
             THEN told \cup {c} ELSE told \ {c}
  /\ UNCHANGED <<memory, storage, restored>>

-----------------------------------------------------------------------------
(* The engine.                                                             *)

\* From its keys; without one, from the generator.
Load(c) ==
  /\ c \notin DOMAIN memory
  /\ memory' = [d \in DOMAIN memory \cup {c} |->
       IF d = c THEN \E k \in KeysOf(c) \intersect DOMAIN storage : storage[k] ELSE memory[d]]
  /\ told' = told \ {c} /\ restored' = restored \ {c}
  /\ UNCHANGED storage

Edit(c) ==
  /\ c \in DOMAIN memory
  /\ memory' = [memory EXCEPT ![c] = TRUE]
  /\ UNCHANGED <<storage, told, restored>>

Unload(c) ==
  /\ c \in DOMAIN memory
  /\ storage' = [k \in KeysOf(c) \cup DOMAIN storage |->
       IF k \in KeysOf(c) THEN memory[c] ELSE storage[k]]
  /\ memory' = [d \in DOMAIN memory \ {c} |-> memory[d]]
  /\ UNCHANGED <<told, restored>>

\* The process dies: what was in memory only is lost.
Crash ==
  /\ memory' = <<>>
  /\ UNCHANGED <<storage, told, restored>>

Next ==
  \/ \E c \in Chunks : EraseChunk(c) \/ Load(c) \/ Edit(c) \/ Unload(c)
  \/ \E c \in Chunks, edge \in Edges, there \in BOOLEAN : Ask(c, edge, there)
  \/ Crash

Spec == Init /\ [][Next]_vars

-----------------------------------------------------------------------------

\* A chunk that was erased on the loader's word that it was not loaded, and was not loaded
\* in between, is gone, whatever else was unloaded, saved or lost meanwhile: no key of it
\* comes back, and its next load is from the generator (LeviRsAbi.h:2078-2086).
RestoredIsGenerated ==
  \A c \in restored : c \notin DOMAIN memory /\ KeysOf(c) \intersect DOMAIN storage = {}

\* Of a square of chunks the loader says that it is loaded exactly when all are.
LoadedIsAll ==
  \A d \in Dims, x \in ChunkXs, z \in ChunkZs, n \in {1, 2}, edge \in Edges :
    ChunksLoaded(d, 16 * x, 16 * z, 16 * (x + n - 1) + edge, 16 * (z + n - 1) + edge)
      <=> \A i \in x .. x + n - 1, j \in z .. z + n - 1 :
            [dim |-> d, x |-> i, z |-> j] \in DOMAIN memory

\* Deleting the keys of a chunk deletes no key of another one (LeviRsAbi.h:2056-2057).
ErasesOneChunk ==
  [][\A c \in Chunks :
       EraseChunk(c) => DOMAIN storage \ DOMAIN storage' \subseteq KeysOf(c)]_vars
=============================================================================
