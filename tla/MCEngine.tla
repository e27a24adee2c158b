------------------------------ MODULE MCEngine ------------------------------
(***************************************************************************)
(* All that the loader puts into the engine, for TLC: the packet detours   *)
(* and the hook events, the gameplay detours, the decision caches, the     *)
(* clock, the rules and plots of dimensions, their ids, their chunks, and  *)
(* the keys of chunks.  One of them moves while the others rest in one     *)
(* initial state.                                                          *)
(***************************************************************************)
EXTENDS MCHooks, Detours, Integers

CONSTANTS
  MaxLive,
  Players, Positions, Blocks, Plots, PlotOf(_), Deniable, Ttl, MaxEntries,
  Unit, Factors, Steps, MaxPending, Windows,
  RuledDims, Rules, MaxRules, Sizes, Tables, Spots, ScanLimit, NoGrid,
  DimNames, EngineIds, MaxBoot,
  Layouts, MinY, MaxY, BedrockY, Width, GenXs,
  SavedDims, SavedXs, SavedZs

VARIABLES
  part,  \* which of them moves
  live, detours, dispatching, acts, ended,
  denied, since, cache, outcome,
  hooked, frozen, warp, acc, pending, sampling, reportReady, remaining, span,
  levelCalls, frame, owed,
  rules, counts, last, grids,
  store, disk, boot, up, list, known, salvaged, used, nextDim, undefined, ledger,
  map, defs, built, liveIds, fell, toldIds,
  buf, out,
  memory, storage, told, restored

packetVars == <<vars, hookVars>>
actVars == <<live, detours, dispatching, acts, ended>>
cacheVars == <<denied, since, cache, outcome>>
clockVars == <<hooked, frozen, warp, acc, pending, sampling, reportReady, remaining,
               span, levelCalls, frame, owed>>
ruleVars == <<rules, counts, last, grids>>
dimVars == <<store, disk, boot, up, list, known, salvaged, used, nextDim, undefined,
             ledger, map, defs, built, liveIds, fell, toldIds>>
chunkVars == <<buf, out>>
savedVars == <<memory, storage, told, restored>>

Act == INSTANCE Protect WITH installed <- detours

\* Every act has its effect; what it runs through after it can only tell.  A trident is
\* asked about where it is let go.
ASSUME PathAssumption ==
  \A a \in DOMAIN Path : LET p == Path[a] IN
    /\ p \in Seq(STRING)
    /\ \E i \in DOMAIN p : p[i] = "effect"
    /\ \A i, j \in DOMAIN p :
         i < j /\ p[i] = "effect" => Act!Event(p[j]) \in Act!ObserveOnly
    /\ a = "trident" => \A i \in DOMAIN p \ {1} :
         p[i] = "effect" \/ a \in Detours[p[i]].passes

\* Bound: an act inside another one runs through a detour of the same event; those of
\* different events share nothing.
EventsOf(a) == {Detours[h].event : h \in {Path[a][i] : i \in DOMAIN Path[a]} \ {"effect"}}
NestedAlike == Len(acts) > 1 => EventsOf(acts[1].act) \intersect EventsOf(acts[2].act) # {}

\* A pushed entity half a block west of the border between two plots, in half blocks;
\* a plate on either side.
Halves == {-1}
BothSides == {-1, 0}
PlotOfBlock(x) == IF x < 0 THEN "west" ELSE "east"

Decision == INSTANCE Throttle

\* The blocks mods are asked about; each of them is in one plot.
AskedAbout == Blocks \cup {Decision!Truncated(pos) : pos \in Positions}

ASSUME DecisionAssumption ==
  /\ Ttl \in Nat /\ Positions \subseteq Int /\ Blocks \subseteq Int
  /\ \A x \in AskedAbout : PlotOf(x) \in Plots

Clock == INSTANCE TickClock WITH window <- span

\* A frame in progress, and None, which is none.
FrameRecord == [kind : {"step", "plain", "warp"}, left : Int, inTick : BOOLEAN, timed : BOOLEAN]

ASSUME ClockAssumption ==
  /\ Unit \in Nat \ {0} /\ Factors \subseteq Nat /\ Steps \subseteq Nat
  /\ Windows \subseteq Nat \ {0} /\ None \notin FrameRecord

\* Merges of plots: none; a pair, claimed by the first or by the second alone; a
\* corner; a square of four, one more than the walk may see.
SomeTables ==
  {<<>>,
   <<0, 0>> :> {1},
   <<1, 0>> :> {3},
   (<<0, 0>> :> {1}) @@ (<<1, 0>> :> {2}),
   (<<0, 0>> :> {1, 2}) @@ (<<1, 0>> :> {2}) @@ (<<0, 1>> :> {1})}

\* Plots of one and of two columns, and a size that is refused.
SomeSizes == {<<1, 1>>, <<2, 1>>, <<0, 1>>}
SomeSpots == {<<0, 0>>, <<1, 0>>, <<1, 1>>, <<2, 0>>, <<2, 2>>}

Plot == INSTANCE PlotConfine WITH Dims <- RuledDims

\* Callers number rules below kDimRuleCount.
ASSUME RulesAssumption == Rules \subseteq Plot!DimRule

\* Plots and columns are points of a plane, and a table names finitely many.
Points == Int \X Int

ASSUME PlotAssumption ==
  /\ Sizes \subseteq Points /\ Spots \subseteq Points
  /\ \A t \in Tables : DOMAIN t \subseteq Points /\ IsFiniteSet(DOMAIN t)
  /\ ScanLimit \in Nat

Dimension == INSTANCE Dimensions WITH
  Names <- DimNames, live <- liveIds, next <- nextDim, told <- toldIds

\* Bound: at most two things are wrong at a time, of this kind: an entry is of no use, or
\* was not saved; a dimension has no definition; its registration failed.
TwoAmiss ==
  LET Unusable == {n \in DOMAIN disk : ~disk[n].readable \/ disk[n].id < 3}
      Unsaved == {n \in DOMAIN list : up /\ (n \notin DOMAIN disk \/ disk[n] # list[n])}
      Untold == DOMAIN map.name \ DOMAIN defs
      Failed == DOMAIN map.name \ DOMAIN liveIds
  IN  part = "dims" =>
        Cardinality(Unusable) + Cardinality(Unsaved) + Cardinality(Untold)
          + Cardinality(Failed) <= 2

\* -1 is no id.
ASSUME DimensionAssumption == -1 \notin EngineIds

\* A layout as it should be, and one of which every field is corrected.
SomeLayouts ==
  [p |-> [plotSize |-> 4, roadWidth |-> 1, borderWidth |-> 1, floorY |-> 1],
   q |-> [plotSize |-> 3, roadWidth |-> -2, borderWidth |-> 2, floorY |-> 9]]

\* A low world, and the chunks about its middle.
Below == -2
Bottom == -1
AboutMiddle == -1..1

Chunk == INSTANCE PlotGenerator WITH
  Dims <- DOMAIN Layouts, Asked <- Layouts, ChunkXs <- GenXs

\* Layouts are numbers, and None is no world.
ASSUME WorldAssumption ==
  /\ \A d \in DOMAIN Layouts :
       Layouts[d] \in [plotSize : Int, roadWidth : Int, borderWidth : Int, floorY : Int]
  /\ None \notin DOMAIN Layouts
  /\ MinY \in Int /\ MaxY \in Int /\ BedrockY \in Int /\ Width \in Int /\ GenXs \subseteq Int

\* A square of four chunks about the origin.
Corner == {-1, 0}

Saved == INSTANCE Erase WITH Dims <- SavedDims, ChunkXs <- SavedXs, ChunkZs <- SavedZs

\* Bound: mods ask about one chunk, or erase one they asked about, before they turn to
\* another; of what nobody was told about, any.
OneAtATime == part = "saved" => Cardinality(told \cup restored) <= 1

\* A key has 32 bits for each of these.
ASSUME KeyAssumption ==
  \A v \in SavedDims \cup SavedXs \cup SavedZs :
    v \in Int /\ ((v \div 256) \div 256) \div 256 \in -128..127

EngineInit ==
  /\ part \in {"packets", "acts", "caches", "clock", "rules", "dims", "chunks", "saved"}
  /\ HooksInit /\ Act!Init /\ Decision!Init /\ Clock!Init /\ Plot!ConfineInit
  /\ Dimension!Init /\ Chunk!GenInit /\ Saved!Init

EngineNext ==
  /\ UNCHANGED part
  /\ \/ /\ part = "packets" /\ HooksNext
        /\ UNCHANGED <<actVars, cacheVars, clockVars,
                       ruleVars, dimVars, chunkVars, savedVars>>
     \/ /\ part = "acts" /\ Act!Next
        /\ UNCHANGED <<packetVars, cacheVars, clockVars,
                       ruleVars, dimVars, chunkVars, savedVars>>
     \/ /\ part = "caches" /\ Decision!Next
        /\ UNCHANGED <<packetVars, actVars, clockVars,
                       ruleVars, dimVars, chunkVars, savedVars>>
     \/ /\ part = "clock" /\ Clock!Next
        /\ UNCHANGED <<packetVars, actVars, cacheVars,
                       ruleVars, dimVars, chunkVars, savedVars>>
     \/ /\ part = "rules" /\ Plot!ConfineNext
        /\ UNCHANGED <<packetVars, actVars, cacheVars,
                       clockVars, dimVars, chunkVars, savedVars>>
     \/ /\ part = "dims" /\ Dimension!Next
        /\ UNCHANGED <<packetVars, actVars, cacheVars,
                       clockVars, ruleVars, chunkVars, savedVars>>
     \/ /\ part = "chunks" /\ Chunk!GenNext
        /\ UNCHANGED <<packetVars, actVars, cacheVars,
                       clockVars, ruleVars, dimVars, savedVars>>
     \/ /\ part = "saved" /\ Saved!Next
        /\ UNCHANGED <<packetVars, actVars, cacheVars,
                       clockVars, ruleVars, dimVars, chunkVars>>

EngineSpec ==
  EngineInit /\ [][EngineNext]_<<part, packetVars, actVars, cacheVars, clockVars,
                                 ruleVars, dimVars, chunkVars, savedVars>>

\* A costly property is evaluated only while its part moves, and of the states that
\* differ only in what the last detour did, in one.

\* An act somebody watches is asked about before it has an effect, and a refused
\* one has none.
NothingUnasked == Act!NothingUnasked

\* A decision is that of the subscribers, or was theirs less than the time to live
\* ago, for the same player and block.
DecisionFresh == Decision!DecisionFresh

\* Every step granted to a frozen clock is run once or called off by a thaw, and a
\* report covers as many frames as its window.
ClockExact == Clock!StepsExact /\ Clock!WindowWhole

\* A dimension's count is the number of its rules.
CounterMatches == Plot!CounterMatches

\* Two columns are of one area exactly when merges join their plots, whatever was
\* asked before; in a region too large to walk nothing crosses.
AnswersAreRegions ==
  part = "rules" /\ last = Plot!Idle => Plot!AnswersAreRegions /\ Plot!TooLargeIsRefused

\* An id of a dimension is that of one name for ever, and every table says so.
IdsHold == Dimension!IdsHold

\* A chunk is, block by block, what PlotLayout.h says of its world from the ground up and
\* DimensionHeight.h below, whatever its thread generated before.
ChunksAsPromised == part = "chunks" => Chunk!ChunksAsPromised

\* A chunk erased on the loader's word that it is not loaded is made anew, and its word
\* is right.
ErasedIsGenerated == part = "saved" => Saved!RestoredIsGenerated /\ Saved!LoadedIsAll
=============================================================================
