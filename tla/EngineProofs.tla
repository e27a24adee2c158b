---------------------------- MODULE EngineProofs ----------------------------
(***************************************************************************)
(* Theorems about what the loader puts into the engine, for every value of *)
(* the constants.  Each part has its inductive invariant, over the part's  *)
(* own actions; EngineSpec lets one part move and leaves the others alone, *)
(* so a part's invariant holds of it too.                                  *)
(***************************************************************************)
EXTENDS MCEngine, ListProofs

-----------------------------------------------------------------------------
(* Rules of dimensions: the counter and the table.                         *)

\* The rules of dimension d that are set, all of which clearDimensionRules knows.
SetRules(d) == {r \in Plot!DimRule : <<d, r>> \in DOMAIN rules}

RuleInv ==
  /\ DOMAIN rules \subseteq RuledDims \X Plot!DimRule
  /\ Plot!CounterMatches

LEMMA RulesFinite ==
  ASSUME NEW d
  PROVE  /\ IsFiniteSet(SetRules(d)) /\ Cardinality(SetRules(d)) \in Nat
         /\ IsFiniteSet(SetRules(d)') /\ Cardinality(SetRules(d)') \in Nat
<1> DEFINE Four(a, b, c, e) == {a} \cup {b} \cup {c} \cup {e}
<1>1. \A a, b, c, e : IsFiniteSet(Four(a, b, c, e))
  BY FS_Singleton, FS_Union
<1>2. IsFiniteSet(Four("SpawnMonster", "SpawnAnimal", "SpawnSpawner", "ExplodeBlocks")
                    \cup Four("FireSpread", "MobGriefing", "Projectile", "PistonPush")
                    \cup Four("LiquidFlow", "FarmlandDecay", "Ride", "PistonCrossPlot")
                    \cup {"EntityCrossPlot"})
  <2> HIDE DEF Four
  <2> QED
    BY <1>1, FS_Singleton, FS_Union
<1>3. IsFiniteSet(Plot!DimRule)
  <2>1. Plot!DimRule =
          Four("SpawnMonster", "SpawnAnimal", "SpawnSpawner", "ExplodeBlocks")
            \cup Four("FireSpread", "MobGriefing", "Projectile", "PistonPush")
            \cup Four("LiquidFlow", "FarmlandDecay", "Ride", "PistonCrossPlot")
            \cup {"EntityCrossPlot"}
    BY DEF Plot!DimRule
  <2> QED
    BY <1>2, <2>1
<1> HIDE DEF Four
<1>4. SetRules(d) \in SUBSET Plot!DimRule /\ SetRules(d)' \in SUBSET Plot!DimRule
  BY DEF SetRules
<1> QED
  BY <1>3, <1>4, FS_Subset, FS_CardinalityType

\* The code's counter, in terms of SetRules.
Counts == \A d \in RuledDims : Plot!At(counts, d, 0) = Cardinality(SetRules(d))

LEMMA CountsAre == (Plot!CounterMatches <=> Counts) /\ (Plot!CounterMatches' <=> Counts')
<1>1. \A d : SetRules(d) = {r \in Plot!DimRule : <<d, r>> \in DOMAIN rules}
  BY DEF SetRules
<1>2. \A d : SetRules(d)' = {r \in Plot!DimRule : <<d, r>> \in DOMAIN rules'}
  BY DEF SetRules
<1>3. \A S : Plot!Cardinality(S) = Cardinality(S)
  BY Zenon DEF Plot!Cardinality, Cardinality
<1> QED
  BY <1>1, <1>2, <1>3, Zenon DEF Plot!CounterMatches, Counts

LEMMA SetCounts ==
  ASSUME RuleInv, NEW d \in RuledDims, NEW r \in Rules, NEW allow \in BOOLEAN,
         Plot!SetDimensionRule(d, r, allow)
  PROVE  RuleInv'
<1>1. r \in Plot!DimRule
  BY RulesAssumption
<1>2. DOMAIN rules' = DOMAIN rules \cup {<<d, r>>}
  BY DEF Plot!SetDimensionRule, Plot!With
<1>3. ASSUME NEW e \in RuledDims
      PROVE  (Plot!At(counts, e, 0) = Cardinality(SetRules(e)))'
  <2>0. Plot!At(counts, e, 0) = Cardinality(SetRules(e))
    BY CountsAre DEF RuleInv, Counts
  <2>1. CASE <<d, r>> \in DOMAIN rules \/ e # d
    <3>1. SetRules(e)' = SetRules(e)
      BY <1>2, <2>1 DEF SetRules
    <3>2. Plot!At(counts, e, 0)' = Plot!At(counts, e, 0)
      BY <2>1 DEF Plot!SetDimensionRule, Plot!Counted, Plot!With, Plot!At
    <3> QED
      BY <2>0, <3>1, <3>2
  <2>2. CASE <<d, r>> \notin DOMAIN rules /\ e = d
    <3>1. SetRules(e)' = SetRules(e) \cup {r} /\ r \notin SetRules(e)
      BY <1>1, <1>2, <2>2 DEF SetRules
    <3>2. Plot!At(counts, e, 0)' = Plot!At(counts, e, 0) + 1
      BY <2>2 DEF Plot!SetDimensionRule, Plot!Counted, Plot!With, Plot!At
    <3>3. Cardinality(SetRules(e)') = Cardinality(SetRules(e)) + 1
      BY <3>1, RulesFinite, FS_AddElement
    <3> QED
      BY <2>0, <3>2, <3>3
  <2> QED
    BY <2>1, <2>2
<1> QED
  BY <1>1, <1>2, <1>3, CountsAre DEF RuleInv, Counts

LEMMA ClearCounts ==
  ASSUME RuleInv, NEW d \in RuledDims, Plot!ClearDimensionRules(d)
  PROVE  RuleInv'
<1>1. DOMAIN rules' = DOMAIN rules \ ({d} \X Plot!DimRule)
  BY DEF Plot!ClearDimensionRules, Plot!Without, Plot!Cleared
<1>2. ASSUME NEW e \in RuledDims
      PROVE  (Plot!At(counts, e, 0) = Cardinality(SetRules(e)))'
  <2>0. Plot!At(counts, e, 0) = Cardinality(SetRules(e))
    BY CountsAre DEF RuleInv, Counts
  <2>1. CASE e = d
    <3>1. SetRules(e)' = {}
      BY <1>1, <2>1 DEF SetRules
    <3>2. Plot!At(counts, e, 0)' = 0
      BY <2>1 DEF Plot!ClearDimensionRules, Plot!Without, Plot!At
    <3> QED
      BY <3>1, <3>2, FS_EmptySet
  <2>2. CASE e # d
    <3>1. SetRules(e)' = SetRules(e)
      BY <1>1, <2>2 DEF SetRules
    <3>2. Plot!At(counts, e, 0)' = Plot!At(counts, e, 0)
      BY <2>2 DEF Plot!ClearDimensionRules, Plot!Without, Plot!At
    <3> QED
      BY <2>0, <3>1, <3>2
  <2> QED
    BY <2>1, <2>2
<1> QED
  BY <1>1, <1>2, CountsAre DEF RuleInv, Counts

LEMMA RulesStep == RuleInv /\ [Plot!ConfineNext]_ruleVars => RuleInv'
<1> SUFFICES ASSUME RuleInv, [Plot!ConfineNext]_ruleVars PROVE RuleInv'
  OBVIOUS
<1>1. CASE UNCHANGED <<rules, counts>>
  BY <1>1 DEF RuleInv, Plot!CounterMatches, Plot!At
<1>2. ASSUME NEW d \in RuledDims, NEW r \in Rules, NEW allow \in BOOLEAN,
             Plot!SetDimensionRule(d, r, allow)
      PROVE  RuleInv'
  BY <1>2, SetCounts
<1>3. ASSUME NEW d \in RuledDims, Plot!ClearDimensionRules(d)
      PROVE  RuleInv'
  BY <1>3, ClearCounts
<1>4. Plot!Detoured => UNCHANGED <<rules, counts>>
  BY DEF Plot!Detoured, Plot!AskedRule, Plot!SpawnMob, Plot!Explode, Plot!Report
<1>5. \A d, at, bs, dir : Plot!Piston(d, at, bs, dir) => UNCHANGED <<rules, counts>>
  BY DEF Plot!Piston, Plot!Report
<1>6. \A d, from, to : Plot!Move(d, from, to) => UNCHANGED <<rules, counts>>
  BY DEF Plot!Move, Plot!Report
<1>7. ASSUME Plot!Configure PROVE RuleInv'
  <2>1. \A d, s : Plot!RegisterGrid(d, s[1], s[2]) => UNCHANGED <<rules, counts>>
    BY DEF Plot!RegisterGrid, Plot!SetPlotGrid, Plot!ClearPlotGrid
  <2>2. \A d : Plot!ClearPlotGrid(d) => UNCHANGED <<rules, counts>>
    BY DEF Plot!ClearPlotGrid
  <2>3. \A d, t : Plot!SetPlotMerges(d, t) => UNCHANGED <<rules, counts>>
    BY DEF Plot!SetPlotMerges
  <2> QED
    BY <1>1, <1>2, <1>3, <1>7, <2>1, <2>2, <2>3 DEF Plot!Configure
<1> QED
  BY <1>1, <1>4, <1>5, <1>6, <1>7 DEF Plot!ConfineNext, ruleVars

-----------------------------------------------------------------------------
(* Cached decisions.                                                       *)

Entry == [x : AskedAbout, cancelled : BOOLEAN, age : 0..Ttl]

\* An entry says what the mods decide, or they changed their minds no longer ago
\* than it was made.
EntryAgrees(p, e) ==
  \/ e.cancelled = (<<p, PlotOf(e.x)>> \in denied)
  \/ since[<<p, PlotOf(e.x)>>] <= e.age

CacheInv ==
  /\ since \in [Players \X Plots -> 0..Ttl]
  /\ DOMAIN cache = {"push", "plate"}
  /\ \A h \in DOMAIN cache : \A p \in DOMAIN cache[h] :
       p \in Players /\ cache[h][p] \in Entry /\ EntryAgrees(p, cache[h][p])
  /\ DecisionFresh

LEMMA RuleStep ==
  ASSUME CacheInv, NEW p \in Players, NEW plot \in Plots, Decision!Rule(p, plot)
  PROVE  CacheInv'
<1> USE DecisionAssumption DEF Decision!Rule
<1>1. since' \in [Players \X Plots -> 0..Ttl]
  BY DEF CacheInv, Decision!Pairs
<1>2. ASSUME NEW q \in Players, NEW e \in Entry, EntryAgrees(q, e)
      PROVE  EntryAgrees(q, e)'
  <2>1. <<q, PlotOf(e.x)>> \in Players \X Plots
    BY DEF Entry
  <2>2. CASE <<q, PlotOf(e.x)>> = <<p, plot>>
    BY <2>2, <2>1 DEF CacheInv, EntryAgrees, Entry
  <2>3. CASE <<q, PlotOf(e.x)>> # <<p, plot>>
    <3>1. since'[<<q, PlotOf(e.x)>>] = since[<<q, PlotOf(e.x)>>]
      BY <2>1, <2>3 DEF CacheInv
    <3>2. <<q, PlotOf(e.x)>> \in denied' <=> <<q, PlotOf(e.x)>> \in denied
      BY <2>3
    <3> QED
      BY <1>2, <3>1, <3>2 DEF EntryAgrees
  <2> QED
    BY <2>2, <2>3
<1>3. DecisionFresh'
  BY DEF DecisionFresh, Decision!DecisionFresh
<1> QED
  BY <1>1, <1>2, <1>3 DEF CacheInv

LEMMA CacheTick ==
  ASSUME CacheInv, Decision!Tick
  PROVE  CacheInv'
<1> USE DecisionAssumption DEF Decision!Tick, Decision!Older
<1>1. since' \in [Players \X Plots -> 0..Ttl]
  BY DEF CacheInv, Decision!Pairs
<1>2. DOMAIN cache' = {"push", "plate"}
  BY DEF Decision!Hooks
<1>3. ASSUME NEW h \in DOMAIN cache', NEW p \in DOMAIN cache'[h]
      PROVE  p \in Players /\ cache'[h][p] \in Entry /\ EntryAgrees(p, cache[h][p])'
  <2> DEFINE e == cache[h][p]
             f == cache'[h][p]
             d == <<p, PlotOf(e.x)>>
  <2>1. h \in DOMAIN cache /\ p \in DOMAIN cache[h]
    BY <1>2, <1>3 DEF CacheInv, Decision!Hooks
  <2>2. p \in Players /\ e \in Entry /\ EntryAgrees(p, e)
    BY <2>1 DEF CacheInv
  <2>3. f = [e EXCEPT !.age = IF @ < Ttl THEN @ + 1 ELSE @]
    BY <1>2, <1>3, <2>1 DEF Decision!Hooks
  <2>4. f \in Entry /\ f.x = e.x /\ f.cancelled = e.cancelled
        /\ f.age = IF e.age < Ttl THEN e.age + 1 ELSE e.age
    BY <2>2, <2>3 DEF Entry
  <2>5. d \in Players \X Plots
    BY <2>2 DEF Entry
  <2>6. since'[d] = IF since[d] < Ttl THEN since[d] + 1 ELSE since[d]
    BY <2>5 DEF Decision!Pairs
  <2>7. since[d] \in 0..Ttl /\ e.age \in 0..Ttl
    BY <2>2, <2>5 DEF CacheInv, Entry
  <2>8. since[d] <= e.age => since'[d] <= f.age
    <3>1. PICK a \in 0..Ttl, b \in 0..Ttl : a = since[d] /\ b = e.age
      BY <2>7
    <3>2. a <= b => (IF a < Ttl THEN a + 1 ELSE a) <= (IF b < Ttl THEN b + 1 ELSE b)
      BY DecisionAssumption
    <3> QED
      BY <2>4, <2>6, <3>1, <3>2
  <2> QED
    BY <2>2, <2>4, <2>8 DEF EntryAgrees
<1>4. DecisionFresh'
  BY DEF DecisionFresh, Decision!DecisionFresh
<1> QED
  BY <1>1, <1>2, <1>3, <1>4 DEF CacheInv

LEMMA DecideStep ==
  ASSUME CacheInv, NEW h \in {"push", "plate"}, NEW p \in Players, NEW at, NEW x \in AskedAbout,
         Decision!Decide(h, p, at, x)
  PROVE  CacheInv'
<1> DEFINE asked == <<p, PlotOf(x)>> \in denied
           hit == Decision!Hit(h, p, x)
           new == [x |-> x, cancelled |-> asked, age |-> 0]
<1>1. UNCHANGED <<denied, since>>
  BY DEF Decision!Decide
<1>2. DOMAIN cache' = {"push", "plate"}
  BY DEF Decision!Decide, CacheInv
<1>3. ASSUME NEW k \in DOMAIN cache', NEW q \in DOMAIN cache'[k]
      PROVE  \/ k \in DOMAIN cache /\ q \in DOMAIN cache[k] /\ cache'[k][q] = cache[k][q]
             \/ q = p /\ cache'[k][q] = new
  BY <1>2 DEF Decision!Decide, Decision!Stored, CacheInv
<1>4. new \in Entry /\ EntryAgrees(p, new)
  BY DecisionAssumption DEF Entry, EntryAgrees
<1>5. \A k \in DOMAIN cache' : \A q \in DOMAIN cache'[k] :
        q \in Players /\ cache'[k][q] \in Entry /\ EntryAgrees(q, cache[k][q])'
  BY <1>1, <1>3, <1>4 DEF CacheInv, EntryAgrees
<1>6. Decision!Agrees(outcome', x)
  <2>1. <<p, PlotOf(x)>> \in Players \X Plots
    BY DecisionAssumption
  <2>2. since[<<p, PlotOf(x)>>] \in 0..Ttl
    BY <2>1 DEF CacheInv
  <2>3. outcome'.player = p
        /\ outcome'.refused = IF hit THEN cache[h][p].cancelled ELSE asked
    BY DEF Decision!Decide
  <2>4. CASE ~hit
    BY <2>3, <2>4 DEF Decision!Agrees
  <2>5. CASE hit
    <3>1. /\ p \in DOMAIN cache[h] /\ cache[h][p].x = x /\ cache[h][p].age < Ttl
          /\ cache[h][p] \in Entry /\ EntryAgrees(p, cache[h][p])
      BY <2>5 DEF Decision!Hit, CacheInv
    <3> QED
      BY DecisionAssumption, <2>2, <2>3, <2>5, <3>1
      DEF EntryAgrees, Decision!Agrees, Entry
  <2> QED
    BY <2>4, <2>5
<1>7. DecisionFresh'
  BY <1>1, <1>6 DEF DecisionFresh, Decision!DecisionFresh, Decision!Agrees, Decision!Decide
<1> QED
  BY <1>1, <1>2, <1>5, <1>7 DEF CacheInv

LEMMA CacheStep == CacheInv /\ [Decision!Next]_cacheVars => CacheInv'
<1> SUFFICES ASSUME CacheInv, [Decision!Next]_cacheVars PROVE CacheInv'
  OBVIOUS
<1>1. CASE Decision!Tick
  BY <1>1, CacheTick
<1>2. ASSUME NEW p \in Players, NEW plot \in Plots, Decision!Rule(p, plot)
      PROVE  CacheInv'
  BY <1>2, RuleStep
<1>3. ASSUME NEW p \in Players, NEW pos \in Positions, Decision!Push(p, pos)
      PROVE  CacheInv'
  <2>1. Decision!Truncated(pos) \in AskedAbout
    BY DEF AskedAbout
  <2> QED
    BY <1>3, <2>1, DecideStep DEF Decision!Push
<1>4. ASSUME NEW p \in Players, NEW block \in Blocks, Decision!Trigger(p, block)
      PROVE  CacheInv'
  BY <1>4, DecideStep DEF Decision!Trigger, AskedAbout
<1>5. CASE UNCHANGED cacheVars
  BY <1>5 DEF cacheVars, CacheInv, DecisionFresh, Decision!DecisionFresh, Decision!Agrees,
              EntryAgrees
<1> QED
  BY <1>1, <1>2, <1>3, <1>4, <1>5 DEF Decision!Next

-----------------------------------------------------------------------------
(* The world's clock.                                                      *)

ClockInv ==
  /\ pending \in Nat /\ owed \in Int /\ warp \in Nat /\ acc \in Nat
  /\ remaining \in Int /\ span \in Int /\ levelCalls \in Int
  /\ sampling \in BOOLEAN /\ reportReady \in BOOLEAN
  /\ frame \in FrameRecord \cup {None}
  /\ frame # None /\ frame.timed => sampling
  /\ Clock!StepsExact /\ Clock!WindowWhole

LEMMA FrameRecords ==
  ASSUME sampling \in BOOLEAN, NEW k \in {"step", "plain", "warp"}, NEW n \in Int
  PROVE  /\ Clock!Frame(k, n) \in FrameRecord /\ Clock!Frame(k, n) # None
         /\ Clock!Frame(k, n).kind = k /\ Clock!Frame(k, n).left = n
         /\ Clock!Frame(k, n).timed = sampling
<1>1. Clock!Frame(k, n) = [kind |-> k, left |-> n, inTick |-> FALSE, timed |-> sampling]
  BY DEF Clock!Frame
<1>2. \A b \in BOOLEAN :
        [kind |-> k, left |-> n, inTick |-> FALSE, timed |-> b] \in FrameRecord
  BY DEF FrameRecord
<1>3. Clock!Frame(k, n) \in FrameRecord
  BY <1>1, <1>2, Zenon
<1>4. Clock!Frame(k, n).timed = sampling
  BY Zenon DEF Clock!Frame
<1>5. Clock!Frame(k, n).kind = k /\ Clock!Frame(k, n).left = n
  BY <1>1
<1> QED
  BY <1>3, <1>4, <1>5, ClockAssumption, Zenon

LEMMA FrameTicks ==
  ASSUME NEW f \in FrameRecord, NEW g, g = [f EXCEPT !.left = @ - 1, !.inTick = TRUE]
  PROVE  /\ g \in FrameRecord /\ g # None
         /\ g.kind = f.kind /\ g.timed = f.timed /\ g.left = f.left - 1
<1>1. f.left - 1 \in Int
  BY DEF FrameRecord
<1>2. g \in FrameRecord
  BY <1>1, Zenon DEF FrameRecord
<1>3. g.kind = f.kind /\ g.left = f.left - 1
  BY DEF FrameRecord
<1>4. g.timed = f.timed
  BY Zenon DEF FrameRecord
<1> QED
  BY <1>2, <1>3, <1>4, ClockAssumption, Zenon

LEMMA FrameBegins == ClockInv /\ Clock!BeginFrame => ClockInv'
<1> SUFFICES ASSUME ClockInv, Clock!BeginFrame PROVE ClockInv'
  OBVIOUS
<1> USE ClockAssumption DEF ClockInv, Clock!StepsExact, Clock!WindowWhole
<1>1. (acc + warp) \div Unit \in Int /\ (acc + warp) % Unit \in Nat
  OBVIOUS
<1>2. ASSUME NEW k \in {"step", "plain", "warp"}, NEW n \in Int
      PROVE  /\ Clock!Frame(k, n) \in FrameRecord /\ Clock!Frame(k, n) # None
             /\ Clock!Frame(k, n).kind = k /\ Clock!Frame(k, n).left = n
             /\ Clock!Frame(k, n).timed = sampling
  BY <1>2, FrameRecords
<1>3. CASE hooked /\ frozen /\ frame' = Clock!Frame("step", pending) /\ pending' = 0
           /\ acc' = acc
  BY <1>2, <1>3 DEF Clock!BeginFrame, Clock!profiler
<1>4. CASE frame' = Clock!Frame("plain", 1) /\ UNCHANGED <<pending, acc>>
  BY <1>2, <1>4 DEF Clock!BeginFrame, Clock!profiler
<1>5. CASE frame' = Clock!Frame("warp", (acc + warp) \div Unit)
           /\ acc' = (acc + warp) % Unit /\ pending' = pending
  BY <1>1, <1>2, <1>5 DEF Clock!BeginFrame, Clock!profiler
<1> QED
  BY <1>3, <1>4, <1>5 DEF Clock!BeginFrame

LEMMA ClockStep == ClockInv /\ [Clock!Next]_clockVars => ClockInv'
<1> SUFFICES ASSUME ClockInv, [Clock!Next]_clockVars PROVE ClockInv'
  OBVIOUS
<1> USE ClockAssumption DEF ClockInv, Clock!StepsExact, Clock!WindowWhole, Clock!control,
                            Clock!profiler
<1>1. CASE Clock!BeginFrame
  BY <1>1, FrameBegins
<1>2. CASE Clock!Tick
  <2>1. frame' \in FrameRecord /\ frame' # None
        /\ frame'.kind = frame.kind /\ frame'.timed = frame.timed
        /\ frame'.left = frame.left - 1
    <3>1. frame \in FrameRecord /\ frame' = [frame EXCEPT !.left = @ - 1, !.inTick = TRUE]
      BY <1>2 DEF Clock!Tick
    <3> QED
      BY <3>1, FrameTicks, Zenon
  <2> QED
    BY <1>2, <2>1 DEF Clock!Tick, FrameRecord
<1>3. CASE Clock!TickDone
  <2>1. frame' \in FrameRecord /\ frame' # None
        /\ frame'.kind = frame.kind /\ frame'.timed = frame.timed
        /\ frame'.left = frame.left
    BY <1>3 DEF Clock!TickDone, FrameRecord
  <2> QED
    BY <1>3, <2>1 DEF Clock!TickDone, FrameRecord
<1>4. CASE Clock!EndFrame
  BY <1>4 DEF Clock!EndFrame
<1>5. CASE Clock!ProfileTake
  BY <1>5 DEF Clock!ProfileTake
<1>6. ASSUME NEW on \in BOOLEAN, Clock!Freeze(on) PROVE ClockInv'
  BY <1>6 DEF Clock!Freeze, FrameRecord
<1>7. ASSUME NEW n \in Steps, Clock!Step(n) PROVE ClockInv'
  BY <1>7 DEF Clock!Step, FrameRecord
<1>8. ASSUME NEW f \in Factors, Clock!Warp(f) PROVE ClockInv'
  BY <1>8 DEF Clock!Warp
<1>9. ASSUME NEW n \in Windows, Clock!ProfileBegin(n) PROVE ClockInv'
  <2>1. n \in Nat \ {0} /\ UNCHANGED <<pending, owed, warp, acc, frame>>
    BY <1>9 DEF Clock!ProfileBegin
  <2>2. levelCalls' = 0 /\ reportReady' = FALSE /\ span' = n /\ remaining' = n /\ sampling'
    BY <1>9 DEF Clock!ProfileBegin
  <2>3. sampling' = TRUE
    BY <1>9 DEF Clock!ProfileBegin
  <2>4. Clock!StepsExact'
    BY <2>1
  <2>5. Clock!WindowWhole'
    BY <2>1, <2>2
  <2>6. frame' # None /\ frame'.timed => sampling'
    BY <2>3
  <2>7. sampling' \in BOOLEAN /\ reportReady' \in BOOLEAN
    BY <2>2, <2>3
  <2>8. /\ pending' \in Nat /\ owed' \in Int /\ warp' \in Nat /\ acc' \in Nat
        /\ remaining' \in Int /\ span' \in Int /\ levelCalls' \in Int
        /\ frame' \in FrameRecord \cup {None}
    BY <2>1, <2>2
  <2> QED
    BY <2>4, <2>5, <2>6, <2>7, <2>8, Zenon DEF ClockInv
<1>10. CASE UNCHANGED clockVars
  BY <1>10 DEF clockVars
<1> QED
  BY <1>1, <1>2, <1>3, <1>4, <1>5, <1>6, <1>7, <1>8, <1>9, <1>10 DEF Clock!Next

-----------------------------------------------------------------------------
(* Ids of dimensions.                                                      *)

\* The tables on one name the callers were given an id for this boot.
Agreed(n) ==
  /\ n \in DOMAIN built /\ built[n] = liveIds[n]
  /\ n \in DOMAIN known /\ known[n] = liveIds[n]
  /\ n \in DOMAIN list /\ list[n].id = liveIds[n]
  /\ n \in DOMAIN map.name /\ map.name[n] = liveIds[n]

\* The engine gives an id to one name, and callers were told what it gave.
Ledgered ==
  /\ \A n \in DOMAIN store : store[n] \in EngineIds
  /\ \A m, n \in DOMAIN store : store[m] = store[n] => m = n
  /\ \A p \in toldIds : p[1] \in DOMAIN store /\ p[2] = store[p[1]]

\* As long as the engine has given every id of this boot, no table has another one.
Enginely ==
  /\ \A n \in DOMAIN map.name : n \in DOMAIN store /\ map.name[n] = store[n]
  /\ \A n \in DOMAIN ledger.name :
       n \in DOMAIN store /\ ledger.name[n] \in {store[n], -1}
  /\ \A n \in DOMAIN defs : n \in DOMAIN store /\ defs[n] = store[n]
  /\ \A n \in DOMAIN liveIds :
       /\ n \in DOMAIN store /\ liveIds[n] = store[n]
       /\ store[n] \in DOMAIN ledger.id /\ ledger.id[store[n]] = n
       /\ store[n] \in DOMAIN map.id /\ map.id[store[n]] = n

TablesInv ==
  /\ ~up => DOMAIN liveIds = {}
  /\ \A n \in DOMAIN liveIds : Agreed(n)
  /\ Ledgered
  /\ ~fell => Enginely

LEMMA TheIdIsOne == \A S : S # {} => Dimension!TheId(S) \in S
BY DEF Dimension!TheId

\* A name and an id are entered both ways; the old id of the name goes, and no other.
LEMMA RememberIs ==
  ASSUME NEW l, NEW n, NEW id
  PROVE  LET r == Dimension!Remember(l, n, id) IN
         /\ DOMAIN r.name = DOMAIN l.name \cup {n} /\ r.name[n] = id
         /\ \A m \in DOMAIN l.name : m # n => r.name[m] = l.name[m]
         /\ id \in DOMAIN r.id /\ r.id[id] = n
         /\ \A i \in DOMAIN l.id :
              i = id \/ (i \in DOMAIN r.id /\ r.id[i] = l.id[i])
                \/ (n \in DOMAIN l.name /\ i = l.name[n])
<1> DEFINE old == IF n \in DOMAIN l.name THEN {l.name[n]} \ {id} ELSE {}
           kept == Dimension!Without(l.id, old)
           r == Dimension!Remember(l, n, id)
<1>1. /\ r.name = Dimension!With(l.name, n, id)
      /\ r.id = Dimension!With(kept, id, n)
  BY DEF Dimension!Remember, Dimension!Entries
<1>2. DOMAIN kept = DOMAIN l.id \ old /\ \A i \in DOMAIN kept : kept[i] = l.id[i]
  BY DEF Dimension!Without
<1> HIDE DEF r, kept
<1>3. /\ DOMAIN r.id = DOMAIN kept \cup {id} /\ r.id[id] = n
      /\ \A i \in DOMAIN kept : i # id => r.id[i] = kept[i]
  BY <1>1 DEF Dimension!With
<1>4. /\ DOMAIN r.name = DOMAIN l.name \cup {n} /\ r.name[n] = id
      /\ \A m \in DOMAIN l.name : m # n => r.name[m] = l.name[m]
  BY <1>1 DEF Dimension!With
<1> QED
  BY <1>2, <1>3, <1>4 DEF r

\* A registration leaves every name its id in the engine; what it returns is the name's.
LEMMA EngineGives ==
  ASSUME Ledgered, NEW n, NEW group, NEW saves, NEW builds,
         NEW offer \in Dimension!Offers(n, group),
         Dimension!Add(n, offer, group, saves, builds)
  PROVE  /\ Ledgered'
         /\ \A m \in DOMAIN store : m \in DOMAIN store' /\ store'[m] = store[m]
         /\ Dimension!Native(n, offer, group) # {} =>
              /\ n \in DOMAIN store'
              /\ Dimension!TheId(Dimension!Native(n, offer, group)) = store'[n]
              /\ known'[n] = store'[n]
         /\ Dimension!Preexisting(n) # {} =>
              n \in DOMAIN store /\ Dimension!TheId(Dimension!Preexisting(n)) = store[n]
<1> DEFINE got == Dimension!Registered(n, offer, group)
           nat == Dimension!Native(n, offer, group)
           pre == Dimension!Preexisting(n)
<1>1. pre # {} => n \in DOMAIN store /\ pre = {store[n]}
  BY DEF Dimension!Preexisting, Dimension!EngineId, Dimension!Entries
<1>2. nat \subseteq got /\ (got # {} => got = pre \/ got = offer)
  BY DEF Dimension!Native, Dimension!Registered
<1>3. offer # {} => /\ n \notin DOMAIN store
                    /\ \E i \in EngineIds : offer = {i} /\ \A m \in DOMAIN store : store[m] # i
  BY DEF Dimension!Offers, Dimension!Entries, Dimension!Image
<1>4. store' = IF got = {} THEN store ELSE Dimension!With(store, n, Dimension!TheId(got))
  BY DEF Dimension!Add
<1>5. nat # {} => known'[n] = Dimension!TheId(nat)
  BY DEF Dimension!Add, Dimension!Write, Dimension!With, Dimension!IdFor
<1>6. toldIds' \subseteq toldIds \cup (IF nat # {} THEN {<<n, known'[n]>>} ELSE {})
  BY DEF Dimension!Add
<1> HIDE DEF got, nat, pre
<1>7. CASE got = {}
  <2>1. store' = store /\ nat = {} /\ toldIds' \subseteq toldIds
    BY <1>2, <1>4, <1>6, <1>7
  <2>2. Ledgered'
    BY <2>1 DEF Ledgered
  <2> QED
    BY <1>1, <2>1, <2>2, TheIdIsOne DEF nat, pre
<1>8. CASE got # {}
  <2>1. PICK i : got = {i}
    BY <1>1, <1>2, <1>3, <1>8
  <2>2. Dimension!TheId(got) = i /\ (nat # {} => Dimension!TheId(nat) = i)
    BY <1>2, <2>1, TheIdIsOne
  <2>3. /\ DOMAIN store' = DOMAIN store \cup {n} /\ store'[n] = i
        /\ \A m \in DOMAIN store : m # n => store'[m] = store[m]
    BY <1>4, <1>8, <2>2 DEF Dimension!With
  <2>4. /\ n \in DOMAIN store => store[n] = i
        /\ i \in EngineIds /\ \A m \in DOMAIN store : m # n => store[m] # i
    BY <1>1, <1>2, <1>3, <1>8, <2>1 DEF Ledgered
  <2>5. \A m \in DOMAIN store : m \in DOMAIN store' /\ store'[m] = store[m]
    BY <2>3, <2>4
  <2>6. nat # {} => known'[n] = i
    BY <1>5, <2>2
  <2>7. \A p \in toldIds' : p[1] \in DOMAIN store' /\ p[2] = store'[p[1]]
    <3>1. ASSUME NEW p \in toldIds PROVE p[1] \in DOMAIN store' /\ p[2] = store'[p[1]]
      BY <2>5 DEF Ledgered
    <3>2. ASSUME nat # {}, NEW p, p = <<n, known'[n]>>
          PROVE  p[1] \in DOMAIN store' /\ p[2] = store'[p[1]]
      BY <2>3, <2>6, <3>2
    <3> QED
      BY <1>6, <3>1, <3>2
  <2>8. Ledgered'
    BY <2>3, <2>4, <2>7 DEF Ledgered
  <2> QED
    BY <1>1, <2>2, <2>3, <2>5, <2>6, <2>8, TheIdIsOne DEF nat, pre
<1> QED
  BY <1>7, <1>8

\* What a registration writes of the name and leaves of the others.
LEMMA AddAgrees ==
  ASSUME TablesInv, NEW n, NEW offer, NEW group, NEW saves, NEW builds,
         Dimension!Add(n, offer, group, saves, builds)
  PROVE  /\ up' /\ \A m \in DOMAIN liveIds' : Agreed(m)'
         /\ \A m \in DOMAIN liveIds' : IF m = n THEN liveIds'[m] = known'[n]
                                       ELSE m \in DOMAIN liveIds /\ liveIds'[m] = liveIds[m]
<1> USE DEF TablesInv
<1> DEFINE id == known'[n]
           first == Dimension!BuiltEarly(n, builds, Dimension!Registered(n, offer, group))
           sofar == IF first = {} THEN built
                    ELSE Dimension!With(built, n, Dimension!TheId(first))
           probe == Dimension!Probe(n, builds, sofar)
<1>0. map' = Dimension!Remember(map, n, id)
  BY DEF Dimension!Add, Dimension!Write, Dimension!With
<1>7. /\ n \in DOMAIN map.name' /\ map.name'[n] = id
      /\ \A m \in DOMAIN map.name \ {n} : m \in DOMAIN map.name' /\ map.name'[m] = map.name[m]
  BY <1>0, RememberIs
<1>1. /\ up'
      /\ n \in DOMAIN known' /\ \A m \in DOMAIN known \ {n} : m \in DOMAIN known' /\ known'[m] = known[m]
      /\ n \in DOMAIN list' /\ list'[n].id = id
      /\ \A m \in DOMAIN list \ {n} : m \in DOMAIN list' /\ list'[m] = list[m]
  BY DEF Dimension!Add, Dimension!Write, Dimension!With
<1>2. \A m \in DOMAIN built \ {n} : m \in DOMAIN sofar /\ sofar[m] = built[m]
  BY DEF Dimension!With
<1>3. /\ built' = IF probe = {} THEN sofar
                  ELSE Dimension!With(sofar, n, Dimension!TheId(probe))
      /\ liveIds' = IF probe = {id} THEN Dimension!With(liveIds, n, id)
                    ELSE Dimension!Without(liveIds, {n})
  BY DEF Dimension!Add
<1> HIDE DEF sofar, probe, id
<1>4. \A m \in DOMAIN built \ {n} : m \in DOMAIN built' /\ built'[m] = built[m]
  BY <1>2, <1>3 DEF Dimension!With
<1>5. ASSUME NEW m \in DOMAIN liveIds', m # n
      PROVE  m \in DOMAIN liveIds /\ liveIds'[m] = liveIds[m] /\ Agreed(m)'
  <2>1. m \in DOMAIN liveIds /\ liveIds'[m] = liveIds[m]
    BY <1>3, <1>5 DEF Dimension!With, Dimension!Without
  <2> QED
    BY <1>1, <1>4, <1>5, <1>7, <2>1 DEF Agreed
<1>6. ASSUME n \in DOMAIN liveIds' PROVE liveIds'[n] = id /\ Agreed(n)'
  <2>1. probe = {id} /\ liveIds'[n] = id
    BY <1>3, <1>6 DEF Dimension!With, Dimension!Without
  <2>2. n \in DOMAIN built' /\ built'[n] = id
    BY <1>3, <2>1, TheIdIsOne DEF Dimension!With
  <2> QED
    BY <1>1, <1>7, <2>1, <2>2 DEF Agreed, id
<1> QED
  BY <1>1, <1>5, <1>6 DEF id

\* A registration with the engine gives every table the engine's id.
LEMMA AddEnginely ==
  ASSUME TablesInv, NEW n, NEW group, NEW saves, NEW builds,
         NEW offer \in Dimension!Offers(n, group),
         Dimension!Add(n, offer, group, saves, builds), ~fell'
  PROVE  Enginely'
<1> DEFINE nat == Dimension!Native(n, offer, group)
           id == known'[n]
           l == Dimension!Remember(ledger, n, id)
<1>1. nat # {} /\ Enginely
  BY DEF Dimension!Add, Dimension!Write, TablesInv
<1>2. /\ n \in DOMAIN store' /\ id = store'[n] /\ Dimension!TheId(nat) = id
      /\ \A m \in DOMAIN store : m \in DOMAIN store' /\ store'[m] = store[m]
      /\ Ledgered'
      /\ Dimension!Preexisting(n) # {} =>
           n \in DOMAIN store /\ Dimension!TheId(Dimension!Preexisting(n)) = store[n]
  BY <1>1, EngineGives DEF TablesInv
<1>3. \A m \in DOMAIN store' : m # n => store'[m] # id
  BY <1>2 DEF Ledgered
<1>4. /\ \A m \in DOMAIN map.name' : m = n \/ (m \in DOMAIN map.name /\ map.name'[m] = map.name[m])
      /\ map.name'[n] = id
      /\ id \in DOMAIN map.id' /\ map.id'[id] = n
      /\ \A i \in DOMAIN map.id :
           i = id \/ (i \in DOMAIN map.id' /\ map.id'[i] = map.id[i])
             \/ (n \in DOMAIN map.name /\ i = map.name[n])
  <2>1. map' = Dimension!Remember(map, n, id)
    BY DEF Dimension!Add, Dimension!Write, Dimension!With
  <2> QED
    BY <2>1, RememberIs
<1>5. defs' = Dimension!Defined(n, offer, group)
      /\ ledger' \in {l, Dimension!Remember(l, n, -1)}
      /\ (n \in DOMAIN liveIds' => ledger' = l)
  BY DEF Dimension!Add, Dimension!Without
<1>6. \A m \in DOMAIN liveIds' : IF m = n THEN liveIds'[m] = id
                                 ELSE m \in DOMAIN liveIds /\ liveIds'[m] = liveIds[m]
  BY AddAgrees
<1>7. \A m \in DOMAIN store : m # n => store[m] # id /\ store[m] # -1
  BY <1>2, <1>3, DimensionAssumption DEF TablesInv, Ledgered
<1> HIDE DEF nat, id
<1>8. \A m \in DOMAIN map.name' : m \in DOMAIN store' /\ map.name'[m] = store'[m]
  BY <1>1, <1>2, <1>4 DEF Enginely
<1>9. \A m \in DOMAIN defs' : m \in DOMAIN store' /\ defs'[m] = store'[m]
  <2> DEFINE pre == Dimension!Preexisting(n)
             added == IF n \in DOMAIN defs \/ group # "takes" THEN defs
                      ELSE Dimension!With(defs, n,
                             IF pre = {} THEN -1 ELSE Dimension!TheId(pre))
  <2>1. defs' = IF pre = {} /\ n \in DOMAIN added THEN Dimension!With(added, n, id) ELSE added
    BY <1>1, <1>2, <1>5 DEF Dimension!Defined, Dimension!Entries, nat
  <2>2. \A m \in DOMAIN added : m # n => m \in DOMAIN defs /\ added[m] = defs[m]
    BY DEF Dimension!With
  <2>3. pre # {} /\ n \in DOMAIN added => added[n] = store[n]
    BY <1>1, <1>2 DEF Dimension!With, Enginely
  <2> HIDE DEF pre, added
  <2>4. ASSUME NEW m \in DOMAIN defs', m # n PROVE m \in DOMAIN store' /\ defs'[m] = store'[m]
    BY <1>1, <1>2, <2>1, <2>2, <2>4 DEF Dimension!With, Enginely
  <2>5. ASSUME n \in DOMAIN defs' PROVE defs'[n] = store'[n]
    BY <1>2, <2>1, <2>3, <2>5 DEF Dimension!With, pre
  <2> QED
    BY <1>2, <2>4, <2>5
<1>10. \A m \in DOMAIN l.name : m = n \/ (m \in DOMAIN ledger.name /\ l.name[m] = ledger.name[m])
  BY DEF Dimension!Remember, Dimension!With
<1>11. /\ l.name[n] = id /\ id \in DOMAIN l.id /\ l.id[id] = n
       /\ \A i \in DOMAIN ledger.id :
            i = id \/ (i \in DOMAIN l.id /\ l.id[i] = ledger.id[i])
              \/ (n \in DOMAIN ledger.name /\ i = ledger.name[n])
  BY RememberIs
<1>12. n \in DOMAIN l.name
  BY RememberIs
<1> HIDE DEF l
<1>13. /\ \A m \in DOMAIN ledger'.name : m = n \/ (m \in DOMAIN l.name /\ ledger'.name[m] = l.name[m])
       /\ ledger'.name[n] \in {id, -1}
       /\ \A i \in DOMAIN l.id :
            i = id \/ i = -1 \/ (i \in DOMAIN ledger'.id /\ ledger'.id[i] = l.id[i])
  <2> DEFINE f == Dimension!Remember(l, n, -1)
  <2>1. /\ DOMAIN f.name = DOMAIN l.name \cup {n} /\ f.name[n] = -1
        /\ \A m \in DOMAIN l.name : m # n => f.name[m] = l.name[m]
        /\ \A i \in DOMAIN l.id :
             i = -1 \/ (i \in DOMAIN f.id /\ f.id[i] = l.id[i]) \/ i = l.name[n]
    BY RememberIs
  <2>2. ledger' = l \/ ledger' = f
    BY <1>5
  <2> QED
    BY <1>11, <2>1, <2>2
<1>14. \A m \in DOMAIN ledger'.name : m \in DOMAIN store' /\ ledger'.name[m] \in {store'[m], -1}
  BY <1>1, <1>2, <1>10, <1>13 DEF Enginely
<1>15. ASSUME NEW m \in DOMAIN liveIds', m # n
       PROVE  /\ m \in DOMAIN store' /\ liveIds'[m] = store'[m]
              /\ store'[m] \in DOMAIN ledger'.id /\ ledger'.id[store'[m]] = m
              /\ store'[m] \in DOMAIN map.id' /\ map.id'[store'[m]] = m
  <2>1. /\ m \in DOMAIN liveIds /\ liveIds'[m] = liveIds[m]
        /\ m \in DOMAIN store /\ liveIds[m] = store[m] /\ store'[m] = store[m]
        /\ store[m] \in DOMAIN ledger.id /\ ledger.id[store[m]] = m
        /\ store[m] \in DOMAIN map.id /\ map.id[store[m]] = m
    BY <1>1, <1>2, <1>6, <1>15 DEF Enginely
  <2>2. store[m] # id /\ store[m] # -1
    BY <1>7, <1>15, <2>1
  <2>3. /\ n \in DOMAIN map.name => map.name[n] = id
        /\ n \in DOMAIN ledger.name => ledger.name[n] \in {id, -1}
    BY <1>1, <1>2 DEF Enginely
  <2>4. store[m] \in DOMAIN map.id' /\ map.id'[store[m]] = m
    BY <1>4, <2>1, <2>2, <2>3
  <2>5. store[m] \in DOMAIN l.id /\ l.id[store[m]] = m
    BY <1>11, <2>1, <2>2, <2>3
  <2> QED
    BY <1>2, <1>13, <2>1, <2>2, <2>4, <2>5
<1>16. ASSUME n \in DOMAIN liveIds'
       PROVE  /\ n \in DOMAIN store' /\ liveIds'[n] = store'[n]
              /\ store'[n] \in DOMAIN ledger'.id /\ ledger'.id[store'[n]] = n
              /\ store'[n] \in DOMAIN map.id' /\ map.id'[store'[n]] = n
  BY <1>2, <1>4, <1>5, <1>6, <1>11, <1>16
<1> QED
  BY <1>8, <1>9, <1>14, <1>15, <1>16 DEF Enginely

LEMMA TablesStep == TablesInv /\ [Dimension!Next]_dimVars => TablesInv'
<1> SUFFICES ASSUME TablesInv, [Dimension!Next]_dimVars PROVE TablesInv'
  OBVIOUS
<1>1. CASE Dimension!Start
  BY <1>1 DEF Dimension!Start, Dimension!Blank, Dimension!NoPair, TablesInv, Ledgered, Enginely
<1>2. ASSUME NEW n \in DimNames, Dimension!Spoil(n) PROVE TablesInv'
  BY <1>2 DEF Dimension!Spoil, TablesInv, Agreed, Ledgered, Enginely
<1>3. ASSUME NEW loads, NEW saves, Dimension!Construct(loads, saves) PROVE TablesInv'
  BY <1>3 DEF Dimension!Construct, TablesInv, Ledgered, Enginely
<1>4. CASE UNCHANGED dimVars
  BY <1>4 DEF dimVars, TablesInv, Agreed, Ledgered, Enginely
<1>5. ASSUME NEW n \in DimNames, NEW saves \in BOOLEAN,
             NEW group \in Dimension!Groups(n), NEW builds \in Dimension!Builds(n),
             NEW offer \in Dimension!Offers(n, group),
             Dimension!Add(n, offer, group, saves, builds)
      PROVE  TablesInv'
  <2>1. up' /\ \A m \in DOMAIN liveIds' : Agreed(m)'
    BY <1>5, AddAgrees
  <2>2. Ledgered'
    BY <1>5, EngineGives DEF TablesInv
  <2>3. ~fell' => Enginely'
    BY <1>5, AddEnginely
  <2> QED
    BY <2>1, <2>2, <2>3 DEF TablesInv
<1> QED
  BY <1>1, <1>2, <1>3, <1>4, <1>5 DEF Dimension!Next

LEMMA TablesHold == TablesInv => IdsHold
<1> SUFFICES ASSUME TablesInv PROVE IdsHold
  OBVIOUS
<1>1. \A p, q \in toldIds : p[1] = q[1] <=> p[2] = q[2]
  BY DEF TablesInv, Ledgered
<1>2. ASSUME NEW n \in DOMAIN liveIds
      PROVE  built[n] = liveIds[n] /\ Dimension!GetDimensionId(n) = liveIds[n]
  BY DEF TablesInv, Agreed, Dimension!GetDimensionId, Dimension!Entries
<1>3. ASSUME ~fell, NEW n \in DOMAIN liveIds
      PROVE  /\ liveIds[n] \in DOMAIN ledger.id /\ ledger.id[liveIds[n]] = n
             /\ liveIds[n] \in DOMAIN map.id /\ map.id[liveIds[n]] = n
             /\ n \in DOMAIN defs => defs[n] = liveIds[n]
  BY <1>3 DEF TablesInv, Enginely
<1> QED
  BY <1>1, <1>2, <1>3 DEF IdsHold, Dimension!IdsHold, Dimension!Entries

-----------------------------------------------------------------------------
(* Acts of players.                                                        *)

ActRecord == [act : DOMAIN Path, path : Seq(STRING), asking : BOOLEAN, asked : Nat,
              refused : BOOLEAN, done : BOOLEAN, due : BOOLEAN]

\* The flag of event e is set around act d: a subscriber is being asked.
Held(d, e) ==
  e \in Act!Flagged /\ \E i \in 1..d - 1 : Act!Event(Head(acts[i].path)) = e

\* The functions of act d that ask about it, as things were when it began.
AsksOf(d) ==
  {h \in detours : /\ h # "effect" /\ Act!Event(h) \in live /\ ~Held(d, Act!Event(h))
                   /\ acts[d].act \notin Detours[h].passes}

\* How far act d has come, and what it has passed.
Passed(d) == Len(Path[acts[d].act]) - Len(acts[d].path)

\* Act d on its way: it has asked if it passed somebody to ask, and what it has not
\* passed is ahead.
OnItsWay(d) ==
  LET f == acts[d]
      p == Path[f.act]
      k == Passed(d)
  IN  /\ k >= 0 /\ \A i \in DOMAIN f.path : f.path[i] = p[k + i]
      /\ f.asked > 0 <=> \E i \in 1..(IF f.asking THEN k + 1 ELSE k) : p[i] \in AsksOf(d)
      /\ f.done <=> \E i \in 1..k : p[i] = "effect"

ActOk(d) ==
  LET f == acts[d] IN
  /\ f.due <=> \E i \in DOMAIN Path[f.act] : Path[f.act][i] \in AsksOf(d)
  /\ f.refused => f.asked > 0 /\ f.path = <<>> /\ ~f.done /\ ~f.asking /\ f.due
  /\ f.asking => f.path # <<>> /\ Head(f.path) \in AsksOf(d)
  /\ ~f.refused => OnItsWay(d)
  /\ f.act = "trident" => f.asked <= 1 /\ (Passed(d) = 0 /\ ~f.asking => f.asked = 0)

ActInv ==
  /\ acts \in Seq(ActRecord)
  /\ \A e : e \in dispatching <=> /\ e \in Act!Flagged
                                  /\ \E i \in DOMAIN acts : /\ acts[i].asking
                                                            /\ Act!Event(Head(acts[i].path)) = e
  /\ \A d \in DOMAIN acts : ActOk(d) /\ (d < Len(acts) => acts[d].asking)
  /\ NothingUnasked

LEMMA PathIs ==
  ASSUME NEW a \in DOMAIN Path
  PROVE  /\ Path[a] \in Seq(STRING) /\ DOMAIN Path[a] = 1..Len(Path[a]) /\ Len(Path[a]) > 0
         /\ \E i \in DOMAIN Path[a] : Path[a][i] = "effect"
         /\ \A i, j \in DOMAIN Path[a] :
              i < j /\ Path[a][i] = "effect" => Act!Event(Path[a][j]) \in Act!ObserveOnly
         /\ a = "trident" => \A i \in DOMAIN Path[a] \ {1} :
              Path[a][i] = "effect" \/ a \in Detours[Path[a][i]].passes
BY PathAssumption

\* What is so of an act stays so while it and those around it rest.
LEMMA ActRests ==
  ASSUME NEW d \in Nat, \A i \in 1..d : acts'[i] = acts[i], d > 0, UNCHANGED <<live, detours>>
  PROVE  AsksOf(d)' = AsksOf(d) /\ Passed(d)' = Passed(d) /\ (ActOk(d) => ActOk(d)')
<1>1. \A e : Held(d, e)' <=> Held(d, e)
  BY DEF Held
<1>2. acts'[d] = acts[d]
  OBVIOUS
<1>3. AsksOf(d)' = AsksOf(d)
  BY <1>1, <1>2 DEF AsksOf
<1>4. Passed(d)' = Passed(d)
  BY <1>2 DEF Passed
<1>5. OnItsWay(d) => OnItsWay(d)'
  BY <1>2, <1>3, <1>4, Zenon DEF OnItsWay
<1>6. ActOk(d) => ActOk(d)'
  BY <1>2, <1>3, <1>4, <1>5, Zenon DEF ActOk
<1> QED
  BY <1>3, <1>4, <1>6

\* The innermost act asks by the flags of those around it.
LEMMA TopAsks ==
  ASSUME ActInv, acts # <<>>, ~Act!Top.asking, NEW h, h # "effect"
  PROVE  Act!Asks(h, Act!Top.act) <=> h \in AsksOf(Len(acts))
<1>1. Len(acts) \in DOMAIN acts /\ DOMAIN acts = 1..Len(acts) /\ Act!Top = acts[Len(acts)]
  BY DEF ActInv, Act!Top
<1>2. \A i \in DOMAIN acts : acts[i].asking <=> i \in 1..Len(acts) - 1
  BY <1>1 DEF ActInv
<1>3. \A e : e \in dispatching <=> Held(Len(acts), e)
  BY <1>1, <1>2 DEF ActInv, Held
<1> QED
  BY <1>1, <1>3 DEF Act!Asks, AsksOf

LEMMA ActBegins ==
  ASSUME ActInv, NEW a \in DOMAIN Path, Act!Begin(a)
  PROVE  ActInv'
<1> DEFINE owe == \E i \in DOMAIN Path[a] : Path[a][i] # "effect" /\ Act!Asks(Path[a][i], a)
<1>1. PICK n \in Nat : n = Len(acts) + 1
  BY DEF ActInv
<1>2. PICK new : new = [act |-> a, path |-> Path[a], asking |-> FALSE, asked |-> 0,
                        refused |-> FALSE, done |-> FALSE, due |-> owe]
  OBVIOUS
<1>3. acts' = Append(acts, new)
  BY <1>2, Zenon DEF Act!Begin
<1>4. UNCHANGED <<live, detours, dispatching>> /\ ended' = Act!NoAct
      /\ (acts # <<>> => Act!Top.asking)
  BY DEF Act!Begin, Act!hookVars
<1>5. new.act = a /\ new.path = Path[a] /\ new.asked = 0
  BY <1>2
<1>6. ~new.asking /\ ~new.refused /\ ~new.done /\ (new.due <=> owe)
  BY <1>2, Zenon
<1>7. new \in ActRecord
  <2>1. Path[a] \in Seq(STRING) /\ owe \in BOOLEAN /\ 0 \in Nat
    BY PathIs
  <2> QED
    BY <1>2, <2>1, Zenon DEF ActRecord
<1> HIDE DEF owe
<1>8. /\ acts' \in Seq(ActRecord) /\ Len(acts') = n /\ DOMAIN acts' = 1..n
      /\ DOMAIN acts = 1..n - 1 /\ acts'[n] = new
      /\ \A i \in 1..n - 1 : acts'[i] = acts[i]
  BY <1>1, <1>3, <1>7 DEF ActInv
<1>9. \A i \in DOMAIN acts : acts[i].asking
  BY <1>1, <1>4, <1>8 DEF ActInv, Act!Top
<1>10. \A e : e \in dispatching' <=>
         e \in Act!Flagged /\ \E i \in DOMAIN acts' : /\ acts'[i].asking
                                                      /\ Act!Event(Head(acts'[i].path)) = e
  BY <1>4, <1>6, <1>8 DEF ActInv
<1>11. \A e : Held(n, e)' <=> e \in dispatching
  BY <1>8, <1>9 DEF ActInv, Held
<1>12. \A h : h \in AsksOf(n)' <=> h # "effect" /\ Act!Asks(h, a)
  BY <1>4, <1>5, <1>8, <1>11 DEF AsksOf, Act!Asks
<1>13. ActOk(n)'
  <2>1. Passed(n)' = 0 /\ Len(Path[a]) > 0
    BY <1>5, <1>8, PathIs DEF Passed
  <2>2. OnItsWay(n)'
    BY <1>5, <1>6, <1>8, <2>1 DEF OnItsWay
  <2>3. owe <=> \E i \in DOMAIN Path[a] : Path[a][i] \in AsksOf(n)'
    BY <1>12 DEF owe
  <2> QED
    BY <1>5, <1>6, <1>8, <2>1, <2>2, <2>3 DEF ActOk
<1>14. ASSUME NEW d \in DOMAIN acts PROVE ActOk(d)' /\ acts'[d].asking
  BY <1>4, <1>8, <1>9, ActRests DEF ActInv
<1>15. NothingUnasked'
  <2>1. acts' # <<>>
    BY <1>3, <1>8
  <2> QED
    BY <1>4, <2>1, Zenon DEF NothingUnasked, Act!NothingUnasked
<1> QED
  BY <1>8, <1>10, <1>13, <1>14, <1>15 DEF ActInv

-----------------------------------------------------------------------------
\* Whose flags are set, seen from the innermost act.
LEMMA TopHolds ==
  ASSUME ActInv, acts # <<>>
  PROVE  /\ Len(acts) \in DOMAIN acts /\ Len(acts) \in Nat /\ Len(acts) > 0
         /\ DOMAIN acts = 1..Len(acts)
         /\ Act!Top = acts[Len(acts)] /\ Act!Top \in ActRecord /\ ActOk(Len(acts))
         /\ \A e : e \in dispatching <=>
              /\ e \in Act!Flagged
              /\ \/ Held(Len(acts), e)
                 \/ Act!Top.asking /\ Act!Event(Head(Act!Top.path)) = e
<1>1. /\ Len(acts) \in DOMAIN acts /\ DOMAIN acts = 1..Len(acts) /\ Len(acts) \in Nat
      /\ Len(acts) > 0 /\ Act!Top = acts[Len(acts)] /\ Act!Top \in ActRecord
  BY DEF ActInv, Act!Top
<1>2. \A i \in DOMAIN acts : i \in 1..Len(acts) - 1 => acts[i].asking
  BY <1>1 DEF ActInv
<1>3. \A e : e \in dispatching <=>
              /\ e \in Act!Flagged
              /\ \/ Held(Len(acts), e)
                 \/ Act!Top.asking /\ Act!Event(Head(Act!Top.path)) = e
  BY <1>1, <1>2 DEF ActInv, Held
<1> QED
  BY <1>1, <1>3 DEF ActInv

\* A step of the innermost act leaves the invariant as it is, if it is so of this act
\* and of the flags.
LEMMA TopMoves ==
  ASSUME ActInv, acts # <<>>, NEW n \in Nat, n = Len(acts), NEW g \in ActRecord,
         acts' = [acts EXCEPT ![n] = g], UNCHANGED <<live, detours>>, ended' = Act!NoAct,
         ActOk(n)',
         \A e : e \in dispatching' <=>
           /\ e \in Act!Flagged
           /\ Held(n, e) \/ (g.asking /\ Act!Event(Head(g.path)) = e)
  PROVE  ActInv'
<1>1. /\ acts' \in Seq(ActRecord) /\ Len(acts') = n /\ DOMAIN acts' = 1..n /\ n > 0
      /\ DOMAIN acts = 1..n /\ acts'[n] = g
      /\ \A i \in 1..n - 1 : acts'[i] = acts[i]
  BY DEF ActInv
<1>2. ASSUME NEW d \in 1..n - 1 PROVE ActOk(d)' /\ acts'[d].asking
  <2>1. acts[d].asking /\ ActOk(d) /\ \A i \in 1..d : acts'[i] = acts[i]
    BY <1>1 DEF ActInv
  <2> QED
    BY <1>1, <2>1, ActRests
<1>3. \A e : Held(n, e) <=> e \in Act!Flagged /\
               \E i \in 1..n - 1 : acts'[i].asking /\ Act!Event(Head(acts'[i].path)) = e
  BY <1>1, <1>2 DEF Held
<1>4. \A e : e \in dispatching' <=>
        e \in Act!Flagged /\ \E i \in DOMAIN acts' : /\ acts'[i].asking
                                                     /\ Act!Event(Head(acts'[i].path)) = e
  BY <1>1, <1>3
<1>5. NothingUnasked'
  <2>1. acts' # <<>>
    BY <1>1
  <2> QED
    BY <2>1, Zenon DEF NothingUnasked, Act!NothingUnasked
<1> QED
  BY <1>1, <1>2, <1>4, <1>5 DEF ActInv

-----------------------------------------------------------------------------
LEMMA HeadAndTail ==
  ASSUME NEW S, NEW s \in Seq(S), s # <<>>
  PROVE  /\ Len(s) \in Nat /\ Len(s) > 0 /\ DOMAIN s = 1..Len(s) /\ Head(s) = s[1]
         /\ Tail(s) \in Seq(S) /\ Len(Tail(s)) = Len(s) - 1
         /\ DOMAIN Tail(s) = 1..Len(s) - 1
         /\ \A i \in 1..Len(s) - 1 : Tail(s)[i] = s[i + 1]
OBVIOUS

\* What the innermost act has ahead.
LEMMA TopAhead ==
  ASSUME ActInv, acts # <<>>, NEW n \in Nat, n = Len(acts), Act!Top.path # <<>>,
         NEW p, p = Path[Act!Top.act], NEW k, k = Passed(n)
  PROVE  /\ ~Act!Top.refused /\ OnItsWay(n) /\ k \in Nat
         /\ k + 1 \in DOMAIN p /\ p[k + 1] = Head(Act!Top.path)
         /\ Tail(Act!Top.path) \in Seq(STRING)
         /\ Len(Tail(Act!Top.path)) = Len(p) - (k + 1)
         /\ \A i \in DOMAIN Tail(Act!Top.path) : Tail(Act!Top.path)[i] = p[k + 1 + i]
<1> DEFINE f == Act!Top
<1>1. f = acts[n] /\ f \in ActRecord /\ ActOk(n)
  BY TopHolds
<1>2. f.path \in Seq(STRING) /\ Len(f.path) > 0 /\ f.act \in DOMAIN Path
  BY <1>1 DEF ActRecord
<1>3. ~f.refused /\ OnItsWay(n)
  BY <1>1 DEF ActOk
<1>4. p \in Seq(STRING) /\ Len(p) \in Nat /\ DOMAIN p = 1..Len(p)
  BY <1>2, PathIs
<1>5. k = Len(p) - Len(f.path)
  BY <1>1 DEF Passed
<1>6. k >= 0 /\ \A i \in DOMAIN f.path : f.path[i] = p[k + i]
  BY <1>1, <1>3 DEF OnItsWay
<1>7. k \in Nat /\ k + 1 \in DOMAIN p /\ p[k + 1] = Head(f.path)
  <2>1. 1 \in DOMAIN f.path /\ Head(f.path) = f.path[1]
    BY <1>2, HeadAndTail
  <2>2. Len(f.path) \in Nat /\ Len(p) \in Nat
    BY <1>2, <1>4
  <2>3. k \in Nat /\ k + 1 \in 1..Len(p)
    <3>1. k >= 0 /\ Len(f.path) > 0
      BY <1>2, <1>6
    <3>2. \A x, y \in Nat : y > 0 /\ x - y >= 0 => x - y \in Nat /\ x - y + 1 \in 1..x
      OBVIOUS
    <3> QED
      BY <1>5, <2>2, <3>1, <3>2, Zenon
  <2>4. f.path[1] = p[k + 1]
    BY <1>6, <2>1
  <2> QED
    BY <1>4, <2>1, <2>3, <2>4
<1>8. /\ Tail(f.path) \in Seq(STRING) /\ Len(Tail(f.path)) = Len(f.path) - 1
      /\ DOMAIN Tail(f.path) = 1..Len(f.path) - 1
      /\ \A i \in 1..Len(f.path) - 1 : Tail(f.path)[i] = f.path[i + 1]
  BY <1>2, HeadAndTail
<1>9. Len(Tail(f.path)) = Len(p) - (k + 1)
  BY <1>2, <1>4, <1>5, <1>8
<1>10. \A i \in DOMAIN Tail(f.path) : Tail(f.path)[i] = p[k + 1 + i]
  <2> SUFFICES ASSUME NEW i \in DOMAIN Tail(f.path) PROVE Tail(f.path)[i] = p[k + 1 + i]
    OBVIOUS
  <2>1. i \in 1..Len(f.path) - 1 /\ i + 1 \in DOMAIN f.path
    BY <1>2, <1>8
  <2>2. k + (i + 1) = k + 1 + i
    BY <1>7, <2>1
  <2> QED
    BY <1>6, <1>8, <2>1, <2>2
<1> QED
  BY <1>3, <1>7, <1>8, <1>9, <1>10, Zenon

\* The acts around the innermost one are as they were.
LEMMA TopKeeps ==
  ASSUME ActInv, acts # <<>>, NEW n \in Nat, n = Len(acts), NEW g \in ActRecord,
         acts' = [acts EXCEPT ![n] = g], UNCHANGED <<live, detours>>, g.act = Act!Top.act
  PROVE  /\ acts'[n] = g /\ AsksOf(n)' = AsksOf(n) /\ \A e : Held(n, e)' <=> Held(n, e)
         /\ Passed(n)' = Len(Path[Act!Top.act]) - Len(g.path)
<1>1. n \in DOMAIN acts /\ DOMAIN acts = 1..n /\ acts'[n] = g /\ Act!Top = acts[n]
      /\ \A i \in 1..n - 1 : acts'[i] = acts[i]
  BY TopHolds
<1>2. \A e : Held(n, e)' <=> Held(n, e)
  BY <1>1 DEF Held
<1> QED
  BY <1>1, <1>2 DEF AsksOf, Passed

LEMMA ActAsks ==
  ASSUME ActInv, Act!Ask
  PROVE  ActInv'
<1> DEFINE f == Act!Top
<1>1. PICK n \in Nat : n = Len(acts)
  BY DEF ActInv
<1>2. PICK p, k : p = Path[f.act] /\ k = Passed(n)
  OBVIOUS
<1>3. PICK g : g = [f EXCEPT !.asking = TRUE, !.asked = @ + 1]
  OBVIOUS
<1>4. /\ acts # <<>> /\ ~f.asking /\ f.path # <<>> /\ Head(f.path) # "effect"
      /\ Act!Asks(Head(f.path), f.act)
      /\ acts' = [acts EXCEPT ![n] = g] /\ UNCHANGED <<live, detours>> /\ ended' = Act!NoAct
      /\ dispatching' = dispatching \cup ({Act!Event(Head(f.path))} \cap Act!Flagged)
  BY <1>1, <1>3, Zenon DEF Act!Ask, Act!Running, Act!At, Act!SetTop, Act!hookVars
<1>5. f \in ActRecord /\ f = acts[n] /\ ActOk(n)
  BY <1>1, <1>4, TopHolds
<1>6. f.asked \in Nat /\ f.act \in DOMAIN Path
  BY <1>5 DEF ActRecord
<1>7. g \in ActRecord /\ g.asking = TRUE /\ g.refused = f.refused /\ g.done = f.done
      /\ g.due = f.due /\ g.act = f.act /\ g.path = f.path /\ g.asked = f.asked + 1
  <2>1. f.asked + 1 \in Nat
    BY <1>6
  <2> QED
    BY <1>3, <1>5, <2>1, Zenon DEF ActRecord
<1>8. /\ ~f.refused /\ OnItsWay(n) /\ k \in Nat
      /\ k + 1 \in DOMAIN p /\ p[k + 1] = Head(f.path)
  BY <1>1, <1>2, <1>4, TopAhead
<1>9. Head(f.path) \in AsksOf(n)
  BY <1>1, <1>4, TopAsks
<1>10. /\ acts'[n] = g /\ AsksOf(n)' = AsksOf(n) /\ Passed(n)' = k
  BY <1>1, <1>2, <1>4, <1>5, <1>7, TopKeeps DEF Passed
<1>11. OnItsWay(n)'
  <2>1. \A i \in DOMAIN f.path : f.path[i] = p[k + i]
    BY <1>2, <1>5, <1>8 DEF OnItsWay
  <2>2. \E i \in 1..k + 1 : p[i] \in AsksOf(n)
    BY <1>8, <1>9
  <2>3. f.done <=> \E i \in 1..k : p[i] = "effect"
    BY <1>2, <1>5, <1>8 DEF OnItsWay
  <2> QED
    BY <1>2, <1>6, <1>7, <1>8, <1>10, <2>1, <2>2, <2>3 DEF OnItsWay
<1>12. f.act = "trident" => k = 0 /\ f.asked = 0
  <2>1. f.act \notin Detours[Head(f.path)].passes
    BY <1>5, <1>9 DEF AsksOf
  <2>2. f.act = "trident" => k + 1 = 1
    BY <1>2, <1>4, <1>6, <1>8, <2>1, PathIs
  <2> QED
    BY <1>2, <1>4, <1>5, <1>8, <2>2 DEF ActOk
<1>13. ActOk(n)'
  <2>1. f.due <=> \E i \in DOMAIN p : p[i] \in AsksOf(n)
    BY <1>2, <1>5 DEF ActOk
  <2> QED
    BY <1>2, <1>4, <1>6, <1>7, <1>8, <1>9, <1>10, <1>11, <1>12, <2>1 DEF ActOk
<1>14. \A e : e \in dispatching' <=>
         /\ e \in Act!Flagged
         /\ Held(n, e) \/ (g.asking /\ Act!Event(Head(g.path)) = e)
  BY <1>1, <1>4, <1>7, TopHolds
<1> QED
  BY <1>1, <1>4, <1>7, <1>13, <1>14, TopMoves

-----------------------------------------------------------------------------
\* Going on: what is ahead is one shorter.
LEMMA ActGoesOn ==
  ASSUME ActInv, acts # <<>>, NEW n \in Nat, n = Len(acts), Act!Top.path # <<>>,
         NEW g \in ActRecord, acts' = [acts EXCEPT ![n] = g], UNCHANGED <<live, detours>>,
         g.act = Act!Top.act, g.path = Tail(Act!Top.path), g.asked = Act!Top.asked,
         g.due = Act!Top.due, g.asking = FALSE, g.refused = FALSE,
         Act!Top.asking \/ Head(Act!Top.path) \notin AsksOf(n),
         g.done <=> Act!Top.done \/ Head(Act!Top.path) = "effect"
  PROVE  ActOk(n)'
<1> DEFINE f == Act!Top
<1>1. PICK p, k : p = Path[f.act] /\ k = Passed(n)
  OBVIOUS
<1>2. f \in ActRecord /\ f = acts[n] /\ ActOk(n)
  BY TopHolds
<1>3. f.act \in DOMAIN Path /\ f.asked \in Nat
  BY <1>2 DEF ActRecord
<1>4. /\ OnItsWay(n) /\ k \in Nat /\ k + 1 \in DOMAIN p /\ p[k + 1] = Head(f.path)
      /\ Len(g.path) = Len(p) - (k + 1)
      /\ \A i \in DOMAIN g.path : g.path[i] = p[k + 1 + i]
  BY <1>1, TopAhead, SMTT(20)
<1>5. Len(p) \in Nat
  BY <1>1, <1>3, PathIs
<1>6. acts'[n] = g /\ AsksOf(n)' = AsksOf(n) /\ Passed(n)' = k + 1
  <2>1. acts'[n] = g /\ AsksOf(n)' = AsksOf(n) /\ Passed(n)' = Len(p) - Len(g.path)
    BY <1>1, TopKeeps
  <2> QED
    BY <1>4, <1>5, <2>1
<1>7. f.asked > 0 <=> \E i \in 1..k + 1 : p[i] \in AsksOf(n)
  <2>1. f.asked > 0 <=> \E i \in 1..(IF f.asking THEN k + 1 ELSE k) : p[i] \in AsksOf(n)
    BY <1>1, <1>2, <1>4 DEF OnItsWay
  <2>2. ~f.asking => p[k + 1] \notin AsksOf(n)
    BY <1>4
  <2> QED
    BY <1>4, <2>1, <2>2
<1>8. g.done <=> \E i \in 1..k + 1 : p[i] = "effect"
  <2>1. f.done <=> \E i \in 1..k : p[i] = "effect"
    BY <1>1, <1>2, <1>4 DEF OnItsWay
  <2> QED
    BY <1>4, <2>1
<1>9. OnItsWay(n)'
  <2>1. Path[acts'[n].act] = p /\ acts'[n].path = g.path /\ acts'[n].asked = f.asked
    BY <1>1, <1>6
  <2>2. acts'[n].asking = FALSE /\ acts'[n].done = g.done
    BY <1>6
  <2>3. Passed(n)' >= 0
    BY <1>4, <1>6
  <2>4. \A i \in DOMAIN acts'[n].path :
          acts'[n].path[i] = Path[acts'[n].act][Passed(n)' + i]
    BY <1>4, <1>6, <2>1
  <2>5. acts'[n].asked > 0 <=>
          \E i \in 1..(IF acts'[n].asking THEN Passed(n)' + 1 ELSE Passed(n)') :
            Path[acts'[n].act][i] \in AsksOf(n)'
    BY <1>6, <1>7, <2>1, <2>2
  <2>6. acts'[n].done <=> \E i \in 1..Passed(n)' : Path[acts'[n].act][i] = "effect"
    BY <1>6, <1>8, <2>1, <2>2
  <2> QED
    BY <2>3, <2>4, <2>5, <2>6, Zenon DEF OnItsWay
<1>10. f.due <=> \E i \in DOMAIN p : p[i] \in AsksOf(n)
  BY <1>1, <1>2 DEF ActOk
<1>11. f.act = "trident" => f.asked <= 1
  BY <1>2 DEF ActOk
<1> QED
  BY <1>1, <1>4, <1>6, <1>9, <1>10, <1>11 DEF ActOk

LEMMA ActPasses ==
  ASSUME ActInv, Act!Pass \/ Act!Effect
  PROVE  ActInv'
<1> DEFINE f == Act!Top
<1>1. PICK n \in Nat : n = Len(acts)
  BY DEF ActInv
<1>2. PICK b \in BOOLEAN : b <=> f.done \/ Head(f.path) = "effect"
  OBVIOUS
<1>3. PICK g : g = [f EXCEPT !.path = Tail(@), !.done = b]
  OBVIOUS
<1>4. /\ acts # <<>> /\ ~f.asking /\ f.path # <<>>
      /\ UNCHANGED <<live, detours, dispatching>> /\ ended' = Act!NoAct
  BY Zenon DEF Act!Pass, Act!Effect, Act!Running, Act!hookVars
<1>5. f \in ActRecord /\ f = acts[n] /\ ActOk(n)
  BY <1>1, <1>4, TopHolds
<1>6. acts' = [acts EXCEPT ![n] = g]
  <2>1. CASE Act!Pass
    <3>1. acts' = [acts EXCEPT ![n] = [f EXCEPT !.path = Tail(@)]] /\ Head(f.path) # "effect"
      BY <1>1, <2>1, Zenon DEF Act!Pass, Act!SetTop, Act!At
    <3>2. g = [f EXCEPT !.path = Tail(@)]
      BY <1>2, <1>3, <1>5, <3>1, Zenon DEF ActRecord
    <3> QED
      BY <3>1, <3>2
  <2>2. CASE Act!Effect
    <3>1. /\ acts' = [acts EXCEPT ![n] = [f EXCEPT !.path = Tail(@), !.done = TRUE]]
          /\ Head(f.path) = "effect"
      BY <1>1, <2>2, Zenon DEF Act!Effect, Act!SetTop, Act!At
    <3>2. b = TRUE
      BY <1>2, <3>1
    <3> QED
      BY <1>3, <3>1, <3>2
  <2> QED
    BY <2>1, <2>2
<1>7. /\ g \in ActRecord /\ g.act = f.act /\ g.path = Tail(f.path) /\ g.asked = f.asked
      /\ g.due = f.due /\ g.asking = f.asking /\ g.refused = f.refused /\ g.done = b
  <2>1. Tail(f.path) \in Seq(STRING)
    BY <1>1, <1>4, TopAhead
  <2> QED
    BY <1>3, <1>5, <2>1, Zenon DEF ActRecord
<1>8. Head(f.path) \notin AsksOf(n)
  <2>1. CASE Act!Pass
    BY <1>1, <1>4, <2>1, TopAsks DEF Act!Pass, Act!At
  <2>2. CASE Act!Effect
    BY <2>2 DEF Act!Effect, Act!At, AsksOf
  <2> QED
    BY <2>1, <2>2
<1>9. f.asking = FALSE /\ f.refused = FALSE
  <2>1. f.asking \in BOOLEAN /\ f.refused \in BOOLEAN
    BY <1>5, Zenon DEF ActRecord
  <2>2. ~f.refused
    BY <1>1, <1>4, TopAhead
  <2> QED
    BY <1>4, <2>1, <2>2
<1>10. ActOk(n)'
  BY <1>1, <1>2, <1>4, <1>6, <1>7, <1>8, <1>9, ActGoesOn
<1>11. \A e : e \in dispatching' <=>
         /\ e \in Act!Flagged
         /\ Held(n, e) \/ (g.asking /\ Act!Event(Head(g.path)) = e)
  BY <1>1, <1>4, <1>7, TopHolds
<1> QED
  BY <1>1, <1>4, <1>6, <1>7, <1>10, <1>11, TopMoves

-----------------------------------------------------------------------------
LEMMA ActAnswered ==
  ASSUME ActInv, NEW refuse \in BOOLEAN, Act!Answer(refuse)
  PROVE  ActInv'
<1> DEFINE f == Act!Top
<1>1. PICK n \in Nat : n = Len(acts)
  BY DEF ActInv
<1>2. PICK no \in BOOLEAN : no <=> refuse /\ Act!Event(Head(f.path)) \notin Act!ObserveOnly
  OBVIOUS
<1>3. PICK p, k : p = Path[f.act] /\ k = Passed(n)
  OBVIOUS
<1>4. PICK g : g = [f EXCEPT !.asking = FALSE, !.refused = no,
                             !.path = IF no THEN <<>> ELSE Tail(@)]
  OBVIOUS
<1>5. /\ acts # <<>> /\ f.asking /\ UNCHANGED <<live, detours>> /\ ended' = Act!NoAct
      /\ dispatching' = dispatching \ {Act!Event(Head(f.path))}
  BY Zenon DEF Act!Answer, Act!At, Act!hookVars
<1>6. acts' = [acts EXCEPT ![n] = g]
  <2>1. (refuse /\ Act!Event(Head(f.path)) \notin Act!ObserveOnly) = no
    BY <1>2
  <2> QED
    BY <1>1, <1>4, <2>1, Zenon DEF Act!Answer, Act!At, Act!SetTop
<1>7. f \in ActRecord /\ f = acts[n] /\ ActOk(n)
  BY <1>1, <1>5, TopHolds
<1>8. f.path # <<>> /\ Head(f.path) \in AsksOf(n)
  BY <1>5, <1>7 DEF ActOk
<1>9. /\ ~f.refused /\ OnItsWay(n) /\ k \in Nat /\ k + 1 \in DOMAIN p
      /\ p[k + 1] = Head(f.path) /\ Tail(f.path) \in Seq(STRING)
  BY <1>1, <1>3, <1>5, <1>8, TopAhead
<1>10. /\ g \in ActRecord /\ g.act = f.act /\ g.asked = f.asked /\ g.due = f.due
       /\ g.asking = FALSE /\ g.refused = no /\ g.done = f.done
       /\ g.path = IF no THEN <<>> ELSE Tail(f.path)
  <2>1. (IF no THEN <<>> ELSE Tail(f.path)) \in Seq(STRING)
    <3>1. <<>> \in Seq(STRING)
      OBVIOUS
    <3> QED
      BY <1>9, <3>1, Zenon
  <2> QED
    BY <1>4, <1>7, <2>1, Zenon DEF ActRecord
<1>11. ActOk(n)'
  <2>1. CASE no = FALSE
    <3>1. Head(f.path) # "effect"
      BY <1>8 DEF AsksOf
    <3>2. g.path = Tail(f.path) /\ g.refused = FALSE
      BY <1>10, <2>1
    <3> QED
      BY <1>1, <1>5, <1>6, <1>8, <1>10, <3>1, <3>2, ActGoesOn
  <2>2. CASE no = TRUE
    <3>1. f.asked > 0
      BY <1>3, <1>5, <1>7, <1>8, <1>9 DEF OnItsWay
    <3>2. f.act \in DOMAIN Path
      BY <1>7 DEF ActRecord
    <3>3. ~f.done
      <4>1. f.done => \E i \in 1..k : p[i] = "effect"
        BY <1>3, <1>7, <1>9 DEF OnItsWay
      <4>2. Act!Event(p[k + 1]) \notin Act!ObserveOnly
        BY <1>2, <1>9, <2>2
      <4>3. \A i \in 1..k : i \in DOMAIN p /\ i < k + 1
        BY <1>3, <1>9, <3>2, PathIs
      <4> QED
        BY <1>3, <1>9, <3>2, <4>1, <4>2, <4>3, PathIs
    <3>4. f.due <=> \E i \in DOMAIN p : p[i] \in AsksOf(n)
      BY <1>3, <1>7 DEF ActOk
    <3>5. g.path = <<>> /\ Len(g.path) = 0 /\ g.refused = TRUE
      BY <1>10, <2>2
    <3>6. acts'[n] = g /\ AsksOf(n)' = AsksOf(n) /\ Passed(n)' = Len(p) /\ Len(p) > 0
      <4>1. acts'[n] = g /\ AsksOf(n)' = AsksOf(n) /\ Passed(n)' = Len(p) - Len(g.path)
        BY <1>1, <1>3, <1>5, <1>6, <1>10, TopKeeps
      <4> QED
        BY <1>3, <3>2, <3>5, <4>1, PathIs
    <3>7. f.act = "trident" => f.asked <= 1
      BY <1>7 DEF ActOk
    <3>8. /\ acts'[n].act = f.act /\ acts'[n].asked = f.asked /\ acts'[n].due = f.due
          /\ acts'[n].asking = FALSE /\ acts'[n].refused = TRUE /\ acts'[n].done = f.done
          /\ acts'[n].path = <<>>
      BY <1>10, <3>5, <3>6, Zenon
    <3>9. f.due
      BY <1>9, <1>8, <3>4
    <3>10. acts'[n].due <=> \E i \in DOMAIN Path[f.act] : Path[f.act][i] \in AsksOf(n)'
      BY <1>3, <3>4, <3>6, <3>8, Zenon
    <3>11. acts'[n].act = "trident" =>
             acts'[n].asked <= 1 /\ (Passed(n)' = 0 /\ ~acts'[n].asking => acts'[n].asked = 0)
      BY <3>6, <3>7, <3>8
    <3> QED
      BY <3>1, <3>3, <3>8, <3>9, <3>10, <3>11, Zenon DEF ActOk
  <2> QED
    BY <2>1, <2>2
<1>12. \A e : e \in dispatching' <=>
         /\ e \in Act!Flagged
         /\ Held(n, e) \/ (g.asking /\ Act!Event(Head(g.path)) = e)
  <2>1. ~Held(n, Act!Event(Head(f.path)))
    BY <1>8 DEF AsksOf
  <2> QED
    BY <1>1, <1>5, <1>10, <2>1, TopHolds
<1> QED
  BY <1>1, <1>5, <1>6, <1>10, <1>11, <1>12, TopMoves

LEMMA ActEnds ==
  ASSUME ActInv, Act!End
  PROVE  ActInv'
<1> DEFINE f == Act!Top
<1>1. PICK n \in Nat : n = Len(acts)
  BY DEF ActInv
<1>2. /\ acts # <<>> /\ ~f.asking /\ f.path = <<>> /\ ended' = f
      /\ acts' = SubSeq(acts, 1, n - 1) /\ UNCHANGED <<live, detours, dispatching>>
  BY <1>1, Zenon DEF Act!End, Act!hookVars
<1>3. f \in ActRecord /\ f = acts[n] /\ ActOk(n) /\ n > 0 /\ DOMAIN acts = 1..n
  BY <1>1, <1>2, TopHolds
<1>4. /\ acts' \in Seq(ActRecord) /\ Len(acts') = n - 1 /\ DOMAIN acts' = 1..n - 1
      /\ \A i \in 1..n - 1 : acts'[i] = acts[i]
  BY <1>1, <1>2, <1>3 DEF ActInv
<1>5. ASSUME NEW d \in 1..n - 1 PROVE ActOk(d)' /\ acts'[d].asking
  <2>1. acts[d].asking /\ ActOk(d) /\ \A i \in 1..d : acts'[i] = acts[i]
    BY <1>1, <1>3, <1>4 DEF ActInv
  <2> QED
    BY <1>2, <1>4, <2>1, ActRests
<1>6. \A e : e \in dispatching' <=>
        e \in Act!Flagged /\ \E i \in DOMAIN acts' : /\ acts'[i].asking
                                                     /\ Act!Event(Head(acts'[i].path)) = e
  <2>1. \A e : e \in dispatching <=> e \in Act!Flagged /\ Held(n, e)
    BY <1>1, <1>2, TopHolds
  <2> QED
    BY <1>2, <1>4, <1>5, <2>1 DEF Held
<1>7. f.act \in DOMAIN Path /\ f.asked \in Nat
  BY <1>3 DEF ActRecord
<1>8. (f.done <=> ~f.refused) /\ (f.due <=> f.asked > 0)
  <2>1. Path[f.act] \in Seq(STRING) /\ DOMAIN Path[f.act] = 1..Len(Path[f.act])
        /\ \E i \in DOMAIN Path[f.act] : Path[f.act][i] = "effect"
    BY <1>7, PathIs
  <2>2. CASE f.refused
    BY <1>3, <2>2 DEF ActOk
  <2>3. CASE ~f.refused
    <3>1. OnItsWay(n) /\ (f.due <=> \E i \in DOMAIN Path[f.act] : Path[f.act][i] \in AsksOf(n))
      BY <1>3, <2>3 DEF ActOk
    <3>2. Passed(n) = Len(Path[f.act])
      BY <1>2, <1>3, <2>1, Len(f.path) = 0 DEF Passed
    <3> QED
      BY <1>2, <1>3, <2>1, <2>3, <3>1, <3>2 DEF OnItsWay
  <2> QED
    BY <2>2, <2>3
<1>9. f.done # f.refused
  <2>1. f.done \in BOOLEAN /\ f.refused \in BOOLEAN
    BY <1>3, Zenon DEF ActRecord
  <2> QED
    BY <1>8, <2>1
<1>10. f.act = "trident" => f.asked <= 1
  BY <1>3 DEF ActOk
<1>11. acts' = <<>> => dispatching' = {}
  BY <1>6
<1>12. NothingUnasked'
  BY <1>2, <1>8, <1>9, <1>10, <1>11, Zenon DEF NothingUnasked, Act!NothingUnasked
<1> QED
  BY <1>4, <1>5, <1>6, <1>12 DEF ActInv

LEMMA ActStep == ActInv /\ [Act!Next]_actVars => ActInv'
<1> SUFFICES ASSUME ActInv, [Act!Next]_actVars PROVE ActInv'
  OBVIOUS
<1>1. ASSUME acts = <<>>, UNCHANGED <<acts, dispatching>>, ended' = Act!NoAct PROVE ActInv'
  <2>1. dispatching' = {}
    BY <1>1, Zenon DEF ActInv, NothingUnasked, Act!NothingUnasked
  <2>2. DOMAIN acts' = {} /\ acts' \in Seq(ActRecord)
    BY <1>1
  <2>3. NothingUnasked'
    BY <1>1, <2>1, Zenon DEF NothingUnasked, Act!NothingUnasked
  <2> QED
    BY <2>1, <2>2, <2>3 DEF ActInv
<1>2. ASSUME NEW e, NEW broken, Act!Subscribe(e, broken) PROVE ActInv'
  BY <1>1, <1>2 DEF Act!Subscribe
<1>3. CASE UNCHANGED actVars
  <2>1. \A d \in DOMAIN acts : ActOk(d) => ActOk(d)'
    <3> SUFFICES ASSUME NEW d \in DOMAIN acts PROVE ActOk(d) => ActOk(d)'
      OBVIOUS
    <3>1. d \in Nat /\ d > 0
      BY DEF ActInv
    <3> QED
      BY <1>3, <3>1, ActRests DEF actVars
  <2>2. NothingUnasked'
    BY <1>3, Zenon DEF actVars, ActInv, NothingUnasked, Act!NothingUnasked
  <2> QED
    BY <1>3, <2>1, <2>2 DEF actVars, ActInv
<1> QED
  BY <1>2, <1>3, ActBegins, ActAsks, ActPasses, ActAnswered, ActEnds DEF Act!Next, Act!Acts

-----------------------------------------------------------------------------
(* Chunks of plot worlds: what a thread's buffer has from the chunk before. *)

\* All but the two layers that a chunk rewrites is as the world of d has it.
Static(d, blocks) ==
  \A c \in Chunk!Cells :
    c[2] \notin {Chunk!FloorAt(d), Chunk!FloorAt(d) + 1} => blocks[c] = Chunk!Refilled(d)[c]

AsPromised(o) ==
  Chunk!Layout(o.dim).floorY > BedrockY =>
    \A c \in Chunk!Cells :
      o.blocks[c] = Chunk!Promised(o.dim, o.x * Width + c[1], MinY + c[2], o.z * Width + c[3])

GenInv ==
  /\ DOMAIN buf = Threads /\ DOMAIN out = Threads
  /\ \A t \in Threads : buf[t].owner \in DOMAIN Layouts => Static(buf[t].owner, buf[t].blocks)
  /\ \A t \in Threads : out[t] = None \/ AsPromised(out[t])

\* A layout that was corrected: plots of four blocks at least, borders inside them.
Sane(l) ==
  /\ l.plotSize \in 4..512 /\ l.roadWidth \in 0..64
  /\ l.borderWidth \in Nat /\ l.borderWidth * 2 < l.plotSize
  /\ l.floorY \in Int

LEMMA LayoutsSane == \A d \in DOMAIN Layouts : Sane(Chunk!Layout(d))
<1> TAKE d \in DOMAIN Layouts
<1> DEFINE a == Layouts[d]
<1>1. /\ a.plotSize \in Int /\ a.roadWidth \in Int
      /\ a.borderWidth \in Int /\ a.floorY \in Int
  BY WorldAssumption
<1>2. MinY \in Int /\ MaxY \in Int
  BY WorldAssumption
<1> HIDE DEF a
<1> QED
  BY <1>1, <1>2 DEF Sane, Chunk!Layout, Chunk!Clamped, Chunk!Within, a

\* How far a coordinate is into its cell, and of what area it is along one axis.
LEMMA AlongOneAxis ==
  ASSUME NEW l, Sane(l), NEW x \in Int
  PROVE  LET cell == l.plotSize + l.roadWidth
             area == Chunk!Classify1D(x % cell, l)
         IN  /\ area \in {"road", "border", "plot"}
             /\ area = "road" <=> x % cell >= l.plotSize
             /\ area = "plot" <=> x % cell \in l.borderWidth .. l.plotSize - l.borderWidth - 1
<1> DEFINE cell == l.plotSize + l.roadWidth
           at == x % cell
<1>1. /\ l.plotSize \in Int /\ l.roadWidth \in Int /\ l.borderWidth \in Int
      /\ l.plotSize >= 4 /\ l.roadWidth >= 0 /\ l.borderWidth >= 0
      /\ l.borderWidth * 2 < l.plotSize
  BY DEF Sane
<1>2. cell \in Int /\ cell > 0
  BY <1>1
<1> HIDE DEF cell
<1>3. at \in Int /\ at >= 0 /\ at < cell
  BY <1>2
<1> HIDE DEF at
<1>4. LET area == Chunk!Classify1D(at, l)
      IN  /\ area \in {"road", "border", "plot"}
          /\ area = "road" <=> at >= l.plotSize
          /\ area = "plot" <=> at \in l.borderWidth .. l.plotSize - l.borderWidth - 1
  BY <1>1, <1>3 DEF Chunk!Classify1D
<1> QED
  BY <1>4 DEF at, cell

\* The area of a column, as PlotLayout.h words it.
LEMMA AreasAre ==
  ASSUME NEW l, Sane(l), NEW x \in Int, NEW z \in Int
  PROVE  LET cell == l.plotSize + l.roadWidth
             onRoad == x % cell >= l.plotSize \/ z % cell >= l.plotSize
             inside(v) == v % cell \in l.borderWidth .. l.plotSize - l.borderWidth - 1
         IN  /\ Chunk!Area(l, x, z) = "road" <=> onRoad
             /\ Chunk!Area(l, x, z) = "border" <=> ~onRoad /\ ~(inside(x) /\ inside(z))
<1> DEFINE cell == l.plotSize + l.roadWidth
           ax == Chunk!Classify1D(x % cell, l)
           az == Chunk!Classify1D(z % cell, l)
<1>1. /\ ax \in {"road", "border", "plot"} /\ az \in {"road", "border", "plot"}
      /\ ax = "road" <=> x % cell >= l.plotSize
      /\ az = "road" <=> z % cell >= l.plotSize
      /\ ax = "plot" <=> x % cell \in l.borderWidth .. l.plotSize - l.borderWidth - 1
      /\ az = "plot" <=> z % cell \in l.borderWidth .. l.plotSize - l.borderWidth - 1
  BY AlongOneAxis
<1>2. Chunk!Area(l, x, z) = Chunk!Combine2D(ax, az)
  BY DEF Chunk!Area
<1>3. /\ Chunk!Combine2D(ax, az) = "road" <=> ax = "road" \/ az = "road"
      /\ Chunk!Combine2D(ax, az) = "border"
           <=> ax # "road" /\ az # "road" /\ ~(ax = "plot" /\ az = "plot")
  <2> HIDE DEF ax, az
  <2> QED
    BY <1>1 DEF Chunk!Combine2D
<1> HIDE DEF ax, az
<1> QED
  BY <1>1, <1>2, <1>3 DEF cell

\* A buffer that is right but for the two layers becomes the chunk of its place.
LEMMA WrittenIsPromised ==
  ASSUME NEW d \in DOMAIN Layouts, NEW blocks, Static(d, blocks),
         NEW cx \in GenXs, NEW cz \in GenXs,
         Chunk!Layout(d).floorY > BedrockY, NEW c \in Chunk!Cells
  PROVE  Chunk!Written(blocks, d, cx, cz)[c]
           = Chunk!Promised(d, cx * Width + c[1], MinY + c[2], cz * Width + c[3])
<1> DEFINE l == Chunk!Layout(d)
           x == cx * Width + c[1]
           z == cz * Width + c[3]
           y == MinY + c[2]
           cell == l.plotSize + l.roadWidth
           onRoad == x % cell >= l.plotSize \/ z % cell >= l.plotSize
           inside(v) == v % cell \in l.borderWidth .. l.plotSize - l.borderWidth - 1
           rim == ~onRoad /\ ~(inside(x) /\ inside(z))
           area == Chunk!Area(l, x, z)
<1>1. /\ MinY \in Int /\ BedrockY \in Int /\ Width \in Int
      /\ c[1] \in Int /\ c[2] \in Int /\ c[3] \in Int /\ cx \in Int /\ cz \in Int
  BY WorldAssumption DEF Chunk!Cells, Chunk!Columns, Chunk!Layers
<1>2. x \in Int /\ z \in Int
  BY <1>1
<1>3. Sane(l) /\ l.floorY \in Int
  BY LayoutsSane DEF Sane
<1>4. (area = "road" <=> onRoad) /\ (area = "border" <=> rim)
  BY <1>2, <1>3, AreasAre
<1> DEFINE fresh == Chunk!Of(d, IF onRoad THEN "road" ELSE "floor")
           right == CASE y = BedrockY -> "bedrock"
                      [] y > BedrockY /\ y < l.floorY -> Chunk!Of(d, "fill")
                      [] y = l.floorY -> fresh
                      [] y = l.floorY + 1 /\ rim -> Chunk!Of(d, "border")
                      [] OTHER -> "air"
<1>5. Chunk!Promised(d, x, y, z) = right
  BY DEF Chunk!Promised
<1>6. Chunk!FloorAt(d) = l.floorY - MinY
  BY DEF Chunk!FloorAt
<1>7. Chunk!Written(blocks, d, cx, cz)[c] =
        CASE c[2] = Chunk!FloorAt(d) -> Chunk!Of(d, IF area = "road" THEN "road" ELSE "floor")
          [] c[2] = Chunk!FloorAt(d) + 1 -> IF area = "border" THEN Chunk!Of(d, "border") ELSE "air"
          [] OTHER -> blocks[c]
  BY DEF Chunk!Written
<1> HIDE DEF l, x, z, onRoad, rim, area, cell, inside, fresh
<1>8. CASE c[2] = Chunk!FloorAt(d)
  <2>1. y = l.floorY /\ y > BedrockY
    BY <1>1, <1>3, <1>6, <1>8 DEF l
  <2>2. right = fresh
    BY <2>1, <1>1, <1>3
  <2>3. Chunk!Written(blocks, d, cx, cz)[c] = fresh
    <3> HIDE DEF right
    <3>1. Chunk!Written(blocks, d, cx, cz)[c]
            = Chunk!Of(d, IF area = "road" THEN "road" ELSE "floor")
      BY <1>1, <1>7, <1>8
    <3>2. (IF area = "road" THEN "road" ELSE "floor") = (IF onRoad THEN "road" ELSE "floor")
      BY <1>4
    <3> QED
      BY <3>1, <3>2, Zenon DEF fresh
  <2> HIDE DEF right
  <2> QED
    BY <1>5, <2>2, <2>3, Zenon DEF x, z
<1>9. CASE c[2] = Chunk!FloorAt(d) + 1
  <2>1. y = l.floorY + 1 /\ y > BedrockY /\ y > l.floorY /\ c[2] # Chunk!FloorAt(d)
    BY <1>1, <1>3, <1>6, <1>9 DEF l
  <2>2. right = IF rim THEN Chunk!Of(d, "border") ELSE "air"
    BY <2>1, <1>1, <1>3
  <2> QED
    BY <1>4, <1>5, <1>7, <1>9, <2>1, <2>2 DEF x, z
<1>10. CASE c[2] \notin {Chunk!FloorAt(d), Chunk!FloorAt(d) + 1}
  <2>1. Chunk!Written(blocks, d, cx, cz)[c] = Chunk!Refilled(d)[c]
    BY <1>7, <1>10 DEF Static
  <2>2. Chunk!Refilled(d)[c] =
          CASE c[2] >= Chunk!FloorAt(d) \/ c[2] < Chunk!BedrockAt -> "air"
            [] c[2] < Chunk!FloorAt(d) /\ c[2] = Chunk!BedrockAt -> "bedrock"
            [] OTHER -> Chunk!Of(d, "fill")
    BY DEF Chunk!Refilled
  <2>3. Chunk!BedrockAt = BedrockY - MinY /\ l.floorY > BedrockY
    BY DEF Chunk!BedrockAt, l
  <2>4. Chunk!Refilled(d)[c] = right
    BY <1>1, <1>3, <1>6, <1>10, <2>2, <2>3
  <2> QED
    BY <1>5, <2>1, <2>4 DEF x, z
<1> QED
  BY <1>8, <1>9, <1>10

LEMMA GenStep == GenInv /\ [Chunk!GenNext]_chunkVars => GenInv'
<1> SUFFICES ASSUME GenInv, [Chunk!GenNext]_chunkVars PROVE GenInv'
  OBVIOUS
<1>1. CASE UNCHANGED chunkVars
  BY <1>1 DEF chunkVars, GenInv
<1>2. CASE Chunk!GenNext
  <2>1. PICK t \in Threads, d \in DOMAIN Layouts, cx \in GenXs, cz \in GenXs :
          Chunk!LoadChunk(t, d, cx, cz)
    BY <1>2 DEF Chunk!GenNext
  <2> DEFINE old == Chunk!Acquired(t, d)
             new == Chunk!Written(old, d, cx, cz)
  <2>2. /\ buf' = [buf EXCEPT ![t] = [owner |-> d, blocks |-> new]]
        /\ out' = [out EXCEPT ![t] = [dim |-> d, x |-> cx, z |-> cz, blocks |-> new]]
    BY <2>1 DEF Chunk!LoadChunk
  <2>3. Static(d, old)
    <3>1. Static(d, Chunk!Refilled(d))
      BY DEF Static
    <3>2. buf[t].owner = d => Static(d, buf[t].blocks)
      BY DEF GenInv
    <3> QED
      BY <3>1, <3>2 DEF Chunk!Acquired
  <2>4. Static(d, new)
    <3> SUFFICES ASSUME NEW c \in Chunk!Cells,
                        c[2] \notin {Chunk!FloorAt(d), Chunk!FloorAt(d) + 1}
                 PROVE  new[c] = Chunk!Refilled(d)[c]
      BY DEF Static
    <3>1. new[c] = old[c]
      BY DEF Chunk!Written
    <3> QED
      BY <2>3, <3>1 DEF Static
  <2> DEFINE o == [dim |-> d, x |-> cx, z |-> cz, blocks |-> new]
  <2>5. AsPromised(o)
    <3> HIDE DEF new, old
    <3> SUFFICES ASSUME Chunk!Layout(d).floorY > BedrockY, NEW c \in Chunk!Cells
                 PROVE  new[c] = Chunk!Promised(d, cx * Width + c[1], MinY + c[2],
                                               cz * Width + c[3])
      BY DEF AsPromised
    <3> QED
      BY <2>3, WrittenIsPromised DEF new
  <2> HIDE DEF old, new
  <2>6. DOMAIN buf' = Threads /\ DOMAIN out' = Threads
    BY <2>2 DEF GenInv
  <2>7. ASSUME NEW s \in Threads, buf'[s].owner \in DOMAIN Layouts
        PROVE  Static(buf'[s].owner, buf'[s].blocks)
    <3>1. CASE s = t
      BY <2>2, <2>4, <3>1 DEF GenInv
    <3>2. CASE s # t
      BY <2>2, <2>7, <3>2 DEF GenInv
    <3> QED
      BY <3>1, <3>2
  <2>8. ASSUME NEW s \in Threads
        PROVE  out'[s] = None \/ AsPromised(out'[s])
    <3>1. CASE s = t
      BY <2>2, <2>5, <3>1 DEF GenInv
    <3>2. CASE s # t
      BY <2>2, <3>2 DEF GenInv
    <3> QED
      BY <3>1, <3>2
  <2> QED
    BY <2>6, <2>7, <2>8 DEF GenInv
<1> QED
  BY <1>1, <1>2

-----------------------------------------------------------------------------
(* The saved keys of chunks, and what is loaded of them.                   *)

\* What a key holds of a number of 32 bits.
Number == {v \in Int : ((v \div 256) \div 256) \div 256 \in -128..127}

LEMMA LeTells ==
  ASSUME NEW v \in Number, NEW w \in Number, Saved!Le(v) = Saved!Le(w)
  PROVE  v = w
<1> DEFINE a == v \div 256
           b == a \div 256
           c == b \div 256
           p == w \div 256
           q == p \div 256
           r == q \div 256
<1>1. v % 256 = w % 256 /\ a % 256 = p % 256 /\ b % 256 = q % 256 /\ c % 256 = r % 256
  BY DEF Saved!Le
<1>2. v \in Int /\ w \in Int /\ c \in -128..127 /\ r \in -128..127
  BY DEF Number
<1>3. a \in Int /\ p \in Int /\ b \in Int /\ q \in Int
  BY <1>2
<1> HIDE DEF r, q, p, c, b, a
<1>4. c = r
  BY <1>1, <1>2
<1>5. b = q
  BY <1>1, <1>3, <1>4 DEF c, r
<1>6. a = p
  BY <1>1, <1>3, <1>5 DEF b, q
<1> QED
  BY <1>1, <1>2, <1>6 DEF a, p

LEMMA LeBytes ==
  ASSUME NEW v \in Number
  PROVE  Saved!Le(v) \in Seq(Int) /\ Len(Saved!Le(v)) = 4
BY DEF Saved!Le, Number

LEMMA ChunkNumbers ==
  \A c \in Saved!Chunks : c.dim \in Number /\ c.x \in Number /\ c.z \in Number
BY KeyAssumption DEF Saved!Chunks, Number

LEMMA ConcatAt ==
  ASSUME NEW s \in Seq(Int), NEW t \in Seq(Int)
  PROVE  /\ s \o t \in Seq(Int) /\ Len(s \o t) = Len(s) + Len(t)
         /\ \A i \in 1..Len(s) : (s \o t)[i] = s[i]
         /\ \A i \in 1..Len(t) : (s \o t)[Len(s) + i] = t[i]
<1>1. Len(s) \in Nat /\ Len(t) \in Nat
  OBVIOUS
<1>2. /\ s \o t \in Seq(Int) /\ Len(s \o t) = Len(s) + Len(t)
      /\ \A i \in 1..(Len(s) + Len(t)) :
           (s \o t)[i] = IF i <= Len(s) THEN s[i] ELSE t[i - Len(s)]
  OBVIOUS
<1> QED
  BY <1>1, <1>2

\* A key of a chunk: where its coordinates are in it.
LEMMA KeyIs ==
  ASSUME NEW c \in Saved!Chunks, NEW k \in Saved!KeysOf(c)
  PROVE  LET p == Saved!ChunkKeyPrefix(c)
         IN  /\ p \in Seq(Int) /\ k \in Seq(Int)
             /\ Len(p) = IF c.dim = 0 THEN 8 ELSE 12
             /\ Len(k) \in {Len(p) + 1, Len(p) + 2}
             /\ \A i \in 1..Len(p) : k[i] = p[i]
             /\ \A i \in 1..4 : k[i] = Saved!Le(c.x)[i]
             /\ \A i \in 1..4 : k[4 + i] = Saved!Le(c.z)[i]
             /\ c.dim # 0 => \A i \in 1..4 : k[8 + i] = Saved!Le(c.dim)[i]
<1> DEFINE x == Saved!Le(c.x)
           z == Saved!Le(c.z)
           d == Saved!Le(c.dim)
           p == Saved!ChunkKeyPrefix(c)
<1>1. /\ x \in Seq(Int) /\ Len(x) = 4 /\ z \in Seq(Int) /\ Len(z) = 4
      /\ d \in Seq(Int) /\ Len(d) = 4
  BY LeBytes, ChunkNumbers
<1>2. p = x \o z \o (IF c.dim = 0 THEN <<>> ELSE d)
  BY DEF Saved!ChunkKeyPrefix
<1>3. PICK tail \in {<<44>>, <<47, 0>>} : k = p \o tail
  BY DEF Saved!KeysOf
<1>4. tail \in Seq(Int) /\ Len(tail) \in {1, 2}
  <2>1. CASE tail = <<44>>
    BY <2>1
  <2>2. CASE tail = <<47, 0>>
    BY <2>2
  <2> QED
    BY <1>3, <2>1, <2>2
<1> HIDE DEF x, z, d, p
<1>5. /\ x \o z \in Seq(Int) /\ Len(x \o z) = 8
      /\ \A i \in 1..4 : (x \o z)[i] = x[i] /\ (x \o z)[4 + i] = z[i]
  <2>1. /\ x \o z \in Seq(Int) /\ Len(x \o z) = Len(x) + Len(z)
        /\ \A i \in 1..Len(x) : (x \o z)[i] = x[i]
        /\ \A i \in 1..Len(z) : (x \o z)[Len(x) + i] = z[i]
    BY <1>1, ConcatAt, Zenon
  <2> DEFINE y == x \o z
  <2> HIDE DEF y
  <2>2. /\ y \in Seq(Int) /\ Len(y) = 8
        /\ \A i \in 1..4 : y[i] = x[i]
        /\ \A i \in 1..4 : y[4 + i] = z[i]
    <3>1. y \in Seq(Int) /\ Len(y) = 8
      BY <1>1, <2>1 DEF y
    <3>2. ASSUME NEW i \in 1..4 PROVE y[i] = x[i] /\ y[4 + i] = z[i]
      <4>1. i \in 1..Len(x) /\ i \in 1..Len(z) /\ Len(x) + i = 4 + i
        BY <1>1
      <4> QED
        BY <2>1, <4>1, Zenon DEF y
    <3> QED
      BY <3>1, <3>2
  <2> QED
    BY <2>2, Zenon DEF y
<1>6. /\ p \in Seq(Int) /\ Len(p) = IF c.dim = 0 THEN 8 ELSE 12
      /\ \A i \in 1..8 : p[i] = (x \o z)[i]
      /\ c.dim # 0 => \A i \in 1..4 : p[8 + i] = d[i]
  <2>1. CASE c.dim = 0
    <3>1. <<>> \in Seq(Int) /\ Len(<<>>) = 0 /\ p = (x \o z) \o <<>>
      BY <1>2, <2>1
    <3> QED
      BY <1>5, <2>1, <3>1, ConcatAt
  <2>2. CASE c.dim # 0
    <3> DEFINE y == x \o z
    <3>1. p = y \o d
      BY <1>2, <2>2
    <3>2. y \in Seq(Int) /\ Len(y) = 8
      BY <1>5
    <3> HIDE DEF y
    <3>3. y \o d \in Seq(Int) /\ Len(y \o d) = Len(y) + Len(d)
      BY <1>1, <3>2, ConcatAt, Zenon
    <3>4. \A i \in 1..Len(y) : (y \o d)[i] = y[i]
      BY <1>1, <3>2, ConcatAt, Zenon
    <3>5. \A i \in 1..Len(d) : (y \o d)[Len(y) + i] = d[i]
      BY <1>1, <3>2, ConcatAt, Zenon
    <3>6. \A i \in 1..4 : (y \o d)[8 + i] = d[i]
      BY <1>1, <3>2, <3>5
    <3>7. /\ p \in Seq(Int) /\ Len(p) = 12
          /\ \A i \in 1..8 : p[i] = y[i]
          /\ \A i \in 1..4 : p[8 + i] = d[i]
      <4>1. Len(y \o d) = 12
        BY <1>1, <3>2, <3>3
      <4>2. \A i \in 1..8 : (y \o d)[i] = y[i]
        BY <3>2, <3>4, Zenon
      <4> QED
        BY <3>1, <3>3, <3>6, <4>1, <4>2, Zenon
    <3>8. (IF c.dim = 0 THEN 8 ELSE 12) = 12
      BY <2>2
    <3> QED
      BY <3>7, <3>8, Zenon DEF y
  <2> QED
    BY <2>1, <2>2
<1>7. /\ k \in Seq(Int) /\ Len(k) = Len(p) + Len(tail)
      /\ \A i \in 1..Len(p) : k[i] = p[i]
  <2>1. Len(p) \in Nat
    BY <1>6
  <2> QED
    BY <1>3, <1>4, <1>6, <2>1, ConcatAt
<1>8. /\ \A i \in 1..4 : k[i] = x[i] /\ k[4 + i] = z[i]
      /\ c.dim # 0 => \A i \in 1..4 : k[8 + i] = d[i]
  <2> HIDE DEF p, x, z, d
  <2>1. ASSUME NEW i \in 1..4 PROVE k[i] = x[i] /\ k[4 + i] = z[i]
    <3>1. Len(p) >= 8 /\ Len(p) \in Nat
      BY <1>6
    <3>2. i \in 1..Len(p) /\ 4 + i \in 1..Len(p) /\ i \in 1..8 /\ 4 + i \in 1..8
      BY <3>1
    <3>3. k[i] = p[i] /\ k[4 + i] = p[4 + i]
      BY <1>7, <3>2
    <3>4. p[i] = (x \o z)[i] /\ p[4 + i] = (x \o z)[4 + i]
      BY <1>6, <3>2
    <3> QED
      BY <1>5, <3>3, <3>4
  <2>2. ASSUME c.dim # 0, NEW i \in 1..4 PROVE k[8 + i] = d[i]
    <3>1. 8 + i \in 1..Len(p)
      BY <1>6, <2>2
    <3> QED
      BY <1>6, <1>7, <2>2, <3>1
  <2> QED
    BY <2>1, <2>2
<1> QED
  BY <1>4, <1>6, <1>7, <1>8 DEF x, z, d, p

\* No key is of two chunks.
LEMMA KeysApart ==
  ASSUME NEW c \in Saved!Chunks, NEW e \in Saved!Chunks,
         NEW k \in Saved!KeysOf(c), k \in Saved!KeysOf(e)
  PROVE  c = e
<1>1. \A i \in 1..4 : /\ Saved!Le(c.x)[i] = Saved!Le(e.x)[i]
                      /\ Saved!Le(c.z)[i] = Saved!Le(e.z)[i]
  <2>1. /\ \A i \in 1..4 : k[i] = Saved!Le(c.x)[i]
        /\ \A i \in 1..4 : k[4 + i] = Saved!Le(c.z)[i]
    BY KeyIs, Zenon
  <2>2. /\ \A i \in 1..4 : k[i] = Saved!Le(e.x)[i]
        /\ \A i \in 1..4 : k[4 + i] = Saved!Le(e.z)[i]
    BY KeyIs, Zenon
  <2> QED
    BY <2>1, <2>2, Zenon
<1>2. c.dim = 0 <=> e.dim = 0
  <2> DEFINE P(f) == Len(Saved!ChunkKeyPrefix(f))
  <2>1. Len(k) \in {P(c) + 1, P(c) + 2} /\ P(c) = IF c.dim = 0 THEN 8 ELSE 12
    BY KeyIs, Zenon
  <2>2. Len(k) \in {P(e) + 1, P(e) + 2} /\ P(e) = IF e.dim = 0 THEN 8 ELSE 12
    BY KeyIs, Zenon
  <2> HIDE DEF P
  <2> QED
    BY <2>1, <2>2
<1>3. c.dim # 0 => \A i \in 1..4 : Saved!Le(c.dim)[i] = Saved!Le(e.dim)[i]
  <2>1. c.dim # 0 => \A i \in 1..4 : k[8 + i] = Saved!Le(c.dim)[i]
    BY KeyIs, Zenon
  <2>2. e.dim # 0 => \A i \in 1..4 : k[8 + i] = Saved!Le(e.dim)[i]
    BY KeyIs, Zenon
  <2> QED
    BY <1>2, <2>1, <2>2, Zenon
<1>4. ASSUME NEW v \in Number, NEW w \in Number,
             \A i \in 1..4 : Saved!Le(v)[i] = Saved!Le(w)[i]
      PROVE  v = w
  <2>1. /\ Saved!Le(v) \in Seq(Int) /\ Len(Saved!Le(v)) = 4
        /\ Saved!Le(w) \in Seq(Int) /\ Len(Saved!Le(w)) = 4
    BY LeBytes
  <2> DEFINE s == Saved!Le(v)
             t == Saved!Le(w)
  <2>2. \A i \in 1..4 : s[i] = t[i]
    BY <1>4
  <2> HIDE DEF s, t
  <2>3. s = t
    BY <2>1, <2>2 DEF s, t
  <2> QED
    BY <2>3, LeTells DEF s, t
<1>5. c.x = e.x /\ c.z = e.z /\ c.dim = e.dim
  BY <1>1, <1>2, <1>3, <1>4, ChunkNumbers
<1> QED
  BY <1>5 DEF Saved!Chunks

\* Listing by the prefix of a chunk finds all its keys.
LEMMA ListedAll ==
  ASSUME NEW c \in Saved!Chunks
  PROVE  Saved!KeysOf(c) \intersect DOMAIN storage \subseteq Saved!Listed(c)
<1> SUFFICES ASSUME NEW k \in Saved!KeysOf(c), k \in DOMAIN storage
             PROVE  k \in Saved!Listed(c)
  BY Zenon
<1> DEFINE p == Saved!ChunkKeyPrefix(c)
<1>1. /\ p \in Seq(Int) /\ k \in Seq(Int) /\ Len(k) \in {Len(p) + 1, Len(p) + 2}
      /\ \A i \in 1..Len(p) : k[i] = p[i]
  BY KeyIs, Zenon
<1> HIDE DEF p
<1>2. Len(p) \in Nat /\ Len(p) <= Len(k)
  BY <1>1
<1>3. SubSeq(p, 1, Len(p)) = SubSeq(k, 1, Len(p))
  BY <1>1, <1>2
<1>4. Saved!IsPrefix(p, k)
  BY <1>2, <1>3 DEF Saved!IsPrefix
<1> QED
  BY <1>4 DEF Saved!Listed, p

-----------------------------------------------------------------------------
\* The square that the loader asks the engine about: its middle and its radius take in
\* the chunks from x to x + n - 1, and no other.
Middle(x, n, edge) == Saved!Half(16 * x + (16 * (x + n - 1) + edge))
Radius(n, edge) == Saved!Half(16 * (n - 1) + edge) - 1

LEMMA SquareIs ==
  ASSUME NEW x \in Int, NEW n \in {1, 2}, NEW edge \in Saved!Edges
  PROVE  /\ Radius(n, edge) \in Nat
         /\ (Middle(x, n, edge) - Radius(n, edge)) \div 16 = x
         /\ (Middle(x, n, edge) + Radius(n, edge)) \div 16 = x + n - 1
<1>1. Radius(n, edge) = IF n = 1 THEN (IF edge = 15 THEN 6 ELSE 7) ELSE (IF edge = 15 THEN 14 ELSE 15)
  BY DEF Radius, Saved!Half, Saved!Edges
<1>2. \E s \in {0, 1} :
        Middle(x, n, edge) = IF n = 1 THEN (IF edge = 15 THEN 16 * x + 7 + s ELSE 16 * x + 8)
                             ELSE (IF edge = 15 THEN 16 * x + 15 + s ELSE 16 * x + 16)
  BY DEF Middle, Saved!Half, Saved!Edges
<1> QED
  BY <1>1, <1>2 DEF Saved!Edges

LEMMA LoadedAsks ==
  ASSUME NEW d, NEW a, NEW b, NEW u, NEW v, NEW r,
         LET halfX == Saved!Half(u - a)
             halfZ == Saved!Half(v - b)
             least == IF halfX < halfZ THEN halfX ELSE halfZ
         IN  (IF least > 0 THEN least - 1 ELSE 0) = r
  PROVE  Saved!ChunksLoaded(d, a, b, u, v)
           <=> Saved!HasChunksAt(d, Saved!Half(a + u), Saved!Half(b + v), r)
BY DEF Saved!ChunksLoaded

LEMMA LoadedSquare == Saved!LoadedIsAll
<1> SUFFICES ASSUME NEW d \in SavedDims, NEW x \in SavedXs, NEW z \in SavedZs,
                    NEW n \in {1, 2}, NEW edge \in Saved!Edges
             PROVE  Saved!ChunksLoaded(d, 16 * x, 16 * z, 16 * (x + n - 1) + edge,
                                       16 * (z + n - 1) + edge)
                      <=> \A i \in x .. x + n - 1, j \in z .. z + n - 1 :
                            [dim |-> d, x |-> i, z |-> j] \in DOMAIN memory
  BY DEF Saved!LoadedIsAll
<1>1. x \in Int /\ z \in Int
  BY KeyAssumption
<1> DEFINE h == Saved!Half(16 * (n - 1) + edge)
           r == Radius(n, edge)
           mx == Middle(x, n, edge)
           mz == Middle(z, n, edge)
<1>2. /\ r \in Nat /\ h = r + 1
      /\ (mx - r) \div 16 = x /\ (mx + r) \div 16 = x + n - 1
      /\ (mz - r) \div 16 = z /\ (mz + r) \div 16 = z + n - 1
  <2>1. h \in Int
    BY DEF Saved!Half, Saved!Edges
  <2> QED
    BY <1>1, <2>1, SquareIs DEF Radius
<1>3. /\ 16 * (x + n - 1) + edge - 16 * x = 16 * (n - 1) + edge
      /\ 16 * (z + n - 1) + edge - 16 * z = 16 * (n - 1) + edge
  BY <1>1 DEF Saved!Edges
<1>4. Saved!ChunksLoaded(d, 16 * x, 16 * z, 16 * (x + n - 1) + edge, 16 * (z + n - 1) + edge)
        <=> Saved!HasChunksAt(d, mx, mz, r)
  <2> HIDE DEF h, r, mx, mz
  <2>1. (IF (IF h < h THEN h ELSE h) > 0 THEN (IF h < h THEN h ELSE h) - 1 ELSE 0) = r
    BY <1>2
  <2> DEFINE a == 16 * x
             b == 16 * z
             u == 16 * (x + n - 1) + edge
             v == 16 * (z + n - 1) + edge
  <2>2. Saved!Half(u - a) = h /\ Saved!Half(v - b) = h
    <3>1. u - a = 16 * (n - 1) + edge /\ v - b = 16 * (n - 1) + edge
      BY <1>1 DEF Saved!Edges
    <3> HIDE DEF a, b, u, v
    <3> QED
      BY <3>1, Zenon DEF h
  <2>3. mx = Saved!Half(a + u) /\ mz = Saved!Half(b + v)
    BY Zenon DEF mx, mz, Middle
  <2> HIDE DEF a, b, u, v
  <2>4. Saved!ChunksLoaded(d, a, b, u, v) <=> Saved!HasChunksAt(d, mx, mz, r)
    BY <2>1, <2>2, <2>3, LoadedAsks
  <2> QED
    BY <2>4, Zenon DEF a, b, u, v
<1> HIDE DEF h, r, mx, mz
<1> QED
  BY <1>2, <1>4 DEF Saved!HasChunksAt

-----------------------------------------------------------------------------
\* What the loader said is not loaded is not, what was erased on that word is gone.
SavedInv ==
  /\ told \subseteq Saved!Chunks /\ told \intersect DOMAIN memory = {}
  /\ restored \subseteq Saved!Chunks /\ Saved!RestoredIsGenerated

\* The loader says of a chunk that it is not loaded, rightly.
LEMMA AskedRightly ==
  ASSUME NEW c \in Saved!Chunks, NEW edge \in Saved!Edges,
         ~Saved!ChunksLoaded(c.dim, 16 * c.x, 16 * c.z, 16 * c.x + edge, 16 * c.z + edge)
  PROVE  c \notin DOMAIN memory
<1>1. /\ c.dim \in SavedDims /\ c.x \in SavedXs /\ c.z \in SavedZs
      /\ c.x \in Int /\ c.z \in Int
  BY KeyAssumption DEF Saved!Chunks
<1>2. /\ 16 * (c.x + 1 - 1) + edge = 16 * c.x + edge
      /\ 16 * (c.z + 1 - 1) + edge = 16 * c.z + edge
      /\ c.x + 1 - 1 = c.x /\ c.z + 1 - 1 = c.z
  BY <1>1
<1>3. ~ \A i \in c.x .. c.x, j \in c.z .. c.z :
          [dim |-> c.dim, x |-> i, z |-> j] \in DOMAIN memory
  <2>1. 1 \in {1, 2}
    OBVIOUS
  <2> QED
    BY <1>1, <1>2, <2>1, LoadedSquare DEF Saved!LoadedIsAll
<1>4. c = [dim |-> c.dim, x |-> c.x, z |-> c.z]
  BY DEF Saved!Chunks
<1> QED
  BY <1>1, <1>3, <1>4

LEMMA SavedStep == SavedInv /\ [Saved!Next]_savedVars => SavedInv'
<1> SUFFICES ASSUME SavedInv, [Saved!Next]_savedVars PROVE SavedInv'
  OBVIOUS
<1> DEFINE Gone(c) == c \notin DOMAIN memory /\ Saved!KeysOf(c) \intersect DOMAIN storage = {}
           Fine == /\ told \subseteq Saved!Chunks /\ \A c \in told : c \notin DOMAIN memory
                   /\ restored \subseteq Saved!Chunks /\ \A c \in restored : Gone(c)
<1>0. Fine
  BY DEF SavedInv, Saved!RestoredIsGenerated
<1> SUFFICES Fine'
  BY DEF SavedInv, Saved!RestoredIsGenerated
<1>1. CASE UNCHANGED savedVars
  BY <1>0, <1>1 DEF savedVars
<1>2. ASSUME NEW c \in Saved!Chunks, Saved!EraseChunk(c) PROVE Fine'
  <2>1. /\ DOMAIN storage' = DOMAIN storage \ Saved!Listed(c)
        /\ memory' = memory /\ told' = told
        /\ restored' = restored \cup ({c} \intersect told)
    BY <1>2 DEF Saved!EraseChunk, Saved!Erased
  <2>2. c \in told => Gone(c)'
    BY <1>0, <2>1, ListedAll
  <2>3. \A e \in restored : Gone(e)'
    BY <1>0, <2>1
  <2> QED
    BY <1>0, <2>1, <2>2, <2>3
<1>3. ASSUME NEW c \in Saved!Chunks, NEW edge \in Saved!Edges, NEW there \in BOOLEAN,
             Saved!Ask(c, edge, there)
      PROVE  Fine'
  <2>1. UNCHANGED <<memory, storage, restored>>
    BY <1>3 DEF Saved!Ask
  <2>2. told' \subseteq told \cup {c} /\ (c \in told' => c \notin DOMAIN memory)
    BY <1>3, AskedRightly DEF Saved!Ask
  <2> QED
    BY <1>0, <2>1, <2>2
<1>4. ASSUME NEW c \in Saved!Chunks, Saved!Load(c) PROVE Fine'
  <2>1. /\ DOMAIN memory' = DOMAIN memory \cup {c} /\ storage' = storage
        /\ told' = told \ {c} /\ restored' = restored \ {c}
    BY <1>4 DEF Saved!Load
  <2> QED
    BY <1>0, <2>1
<1>5. ASSUME NEW c \in Saved!Chunks, Saved!Edit(c) PROVE Fine'
  <2>1. DOMAIN memory' = DOMAIN memory /\ UNCHANGED <<storage, told, restored>>
    BY <1>5 DEF Saved!Edit
  <2> QED
    BY <1>0, <2>1
<1>6. ASSUME NEW c \in Saved!Chunks, Saved!Unload(c) PROVE Fine'
  <2>1. /\ DOMAIN storage' = Saved!KeysOf(c) \cup DOMAIN storage
        /\ DOMAIN memory' = DOMAIN memory \ {c} /\ restored' = restored /\ told' = told
        /\ c \in DOMAIN memory
    BY <1>6 DEF Saved!Unload
  <2>2. \A e \in restored : Saved!KeysOf(e) \intersect Saved!KeysOf(c) = {}
    BY <1>0, <2>1, KeysApart
  <2> QED
    BY <1>0, <2>1, <2>2
<1>7. CASE Saved!Crash
  <2>1. DOMAIN memory' = {} /\ UNCHANGED <<storage, told, restored>>
    BY <1>7 DEF Saved!Crash
  <2> QED
    BY <1>0, <2>1
<1> QED
  BY <1>1, <1>2, <1>3, <1>4, <1>5, <1>6, <1>7 DEF Saved!Next

-----------------------------------------------------------------------------
(* Plots: the graph of merges.                                             *)

Linked(m, p, q) == \E dir \in 0..3 : Plot!Connected(m, p, dir) /\ q = Plot!Neighbour(p, dir)

\* A table of merges as the callers send it.
IsTable(m) == DOMAIN m \subseteq Points /\ IsFiniteSet(DOMAIN m)

LEMMA NeighbourIs ==
  ASSUME NEW p \in Points
  PROVE  /\ Plot!Neighbour(p, 0) = <<p[1], p[2] - 1>> /\ Plot!Neighbour(p, 1) = <<p[1] + 1, p[2]>>
         /\ Plot!Neighbour(p, 2) = <<p[1], p[2] + 1>> /\ Plot!Neighbour(p, 3) = <<p[1] - 1, p[2]>>
         /\ \A dir \in 0..3 : /\ Plot!Neighbour(p, dir) \in Points
                              /\ (dir + 2) % 4 \in 0..3
                              /\ Plot!Neighbour(Plot!Neighbour(p, dir), (dir + 2) % 4) = p
                              /\ (((dir + 2) % 4) + 2) % 4 = dir
<1>1. p[1] \in Int /\ p[2] \in Int /\ p = <<p[1], p[2]>>
  BY DEF Points
<1>2. \A x, y \in Int :
        /\ Plot!Neighbour(<<x, y>>, 0) = <<x, y - 1>> /\ Plot!Neighbour(<<x, y>>, 1) = <<x + 1, y>>
        /\ Plot!Neighbour(<<x, y>>, 2) = <<x, y + 1>> /\ Plot!Neighbour(<<x, y>>, 3) = <<x - 1, y>>
  BY DEF Plot!Neighbour
<1>3. /\ (0 + 2) % 4 = 2 /\ (1 + 2) % 4 = 3 /\ (2 + 2) % 4 = 0 /\ (3 + 2) % 4 = 1
  OBVIOUS
<1>4. \A dir \in 0..3 : dir = 0 \/ dir = 1 \/ dir = 2 \/ dir = 3
  OBVIOUS
<1>6. PICK x \in Int, y \in Int : p = <<x, y>>
  BY <1>1
<1>8. \A z \in Int : /\ z + 1 \in Int /\ z - 1 \in Int /\ (z - 1) + 1 = z /\ (z + 1) - 1 = z
                   /\ \A w \in Int : <<z, w>> \in Points
  BY DEF Points
<1>9. /\ \A z, w \in Int : Plot!Neighbour(<<z, w - 1>>, 2) = <<z, w>>
      /\ \A z, w \in Int : Plot!Neighbour(<<z, w + 1>>, 0) = <<z, w>>
      /\ \A z, w \in Int : Plot!Neighbour(<<z - 1, w>>, 1) = <<z, w>>
      /\ \A z, w \in Int : Plot!Neighbour(<<z + 1, w>>, 3) = <<z, w>>
  BY DEF Plot!Neighbour
<1>7. ASSUME NEW dir \in 0..3
      PROVE  /\ Plot!Neighbour(p, dir) \in Points
             /\ (dir + 2) % 4 \in 0..3
             /\ Plot!Neighbour(Plot!Neighbour(p, dir), (dir + 2) % 4) = p
             /\ (((dir + 2) % 4) + 2) % 4 = dir
  <2>1. CASE dir = 0
    <3>1. Plot!Neighbour(p, dir) = <<x, y - 1>> /\ <<x, y - 1>> \in Points
      BY <1>2, <1>6, <1>8, <2>1
    <3>2. Plot!Neighbour(<<x, y - 1>>, 2) = p
      BY <1>6, <1>9
    <3>3. (dir + 2) % 4 = 2 /\ (2 + 2) % 4 = dir
      BY <1>3, <2>1
    <3> QED
      BY <3>1, <3>2, <3>3
  <2>2. CASE dir = 1
    <3>1. Plot!Neighbour(p, dir) = <<x + 1, y>> /\ <<x + 1, y>> \in Points
      BY <1>2, <1>6, <1>8, <2>2
    <3>2. Plot!Neighbour(<<x + 1, y>>, 3) = p
      BY <1>6, <1>9
    <3>3. (dir + 2) % 4 = 3 /\ (3 + 2) % 4 = dir
      BY <1>3, <2>2
    <3> QED
      BY <3>1, <3>2, <3>3
  <2>3. CASE dir = 2
    <3>1. Plot!Neighbour(p, dir) = <<x, y + 1>> /\ <<x, y + 1>> \in Points
      BY <1>2, <1>6, <1>8, <2>3
    <3>2. Plot!Neighbour(<<x, y + 1>>, 0) = p
      BY <1>6, <1>9
    <3>3. (dir + 2) % 4 = 0 /\ (0 + 2) % 4 = dir
      BY <1>3, <2>3
    <3> QED
      BY <3>1, <3>2, <3>3
  <2>4. CASE dir = 3
    <3>1. Plot!Neighbour(p, dir) = <<x - 1, y>> /\ <<x - 1, y>> \in Points
      BY <1>2, <1>6, <1>8, <2>4
    <3>2. Plot!Neighbour(<<x - 1, y>>, 1) = p
      BY <1>6, <1>9
    <3>3. (dir + 2) % 4 = 1 /\ (1 + 2) % 4 = dir
      BY <1>3, <2>4
    <3> QED
      BY <3>1, <3>2, <3>3
  <2> QED
    BY <1>4, <2>1, <2>2, <2>3, <2>4
<1> QED
  BY <1>1, <1>2, <1>7

\* Either side's claim links both.
LEMMA LinkedBothWays ==
  ASSUME NEW m, NEW p \in Points
  PROVE  /\ \A dir \in 0..3 : Plot!Connected(m, p, dir)
              <=> Plot!Connected(m, Plot!Neighbour(p, dir), (dir + 2) % 4)
         /\ \A q : Linked(m, p, q) => q \in Points /\ Linked(m, q, p)
         /\ \A q : Linked(m, p, q) => p \in DOMAIN m \/ q \in DOMAIN m
<1>1. \A dir \in 0..3 : /\ Plot!Neighbour(p, dir) \in Points
                        /\ (dir + 2) % 4 \in 0..3
                        /\ Plot!Neighbour(Plot!Neighbour(p, dir), (dir + 2) % 4) = p
                        /\ (((dir + 2) % 4) + 2) % 4 = dir
  BY NeighbourIs
<1>2. \A dir \in 0..3 : Plot!Connected(m, p, dir)
              <=> Plot!Connected(m, Plot!Neighbour(p, dir), (dir + 2) % 4)
  BY <1>1 DEF Plot!Connected
<1>3. \A q : Linked(m, p, q) => q \in Points /\ Linked(m, q, p)
  BY <1>1, <1>2 DEF Linked
<1>4. \A x, dir : Plot!Claims(m, x, dir) => x \in DOMAIN m
  BY DEF Plot!Claims, Plot!At
<1>5. \A q : Linked(m, p, q) => p \in DOMAIN m \/ q \in DOMAIN m
  BY <1>4 DEF Linked, Plot!Connected
<1> QED
  BY <1>2, <1>3, <1>5

\* What a walk over connected plots sees in one more round.
Beside(m, X) ==
  UNION {{Plot!Neighbour(q, dir) : dir \in {i \in 0 .. 3 : Plot!Connected(m, q, i)}} : q \in X}

LEMMA BesideIs ==
  ASSUME NEW m, NEW X \in SUBSET Points
  PROVE  Beside(m, X) = {q \in Points : \E x \in X : Linked(m, x, q)}
<1>1. \A q : q \in Beside(m, X) <=> \E x \in X : Linked(m, x, q)
  BY DEF Beside, Linked
<1>2. \A x \in X : \A q : Linked(m, x, q) => q \in Points
  BY LinkedBothWays
<1> QED
  BY <1>1, <1>2

WalksOf(m, p) ==
  {near \in [Nat -> SUBSET Points] :
     /\ near[0] = {p}
     /\ \A n \in Nat : near[n + 1] = near[n] \union Beside(m, near[n])
     /\ Plot!Group(m, p) = near[2 * Cardinality(DOMAIN m)]}

LEMMA PlotCardinality == \A S : Plot!Cardinality(S) = Cardinality(S)
BY Zenon DEF Plot!Cardinality, Cardinality

LEMMA WalkRounds ==
  ASSUME NEW m, IsTable(m), NEW p \in Points
  PROVE  WalksOf(m, p) # {}
<1> DEFINE G == [X \in SUBSET Points |-> X \union Beside(m, X)]
           Rounds(f) == [n \in Nat |-> IF n = 0 THEN {p}
                                       ELSE f[n - 1] \union Beside(m, f[n - 1])]
           near == CHOOSE f : f = Rounds(f)
<1>1. \A X \in SUBSET Points : X \union Beside(m, X) \in SUBSET Points
  BY BesideIs
<1>2. /\ G \in [SUBSET Points -> SUBSET Points]
      /\ \A X \in SUBSET Points : G[X] = X \union Beside(m, X)
  BY <1>1
<1>3. {p} \in SUBSET Points
  OBVIOUS
<1> HIDE DEF G
<1> DEFINE S == SUBSET Points
           base == {p}
<1>4. G \in [S -> S] /\ base \in S
  BY <1>2, <1>3
<1> HIDE DEF S, base
<1>5. PICK f : f \in RecursionsOf(S, base, G)
  BY <1>4, RecursionExists
<1>6. f \in [Nat -> SUBSET Points] /\ f[0] = {p} /\ \A n \in Nat : f[n + 1] = G[f[n]]
  BY <1>5 DEF RecursionsOf, S, base
<1>7. f = Rounds(f)
  <2>1. ASSUME NEW n \in Nat, n # 0
        PROVE  f[n] = f[n - 1] \union Beside(m, f[n - 1])
    <3>1. n - 1 \in Nat /\ (n - 1) + 1 = n
      BY <2>1
    <3> QED
      BY <1>2, <1>6, <3>1
  <2>2. f = [n \in Nat |-> f[n]]
    BY <1>6
  <2> QED
    BY <1>6, <2>1, <2>2
<1>8. near = Rounds(near)
  BY <1>7
<1>9. Plot!Group(m, p) = near[2 * Cardinality(DOMAIN m)]
  BY PlotCardinality DEF Plot!Group, Beside
<1> HIDE DEF near
<1>10. near[0] = {p} /\ \A n \in Nat : near[n + 1] = near[n] \union Beside(m, near[n])
  <2>1. \A n \in Nat : n + 1 \in Nat /\ n + 1 # 0 /\ (n + 1) - 1 = n
    OBVIOUS
  <2>2. \A n \in Nat : near[n] = IF n = 0 THEN {p}
                                 ELSE near[n - 1] \union Beside(m, near[n - 1])
    BY <1>8
  <2> QED
    BY <2>1, <2>2
<1>11. near \in [Nat -> SUBSET Points]
  <2> DEFINE P == {n \in Nat : near[n] \in SUBSET Points}
  <2>1. 0 \in P /\ \A n \in P : n + 1 \in P
    BY <1>1, <1>3, <1>10
  <2>2. P = Nat
    BY <2>1, NumbersAll
  <2>3. near = [n \in Nat |-> near[n]]
    BY <1>8
  <2> QED
    BY <2>2, <2>3
<1> QED
  BY <1>9, <1>10, <1>11 DEF WalksOf

\* A round that adds no plot of the table, nor did the one before it, adds none at all:
\* of two plots that are connected the table has one.
LEMMA WalkPauses ==
  ASSUME NEW m, NEW X \in SUBSET Points, NEW Y, NEW Z,
         Y = X \union Beside(m, X), Z = Y \union Beside(m, Y),
         Z \intersect DOMAIN m = X \intersect DOMAIN m
  PROVE  Z = Y
<1>1. /\ Beside(m, X) = {q \in Points : \E x \in X : Linked(m, x, q)} /\ Y \in SUBSET Points
      /\ Beside(m, Y) = {q \in Points : \E x \in Y : Linked(m, x, q)}
  BY BesideIs
<1> SUFFICES ASSUME NEW q \in Points, NEW x \in Y, Linked(m, x, q) PROVE q \in Y
  BY <1>1
<1>2. CASE x \in X
  BY <1>1, <1>2
<1>3. CASE x \notin X
  <2>1. x \notin DOMAIN m
    BY <1>3
  <2>2. q \in DOMAIN m
    BY <1>1, <2>1, LinkedBothWays
  <2>3. q \in Z
    BY <1>1
  <2> QED
    BY <2>2, <2>3
<1> QED
  BY <1>2, <1>3

\* A walk over a table is over after twice as many rounds as the table has plots.
LEMMA WalkEnds ==
  ASSUME NEW m, IsTable(m), NEW p \in Points, NEW near \in WalksOf(m, p)
  PROVE  Beside(m, Plot!Group(m, p)) \subseteq Plot!Group(m, p)
<1>1. /\ near \in [Nat -> SUBSET Points] /\ near[0] = {p}
      /\ \A n \in Nat : near[n + 1] = near[n] \union Beside(m, near[n])
      /\ Plot!Group(m, p) = near[2 * Cardinality(DOMAIN m)]
  BY DEF WalksOf
<1> DEFINE D == DOMAIN m
           N == Cardinality(D)
           Over(n) == near[n + 1] = near[n]
           A(n) == Cardinality(near[n] \intersect D)
<1>2. IsFiniteSet(D) /\ N \in Nat
  BY FS_CardinalityType DEF IsTable
<1>3. \A n \in Nat : /\ near[n] \intersect D \in SUBSET D /\ IsFiniteSet(near[n] \intersect D)
                     /\ A(n) \in Nat /\ A(n) <= N /\ (A(n) = N => D \subseteq near[n])
  BY <1>2, FS_Subset, FS_CardinalityType
<1>4. ASSUME NEW n \in Nat, Over(n) PROVE Over(n + 1)
  <2>1. PICK k \in Nat : k = n + 1
    OBVIOUS
  <2>2. near[k + 1] = near[k] \union Beside(m, near[k]) /\ near[k] = near[n]
        /\ near[k] = near[n] \union Beside(m, near[n])
    BY <1>1, <1>4, <2>1
  <2> QED
    BY <2>1, <2>2
<1>5. \A n \in Nat : near[n] \in SUBSET near[n + 1]
  BY <1>1
<1>6. ASSUME NEW n \in Nat
      PROVE  Over(n + 1) \/ A(n + 2) > A(n)
  <2>1. n + 1 \in Nat /\ n + 2 \in Nat /\ (n + 1) + 1 = n + 2
    OBVIOUS
  <2>2. near[n + 1] = near[n] \union Beside(m, near[n])
        /\ near[n + 2] = near[n + 1] \union Beside(m, near[n + 1])
    BY <1>1, <2>1
  <2>3. CASE near[n + 2] \intersect D = near[n] \intersect D
    <3>1. PICK X \in SUBSET Points : X = near[n]
      BY <1>1
    <3>3. PICK Y, Z : Y = near[n + 1] /\ Z = near[n + 2]
      OBVIOUS
    <3>4. Y = X \union Beside(m, X) /\ Z = Y \union Beside(m, Y)
      BY <2>2, <3>1, <3>3
    <3>5. Z \intersect DOMAIN m = X \intersect DOMAIN m
      BY <2>3, <3>1, <3>3
    <3>2. near[n + 2] = near[n + 1]
      BY <3>3, <3>4, <3>5, WalkPauses
    <3> QED
      BY <2>1, <3>2
  <2>4. CASE near[n + 2] \intersect D # near[n] \intersect D
    <3>1. PICK X, Y : X = near[n] \intersect D /\ Y = near[n + 2] \intersect D
      OBVIOUS
    <3>2. X \in SUBSET Y /\ X # Y /\ IsFiniteSet(Y)
      BY <1>3, <2>1, <2>2, <2>4, <3>1
    <3>3. Cardinality(X) \in Nat /\ Cardinality(Y) \in Nat /\ Cardinality(X) < Cardinality(Y)
      BY <3>2, Fewer
    <3> QED
      BY <3>1, <3>3
  <2> QED
    BY <2>3, <2>4
<1> HIDE DEF A
<1>7. Over(0) \/ A(1) >= 1
  <2>1. near[1] = {p} \union Beside(m, {p})
    <3>1. 0 + 1 = 1
      OBVIOUS
    <3> QED
      BY <1>1, <3>1
  <2>5. A(1) \in Nat
    BY <1>3
  <2>2. Beside(m, {p}) = {q \in Points : \E x \in {p} : Linked(m, x, q)}
    BY BesideIs
  <2>3. CASE p \in D \/ \E q \in D : q \in Beside(m, {p})
    <3>1. near[1] \intersect D # {}
      BY <2>1, <2>3
    <3>2. A(1) # 0
      BY <1>3, <3>1, FS_EmptySet DEF A
    <3>3. A(1) >= 1
      BY <2>5, <3>2
    <3> QED
      BY <3>3
  <2>4. CASE p \notin D /\ \A q \in D : q \notin Beside(m, {p})
    <3>1. \A q \in Points : ~Linked(m, p, q)
      BY <2>2, <2>4, LinkedBothWays
    <3>2. Beside(m, {p}) = {}
      BY <2>2, <3>1
    <3> QED
      BY <1>1, <2>1, <3>2
  <2> QED
    BY <2>3, <2>4
<1> DEFINE Far(k) == Over(2 * k + 1) \/ A(2 * k + 1) >= k + 1
           P == {k \in Nat : Far(k)}
<1>8. P = Nat
  <2>1. 0 \in P
    <3>1. 2 * 0 + 1 = 1 /\ 0 + 1 = 1
      OBVIOUS
    <3>2. Over(1) \/ A(1) >= 1
      BY <1>4, <1>7
    <3> QED
      BY <3>1, <3>2
  <2>2. \A k \in P : k + 1 \in P
    <3> TAKE k \in P
    <3>1. k \in Nat /\ Far(k)
      OBVIOUS
    <3>2. PICK n \in Nat : n = 2 * k + 1
      BY <3>1
    <3>3. 2 * (k + 1) + 1 = n + 2 /\ n + 1 \in Nat /\ (n + 1) + 1 = n + 2 /\ n + 2 \in Nat
      BY <3>1, <3>2
    <3>4. CASE Over(n)
      <4>1. Over(n + 2)
        BY <1>4, <3>3, <3>4
      <4> QED
        BY <3>1, <3>3, <4>1
    <3>5. CASE ~Over(n) /\ Over(n + 1)
      <4>1. Over(n + 2)
        BY <1>4, <3>3, <3>5
      <4> QED
        BY <3>1, <3>3, <4>1
    <3>6. CASE ~Over(n) /\ ~Over(n + 1)
      <4> HIDE DEF Over
      <4>1. A(n) >= k + 1
        BY <3>1, <3>2, <3>6
      <4>2. A(n + 2) > A(n) /\ A(n) \in Nat /\ A(n + 2) \in Nat
        BY <1>3, <1>6, <3>3, <3>6
      <4>3. A(n + 2) >= (k + 1) + 1
        BY <3>1, <4>1, <4>2
      <4> QED
        BY <3>1, <3>3, <4>3
    <3> QED
      BY <3>4, <3>5, <3>6
  <2> HIDE DEF Far
  <2> QED
    BY <2>1, <2>2, NumbersAll
<1>9. Over(2 * N)
  <2>1. CASE N = 0
    <3>1. ~(A(1) >= 1)
      <4>1. A(1) \in Nat /\ A(1) <= N
        BY <1>3
      <4> HIDE DEF N
      <4> QED
        BY <2>1, <4>1
    <3> QED
      BY <1>7, <2>1, <3>1
  <2>2. CASE N # 0
    <3>1. PICK k \in Nat : N = k + 1
      <4>1. N - 1 \in Nat /\ N = (N - 1) + 1
        BY <1>2, <2>2
      <4> QED
        BY <4>1
    <3>2. PICK n \in Nat : n = 2 * k + 1
      BY <3>1
    <3>3. 2 * N = n + 1
      BY <3>1, <3>2
    <3>4. Over(n) \/ A(n) >= N
      BY <1>8, <3>1, <3>2
    <3>5. CASE Over(n)
      BY <1>4, <3>3, <3>5
    <3>6. CASE A(n) >= N
      <4>0. A(n) \in Nat /\ A(n) <= N
        BY <1>3
      <4>1. A(n) = N /\ n + 2 \in Nat
        <5> HIDE DEF N
        <5> QED
          BY <1>2, <3>6, <4>0
      <4>2. A(n + 2) \in Nat /\ A(n + 2) <= N
        BY <1>3, <4>1
      <4>3. Over(n + 1)
        <5> HIDE DEF Over, N
        <5> QED
          BY <1>2, <1>6, <4>1, <4>2
      <4> QED
        BY <3>3, <4>3
    <3> QED
      BY <3>4, <3>5, <3>6
  <2> QED
    BY <2>1, <2>2
<1>10. 2 * N \in Nat
  BY <1>2
<1> QED
  BY <1>1, <1>9, <1>10

\* All that a plot is connected with, directly or not: the walk is right.
LEMMA GroupIs ==
  ASSUME NEW m, IsTable(m), NEW p \in Points
  PROVE  LET G == Plot!Group(m, p)
         IN  /\ G \in SUBSET Points /\ IsFiniteSet(G) /\ p \in G
             /\ \A x \in G : \A q : Linked(m, x, q) => q \in G
             /\ \A T \in SUBSET Points :
                  p \in T /\ (\A x \in T : \A q : Linked(m, x, q) => q \in T) => G \subseteq T
<1>1. PICK near \in WalksOf(m, p) : TRUE
  BY WalkRounds
<1>2. /\ near \in [Nat -> SUBSET Points] /\ near[0] = {p}
      /\ \A n \in Nat : near[n + 1] = near[n] \union Beside(m, near[n])
      /\ Plot!Group(m, p) = near[2 * Cardinality(DOMAIN m)]
  BY DEF WalksOf
<1>3. 2 * Cardinality(DOMAIN m) \in Nat
  BY FS_CardinalityType DEF IsTable
<1>4. \A n \in Nat : Beside(m, near[n]) = {q \in Points : \E x \in near[n] : Linked(m, x, q)}
  BY <1>2, BesideIs
<1>5. ASSUME NEW T \in SUBSET Points, p \in T, \A x \in T : \A q : Linked(m, x, q) => q \in T
      PROVE  Plot!Group(m, p) \subseteq T
  <2> DEFINE P == {n \in Nat : near[n] \subseteq T}
  <2>1. 0 \in P
    BY <1>2, <1>5
  <2>2. \A n \in P : n + 1 \in P
    BY <1>2, <1>4, <1>5
  <2>3. P = Nat
    BY <2>1, <2>2, NumbersAll
  <2> QED
    BY <1>2, <1>3, <2>3
<1>6. p \in Plot!Group(m, p)
  <2> DEFINE P == {n \in Nat : p \in near[n]}
  <2>1. 0 \in P
    BY <1>2
  <2>2. \A n \in P : n + 1 \in P
    BY <1>2
  <2>3. P = Nat
    BY <2>1, <2>2, NumbersAll
  <2> QED
    BY <1>2, <1>3, <2>3
<1>7. \A x \in Plot!Group(m, p) : \A q : Linked(m, x, q) => q \in Plot!Group(m, p)
  <2>1. Beside(m, Plot!Group(m, p)) \subseteq Plot!Group(m, p)
    BY WalkEnds
  <2>2. Plot!Group(m, p) \in SUBSET Points
    BY <1>2, <1>3
  <2>3. Beside(m, Plot!Group(m, p)) = {q \in Points : \E x \in Plot!Group(m, p) : Linked(m, x, q)}
    BY <2>2, BesideIs
  <2> QED
    BY <2>1, <2>2, <2>3, LinkedBothWays
<1>8. IsFiniteSet(Plot!Group(m, p))
  <2> DEFINE Ring(dir) == {Plot!Neighbour(q, dir) : q \in DOMAIN m}
             D == DOMAIN m
             F == {p} \union D \union Ring(0) \union Ring(1) \union Ring(2) \union Ring(3)
  <2>1. IsFiniteSet(D) /\ D \in SUBSET Points
    BY DEF IsTable
  <2>2. \A dir : IsFiniteSet(Ring(dir))
    <3> TAKE dir
    <3> DEFINE f == [q \in DOMAIN m |-> Plot!Neighbour(q, dir)]
    <3>1. IsFiniteSet(DOMAIN f)
      BY <2>1
    <3>2. IsFiniteSet(Range(f))
      BY <3>1, RangeFinite
    <3>3. Range(f) = Ring(dir)
      BY DEF Range
    <3> QED
      BY <3>2, <3>3
  <2>3. IsFiniteSet(F)
    <3> HIDE DEF Ring, D
    <3>1. IsFiniteSet({p} \union D)
      BY <2>1, FS_Singleton, FS_Union
    <3>2. IsFiniteSet({p} \union D \union Ring(0))
      BY <2>2, <3>1, FS_Union
    <3>3. IsFiniteSet({p} \union D \union Ring(0) \union Ring(1))
      BY <2>2, <3>2, FS_Union
    <3>4. IsFiniteSet({p} \union D \union Ring(0) \union Ring(1) \union Ring(2))
      BY <2>2, <3>3, FS_Union
    <3> QED
      BY <2>2, <3>4, FS_Union
  <2>4. ASSUME NEW x \in Points, NEW q, Linked(m, x, q)
        PROVE  q \in F
    <3>1. PICK dir \in 0..3 : q = Plot!Neighbour(x, dir)
      BY <2>4 DEF Linked
    <3>2. CASE x \in D
      <4>1. dir = 0 \/ dir = 1 \/ dir = 2 \/ dir = 3
        OBVIOUS
      <4>2. q \in Ring(dir)
        BY <3>1, <3>2
      <4> HIDE DEF Ring, D
      <4> QED
        BY <4>1, <4>2
    <3>3. CASE x \notin D
      <4>1. q \in D
        BY <2>4, <3>3, LinkedBothWays
      <4> QED
        BY <4>1
    <3> QED
      BY <3>2, <3>3
  <2> DEFINE T == F \intersect Points
  <2> HIDE DEF F
  <2>5. p \in T
    BY DEF F
  <2>6. \A x \in T : \A q : Linked(m, x, q) => q \in T
    BY <2>4, LinkedBothWays
  <2>7. Plot!Group(m, p) \in SUBSET F
    BY <1>5, <2>5, <2>6
  <2> QED
    BY <2>3, <2>7, FS_Subset
<1>9. Plot!Group(m, p) \in SUBSET Points
  BY <1>2, <1>3
<1> QED
  BY <1>5, <1>6, <1>7, <1>8, <1>9

\* Whoever is in a group has that group.
LEMMA GroupShared ==
  ASSUME NEW m, IsTable(m), NEW p \in Points, NEW q \in Plot!Group(m, p)
  PROVE  Plot!Group(m, q) = Plot!Group(m, p)
<1>0. q \in Points
  BY GroupIs
<1>1. ASSUME NEW x \in Points, NEW y \in Plot!Group(m, x)
      PROVE  Plot!Group(m, y) \subseteq Plot!Group(m, x)
  <2>1. PICK G \in SUBSET Points : G = Plot!Group(m, x)
    BY GroupIs
  <2>2. /\ \A z \in G : \A w : Linked(m, z, w) => w \in G
        /\ y \in G /\ y \in Points
    BY <1>1, <2>1, GroupIs
  <2>3. Plot!Group(m, y) \subseteq G
    BY <2>2, GroupIs
  <2> QED
    BY <2>1, <2>3
<1>2. PICK T : T = {x \in Plot!Group(m, p) : p \in Plot!Group(m, x)}
  OBVIOUS
<1>3. p \in T /\ T \in SUBSET Points
  BY <1>2, GroupIs
<1>4. ASSUME NEW x \in T, NEW y, Linked(m, x, y) PROVE y \in T
  <2>1. x \in Points /\ y \in Points /\ Linked(m, y, x) /\ y \in Plot!Group(m, p)
    BY <1>2, <1>3, <1>4, GroupIs, LinkedBothWays
  <2>2. y \in Plot!Group(m, y)
    BY <2>1, GroupIs
  <2>3. x \in Plot!Group(m, y)
    BY <2>1, <2>2, GroupIs
  <2>4. Plot!Group(m, x) \subseteq Plot!Group(m, y)
    BY <1>1, <2>1, <2>3
  <2> QED
    BY <1>2, <2>1, <2>4
<1>5. Plot!Group(m, p) \subseteq T
  BY <1>3, <1>4, GroupIs
<1>6. p \in Plot!Group(m, q)
  BY <1>2, <1>5
<1> QED
  BY <1>0, <1>1, <1>6

\* Of finitely many plots one is the least.
Before(p, q) == p[1] < q[1] \/ (p[1] = q[1] /\ p[2] <= q[2])

LEMMA LeastIs ==
  ASSUME NEW S \in SUBSET Points, IsFiniteSet(S), S # {}
  PROVE  Plot!Least(S) \in S
<1> DEFINE Has(X) == \E p \in X : \A q \in X : Before(p, q)
           P == {k \in Nat : \A X \in SUBSET Points :
                   IsFiniteSet(X) /\ Cardinality(X) = k + 1 => Has(X)}
<1>1. \A p, q \in Points : Before(p, q) \/ Before(q, p)
  BY DEF Before, Points
<1>2. \A p, q, r \in Points : Before(p, q) /\ Before(q, r) => Before(p, r)
  BY DEF Before, Points
<1>3. 0 \in P
  <2> SUFFICES ASSUME NEW X \in SUBSET Points, IsFiniteSet(X), Cardinality(X) = 0 + 1
               PROVE  Has(X)
    OBVIOUS
  <2>1. Cardinality(X) = 1
    OBVIOUS
  <2>2. PICK p : X = {p}
    BY <2>1, FS_Singleton
  <2> QED
    BY <1>1, <2>2
<1>4. \A k \in P : k + 1 \in P
  <2> TAKE k \in P
  <2> SUFFICES ASSUME NEW X \in SUBSET Points, IsFiniteSet(X), Cardinality(X) = (k + 1) + 1
               PROVE  Has(X)
    OBVIOUS
  <2>1. X # {}
    BY FS_EmptySet
  <2>2. PICK x \in X : TRUE
    BY <2>1
  <2>3. PICK Y : Y = X \ {x}
    OBVIOUS
  <2>4. Y \in SUBSET Points /\ IsFiniteSet(Y) /\ Cardinality(Y) = k + 1
    BY <2>2, <2>3, FS_RemoveElement
  <2>5. PICK y \in Y : \A q \in Y : Before(y, q)
    BY <2>4
  <2>6. x \in Points /\ y \in Points /\ X = Y \union {x}
    BY <2>2, <2>3, <2>4
  <2>7. CASE Before(x, y)
    BY <1>1, <1>2, <2>4, <2>5, <2>6, <2>7
  <2>8. CASE Before(y, x)
    BY <2>5, <2>6, <2>8
  <2> QED
    BY <1>1, <2>6, <2>7, <2>8
<1>5. P = Nat
  <2> HIDE DEF Has
  <2> QED
    BY <1>3, <1>4, NumbersAll
<1>6. Cardinality(S) \in Nat /\ Cardinality(S) # 0
  BY FS_CardinalityType, FS_EmptySet
<1>7. PICK k \in Nat : Cardinality(S) = k + 1
  <2>1. Cardinality(S) - 1 \in Nat /\ Cardinality(S) = (Cardinality(S) - 1) + 1
    BY <1>6
  <2> QED
    BY <2>1
<1>8. Has(S)
  <2> HIDE DEF Has
  <2> QED
    BY <1>5, <1>7
<1> QED
  BY <1>8 DEF Before, Plot!Least

\* A set of so many has a part of fewer with a given element.
LEMMA PartOfSize ==
  ASSUME NEW G, IsFiniteSet(G), NEW p \in G, NEW n \in Nat, n < Cardinality(G)
  PROVE  \E S \in SUBSET G : p \in S /\ Cardinality(S) = n + 1
<1> DEFINE Some(k) == \E S \in SUBSET G : p \in S /\ Cardinality(S) = k + 1
           P == {k \in Nat : k < Cardinality(G) => Some(k)}
<1>1. 0 \in P
  <2>1. Cardinality({p}) = 1
    BY FS_Singleton
  <2>2. {p} \in SUBSET G /\ p \in {p} /\ Cardinality({p}) = 0 + 1
    BY <2>1
  <2> QED
    BY <2>2
<1>2. \A k \in P : k + 1 \in P
  <2> TAKE k \in P
  <2> SUFFICES ASSUME k + 1 < Cardinality(G) PROVE Some(k + 1)
    <3> HIDE DEF Some
    <3> QED
      OBVIOUS
  <2>1. Cardinality(G) \in Nat
    BY FS_CardinalityType
  <2>2. Some(k)
    BY <2>1
  <2>3. PICK S \in SUBSET G : p \in S /\ Cardinality(S) = k + 1
    BY <2>2
  <2>4. S # G
    BY <2>1, <2>3
  <2>5. PICK x \in G : x \notin S
    BY <2>4
  <2>6. Cardinality(S \union {x}) = (k + 1) + 1
    BY <2>3, <2>5, FS_Subset, FS_AddElement
  <2>7. S \union {x} \in SUBSET G
    BY <2>5
  <2> QED
    BY <2>3, <2>6, <2>7
<1>3. P = Nat
  <2> HIDE DEF Some
  <2> QED
    BY <1>1, <1>2, NumbersAll
<1> QED
  BY <1>3

LEMMA SeenIs ==
  ASSUME NEW m, IsTable(m), NEW p \in Points, ScanLimit < Cardinality(Plot!Group(m, p))
  PROVE  Plot!Seen(m, p) \subseteq Plot!Group(m, p)
<1>1. PICK G : G = Plot!Group(m, p)
  OBVIOUS
<1>2. IsFiniteSet(G) /\ p \in G /\ ScanLimit \in Nat
  BY <1>1, GroupIs, PlotAssumption
<1>3. \E S \in SUBSET G : p \in S /\ Cardinality(S) = ScanLimit + 1
  BY <1>1, <1>2, PartOfSize
<1> QED
  BY <1>1, <1>3, PlotCardinality DEF Plot!Seen

-----------------------------------------------------------------------------
(* Plots: the memo of roots.                                               *)

Small(m, p) == Cardinality(Plot!Group(m, p)) <= ScanLimit

\* A grid; what it remembers is so.
Grids ==
  [size : 1..512, road : 0..64, merges : Tables \union {<<>>},
   roots : UNION {[D -> Points] : D \in SUBSET Points}, oversized : SUBSET Points]

MemoTrue(g) ==
  /\ \A q \in DOMAIN g.roots :
       Small(g.merges, q) /\ g.roots[q] = Plot!Least(Plot!Group(g.merges, q))
  /\ \A q \in g.oversized : ~Small(g.merges, q)

TrueGrid(g) == g \in Grids /\ MemoTrue(g)

SameGrid(g, h) == h.size = g.size /\ h.road = g.road /\ h.merges = g.merges

LEMMA GridTable ==
  ASSUME NEW g \in Grids
  PROVE  IsTable(g.merges)
<1>1. CASE g.merges \in Tables
  BY <1>1, PlotAssumption DEF IsTable
<1>2. CASE g.merges = <<>>
  <2>1. DOMAIN <<>> = {}
    OBVIOUS
  <2> QED
    BY <1>2, <2>1, FS_EmptySet DEF IsTable
<1> QED
  BY <1>1, <1>2 DEF Grids

LEMMA RootIs ==
  ASSUME NEW g, TrueGrid(g), NEW p \in Points
  PROVE  LET a == Plot!GroupRoot(g, p)
         IN  /\ TrueGrid(a.g) /\ SameGrid(g, a.g)
             /\ a.root = IF Small(g.merges, p) THEN {Plot!Least(Plot!Group(g.merges, p))} ELSE {}
<1>1. g \in Grids /\ MemoTrue(g) /\ IsTable(g.merges)
  BY GridTable DEF TrueGrid
<1> DEFINE RootMaps == UNION {[D -> Points] : D \in SUBSET Points}
           AllTables == Tables \union {<<>>}
<1>11. g \in [size : 1..512, road : 0..64, merges : AllTables, roots : RootMaps,
              oversized : SUBSET Points]
  BY <1>1 DEF Grids
<1>12. ASSUME NEW S \in SUBSET Points, NEW h, h = [g EXCEPT !.oversized = @ \cup S]
       PROVE  h \in Grids /\ SameGrid(g, h) /\ h.roots = g.roots /\ h.oversized = g.oversized \union S
  <2>1. h \in [size : 1..512, road : 0..64, merges : AllTables, roots : RootMaps,
               oversized : SUBSET Points]
    <3> HIDE DEF RootMaps, AllTables
    <3> QED
      BY <1>11, <1>12
  <2>2. h \in Grids
    BY <2>1 DEF Grids
  <2>3. SameGrid(g, h) /\ h.roots = g.roots /\ h.oversized = g.oversized \union S
    <3> HIDE DEF RootMaps, AllTables
    <3> QED
      BY <1>11, <1>12 DEF SameGrid
  <2> QED
    BY <2>2, <2>3
<1>13. ASSUME NEW R, R \in RootMaps, NEW h, h = [g EXCEPT !.roots = R]
       PROVE  h \in Grids /\ SameGrid(g, h) /\ h.roots = R /\ h.oversized = g.oversized
  <2>1. h \in [size : 1..512, road : 0..64, merges : AllTables, roots : RootMaps,
               oversized : SUBSET Points]
    <3> HIDE DEF RootMaps, AllTables
    <3> QED
      BY <1>11, <1>13
  <2>2. h \in Grids
    BY <2>1 DEF Grids
  <2>3. SameGrid(g, h) /\ h.roots = R /\ h.oversized = g.oversized
    <3> HIDE DEF RootMaps, AllTables
    <3> QED
      BY <1>11, <1>13 DEF SameGrid
  <2> QED
    BY <2>2, <2>3
<1>2. PICK m : m = g.merges
  OBVIOUS
<1>3. PICK G : G = Plot!Group(m, p)
  OBVIOUS
<1>4. G \in SUBSET Points /\ IsFiniteSet(G) /\ p \in G /\ \A q \in G : Plot!Group(m, q) = G
  BY <1>1, <1>2, <1>3, GroupIs, GroupShared
<1>5. Cardinality(G) \in Nat /\ ScanLimit \in Nat /\ Plot!Cardinality(G) = Cardinality(G)
  BY <1>4, FS_CardinalityType, PlotAssumption, PlotCardinality
<1>6. \A q \in G : Small(m, q) <=> Cardinality(G) <= ScanLimit
  BY <1>4 DEF Small
<1>7. CASE p \in g.oversized
  <2>1. Plot!GroupRoot(g, p) = [root |-> {}, g |-> g]
    BY <1>7 DEF Plot!GroupRoot
  <2>2. ~Small(m, p)
    BY <1>1, <1>2, <1>7 DEF MemoTrue
  <2> QED
    BY <1>2, <2>1, <2>2 DEF SameGrid
<1>8. CASE p \notin g.oversized /\ p \in DOMAIN g.roots
  <2>1. Plot!GroupRoot(g, p) = [root |-> {g.roots[p]}, g |-> g]
    BY <1>8 DEF Plot!GroupRoot
  <2>2. Small(m, p) /\ g.roots[p] = Plot!Least(G)
    BY <1>1, <1>2, <1>3, <1>8 DEF MemoTrue
  <2> QED
    BY <1>2, <1>3, <2>1, <2>2 DEF SameGrid
<1>9. CASE p \notin g.oversized /\ p \notin DOMAIN g.roots /\ Cardinality(G) > ScanLimit
  <2>1. PICK S : S = Plot!Seen(m, p)
    OBVIOUS
  <2>2. S \subseteq G
    BY <1>1, <1>2, <1>3, <1>5, <1>9, <2>1, SeenIs
  <2>3. PICK h : h = [g EXCEPT !.oversized = @ \cup S]
    OBVIOUS
  <2>4. Plot!GroupRoot(g, p) = [root |-> {}, g |-> h]
    BY <1>2, <1>3, <1>5, <1>9, <2>1, <2>3 DEF Plot!GroupRoot
  <2>5. h \in Grids /\ SameGrid(g, h) /\ h.roots = g.roots /\ h.oversized = g.oversized \union S
    BY <1>4, <1>12, <2>2, <2>3
  <2>6. \A q \in S : ~Small(m, q)
    BY <1>5, <1>6, <1>9, <2>2
  <2>7. MemoTrue(h)
    BY <1>1, <1>2, <2>5, <2>6 DEF MemoTrue, SameGrid
  <2>8. ~Small(m, p)
    BY <1>4, <1>5, <1>6, <1>9
  <2> QED
    BY <1>2, <2>4, <2>5, <2>7, <2>8 DEF TrueGrid
<1>10. CASE p \notin g.oversized /\ p \notin DOMAIN g.roots /\ ~(Cardinality(G) > ScanLimit)
  <2>1. PICK l : l = Plot!Least(G)
    OBVIOUS
  <2>2. l \in Points
    BY <1>4, <2>1, LeastIs
  <2>3. PICK R : R = [q \in DOMAIN g.roots \cup G |-> IF q \in G THEN l ELSE g.roots[q]]
    OBVIOUS
  <2>4. PICK h : h = [g EXCEPT !.roots = R]
    OBVIOUS
  <2>5. Plot!GroupRoot(g, p) = [root |-> {l}, g |-> h]
    BY <1>2, <1>3, <1>5, <1>10, <2>1, <2>3, <2>4 DEF Plot!GroupRoot
  <2>6. DOMAIN g.roots \in SUBSET Points /\ g.roots \in [DOMAIN g.roots -> Points]
    BY <1>1 DEF Grids
  <2>7. R \in [DOMAIN g.roots \cup G -> Points]
    BY <1>4, <2>2, <2>3, <2>6
  <2>8. R \in RootMaps
    <3>1. DOMAIN g.roots \cup G \in SUBSET Points
      BY <1>4, <2>6
    <3> QED
      BY <2>7, <3>1
  <2>9. h \in Grids /\ SameGrid(g, h) /\ h.roots = R /\ h.oversized = g.oversized
  <3> HIDE DEF RootMaps
  <3> QED
    BY <1>13, <2>4, <2>8
  <2>10. \A q \in G : Small(m, q)
    BY <1>5, <1>6, <1>10
  <2>11. \A q \in DOMAIN R : Small(m, q) /\ R[q] = Plot!Least(Plot!Group(m, q))
    BY <1>1, <1>2, <1>4, <2>1, <2>3, <2>10 DEF MemoTrue
  <2>12. MemoTrue(h)
    BY <1>1, <1>2, <2>9, <2>11 DEF MemoTrue, SameGrid
  <2>13. Small(m, p)
    BY <1>4, <2>10
  <2> QED
    BY <1>2, <1>3, <2>1, <2>5, <2>9, <2>12, <2>13 DEF TrueGrid
<1> QED
  BY <1>7, <1>8, <1>9, <1>10

-----------------------------------------------------------------------------
(* Plots: where columns lie.                                               *)

Cell(g) == g.size + g.road

\* The plot whose cell a column lies in, and the column so far into a plot's cell.
Base(g, c) == <<c[1] \div Cell(g), c[2] \div Cell(g)>>

Column(g, p, r, s) == <<Cell(g) * p[1] + r, Cell(g) * p[2] + s>>

Owned(g, c) == Plot!OwningPlot(g, c) # {}

\* What of its cell a plot owns: its own square, and the roads it is merged across.
OwnedAt(g, p, r, s) ==
  /\ r >= g.size => Plot!Connected(g.merges, p, 1)
  /\ s >= g.size => Plot!Connected(g.merges, p, 2)
  /\ r >= g.size /\ s >= g.size =>
       /\ Plot!Connected(g.merges, Plot!Neighbour(p, 1), 2)
       /\ Plot!Connected(g.merges, Plot!Neighbour(p, 2), 1)

LEMMA CellIs ==
  ASSUME NEW g \in Grids
  PROVE  /\ g.size \in Nat /\ g.road \in Nat /\ g.size >= 1
         /\ Cell(g) \in Nat \ {0} /\ Cell(g) = g.size + g.road
         /\ Cell(g) - 1 \in 0..(Cell(g) - 1) /\ 0 \in 0..(Cell(g) - 1)
<1>1. g.size \in 1..512 /\ g.road \in 0..64
  BY DEF Grids
<1>2. PICK a \in 1..512, b \in 0..64 : a = g.size /\ b = g.road
  BY <1>1
<1>3. PICK n : n = a + b
  OBVIOUS
<1>4. Cell(g) = n
  BY <1>2, <1>3 DEF Cell
<1>5. a \in Nat /\ b \in Nat /\ a >= 1 /\ n \in Nat \ {0} /\ n - 1 \in 0..(n - 1) /\ 0 \in 0..(n - 1)
  BY <1>3
<1> QED
  BY <1>2, <1>3, <1>4, <1>5

LEMMA QuotientIs ==
  ASSUME NEW n \in Nat \ {0}, NEW a \in Int
  PROVE  a \div n \in Int /\ a % n \in 0..(n - 1) /\ a = n * (a \div n) + (a % n)
OBVIOUS

LEMMA QuotientOf ==
  ASSUME NEW n \in Nat \ {0}, NEW q \in Int, NEW r \in 0..(n - 1)
  PROVE  n * q + r \in Int /\ (n * q + r) \div n = q /\ (n * q + r) % n = r
OBVIOUS

LEMMA ColumnIs ==
  ASSUME NEW g \in Grids, NEW p \in Points, NEW r \in 0..(Cell(g) - 1), NEW s \in 0..(Cell(g) - 1)
  PROVE  LET c == Column(g, p, r, s)
         IN  c \in Points /\ Base(g, c) = p /\ c[1] % Cell(g) = r /\ c[2] % Cell(g) = s
<1>1. p[1] \in Int /\ p[2] \in Int /\ p = <<p[1], p[2]>>
  BY DEF Points
<1>2. PICK n \in Nat \ {0} : n = Cell(g)
  BY CellIs
<1>3. PICK x \in Int, y \in Int : x = p[1] /\ y = p[2]
  BY <1>1
<1>4. /\ n * x + r \in Int /\ (n * x + r) \div n = x /\ (n * x + r) % n = r
      /\ n * y + s \in Int /\ (n * y + s) \div n = y /\ (n * y + s) % n = s
  BY <1>2, QuotientOf
<1>5. PICK u \in Int, v \in Int : u = n * x + r /\ v = n * y + s
  BY <1>4
<1>6. Column(g, p, r, s) = <<u, v>>
  BY <1>2, <1>3, <1>5 DEF Column
<1>7. u \div n = x /\ u % n = r /\ v \div n = y /\ v % n = s
  BY <1>4, <1>5
<1>8. Base(g, <<u, v>>) = p
  BY <1>1, <1>2, <1>3, <1>7 DEF Base
<1> QED
  BY <1>2, <1>6, <1>7, <1>8 DEF Points

LEMMA InColumn ==
  ASSUME NEW g \in Grids, NEW c \in Points
  PROVE  /\ Base(g, c) \in Points
         /\ c[1] % Cell(g) \in 0..(Cell(g) - 1) /\ c[2] % Cell(g) \in 0..(Cell(g) - 1)
         /\ c = Column(g, Base(g, c), c[1] % Cell(g), c[2] % Cell(g))
<1>1. PICK x \in Int, y \in Int : c = <<x, y>>
  BY DEF Points
<1>2. PICK n \in Nat \ {0} : n = Cell(g)
  BY CellIs
<1>3. /\ x \div n \in Int /\ x % n \in 0..(n - 1) /\ x = n * (x \div n) + (x % n)
      /\ y \div n \in Int /\ y % n \in 0..(n - 1) /\ y = n * (y \div n) + (y % n)
  BY <1>2, QuotientIs
<1>4. PICK u \in Int, r \in 0..(n - 1) : u = x \div n /\ r = x % n /\ x = n * u + r
  BY <1>3
<1>5. PICK v \in Int, s \in 0..(n - 1) : v = y \div n /\ s = y % n /\ y = n * v + s
  BY <1>3
<1>6. Base(g, c) = <<u, v>> /\ c[1] % n = r /\ c[2] % n = s
  BY <1>1, <1>2, <1>4, <1>5 DEF Base
<1>7. Column(g, <<u, v>>, r, s) = <<x, y>>
  BY <1>2, <1>4, <1>5 DEF Column
<1> QED
  BY <1>1, <1>2, <1>6, <1>7 DEF Points

LEMMA OwnerIs ==
  ASSUME NEW g \in Grids, NEW c \in Points
  PROVE  /\ Base(g, c) \in Points
         /\ Owned(g, c) <=> OwnedAt(g, Base(g, c), c[1] % Cell(g), c[2] % Cell(g))
         /\ Plot!OwningPlot(g, c) = IF Owned(g, c) THEN {Base(g, c)} ELSE {}
<1>1. Base(g, c) \in Points /\ c[1] % Cell(g) \in Int /\ c[2] % Cell(g) \in Int /\ g.size \in Int
  BY InColumn, CellIs
<1>2. PICK b : b = Base(g, c)
  OBVIOUS
<1>3. PICK r \in Int, s \in Int : r = c[1] % Cell(g) /\ s = c[2] % Cell(g)
  BY <1>1
<1>4. Plot!OwningPlot(g, c) =
        IF \/ ~(r >= g.size) /\ ~(s >= g.size)
           \/ r >= g.size /\ ~(s >= g.size) /\ Plot!Connected(g.merges, b, 1)
           \/ ~(r >= g.size) /\ s >= g.size /\ Plot!Connected(g.merges, b, 2)
           \/ /\ r >= g.size /\ s >= g.size
              /\ Plot!Connected(g.merges, b, 1) /\ Plot!Connected(g.merges, b, 2)
              /\ Plot!Connected(g.merges, Plot!Neighbour(b, 1), 2)
              /\ Plot!Connected(g.merges, Plot!Neighbour(b, 2), 1)
        THEN {b} ELSE {}
  BY <1>1, <1>2, <1>3 DEF Plot!OwningPlot, Base, Cell
<1>5. Owned(g, c) <=> OwnedAt(g, b, r, s)
  BY <1>4 DEF Owned, OwnedAt
<1>6. Plot!OwningPlot(g, c) = IF Owned(g, c) THEN {b} ELSE {}
  BY <1>4 DEF Owned
<1> QED
  BY <1>1, <1>2, <1>3, <1>5, <1>6

\* The columns next to one, to the east and to the south, are in the same cell or are the
\* first of the next.
LEMMA NextColumn ==
  ASSUME NEW g \in Grids, NEW p \in Points, NEW r \in 0..(Cell(g) - 1), NEW s \in 0..(Cell(g) - 1)
  PROVE  /\ Plot!Neighbour(Column(g, p, r, s), 1) =
              IF r < Cell(g) - 1 THEN Column(g, p, r + 1, s)
              ELSE Column(g, Plot!Neighbour(p, 1), 0, s)
         /\ Plot!Neighbour(Column(g, p, r, s), 2) =
              IF s < Cell(g) - 1 THEN Column(g, p, r, s + 1)
              ELSE Column(g, Plot!Neighbour(p, 2), r, 0)
<1>1. PICK x \in Int, y \in Int : p = <<x, y>>
  BY DEF Points
<1>2. PICK n \in Nat \ {0} : n = Cell(g)
  BY CellIs
<1>3. \A z \in Int : n * z \in Int /\ n * (z + 1) = n * z + n
  BY <1>2
<1>4. PICK u \in Int, v \in Int : u = n * x /\ v = n * y /\ n * (x + 1) = u + n /\ n * (y + 1) = v + n
  BY <1>3
<1>5. /\ Plot!Neighbour(p, 1) = <<x + 1, y>> /\ Plot!Neighbour(p, 2) = <<x, y + 1>>
  BY <1>1, NeighbourIs
<1>10. Column(g, p, r, s) = <<u + r, v + s>> /\ <<u + r, v + s>> \in Points
  BY <1>1, <1>2, <1>4 DEF Column, Points
<1>6. /\ Column(g, p, r + 1, s) = <<u + (r + 1), v + s>>
      /\ Column(g, p, r, s + 1) = <<u + r, v + (s + 1)>>
      /\ Column(g, <<x + 1, y>>, 0, s) = <<(u + n) + 0, v + s>>
      /\ Column(g, <<x, y + 1>>, r, 0) = <<u + r, (v + n) + 0>>
  BY <1>1, <1>2, <1>4 DEF Column
<1>7. PICK i \in Int, j \in Int : i = u + r /\ j = v + s
  OBVIOUS
<1>8. Plot!Neighbour(<<i, j>>, 1) = <<i + 1, j>> /\ Plot!Neighbour(<<i, j>>, 2) = <<i, j + 1>>
  <2>1. <<i, j>> \in Points
    BY DEF Points
  <2> QED
    BY <2>1, NeighbourIs
<1>9. /\ i + 1 = u + (r + 1) /\ j + 1 = v + (s + 1)
      /\ ~(r < n - 1) => i + 1 = (u + n) + 0
      /\ ~(s < n - 1) => j + 1 = (v + n) + 0
  BY <1>2, <1>7
<1> QED
  BY <1>2, <1>5, <1>6, <1>7, <1>8, <1>9, <1>10

\* Columns of plots that lie side by side are of one plot, or of two that are connected:
\* there is a road between those that are not.
LEMMA NextDoor ==
  ASSUME NEW g \in Grids, g.road > 0, NEW a \in Points, NEW dir \in 0..3,
         Owned(g, a), Owned(g, Plot!Neighbour(a, dir))
  PROVE  \/ Base(g, Plot!Neighbour(a, dir)) = Base(g, a)
         \/ Linked(g.merges, Base(g, a), Base(g, Plot!Neighbour(a, dir)))
<1>1. ASSUME NEW c \in Points, Owned(g, c), NEW i \in {1, 2}
      PROVE  \/ Base(g, Plot!Neighbour(c, i)) = Base(g, c)
             \/ Linked(g.merges, Base(g, c), Base(g, Plot!Neighbour(c, i)))
  <2>1. PICK p \in Points, r \in 0..(Cell(g) - 1), s \in 0..(Cell(g) - 1) :
          p = Base(g, c) /\ r = c[1] % Cell(g) /\ s = c[2] % Cell(g) /\ c = Column(g, p, r, s)
    BY InColumn
  <2>2. OwnedAt(g, p, r, s)
    BY <1>1, <2>1, OwnerIs
  <2>3. /\ Cell(g) \in Nat /\ g.size \in Nat /\ g.road \in Nat /\ Cell(g) = g.size + g.road
        /\ 0 \in 0..(Cell(g) - 1)
    BY CellIs
  <2>7. Plot!Neighbour(p, 1) \in Points /\ Plot!Neighbour(p, 2) \in Points
    <3>1. 1 \in 0..3 /\ 2 \in 0..3
      OBVIOUS
    <3> QED
      BY <3>1, NeighbourIs
  <2>4. \A k \in 0..(Cell(g) - 1) : /\ k < Cell(g) - 1 => k + 1 \in 0..(Cell(g) - 1)
                                    /\ ~(k < Cell(g) - 1) => k >= g.size
    BY <2>3
  <2>5. CASE i = 1
    <3>1. CASE r < Cell(g) - 1
      <4>1. Plot!Neighbour(c, 1) = Column(g, p, r + 1, s)
        BY <2>1, <3>1, NextColumn
      <4>2. r + 1 \in 0..(Cell(g) - 1)
        BY <2>4, <3>1
      <4>3. Base(g, Column(g, p, r + 1, s)) = p
        BY <4>2, ColumnIs
      <4> QED
        BY <2>1, <2>5, <4>1, <4>3
    <3>2. CASE ~(r < Cell(g) - 1)
      <4>1. Plot!Neighbour(c, 1) = Column(g, Plot!Neighbour(p, 1), 0, s)
        BY <2>1, <3>2, NextColumn
      <4>2. Base(g, Column(g, Plot!Neighbour(p, 1), 0, s)) = Plot!Neighbour(p, 1)
        BY <2>3, <2>7, ColumnIs
      <4>3. Plot!Connected(g.merges, p, 1)
        BY <2>2, <2>4, <3>2 DEF OwnedAt
      <4>4. Linked(g.merges, p, Plot!Neighbour(p, 1))
        BY <4>3 DEF Linked
      <4> QED
        BY <2>1, <2>5, <4>1, <4>2, <4>4
    <3> QED
      BY <3>1, <3>2
  <2>6. CASE i = 2
    <3>1. CASE s < Cell(g) - 1
      <4>1. Plot!Neighbour(c, 2) = Column(g, p, r, s + 1)
        BY <2>1, <3>1, NextColumn
      <4>2. s + 1 \in 0..(Cell(g) - 1)
        BY <2>4, <3>1
      <4>3. Base(g, Column(g, p, r, s + 1)) = p
        BY <4>2, ColumnIs
      <4> QED
        BY <2>1, <2>6, <4>1, <4>3
    <3>2. CASE ~(s < Cell(g) - 1)
      <4>1. Plot!Neighbour(c, 2) = Column(g, Plot!Neighbour(p, 2), r, 0)
        BY <2>1, <3>2, NextColumn
      <4>2. Base(g, Column(g, Plot!Neighbour(p, 2), r, 0)) = Plot!Neighbour(p, 2)
        BY <2>3, <2>7, ColumnIs
      <4>3. Plot!Connected(g.merges, p, 2)
        BY <2>2, <2>4, <3>2 DEF OwnedAt
      <4>4. Linked(g.merges, p, Plot!Neighbour(p, 2))
        BY <4>3 DEF Linked
      <4> QED
        BY <2>1, <2>6, <4>1, <4>2, <4>4
    <3> QED
      BY <3>1, <3>2
  <2> QED
    BY <2>5, <2>6
<1>2. PICK b \in Points : b = Plot!Neighbour(a, dir)
  BY NeighbourIs
<1>3. CASE dir = 1 \/ dir = 2
  BY <1>1, <1>3
<1>4. CASE dir = 0 \/ dir = 3
  <2>1. PICK i \in {1, 2} : i = (dir + 2) % 4
    BY <1>4
  <2>2. Plot!Neighbour(b, i) = a
    BY <1>2, <2>1, NeighbourIs
  <2>3. Base(g, a) = Base(g, b) \/ Linked(g.merges, Base(g, b), Base(g, a))
    BY <1>1, <1>2, <2>2
  <2>4. Base(g, b) \in Points
    BY InColumn
  <2> QED
    BY <1>2, <2>3, <2>4, LinkedBothWays
<1>5. dir = 0 \/ dir = 1 \/ dir = 2 \/ dir = 3
  OBVIOUS
<1> QED
  BY <1>3, <1>4, <1>5

\* A set of columns that leaves out none of a plot's next to one of its own.
Closed(g, R) ==
  /\ R \in SUBSET Points
  /\ \A a \in R, dir \in 0..3 : Owned(g, Plot!Neighbour(a, dir)) => Plot!Neighbour(a, dir) \in R

LEMMA ClosedBothWays ==
  ASSUME NEW g \in Grids, NEW R, Closed(g, R), NEW a \in Points, NEW dir \in 0..3,
         Owned(g, a), Owned(g, Plot!Neighbour(a, dir))
  PROVE  a \in R <=> Plot!Neighbour(a, dir) \in R
<1>1. PICK b \in Points : b = Plot!Neighbour(a, dir)
  BY NeighbourIs
<1>2. PICK i \in 0..3 : i = (dir + 2) % 4
  BY NeighbourIs
<1>3. Plot!Neighbour(b, i) = a
  BY <1>1, <1>2, NeighbourIs
<1> QED
  BY <1>1, <1>3 DEF Closed

\* It has all of what a plot owns, or nothing.
LEMMA PlotWhole ==
  ASSUME NEW g \in Grids, NEW R, Closed(g, R), NEW p \in Points,
         NEW r \in 0..(Cell(g) - 1), NEW s \in 0..(Cell(g) - 1), OwnedAt(g, p, r, s)
  PROVE  Column(g, p, r, s) \in R <=> Column(g, p, 0, 0) \in R
<1>1. /\ Cell(g) \in Nat /\ g.size \in Nat /\ g.size >= 1 /\ 0 \in 0..(Cell(g) - 1)
  BY CellIs
<1>2. PICK K : K = 0..(Cell(g) - 1)
  OBVIOUS
<1>3. \A i, j \in K : OwnedAt(g, p, i, j) <=> Owned(g, Column(g, p, i, j))
  <2> TAKE i \in K, j \in K
  <2>1. PICK c \in Points : c = Column(g, p, i, j)
    BY <1>2, ColumnIs
  <2>2. Base(g, c) = p /\ c[1] % Cell(g) = i /\ c[2] % Cell(g) = j
    <3>1. LET d == Column(g, p, i, j)
          IN  Base(g, d) = p /\ d[1] % Cell(g) = i /\ d[2] % Cell(g) = j
      BY <1>2, ColumnIs
    <3> QED
      BY <2>1, <3>1
  <2> QED
    BY <2>1, <2>2, OwnerIs
<1>4. ASSUME NEW i \in K, NEW j \in K, i + 1 \in K, OwnedAt(g, p, i + 1, j)
      PROVE  OwnedAt(g, p, i, j) /\ (Column(g, p, i + 1, j) \in R <=> Column(g, p, i, j) \in R)
  <2>1. i >= g.size => i + 1 >= g.size
    BY <1>1, <1>2
  <2>2. OwnedAt(g, p, i, j)
    BY <1>4, <2>1 DEF OwnedAt
  <2>3. PICK c \in Points : c = Column(g, p, i, j)
    BY <1>2, ColumnIs
  <2>4. i < Cell(g) - 1
    BY <1>1, <1>2, <1>4
  <2>5. Plot!Neighbour(c, 1) = Column(g, p, i + 1, j)
    BY <1>2, <2>3, <2>4, NextColumn
  <2>6. Owned(g, c) /\ Owned(g, Plot!Neighbour(c, 1))
    BY <1>3, <1>4, <2>2, <2>3, <2>5
  <2>7. 1 \in 0..3
    OBVIOUS
  <2>8. c \in R <=> Plot!Neighbour(c, 1) \in R
    BY <2>6, <2>7, ClosedBothWays
  <2> QED
    BY <2>2, <2>3, <2>5, <2>8
<1>5. ASSUME NEW i \in K, NEW j \in K, j + 1 \in K, OwnedAt(g, p, i, j + 1)
      PROVE  OwnedAt(g, p, i, j) /\ (Column(g, p, i, j + 1) \in R <=> Column(g, p, i, j) \in R)
  <2>1. j >= g.size => j + 1 >= g.size
    BY <1>1, <1>2
  <2>2. OwnedAt(g, p, i, j)
    BY <1>5, <2>1 DEF OwnedAt
  <2>3. PICK c \in Points : c = Column(g, p, i, j)
    BY <1>2, ColumnIs
  <2>4. j < Cell(g) - 1
    BY <1>1, <1>2, <1>5
  <2>5. Plot!Neighbour(c, 2) = Column(g, p, i, j + 1)
    BY <1>2, <2>3, <2>4, NextColumn
  <2>6. Owned(g, c) /\ Owned(g, Plot!Neighbour(c, 2))
    BY <1>3, <1>5, <2>2, <2>3, <2>5
  <2>7. 2 \in 0..3
    OBVIOUS
  <2>8. c \in R <=> Plot!Neighbour(c, 2) \in R
    BY <2>6, <2>7, ClosedBothWays
  <2> QED
    BY <2>2, <2>3, <2>5, <2>8
<1> DEFINE West(i) == \A j \in K : OwnedAt(g, p, i, j) =>
                        /\ OwnedAt(g, p, 0, j)
                        /\ Column(g, p, i, j) \in R <=> Column(g, p, 0, j) \in R
           North(j) == OwnedAt(g, p, 0, j) =>
                        (Column(g, p, 0, j) \in R <=> Column(g, p, 0, 0) \in R)
           P == {i \in Nat : i \in K => West(i)}
           Q == {j \in Nat : j \in K => North(j)}
<1>6. P = Nat
  <2>1. 0 \in P
    OBVIOUS
  <2>2. \A i \in P : i + 1 \in P
    <3> TAKE i \in P
    <3> SUFFICES ASSUME i + 1 \in K, NEW j \in K, OwnedAt(g, p, i + 1, j)
                 PROVE  /\ OwnedAt(g, p, 0, j)
                        /\ Column(g, p, i + 1, j) \in R <=> Column(g, p, 0, j) \in R
      OBVIOUS
    <3>1. i \in K
      BY <1>1, <1>2
    <3>2. OwnedAt(g, p, i, j) /\ (Column(g, p, i + 1, j) \in R <=> Column(g, p, i, j) \in R)
      BY <1>4, <3>1
    <3>3. West(i)
      BY <3>1
    <3> QED
      BY <3>2, <3>3
  <2> HIDE DEF West
  <2> QED
    BY <2>1, <2>2, NumbersAll
<1>7. Q = Nat
  <2>1. 0 \in Q
    OBVIOUS
  <2>2. \A j \in Q : j + 1 \in Q
    <3> TAKE j \in Q
    <3> SUFFICES ASSUME j + 1 \in K, OwnedAt(g, p, 0, j + 1)
                 PROVE  Column(g, p, 0, j + 1) \in R <=> Column(g, p, 0, 0) \in R
      OBVIOUS
    <3>1. j \in K /\ 0 \in K
      BY <1>1, <1>2
    <3>2. OwnedAt(g, p, 0, j) /\ (Column(g, p, 0, j + 1) \in R <=> Column(g, p, 0, j) \in R)
      BY <1>5, <3>1
    <3>3. North(j)
      BY <3>1
    <3> QED
      BY <3>2, <3>3
  <2> HIDE DEF North
  <2> QED
    BY <2>1, <2>2, NumbersAll
<1>8. r \in K /\ s \in K /\ r \in Nat /\ s \in Nat
  BY <1>2
<1>9. West(r) /\ North(s)
  <2> HIDE DEF West, North
  <2> QED
    BY <1>6, <1>7, <1>8
<1> QED
  BY <1>8, <1>9

\* It goes from each plot on to those connected with it.
LEMMA PlotsTouch ==
  ASSUME NEW g \in Grids, NEW R, Closed(g, R), NEW p \in Points, NEW q, Linked(g.merges, p, q)
  PROVE  Column(g, p, 0, 0) \in R <=> Column(g, q, 0, 0) \in R
<1>0. /\ Cell(g) \in Nat /\ g.size \in Nat /\ g.size >= 1 /\ 0 \in 0..(Cell(g) - 1)
      /\ Cell(g) - 1 \in 0..(Cell(g) - 1) /\ ~(0 >= g.size) /\ ~(Cell(g) - 1 < Cell(g) - 1)
  BY CellIs
<1>1. ASSUME NEW x \in Points, NEW i \in {1, 2}, Plot!Connected(g.merges, x, i)
      PROVE  Column(g, x, 0, 0) \in R <=> Column(g, Plot!Neighbour(x, i), 0, 0) \in R
  <2>1. PICK y \in Points : y = Plot!Neighbour(x, i)
    BY NeighbourIs
  <2>2. PICK r \in 0..(Cell(g) - 1), s \in 0..(Cell(g) - 1) :
          /\ OwnedAt(g, x, r, s)
          /\ Plot!Neighbour(Column(g, x, r, s), i) = Column(g, y, 0, 0)
    <3>1. CASE i = 1
      <4>1. OwnedAt(g, x, Cell(g) - 1, 0)
        BY <1>0, <1>1, <3>1 DEF OwnedAt
      <4>2. Plot!Neighbour(Column(g, x, Cell(g) - 1, 0), 1) = Column(g, Plot!Neighbour(x, 1), 0, 0)
        BY <1>0, NextColumn
      <4> QED
        BY <1>0, <2>1, <3>1, <4>1, <4>2
    <3>2. CASE i = 2
      <4>1. OwnedAt(g, x, 0, Cell(g) - 1)
        BY <1>0, <1>1, <3>2 DEF OwnedAt
      <4>2. Plot!Neighbour(Column(g, x, 0, Cell(g) - 1), 2) = Column(g, Plot!Neighbour(x, 2), 0, 0)
        BY <1>0, NextColumn
      <4> QED
        BY <1>0, <2>1, <3>2, <4>1, <4>2
    <3> QED
      BY <3>1, <3>2
  <2>3. PICK a \in Points, b \in Points : a = Column(g, x, r, s) /\ b = Column(g, y, 0, 0)
    BY <1>0, ColumnIs
  <2>4. /\ Base(g, a) = x /\ a[1] % Cell(g) = r /\ a[2] % Cell(g) = s
        /\ Base(g, b) = y /\ b[1] % Cell(g) = 0 /\ b[2] % Cell(g) = 0
    <3>1. LET d == Column(g, x, r, s)
          IN  Base(g, d) = x /\ d[1] % Cell(g) = r /\ d[2] % Cell(g) = s
      BY ColumnIs
    <3>2. LET d == Column(g, y, 0, 0)
          IN  Base(g, d) = y /\ d[1] % Cell(g) = 0 /\ d[2] % Cell(g) = 0
      BY <1>0, ColumnIs
    <3> QED
      BY <2>3, <3>1, <3>2
  <2>5. OwnedAt(g, y, 0, 0)
    BY <1>0 DEF OwnedAt
  <2>6. Owned(g, a) /\ Owned(g, b)
    BY <2>2, <2>4, <2>5, OwnerIs
  <2>7. i \in 0..3 /\ b = Plot!Neighbour(a, i)
    BY <2>2, <2>3
  <2>8. a \in R <=> b \in R
    BY <2>6, <2>7, ClosedBothWays
  <2>9. a \in R <=> Column(g, x, 0, 0) \in R
    BY <2>2, <2>3, PlotWhole
  <2> QED
    BY <2>1, <2>3, <2>8, <2>9
<1>2. PICK dir \in 0..3 : Plot!Connected(g.merges, p, dir) /\ q = Plot!Neighbour(p, dir)
  BY DEF Linked
<1>3. CASE dir = 1 \/ dir = 2
  BY <1>1, <1>2, <1>3
<1>4. CASE dir = 0 \/ dir = 3
  <2>1. PICK i \in {1, 2} : i = (dir + 2) % 4
    BY <1>4
  <2>2. q \in Points /\ Plot!Neighbour(q, i) = p
    BY <1>2, <2>1, NeighbourIs
  <2>3. Plot!Connected(g.merges, q, i)
    BY <1>2, <2>1, LinkedBothWays
  <2> QED
    BY <1>1, <2>2, <2>3
<1>5. dir = 0 \/ dir = 1 \/ dir = 2 \/ dir = 3
  OBVIOUS
<1> QED
  BY <1>3, <1>4, <1>5

-----------------------------------------------------------------------------
(* Plots: regions.                                                         *)

\* The columns next to some, and those with the ones among them that a plot owns.
Around(Q) == UNION {{Plot!Plus(e, dir) : dir \in 0 .. 3} : e \in Q}

Wider(g, Q) == Q \cup {e \in Around(Q) : Plot!OwningPlot(g, e) # {}}

LEMMA WiderIs ==
  ASSUME NEW g, NEW Q \in SUBSET Points
  PROVE  /\ Wider(g, Q) \in SUBSET Points /\ Q \in SUBSET Wider(g, Q)
         /\ \A b \in Wider(g, Q) \ Q : /\ Owned(g, b)
                                       /\ \E a \in Q, dir \in 0..3 : b = Plot!Neighbour(a, dir)
         /\ Wider(g, Q) = Q => Closed(g, Q)
<1>1. \A b : b \in Around(Q) <=> \E a \in Q, dir \in 0..3 : b = Plot!Neighbour(a, dir)
  BY DEF Around, Plot!Plus
<1>2. \A a \in Q, dir \in 0..3 : Plot!Neighbour(a, dir) \in Points
  BY NeighbourIs
<1>3. Around(Q) \in SUBSET Points
  BY <1>1, <1>2
<1>4. \A b : b \in Wider(g, Q) <=> b \in Q \/ (b \in Around(Q) /\ Owned(g, b))
  BY DEF Wider, Owned
<1>5. ASSUME Wider(g, Q) = Q PROVE Closed(g, Q)
  <2> SUFFICES ASSUME NEW a \in Q, NEW dir \in 0..3, Owned(g, Plot!Neighbour(a, dir))
               PROVE  Plot!Neighbour(a, dir) \in Q
    BY DEF Closed
  <2>1. Plot!Neighbour(a, dir) \in Around(Q)
    BY <1>1
  <2>2. Plot!Neighbour(a, dir) \in Wider(g, Q)
    BY <1>4, <2>1
  <2> QED
    BY <1>5, <2>2
<1> QED
  BY <1>1, <1>3, <1>4, <1>5

Growths(g, c) ==
  {grown \in [Nat -> SUBSET Points] :
     /\ grown[0] = {c}
     /\ \A n \in Nat : grown[n + 1] = Wider(g, grown[n])
     /\ Plot!Region(g, c) = grown[ScanLimit * Cell(g) * Cell(g)]}

LEMMA RegionRounds ==
  ASSUME NEW g, NEW c \in Points
  PROVE  Growths(g, c) # {}
<1> DEFINE G == [X \in SUBSET Points |-> Wider(g, X)]
           Rounds(f) == [n \in Nat |-> IF n = 0 THEN {c} ELSE Wider(g, f[n - 1])]
           grown == CHOOSE f : f = Rounds(f)
<1>1. \A X \in SUBSET Points : Wider(g, X) \in SUBSET Points
  BY WiderIs
<1>2. /\ G \in [SUBSET Points -> SUBSET Points]
      /\ \A X \in SUBSET Points : G[X] = Wider(g, X)
  BY <1>1
<1>3. {c} \in SUBSET Points
  OBVIOUS
<1> HIDE DEF G
<1> DEFINE S == SUBSET Points
           base == {c}
<1>4. G \in [S -> S] /\ base \in S
  BY <1>2, <1>3
<1> HIDE DEF S, base
<1>5. PICK f : f \in RecursionsOf(S, base, G)
  BY <1>4, RecursionExists
<1>6. f \in [Nat -> SUBSET Points] /\ f[0] = {c} /\ \A n \in Nat : f[n + 1] = G[f[n]]
  BY <1>5 DEF RecursionsOf, S, base
<1>7. f = Rounds(f)
  <2>1. ASSUME NEW n \in Nat, n # 0
        PROVE  f[n] = Wider(g, f[n - 1])
    <3>1. n - 1 \in Nat /\ (n - 1) + 1 = n
      BY <2>1
    <3> QED
      BY <1>2, <1>6, <3>1
  <2>2. f = [n \in Nat |-> f[n]]
    BY <1>6
  <2> QED
    BY <1>6, <2>1, <2>2
<1>8. grown = Rounds(grown)
  BY <1>7
<1>9. Plot!Region(g, c) = grown[ScanLimit * Cell(g) * Cell(g)]
  BY DEF Plot!Region, Wider, Around, Cell
<1> HIDE DEF grown
<1>10. grown[0] = {c} /\ \A n \in Nat : grown[n + 1] = Wider(g, grown[n])
  <2>1. \A n \in Nat : n + 1 \in Nat /\ n + 1 # 0 /\ (n + 1) - 1 = n
    OBVIOUS
  <2>2. \A n \in Nat : grown[n] = IF n = 0 THEN {c} ELSE Wider(g, grown[n - 1])
    BY <1>8
  <2> QED
    BY <2>1, <2>2
<1>11. grown \in [Nat -> SUBSET Points]
  <2> DEFINE P == {n \in Nat : grown[n] \in SUBSET Points}
  <2>1. 0 \in P /\ \A n \in P : n + 1 \in P
    BY <1>1, <1>3, <1>10
  <2>2. P = Nat
    BY <2>1, NumbersAll
  <2>3. grown = [n \in Nat |-> grown[n]]
    BY <1>8
  <2> QED
    BY <2>2, <2>3
<1> QED
  BY <1>9, <1>10, <1>11 DEF Growths

\* The columns that the plots of a group own.
ColumnsOf(g, G) == {a \in Points : Owned(g, a) /\ Base(g, a) \in G}

LEMMA ColumnsFinite ==
  ASSUME NEW g \in Grids, NEW G \in SUBSET Points, IsFiniteSet(G), Cardinality(G) <= ScanLimit
  PROVE  /\ IsFiniteSet(ColumnsOf(g, G))
         /\ Cardinality(ColumnsOf(g, G)) <= ScanLimit * Cell(g) * Cell(g)
<1> DEFINE F == ColumnsOf(g, G)
           K == 0..(Cell(g) - 1)
           T == G \X (K \X K)
           f == [a \in F |-> <<Base(g, a), <<a[1] % Cell(g), a[2] % Cell(g)>>>>]
<1>1. PICK n \in Nat \ {0} : n = Cell(g)
  BY CellIs
<1>2. IsFiniteSet(K) /\ Cardinality(K) = n
  <2>1. IsFiniteSet(0..(n - 1)) /\ Cardinality(0..(n - 1)) = n
    BY FS_Interval
  <2> QED
    BY <1>1, <2>1
<1>3. IsFiniteSet(K \X K) /\ Cardinality(K \X K) = n * n
  BY <1>2, FS_Product
<1>4. IsFiniteSet(T) /\ Cardinality(T) = Cardinality(G) * (n * n)
  BY <1>3, FS_Product
<1>5. \A a \in F : /\ a \in Points /\ Base(g, a) \in G
                   /\ a[1] % Cell(g) \in K /\ a[2] % Cell(g) \in K
                   /\ a = Column(g, Base(g, a), a[1] % Cell(g), a[2] % Cell(g))
  BY InColumn DEF ColumnsOf
<1>6. f \in [F -> T]
  BY <1>5
<1>7. \A a, b \in F : f[a] = f[b] => a = b
  <2> TAKE a \in F, b \in F
  <2> HAVE f[a] = f[b]
  <2>1. /\ f[a] = <<Base(g, a), <<a[1] % Cell(g), a[2] % Cell(g)>>>>
        /\ f[b] = <<Base(g, b), <<b[1] % Cell(g), b[2] % Cell(g)>>>>
    OBVIOUS
  <2>2. Base(g, a) = Base(g, b) /\ a[1] % Cell(g) = b[1] % Cell(g) /\ a[2] % Cell(g) = b[2] % Cell(g)
    BY <2>1
  <2> QED
    BY <1>5, <2>2
<1>8. f \in Injection(F, T)
  BY <1>6, <1>7 DEF Injection, IsInjective
<1> HIDE DEF F, T, f
<1>9. IsFiniteSet(F) /\ Cardinality(F) <= Cardinality(T)
  BY <1>4, <1>8, FS_Injection
<1>10. PICK k \in Nat : k = Cardinality(G)
  BY FS_CardinalityType
<1>11. PICK l \in Nat : l = ScanLimit
  BY PlotAssumption
<1>12. PICK sq \in Nat : sq = n * n
  BY <1>1
<1>13. k * sq <= l * sq
  BY <1>10, <1>11
<1>14. l * n * n = l * sq
  BY <1>12
<1>15. Cardinality(F) \in Nat /\ Cardinality(T) \in Nat
  BY <1>4, <1>9, FS_CardinalityType
<1>16. Cardinality(T) = k * sq /\ ScanLimit * Cell(g) * Cell(g) = l * n * n
  BY <1>1, <1>4, <1>10, <1>11, <1>12
<1> QED
  BY <1>9, <1>13, <1>14, <1>15, <1>16 DEF F

\* The region of a column is what the plots own that are connected with its own.
LEMMA RegionIs ==
  ASSUME NEW g \in Grids, g.road > 0, NEW c \in Points, Owned(g, c),
         Small(g.merges, Base(g, c))
  PROVE  \A e \in Points :
           Owned(g, e) => (e \in Plot!Region(g, c) <=> Base(g, e) \in Plot!Group(g.merges, Base(g, c)))
<1>1. PICK m : m = g.merges
  OBVIOUS
<1>2. PICK p \in Points : p = Base(g, c)
  BY InColumn
<1>3. PICK G : G = Plot!Group(m, p)
  OBVIOUS
<1>4. /\ IsTable(m) /\ G \in SUBSET Points /\ IsFiniteSet(G) /\ p \in G
      /\ \A x \in G : \A q : Linked(m, x, q) => q \in G
      /\ Cardinality(G) <= ScanLimit
  BY <1>1, <1>2, <1>3, GridTable, GroupIs DEF Small
<1>5. PICK grown \in Growths(g, c) : TRUE
  BY RegionRounds
<1>6. PICK N \in Nat : N = ScanLimit * Cell(g) * Cell(g)
  <2>1. ScanLimit \in Nat /\ Cell(g) \in Nat
    BY CellIs, PlotAssumption
  <2> QED
    BY <2>1
<1>7. /\ grown \in [Nat -> SUBSET Points] /\ grown[0] = {c}
      /\ \A n \in Nat : grown[n + 1] = Wider(g, grown[n])
      /\ Plot!Region(g, c) = grown[N]
  BY <1>5, <1>6 DEF Growths
<1>8. PICK F : F = ColumnsOf(g, G)
  OBVIOUS
<1>9. IsFiniteSet(F) /\ Cardinality(F) \in Nat /\ Cardinality(F) <= N /\ F \in SUBSET Points
  BY <1>4, <1>6, <1>8, ColumnsFinite, FS_CardinalityType DEF ColumnsOf
<1>10. \A n \in Nat : c \in grown[n] /\ grown[n] \in SUBSET F
  <2> DEFINE P == {n \in Nat : c \in grown[n] /\ grown[n] \in SUBSET F}
  <2>1. 0 \in P
    BY <1>2, <1>4, <1>7, <1>8 DEF ColumnsOf
  <2>2. \A n \in P : n + 1 \in P
    <3> TAKE n \in P
    <3>1. PICK X \in SUBSET Points : X = grown[n]
      BY <1>7
    <3>2. c \in X /\ X \in SUBSET F
      BY <3>1
    <3>3. ASSUME NEW b \in Wider(g, X) PROVE b \in F
      <4>1. CASE b \in X
        BY <3>2, <4>1
      <4>2. CASE b \notin X
        <5>1. PICK a \in X, dir \in 0..3 : b = Plot!Neighbour(a, dir) /\ Owned(g, b)
          BY <4>2, WiderIs
        <5>2. b \in Points /\ a \in Points /\ Owned(g, a) /\ Base(g, a) \in G
          BY <1>8, <3>2, <5>1, WiderIs DEF ColumnsOf
        <5>3. Base(g, b) = Base(g, a) \/ Linked(m, Base(g, a), Base(g, b))
          BY <1>1, <5>1, <5>2, NextDoor
        <5>4. Base(g, b) \in G
          BY <1>4, <5>2, <5>3
        <5> QED
          BY <1>8, <5>1, <5>2, <5>4 DEF ColumnsOf
      <4> QED
        BY <4>1, <4>2
    <3>4. X \in SUBSET Wider(g, X)
      BY WiderIs
    <3>5. grown[n + 1] = Wider(g, X)
      BY <1>7, <3>1
    <3> QED
      BY <3>2, <3>3, <3>4, <3>5
  <2>3. P = Nat
    BY <2>1, <2>2, NumbersAll
  <2> QED
    BY <2>3
<1> DEFINE Far(n) == Closed(g, grown[n]) \/ Cardinality(grown[n]) >= n + 1
           P == {n \in Nat : Far(n)}
<1>11. P = Nat
  <2>1. 0 \in P
    <3>1. Cardinality(grown[0]) = 1
      BY <1>7, FS_Singleton
    <3> QED
      BY <3>1
  <2>2. \A n \in P : n + 1 \in P
    <3> TAKE n \in P
    <3>1. n \in Nat /\ n + 1 \in Nat /\ Far(n)
      OBVIOUS
    <3>2. PICK X \in SUBSET Points : X = grown[n]
      BY <1>7
    <3>3. PICK Y \in SUBSET Points : Y = grown[n + 1]
      BY <1>7, <3>1
    <3>4. Y = Wider(g, X) /\ X \in SUBSET Y /\ Y \in SUBSET F
      BY <1>7, <1>10, <3>1, <3>2, <3>3, WiderIs
    <3>5. CASE X = Y
      <4>1. Closed(g, Y)
        BY <3>4, <3>5, WiderIs
      <4> QED
        BY <3>1, <3>3, <4>1
    <3>6. CASE X # Y /\ ~Closed(g, X)
      <4>1. IsFiniteSet(Y)
        BY <1>9, <3>4, FS_Subset
      <4>2. Cardinality(X) \in Nat /\ Cardinality(Y) \in Nat /\ Cardinality(X) < Cardinality(Y)
        BY <3>4, <3>6, <4>1, Fewer
      <4>3. Cardinality(X) >= n + 1
        BY <3>1, <3>2, <3>6
      <4>4. Cardinality(Y) >= (n + 1) + 1
        BY <3>1, <4>2, <4>3
      <4> QED
        BY <3>1, <3>3, <4>4
    <3>7. CASE X # Y /\ Closed(g, X)
      <4>1. PICK b \in Wider(g, X) : b \notin X
        BY <3>4, <3>7
      <4>2. PICK a \in X, dir \in 0..3 : b = Plot!Neighbour(a, dir) /\ Owned(g, b)
        BY <4>1, WiderIs
      <4> QED
        BY <3>7, <4>1, <4>2 DEF Closed
    <3> QED
      BY <3>5, <3>6, <3>7
  <2> HIDE DEF Far
  <2> QED
    BY <2>1, <2>2, NumbersAll
<1>12. PICK R \in SUBSET Points : R = grown[N] /\ c \in R /\ R \in SUBSET F
  BY <1>7, <1>10
<1>13. Closed(g, R)
  <2>1. Far(N)
    <3> HIDE DEF Far
    <3> QED
      BY <1>11
  <2>2. Cardinality(R) \in Nat /\ Cardinality(R) <= Cardinality(F)
    BY <1>9, <1>12, FS_Subset, FS_CardinalityType
  <2>3. ~(Cardinality(R) >= N + 1)
    BY <1>9, <2>2
  <2> QED
    BY <1>12, <2>1, <2>3
<1>14. ASSUME NEW e \in Points, Owned(g, e)
       PROVE  e \in R <=> Column(g, Base(g, e), 0, 0) \in R
  <2>1. PICK q \in Points, r \in 0..(Cell(g) - 1), s \in 0..(Cell(g) - 1) :
          q = Base(g, e) /\ r = e[1] % Cell(g) /\ s = e[2] % Cell(g) /\ e = Column(g, q, r, s)
    BY InColumn
  <2>2. OwnedAt(g, q, r, s)
    BY <1>14, <2>1, OwnerIs
  <2>3. Column(g, q, r, s) \in R <=> Column(g, q, 0, 0) \in R
    BY <1>13, <2>2, PlotWhole
  <2> QED
    BY <2>1, <2>3
<1>15. PICK T : T = {q \in Points : Column(g, q, 0, 0) \in R}
  OBVIOUS
<1>16. p \in T /\ T \in SUBSET Points
  BY <1>2, <1>12, <1>14, <1>15
<1>17. \A x \in T : \A q : Linked(m, x, q) => q \in T
  <2> SUFFICES ASSUME NEW x \in T, NEW q, Linked(m, x, q) PROVE q \in T
    OBVIOUS
  <2>1. x \in Points /\ q \in Points /\ Column(g, x, 0, 0) \in R
    BY <1>15, LinkedBothWays
  <2>2. Column(g, q, 0, 0) \in R
    BY <1>1, <1>13, <2>1, PlotsTouch
  <2> QED
    BY <1>15, <2>1, <2>2
<1>18. G \subseteq T
  BY <1>3, <1>4, <1>16, <1>17, GroupIs
<1>19. \A a \in R : Base(g, a) \in G
  BY <1>8, <1>12 DEF ColumnsOf
<1>20. Plot!Region(g, c) = R
  BY <1>7, <1>12
<1> QED
  BY <1>1, <1>2, <1>3, <1>14, <1>15, <1>18, <1>19, <1>20

-----------------------------------------------------------------------------
(* Plots: the answers.                                                     *)

\* Who owns what does not depend on what is remembered.
LEMMA SameOwners ==
  ASSUME NEW g, NEW h, SameGrid(g, h), NEW c
  PROVE  Plot!OwningPlot(h, c) = Plot!OwningPlot(g, c)
BY DEF SameGrid, Plot!OwningPlot

\* The least plots of two groups are one when the groups are.
LEMMA RootsTell ==
  ASSUME NEW m, IsTable(m), NEW p \in Points, NEW q \in Points
  PROVE  /\ Plot!Least(Plot!Group(m, p)) = Plot!Least(Plot!Group(m, q)) <=> q \in Plot!Group(m, p)
         /\ q \in Plot!Group(m, p) => Plot!Group(m, q) = Plot!Group(m, p)
<1>1. q \in Plot!Group(m, p) => Plot!Group(m, q) = Plot!Group(m, p)
  BY GroupShared
<1>2. ASSUME Plot!Least(Plot!Group(m, p)) = Plot!Least(Plot!Group(m, q))
      PROVE  q \in Plot!Group(m, p)
  <2>1. PICK G \in SUBSET Points, H \in SUBSET Points :
          /\ G = Plot!Group(m, p) /\ IsFiniteSet(G) /\ p \in G
          /\ H = Plot!Group(m, q) /\ IsFiniteSet(H) /\ q \in H
    BY GroupIs
  <2>2. PICK l : l = Plot!Least(G) /\ l \in G /\ l = Plot!Least(H) /\ l \in H
    BY <1>2, <2>1, LeastIs
  <2>3. Plot!Group(m, l) = G /\ Plot!Group(m, l) = H
    BY <2>1, <2>2, GroupShared
  <2> QED
    BY <2>1, <2>3
<1> QED
  BY <1>1, <1>2

\* Two columns are of one area when one plot owns both, or their plots' group can be
\* walked and is one; asking leaves what is remembered true.
LEMMA SameAreaIs ==
  ASSUME NEW g, TrueGrid(g), NEW c \in Points, NEW e \in Points
  PROVE  LET s == Plot!SameArea(g, c, e)
         IN  /\ s = [yes |-> s.yes, g |-> s.g] /\ s.yes \in BOOLEAN
             /\ TrueGrid(s.g) /\ SameGrid(g, s.g)
             /\ s.yes <=> \/ Plot!OwningPlot(g, c) = Plot!OwningPlot(g, e)
                          \/ /\ Owned(g, c) /\ Owned(g, e) /\ Small(g.merges, Base(g, c))
                             /\ Base(g, e) \in Plot!Group(g.merges, Base(g, c))
<1>1. g \in Grids /\ IsTable(g.merges) /\ SameGrid(g, g)
  BY GridTable DEF TrueGrid, SameGrid
<1>2. PICK m, a, b : m = g.merges /\ a = Plot!OwningPlot(g, c) /\ b = Plot!OwningPlot(g, e)
  OBVIOUS
<1>3. PICK p \in Points, q \in Points : p = Base(g, c) /\ q = Base(g, e)
  BY <1>1, InColumn
<1>4. /\ a = IF Owned(g, c) THEN {p} ELSE {}
      /\ b = IF Owned(g, e) THEN {q} ELSE {}
  BY <1>1, <1>2, <1>3, OwnerIs
<1>5. CASE a = b
  <2>1. Plot!SameArea(g, c, e) = [yes |-> TRUE, g |-> g]
    BY <1>2, <1>5 DEF Plot!SameArea
  <2> QED
    BY <1>1, <1>2, <1>5, <2>1
<1>6. CASE a # b /\ (a = {} \/ b = {})
  <2>1. Plot!SameArea(g, c, e) = [yes |-> FALSE, g |-> g]
    BY <1>2, <1>6 DEF Plot!SameArea
  <2>2. ~(Owned(g, c) /\ Owned(g, e))
    BY <1>4, <1>6
  <2> QED
    BY <1>1, <1>2, <1>6, <2>1, <2>2
<1>7. CASE a # b /\ a # {} /\ b # {}
  <2>1. Owned(g, c) /\ Owned(g, e) /\ a = {p} /\ b = {q}
    BY <1>4, <1>7
  <2>2. (CHOOSE x \in a : TRUE) = p /\ (CHOOSE x \in b : TRUE) = q
    BY <2>1
  <2>3. PICK ra : ra = Plot!GroupRoot(g, p)
    OBVIOUS
  <2>4. PICK h : h = ra.g /\ TrueGrid(h) /\ SameGrid(g, h)
    BY <2>3, RootIs
  <2>5. ra.root = IF Small(m, p) THEN {Plot!Least(Plot!Group(m, p))} ELSE {}
    BY <1>2, <2>3, RootIs
  <2>6. PICK rb : rb = Plot!GroupRoot(h, q)
    OBVIOUS
  <2>7. PICK k : k = rb.g /\ TrueGrid(k) /\ SameGrid(h, k)
    BY <2>4, <2>6, RootIs
  <2>8. h.merges = m /\ SameGrid(g, k)
    BY <1>2, <2>4, <2>7 DEF SameGrid
  <2>9. rb.root = IF Small(m, q) THEN {Plot!Least(Plot!Group(m, q))} ELSE {}
    BY <2>4, <2>6, <2>8, RootIs
  <2>10. Plot!SameArea(g, c, e) =
           IF ra.root = {} THEN [yes |-> FALSE, g |-> h]
           ELSE [yes |-> rb.root # {} /\ ra.root = rb.root, g |-> k]
    BY <1>2, <1>7, <2>2, <2>3, <2>4, <2>6, <2>7 DEF Plot!SameArea
  <2>11. CASE ~Small(m, p)
    <3>1. Plot!SameArea(g, c, e) = [yes |-> FALSE, g |-> h]
      BY <2>5, <2>10, <2>11
    <3> QED
      BY <1>2, <1>3, <1>7, <2>4, <2>11, <3>1
  <2>12. CASE Small(m, p)
    <3>4. PICK y \in BOOLEAN : y = (rb.root # {} /\ ra.root = rb.root)
      BY Zenon
    <3>1. Plot!SameArea(g, c, e) = [yes |-> y, g |-> k]
      BY <2>5, <2>10, <2>12, <3>4
    <3>2. /\ Plot!Least(Plot!Group(m, p)) = Plot!Least(Plot!Group(m, q)) <=> q \in Plot!Group(m, p)
          /\ q \in Plot!Group(m, p) => Plot!Group(m, q) = Plot!Group(m, p)
      BY <1>1, <1>2, RootsTell
    <3>3. (rb.root # {} /\ ra.root = rb.root) <=> q \in Plot!Group(m, p)
      <4>1. q \in Plot!Group(m, p) => Small(m, q)
        BY <2>12, <3>2 DEF Small
      <4> QED
        BY <2>5, <2>9, <2>12, <3>2, <4>1
    <3>5. y <=> Owned(g, c) /\ Owned(g, e) /\ Small(m, p) /\ q \in Plot!Group(m, p)
      BY <2>1, <2>12, <3>3, <3>4
    <3>6. PICK s : s = Plot!SameArea(g, c, e)
      OBVIOUS
    <3>7. s = [yes |-> y, g |-> k] /\ s.yes = y /\ s.g = k
      BY <3>1, <3>6
    <3>8. /\ s = [yes |-> s.yes, g |-> s.g] /\ s.yes \in BOOLEAN
          /\ TrueGrid(s.g) /\ SameGrid(g, s.g)
      BY <2>7, <2>8, <3>7
    <3>9. s.yes <=> \/ Plot!OwningPlot(g, c) = Plot!OwningPlot(g, e)
                    \/ /\ Owned(g, c) /\ Owned(g, e) /\ Small(g.merges, Base(g, c))
                       /\ Base(g, e) \in Plot!Group(g.merges, Base(g, c))
      BY <1>2, <1>3, <1>7, <3>5, <3>7
    <3> QED
      BY <3>6, <3>8, <3>9
  <2> QED
    BY <2>11, <2>12
<1> QED
  BY <1>5, <1>6, <1>7

\* An answer, with a grid that remembers nothing false.
Replies == [yes : BOOLEAN, g : {h \in Grids : MemoTrue(h)}]

LEMMA ReplyIs ==
  /\ \A s \in Replies : s.yes \in BOOLEAN /\ TrueGrid(s.g)
  /\ \A y \in BOOLEAN : \A h : TrueGrid(h) => [yes |-> y, g |-> h] \in Replies
BY DEF Replies, TrueGrid

\* So do as many questions as a piston asks.
LEMMA SameAreasKeep ==
  ASSUME NEW g, TrueGrid(g), NEW pairs \in Seq(Points \X Points)
  PROVE  TrueGrid(Plot!SameAreas(g, pairs).g)
<1>1. PICK n \in Nat : n = Len(pairs) /\ \A i \in 1..n : pairs[i][1] \in Points /\ pairs[i][2] \in Points
  OBVIOUS
<1> DEFINE Ask(i, a) == IF ~a.yes THEN a ELSE Plot!SameArea(a.g, pairs[i][1], pairs[i][2])
           Asked(f) == [i \in 0..n |-> IF i = 0 THEN [yes |-> TRUE, g |-> g] ELSE Ask(i, f[i - 1])]
           ask == CHOOSE f : f = Asked(f)
<1>2. ASSUME NEW a \in Replies, NEW i \in 1..n PROVE Ask(i, a) \in Replies
  <2>1. TrueGrid(a.g)
    BY ReplyIs
  <2>2. PICK x \in Points, y \in Points : x = pairs[i][1] /\ y = pairs[i][2]
    BY <1>1
  <2>3. PICK s : s = Plot!SameArea(a.g, x, y)
    OBVIOUS
  <2>4. s = [yes |-> s.yes, g |-> s.g] /\ s.yes \in BOOLEAN /\ TrueGrid(s.g)
    BY <2>1, <2>3, SameAreaIs
  <2>5. s \in Replies
    BY <2>4, ReplyIs
  <2> QED
    BY <2>2, <2>3, <2>5
<1>3. PICK first \in Replies : first = [yes |-> TRUE, g |-> g]
  BY ReplyIs
<1> HIDE DEF Ask
<1> DEFINE S == Nat \X Replies
           base == <<0, first>>
           Later(s) == IF s[1] < n THEN <<s[1] + 1, Ask(s[1] + 1, s[2])>> ELSE <<s[1] + 1, s[2]>>
           G == [s \in S |-> Later(s)]
<1>4. \A i \in Nat, a \in Replies : Later(<<i, a>>) \in S
  <2> TAKE i \in Nat, a \in Replies
  <2>1. CASE i < n
    <3>1. i + 1 \in 1..n
      BY <2>1
    <3>2. Ask(i + 1, a) \in Replies
      BY <1>2, <3>1
    <3> QED
      BY <2>1, <3>2
  <2>2. CASE ~(i < n)
    BY <2>2
  <2> QED
    BY <2>1, <2>2
<1>5. \A s \in S : s[1] \in Nat /\ s[2] \in Replies /\ s = <<s[1], s[2]>>
  OBVIOUS
<1>6. \A s \in S : Later(s) \in S
  <2> HIDE DEF Later, S
  <2> QED
    BY <1>4, <1>5
<1>7. base \in S
  OBVIOUS
<1> HIDE DEF Later
<1>8. G \in [S -> S] /\ \A s \in S : G[s] = Later(s)
  BY <1>6
<1> HIDE DEF S, base, G
<1>9. PICK f : f \in RecursionsOf(S, base, G)
  BY <1>7, <1>8, RecursionExists
<1>10. \A i \in Nat : f[i] \in S /\ f[i + 1] = Later(f[i])
  BY <1>8, <1>9 DEF RecursionsOf
<1>11. f[0] = <<0, first>>
  BY <1>9 DEF RecursionsOf, base
<1>12. \A i \in Nat : f[i][1] = i
  <2> DEFINE P == {i \in Nat : f[i][1] = i}
  <2>1. 0 \in P
    BY <1>11
  <2>2. \A i \in P : i + 1 \in P
    <3> TAKE i \in P
    <3>1. f[i][1] + 1 = i + 1
      OBVIOUS
    <3>2. f[i + 1] = <<f[i][1] + 1, Ask(f[i][1] + 1, f[i][2])>> \/ f[i + 1] = <<f[i][1] + 1, f[i][2]>>
      BY <1>10 DEF Later
    <3> QED
      BY <3>1, <3>2
  <2>3. P = Nat
    BY <2>1, <2>2, NumbersAll
  <2> QED
    BY <2>3
<1>13. PICK w : w = [i \in 0..n |-> f[i][2]]
  OBVIOUS
<1>14. w = Asked(w)
  <2>1. ASSUME NEW i \in 0..n
        PROVE  w[i] = IF i = 0 THEN first ELSE Ask(i, w[i - 1])
    <3>1. CASE i = 0
      BY <1>11, <1>13, <3>1
    <3>2. CASE i # 0
      <4>1. PICK j \in 0..n : j = i - 1 /\ j + 1 = i /\ j < n /\ j \in Nat
        BY <3>2
      <4>2. f[j + 1] = <<j + 1, Ask(j + 1, f[j][2])>>
        BY <1>10, <1>12, <4>1 DEF Later
      <4>3. f[i][2] = Ask(i, f[j][2])
        BY <4>1, <4>2
      <4> QED
        BY <1>13, <3>2, <4>1, <4>3
    <3> QED
      BY <3>1, <3>2
  <2>2. w = [i \in 0..n |-> w[i]]
    BY <1>13
  <2> QED
    BY <1>3, <2>1, <2>2
<1>15. ask = Asked(ask)
  BY <1>14
<1>16. Plot!SameAreas(g, pairs) = ask[n]
  BY <1>1 DEF Plot!SameAreas, Ask
<1> HIDE DEF ask
<1>17. ask[n] \in Replies
  <2> DEFINE P == {i \in Nat : i <= n => ask[i] \in Replies}
  <2>1. \A i \in 0..n : ask[i] = IF i = 0 THEN first ELSE Ask(i, ask[i - 1])
    BY <1>3, <1>15
  <2>2. 0 \in P
    <3>1. 0 \in 0..n
      OBVIOUS
    <3>2. ask[0] = first
      BY <2>1, <3>1
    <3> QED
      BY <3>2
  <2>3. \A i \in P : i + 1 \in P
    <3> TAKE i \in P
    <3> SUFFICES ASSUME i + 1 <= n PROVE ask[i + 1] \in Replies
      OBVIOUS
    <3>1. ask[i] \in Replies /\ i + 1 \in 1..n /\ i + 1 \in 0..n /\ i + 1 # 0 /\ (i + 1) - 1 = i
      OBVIOUS
    <3>2. ask[i + 1] = Ask(i + 1, ask[i])
      BY <2>1, <3>1
    <3> QED
      BY <1>2, <3>1, <3>2
  <2>4. P = Nat
    BY <2>2, <2>3, NumbersAll
  <2> QED
    BY <2>4
<1> QED
  BY <1>16, <1>17, ReplyIs

-----------------------------------------------------------------------------
(* Plots: what is remembered stays true.                                   *)

GridInv ==
  /\ DOMAIN grids = RuledDims
  /\ \A d \in RuledDims : grids[d] = NoGrid \/ TrueGrid(grids[d])

\* A grid that remembers nothing.
LEMMA Forgotten ==
  ASSUME NEW size \in 1..512, NEW road \in 0..64, NEW m \in Tables \union {<<>>}
  PROVE  TrueGrid([size |-> size, road |-> road, merges |-> m, roots |-> <<>>, oversized |-> {}])
<1> DEFINE RootMaps == UNION {[D -> Points] : D \in SUBSET Points}
           AllTables == Tables \union {<<>>}
<1>1. <<>> \in RootMaps /\ DOMAIN <<>> = {}
  <2>1. <<>> \in [{} -> Points] /\ {} \in SUBSET Points /\ DOMAIN <<>> = {}
    OBVIOUS
  <2> QED
    BY <2>1
<1>2. {} \in SUBSET Points /\ m \in AllTables
  OBVIOUS
<1>3. PICK g : g = [size |-> size, road |-> road, merges |-> m, roots |-> <<>>, oversized |-> {}]
  OBVIOUS
<1>4. g \in [size : 1..512, road : 0..64, merges : AllTables, roots : RootMaps,
             oversized : SUBSET Points]
  <2> HIDE DEF RootMaps, AllTables
  <2> QED
    BY <1>1, <1>2, <1>3
<1>5. g \in Grids
  BY <1>4 DEF Grids
<1>6. MemoTrue(g)
  BY <1>1, <1>3 DEF MemoTrue
<1> QED
  BY <1>3, <1>5, <1>6 DEF TrueGrid

LEMMA GridFields ==
  ASSUME NEW g \in Grids
  PROVE  /\ g.size \in 1..512 /\ g.road \in 0..64 /\ g.merges \in Tables \union {<<>>}
         /\ g = [size |-> g.size, road |-> g.road, merges |-> g.merges, roots |-> g.roots,
                 oversized |-> g.oversized]
<1> DEFINE RootMaps == UNION {[D -> Points] : D \in SUBSET Points}
           AllTables == Tables \union {<<>>}
<1>1. g \in [size : 1..512, road : 0..64, merges : AllTables, roots : RootMaps,
             oversized : SUBSET Points]
  BY DEF Grids
<1>2. /\ g.size \in 1..512 /\ g.road \in 0..64 /\ g.merges \in AllTables
      /\ g = [size |-> g.size, road |-> g.road, merges |-> g.merges, roots |-> g.roots,
              oversized |-> g.oversized]
  <2> HIDE DEF RootMaps, AllTables
  <2> QED
    BY <1>1
<1> QED
  BY <1>2

\* What the callers' operations make of one dimension's grid.
LEMMA GridSet ==
  ASSUME GridInv, NEW d \in RuledDims, NEW v, v = NoGrid \/ TrueGrid(v),
         grids' = [grids EXCEPT ![d] = v]
  PROVE  GridInv'
BY DEF GridInv

LEMMA RegisterKeeps ==
  ASSUME GridInv, NEW d \in RuledDims, NEW size \in Int, NEW road \in Int,
         Plot!SetPlotGrid(d, size, road)
  PROVE  GridInv'
<1>1. PICK x \in 1..512, y \in 0..64 : Plot!Bounded(size, road) = <<x, y>>
  <2>1. size > 0
    BY DEF Plot!SetPlotGrid
  <2>2. PICK x : x = IF size > 512 THEN 512 ELSE size
    OBVIOUS
  <2>3. PICK y : y = IF road < 0 THEN 0 ELSE IF road > 64 THEN 64 ELSE road
    OBVIOUS
  <2>4. x \in 1..512
    BY <2>1, <2>2
  <2>5. y \in 0..64
    BY <2>3
  <2>6. Plot!Bounded(size, road) = <<x, y>>
    BY <2>2, <2>3 DEF Plot!Bounded
  <2> QED
    BY <2>4, <2>5, <2>6
<1>2. PICK g : g = grids[d]
  OBVIOUS
<1>3. PICK new : new = [size |-> x, road |-> y, merges |-> <<>>, roots |-> <<>>, oversized |-> {}]
  OBVIOUS
<1>4. PICK other : other = [g EXCEPT !.size = x, !.road = y, !.roots = <<>>, !.oversized = {}]
  OBVIOUS
<1>5. PICK v : v = IF g = NoGrid THEN new ELSE IF <<g.size, g.road>> = <<x, y>> THEN g ELSE other
  OBVIOUS
<1>6. grids' = [grids EXCEPT ![d] = v]
  BY <1>1, <1>2, <1>3, <1>4, <1>5 DEF Plot!SetPlotGrid
<1>7. TrueGrid(new)
  BY <1>3, Forgotten
<1>8. TrueGrid(v)
  <2>1. CASE g = NoGrid
    BY <1>5, <1>7, <2>1
  <2>2. CASE g # NoGrid
    <3>1. TrueGrid(g)
      BY <1>2, <2>2 DEF GridInv
    <3>2. g.merges \in Tables \union {<<>>}
      BY <3>1, GridFields DEF TrueGrid
    <3>3. PICK a, b, m, r, o : m = g.merges /\
            g = [size |-> a, road |-> b, merges |-> m, roots |-> r, oversized |-> o]
      BY <3>1, GridFields DEF TrueGrid
    <3>4. other = [size |-> x, road |-> y, merges |-> m, roots |-> <<>>, oversized |-> {}]
      BY <1>4, <3>3
    <3>5. TrueGrid(other)
      BY <3>2, <3>3, <3>4, Forgotten
    <3> QED
      BY <1>5, <2>2, <3>1, <3>5
  <2> QED
    BY <2>1, <2>2
<1> QED
  BY <1>6, <1>8, GridSet

LEMMA MergesKeep ==
  ASSUME GridInv, NEW d \in RuledDims, NEW t \in Tables, Plot!SetPlotMerges(d, t)
  PROVE  GridInv'
<1>1. PICK g : g = grids[d] /\ TrueGrid(g)
  BY DEF GridInv, Plot!SetPlotMerges, Plot!HasPlotGrid
<1>2. PICK v : v = [g EXCEPT !.merges = t, !.roots = <<>>, !.oversized = {}]
  OBVIOUS
<1>3. grids' = [grids EXCEPT ![d] = v]
  BY <1>1, <1>2 DEF Plot!SetPlotMerges, Plot!Remade
<1>4. g \in Grids
  BY <1>1 DEF TrueGrid
<1>5. PICK a \in 1..512, b \in 0..64 : a = g.size /\ b = g.road
  <2>1. g.size \in 1..512
    BY <1>4, GridFields
  <2>2. g.road \in 0..64
    BY <1>4, GridFields
  <2> QED
    BY <2>1, <2>2
<1>6. PICK m, r, o : g = [size |-> a, road |-> b, merges |-> m, roots |-> r, oversized |-> o]
  BY <1>4, <1>5, GridFields
<1>7. v = [size |-> a, road |-> b, merges |-> t, roots |-> <<>>, oversized |-> {}]
  BY <1>2, <1>6
<1>8. TrueGrid(v)
  BY <1>7, Forgotten
<1> QED
  BY <1>3, <1>8, GridSet

LEMMA PistonKeeps ==
  ASSUME GridInv, NEW d \in RuledDims, NEW at \in Points, NEW b \in Points, NEW c \in Points,
         NEW dir \in 0..3, Plot!Piston(d, at, <<b, c>>, dir)
  PROVE  GridInv'
<1>1. PICK asked : asked = ((~Plot!AnyRuleFor(d) \/ Plot!Allowed(d, "PistonPush"))
                            /\ Plot!Confined(d, "PistonCrossPlot"))
  OBVIOUS
<1>2. PICK pairs : pairs = Plot!PushPairs(at, <<b, c>>, dir)
  OBVIOUS
<1>3. PICK v : v = IF asked THEN Plot!SameAreas(grids[d], pairs).g ELSE grids[d]
  OBVIOUS
<1>4. grids' = [grids EXCEPT ![d] = v]
  BY <1>1, <1>2, <1>3 DEF Plot!Piston
<1>5. pairs \in Seq(Points \X Points)
  <2>1. Len(<<b, c>>) = 2 /\ <<b, c>>[1] = b /\ <<b, c>>[2] = c
    OBVIOUS
  <2>2. \A i \in 1..4 : (i + 1) \div 2 \in {1, 2}
    OBVIOUS
  <2>3. Plot!Neighbour(b, dir) \in Points /\ Plot!Neighbour(c, dir) \in Points
    BY NeighbourIs
  <2>4. \A i \in 1..4 : LET e == <<b, c>>[(i + 1) \div 2]
                        IN  e \in Points /\ Plot!Plus(e, dir) \in Points
    BY <2>1, <2>2, <2>3 DEF Plot!Plus
  <2>5. 2 * Len(<<b, c>>) = 4
    BY <2>1
  <2>6. pairs = [i \in 1..4 |-> LET e == <<b, c>>[(i + 1) \div 2]
                                IN  <<at, IF i % 2 = 1 THEN e ELSE Plot!Plus(e, dir)>>]
    BY <1>2, <2>5 DEF Plot!PushPairs
  <2>7. pairs \in [1..4 -> Points \X Points]
    BY <2>4, <2>6
  <2>8. \E n \in Nat : pairs \in [1..n -> Points \X Points]
    BY <2>7
  <2> QED
    BY <2>8, IsSequence
<1>6. CASE asked
  <2>1. TrueGrid(grids[d])
    BY <1>1, <1>6 DEF GridInv, Plot!Confined, Plot!HasPlotGrid
  <2>2. TrueGrid(v)
    BY <1>3, <1>5, <1>6, <2>1, SameAreasKeep
  <2> QED
    BY <1>4, <2>2, GridSet
<1>7. CASE ~asked
  <2>1. v = NoGrid \/ TrueGrid(v)
    BY <1>3, <1>7 DEF GridInv
  <2> QED
    BY <1>4, <2>1, GridSet
<1> QED
  BY <1>6, <1>7

LEMMA MoveKeeps ==
  ASSUME GridInv, NEW d \in RuledDims, NEW from \in Points, NEW to \in Points,
         Plot!Move(d, from, to)
  PROVE  GridInv'
<1>1. PICK asked : asked = (~Plot!Allowed(d, "EntityCrossPlot") /\ Plot!HasPlotGrid(d) /\ from # to)
  OBVIOUS
<1>2. PICK s : s = Plot!SameArea(grids[d], from, to)
  OBVIOUS
<1>3. PICK v : v = IF asked THEN s.g ELSE grids[d]
  OBVIOUS
<1>4. grids' = [grids EXCEPT ![d] = v]
  BY <1>1, <1>2, <1>3 DEF Plot!Move
<1>5. CASE asked
  <2>1. TrueGrid(grids[d])
    BY <1>1, <1>5 DEF GridInv, Plot!HasPlotGrid
  <2>2. TrueGrid(s.g)
    BY <1>2, <2>1, SameAreaIs
  <2> QED
    BY <1>3, <1>4, <1>5, <2>2, GridSet
<1>6. CASE ~asked
  <2>1. v = NoGrid \/ TrueGrid(v)
    BY <1>3, <1>6 DEF GridInv
  <2> QED
    BY <1>4, <2>1, GridSet
<1> QED
  BY <1>5, <1>6

LEMMA GridStep == GridInv /\ [Plot!ConfineNext]_ruleVars => GridInv'
<1> SUFFICES ASSUME GridInv, [Plot!ConfineNext]_ruleVars PROVE GridInv'
  OBVIOUS
<1>1. CASE UNCHANGED grids
  BY <1>1 DEF GridInv
<1>2. ASSUME NEW d \in RuledDims, Plot!ClearPlotGrid(d)
      PROVE  GridInv'
  BY <1>2, GridSet DEF Plot!ClearPlotGrid
<1>3. ASSUME NEW d \in RuledDims, NEW s \in Sizes, Plot!RegisterGrid(d, s[1], s[2])
      PROVE  GridInv'
  <2>1. s[1] \in Int /\ s[2] \in Int
    BY PlotAssumption DEF Points
  <2>2. Plot!SetPlotGrid(d, s[1], s[2]) \/ Plot!ClearPlotGrid(d)
    BY <1>3 DEF Plot!RegisterGrid
  <2> QED
    BY <1>2, <2>1, <2>2, RegisterKeeps
<1>4. ASSUME Plot!Configure PROVE GridInv'
  BY <1>1, <1>2, <1>3, <1>4, MergesKeep DEF Plot!Configure
<1>5. ASSUME NEW d \in RuledDims, NEW at \in Spots, NEW dir \in 0..3, NEW side \in 0..1,
             NEW pushed, pushed = Plot!Plus(at, dir),
             Plot!Piston(d, at, <<pushed, Plot!Plus(pushed, (dir + side) % 4)>>, dir)
      PROVE  GridInv'
  <2>1. (dir + side) % 4 \in 0..3 /\ at \in Points
    BY PlotAssumption
  <2>2. pushed \in Points
    BY <1>5, <2>1, NeighbourIs DEF Plot!Plus
  <2>3. PICK i \in 0..3 : i = (dir + side) % 4
    BY <2>1
  <2>4. Plot!Plus(pushed, i) \in Points
    BY <2>2, NeighbourIs DEF Plot!Plus
  <2> QED
    BY <1>5, <2>1, <2>2, <2>3, <2>4, PistonKeeps
<1>6. ASSUME NEW d \in RuledDims, NEW from \in Spots, NEW to \in Spots, Plot!Move(d, from, to)
      PROVE  GridInv'
  <2>1. from \in Points /\ to \in Points
    BY PlotAssumption
  <2> QED
    BY <1>6, <2>1, MoveKeeps
<1>7. CASE Plot!ConfineNext
  <2>1. CASE Plot!Configure
    BY <1>4, <2>1
  <2>2. CASE UNCHANGED grids
    BY <1>1, <2>2
  <2>3. CASE \E d \in RuledDims, at \in Spots, dir \in 0 .. 3, side \in 0 .. 1 :
               LET pushed == Plot!Plus(at, dir)
               IN  Plot!Piston(d, at, <<pushed, Plot!Plus(pushed, (dir + side) % 4)>>, dir)
    BY <1>5, <2>3
  <2>4. CASE \E d \in RuledDims, from, to \in Spots : Plot!Move(d, from, to)
    BY <1>6, <2>4
  <2> QED
    BY <1>7, <2>1, <2>2, <2>3, <2>4, Zenon DEF Plot!ConfineNext
<1> QED
  BY <1>1, <1>7 DEF ruleVars

\* While what is remembered is true, the answers are about the plots as they are.
LEMMA GridsAnswer == GridInv => AnswersAreRegions
<1> SUFFICES ASSUME GridInv PROVE Plot!AnswersAreRegions /\ Plot!TooLargeIsRefused
  BY DEF AnswersAreRegions
<1>1. \A e \in Spots : e \in Points
  BY PlotAssumption
<1>2. ASSUME NEW d \in RuledDims, NEW g, g = grids[d], Plot!HasPlotGrid(d), NEW c \in Spots,
             NEW e \in Spots
      PROVE  /\ TrueGrid(g) /\ g \in Grids /\ Base(g, c) \in Points
             /\ Plot!OwningPlot(g, c) = IF Owned(g, c) THEN {Base(g, c)} ELSE {}
             /\ Plot!OwningPlot(g, e) = IF Owned(g, e) THEN {Base(g, e)} ELSE {}
             /\ Owned(g, c) => (Plot!SmallGroup(g, c) <=> Small(g.merges, Base(g, c)))
             /\ ~Owned(g, c) => Plot!SmallGroup(g, c)
  <2>1. TrueGrid(g) /\ g \in Grids
    BY <1>2 DEF GridInv, Plot!HasPlotGrid, TrueGrid
  <2>2. /\ Base(g, c) \in Points
        /\ Plot!OwningPlot(g, c) = IF Owned(g, c) THEN {Base(g, c)} ELSE {}
        /\ Plot!OwningPlot(g, e) = IF Owned(g, e) THEN {Base(g, e)} ELSE {}
    BY <1>1, <2>1, OwnerIs
  <2>3. Plot!SmallGroup(g, c) <=>
          \A p \in Plot!OwningPlot(g, c) : Cardinality(Plot!Group(g.merges, p)) <= ScanLimit
    BY PlotCardinality DEF Plot!SmallGroup
  <2> QED
    BY <2>1, <2>2, <2>3 DEF Small
<1>3. Plot!AnswersAreRegions
  <2> SUFFICES ASSUME NEW d \in RuledDims, Plot!HasPlotGrid(d), NEW g, g = grids[d], g.road > 0,
                      NEW c \in Spots, Plot!OwningPlot(g, c) # {}, Plot!SmallGroup(g, c),
                      NEW e \in Spots, Plot!OwningPlot(g, e) # {}
               PROVE  Plot!SameArea(g, c, e).yes <=> e \in Plot!Region(g, c)
    BY DEF Plot!AnswersAreRegions
  <2>1. /\ TrueGrid(g) /\ g \in Grids /\ c \in Points /\ e \in Points /\ Owned(g, c) /\ Owned(g, e)
        /\ Plot!OwningPlot(g, c) = {Base(g, c)} /\ Plot!OwningPlot(g, e) = {Base(g, e)}
        /\ Small(g.merges, Base(g, c)) /\ Base(g, c) \in Points
    BY <1>1, <1>2 DEF Owned
  <2>2. e \in Plot!Region(g, c) <=> Base(g, e) \in Plot!Group(g.merges, Base(g, c))
    BY <2>1, RegionIs
  <2>3. PICK s : s = Plot!SameArea(g, c, e)
    OBVIOUS
  <2>6. s.yes <=> \/ Plot!OwningPlot(g, c) = Plot!OwningPlot(g, e)
                  \/ /\ Owned(g, c) /\ Owned(g, e) /\ Small(g.merges, Base(g, c))
                     /\ Base(g, e) \in Plot!Group(g.merges, Base(g, c))
    <3>1. TrueGrid(g) /\ c \in Points /\ e \in Points
      BY <2>1
    <3> QED
      BY <3>1, <2>3, SameAreaIs
  <2>4. Base(g, c) \in Plot!Group(g.merges, Base(g, c))
    <3>1. IsTable(g.merges)
      BY <2>1, GridTable
    <3> QED
      BY <2>1, <3>1, GroupIs
  <2>5. Plot!OwningPlot(g, c) = Plot!OwningPlot(g, e) => Base(g, e) = Base(g, c)
    BY <2>1
  <2> QED
    BY <2>1, <2>2, <2>3, <2>4, <2>5, <2>6
<1>4. Plot!TooLargeIsRefused
  <2> SUFFICES ASSUME NEW d \in RuledDims, Plot!HasPlotGrid(d), NEW g, g = grids[d],
                      NEW c \in Spots, ~Plot!SmallGroup(g, c), NEW e \in Spots,
                      Plot!OwningPlot(g, c) # Plot!OwningPlot(g, e)
               PROVE  ~Plot!SameArea(g, c, e).yes
    BY DEF Plot!TooLargeIsRefused
  <2>1. TrueGrid(g) /\ c \in Points /\ e \in Points /\ ~Small(g.merges, Base(g, c))
    BY <1>1, <1>2
  <2>2. PICK s : s = Plot!SameArea(g, c, e)
    OBVIOUS
  <2>3. e \in Points
    BY <1>1
  <2>4. s.yes <=> \/ Plot!OwningPlot(g, c) = Plot!OwningPlot(g, e)
                  \/ /\ Owned(g, c) /\ Owned(g, e) /\ Small(g.merges, Base(g, c))
                     /\ Base(g, e) \in Plot!Group(g.merges, Base(g, c))
    BY <2>1, <2>2, <2>3, SameAreaIs
  <2> QED
    BY <2>1, <2>2, <2>4
<1> QED
  BY <1>3, <1>4

-----------------------------------------------------------------------------
(* The parts together.                                                     *)

\* Whatever moves, each of the parts makes a step of its own or none.
Moves ==
  /\ [Decision!Next]_cacheVars
  /\ [Clock!Next]_clockVars
  /\ [Plot!ConfineNext]_ruleVars
  /\ [Act!Next]_actVars
  /\ [Dimension!Next]_dimVars
  /\ [Chunk!GenNext]_chunkVars
  /\ [Saved!Next]_savedVars

engineVars == <<part, packetVars, actVars, cacheVars, clockVars, ruleVars, dimVars,
                chunkVars, savedVars>>

LEMMA EngineMoves == [EngineNext]_engineVars => Moves
<1>1. EngineNext => Moves
  BY Zenon DEF EngineNext, Moves
<1>2. UNCHANGED engineVars => Moves
  BY Zenon DEF engineVars, Moves
<1> QED
  BY <1>1, <1>2

LEMMA RulesBegin == EngineInit => RuleInv
<1> SUFFICES ASSUME EngineInit PROVE RuleInv
  OBVIOUS
<1>1. rules = <<>> /\ counts = <<>>
  BY DEF EngineInit, Plot!ConfineInit, Plot!RulesInit
<1>2. DOMAIN rules = {} /\ DOMAIN counts = {}
  BY <1>1
<1>3. \A d : SetRules(d) = {}
  BY <1>2 DEF SetRules
<1>4. Counts
  BY <1>2, <1>3, FS_EmptySet DEF Counts, Plot!At
<1> QED
  BY <1>2, <1>4, CountsAre DEF RuleInv

LEMMA GridsBegin == EngineInit => GridInv
BY DEF EngineInit, Plot!ConfineInit, GridInv

LEMMA CacheBegins == EngineInit => CacheInv
<1> SUFFICES ASSUME EngineInit PROVE CacheInv
  OBVIOUS
<1> USE DecisionAssumption DEF EngineInit, Decision!Init
<1>1. since \in [Players \X Plots -> 0..Ttl]
  BY DEF Decision!Pairs
<1>2. DOMAIN cache = {"push", "plate"} /\ \A h \in DOMAIN cache : DOMAIN cache[h] = {}
  BY DEF Decision!Hooks
<1>3. DecisionFresh
  BY DEF DecisionFresh, Decision!DecisionFresh
<1> QED
  BY <1>1, <1>2, <1>3 DEF CacheInv

LEMMA ClockBegins == EngineInit => ClockInv
<1> SUFFICES ASSUME EngineInit PROVE ClockInv
  OBVIOUS
<1>1. sampling = FALSE /\ reportReady = FALSE /\ frame = None
  BY DEF EngineInit, Clock!Init
<1>2. /\ pending = 0 /\ owed = 0 /\ warp = Unit /\ acc = 0
      /\ remaining = 0 /\ span = 0 /\ levelCalls = 0
  BY DEF EngineInit, Clock!Init
<1>3. Clock!StepsExact
  BY <1>1, <1>2 DEF Clock!StepsExact
<1>4. Clock!WindowWhole
  BY <1>1, Zenon DEF Clock!WindowWhole
<1>5. /\ pending \in Nat /\ owed \in Int /\ warp \in Nat /\ acc \in Nat
      /\ remaining \in Int /\ span \in Int /\ levelCalls \in Int
  BY <1>2, ClockAssumption
<1> QED
  BY <1>1, <1>3, <1>4, <1>5, Zenon DEF ClockInv

LEMMA ActsBegin == EngineInit => ActInv
<1> SUFFICES ASSUME EngineInit PROVE ActInv
  OBVIOUS
<1>1. acts = <<>> /\ dispatching = {} /\ ended = Act!NoAct
  BY DEF EngineInit, Act!Init
<1>2. NothingUnasked
  BY <1>1, Zenon DEF NothingUnasked, Act!NothingUnasked
<1> QED
  BY <1>1, <1>2 DEF ActInv

LEMMA ChunksBegin == EngineInit => GenInv
<1> SUFFICES ASSUME EngineInit PROVE GenInv
  OBVIOUS
<1>1. /\ buf = [t \in Threads |-> [owner |-> None, blocks |-> <<>>]]
      /\ out = [t \in Threads |-> None]
  BY DEF EngineInit, Chunk!GenInit
<1> QED
  BY <1>1, WorldAssumption DEF GenInv

LEMMA SavedBegins == EngineInit => SavedInv
BY DEF EngineInit, Saved!Init, SavedInv, Saved!RestoredIsGenerated

LEMMA TablesBegin == EngineInit => TablesInv
<1> SUFFICES ASSUME EngineInit PROVE TablesInv
  OBVIOUS
<1>1. /\ store = <<>> /\ liveIds = <<>> /\ toldIds = {} /\ defs = <<>>
      /\ map.name = <<>> /\ ledger.name = <<>>
  BY DEF EngineInit, Dimension!Init, Dimension!NoPair, Dimension!Blank
<1>2. /\ DOMAIN store = {} /\ DOMAIN liveIds = {} /\ DOMAIN defs = {}
      /\ DOMAIN map.name = {} /\ DOMAIN ledger.name = {}
  BY <1>1
<1> QED
  BY <1>1, <1>2 DEF TablesInv, Ledgered, Enginely

\* The count of a dimension, which opens the fast path of every detour, is the number
\* of the rules it has in the table, after any order of setting and clearing.
THEOREM CounterMatchesTheorem == EngineSpec => []CounterMatches
<1>1. EngineInit => RuleInv
  BY RulesBegin
<1>2. RuleInv /\ [EngineNext]_engineVars => RuleInv'
  BY EngineMoves, RulesStep DEF Moves
<1>3. RuleInv => CounterMatches
  BY DEF RuleInv, CounterMatches
<1> QED
  BY <1>1, <1>2, <1>3, PTL DEF EngineSpec, engineVars

\* Two columns are of one area exactly when one can walk from the one to the other and
\* never set foot on a road, whatever was merged, cleared and asked before: what the
\* memo of roots and of groups too large to walk says is still true, and a group that
\* is too large lets nobody into another plot.
THEOREM AnswersAreRegionsTheorem == EngineSpec => []AnswersAreRegions
<1>1. EngineInit => GridInv
  BY GridsBegin
<1>2. GridInv /\ [EngineNext]_engineVars => GridInv'
  BY EngineMoves, GridStep DEF Moves
<1>3. GridInv => AnswersAreRegions
  BY GridsAnswer
<1> QED
  BY <1>1, <1>2, <1>3, PTL DEF EngineSpec, engineVars

\* No cached decision is carried to another block, player or hook, and none is used
\* after its time to live.
THEOREM DecisionFreshTheorem == EngineSpec => []DecisionFresh
<1>1. EngineInit => CacheInv
  BY CacheBegins
<1>2. CacheInv /\ [EngineNext]_engineVars => CacheInv'
  BY EngineMoves, CacheStep DEF Moves
<1>3. CacheInv => DecisionFresh
  BY DEF CacheInv
<1> QED
  BY <1>1, <1>2, <1>3, PTL DEF EngineSpec, engineVars

\* Every step granted to a frozen clock runs once or is called off by a thaw, and a
\* profile covers as many frames as its window.
THEOREM ClockExactTheorem == EngineSpec => []ClockExact
<1>1. EngineInit => ClockInv
  BY ClockBegins
<1>2. ClockInv /\ [EngineNext]_engineVars => ClockInv'
  BY EngineMoves, ClockStep DEF Moves
<1>3. ClockInv => ClockExact
  BY DEF ClockInv, ClockExact
<1> QED
  BY <1>1, <1>2, <1>3, PTL DEF EngineSpec, engineVars

\* An act somebody watches is asked about before it has an effect, a refused one has
\* none, and the flags against asking exempt no later act, however acts nest.
THEOREM NothingUnaskedTheorem == EngineSpec => []NothingUnasked
<1>1. EngineInit => ActInv
  BY ActsBegin
<1>2. ActInv /\ [EngineNext]_engineVars => ActInv'
  BY EngineMoves, ActStep DEF Moves
<1>3. ActInv => NothingUnasked
  BY DEF ActInv
<1> QED
  BY <1>1, <1>2, <1>3, PTL DEF EngineSpec, engineVars

\* An id of the engine is one name's for ever, whatever is refused, tried again or edited
\* between boots, and every table a caller is answered from has it.
THEOREM IdsHoldTheorem == EngineSpec => []IdsHold
<1>1. EngineInit => TablesInv
  BY TablesBegin
<1>2. TablesInv /\ [EngineNext]_engineVars => TablesInv'
  BY EngineMoves, TablesStep DEF Moves
<1>3. TablesInv => IdsHold
  BY TablesHold
<1> QED
  BY <1>1, <1>2, <1>3, PTL DEF EngineSpec, engineVars

\* A chunk is what the layout of its world promises, block by block, whatever its thread
\* made before, for any layouts.
THEOREM ChunksAsPromisedTheorem == EngineSpec => []ChunksAsPromised
<1>1. EngineInit => GenInv
  BY ChunksBegin
<1>2. GenInv /\ [EngineNext]_engineVars => GenInv'
  BY EngineMoves, GenStep DEF Moves
<1>3. GenInv => ChunksAsPromised
  BY DEF GenInv, AsPromised, Chunk!ChunksAsPromised, ChunksAsPromised
<1> QED
  BY <1>1, <1>2, <1>3, PTL DEF EngineSpec, engineVars

\* A chunk erased after the loader said that it is not loaded is generated anew, whatever
\* came between the two calls but a load of it: no key of it comes back, since no key is
\* of two chunks and the loader is right about what is loaded.
THEOREM ErasedIsGeneratedTheorem == EngineSpec => []ErasedIsGenerated
<1>1. EngineInit => SavedInv
  BY SavedBegins
<1>2. SavedInv /\ [EngineNext]_engineVars => SavedInv'
  BY EngineMoves, SavedStep DEF Moves
<1>3. SavedInv => ErasedIsGenerated
  <2>1. SavedInv => Saved!RestoredIsGenerated
    BY DEF SavedInv
  <2> QED
    BY <2>1, LoadedSquare, Zenon DEF ErasedIsGenerated
<1> QED
  BY <1>1, <1>2, <1>3, PTL DEF EngineSpec, engineVars
=============================================================================
