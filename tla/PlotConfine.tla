---------------------------- MODULE PlotConfine ----------------------------
(***************************************************************************)
(* The borders of plots: the grid of each dimension, the plots merged      *)
(* across a road, and the two detours that keep pistons and actors inside  *)
(* their plot.  The root of a group of merged plots is found by a walk and *)
(* remembered for every member, until the table of merges is replaced; a   *)
(* walk that visits too many plots is given up, remembered too, and the    *)
(* group is refused from then on.                                          *)
(***************************************************************************)
EXTENDS DimRules, Integers, Sequences

CONSTANTS
    Sizes,          \* <<plotSize, roadWidth>> the callers register
    Tables,         \* tables of merges: functions of plots to sets of directions
    ScanLimit,      \* kGroupScanLimit
    Spots,          \* the columns that pistons, blocks and actors are at
    NoGrid

VARIABLES
    grids       \* grids(): DimGrid per dimension, NoGrid where there is none

ConfineInit == RulesInit /\ grids = [d \in Dims |-> NoGrid]

HasPlotGrid(d) == grids[d] # NoGrid

-----------------------------------------------------------------------------
(* Geometry.  Directions are 0 north, 1 east, 2 south, 3 west.             *)

Neighbour(p, dir) == CASE dir = 0 -> <<p[1], p[2] - 1>>
                       [] dir = 1 -> <<p[1] + 1, p[2]>>
                       [] dir = 2 -> <<p[1], p[2] + 1>>
                       [] dir = 3 -> <<p[1] - 1, p[2]>>

Claims(m, p, dir) == dir \in At(m, p, {})

\* Either side's claim connects: an unlink that failed half way leaves one claim behind.
Connected(m, p, dir) == Claims(m, p, dir) \/ Claims(m, Neighbour(p, dir), (dir + 2) % 4)

\* owningPlotLocked: the plot a column belongs to, as a set of at most one.
OwningPlot(g, c) ==
    LET cell == g.size + g.road
        base == <<c[1] \div cell, c[2] \div cell>>
        onRoadX == c[1] % cell >= g.size
        onRoadZ == c[2] % cell >= g.size
        joined(p, dir) == Connected(g.merges, p, dir)
        owned == CASE ~onRoadX /\ ~onRoadZ -> TRUE
                   [] onRoadX /\ ~onRoadZ -> joined(base, 1)
                   [] ~onRoadX /\ onRoadZ -> joined(base, 2)
                   [] OTHER -> /\ joined(base, 1) /\ joined(base, 2)
                               /\ joined(Neighbour(base, 1), 2)
                               /\ joined(Neighbour(base, 2), 1)
    IN  IF owned THEN {base} ELSE {}

\* The group of a plot: what a walk over connected neighbours reaches.
Group(m, p) ==
    LET Adjacent(q) == {Neighbour(q, dir) : dir \in {i \in 0 .. 3 : Connected(m, q, i)}}
        Wider(Q) == Q \cup UNION {Adjacent(q) : q \in Q}
        near[n \in Nat] == IF n = 0 THEN {p} ELSE Wider(near[n - 1])
    IN  near[2 * Cardinality(DOMAIN m)]

Least(P) == CHOOSE p \in P : \A q \in P : p[1] < q[1] \/ (p[1] = q[1] /\ p[2] <= q[2])

\* The plots a walk that is given up has seen: one more than the limit.
Seen(m, p) == CHOOSE S \in SUBSET Group(m, p) : p \in S /\ Cardinality(S) = ScanLimit + 1

-----------------------------------------------------------------------------
(* sameArea.  An answer is [yes, g]: the grid comes back with its memo.    *)

GroupRoot(g, p) ==
    LET members == Group(g.merges, p) IN
    CASE p \in g.oversized -> [root |-> {}, g |-> g]
      [] p \notin g.oversized /\ p \in DOMAIN g.roots -> [root |-> {g.roots[p]}, g |-> g]
      [] p \notin g.oversized /\ p \notin DOMAIN g.roots /\ Cardinality(members) > ScanLimit ->
            [root |-> {}, g |-> [g EXCEPT !.oversized = @ \cup Seen(g.merges, p)]]
      [] OTHER -> [root |-> {Least(members)},
                   g |-> [g EXCEPT !.roots = [q \in DOMAIN @ \cup members |->
                                        IF q \in members THEN Least(members) ELSE @[q]]]]

\* The second root is not looked for when the first was refused.
SameArea(g, c, e) ==
    LET a == OwningPlot(g, c)
        b == OwningPlot(g, e)
        ra == GroupRoot(g, CHOOSE p \in a : TRUE)
        rb == GroupRoot(ra.g, CHOOSE p \in b : TRUE)
    IN  CASE a = b -> [yes |-> TRUE, g |-> g]
          [] a # b /\ (a = {} \/ b = {}) -> [yes |-> FALSE, g |-> g]
          [] a # b /\ a # {} /\ b # {} /\ ra.root = {} -> [yes |-> FALSE, g |-> ra.g]
          [] OTHER -> [yes |-> rb.root # {} /\ ra.root = rb.root, g |-> rb.g]

\* The pairs are asked in turn until one is refused.
SameAreas(g, pairs) ==
    LET ask[i \in 0 .. Len(pairs)] ==
            IF i = 0 THEN [yes |-> TRUE, g |-> g]
            ELSE IF ~ask[i - 1].yes THEN ask[i - 1]
            ELSE SameArea(ask[i - 1].g, pairs[i][1], pairs[i][2])
    IN  ask[Len(pairs)]

-----------------------------------------------------------------------------
(* The callers' operations.                                                *)

Bounded(size, road) == <<IF size > 512 THEN 512 ELSE size,
                         IF road < 0 THEN 0 ELSE IF road > 64 THEN 64 ELSE road>>

ClearPlotGrid(d) ==
    /\ grids' = [grids EXCEPT ![d] = NoGrid]
    /\ UNCHANGED <<rules, counts>> /\ last' = Idle

\* The same geometry again leaves the grid alone, its merges and its memo with it.
SetPlotGrid(d, size, road) ==
    LET s == Bounded(size, road) IN
    /\ size > 0
    /\ grids' = [grids EXCEPT ![d] =
           IF @ = NoGrid THEN [size |-> s[1], road |-> s[2], merges |-> <<>>, roots |-> <<>>,
                               oversized |-> {}]
           ELSE IF <<@.size, @.road>> = s THEN @
           ELSE [@ EXCEPT !.size = s[1], !.road = s[2], !.roots = <<>>, !.oversized = {}]]
    /\ UNCHANGED <<rules, counts>> /\ last' = Idle

\* A plot size of zero or less is a request to clear.
RegisterGrid(d, size, road) ==
    \/ SetPlotGrid(d, size, road)
    \/ size <= 0 /\ ClearPlotGrid(d)

\* Mutant: replacing the table forgets neither the roots nor the groups that were given up.
RemadeKeepsMemo(g, table) == [g EXCEPT !.merges = table]

\* The table is replaced as a whole and the memo goes with it.
Remade(g, table) == [g EXCEPT !.merges = table, !.roots = <<>>, !.oversized = {}]

SetPlotMerges(d, table) ==
    /\ HasPlotGrid(d)
    /\ grids' = [grids EXCEPT ![d] = Remade(@, table)]
    /\ UNCHANGED <<rules, counts>> /\ last' = Idle

-----------------------------------------------------------------------------
(* The detours.  The engine says where a piston is, which way it faces and *)
(* which blocks it would move; the rule that stops every push comes first. *)

Plus(c, dir) == Neighbour(c, dir)

PushPairs(at, blocks, dir) ==
    [i \in 1 .. 2 * Len(blocks) |->
        LET b == blocks[(i + 1) \div 2]
        IN  <<at, IF i % 2 = 1 THEN b ELSE Plus(b, dir)>>]

Confined(d, r) == AnyRuleFor(d) /\ ~Allowed(d, r) /\ HasPlotGrid(d)

Piston(d, at, blocks, dir) ==
    LET free == ~AnyRuleFor(d) \/ Allowed(d, "PistonPush")
        asked == free /\ Confined(d, "PistonCrossPlot")
        answer == SameAreas(grids[d], PushPairs(at, blocks, dir))
    IN  /\ Report("piston", d, {}, free /\ (asked => answer.yes))
        /\ grids' = [grids EXCEPT ![d] = IF asked THEN answer.g ELSE @]

(* The move of an actor that is no player, carries nobody and is not       *)
(* removed.  It asks the rule without asking the counter.                  *)
Move(d, from, to) ==
    LET asked == ~Allowed(d, "EntityCrossPlot") /\ HasPlotGrid(d) /\ from # to
        answer == SameArea(grids[d], from, to)
    IN  /\ Report("move", d, {}, asked => answer.yes)
        /\ grids' = [grids EXCEPT ![d] = IF asked THEN answer.g ELSE @]

Configure ==
    \E d \in Dims :
        \/ \E r \in Rules, allow \in BOOLEAN :
              SetDimensionRule(d, r, allow) /\ UNCHANGED grids
        \/ ClearDimensionRules(d) /\ UNCHANGED grids
        \/ \E s \in Sizes : RegisterGrid(d, s[1], s[2])
        \/ ClearPlotGrid(d)
        \/ \E t \in Tables : SetPlotMerges(d, t)

ConfineNext ==
    \/ Configure
    \/ Detoured /\ UNCHANGED grids
    \/ \E d \in Dims, at \in Spots, dir \in 0 .. 3, side \in 0 .. 1 :
          LET pushed == Plus(at, dir)  \* and a block that goes with it, ahead or beside
          IN  Piston(d, at, <<pushed, Plus(pushed, (dir + side) % 4)>>, dir)
    \/ \E d \in Dims, from, to \in Spots : Move(d, from, to)

-----------------------------------------------------------------------------
(* What "the same area" means, without roots, memo or roads: the columns   *)
(* some plot owns make regions, connected side to side.  (A group that can *)
(* be walked has no more columns than these rounds.)                       *)

Region(g, c) ==
    LET cell == g.size + g.road
        Beside(Q) == UNION {{Plus(e, dir) : dir \in 0 .. 3} : e \in Q}
        Wider(Q) == Q \cup {e \in Beside(Q) : OwningPlot(g, e) # {}}
        grown[n \in Nat] == IF n = 0 THEN {c} ELSE Wider(grown[n - 1])
    IN  grown[ScanLimit * cell * cell]

SmallGroup(g, c) ==
    \A p \in OwningPlot(g, c) : Cardinality(Group(g.merges, p)) <= ScanLimit

(***************************************************************************)
(* The answers are about the plots as they are now: after any sequence of  *)
(* grids, merges and questions that filled the memo, two columns on plots  *)
(* of groups that can be walked are the same area exactly when one can     *)
(* walk from the one to the other without setting foot on a road.  (Where  *)
(* there is a road between plots; without one, neighbours touch.)          *)
(***************************************************************************)
AnswersAreRegions ==
    \A d \in Dims :
        LET g == grids[d] IN
        HasPlotGrid(d) => (g.road > 0 =>
            \A c \in {e \in Spots : OwningPlot(g, e) # {} /\ SmallGroup(g, e)} :
                LET region == Region(g, c) IN
                \A e \in Spots : OwningPlot(g, e) # {} =>
                    (SameArea(g, c, e).yes <=> e \in region))

(***************************************************************************)
(* A group that is too large to walk is never entered nor left half way:   *)
(* whichever of its plots is asked about, and however often, only the      *)
(* plot itself is the same area.                                           *)
(***************************************************************************)
TooLargeIsRefused ==
    \A d \in Dims :
        LET g == grids[d] IN
        HasPlotGrid(d) =>
            \A c \in {e \in Spots : ~SmallGroup(g, e)}, e \in Spots :
                OwningPlot(g, c) # OwningPlot(g, e) => ~SameArea(g, c, e).yes
=============================================================================
