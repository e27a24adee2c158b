------------------------------ MODULE Throttle ------------------------------
(***************************************************************************)
(* The decisions that are cached: bridge/hooks/DecisionThrottle.h and its  *)
(* users, PushEntityEvent.cpp and PressurePlateEvent.cpp.  Standing on a   *)
(* plate or against an animal asks the mods again every tick, if one is    *)
(* subscribed; an answer is kept per player, for a short time and one      *)
(* place.  Mods decide by plot, and change their minds.  One coordinate    *)
(* stands for all four of a place.                                         *)
(***************************************************************************)
EXTENDS Integers, FiniteSets

CONSTANTS
  Players, None,
  Positions,   \* of pushed entities, in half blocks
  Blocks,      \* with plates, in blocks
  Plots, PlotOf(_),  \* the plot of a block
  Deniable,    \* plots where mods refuse somebody
  Ttl,         \* kDecisionTtlMs, in ticks
  MaxEntries   \* the size a cache may pass before it is emptied: 512

Hooks == {"push", "plate"}

VARIABLES
  denied,   \* the mods' decisions: <<player, plot>> refused
  since,    \* history, per pair: ticks since the decision changed, Ttl at most
  cache,    \* per hook: the map, per key [x, cancelled, age]
  outcome   \* of the last step: [hook, player, at, asked, refused], or None

vars == <<denied, since, cache, outcome>>

Pairs == Players \X Plots
Older(age) == IF age < Ttl THEN age + 1 ELSE age

Init ==
  /\ denied = {} /\ since = [d \in Pairs |-> Ttl]
  /\ cache = [h \in Hooks |-> [p \in {} |-> None]]
  /\ outcome = None

-----------------------------------------------------------------------------

\* Mutant: the place is no part of the key.
HitAnywhere(h, p, x) == p \in DOMAIN cache[h] /\ cache[h][p].age < Ttl

\* throttleLookup: the entry of the player, if it is of this place and fresh.
Hit(h, p, x) ==
  /\ p \in DOMAIN cache[h]
  /\ cache[h][p].x = x /\ cache[h][p].age < Ttl

\* throttleStore: one entry per player, and a map that has grown is emptied.
Stored(h, p, x, refused) ==
  LET kept == IF Cardinality(DOMAIN cache[h]) > MaxEntries THEN {} ELSE DOMAIN cache[h]
  IN [q \in kept \cup {p} |->
        IF q = p THEN [x |-> x, cancelled |-> refused, age |-> 0] ELSE cache[h][q]]

\* The place a mod is asked about, and the decision is kept for: of a block its
\* position, of an entity static_cast<int>, which drops the fraction.
Truncated(pos) == IF pos >= 0 THEN pos \div 2 ELSE -((-pos) \div 2)

Floor(pos) == pos \div 2

\* The hook of something player p does at block at, asked about as x.
Decide(h, p, at, x) ==
  LET asked == <<p, PlotOf(x)>> \in denied
      refused == IF Hit(h, p, x) THEN cache[h][p].cancelled ELSE asked
  IN
  /\ outcome' = [hook |-> h, player |-> p, at |-> at, asked |-> x, refused |-> refused]
  /\ cache' = [cache EXCEPT ![h] = IF Hit(h, p, x) THEN @ ELSE Stored(h, p, x, asked)]
  /\ UNCHANGED <<denied, since>>

\* PlayerPushEntityHook: of the pushed entity, whichever side is the player.
Push(p, pos) == Decide("push", p, Floor(pos), Truncated(pos))

\* refuseTrigger, for the four hooks of plates and tripwires.
Trigger(p, block) == Decide("plate", p, block, block)

-----------------------------------------------------------------------------

\* A plot changes hands, or a flag is set.
Rule(p, plot) ==
  /\ plot \in Deniable
  /\ denied' = IF <<p, plot>> \in denied THEN denied \ {<<p, plot>>}
               ELSE denied \cup {<<p, plot>>}
  /\ since' = [since EXCEPT ![<<p, plot>>] = 0]
  /\ outcome' = None
  /\ UNCHANGED cache

Tick ==
  /\ since' = [d \in Pairs |-> Older(since[d])]
  /\ cache' = [h \in Hooks |-> [p \in DOMAIN cache[h] |->
                 [cache[h][p] EXCEPT !.age = Older(@)]]]
  /\ outcome' = None
  /\ UNCHANGED denied

Next ==
  \/ Tick
  \/ \E p \in Players :
       \/ \E plot \in Plots : Rule(p, plot)
       \/ \E pos \in Positions : Push(p, pos)
       \/ \E block \in Blocks : Trigger(p, block)

Spec == Init /\ [][Next]_vars

-----------------------------------------------------------------------------

\* o agrees with what the mods decide for the plot of the block at, or with what
\* they decided less than the time to live ago.
Agrees(o, at) ==
  LET pair == <<o.player, PlotOf(at)>> IN
  o.refused = (pair \in denied) \/ since[pair] < Ttl

\* No decision is carried to another place than the one it was made for, to
\* another player or another hook, and none outlives its time: what happens is
\* what the mods decide about the place they were asked about, now or a moment
\* ago, also when the cache was emptied in between.
DecisionFresh == outcome # None => Agrees(outcome, outcome.asked)

\* The cache never carries a decision across a plot border, since one block
\* further is another key (DecisionThrottle.h:39), and the permission is
\* evaluated at the pushed entity's position (PushEntityEvent.cpp:37).
DecidedWhereItIs == outcome # None => Agrees(outcome, outcome.at)
=============================================================================
