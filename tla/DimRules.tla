------------------------------ MODULE DimRules ------------------------------
(***************************************************************************)
(* The rules of behaviour kept per dimension, and the detours of the       *)
(* engine that ask them.  A rule is stored only when it was set; a detour  *)
(* of a dimension without rules must not be felt at all, so each asks the  *)
(* counter of the dimension first and the table second: two tables that    *)
(* have to tell the same story through every order of set and clear.       *)
(*                                                                         *)
(* The detours of fire, liquid, farmland, projectiles and rides only       *)
(* differ in the rule they ask: one action stands for the five.            *)
(***************************************************************************)
EXTENDS Naturals, FiniteSets

CONSTANTS
    Dims,       \* dimensions
    Rules,      \* the rules the callers set (a part of DimRule)
    MaxRules    \* bound: entries of the table

VARIABLES
    rules,      \* rules(): the entries set, a partial function of <<dim, rule>>
    counts,     \* dimCounts(): entries per dimension, a partial function
    last        \* of the last step's detour its dimension, its case, its outcome

ruleVars == <<rules, counts, last>>

\* enum class DimRule; kDimRuleCount is its size.
DimRule == {"SpawnMonster", "SpawnAnimal", "SpawnSpawner", "ExplodeBlocks", "FireSpread",
            "MobGriefing", "Projectile", "PistonPush", "LiquidFlow", "FarmlandDecay", "Ride",
            "PistonCrossPlot", "EntityCrossPlot"}

AskOne == {"Projectile", "FireSpread", "LiquidFlow", "FarmlandDecay", "Ride"}

Idle == [hook |-> "none"]

\* The value of a partial function at k, d where it has none.
At(f, k, d) == IF k \in DOMAIN f THEN f[k] ELSE d

With(f, k, v) == [i \in DOMAIN f \cup {k} |-> IF i = k THEN v ELSE f[i]]

Without(f, ks) == [i \in DOMAIN f \ ks |-> f[i]]

RulesInit == rules = <<>> /\ counts = <<>> /\ last = Idle

\* anyRuleFor: the fast path of every detour.
AnyRuleFor(d) == At(counts, d, 0) > 0

\* allowed: an entry that was never set lets the engine do as it does.
Allowed(d, r) == At(rules, <<d, r>>, TRUE)

-----------------------------------------------------------------------------
(* setDimensionRule: only an entry that is new counts.                     *)

Counted(d, r) == IF <<d, r>> \in DOMAIN rules THEN counts
                 ELSE With(counts, d, At(counts, d, 0) + 1)

SetDimensionRule(d, r, allow) ==
    /\ <<d, r>> \in DOMAIN rules \/ Cardinality(DOMAIN rules) < MaxRules
    /\ rules' = With(rules, <<d, r>>, allow)
    /\ counts' = Counted(d, r)
    /\ last' = Idle

\* Mutant: the loop of clearDimensionRules does not know of the rule that was appended last.
ClearedShort(d) == {d} \X (DimRule \ {"EntityCrossPlot"})

\* What clearDimensionRules erases: every rule below kDimRuleCount.
Cleared(d) == {d} \X DimRule

ClearDimensionRules(d) ==
    /\ rules' = Without(rules, Cleared(d))
    /\ counts' = Without(counts, {d})
    /\ last' = Idle

-----------------------------------------------------------------------------
(* The detours.  last.done says whether the engine's effect took place.    *)

Report(hook, d, case, done) ==
    /\ last' = [hook |-> hook, dim |-> d, case |-> case, done |-> done]
    /\ UNCHANGED <<rules, counts>>

AskedRule(d, r) == Report(r, d, r, ~AnyRuleFor(d) \/ Allowed(d, r))

(* A spawn by a spawner asks its own rule before the engine runs; a        *)
(* natural spawn is made first and taken away again when the rule of its   *)
(* category says so; an egg, a command or a birth is never stopped.        *)
MobStays(d, from, natural, hostile) ==
    \/ ~AnyRuleFor(d)
    \/ /\ from => Allowed(d, "SpawnSpawner")
       /\ natural => Allowed(d, IF hostile THEN "SpawnMonster" ELSE "SpawnAnimal")

SpawnMob(d, from, natural, hostile) ==
    Report("spawn", d, <<from, natural, hostile>>, MobStays(d, from, natural, hostile))

\* An explosion takes place in any case; the rules only take its breaking of blocks away.
BlocksBreak(d, mob) ==
    \/ ~AnyRuleFor(d)
    \/ Allowed(d, "ExplodeBlocks") /\ (mob => Allowed(d, "MobGriefing"))

Explode(d, breaks, mob) ==
    Report("explode", d, <<breaks, mob>>, breaks /\ BlocksBreak(d, mob))

Detoured ==
    \E d \in Dims :
        \/ \E r \in AskOne : AskedRule(d, r)
        \/ \E from, natural, hostile \in BOOLEAN : SpawnMob(d, from, natural, hostile)
        \/ \E breaks, mob \in BOOLEAN : Explode(d, breaks, mob)

(***************************************************************************)
(* The counter and the table agree: whatever was set and cleared before,   *)
(* the fast path of a dimension is open exactly when no rule of it is set. *)
(* A rule that outlives its counter is silently not obeyed (and is still   *)
(* obeyed by the move of an actor, which does not ask the counter); a      *)
(* counter that outlives its rules taxes a dimension nobody manages.       *)
(***************************************************************************)
CounterMatches ==
    \A d \in Dims : At(counts, d, 0) = Cardinality({r \in DimRule : <<d, r>> \in DOMAIN rules})
=============================================================================
