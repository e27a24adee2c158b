---------------------------- MODULE MCDependents ----------------------------
(***************************************************************************)
(* Every question `/llr' can ask about every small dependency map.         *)
(***************************************************************************)
EXTENDS Dependents

CONSTANTS
  MapNames,
  MaxDeps  \* bound: names listed by a manifest, repetitions included

\* Names are numbers, and of finitely many mods.
ASSUME MapAssumption ==
  MapNames \subseteq Nat /\ IsFiniteSet(MapNames) /\ MaxDeps \in Nat

Lists == UNION {[1..n -> MapNames] : n \in 0..MaxDeps}

VARIABLES
  manifests,  \* the mods loaded and what their manifests say
  views,      \* how often loadedDependencyMap absorbs each
  target,
  answer      \* the last answer, <<>> before the first

questionVars == <<manifests, views, target, answer>>

DependencyMap == [m \in MapNames |-> Absorbed(manifests[m], views[m])]

QuestionInit ==
  /\ manifests \in [MapNames -> Lists]
  /\ views \in {[m \in MapNames |-> 1], [m \in MapNames |-> 2]}
  /\ target \in MapNames
  /\ answer = <<>>

Ask ==
  /\ answer = <<>>
  /\ answer' \in DependentsOf(DependencyMap, target)
  /\ UNCHANGED <<manifests, views, target>>

\* dependentsOf names exactly the mods that need the target, directly or not,
\* each once: cycles and repeated names lose or repeat nobody.
EveryDependentOnce ==
  [][answer # answer' => IsAnswer(DependencyMap, target, answer')]_questionVars

\* A mod comes before everything it needs, diamonds included, wherever no cycle
\* is in the way: the order ModControl.cpp 318-320 unloads in.
UnloadOrder ==
  [][answer # answer' => IsUnloadOrder(DependencyMap, target, answer')]_questionVars
=============================================================================
