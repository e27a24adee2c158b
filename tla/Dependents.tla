----------------------------- MODULE Dependents -----------------------------
(***************************************************************************)
(* dependentsOf in src/src/core/ModControl.cpp: the mods that need a mod,  *)
(* in an order they can be unloaded in.                                    *)
(*                                                                         *)
(* `deps' maps each loaded mod to the list of names its manifest declares. *)
(* A name may be listed twice: a mod that both LeviLamina's registry and   *)
(* the loader's own table know is absorbed twice by loadedDependencyMap.   *)
(* Names are numbers, so that the sort has an order to follow; the order   *)
(* of an unordered container is any order.                                 *)
(***************************************************************************)
EXTENDS Integers, Sequences, FiniteSets, SequencesExt, Subsequence

\* loadedDependencyMap: the manifest's list, once per view the mod is in.
Absorbed(manifest, views) == IF views = 2 THEN manifest \o manifest ELSE manifest

DependedBy(deps, names) ==
  {m \in DOMAIN deps : ToSet(deps[m]) \intersect names # {}}

\* The breadth-first search over the reverse edges, target excluded.
Affected(deps, target) ==
  LET found[n \in Nat] == IF n = 0 THEN {target}
                          ELSE found[n - 1] \union DependedBy(deps, found[n - 1])
  IN found[Cardinality(DOMAIN deps)] \ {target}

\* std::sort.
Sorted(names) ==
  [i \in 1..Cardinality(names) |-> CHOOSE d \in names : Rank(names, d) = i]

Indegree(deps, affected, d) ==
  Cardinality(UNION {{<<m, i>> : i \in {j \in DOMAIN deps[m] : deps[m][j] = d}} :
                     m \in affected})

\* `if (--indeg[d] == 0) ready.push_back(d)', for one entry of a list.
Release(affected, st, d) ==
  IF d \notin affected THEN st
  ELSE [st EXCEPT !.indeg[d] = @ - 1,
                  !.ready = IF st.indeg[d] = 1 THEN Append(@, d) ELSE @]

\* One round of Kahn's loop: the last ready mod is taken.
KahnRound(deps, affected, st) ==
  IF st.ready = <<>> THEN st
  ELSE LET cur == Last(st.ready)
       IN FoldLeft(LAMBDA s, d : Release(affected, s, d),
                   [st EXCEPT !.ready = Front(@), !.ordered = Append(@, cur)],
                   deps[cur])

Kahn(deps, affected) ==
  LET indeg == [d \in affected |-> Indegree(deps, affected, d)]
      start == [indeg |-> indeg, ordered |-> <<>>,
                ready |-> Sorted({d \in affected : indeg[d] = 0})]
      rounds == [i \in 1..Cardinality(affected) |-> i]
  IN FoldLeft(LAMBDA st, i : KahnRound(deps, affected, st), start, rounds).ordered

\* Mutant: what is left of a cycle is dropped.
DependentsAcyclic(deps, target) == {Kahn(deps, Affected(deps, target))}

\* The possible answers: what a cycle left over comes last, in any order.
DependentsOf(deps, target) ==
  LET affected == Affected(deps, target)
      ordered  == Kahn(deps, affected)
  IN {ordered \o rest : rest \in SetToSeqs(affected \ ToSet(ordered))}

-----------------------------------------------------------------------------
(* The reference: who needs whom, directly or not.                         *)

\* Whoever needs y: what is in every set that has all who list y, or a member of it.
Needing(deps, y) ==
  {x \in DOMAIN deps : \A T \in SUBSET DOMAIN deps :
     (\A m \in DOMAIN deps : ToSet(deps[m]) \intersect (T \union {y}) # {} => m \in T)
     => x \in T}

IsAnswer(deps, target, ans) ==
  /\ ToSet(ans) = Needing(deps, target) \ {target}
  /\ \A i, j \in DOMAIN ans : i # j => ans[i] # ans[j]

\* A mod precedes everything it needs other than through the target, unless
\* mods of a cycle need it.
IsUnloadOrder(deps, target, ans) ==
  LET others == DOMAIN deps \ {target}
      direct == [m \in others |-> deps[m]]
  IN \A i, j \in DOMAIN ans :
       i < j /\ ans[j] \in Needing(direct, ans[i])
       => \E m \in others : m \in Needing(direct, m) \intersect Needing(direct, ans[j])
=============================================================================
