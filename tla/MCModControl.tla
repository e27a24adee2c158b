---------------------------- MODULE MCModControl ----------------------------
EXTENDS ModControl

\* Without loss of generality mods depend on smaller ones: the manifests the
\* server started from have no cycle.  A C++ mod lists one other at most.
Listings(m) == {SetToSortSeq(S, <) : S \in SUBSET {n \in Names : n < m}}
AllDisks == {d \in [Names -> [deps: UNION {Listings(m) : m \in Names},
                              safe: BOOLEAN]] :
               /\ \A m \in Names : d[m].deps \in Listings(m)
               /\ \A m \in CppMods : ~ d[m].safe /\ Len(d[m].deps) < 2}

\* Every mod may be reloaded.
SafeDisks == {d \in AllDisks : \A m \in RustMods : d[m].safe}

\* The ways a manifest may be edited: not at all; to depend on one other mod and
\* stay reloadable; or to any short list, cycles included.
NoEdits == {}
OneDependency == {[deps |-> <<m>>, safe |-> TRUE] : m \in RustMods}
AnyEdit == [deps: {<<>>} \union {<<m>> : m \in Names}, safe: BOOLEAN]
=============================================================================
