----------------------------- MODULE LanePromise -----------------------------
(***************************************************************************)
(* What the fast lane promises its two sides, without tables, counters or  *)
(* stacks: a publication goes up once and down once, reference grants only *)
(* exist while it is up and all end with it, and a call only enters while  *)
(* it is up.                                                               *)
(***************************************************************************)
CONSTANTS LaneIds, LeaseIds

VARIABLES
  phase,   \* per publication: "unborn", "up" or "down"
  grants,  \* per publication: the references the provider must keep alive
  spent,   \* every reference ever granted
  inside   \* the publications being called

avars == <<phase, grants, spent, inside>>

AInit ==
  /\ phase = [l \in LaneIds |-> "unborn"]
  /\ grants = [l \in LaneIds |-> {}]
  /\ spent = {}
  /\ inside = {}

GoUp(l) ==
  /\ phase[l] = "unborn"
  /\ phase' = [phase EXCEPT ![l] = "up"]
  /\ UNCHANGED <<grants, spent, inside>>

GoDown(l) ==
  /\ phase[l] = "up"
  /\ phase' = [phase EXCEPT ![l] = "down"]
  /\ grants' = [grants EXCEPT ![l] = {}]
  /\ UNCHANGED <<spent, inside>>

\* A reference is granted once in its life and ends once.
Grant(l, i) ==
  /\ phase[l] = "up"
  /\ i \notin spent
  /\ grants' = [grants EXCEPT ![l] = @ \union {i}]
  /\ spent' = spent \union {i}
  /\ UNCHANGED <<phase, inside>>

End(l, i) ==
  /\ i \in grants[l]
  /\ grants' = [grants EXCEPT ![l] = @ \ {i}]
  /\ UNCHANGED <<phase, spent, inside>>

Enter(l) ==
  /\ phase[l] = "up"
  /\ inside' = inside \union {l}
  /\ UNCHANGED <<phase, grants, spent>>

Leave(l) ==
  /\ l \in inside
  /\ inside' = inside \ {l}
  /\ UNCHANGED <<phase, grants, spent>>

ANext ==
  \/ \E l \in LaneIds : GoUp(l) \/ GoDown(l) \/ Enter(l) \/ Leave(l)
  \/ \E l \in LaneIds, i \in LeaseIds : Grant(l, i) \/ End(l, i)

ASpec == AInit /\ [][ANext]_avars
=============================================================================
