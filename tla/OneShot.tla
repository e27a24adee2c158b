------------------------------ MODULE OneShot ------------------------------
(***************************************************************************)
(* What a ticket of the loader promises the mod that holds it: the         *)
(* callback behind it is entered at most once, and never after the ticket  *)
(* was dropped (cancelled, refused, muted, or its mod unloaded).           *)
(***************************************************************************)
CONSTANT Tickets

VARIABLE status   \* per ticket

Issue(k) == status[k] = "unborn"  /\ status' = [status EXCEPT ![k] = "pending"]
Fire(k)  == status[k] = "pending" /\ status' = [status EXCEPT ![k] = "fired"]

\* A ticket refused in the very call that asked for it.
Refuse(k) == status[k] = "unborn" /\ status' = [status EXCEPT ![k] = "dropped"]

\* Any set of pending tickets can be dropped at once: an unload drops all of
\* its mod's.
Drop(ks) ==
  /\ \A k \in ks : status[k] = "pending"
  /\ status' = [k \in Tickets |-> IF k \in ks THEN "dropped" ELSE status[k]]

AInit == status = [k \in Tickets |-> "unborn"]

ANext == \/ \E k \in Tickets : Issue(k) \/ Fire(k) \/ Refuse(k)
         \/ \E ks \in SUBSET Tickets : Drop(ks)

ASpec == AInit /\ [][ANext]_status
=============================================================================
