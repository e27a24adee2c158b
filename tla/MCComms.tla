------------------------------ MODULE MCComms ------------------------------
(***************************************************************************)
(* What mods have of one another, for TLC: the lanes and the bus.  They    *)
(* share no table, so one of them moves while the other rests.             *)
(***************************************************************************)
EXTENDS Lane

CONSTANTS Topics, Main, MaxSubs, Nested

VARIABLES part,  \* which of them moves
  busStage, subs, byTopic, nextSub, busStack

busVars == <<busStage, subs, byTopic, nextSub, busStack>>

\* The server thread by itself; MCMods has the bus on two threads.
Topic == INSTANCE Bus WITH
  Threads <- {Main}, MaxDepth <- Nested, MaxStack <- Nested,
  stage <- busStage, stack <- busStack

CommsInit == part \in {"lane", "bus"} /\ Init /\ Topic!Init

CommsNext ==
  /\ UNCHANGED part
  /\ \/ part = "lane" /\ Next /\ UNCHANGED busVars
     \/ part = "bus" /\ Topic!Next /\ UNCHANGED vars

\* No fair action of a part is enabled in the part's initial state.
CommsSpec ==
  CommsInit /\ [][CommsNext]_<<part, vars, busVars>> /\ Fairness /\ Topic!Fairness

\* Every publish ends, whatever its callbacks do.
PublishEnds == Topic!PublishEnds
=============================================================================
