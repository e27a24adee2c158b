-------------------------------- MODULE Bus --------------------------------
(***************************************************************************)
(* The cross-mod event bus: src/src/bridge/core/Bus.cpp.                   *)
(*                                                                         *)
(* The loader owns the subscriptions (gSubs) and an index of them by topic *)
(* (gByTopic).  A publish snapshots the ids of its topic, then takes them  *)
(* one by one: the entry is copied out under the lock, its mod is          *)
(* re-validated, and its callback is entered with the lock released, so a  *)
(* callback may subscribe, unsubscribe, publish, disable or unload mods.   *)
(*                                                                         *)
(* A thread's frames are publishes and unloads in progress; a frame whose  *)
(* `at' is "inside" is running a mod's code, which may call the loader.    *)
(* Every thread may publish, subscribe and unsubscribe (LeviRsAbi.h        *)
(* 1822-1824); mods are enabled, disabled and unloaded on thread Main.     *)
(*                                                                         *)
(* Ghost: a publish frame's `owed' (the subscriptions it still has to      *)
(* call) and `last' (the one it called last) serve the properties only.    *)
(***************************************************************************)
EXTENDS Integers, Subsequence

CONSTANTS
  Mods, Topics, Threads,
  Main,      \* the server thread
  None,      \* no mod, or no topic
  MaxSubs,   \* bound: how many subscriptions are ever made
  MaxDepth,  \* kMaxDepth, nested publishes per thread
  MaxStack   \* bound: frames of the server thread, unloads included

VARIABLES
  stage,    \* per mod: "absent", "disabled", "enabled", or "gone" once
            \* busOnRustModGone ran and until the dylib is freed
  subs,     \* gSubs: id -> [mod, topic]
  byTopic,  \* gByTopic: topic -> ids, in the order they were made
  nextSub,  \* gNextSubId
  stack     \* per thread: its frames, top last

vars == <<stage, subs, byTopic, nextSub, stack>>

SubIds == 1..MaxSubs
\* Bound: the callbacks of the server thread nest; those of a worker do not.
FrameCap(t) == IF t = Main THEN MaxStack ELSE 1
NoSub  == [mod |-> None, topic |-> None]

InTable(id) == subs[id].mod # None
SubsOf(m)   == {id \in SubIds : subs[id].mod = m}
Elems(s)    == {s[i] : i \in DOMAIN s}

Depth(t)     == Cardinality({d \in DOMAIN stack[t] : stack[t][d].kind = "publish"})
Top(t)       == stack[t][Len(stack[t])]
Publishing(t, at) == /\ stack[t] # <<>>
                     /\ Top(t).kind = "publish" /\ Top(t).at = at
ModCode(t)   == stack[t] # <<>> => Top(t).at = "inside"   \* a mod's code runs
Inside(t, m) == \E d \in DOMAIN stack[t] :
                  stack[t][d].at = "inside" /\ stack[t][d].callee = m
Push(t, f)   == stack' = [stack EXCEPT ![t] = Append(@, f)]
Pop(t)       == stack' = [stack EXCEPT ![t] = SubSeq(@, 1, Len(@) - 1)]
SetTop(t, f) == stack' = [stack EXCEPT ![t][Len(stack[t])] = f]

\* Ghost: the publishes in progress need not call these subscriptions.
Excused(ids) ==
  [t \in Threads |-> [d \in DOMAIN stack[t] |->
     [stack[t][d] EXCEPT !.owed = @ \ ids]]]

Init ==
  /\ stage = [m \in Mods |-> "enabled"]
  /\ subs = [id \in SubIds |-> NoSub]
  /\ byTopic = [c \in Topics |-> <<>>]
  /\ nextSub = 1
  /\ stack = [t \in Threads |-> <<>>]

-----------------------------------------------------------------------------
\* api_bus_subscribe.  A mod whose unload has passed busOnRustModGone runs no
\* code of its own that subscribes.
Subscribe(t, m, c) ==
  /\ ModCode(t)
  /\ stage[m] \in {"disabled", "enabled"}
  /\ nextSub <= MaxSubs
  /\ subs' = [subs EXCEPT ![nextSub] = [mod |-> m, topic |-> c]]
  /\ byTopic' = [byTopic EXCEPT ![c] = Append(@, nextSub)]
  /\ nextSub' = nextSub + 1
  /\ UNCHANGED <<stage, stack>>

\* Both tables lose the ids in one critical section.
Without(s, ids) == Kept(s, {i \in DOMAIN s : s[i] \notin ids})

Remove(ids) ==
  /\ subs' = [id \in SubIds |-> IF id \in ids THEN NoSub ELSE subs[id]]
  /\ byTopic' = [c \in Topics |-> Without(byTopic[c], ids)]
  /\ stack' = Excused(ids)

\* api_bus_unsubscribe: only the caller's own subscription.
Unsubscribe(t, m, id) ==
  /\ ModCode(t)
  /\ stage[m] # "absent"
  /\ subs[id].mod = m
  /\ Remove({id})
  /\ UNCHANGED <<stage, nextSub>>

-----------------------------------------------------------------------------
\* idsFor: the ids of the topic, without the publisher's own.
IdsFor(c, m) ==
  Kept(byTopic[c], {i \in DOMAIN byTopic[c] : subs[byTopic[c][i]].mod # m})

\* publishImpl up to the loop; past the depth cap the publish is dropped.
Publish(t, m, c) ==
  /\ ModCode(t)
  /\ stage[m] # "absent"
  /\ Depth(t) < MaxDepth /\ Len(stack[t]) < FrameCap(t)
  /\ LET ids == IdsFor(c, m) IN
     Push(t, [kind |-> "publish", mod |-> m, topic |-> c, at |-> "loop",
              todo |-> ids, id |-> 0, callee |-> None, veto |-> FALSE,
              owed |-> {id \in Elems(ids) : stage[subs[id].mod] = "enabled"},
              last |-> 0])
  /\ UNCHANGED <<stage, subs, byTopic, nextSub>>

\* Mutant: an id is taken twice; a gone id is waited for.
LookupKeeps(t) ==
  /\ Publishing(t, "loop") /\ Top(t).todo # <<>>
  /\ LET f == Top(t)  id == Head(f.todo) IN
     SetTop(t, IF InTable(id)
                 THEN [f EXCEPT !.at = "copied", !.id = id, !.callee = subs[id].mod]
                 ELSE [f EXCEPT !.todo = Tail(@)])
  /\ UNCHANGED <<stage, subs, byTopic, nextSub>>

LookupPresent(t) ==
  /\ Publishing(t, "loop") /\ Top(t).todo # <<>>
  /\ LET f == Top(t)  id == Head(f.todo) IN
     /\ InTable(id)
     /\ SetTop(t, [f EXCEPT !.todo = Tail(@), !.at = "copied", !.id = id,
                            !.callee = subs[id].mod])
  /\ UNCHANGED <<stage, subs, byTopic, nextSub>>

\* fireOne, under the lock: the entry is copied out, or skipped when gone.
Lookup(t) ==
  /\ Publishing(t, "loop") /\ Top(t).todo # <<>>
  /\ LET f == Top(t)  id == Head(f.todo) IN
     SetTop(t, IF InTable(id)
                 THEN [f EXCEPT !.todo = Tail(@), !.at = "copied", !.id = id,
                                !.callee = subs[id].mod]
                 ELSE [f EXCEPT !.todo = Tail(@)])
  /\ UNCHANGED <<stage, subs, byTopic, nextSub>>

\* Mutant: the mod is not asked whether it is enabled.
RevalidateMapped(t) ==
  /\ Publishing(t, "copied")
  /\ SetTop(t, [Top(t) EXCEPT !.at = IF stage[Top(t).callee] # "absent"
                                       THEN "checked" ELSE "loop"])
  /\ UNCHANGED <<stage, subs, byTopic, nextSub>>

\* fireOne, after the lock: the mod is re-validated.  shared_from_this on a mod
\* that was freed since the copy reads freed memory: either answer may come out.
Revalidate(t) ==
  /\ Publishing(t, "copied")
  /\ \E at \in {"checked", "loop"} :
       /\ stage[Top(t).callee] # "absent"
            => (at = "checked" <=> stage[Top(t).callee] = "enabled")
       /\ SetTop(t, [Top(t) EXCEPT !.at = at])
  /\ UNCHANGED <<stage, subs, byTopic, nextSub>>

\* fireOne: control crosses into the dylib.
Enter(t) ==
  /\ Publishing(t, "checked")
  /\ SetTop(t, [Top(t) EXCEPT !.at = "inside", !.owed = @ \ {Top(t).id},
                              !.last = Top(t).id])
  /\ UNCHANGED <<stage, subs, byTopic, nextSub>>

\* Mutant: a veto ends the dispatch.
ReturnShortCircuit(t, v) ==
  /\ Publishing(t, "inside")
  /\ SetTop(t, [Top(t) EXCEPT !.at = "loop", !.id = 0, !.callee = None, !.veto = @ \/ v,
                              !.todo = IF v THEN <<>> ELSE @])
  /\ UNCHANGED <<stage, subs, byTopic, nextSub>>

\* The callback returns its veto; the others are still asked.
Return(t, v) ==
  /\ Publishing(t, "inside")
  /\ SetTop(t, [Top(t) EXCEPT !.at = "loop", !.id = 0, !.callee = None, !.veto = @ \/ v])
  /\ UNCHANGED <<stage, subs, byTopic, nextSub>>

Finish(t) ==
  /\ Publishing(t, "loop") /\ Top(t).todo = <<>>
  /\ Pop(t)
  /\ UNCHANGED <<stage, subs, byTopic, nextSub>>

-----------------------------------------------------------------------------
\* ModManager::enable and disable, after their callbacks.
Enable(m) ==
  /\ ModCode(Main)
  /\ stage[m] = "disabled"
  /\ stage' = [stage EXCEPT ![m] = "enabled"]
  /\ UNCHANGED <<subs, byTopic, nextSub, stack>>

Disable(m) ==
  /\ ModCode(Main)
  /\ stage[m] = "enabled"
  /\ stage' = [stage EXCEPT ![m] = "disabled"]
  /\ stack' = Excused(SubsOf(m))
  /\ UNCHANGED <<subs, byTopic, nextSub>>

UnloadFrame(m) ==
  [kind |-> "unload", mod |-> m, topic |-> None, at |-> "inside", todo |-> <<>>,
   id |-> 0, callee |-> None, veto |-> FALSE, owed |-> {}, last |-> 0]

\* RustModManager::unload as far as busOnRustModGone; the code of other mods
\* may run after it (release hooks).  An unload under a callback of the same
\* mod, which would return into unmapped code, is not modelled.
UnloadGone(m) ==
  /\ ModCode(Main) /\ Len(stack[Main]) < MaxStack
  /\ stage[m] = "disabled" /\ ~Inside(Main, m)
  /\ stage' = [stage EXCEPT ![m] = "gone"]
  /\ subs' = [id \in SubIds |-> IF id \in SubsOf(m) THEN NoSub ELSE subs[id]]
  /\ byTopic' = [c \in Topics |-> Without(byTopic[c], SubsOf(m))]
  /\ stack' = [Excused(SubsOf(m)) EXCEPT ![Main] = Append(@, UnloadFrame(m))]
  /\ UNCHANGED nextSub

\* lib.free() and eraseMod.
UnloadFree(m) ==
  /\ stage[m] = "gone"
  /\ Top(Main).kind = "unload" /\ Top(Main).mod = m
  /\ stage' = [stage EXCEPT ![m] = "absent"]
  /\ Pop(Main)
  /\ UNCHANGED <<subs, byTopic, nextSub>>

Load(m) ==
  /\ ModCode(Main)
  /\ stage[m] = "absent"
  /\ stage' = [stage EXCEPT ![m] = "disabled"]
  /\ UNCHANGED <<subs, byTopic, nextSub, stack>>

Next ==
  \/ \E t \in Threads, m \in Mods, c \in Topics : Subscribe(t, m, c) \/ Publish(t, m, c)
  \/ \E t \in Threads, m \in Mods, id \in SubIds : Unsubscribe(t, m, id)
  \/ \E t \in Threads : Lookup(t) \/ Revalidate(t) \/ Enter(t) \/ Finish(t)
  \/ \E t \in Threads, v \in BOOLEAN : Return(t, v)
  \/ \E m \in Mods : Enable(m) \/ Disable(m) \/ UnloadGone(m) \/ UnloadFree(m) \/ Load(m)

Spec == Init /\ [][Next]_vars

\* A dispatch is straight-line code; a callback and an unload return in the end,
\* however often they call back into the loader: whatever is on top at some
\* depth goes on.
Fairness ==
  \A t \in Threads :
    /\ WF_vars(Lookup(t) \/ Revalidate(t) \/ Enter(t) \/ Finish(t))
    /\ \A d \in 1..FrameCap(t) :
         SF_vars(/\ Len(stack[t]) = d
                 /\ \/ \E v \in BOOLEAN : Return(t, v)
                    \/ t = Main /\ \E m \in Mods : UnloadFree(m))

FairSpec == Spec /\ Fairness
-----------------------------------------------------------------------------
Frames == UNION {{stack[t][d] : d \in DOMAIN stack[t]} : t \in Threads}

\* One dispatch calls no subscription twice, and calls them oldest first,
\* whatever the callbacks subscribe, unsubscribe or publish meanwhile.
CalledInOrder ==
  \A f \in Frames : f.at \in {"copied", "checked"} => f.id > f.last

\* No short-circuit (LeviRsAbi.h, bus_publish_vetoable): when a dispatch ends,
\* every subscription it found has been called, except those that were removed
\* or whose mod was disabled since the publish began.
EverySubscriberRuns ==
  \A f \in Frames :
    f.kind = "publish" /\ f.at = "loop" /\ f.todo = <<>> => f.owed = {}

Entering(t) == Publishing(t, "checked") /\ Publishing(t, "inside")'

\* "Never called after the owning mod is unloaded or while it is disabled"
\* (LeviRsAbi.h:337-338).
CalledWhileEnabled ==
  [][\A t \in Threads : Entering(t) => stage[Top(t).callee] = "enabled"]_vars

\* On the server thread it is kept: nothing is disabled or unloaded there between
\* the re-validation and the call, whatever the other threads publish.
MainCallsEnabled ==
  [][Entering(Main) => stage[Top(Main).callee] = "enabled"]_vars

\* Every publish ends: nested ones are cut off at the depth cap.
PublishEnds == \A t \in Threads : stack[t] # <<>> ~> stack[t] = <<>>
=============================================================================
