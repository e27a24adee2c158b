----------------------------- MODULE HookEvents -----------------------------
(***************************************************************************)
(* The bridge-hook events: src/src/bridge/hooks/engine/HookEvents.cpp.     *)
(*                                                                         *)
(* Each event keeps its subscribers in order.  A dispatch snapshots the    *)
(* raw callbacks and calls them one by one; they may subscribe,            *)
(* unsubscribe, unload mods and cause further events.  Everything runs on  *)
(* the server thread: `stack' is its dispatches in progress.               *)
(*                                                                         *)
(* Ghost: a dispatch's `asked' and `replies' serve the properties only.    *)
(***************************************************************************)
EXTENDS Integers, SequencesExt, Subsequence

CONSTANTS
  Mods, Events,
  None,
  MaxSubs,  \* bound: how many subscriptions are ever made
  MaxDepth  \* bound: dispatches inside one another

VARIABLES
  present,    \* the mods whose dylib is mapped
  subs,       \* per event: its subscriptions, oldest first
  installed,  \* the events whose detour is in place
  nextId,     \* nextListenerId
  stack

vars == <<present, subs, installed, nextId, stack>>

Top          == Last(stack)
In(at)       == stack # <<>> /\ Top.at = at
ModCode      == stack # <<>> => Top.at = "inside"
SetTop(f)    == stack' = [stack EXCEPT ![Len(stack)] = f]
Inside(m)    == \E d \in DOMAIN stack : stack[d].at = "inside" /\ stack[d].sub.mod = m
NoSub        == [id |-> 0, mod |-> None]
\* What std::erase_if leaves of every event's list.
Without(gone) == [e \in Events |->
  Kept(subs[e], {i \in DOMAIN subs[e] : subs[e][i] \notin gone})]

Init ==
  /\ present = Mods
  /\ subs = [e \in Events |-> <<>>]
  /\ installed = {}
  /\ nextId = 1
  /\ stack = <<>>

\* hookEventSubscribe, for an event of the table.
Subscribe(m, e) ==
  /\ ModCode /\ m \in present /\ nextId <= MaxSubs
  /\ installed' = installed \union {e}
  /\ subs' = [subs EXCEPT ![e] = Append(@, [id |-> nextId, mod |-> m])]
  /\ nextId' = nextId + 1
  /\ UNCHANGED <<present, stack>>

\* hookEventUnsubscribe: the mod's own subscription only.
Unsubscribe(m, id) ==
  /\ ModCode /\ m \in present
  /\ \E e \in Events : [id |-> id, mod |-> m] \in ToSet(subs[e])
  /\ subs' = Without({[id |-> id, mod |-> m]})
  /\ UNCHANGED <<present, installed, nextId, stack>>

\* hookEventDropMod, in the unload of a mod none of whose callbacks runs.
DropMod(m) ==
  /\ ModCode /\ m \in present /\ ~Inside(m)
  /\ present' = present \ {m}
  /\ subs' = Without([id : 1..MaxSubs, mod : {m}])
  /\ UNCHANGED <<installed, nextId, stack>>

Load(m) ==
  /\ ModCode /\ m \notin present
  /\ present' = present \union {m}
  /\ UNCHANGED <<subs, installed, nextId, stack>>

\* dispatchHookEvent(Cancellable) takes its snapshot; an idle detour goes
\* straight to the origin.
Dispatch(e) ==
  /\ ModCode /\ Len(stack) < MaxDepth
  /\ e \in installed /\ subs[e] # <<>>
  /\ stack' = Append(stack, [event |-> e, at |-> "loop", todo |-> subs[e], sub |-> NoSub,
                             cancelled |-> FALSE, asked |-> subs[e], replies |-> <<>>])
  /\ UNCHANGED <<present, subs, installed, nextId>>

Call ==
  /\ In("loop") /\ Top.todo # <<>>
  /\ SetTop([Top EXCEPT !.at = "inside", !.sub = Head(Top.todo), !.todo = Tail(@)])
  /\ UNCHANGED <<present, subs, installed, nextId>>

\* Mutant: the last reply decides.
ReplyLastWins(cancel) ==
  /\ In("inside")
  /\ SetTop([Top EXCEPT !.at = "loop", !.sub = NoSub, !.cancelled = cancel,
                        !.replies = Append(@, [sub |-> Top.sub, cancel |-> cancel])])
  /\ UNCHANGED <<present, subs, installed, nextId>>

\* A subscriber returns; its reply may hold a cancelled flag.
Reply(cancel) ==
  /\ In("inside")
  /\ SetTop([Top EXCEPT !.at = "loop", !.sub = NoSub, !.cancelled = @ \/ cancel,
                        !.replies = Append(@, [sub |-> Top.sub, cancel |-> cancel])])
  /\ UNCHANGED <<present, subs, installed, nextId>>

Finish ==
  /\ In("loop") /\ Top.todo = <<>>
  /\ stack' = Front(stack)
  /\ UNCHANGED <<present, subs, installed, nextId>>

Next ==
  \/ \E m \in Mods, e \in Events : Subscribe(m, e)
  \/ \E m \in Mods, id \in 1..MaxSubs : Unsubscribe(m, id)
  \/ \E m \in Mods : DropMod(m) \/ Load(m)
  \/ \E e \in Events : Dispatch(e)
  \/ \E cancel \in BOOLEAN : Reply(cancel)
  \/ Call \/ Finish

Spec == Init /\ [][Next]_vars
-----------------------------------------------------------------------------
\* HookEvents.h 71-91: a dispatch that ends has called exactly the subscribers
\* it began with, in order, whatever they subscribed, unsubscribed or vetoed
\* meanwhile; and it is cancelled exactly if one of them asked for it.
EveryoneAsked ==
  \A d \in DOMAIN stack : LET f == stack[d] IN
    f.at = "loop" /\ f.todo = <<>> =>
      /\ Len(f.replies) = Len(f.asked)
      /\ \A i \in DOMAIN f.asked : f.replies[i].sub = f.asked[i]
      /\ f.cancelled <=> \E i \in DOMAIN f.replies : f.replies[i].cancel
=============================================================================
