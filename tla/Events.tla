------------------------------- MODULE Events -------------------------------
(***************************************************************************)
(* Engine events for mods: bridge/runtime/Events.cpp.  A listener is shown *)
(* a copy of the event's data with what the bridge knows of the player     *)
(* added, and may write back an edited copy as often as it likes while it  *)
(* runs; only the fields in which the edit differs from what the listener  *)
(* was shown reach the event.  The events of commands carry one answer     *)
(* alone, whether the command is refused.                                  *)
(***************************************************************************)
EXTENDS Naturals, Sequences, SequencesExt, FiniteSets

CONSTANTS
  Mods, None,
  Names,         \* the event names of the registry
  Spellings,     \* what mods ask for
  Matches,       \* per spelling: the names it equals or ends
  CommandNames,  \* the names of the command events
  Executed,      \* those told once the command has run
  Own,           \* the fields events have themselves
  Player, Dim,   \* the fields the bridge adds
  Values, Absent,
  MaxListeners,  \* subscriptions ever made
  MaxWrites      \* write-backs of one callback

VARIABLES
  listeners,  \* in the order the engine calls them: [id, mod, event, priority]
  nextId,     \* ids are never used again
  event,      \* the dispatch in progress, [name, player, before, data, refused]
  due,        \* the ids it still has to call; the first one runs
  shown,      \* what the running listener was shown, or None
  writes,     \* write-backs it made
  asked       \* history: the fields listeners asked to change, and their values

vars == <<listeners, nextId, event, due, shown, writes, asked>>
dispatchVars == <<event, due, shown, writes, asked>>

Fields == Own \cup {Player, Dim}
Data == [Fields -> Values \cup {Absent}]

Init ==
  /\ listeners = <<>> /\ nextId = 1
  /\ event = None /\ due = <<>> /\ shown = None /\ writes = 0
  /\ asked = [f \in {} |-> Absent]

-----------------------------------------------------------------------------
(* Subscriptions.                                                          *)

\* resolveEventId: the exact name, or the one name the spelling ends; several
\* mods that register the same name count once.
Resolve(w) ==
  LET hits == Matches[w] IN
  IF w \in Names THEN w
  ELSE IF Cardinality(hits) = 1 THEN CHOOSE n \in hits : TRUE ELSE None

\* Listeners are called by priority, and in the order they came.
Enlist(l) ==
  LET ahead == {i \in DOMAIN listeners : listeners[i].priority <= l.priority} IN
  InsertAt(listeners, Cardinality(ahead) + 1, l)

Subscribe(m, w, priority) ==
  /\ Resolve(w) # None /\ nextId <= MaxListeners
  /\ listeners' = Enlist([id |-> nextId, mod |-> m, event |-> Resolve(w),
                          priority |-> priority])
  /\ nextId' = nextId + 1
  /\ UNCHANGED dispatchVars

\* A handle is an id: one that was given up matches no later subscription.
Unsubscribe(m, id) ==
  /\ \E i \in DOMAIN listeners : listeners[i].id = id /\ listeners[i].mod = m
  /\ listeners' = SelectSeq(listeners, LAMBDA l : l.id # id)
  /\ UNCHANGED <<nextId, dispatchVars>>

ModGone(m) ==
  /\ \E i \in DOMAIN listeners : listeners[i].mod = m
  /\ listeners' = SelectSeq(listeners, LAMBDA l : l.mod # m)
  /\ UNCHANGED <<nextId, dispatchVars>>

-----------------------------------------------------------------------------
(* A dispatch.                                                             *)

\* The engine has an event: the data, and whether a player who is on the
\* server is in it.
Dispatch(n, player, data) ==
  /\ event = None
  /\ event' = [name |-> n, player |-> player, before |-> data, data |-> data,
               refused |-> FALSE]
  /\ due' = LET of == SelectSeq(listeners, LAMBDA l : l.event = n) IN
            [i \in DOMAIN of |-> of[i].id]
  /\ asked' = [f \in {} |-> Absent]
  /\ UNCHANGED <<listeners, nextId, shown, writes>>

\* enrichEventData: who the player is, and the player's dimension where the
\* event has none of its own.
Enrich(data) ==
  [f \in Fields |->
    IF event.player /\ (f = Player \/ (f = Dim /\ data[Dim] = Absent))
      THEN CHOOSE v \in Values : TRUE ELSE data[f]]

\* The engine calls the next listener that is still there.  A command event is
\* not shown unless a player gave the command.
Enter ==
  /\ event # None /\ due # <<>> /\ shown = None
  /\ \E i \in DOMAIN listeners : listeners[i].id = Head(due)
  /\ event.name \in CommandNames => event.player
  /\ shown' = Enrich(event.data)
  /\ UNCHANGED <<listeners, nextId, event, due, writes, asked>>

Pass ==
  /\ event # None /\ due # <<>> /\ shown = None
  /\ \/ \A i \in DOMAIN listeners : listeners[i].id # Head(due)
     \/ event.name \in CommandNames /\ ~event.player
  /\ due' = Tail(due)
  /\ UNCHANGED <<listeners, nextId, event, shown, writes, asked>>

\* The fields of an edit that differ from what the listener was shown: set,
\* added, or left out.
Changed(edit) == {f \in Fields : edit[f] # shown[f]}

\* Mutant: the whole edited copy replaces the data.
MergedWhole(edit) == edit

Merged(edit) ==
  [f \in Fields |-> IF f \in Changed(edit) THEN edit[f] ELSE event.data[f]]

WriteBack(edit) ==
  /\ shown # None /\ event.name \notin CommandNames /\ writes < MaxWrites
  /\ event' = [event EXCEPT !.data = Merged(edit)]
  /\ asked' = [f \in DOMAIN asked \cup Changed(edit) |->
                 IF f \in Changed(edit) THEN edit[f] ELSE asked[f]]
  /\ writes' = writes + 1
  /\ UNCHANGED <<listeners, nextId, due, shown>>

\* Of what is written back to a command event only the refusal counts, and
\* none once the command has run.
Refuse ==
  /\ shown # None /\ event.name \in CommandNames /\ writes < MaxWrites
  /\ event' = [event EXCEPT !.refused = @ \/ event.name \notin Executed]
  /\ writes' = writes + 1
  /\ UNCHANGED <<listeners, nextId, due, shown, asked>>

Leave ==
  /\ shown # None
  /\ shown' = None /\ writes' = 0 /\ due' = Tail(due)
  /\ UNCHANGED <<listeners, nextId, event, asked>>

Finish ==
  /\ event # None /\ due = <<>>
  /\ event' = None
  /\ asked' = [f \in {} |-> Absent]
  /\ UNCHANGED <<listeners, nextId, due, shown, writes>>

Next ==
  \/ \E m \in Mods :
       \/ ModGone(m)
       \/ \E w \in Spellings, p \in 0..1 : Subscribe(m, w, p)
       \/ \E id \in 1..MaxListeners : Unsubscribe(m, id)
  \/ \E n \in Names, player \in BOOLEAN, own \in [Own -> Values \cup {Absent}] :
       Dispatch(n, player, [f \in Fields |-> IF f \in Own THEN own[f] ELSE Absent])
  \/ Enter \/ Pass \/ Refuse \/ Leave \/ Finish
  \/ \E edit \in Data : WriteBack(edit)

Spec == Init /\ [][Next]_vars

-----------------------------------------------------------------------------

\* Every field of an event has the value the last listener that changed it, of
\* what it was shown, asked for, and the value of the engine where no listener
\* did: edits of several listeners to several fields all arrive, and what the
\* bridge added for the listeners' eyes does not.  A command nobody sees, of the
\* console, is never refused, nor one that has run.
EditsArrive ==
  event # None =>
    /\ \A f \in Fields : event.data[f] =
         IF f \in DOMAIN asked THEN asked[f] ELSE event.before[f]
    /\ event.refused => event.player /\ event.name \notin Executed
=============================================================================
