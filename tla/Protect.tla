------------------------------ MODULE Protect -------------------------------
(***************************************************************************)
(* The detours on what players do: bridge/hooks/player, protect and world. *)
(* One act of the engine runs through one or several detoured functions,   *)
(* each inside the one before; a detour asks the subscribers of its event  *)
(* and, when they refuse, returns without going on to the original.  A     *)
(* subscriber may cause acts itself while it is asked.  Two events have a  *)
(* flag against asking about those.                                        *)
(***************************************************************************)
EXTENDS Naturals, Sequences, FiniteSets

CONSTANTS
  Path,       \* per act: the functions it runs through (Detours.tla)
  Detours,    \* per detour: its event and the acts it lets pass
  MaxNested,  \* acts inside each other
  MaxLive     \* events watched

Acts == DOMAIN Path
Event(h) == Detours[h].event
Watched == {Event(h) : h \in DOMAIN Detours}
DetoursOf(e) == {h \in DOMAIN Detours : Event(h) = e}
Flagged == {"Projectile", "GameMode"}                      \* with gDispatching
ObserveOnly == {"StartDestroy", "ChangeDimension", "Hopper"}

VARIABLES
  live,         \* the events somebody subscribed to
  installed,    \* the detours that are in place
  dispatching,  \* the flagged events whose flag is set
  acts,         \* the acts in progress, the innermost last:
                \*   [act, path, asking, asked, refused, done, due]
  ended         \* the act that ended with the last step, or NoAct

vars == <<live, installed, dispatching, acts, ended>>
hookVars == <<live, installed>>

NoAct == [act |-> "none"]
Top == acts[Len(acts)]
SetTop(a) == acts' = [acts EXCEPT ![Len(acts)] = a]

\* A detour asks about an act when it is in place, its event is live, its flag is
\* not set, and the act is of the kind it is for.
Asks(h, a) ==
  /\ h \in installed /\ Event(h) \in live \ dispatching
  /\ a \notin Detours[h].passes

Init ==
  /\ live = {} /\ installed = {} /\ dispatching = {} /\ acts = <<>> /\ ended = NoAct

\* The engine, or a subscriber that is being asked, starts an act; due is
\* history: somebody is to be asked about it.
Begin(a) ==
  /\ Len(acts) < MaxNested
  /\ acts # <<>> => Top.asking
  /\ acts' = Append(acts, [act |-> a, path |-> Path[a], asking |-> FALSE, asked |-> 0,
                           refused |-> FALSE, done |-> FALSE,
                           due |-> \E i \in DOMAIN Path[a] :
                                     Path[a][i] # "effect" /\ Asks(Path[a][i], a)])
  /\ ended' = NoAct
  /\ UNCHANGED <<hookVars, dispatching>>

At == Head(Top.path)
Running == acts # <<>> /\ ~Top.asking /\ Top.path # <<>>

Ask ==
  /\ Running /\ At # "effect" /\ Asks(At, Top.act)
  /\ SetTop([Top EXCEPT !.asking = TRUE, !.asked = @ + 1])
  /\ dispatching' = dispatching \cup ({Event(At)} \intersect Flagged)
  /\ ended' = NoAct /\ UNCHANGED hookVars

Pass ==
  /\ Running /\ At # "effect" /\ ~Asks(At, Top.act)
  /\ SetTop([Top EXCEPT !.path = Tail(@)])
  /\ ended' = NoAct /\ UNCHANGED <<hookVars, dispatching>>

\* Mutant: the flag is cleared where the original is called.
AnswerKeepsFlag(refuse) ==
  /\ acts # <<>> /\ Top.asking
  /\ LET no == refuse /\ Event(At) \notin ObserveOnly IN
     /\ SetTop([Top EXCEPT !.asking = FALSE, !.refused = no,
                           !.path = IF no THEN <<>> ELSE Tail(@)])
     /\ dispatching' = IF no THEN dispatching ELSE dispatching \ {Event(At)}
  /\ ended' = NoAct /\ UNCHANGED hookVars

\* The answer: the flag is cleared on every way out; a refusal skips the
\* original and all that is inside it, unless the event only tells.
Answer(refuse) ==
  /\ acts # <<>> /\ Top.asking
  /\ LET no == refuse /\ Event(At) \notin ObserveOnly IN
     SetTop([Top EXCEPT !.asking = FALSE, !.refused = no,
                        !.path = IF no THEN <<>> ELSE Tail(@)])
  /\ dispatching' = dispatching \ {Event(At)}
  /\ ended' = NoAct /\ UNCHANGED hookVars

Effect ==
  /\ Running /\ At = "effect"
  /\ SetTop([Top EXCEPT !.path = Tail(@), !.done = TRUE])
  /\ ended' = NoAct /\ UNCHANGED <<hookVars, dispatching>>

End ==
  /\ acts # <<>> /\ ~Top.asking /\ Top.path = <<>>
  /\ ended' = Top /\ acts' = SubSeq(acts, 1, Len(acts) - 1)
  /\ UNCHANGED <<hookVars, dispatching>>

\* A mod subscribes for the first time, between acts: the detours of the event are
\* put in place, each of which may fail; that is logged, and the others stay.
Subscribe(e, broken) ==
  /\ acts = <<>> /\ e \notin live /\ Cardinality(live) < MaxLive
  /\ live' = live \cup {e}
  /\ installed' = installed \cup (DetoursOf(e) \ broken)
  /\ ended' = NoAct
  /\ UNCHANGED <<dispatching, acts>>

Next ==
  \/ \E a \in Acts : Begin(a)
  \/ \E e \in Watched :
       \E broken \in {{}} \cup {{h} : h \in DetoursOf(e)} : Subscribe(e, broken)
  \/ Ask \/ Pass \/ Effect \/ End
  \/ \E refuse \in BOOLEAN : Answer(refuse)

Spec == Init /\ [][Next]_vars

-----------------------------------------------------------------------------

\* An act whose event somebody watches is asked about before it has an effect, if
\* only one of the detours it passes is in place; a refused one has none and is
\* not asked about again; the flags exempt only what a subscriber of the same
\* event does while it is asked, never a later act.  A trident in flight is asked
\* about once, although two detours see it.
NothingUnasked ==
  /\ ended # NoAct =>
       /\ ended.done # ended.refused
       /\ ended.due <=> ended.asked > 0
       /\ ended.act = "trident" => ended.asked <= 1
  /\ acts = <<>> => dispatching = {}
=============================================================================
