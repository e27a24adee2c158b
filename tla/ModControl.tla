----------------------------- MODULE ModControl -----------------------------
(***************************************************************************)
(* `/llr load | unload | reload': src/src/core/ModControl.cpp.             *)
(*                                                                         *)
(* A command works on manifests read from the disk and on the mods loaded, *)
(* and brings mods up and down one by one with controlLoad and             *)
(* controlUnload, whose own steps are in ModLifecycle.tla; here each may   *)
(* succeed or fail.  While a mod comes up or goes down its code runs, and  *)
(* may execute a `/llr' command of its own: `stack' holds the commands in  *)
(* progress.                                                               *)
(***************************************************************************)
EXTENDS Dependents

CONSTANTS
  RustMods, CppMods,  \* disjoint sets of numbers
  Disks,              \* bound: the manifests to start from
  Edits,              \* bound: the manifests an edit may write
  EditLoaded,         \* may the manifest of a loaded mod be edited
  MaxEdits,           \* bound: how many edits
  MaxStack            \* bound: commands in progress

Names == RustMods \union CppMods
Manifest == [deps: Seq(Names), safe: BOOLEAN]

ASSUME ModControlAssumption ==
  /\ Names \subseteq Nat /\ IsFiniteSet(Names) /\ RustMods \intersect CppMods = {}
  /\ Disks \subseteq [Names -> Manifest] /\ Edits \subseteq Manifest
  /\ EditLoaded \in BOOLEAN /\ MaxEdits \in Nat /\ MaxStack \in Nat

VARIABLES
  disk,    \* per mod: what manifest.json says, `problem' manifests left out
  loaded,  \* the mods loaded, by this manager or another
  deps,    \* per loaded mod: the dependencies of its Manifest object
  stash,   \* the names gLastUnloadBase has an address for
  stack,   \* the commands in progress
  edits

vars == <<disk, loaded, deps, stash, stack, edits>>

Top      == stack[Len(stack)]
Doing(p) == stack # <<>> /\ Top.todo # <<>> /\ Top.at = p
Pop      == stack' = SubSeq(stack, 1, Len(stack) - 1)
SetTop(f) == stack' = [stack EXCEPT ![Len(stack)] = f]

\* A command: `todo' is what is left of this pass, `down' what was unloaded.
Command(cmd, at, todo) ==
  [cmd |-> cmd, at |-> at, todo |-> todo, down |-> <<>>, entered |-> FALSE,
   before |-> loaded]

\* The console, or the code of a mod that is coming up or going down.  What
\* becomes of a command about a mod in hand is in ModLifecycle.tla.
MayType == /\ Len(stack) < MaxStack
           /\ stack # <<>> => Top.entered
InHand  == {Head(stack[d].todo) : d \in DOMAIN stack}

LoadedDeps == [m \in loaded |-> deps[m]]
Present(m) == ToSet(disk[m].deps) \subseteq loaded

\* Of any of these mods there is one that no other of them lists: no cycle.
Acyclic(S) ==
  \A T \in SUBSET S : T # {} => \E m \in T : \A n \in T : m \notin ToSet(disk[n].deps)

\* LeviLamina's start-up loads what it can, dependencies first: nothing of a cycle.
Init ==
  /\ disk \in Disks
  /\ loaded \in {S \in SUBSET Names : /\ \A m \in S : ToSet(disk[m].deps) \subseteq S
                                       /\ Acyclic(S)}
  /\ deps = [m \in Names |-> disk[m].deps]
  /\ stash = {} /\ stack = <<>> /\ edits = 0

EditManifest(m, mf) ==
  /\ edits < MaxEdits
  /\ stack = <<>>
  /\ m \in loaded => EditLoaded
  /\ disk' = [disk EXCEPT ![m] = mf]
  /\ edits' = edits + 1
  /\ UNCHANGED <<loaded, deps, stash, stack>>

-----------------------------------------------------------------------------
\* cmdLoad refuses a mod that is loaded or misses a dependency.
CmdLoad(m) ==
  /\ MayType
  /\ m \notin loaded /\ m \notin InHand
  /\ Present(m)
  /\ stack' = Append(stack, Command("load", "up", <<m>>))
  /\ UNCHANGED <<disk, loaded, deps, stash, edits>>

\* doUnload's checks: with dependents only a cascade goes on, and only when
\* they are all rust mods.  The possible orders, none when it refuses.
DownOrder(m, cascade) ==
  {Append(o, m) : o \in {q \in DependentsOf(LoadedDeps, m) :
      q # <<>> => cascade /\ ToSet(q) \subseteq RustMods}}

CmdUnload(m, cascade) ==
  /\ MayType
  /\ m \in loaded
  /\ \E o \in DownOrder(m, cascade) :
       /\ ToSet(o) \intersect InHand = {}
       /\ stack' = Append(stack, Command("unload", "down", o))
  /\ UNCHANGED <<disk, loaded, deps, stash, edits>>

\* Mutant: the gate looks at the target only.
GateTarget(o) == disk[Last(o)].safe

\* cmdReload's gate: the target and, in a cascade, every dependent are marked
\* reload_safe on the disk.
Gate(o) == \A m \in ToSet(o) : disk[m].safe

CmdReload(m, cascade) ==
  /\ MayType
  /\ m \in loaded
  /\ \E o \in DownOrder(m, cascade) :
       /\ ToSet(o) \intersect InHand = {}
       /\ Gate(o)
       /\ stack' = Append(stack, Command("reload", "down", o))
  /\ UNCHANGED <<disk, loaded, deps, stash, edits>>

-----------------------------------------------------------------------------
\* doUnload's loop: the next mod, unless it is no longer there.
BeginDown ==
  /\ Doing("down") /\ ~ Top.entered
  /\ LET m == Head(Top.todo) IN
     IF m \in loaded
     THEN /\ stash' = stash \union {m}
          /\ SetTop([Top EXCEPT !.entered = TRUE])
     ELSE /\ SetTop([Top EXCEPT !.todo = Tail(@)])
          /\ UNCHANGED stash
  /\ UNCHANGED <<disk, loaded, deps, edits>>

\* Mutant: only the target is remembered.
EndDownForgets ==
  /\ Doing("down") /\ Top.entered
  /\ loaded' = loaded \ {Head(Top.todo)}
  /\ SetTop([Top EXCEPT !.entered = FALSE, !.todo = Tail(@),
                        !.down = <<Head(Top.todo)>>])
  /\ UNCHANGED <<disk, deps, stash, edits>>

\* controlUnload succeeded.
EndDown ==
  /\ Doing("down") /\ Top.entered
  /\ loaded' = loaded \ {Head(Top.todo)}
  /\ SetTop([Top EXCEPT !.entered = FALSE, !.todo = Tail(@),
                        !.down = Append(@, Head(Top.todo))])
  /\ UNCHANGED <<disk, deps, stash, edits>>

\* Mutant: a failure does not stop the cascade.
FailDownGoesOn ==
  /\ Doing("down") /\ Top.entered
  /\ SetTop([Top EXCEPT !.entered = FALSE, !.todo = Tail(@)])
  /\ UNCHANGED <<disk, loaded, deps, stash, edits>>

\* controlUnload failed: what went down already stays down.
FailDown ==
  /\ Doing("down") /\ Top.entered
  /\ Pop
  /\ UNCHANGED <<disk, loaded, deps, stash, edits>>

\* The end of doUnload: unload is done, reload turns around.
Turn ==
  /\ stack # <<>> /\ Top.todo = <<>> /\ Top.at = "down"
  /\ IF Top.cmd = "reload"
     THEN SetTop([Top EXCEPT !.at = "up", !.todo = Reverse(Top.down)])
     ELSE Pop
  /\ UNCHANGED <<disk, loaded, deps, stash, edits>>

\* controlLoad: the manifest is read again and levi_rs_main runs.
BeginUp ==
  /\ Doing("up") /\ ~ Top.entered
  /\ Head(Top.todo) \notin loaded
  /\ deps' = [deps EXCEPT ![Head(Top.todo)] = disk[Head(Top.todo)].deps]
  /\ SetTop([Top EXCEPT !.entered = TRUE])
  /\ UNCHANGED <<disk, loaded, stash, edits>>

\* addMod: the mod is in the table before it is enabled.
MainUp ==
  /\ Doing("up") /\ Top.entered
  /\ loaded' = loaded \union {Head(Top.todo)}
  /\ SetTop([Top EXCEPT !.at = "enable"])
  /\ UNCHANGED <<disk, deps, stash, edits>>

EndUp ==
  /\ Doing("enable")
  /\ stash' = stash \ {Head(Top.todo)}
  /\ SetTop([Top EXCEPT !.at = "up", !.entered = FALSE, !.todo = Tail(@)])
  /\ UNCHANGED <<disk, loaded, deps, edits>>

\* controlLoad failed, before addMod or after it; the rollback of the latter may
\* be refused.  A reload gives up on the rest.
FailUp ==
  /\ \/ Doing("up") /\ (Top.entered \/ Head(Top.todo) \in loaded)
        /\ UNCHANGED loaded
     \/ Doing("enable") /\ loaded' \in {loaded, loaded \ {Head(Top.todo)}}
  /\ Pop
  /\ UNCHANGED <<disk, deps, stash, edits>>

Finish ==
  /\ stack # <<>> /\ Top.todo = <<>> /\ Top.at = "up"
  /\ Pop
  /\ UNCHANGED <<disk, loaded, deps, stash, edits>>

Next ==
  \/ \E m \in RustMods :
       \/ CmdLoad(m)
       \/ \E cascade \in BOOLEAN : CmdUnload(m, cascade) \/ CmdReload(m, cascade)
       \/ \E mf \in Edits : EditManifest(m, mf)
  \/ BeginDown \/ EndDown \/ FailDown \/ Turn
  \/ BeginUp \/ MainUp \/ EndUp \/ FailUp \/ Finish

Spec == Init /\ [][Next]_vars

-----------------------------------------------------------------------------
\* At every moment, whatever failed, what a loaded mod depends on is loaded: no
\* mod is left with pointers into a library that was freed (ModControl.cpp
\* 592-594), nor comes up before what it needs (519-521).
DependenciesLoaded ==
  \A m \in loaded : ToSet(deps[m]) \subseteq loaded

\* Only mods that declare reload_safe go through a reload, the dependents that
\* a cascade takes along included.
OnlySafeReloaded ==
  \A d \in DOMAIN stack :
    stack[d].cmd = "reload" => \A m \in ToSet(stack[d].down) : disk[m].safe

\* A reload that reports success leaves loaded exactly what was loaded before.
ReloadRestores ==
  [][/\ Len(stack) = 1 /\ stack' = <<>>
     /\ stack[1].cmd = "reload" /\ stack[1].at = "up" /\ stack[1].todo = <<>>
     => loaded' = stack[1].before]_vars
=============================================================================
