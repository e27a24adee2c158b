------------------------------ MODULE Commands ------------------------------
(***************************************************************************)
(* The commands of mods: bridge/runtime/Commands.cpp.  The game can not    *)
(* unregister a command, so the closures it holds belong to the loader and *)
(* look up, when they run, a binding shared with the table gCommands; the  *)
(* binding of a mod that goes is nulled, and claimed again by its next     *)
(* load.  A registration can throw after some overloads are in the game.   *)
(***************************************************************************)
EXTENDS Naturals, Sequences, SequencesExt

CONSTANTS
  Mods, Names, None,
  Declarations,  \* the overload lists mods declare: sequences of parameter lists
  Unknown,       \* a parameter kind kindFromString does not know
  Breaks,        \* how many overloads a throwing registration has installed
  MaxGen,        \* loads of a mod
  MaxBindings    \* CommandBindings ever made

VARIABLES
  stage,      \* per mod: "absent", "disabled" or "enabled"
  gen,        \* per mod: its loads so far, which tell its code apart
  muted,      \* per mod: commandsMuted
  bindings,   \* every CommandBinding made, [mod, gen], in order of creation
  gCommands,  \* per name: the index of its binding in the table, 0 for none
  closures,   \* per name: the overloads in the game, [binding, params]
  holder,     \* history, per name: the mod last told that the name is its own
  entered     \* what the last step called: [name, mod, gen, args], None if nothing

vars == <<stage, gen, muted, bindings, gCommands, closures, holder, entered>>
modVars == <<stage, gen, muted>>
tableVars == <<bindings, gCommands, closures, holder>>

RawText == [kind |-> "raw_text", optional |-> TRUE]
Vacant == [mod |-> None, gen |-> 0]

Init ==
  /\ stage = [m \in Mods |-> "absent"]
  /\ gen = [m \in Mods |-> 0]
  /\ muted = [m \in Mods |-> FALSE]
  /\ bindings = <<>>
  /\ gCommands = [n \in Names |-> 0]
  /\ closures = [n \in Names |-> <<>>]
  /\ holder = [n \in Names |-> None]
  /\ entered = None

-----------------------------------------------------------------------------
(* Registration.                                                           *)

\* claimBinding gives the name to m: to a new binding, or to the old one when
\* its mod is gone or is m itself.
MayClaim(n, m) ==
  \/ gCommands[n] = 0 /\ Len(bindings) < MaxBindings
  \/ gCommands[n] # 0 /\ bindings[gCommands[n]].mod \in {None, m}

\* The name was registered before: the closures in the game stay as they are.
Rebind(m, n) ==
  /\ gCommands[n] # 0
  /\ bindings' = [bindings EXCEPT ![gCommands[n]] = [mod |-> m, gen |-> gen[m]]]
  /\ holder' = [holder EXCEPT ![n] = m]
  /\ UNCHANGED <<gCommands, closures>>

\* The first registration of the name installs its overloads; done of them are
\* in the game when one throws, and the name is erased from the table again.
Install(m, n, overloads, done) ==
  LET b == Len(bindings) + 1
      whole == done = Len(overloads)
  IN
  /\ gCommands[n] = 0
  /\ bindings' = Append(bindings, [mod |-> m, gen |-> gen[m]])
  /\ closures' = [closures EXCEPT ![n] = @ \o
                    [i \in 1..done |-> [binding |-> b, params |-> overloads[i]]]]
  /\ gCommands' = [gCommands EXCEPT ![n] = IF whole THEN b ELSE 0]
  /\ holder' = [holder EXCEPT ![n] = IF whole THEN m ELSE @]

Register(m, n, overloads) ==
  /\ stage[m] # "absent" /\ MayClaim(n, m)
  /\ \/ Rebind(m, n)
     \/ \E done \in (Breaks \intersect 0..Len(overloads)) \cup {Len(overloads)} :
          Install(m, n, overloads, done)
  /\ entered' = None /\ UNCHANGED modVars

RegisterCommand(m, n) == Register(m, n, << <<RawText>> >>)

\* A declaration with an unknown kind, or with no overload, is refused before
\* anything is claimed.
RegisterCommandEx(m, n, decls) ==
  /\ decls # <<>>
  /\ \A i \in DOMAIN decls : \A j \in DOMAIN decls[i] : decls[i][j].kind # Unknown
  /\ Register(m, n, decls)

-----------------------------------------------------------------------------
(* A player or the console runs a command.                                 *)

\* appendParsedParam: an optional parameter that was not given is left out, and
\* so is what the game could not turn into a value: a message or item that does
\* not resolve, a kind nobody serialises.
Serialised(params, given) ==
  SelectSeq([i \in DOMAIN params |-> i], LAMBDA i : i \in given)

Required(params) == {i \in DOMAIN params : ~params[i].optional}

\* The closure copies its binding, answers with an error when it is vacant or
\* its mod is muted, and otherwise calls into the mod.
Execute(n, i, given) ==
  LET c == closures[n][i]
      b == bindings[c.binding]
  IN
  /\ b.mod # None /\ ~muted[b.mod]
  /\ entered' = [name |-> n, mod |-> b.mod, gen |-> b.gen,
                 args |-> [overload |-> i, given |-> Serialised(c.params, given)]]
  /\ UNCHANGED <<modVars, tableVars>>

-----------------------------------------------------------------------------
(* The life of the mod.                                                    *)

Load(m) ==
  /\ stage[m] = "absent" /\ gen[m] < MaxGen
  /\ stage' = [stage EXCEPT ![m] = "disabled"]
  /\ gen' = [gen EXCEPT ![m] = @ + 1]
  /\ muted' = [muted EXCEPT ![m] = FALSE]
  /\ entered' = None /\ UNCHANGED tableVars

\* on_enable may fail; the commands answer all the same.
Enable(m) ==
  /\ stage[m] = "disabled"
  /\ muted' = [muted EXCEPT ![m] = FALSE]
  /\ stage' \in {stage, [stage EXCEPT ![m] = "enabled"]}
  /\ entered' = None /\ UNCHANGED <<gen, tableVars>>

Disable(m) ==
  /\ stage[m] = "enabled"
  /\ muted' = [muted EXCEPT ![m] = TRUE]
  /\ stage' \in {stage, [stage EXCEPT ![m] = "disabled"]}
  /\ entered' = None /\ UNCHANGED <<gen, tableVars>>

\* Mutant: the table is taken to be keyed by mod: one binding of it is nulled.
ModGoneFirst(m) ==
  bindings' = LET own == {b \in DOMAIN bindings : bindings[b].mod = m} IN
    [b \in DOMAIN bindings |->
      IF b \in own /\ \A c \in own : b <= c THEN Vacant ELSE bindings[b]]

\* commandsOnRustModGone walks the table: the bindings of m are nulled.
ModGone(m) ==
  bindings' = [b \in DOMAIN bindings |->
    IF bindings[b].mod = m /\ \E n \in Names : gCommands[n] = b
      THEN Vacant ELSE bindings[b]]

Unload(m) ==
  /\ stage[m] = "disabled"
  /\ stage' = [stage EXCEPT ![m] = "absent"]
  /\ muted' = [muted EXCEPT ![m] = TRUE]
  /\ ModGone(m)
  /\ holder' = [n \in Names |-> IF holder[n] = m THEN None ELSE holder[n]]
  /\ entered' = None /\ UNCHANGED <<gen, gCommands, closures>>

Next ==
  \/ \E m \in Mods : Load(m) \/ Enable(m) \/ Disable(m) \/ Unload(m)
  \/ \E m \in Mods, n \in Names :
       \/ RegisterCommand(m, n)
       \/ \E d \in Declarations : RegisterCommandEx(m, n, d)
  \/ \E n \in Names : \E i \in DOMAIN closures[n] :
       \E opt \in SUBSET DOMAIN closures[n][i].params :
         Execute(n, i, opt \cup Required(closures[n][i].params))

Spec == Init /\ [][Next]_vars

-----------------------------------------------------------------------------

\* A command calls the mod last told that the name is its own, in the load that
\* is running: never a mod that is gone, and never one that was refused the name.
CallsItsHolder ==
  entered # None =>
    /\ entered.mod = holder[entered.name]
    /\ entered.gen = gen[entered.mod] /\ stage[entered.mod] # "absent"

\* "A binding whose mod unloads is nulled" (Commands.cpp:4-6): no command in the
\* game can reach a mod that is gone.
GoneIsNulled ==
  \A n \in Names : \A i \in DOMAIN closures[n] :
    LET b == bindings[closures[n][i].binding] IN
    b = Vacant \/ (stage[b.mod] # "absent" /\ b.gen = gen[b.mod])
=============================================================================
