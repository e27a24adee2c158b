------------------------------- MODULE MCMods -------------------------------
(***************************************************************************)
(* Mods and what they have at the loader, for TLC: the commands of the     *)
(* console, dependentsOf on maps of its own, the life of two mods, and     *)
(* their commands, listeners, stores, money callbacks, hot keys and        *)
(* subscriptions to the bus.  One of them moves while the others rest in   *)
(* one initial state.                                                      *)
(***************************************************************************)
EXTENDS MCModControl, MCDependents, TLC

CONSTANTS
  Mods, None,
  Used, HookUses, DirtyFail, MaxObj, MaxOps,
  CommandWords, Unknown, Breaks, MaxGen, MaxBindings,
  EventNames, Spellings, CommandEvents, Executed, Own, Player, Dim, Health,
  Absent, MaxListeners, MaxWrites,
  Threads, Paths, Values, MaxOpen, MaxStart,
  KeyNames, Addresses, MaxHandlers,
  Topics, Main, MaxSubs, Nested

VARIABLES
  part,  \* which of them moves
  object, made, images, pinned, runtime, slot, held, enabled, lifeMuted, regs,
  late, ops,
  stage, gen, muted, bindings, gCommands, closures, holder, entered,
  listeners, nextId, event, due, shown, writes, asked,
  openers, opening, table, nextKv, files, locker, reading, atCall, starts,
  backend, symbol, owners, moneySlot, hooked, trampolines, heard,
  binders, handlers, alive, entries, ownerOf, press, pressDue, pressHeard,
  busStage, subs, byTopic, nextSub, busStack

lifeVars ==
  <<object, made, images, pinned, runtime, slot, held, enabled, lifeMuted, regs, late,
    ops>>
commandVars == <<stage, gen, muted, bindings, gCommands, closures, holder, entered>>
eventVars == <<listeners, nextId, event, due, shown, writes, asked>>
storeVars == <<openers, opening, table, nextKv, files, locker, reading, atCall, starts>>
moneyVars == <<backend, symbol, owners, moneySlot, hooked, trampolines, heard>>
keyVars == <<binders, handlers, alive, entries, ownerOf, press, pressDue, pressHeard>>
busVars == <<busStage, subs, byTopic, nextSub, busStack>>

Life == INSTANCE ModLifecycle WITH MaxStack <- MaxOps, muted <- lifeMuted, stack <- ops

\* A declaration of an unknown kind, and one with two overloads.
Param(kind, optional) == [kind |-> kind, optional |-> optional]
SomeDeclarations ==
  {<<>>, << <<Param(Unknown, FALSE)>> >>,
   << <<Param("int", FALSE)>>, <<Param("int", FALSE), Param("actor", TRUE)>> >>}

ModCommand == INSTANCE Commands WITH
  Names <- CommandWords, Declarations <- SomeDeclarations

\* "amb" ends every name.
SuffixOf == [w \in Spellings |-> IF w = "amb" THEN EventNames ELSE {w} \intersect EventNames]

Event == INSTANCE Events WITH
  Names <- EventNames, Matches <- SuffixOf, CommandNames <- CommandEvents, Values <- Health

Store == INSTANCE KvDb WITH
  Keys <- <<"k", "l">>, loaded <- openers, nextId <- nextKv

Economy == INSTANCE Money WITH loaded <- owners, slot <- moneySlot

Key == INSTANCE Keys WITH loaded <- binders, due <- pressDue, heard <- pressHeard

Topic == INSTANCE Bus WITH
  MaxDepth <- Nested, MaxStack <- 2, stage <- busStage, stack <- busStack

\* Mods register in the tables the teardown walks.
ASSUME TablesAssumption == Used \subseteq {Life!GoneOrder[i] : i \in 1..11}

\* Subscriptions are counted, and one of the threads is the server's.
ASSUME BusAssumption == MaxSubs \in Nat /\ Main \in Threads

\* None is no thread, no mod and none of the records it stands in for.
ASSUME NoneAssumption ==
  /\ None \notin Threads /\ None \notin Mods
  /\ None \notin [flag : Nat, owner : Mods]
  /\ None \notin [name : KeyNames, at : Nat, bound : Nat]
  /\ None \notin [name : EventNames, player : BOOLEAN, before : Event!Data,
                  data : Event!Data, refused : BOOLEAN]

ControlRests ==
  /\ disk = [m \in Names |-> [deps |-> <<>>, safe |-> FALSE]]
  /\ loaded = {}
  /\ deps = [m \in Names |-> <<>>]
  /\ stash = {} /\ stack = <<>> /\ edits = 0

QuestionRests ==
  /\ manifests = [m \in MapNames |-> <<>>] /\ views = [m \in MapNames |-> 1]
  /\ target = (CHOOSE m \in MapNames : TRUE)
  /\ answer = <<>>

ModsInit ==
  /\ part \in {"control", "question", "life", "command", "event", "store", "money", "key",
              "bus"}
  /\ IF part = "control" THEN Init ELSE ControlRests
  /\ IF part = "question" THEN QuestionInit ELSE QuestionRests
  /\ Life!Init /\ ModCommand!Init /\ Event!Init /\ Store!Init /\ Economy!Init
  /\ Key!Init /\ Topic!Init

ModsNext ==
  /\ UNCHANGED part
  /\ \/ /\ part = "control" /\ Next
        /\ UNCHANGED <<questionVars, lifeVars, commandVars,
                       eventVars, storeVars, moneyVars, keyVars, busVars>>
     \/ /\ part = "question" /\ Ask
        /\ UNCHANGED <<vars, lifeVars, commandVars,
                       eventVars, storeVars, moneyVars, keyVars, busVars>>
     \/ /\ part = "life" /\ Life!Next
        /\ UNCHANGED <<vars, questionVars, commandVars,
                       eventVars, storeVars, moneyVars, keyVars, busVars>>
     \/ /\ part = "command" /\ ModCommand!Next
        /\ UNCHANGED <<vars, questionVars, lifeVars,
                       eventVars, storeVars, moneyVars, keyVars, busVars>>
     \/ /\ part = "event" /\ Event!Next
        /\ UNCHANGED <<vars, questionVars, lifeVars,
                       commandVars, storeVars, moneyVars, keyVars, busVars>>
     \/ /\ part = "store" /\ Store!Next
        /\ UNCHANGED <<vars, questionVars, lifeVars,
                       commandVars, eventVars, moneyVars, keyVars, busVars>>
     \/ /\ part = "money" /\ Economy!Next
        /\ UNCHANGED <<vars, questionVars, lifeVars,
                       commandVars, eventVars, storeVars, keyVars, busVars>>
     \/ /\ part = "key" /\ Key!Next
        /\ UNCHANGED <<vars, questionVars, lifeVars, commandVars,
                       eventVars, storeVars, moneyVars, busVars>>
     \/ /\ part = "bus" /\ Topic!Next
        /\ UNCHANGED <<vars, questionVars, lifeVars, commandVars,
                       eventVars, storeVars, moneyVars, keyVars>>

ModsSpec ==
  ModsInit /\ [][ModsNext]_<<part, vars, questionVars, lifeVars, commandVars,
                             eventVars, storeVars, moneyVars, keyVars, busVars>>

\* Bound: the bus stands for the tables a teardown passes before the lanes, and has what a
\* release hook registers then; what other code registers is in the tables behind it.
\* The other mod has nothing registered as long as such an entry is there.
PassedByHooks ==
  part = "life" => \A m \in Mods :
    /\ \A e \in regs[m] : e[1] = "bus" => e \in late[m]
    /\ late[m] # {} => \A q \in Mods \ {m} : regs[q] = {}

\* The two mods are alike, and no other part names one.
ModsAlike == Permutations(Mods)

\* dependentsOf names exactly the mods that need the target, each once, and a mod
\* before what it needs.
UnloadPlan == EveryDependentOnce /\ UnloadOrder

\* Once a mod's object is gone no table of the loader holds an entry of it
\* (docs/RELOAD.md:81), but what a release hook put into a table already passed.
NothingOfGoneMods == Life!NothingOfGoneMods

\* A loaded mod calls the loader under its own handle, never under that of an
\* earlier object of its name.
HandleIsOwn == Life!HandleIsOwn

\* The image is mapped while a frame of the mod's code is on the stack.
RunningCodeMapped == Life!RunningCodeMapped

\* A mod whose library could not be freed stays in the table, but inert: it cannot be
\* enabled, and no entry of it is left but such late ones.
TornDownIsInert == Life!TornDownIsInert

\* A publish calls its subscribers in the order in which they subscribed.
CalledInOrder == Topic!CalledInOrder

\* Whoever is subscribed for the whole of a publish is called.
EverySubscriberRuns == Topic!EverySubscriberRuns

\* The server thread never enters a callback of a disabled mod.
MainCallsEnabled == Topic!MainCallsEnabled

\* A command calls the mod last told that the name is its own, in its load.
CallsItsHolder == ModCommand!CallsItsHolder

\* The edits of all listeners reach the event, and nothing else does.
EditsArrive == Event!EditsArrive

\* What an iteration has handed over is the store as it was when it began.
ReadsOneState == Store!ReadsOneState

\* A transaction reaches a mod once of each kind at most, a press each binding of its
\* key once, and both only a mod whose code is there.
HeardOnce ==
  Economy!HeardOnce /\ Key!ReachesEveryBinding /\ Key!ArmedWhileBound
=============================================================================
