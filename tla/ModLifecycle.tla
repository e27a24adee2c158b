---------------------------- MODULE ModLifecycle ----------------------------
(***************************************************************************)
(* The life of a Rust mod: src/src/core/RustModManager.cpp, the teardown   *)
(* it drives (onRustModGone in src/src/bridge/core/ApiTable.cpp) and the   *)
(* mod's own side of the contract (rt/registration.rs, rt/runtime.rs).     *)
(*                                                                         *)
(* Loading, enabling, disabling and unloading run on the server thread and *)
(* enter the mod's code (levi_rs_main, on_enable, on_disable, on_unload,   *)
(* the release hook of a lane).  That code may run `/llr' itself, so the   *)
(* operations nest; `stack' holds the operations in progress, top last.    *)
(* A frame's `at' names what is running, or, with "to" in front, what is   *)
(* about to be entered.  "hung" is a thread that locked a mutex it holds.  *)
(*                                                                         *)
(* A RustMod object is named by its serial number among those of its name, *)
(* as its address may be reused.                                           *)
(***************************************************************************)
EXTENDS Integers, Sequences, FiniteSets

CONSTANTS
  Mods,
  Used,       \* bound: the tables of the loader the mods register in
  HookUses,   \* the tables the release hook of a lane registers in
  DirtyFail,  \* may levi_rs_main fail after on_load has registered something?
  MaxObj,     \* bound: objects made per name
  MaxStack    \* bound: operations in progress

\* onRustModGone, in its order; the event listeners go just before it.
GoneOrder == <<"listeners", "scheduler", "bus", "services", "lane", "commands",
               "forms", "kvdb", "hookEvents", "packetHooks", "money">>

\* What the teardown has left after its k-th table; it passes over the tables that
\* can hold nothing.
Left(k) == {i \in DOMAIN GoneOrder : i > k /\ GoneOrder[i] \in Used}

VARIABLES
  object,   \* per mod: the object in the manager's table, 0 when there is none
  made,     \* per mod: how many objects were made
  images,   \* per mod: LoadLibrary minus FreeLibrary
  pinned,   \* mods whose image outlives FreeLibrary: a thread, a TLS destructor
  runtime,  \* per mod: the handle in the image's RUNTIME, 0 when it is unset
  slot,     \* mods whose ModSlot holds an instance
  held,     \* mods whose ModSlot is locked
  enabled,
  muted,    \* commandsMuted
  regs,     \* per mod: the entries <<table, object>> it has at the loader
  late,     \* history, per mod: those a release hook made in a table already passed
  stack

vars == <<object, made, images, pinned, runtime, slot, held, enabled, muted,
          regs, late, stack>>
image == <<object, made, images, pinned, runtime>>
tables == <<regs, late>>

Ops      == {"load", "enable", "disable", "unload",
             "controlLoad", "controlUnload", "rollback"}
InCode   == {"main", "enable", "disable", "unload", "release"}
Top          == stack[Len(stack)]
At(p)        == stack # <<>> /\ Top.at = p
Pop          == stack' = SubSeq(stack, 1, Len(stack) - 1)
Goto(p)      == stack' = [stack EXCEPT ![Len(stack)].at = p]
Push(op, m, p) ==
  /\ Len(stack) < MaxStack
  /\ stack' = Append(stack, [op |-> op, m |-> m, at |-> p, k |-> 0])

\* The server is between two callbacks, or a mod's code is running.
MayCall      == stack # <<>> => Top.at \in InCode
\* Nested operations come from `/llr', the others from LeviLamina.
MayStart(op) == /\ MayCall
                /\ stack # <<>> => op \in {"controlLoad", "controlUnload"}
Busy(m)      == \E d \in DOMAIN stack : stack[d].m = m
Mapped(m)    == images[m] > 0 \/ m \in pinned

Init ==
  /\ object = [m \in Mods |-> 0]
  /\ made = [m \in Mods |-> 0]
  /\ images = [m \in Mods |-> 0]
  /\ pinned = {}
  /\ runtime = [m \in Mods |-> 0]
  /\ slot = {} /\ held = {} /\ enabled = {} /\ muted = {}
  /\ regs = [m \in Mods |-> {}] /\ late = [m \in Mods |-> {}]
  /\ stack = <<>>

-----------------------------------------------------------------------------
\* Mutant: a second levi_rs_main in one image goes on with the old handle.
CanInitAlways(m) == TRUE

\* set_runtime: RUNTIME is set once in the life of the image.
CanInit(m) == runtime[m] = 0

\* RustModManager::load up to levi_rs_main, from cmdLoad or ModRegistrar (which
\* check the table).  When the image is still there levi_rs_main returns false
\* and the library is freed: nothing changes.
Load(op, m) ==
  /\ MayStart(op) /\ op \in {"load", "controlLoad"}
  /\ object[m] = 0 /\ made[m] < MaxObj
  /\ CanInit(m)
  /\ Push(op, m, "main")
  /\ made' = [made EXCEPT ![m] = @ + 1]
  /\ images' = [images EXCEPT ![m] = @ + 1]
  /\ runtime' = [runtime EXCEPT ![m] = IF @ = 0 THEN made'[m] ELSE @]
  /\ UNCHANGED <<object, pinned, slot, held, enabled, muted, tables>>

\* __load stored the instance, the ABI is in range: addMod.
MainOk ==
  /\ At("main")
  /\ object' = [object EXCEPT ![Top.m] = made[Top.m]]
  /\ slot' = slot \union {Top.m}
  /\ muted' = muted \ {Top.m} /\ enabled' = enabled \ {Top.m}
  /\ IF Top.op = "load" THEN Pop ELSE Goto("toEnable")
  /\ UNCHANGED <<made, images, pinned, runtime, held, tables>>

\* DynamicLibrary::free.  The statics go with the image, if it goes.
Free(m) ==
  /\ images' = [images EXCEPT ![m] = @ - 1]
  /\ LET gone == images[m] = 1 /\ m \notin pinned IN
     /\ runtime' = [runtime EXCEPT ![m] = IF gone THEN 0 ELSE @]
     /\ slot' = IF gone THEN slot \ {m} ELSE slot

\* levi_rs_main returned false, or the ABI does not fit: the library is freed,
\* and nothing else is undone.
MainFails ==
  /\ At("main")
  /\ (\E e \in regs[Top.m] : e[2] = made[Top.m]) => DirtyFail
  /\ Free(Top.m)
  /\ Pop
  /\ UNCHANGED <<object, made, pinned, held, enabled, muted, tables>>

-----------------------------------------------------------------------------
\* ModManager::enable and disable, called by LeviLamina.
Enable(m) ==
  /\ MayStart("enable") /\ object[m] # 0 /\ m \notin enabled
  /\ Push("enable", m, "toEnable")
  /\ UNCHANGED <<image, slot, held, enabled, muted, tables>>

Disable(m) ==
  /\ MayStart("disable") /\ m \in enabled
  /\ Push("disable", m, "toDisable")
  /\ UNCHANGED <<image, slot, held, enabled, muted, tables>>

\* unload (LeviLamina disables first) and controlUnload.
Unload(op, m) ==
  /\ MayStart(op) /\ object[m] # 0
  /\ \/ op = "unload" /\ m \notin enabled
     \/ op = "controlUnload"
  /\ Push(op, m, IF m \in enabled THEN "toDisable" ELSE "toUnload")
  /\ UNCHANGED <<image, slot, held, enabled, muted, tables>>

\* Mutant: the callbacks of one mod exclude nobody.
TryEnterUnlocked(p) ==
  /\ Top.m \in slot
  /\ held' = held \union {Top.m}
  /\ Goto(p)

\* Mutant: a callback without an instance is entered.
TryEnterEmpty(p) ==
  IF Top.m \in held THEN Goto("hung") /\ UNCHANGED held
  ELSE held' = held \union {Top.m} /\ Goto(p)

\* __lifecycle: take the ModSlot's mutex, which the thread may hold already.
TryEnter(p) ==
  \/ /\ Top.m \in held
     /\ Goto("hung")
     /\ UNCHANGED held
  \/ /\ Top.m \notin held /\ Top.m \in slot
     /\ held' = held \union {Top.m}
     /\ Goto(p)

NoInstance == Top.m \notin held /\ Top.m \notin slot

\* The operation ends with an error; a failed enable of controlLoad rolls back.
Fail ==
  IF Top.op = "controlLoad"
  THEN stack' = [stack EXCEPT ![Len(stack)] =
                   [@ EXCEPT !.op = "rollback", !.at = "toUnload"]]
  ELSE Pop

\* The onEnable wrapper clears commandsMuted, then calls on_enable.
EnterEnable ==
  /\ At("toEnable")
  /\ muted' = muted \ {Top.m}
  /\ \/ TryEnter("enable")
     \/ NoInstance /\ Fail /\ UNCHANGED held
  /\ UNCHANGED <<image, slot, enabled, tables>>

EnterDisable ==
  /\ At("toDisable")
  /\ \/ TryEnter("disable") /\ UNCHANGED muted
     \/ NoInstance /\ muted' = muted \union {Top.m} /\ Pop /\ UNCHANGED held
  /\ UNCHANGED <<image, slot, enabled, tables>>

\* on_unload is called; or a lane of the mod is in a call (Lane.tla), which
\* cannot be when the mod was loaded a moment ago.
EnterUnload ==
  /\ At("toUnload")
  /\ \/ TryEnter("unload")
     \/ NoInstance /\ Pop /\ UNCHANGED held
     \/ Top.op # "rollback" /\ Pop /\ UNCHANGED held
  /\ UNCHANGED <<image, slot, enabled, muted, tables>>

ReturnEnable ==
  /\ At("enable")
  /\ held' = held \ {Top.m}
  /\ \/ enabled' = enabled \union {Top.m} /\ Pop
     \/ UNCHANGED enabled /\ Fail
  /\ UNCHANGED <<image, slot, muted, tables>>

\* The onDisable wrapper mutes the commands whatever on_disable returned.
ReturnDisable ==
  /\ At("disable")
  /\ held' = held \ {Top.m}
  /\ muted' = muted \union {Top.m}
  /\ \/ /\ enabled' = enabled \ {Top.m}
        /\ IF Top.op = "disable" THEN Pop ELSE Goto("toUnload")
     \/ UNCHANGED enabled /\ Pop
  /\ UNCHANGED <<image, slot, tables>>

\* on_unload dropped the instance, or refused and kept it.
ReturnUnload ==
  /\ At("unload")
  /\ held' = held \ {Top.m}
  /\ \/ /\ slot' = slot \ {Top.m}
        /\ muted' = muted \union {Top.m}
        /\ Goto("gone")
     \/ UNCHANGED <<slot, muted>> /\ Pop
  /\ UNCHANGED <<image, enabled, tables>>

-----------------------------------------------------------------------------
Of(m, table) == {e \in regs[m] : e[1] = table /\ e[2] = object[m]}

\* Mutant: the teardown forgets the commands.
GoneStepSkips ==
  /\ At("gone")
  /\ \E i \in Left(Top.k) :
       /\ \A j \in Left(Top.k) : i <= j
       /\ regs' = [regs EXCEPT ![Top.m] = IF GoneOrder[i] = "commands" THEN @
                                         ELSE @ \ Of(Top.m, GoneOrder[i])]
       /\ stack' = [stack EXCEPT ![Len(stack)].k = i]
  /\ UNCHANGED <<image, slot, held, enabled, muted, late>>

\* onRustModGone, one table at a time.  Dropping a lane entry runs its release
\* hook, which is code of the mod.
GoneStep ==
  /\ At("gone")
  /\ \E i \in Left(Top.k) :
       /\ \A j \in Left(Top.k) : i <= j
       /\ regs' = [regs EXCEPT ![Top.m] = @ \ Of(Top.m, GoneOrder[i])]
       /\ stack' = [stack EXCEPT ![Len(stack)] =
            [@ EXCEPT !.k = i,
                      !.at = IF GoneOrder[i] = "lane" /\ Of(Top.m, "lane") # {}
                             THEN "release" ELSE "gone"]]
  /\ UNCHANGED <<image, slot, held, enabled, muted, late>>

ReturnRelease ==
  /\ At("release")
  /\ Goto("gone")
  /\ UNCHANGED <<image, slot, held, enabled, muted, tables>>

\* The end of unload: eraseMod, unless the library cannot be freed.
FreeLib ==
  /\ At("gone") /\ Left(Top.k) = {}
  /\ Pop
  /\ \/ /\ Free(Top.m)
        /\ object' = [object EXCEPT ![Top.m] = 0]
        /\ muted' = muted \ {Top.m} /\ enabled' = enabled \ {Top.m}
     \/ UNCHANGED <<images, runtime, slot, object, muted, enabled>>
  /\ UNCHANGED <<made, pinned, held, tables>>

-----------------------------------------------------------------------------
\* A release hook runs in a teardown that comes to this table no more.
Passed(table) == At("release") /\ \A i \in Left(Top.k) : GoneOrder[i] # table

\* A mod's code registers something, under the handle in its RUNTIME.
Register(m, table) ==
  /\ \/ stack = <<>> /\ m \in slot
     \/ /\ stack # <<>> /\ Top.m = m /\ Top.at \in InCode
        /\ Top.at = "release" => table \in HookUses
  /\ regs' = [regs EXCEPT ![m] = @ \union {<<table, runtime[m]>>}]
  /\ late' = IF Passed(table) THEN [late EXCEPT ![m] = @ \union {<<table, runtime[m]>>}]
             ELSE late
  /\ UNCHANGED <<image, slot, held, enabled, muted, stack>>

\* It starts a thread it will not join: the image outlives FreeLibrary.
Pin(m) ==
  /\ stack = <<>> /\ m \in slot /\ m \notin pinned
  /\ pinned' = pinned \union {m}
  /\ UNCHANGED <<object, made, images, runtime, slot, held, enabled, muted,
                 tables, stack>>

Next ==
  \/ \E m \in Mods :
       \/ \E op \in Ops : Load(op, m) \/ Unload(op, m)
       \/ Enable(m) \/ Disable(m) \/ Pin(m)
       \/ \E table \in Used : Register(m, table)
  \/ MainOk \/ MainFails
  \/ EnterEnable \/ EnterDisable \/ EnterUnload
  \/ ReturnEnable \/ ReturnDisable \/ ReturnUnload
  \/ GoneStep \/ ReturnRelease \/ FreeLib

Spec == Init /\ [][Next]_vars

-----------------------------------------------------------------------------
\* Once a mod's object is gone no table of the loader holds an entry of it:
\* docs/RELOAD.md:81 promises that onRustModGone takes them all back.  It cannot take
\* what a release hook registers in a table it has passed (LeviRsAbi.h:428 forbids a
\* hook to call the loader, nothing keeps it from it); that alone is left.
LoadingObject(m) == {made[m] : d \in {e \in DOMAIN stack :
                       stack[e].m = m /\ stack[e].at = "main"}}
NothingOfGoneMods ==
  \A m \in Mods : \A e \in regs[m] \ late[m] :
    e[2] \in {object[m]} \union LoadingObject(m)

\* A loaded mod calls the loader under its own handle, never under that of an
\* earlier object of its name whose image was not unmapped (rt/runtime.rs 21).
HandleIsOwn ==
  \A m \in Mods : object[m] # 0 => runtime[m] = object[m]

\* No operation returns into code that was unmapped under it: the image is
\* mapped while a frame of the mod's code is on the stack, nested `/llr' or not.
RunningCodeMapped ==
  \A d \in DOMAIN stack : stack[d].at \in InCode => Mapped(stack[d].m)

\* A mod whose library could not be freed stays in the table, but inert: it
\* cannot be enabled again and no entry of it is left, but for such late ones.
TornDownIsInert ==
  \A m \in Mods :
    object[m] # 0 /\ m \notin slot /\ ~ Busy(m)
    => m \notin enabled /\ \A e \in regs[m] \ late[m] : e[2] # object[m]
=============================================================================
