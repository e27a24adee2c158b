# levilamina-rust-loader in TLA+

This directory specifies the loader of LeviLamina's Rust mods: what a mod may
rely on when it publishes a lane, subscribes to an event, provides a service,
schedules a task or sends a form, what happens to all of that when a mod is
unloaded, and what the `/llr` command does to the set of loaded mods. Each module
is translated from the C++ under `src/src` and the Rust under `src/crates`, and
names its source in its header; `PROJECT.json` maps every definition to lines.

## The system

The loader is a LeviLamina mod. It loads *Rust mods* (cdylibs), hands each a
table of C functions (`LeviRsApi`), and owns every table a mod registers a
callback in, so that it can take the entries back before it frees the mod's
library. It also puts its own
detours into the engine, for the events mods subscribe to, for the tick, and for the
rules and plots of custom dimensions. Almost everything runs on the server thread, but

* a callback may call back into the loader, at any depth, and among what it can
  call are the very operations that unload mods (`/llr`), and
* a few entry points (bus, services, `schedule_*`, packet hooks) may be called on
  threads the mods or the network started, while the server thread unloads.

* the generators of chunks run on the engine's threads, the key-value store on any.

So the hard behaviours are re-entrancy (an operation runs in the middle of
another one), stale copies (a callback copied out of a table is entered after
the entry went), the order of a teardown, operations that fail half way, tables that
repeat one another (a counter, a memo, a ledger, a cache) and fall apart, and, on
worker threads, real races.

### Inventory

| Component | State | Operations | Correct when | Module |
|---|---|---|---|---|
| Rust lane (`Lane.cpp`, `lane_error.rs`) | `gLanes`, `gByName`, `gLeases`, per-lane flag and busy counter, Arc count | publish, unpublish, acquire, release, `Lane::with`, busy test, teardown | a call never lands in freed code or state; as many releases as retains | `Lane` |
| Event bus (`Bus.cpp`) | `gSubs`, `gByTopic`, depth per thread | subscribe, unsubscribe, publish, publish_vetoable, teardown | each live subscriber once, in order, never after it went | `Bus` |
| Services (`Services.cpp`) | `gServices`, `gByName`, depth per thread | register, unregister, call, teardown | one provider per name; never into unmapped code | `Services` |
| Scheduler (`LogScheduler.cpp`) | `gPendingTasks`, the executor's closures | schedule_for, schedule_after_for, schedule_cancel, teardown | each task at most once, in the mod object that asked for it | `Scheduler` |
| Forms (`Forms.cpp`, `gui/mod.rs`) | `gPendingForms`, closures held by LeviLamina | form_send, completeTicket, teardown; laying a form out, turning an answer into a result, reading it | the callback once, not while disabled; the mod reads what the player set | `Forms`, `FormContent` |
| Mod manager (`RustModManager.cpp`, `ApiTable.cpp`, `registration.rs`, `runtime.rs`) | the mod table, library, RUNTIME, ModSlot, commandsMuted | load, enable, disable, unload, controlLoad, controlUnload, onRustModGone | nothing of a mod outlives it; disabled before unloaded; no code unmapped under its frames | `ModLifecycle` |
| Mod control (`ModControl.cpp`) | manifests on disk, loaded mods and their dependencies, `gLastUnloadBase` | `/llr load`, `unload`, `reload`, `dependentsOf` | no mod is left without what it depends on | `Dependents`, `ModControl` |
| Hook events (`HookEvents.cpp`) | per event its subscribers and whether its detour is in place | subscribe, unsubscribe, dropMod, dispatch | everybody who was there when the dispatch began is asked, once, in order; one veto is enough | `HookEvents` |
| Packet interception (`PacketHooks.cpp`, `packet.rs`) | the lists of interceptors, three gates, the address cache, `tlDispatchDepth` | register, unregister, the detours of send, receive, open and close, teardown | no packet slips by; what goes on is what the chain made of it | `PacketHooks` |
| Commands (`Commands.cpp`) | `gCommands`, the closures in the game, `commandsMuted` | register_command, register_command_ex, claim of a binding, execution, teardown | a closure calls the mod that holds its name, in its load, and nobody after that | `Commands` |
| Events (`Events.cpp`, `enrichEventData`) | the listeners of each mod, the event's data | subscribe, unsubscribe, dispatch, write-back, the command events, teardown | every edit of every listener arrives, and nothing else changes | `Events` |
| Key-value store (`KvDbApi.cpp`) | `gKvDbs`, the files, one mutex | open, close, get, set, del, has, is_empty, iter, teardown | what an iteration hands over is one state of the store | `KvDb` |
| Money (`Money.cpp`, `MoneyGuard.cpp`) | one callback of each kind, the trampolines in the economy plugin | listen, transact, teardown | a mod hears a transaction once, and not when it is gone | `Money` |
| Hot keys (`Client.cpp`) | the live entries, handlers in LeviLamina's registry | register, unregister, press, teardown | the same, for a press | `Keys` |
| Gameplay detours (`hooks/protect`, `player`, `world`) | what is installed, two flags against asking twice | begin of an act, ask, answer, effect | an act somebody watches has no effect before it was asked about, nor when refused | `Detours`, `Protect` |
| Decision throttle (`DecisionThrottle.h`, `PushEntityEvent.cpp`, `PressurePlateEvent.cpp`) | the cached decisions | lookup, store, expiry | a decision is not older than its time to live, nor of another place | `Throttle` |
| Tick control and profiler (`TickControl.cpp`, `Profiler.cpp`) | frozen, warp, accumulator, steps; the window of a report | freeze, step, warp, profile_begin, profile_take, the two detours | steps are run once or called off; a report covers its window | `TickClock` |
| Dimension rules (`DimensionRules.cpp`) | the rules and a counter per dimension | set, get, clear, the detours that ask | the counter agrees with the rules | `DimRules` |
| Plots (`PlotConfine.cpp`) | grid, merges, memo of groups, groups too large | set and clear a grid, set merges, piston, move | two columns are of one area exactly when merges join their plots | `PlotConfine` |
| Plot generator (`PlotGenerator.cpp`, `PlotLayout.h`) | a buffer per generator thread | loadChunk | a chunk is what its own layout makes of it, whatever was generated before | `PlotGenerator` |
| Custom dimensions (`CustomDimensionManager.cpp`, `NativeDimensions.cpp`, `CustomDimensionConfig.cpp`) | config file, map, ledger, engine's table, used and salvaged ids | construct, addDimension, get_dimension_id, restart | an id of the engine is that of one name for ever; a dimension is built under the id its caller got, and the tables and the client have that one | `Dimensions` |
| Chunks in the save (`GapFill.cpp`, `server/world/blocks.rs`) | none; the engine's memory and save file | list and delete the keys of a chunk, chunks_loaded | an erased chunk is generated again, and no other is touched | `Erase` |
| Players, actors, the rest of world, packets, server, client queries, SNBT text, entry, bindings, chunk trace | none of their own | calls passed on to the game | - | not modelled |

The parts call each other as follows. `/llr` (ModControl) drives the manager;
the manager enters the mod's own code and, on unload, `onRustModGone`, which
walks the tables of all other parts; every part calls into mods, and mods into
every part. A module models one part with the rest reduced to what it sees of
it: the mod's `stage` (absent, loaded, disabled, enabled, *gone* between its
teardown and the freeing of its library).

## Modules

**Lane**, with **LanePromise** and **LaneProofs**. A frame of `stack` is a consumer
parked in a provider's table entry or an unload in progress; anything a mod can
do is enabled under the top frame. `AcquireInsert` and `AcquireRetain` are two
steps because the code runs the retain hook after it dropped the lock; on one
thread (`Serial`) nothing comes in between. `LanePromise` is what a consumer is
told: a name goes up and comes down once, a lease is granted by a lane that is
up, and a call is entered only through a lane that is up; `KeepsPromise` is the
refinement.

**Bus**. A publish is a frame with the snapshot of ids still to serve; `Lookup`,
`Revalidate` and `Enter` are the three steps of `fireOne`. `owed` is a ghost: the
subscriptions the publish found and still has to call, those left out that were
removed or disabled since it began. **Subsequence** is what std::erase_if, and a loop that copies
under an `if`, leave of a list; the bus, the packet hooks and the hook events use it.

**Services**. `Lookup`, `Revalidate`, `Enter` and `Return` are `service_call`.

**OneShot** is the abstract ticket: a callback fires at most once and never after
it was dropped. **Scheduler** and **Forms** implement it (`OnceOrNever`). Both
distinguish the objects made for one mod by a generation, because an address may
be reused; a worker's `schedule_for` is three steps (weak_ptr, table, executor).
**FormContent** is the inside of a form: the specification of the mod, the form as
`AppendNext` and `Buttons` lay it out control by control, the settings a client can
report (`Settings`, `Reports`: LeviLamina names a choice by index or by text, perhaps
stripped of its colours), and the answer the mod reads (`Read`).

**ModLifecycle**. Operations nest: a frame's `at` says which of the mod's callbacks
runs, or which step comes next. The teardown goes through `GoneOrder` one table at
a time (those in `Used`: the others are empty), and drops into the release hooks of the
lanes, which may register in tables to come and in tables already passed (`Passed`, `HookUses`;
`late` is a ghost of the latter). An image may outlive
FreeLibrary (`Pin`), a library may refuse to be freed, and a callback that locks a
ModSlot its thread holds hangs.

**Dependents** holds `dependentsOf` as a pure algorithm, next to a definition of
what the answer must be (`Needing`: the least set that holds whoever lists the mod or
another of the set; the order). `MCDependents` asks every question about every small map.
**ModControl** uses the algorithm, and takes controlLoad and controlUnload as steps that succeed or fail; while a mod
comes up or goes down its code runs and may type the next command.

**PacketHooks** is packet interception, the codec of the header (pure operators) included. A frame is one
detour: the gate is read on entry, `Snapshot` is taken under the lock, `Resolve` goes
through the address cache, and `Call` and `Answer` alternate until the chain ends. A
frame carries the packet as it came (`in`), the chain's state (`edit`, `body`,
`changed`) and what it forwards (`out`); `owed` and `hist` are ghosts. `MaxStack` frames
of a thread hold a send inside a callback and an unload inside either.
**HookEvents** is the same shape without threads: a dispatch is a frame with the
snapshot of callbacks still to ask.

**Commands**. `closures` is what the game holds for ever, `bindings` the objects the
closures share with `gCommands`. `Install` may stop after any overload (`Breaks`), which
is the exception of a registration; `holder` is a ghost: who was last told that the
name is its own.

**Events**. A dispatch walks `due`, the listeners found at its start. `shown` is what the
listener in progress was given and `Merged` the write-back of its edit; `asked` is a
ghost of what the event should be by now. The command events (`Refuse`) know one answer.

**KvDb** has one `locker`: `Get` and `Iter` keep it while the sink runs. Opening is two steps, the store
before the mutex (`Open`) and the table under it (`Enter`), and the mod may be gone in between. `Read` stands for
the reads without a sink; `Restart` keeps the files alone.

**Money** and **Keys** are the two components whose callbacks the other side never gives
back: one slot per kind, found by the address of the callback when a mod goes, and a flag
per binding.

**Detours** lists, per act of the engine, the detours of the code it runs through and what
each lets pass, a constant function from the hook files; **Protect** is what a detour does.
Acts are frames, since a subscriber may act while it is asked.

**Throttle**: a place is one coordinate in half blocks; `Truncated` and `Floor` are the two
ways to a block. `since` is a ghost: how long ago a rule changed.

**TickClock**: a frame is `BeginFrame` (the outer detour of the profiler, then the one of the
tick control, which decides how often the level ticks), `Tick` and `TickDone`, `EndFrame`;
mods call between frames and inside a tick.

**DimRules** and **PlotConfine**, which extends it: the tables are in the modules as the code
keeps them, the walk of `GroupRoot` finds a root, which goes into the memo, or is given up, and
the group is remembered as too large; the expected answers (`Region`, which walks over columns) know neither.

**PlotGenerator**: `Layout` is the normalised layout, `LoadChunk` fills the buffer of a thread,
whose static layers are refilled only for another generator.

**Dimensions**: `Add` is addDimension with the ways it may go: the group of definitions takes
the name, refuses it or throws (`Groups`), the engine gives an id or none (`Offers`), and
it builds the dimension while it registers it, when asked, or never (`Builds`). `Registered`,
`Native`, `Defined` and `IdFor` say what comes of them, in the order of the code. `Construct` is the
start from the config file, `Spoil` a file that somebody edited (an entry unreadable, an id too
small or that of another entry), `Start` the next boot. Every table has its own variable; `told` and
`fell` are ghosts: the ids of the engine that callers got in any boot, and whether a registration of
this boot did without the engine.

**Erase**: chunks in memory and in the save, their keys as the bytes that
`ChunkKeyPrefix` compares. `Ask` (chunks_loaded) and `EraseChunk` (delete_chunk_keys) are two calls of
a mod, and the engine may load, change, save or lose the chunk in between; `told` is a ghost: the chunks of
which the last answer was that they are not loaded, and not loaded since. `Crash` is the loss of memory.

The MC modules compose parts that share no state: a constant variable `part` says which one
moves, the others rest in an initial state. What holds in such a run holds of every part by
itself, for the size of one run. `MCComms`: lanes, bus. `MCCalls`: tasks, services, forms and
their content. `MCMods`: the commands of the console, dependentsOf, the life of mods, their
commands, listeners, stores, money callbacks, hot keys, and the bus on two threads.
`MCEngine`: packets and hook events, detours, caches, clock, rules and plots, dimension ids,
chunks, the save.

## Runs

| Run | Question | Bounds | Distinct states |
|---|---|---|---|
| Comms_serial | do tables, flags, counts and calls of lanes agree on the server thread, and do every unload and every publish end? | 2 mods, 2 names, 2 lanes, 2 leases, depth 3; bus: 1 topic, 2 subscriptions, nesting 2 | 63 735 |
| Calls_once | each task and each form once or never, in its mod; none for ever pending; every service call answered; the mod reads what the player set? | 2 mods, 2 loads each; 2 tasks and a worker; 2 names, 2 registrations; 2 forms, 2 players; forms of one or two controls, with choices whose options look alike and sliders out of order | 102 562 |
| Mods_registries | is what mods have at the loader theirs, through every order of loads, unloads, `/llr` and failures? | console: 3 rust mods, 1 C++ mod that depends on one at most, acyclic manifests, one edit; dependentsOf: every map of 3 mods with lists of up to 2 names, absorbed once or twice; life: 2 mods, 2 objects each, 3 operations deep, tables before and after the lane's, hooks that register in both; 2 names of commands; 3 events, 2 listeners, 2 write-backs; 2 handles, 2 threads, 2 keys, 2 starts; 2 hot keys, 3 handlers; bus: 2 threads, 2 subscriptions | 1 582 790 |
| Engine_detours | do the detours do what the callbacks answered, and do the tables of the loader agree with each other and with the engine? | 2 threads, 1 connection, 2 hooks, 1 packet waiting, 2 frames on the server thread; 2 events, 3 subscriptions, 2 dispatches deep; 2 acts deep; 2 players, time to live 2, 1 entry, a plate either side of a border and an entity next to it; steps and windows of 1 and 2, factors 1/2, 1, 2; 1 dimension with 2 rules and 5 tables of merges; 2 names of dimensions, 2 ids of the engine besides those of the loader, 2 boots; 2 layouts, 3 chunks wide; 4 chunks of a save | 588 709 |
| Lane_unpublish, Bus_worker_disabled, Lifecycle_failed_main, Control_nested, Hooks_closure, Commands_throw, Push_border, Erase_overworld | a disagreement each, below | as in the runs above, or less | |

Why the bounds are enough: every hazard here is between two actors (a mod and the
one that calls it); two of a kind (lanes, leases, subscriptions, objects of a
name) are what a stale id, a reused name or an order can be confused with; a stack
of two or three has an operation inside an operation and one more inside that.
A cache of one entry is full at the second, a walk limited to three plots is given up in a
group of four, and two boots are what an id can change between. The packets are one with an
ordinary header, one whose header is not what getId says and one whose header does
not decode. The constraint `OrdinaryTogether` keeps the odd packets and the id that does not
fit to a detour that is alone: two detours in progress, on two threads or one inside the other,
carry ordinary ones, and on two threads none is inside another and no answer replaces the body,
since what the chain makes of a packet is in its own frame.
`NestedAlike` lets an act happen inside another one only when a detour of the same event sees
both: detours of different events share no state.
`PassedByHooks` keeps the table passed before the lanes (the bus) for what release hooks register late, and
leaves the other mod without registrations while such an entry is there. `TwoAmiss` lets at most two things be wrong with
the dimensions at a time (an entry of no use or not saved, a name without definition, a registration
that failed); `OneAtATime` has mods ask about one chunk, and erase it, before they turn to another.
`Mods_registries` and `Engine_detours` use symmetry: their mods are interchangeable and
they check no liveness. The liveness of the bus is checked on the server thread alone
(`Comms_serial`), its safety on two threads (`Mods_registries`). `AnswersAreRegions`,
`ChunksAsPromised` and `ErasedIsGenerated` are evaluated only while their part moves (at rest they hold or fail in
the first state), and the first once for the states that differ only in what the last detour
did, on which it does not depend. Types are part of the invariants of the proofs, and what the other
properties compute with.
`CHECK_DEADLOCK FALSE` appears where the bounds on counters that never go back
(ids, objects) bring the model to rest, where a refused command changes nothing,
or where a thread that locks its own mutex really stops.

A violation run states one sentence of the repository about itself, which the
code does not keep:

* `Lane_unpublish`: the busy test does not see a lane that was unpublished under a call;
* `Bus_worker_disabled`: on a worker thread a subscriber is entered after it was disabled or unloaded;
* `Lifecycle_failed_main`: a failed load leaves what on_load registered;
* `Control_nested`: a `/llr load` typed by the code of a mod that is going down loads a mod that
  depends on it, and the unload goes on all the same;
* `Hooks_closure`: an interceptor that drops its own handle goes on running in a closure that was freed;
* `Commands_throw`: a registration that throws half way leaves a closure in the game that keeps its mod for ever;
* `Push_border`: west or north of the origin a push is decided, and its decision kept, for the block next to
  the one the pushed entity is in;
* `Erase_overworld`: erasing a chunk of the overworld deletes the saved chunks at the same place of all dimensions.

The same modules show, with other constants, what else the text of the repository
and the code disagree about; these have no run of their own:

* `Lane` with `OffThread = TRUE` (Lane.cpp:132-133 expects it, LeviRsAbi.h:2003 does
  not): the retain hook is called outside the lock, on a state whose last reference
  may have been released;
* a worker enters a subscription that was removed since it was copied out, contrary
  to Bus.cpp:40-41, and, with a second thread in `Services`, a provider whose library was
  freed: the weak_ptr keeps the RustMod object alive, not the library;
* `service_call` enters a disabled provider, on purpose (Services.cpp:234-253),
  contrary to LeviRsAbi.h:354-355;
* a reload brings a mod up without looking for the dependencies that were added to its manifest since it
  was loaded (ModControl.cpp:713), contrary to what 519-521 say of a load (`ModControl` with
  `EditLoaded = TRUE`, `MCModControl` with `Edits <- OneDependency`);
* a mod that is loaded and not enabled is not muted, contrary to
  RustModManager.cpp:203-204, and the rollback of a failed enable is an unload that
  on_unload may refuse, contrary to 206-207 (`ModLifecycle`);
* what a release hook registers in a table that the teardown has passed (the bus, a task, a service, or a
  lane already walked) stays there, with the address of a mod that is freed next: docs/RELOAD.md:81 says that
  callbacks are taken back, and only a comment, LeviRsAbi.h:428-429, keeps hooks from calling the loader
  (`ModLifecycle`, with `late` left out of `NothingOfGoneMods`);
* a worker that opens a store while its mod is unloaded enters it in the table after kvdbOnRustModGone, and
  nobody closes it, contrary to KvDbApi.cpp:4-7 (`KvDb`, where `Enter` needs no mod);
* the hook events have the same hazard as `Hooks_closure`: `Listener::drop`
  (event/mod.rs 37-47) frees the closure while a snapshot still holds it, though
  HookEvents.h 75-77 says that a self-unsubscribing callback still receives the
  current event;
* a packet gate is read relaxed and without the lock (PacketHooks.cpp:129-132): a hook just registered by another
  thread may miss a packet, where `PacketHooks` reads the value of the moment;
* a packet dispatch calls the hooks of its snapshot whether or not their mod was
  unloaded since, by another thread or by an earlier callback;
* a packet dispatch that outlives the close of its connection puts the address back
  into the cache, contrary to PacketHooks.cpp:162;
* a sink of the store that calls the store again locks the mutex its thread holds
  (KvDbApi.cpp:105-110, 159-165), which `KvDb` leaves out;
* when a listener writes back twice, a second value equal to what it was shown does not undo
  the first (`Events`);
* a freeze called inside a warped frame takes effect after the remaining ticks of the frame
  (TickControl.cpp:56-61), and the profiler counts frames where Profiler.cpp:17-20 says ticks;
* one shot of a bow is asked about in several detours, and an attack that is forwarded twice
  (`Detours`); the positions in the payloads of dropping, taking, attacking, interacting and
  riding are truncated like the one of a push;
* `commandsMuted` is false before the first enable (RustMod.h:48), and a binding that is claimed again keeps
  the shapes of the overloads of its first registration (`Commands`);
* a money listener registered before the economy plugin is there is never heard
  (Money.cpp:110-113);
* a failed addDimension leaves the map, the config and the ledger written, so players saved in
  that dimension are not sent back, contrary to CustomDimensionManager.cpp:185-187 (`Dimensions`);
* an id that the loader gave out itself, since the engine refused, may change from boot to boot, contrary to
  MoreDimensionsBridge.cpp:57-61, and be given to another name by the engine, whose reverse entry it then
  loses; and such a registration raises Undefined() past ids that the engine has given, which makes the names
  that have them look unregistered. `IdsHold` is about ids of the engine, and about the reverse entries
  as long as no registration did without it (`fell`);
* a definition that was put in with -1 by a registration that was refused stays so for the names the engine
  knows from an earlier boot or attempt (NativeDimensions.cpp:267-300: only what is missing is added; 417-430
  corrects it, as it says a client needs, after a first registration alone), and a group that refuses a
  definition leaves the client without it, which is only logged (275-280). So `IdsHold` says of the definition what it
  is if it is there (`Dimensions`);
* the layers below the floor: PlotLayout.h:31-32 has bedrock at minY and fill directly above it, the generator
  (PlotGenerator.cpp:124-132) bedrock at kBedrockY, which DimensionHeight.h:72-80 puts above minY, and air
  below it. `Promised` is PlotLayout.h from the ground up and DimensionHeight.h below;
* PlotConfine.h:24-26 gives a road between two merged plots to the western or northern one if that one declares
  the merge; the code takes the word of either side (PlotConfine.cpp:165-176, on purpose, as its comment
  says), and so do `PlotConfine` and its `Region`;
* rules with a number beyond kDimRuleCount survive a clear (`DimRules`), and a floor at or
  below bedrock passes the clamp of `PlotLayout` (`PlotGenerator`);
* in a form, the swap of a slider's bounds does not catch a NaN, contrary to Forms.cpp:290; a
  choice with an option of empty text is read as a number, and of two options that look alike the
  first is reported (`FormContent`, whose properties say for which forms the answer is right);
* chunks_loaded asks about the middle square of a box, so of a box that is not square 1 does not
  mean that all chunks are loaded, as LeviRsAbi.h:2101 says; the wrapper asks about one chunk (`Erase`).

Where a passing run excludes the cause of one of these by a constant
(`UnpublishInCall`, `DirtyFail`, `EditLoaded`, `MaxStack` of the console, `Breaks`), the
violation run (for `EditLoaded`, the text above) is the same module with the constant turned the other
way: what the passing run shows is what holds as long as mods, or the operator, refrain from it. Release hooks that
register (`HookUses`) are excluded by no constant.

## Fairness

Liveness is checked under what the code's scheduling gives and no more, in `Comms_serial` and
`Calls_once`. Steps
inside a loader function are straight-line code, so a thread in the middle of one
goes on (WF). A mod's callback returns in the end, but only when it is on top, and
what it called may come and go in between: SF for each stack depth, of whatever
frame is on top there. The executor runs each closure in the end (SF, per task). A
mod never *has* to act: no fairness on registering, publishing, unloading or typing
commands. The parts at rest have no fair action enabled, so that the fairness of one part asks
nothing of another.

## Proofs

TLC explores the small instances above; the theorems hold for all values of the constants that
satisfy the assumptions of their module: any number of mods, threads, names, subscriptions and
hooks, any depth of nesting, any manifests, forms and layouts. The assumptions say that bounds are
naturals, that `None` is none of the things it stands in for, that the server thread is one of the
threads, that packets, answers, layouts, the paths of acts, columns and plots have their types, and that
a table of merges is finite. Six say more, and
the code justifies them:

* mods are numbers, and finitely many (`ModControlAssumption`, `MapAssumption`): std::sort needs an
  order, and a directory of mods is finite. At the start of the process no loaded mod is in a cycle of
  dependencies (`Acyclic` in `Init`), since LeviLamina's start-up loads dependencies first;
* coordinates and ids of dimensions fit into 32 bits (`KeyAssumption`, stated by the last of the four
  bytes, which is what the proof needs): they are int32_t where `ChunkKeyPrefix` writes them;
* forms hold what their kind may, and stripping the colours off a text twice is stripping them once
  (`ContentAssumption`): Forms.cpp 140-157 drops each U+00A7 with the character behind it, so none is left,
  except in text that is not UTF-8;
* a path of the engine reaches its effect, and asks nothing after it that could still refuse
  (`PathAssumption`, checked for the paths of all hook files);
* the tables of a teardown are among those onRustModGone walks (`TablesAssumption`), and -1 is none of the
  engine's ids (`DimensionAssumption`): NativeDimensions.cpp uses it for a dimension that has none.

TLC evaluates all of them in the runs.

Hardly a property that follows is inductive as it stands. Each proof has an invariant that is: it adds
types, says what the state the property speaks of is kept by, and is then shown kept action by action, one
lemma each; TLC checked the invariants on the instances of the runs first. `ListProofs` has the lemmas
that several of them need: a filter (`Subsequence`) keeps exactly the elements it should, in the order they
had, an append adds one, and the induction over numbers in the form the provers take: a set of naturals
that has 0 and, with a number, the next one, is all of them. With it a walk, a loop or a fold is proved
about where the module writes it as a recursive function or FoldLeft: the fold is shown equal to a
recursive function once, the function by this induction.

| Module | Theorems | The inductive invariant, and why |
|---|---|---|
| `LaneProofs` | `TypeCorrect`, `CountsBalance`, `NamesStayExclusive`, `FlagIsTrue`, `RetiredStaysRetired` | `IInv`: that a retired lane leaves its name free needs the name table to be injective on published lanes; that the count of a lane is one plus its leases, less the retains in progress, needs leases to refer to published lanes and ids beyond the counters to be unused |
| | `LaneKeepsPromise` | the refinement: each action is a step of `LanePromise` or none, with `IInv` and `BusyCounted` (the busy counter of a provider is its parked calls) |
| | `CalledCodeStaysMapped` | `MapInv`: a call is parked in a lane its mod still provides, or above the unload of that mod; so the unload, which tests the counter, never has a call below it. Assumes `UnpublishInCall = FALSE`: otherwise `Lane_unpublish` is the counterexample |
| `ModsProofs` | `CalledInOrderTheorem`, `EverySubscriberRunsTheorem`, `MainCallsEnabledTheorem` | `BusInv`: a topic lists its ids in the order they were given out; what a dispatch owes a call is in the table, of an enabled mod, and still in its list; on the server thread the callee cannot be disabled between the test and the call, because below the top every frame is inside a mod |
| | `ReadsOneStateTheorem`, `HeardOnceTheorem`, `EditsArriveTheorem`, `CallsItsHolderTheorem` | `StoreInv`: who reads holds the mutex, and the store has what it had then; `MoneyInv`, `KeyInv`: slots, trampolines and flags agree; `EventInv`: the data is what the history of edits asks for; `CommandInv`: closures, bindings and the table of names agree. The last theorem assumes `Breaks \subseteq {0}`, no registration throws half way: otherwise `Commands_throw` shows what happens |
| `LifeProofs` | `HandleIsOwnTheorem`, `RunningCodeMappedTheorem`, `TornDownIsInertTheorem`, `NothingOfGoneModsTheorem` | `LifeInv`: of every frame what stands behind it (mutex, instance, image; of a teardown the tables that are left), of every mod that it has one object, one handle and entries of its own, or late ones. The last theorem assumes `DirtyFail = FALSE`: otherwise `Lifecycle_failed_main` is the counterexample |
| `CallsProofs` | `OnceOrNeverTheorem`, `RunsInItsModTheorem` | the refinement of `OneShot`, per task: `TaskInv` counts, for each id, the entries of the table, the closures of the executor and the runs |
| | `FormsOnceOrNeverTheorem` | the refinement again, for forms: `FormInv` says that a ticket in the table has not run, and that one not issued yet was not entered |
| | `FormsAsFilledTheorem` | `ContentInv`: each control of the form laid out so far came from an element the mod sent, with options and a default among them, or with a range that `Fits` (the arithmetic of `SliderFits`: the default is the grid point nearest to the one asked for); the table of choices has the options of a choice of the form under each of its names, and of nothing else; of a simple form, what is laid out and what is left are the mod's list |
| `ControlProofs` | `UnloadPlanTheorem` | none but the types of the question; the argument is about the algorithm. `SearchRounds`, `SearchClosed`: the search is closed after as many rounds as there are mods, so it finds the least closed set. `KahnInv` and `RoundInv`, over the inner and the outer loop: a counter is the number of entries not yet released, what is ready or done is released by all that list it, nobody is done twice. `KahnOrder`: what Kahn's loop leaves over is listed by others of it, so (`SomeCycle`, by the number of mods behind one) a cycle is among those who need it |
| | `DependenciesLoadedTheorem` | `ControlInv`: the mods loaded are closed under dependencies and free of cycles; of a command in progress what is left to take down comes in an order in which no mod precedes one that needs it, and so does, backwards, what is left to bring up. Assumes `MaxStack <= 1` and `EditLoaded = FALSE`: otherwise `Control_nested`, and the edited manifest above, are the counterexamples |
| | `ReloadRestoresTheorem` | `RestoreInv`: what was loaded before a reload is what is loaded now and what went down, and on the way up what is loaded and what is still to come up. Assumes `MaxStack <= 1`: a command inside may load and unload on its own |
| | `OnlySafeReloadedTheorem` | `SafeInv`: each mod on a reload's lists was marked when the command began; nothing edits a manifest while a command runs |
| `EngineProofs` | `CounterMatchesTheorem`, `DecisionFreshTheorem`, `ClockExactTheorem`, `NothingUnaskedTheorem` | one invariant per part (`RuleInv`, `CacheInv`, `ClockInv`, `ActInv`). The first is a cardinality argument; that of acts says what each frame has been asked so far and what is left of its path, and rests on `PathAssumption` about the hook files, which TLC evaluates on all of them |
| | `ChunksAsPromisedTheorem` | `GenInv`: outside the two layers that differ from column to column, the buffer of a thread is what its owner's layout fills in, and every chunk handed out is as promised (the arithmetic of floor and remainder along each axis, on both sides of zero) |
| | `ErasedIsGeneratedTheorem` | `SavedInv`: what was erased on the loader's word is not in memory and has no key, because what is told and not loaded since is not in memory and no key is of two chunks (`KeysApart`); the answer of chunks_loaded is shown by the arithmetic of its box |
| | `IdsHoldTheorem` | `TablesInv`: the engine has an id for one name only and keeps it, and what callers were told is what it has (`Ledgered`); the tables of the loader have the id of a live dimension (`Agreed`, `AddAgrees`); and as long as nothing did without the engine, every table has what the engine has (`Enginely`, `AddEnginely`), so that remembering a name takes away no other's entry (`RememberIs`) |
| | `AnswersAreRegionsTheorem` | `GridInv`: what a grid remembers is true (a root is the least plot of its group, a group too large has more plots than the limit), whatever was asked and merged before. The walk finds all that is connected after twice as many rounds as the table has plots, since of two connected plots the table has one (`WalkEnds`, `GroupIs`), so plots have one root exactly when they are in one group (`RootsTell`). A region of columns is closed after as many rounds as a group of the limit has columns (`ColumnsFinite`), has all of what a plot owns or nothing (`PlotWhole`), and goes on to exactly the plots connected with one of its own (`PlotsTouch`, and, as there is a road, `NextDoor`), so it is what the group owns (`RegionIs`) |
| `HookProofs` | `HeaderRoundTrip` | none: what `encodeHeader` writes is one byte or two that `decodeHeader` accepts, by a case split at 128 and the size of a number being unique |
| | `EveryHookSeesTheorem`, `ForwardsChainTheorem`, `PumpDrainsTheorem` | `HookInv`: the gates are what the lists want; the list and each snapshot ascend; what a packet owes an interceptor is in the list until the snapshot is taken, in the snapshot afterwards; the header under work differs from the packet's in what the last answers set (`Made`). A step of the registry changes every stack at once, which `Less` captures: all frames stay as they are but for what the removed interceptors were owed |
| | `EveryListenerAskedTheorem` | `EventInv`: replies, the listener running and those to come are, in this order, what the dispatch began with |

The theorems about parts of `MCMods`, `MCEngine` and `MCHooks` are about the composed specification: a part's
own actions keep its invariant, and a step of another part leaves its variables alone.

Hypotheses on constants beyond the assumptions are those of the table. Each excludes
something the code does when a mod or the operator does something particular, and a violation run, or the
text above, shows what it does then; nothing else is excluded.

Only model-checked is liveness under fairness (`UnloadEnds`, `PublishEnds`, `TasksSettle`, `CallEnds`),
which is out of the prover's reach. Every invariant and every other action property or refinement of the passing
runs is a theorem.

## Not modelled

Text (SNBT, JSON, selectors), logging, payloads of the gameplay events, the times the profiler
measures, and the calls that
only pass on to the game. The fingerprint of a lane is compared but not computed.
The legacy `api_schedule` has no owner and no state.
Subscribing and unsubscribing while an act is asked about are in `HookEvents`, not in `Protect`, where a subscription
comes between acts and stays. An unload from inside a
callback of the same mod through the bus, a service, a task or a form returns
into unmapped code; those modules leave it out (their headers say so), and
`ModLifecycle` and `Lane` model what protects from it. Of the SNBT parser of the Rust crate only
values are needed here, and what the wrappers add to a call is modelled with the component
they wrap.

What is taken from outside `src/src` without looking inside: clearing a mod's listeners detaches
them from LeviLamina's bus (RustModManager.cpp:182); a key registry's dispatch serves the handlers present at its start; LeviLamina counts only
the buttons of a simple form; and the keys of a chunk in the save are laid out as
LeviRsAbi.h:2072-2076 says.

## Plan

1. Lane, LanePromise, LaneProofs: done. 2. Bus, Services: done. 3. OneShot,
Scheduler, Forms, FormContent: done. 4. ModLifecycle: done. 5. Dependents, ModControl: done. 6. Hook
events, packet interception: done. 7. Commands, Events, KvDb, Money, Keys,
TickClock, Throttle: done. 8. Detours, Protect, DimRules, PlotConfine, PlotGenerator, Dimensions,
Erase: done.
9. The proofs of the table above: done; every property of the passing runs is a theorem but for those listed
as only model-checked. 10. Of the code that is left, the index arithmetic of edits and containers and the
ownership of callbacks in the Rust wrappers are the next worth a module.
