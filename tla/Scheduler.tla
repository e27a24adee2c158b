----------------------------- MODULE Scheduler -----------------------------
(***************************************************************************)
(* The mod-scoped task scheduler: src/src/bridge/core/LogScheduler.cpp.    *)
(*                                                                         *)
(* schedule_for and schedule_after_for enter the task in gPendingTasks and *)
(* hand the executor a closure that holds only a weak_ptr and the ticket.  *)
(* The executor runs closures on the server thread; the closure takes the  *)
(* ticket out of the table, re-validates the mod and calls the task.       *)
(*                                                                         *)
(* The server thread is idle, running a task, or inside an unload ("gone") *)
(* that the task or the console started.  Worker threads of the mods may   *)
(* schedule and cancel at any time (LeviRsAbi.h:1753-1770); their schedule *)
(* is three steps: the weak_ptr, the table entry, the executor.            *)
(*                                                                         *)
(* A mod that is loaded again is a new RustMod object, told apart by `gen';*)
(* its address may be the old one, so the table, which keys tasks by       *)
(* address, cannot tell.  A delay is only a closure that is due later: the *)
(* executor may run closures in any order.                                 *)
(* Ghost: `runs'.                                                          *)
(***************************************************************************)
EXTENDS Integers, FiniteSets

CONSTANTS
  Mods, Workers,
  None,      \* no mod
  MaxTasks,  \* bound: how many tasks are ever scheduled
  MaxGen     \* bound: how often a mod is loaded

ASSUME SchedulerAssumption ==
  MaxTasks \in Nat /\ MaxGen \in Nat /\ None \notin Mods

VARIABLES
  stage,       \* per mod: "absent", "disabled", "enabled" or "gone"
  gen,         \* per mod: which RustMod object it is
  tasks,       \* gPendingTasks: task id -> owner
  nextId,      \* gNextTaskId
  queue,       \* the executor's closures: [id, mod, gen]
  submitting,  \* per worker: its schedule call in progress
  running,     \* the closure the server thread is running
  runs         \* ghost: per task, how often its callback was entered

vars == <<stage, gen, tasks, nextId, queue, submitting, running, runs>>

Ids  == 1..MaxTasks
Gens == 1..MaxGen
Idle == [id |-> 0, mod |-> None, gen |-> 0]

NoRun      == [id |-> 0, mod |-> None, gen |-> 0, at |-> "idle"]
Pending(k) == tasks[k] # None
TasksOf(m) == {k \in Ids : tasks[k] = m}

\* Mod code or the console may act on the server thread.
MainCode == running.at # "taken"
\* The object a weak_ptr of this generation names still exists.
Locks(m, g) == stage[m] # "absent" /\ gen[m] = g

Init ==
  /\ stage = [m \in Mods |-> "enabled"]
  /\ gen = [m \in Mods |-> 1]
  /\ tasks = [k \in Ids |-> None]
  /\ nextId = 1
  /\ queue = {}
  /\ submitting = [w \in Workers |-> Idle]
  /\ running = NoRun
  /\ runs = [k \in Ids |-> 0]

-----------------------------------------------------------------------------
\* registerTask: the ticket and its table entry.
RegisterTask(m) ==
  /\ nextId <= MaxTasks
  /\ tasks' = [tasks EXCEPT ![nextId] = m]
  /\ nextId' = nextId + 1

\* Mutant: the entry is made, the executor is not told.
ScheduleUntold(m) ==
  /\ MainCode /\ stage[m] \in {"disabled", "enabled"}
  /\ RegisterTask(m)
  /\ UNCHANGED <<stage, gen, queue, submitting, running, runs>>

\* submit, called on the server thread.
Schedule(m) ==
  /\ MainCode /\ stage[m] \in {"disabled", "enabled"}
  /\ RegisterTask(m)
  /\ queue' = queue \union {[id |-> nextId, mod |-> m, gen |-> gen[m]]}
  /\ UNCHANGED <<stage, gen, submitting, running, runs>>

\* submit on a worker: shared_from_this, registerTask, execute.
SubmitLock(w, m) ==
  /\ submitting[w] = Idle /\ stage[m] # "absent"
  /\ submitting' = [submitting EXCEPT ![w] = [id |-> 0, mod |-> m, gen |-> gen[m]]]
  /\ UNCHANGED <<stage, gen, tasks, nextId, queue, running, runs>>

SubmitRegister(w) ==
  /\ submitting[w] # Idle /\ submitting[w].id = 0
  /\ RegisterTask(submitting[w].mod)
  /\ submitting' = [submitting EXCEPT ![w].id = nextId]
  /\ UNCHANGED <<stage, gen, queue, running, runs>>

SubmitExecute(w) ==
  /\ submitting[w].id # 0
  /\ queue' = queue \union {submitting[w]}
  /\ submitting' = [submitting EXCEPT ![w] = Idle]
  /\ UNCHANGED <<stage, gen, tasks, nextId, running, runs>>

\* api_schedule_cancel returning true: from any thread, scoped to the caller.
Cancel(m, k) ==
  /\ stage[m] # "absent"
  /\ tasks[k] = m
  /\ tasks' = [tasks EXCEPT ![k] = None]
  /\ UNCHANGED <<stage, gen, nextId, queue, submitting, running, runs>>

-----------------------------------------------------------------------------
\* Mutant: the ticket is looked at and left in the table.
TakeLeaves(c) ==
  /\ running = NoRun /\ \A m \in Mods : stage[m] # "gone"
  /\ c \in queue
  /\ queue' = IF Pending(c.id) THEN queue ELSE queue \ {c}
  /\ running' = IF Pending(c.id)
                  THEN [id |-> c.id, mod |-> c.mod, gen |-> c.gen, at |-> "taken"]
                  ELSE NoRun
  /\ UNCHANGED <<stage, gen, tasks, nextId, submitting, runs>>

\* runTask, under the lock: the ticket is taken, unless it is gone.
Take(c) ==
  /\ running = NoRun /\ \A m \in Mods : stage[m] # "gone"
  /\ c \in queue
  /\ queue' = queue \ {c}
  /\ IF Pending(c.id)
       THEN /\ tasks' = [tasks EXCEPT ![c.id] = None]
            /\ running' = [id |-> c.id, mod |-> c.mod, gen |-> c.gen, at |-> "taken"]
       ELSE UNCHANGED <<tasks, running>>
  /\ UNCHANGED <<stage, gen, nextId, submitting, runs>>

\* Mutant: the mod is recognised by its address, not by its weak_ptr.
FireByAddress ==
  /\ running.at = "taken"
  /\ IF stage[running.mod] = "enabled"
       THEN running' = [running EXCEPT !.at = "inside"] /\ runs' = [runs EXCEPT ![running.id] = @ + 1]
       ELSE running' = NoRun /\ UNCHANGED runs
  /\ UNCHANGED <<stage, gen, tasks, nextId, queue, submitting>>

\* runTask, after the lock: the mod is re-validated, then called.
Fire ==
  /\ running.at = "taken"
  /\ IF Locks(running.mod, running.gen) /\ stage[running.mod] = "enabled"
       THEN running' = [running EXCEPT !.at = "inside"] /\ runs' = [runs EXCEPT ![running.id] = @ + 1]
       ELSE running' = NoRun /\ UNCHANGED runs
  /\ UNCHANGED <<stage, gen, tasks, nextId, queue, submitting>>

Return ==
  /\ running.at = "inside" /\ \A m \in Mods : stage[m] # "gone"
  /\ running' = NoRun
  /\ UNCHANGED <<stage, gen, tasks, nextId, queue, submitting, runs>>

-----------------------------------------------------------------------------
\* ModManager::enable and disable.
Toggle(m) ==
  /\ MainCode /\ stage[m] \in {"disabled", "enabled"}
  /\ stage' = [stage EXCEPT ![m] = IF @ = "enabled" THEN "disabled" ELSE "enabled"]
  /\ UNCHANGED <<gen, tasks, nextId, queue, submitting, running, runs>>

\* RustModManager::unload as far as schedulerOnRustModGone; a mod that unloads
\* itself under its own task returns into unmapped code and is not modelled.
UnloadGone(m) ==
  /\ MainCode /\ stage[m] = "disabled" /\ running.mod # m
  /\ stage' = [stage EXCEPT ![m] = "gone"]
  /\ tasks' = [k \in Ids |-> IF k \in TasksOf(m) THEN None ELSE tasks[k]]
  /\ UNCHANGED <<gen, nextId, queue, submitting, running, runs>>

\* lib.free() and eraseMod.
UnloadFree(m) ==
  /\ stage[m] = "gone"
  /\ stage' = [stage EXCEPT ![m] = "absent"]
  /\ UNCHANGED <<gen, tasks, nextId, queue, submitting, running, runs>>

Load(m) ==
  /\ MainCode /\ stage[m] = "absent" /\ gen[m] < MaxGen
  /\ stage' = [stage EXCEPT ![m] = "disabled"]
  /\ gen' = [gen EXCEPT ![m] = @ + 1]
  /\ UNCHANGED <<tasks, nextId, queue, submitting, running, runs>>

Next ==
  \/ \E m \in Mods : \/ Schedule(m) \/ Toggle(m) \/ UnloadGone(m) \/ UnloadFree(m) \/ Load(m)
                     \/ \E w \in Workers : SubmitLock(w, m)
                     \/ \E k \in Ids : Cancel(m, k)
  \/ \E w \in Workers : SubmitRegister(w) \/ SubmitExecute(w)
  \/ \E c \in queue : Take(c)
  \/ Fire \/ Return

Spec == Init /\ [][Next]_vars

\* The executor runs every closure in the end, tasks return, and an unload and
\* a schedule call in progress go on.
Fairness ==
  /\ \A k \in Ids : SF_vars(\E c \in queue : c.id = k /\ Take(c))
  /\ WF_vars(Fire) /\ SF_vars(Return)
  /\ \A m \in Mods : WF_vars(UnloadFree(m))
  /\ \A w \in Workers : WF_vars(SubmitExecute(w))

FairSpec == Spec /\ Fairness
-----------------------------------------------------------------------------
\* A task is entered only in the very RustMod object that scheduled it, mapped
\* and enabled (LeviRsAbi.h:1753-1757), whatever the workers do.
RunsInItsMod ==
  [][running'.at = "inside" /\ running.at = "taken" =>
       stage[running.mod] = "enabled" /\ gen[running.mod] = running.gen]_vars

\* A task is entered at most once and never after it was dropped.
Ticket == INSTANCE OneShot WITH
  Tickets <- Ids,
  status <- [k \in Ids |->
    IF runs[k] > 1 THEN "fired twice"
    ELSE IF runs[k] = 1 THEN "fired"
    ELSE IF Pending(k) \/ running.id = k THEN "pending"
    ELSE IF k < nextId THEN "dropped" ELSE "unborn"]

OnceOrNever == Ticket!ASpec

\* Every task scheduled is run or dropped in the end.
TasksSettle == \A k \in Ids : Pending(k) ~> ~Pending(k)
=============================================================================
