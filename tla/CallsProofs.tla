----------------------------- MODULE CallsProofs -----------------------------
(***************************************************************************)
(* Theorems about what the loader calls for a mod, for every value of the  *)
(* constants: a task is a one-shot ticket and runs only in the object that *)
(* owns it, and so is a form; and what is in a form comes back as it was   *)
(* filled in.                                                              *)
(***************************************************************************)
EXTENDS MCCalls, ListProofs

-----------------------------------------------------------------------------
(* Tasks.                                                                  *)

Closures == [id : Ids, mod : Mods, gen : Nat]
Calls == [id : Ids \cup {0}, mod : Mods \cup {None}, gen : Nat]
Runs == [id : Ids \cup {0}, mod : Mods \cup {None}, gen : Nat, at : {"idle", "taken", "inside"}]

TaskTypes ==
  /\ stage \in [Mods -> {"absent", "disabled", "enabled", "gone"}]
  /\ gen \in [Mods -> Nat]
  /\ tasks \in [Ids -> Mods \cup {None}]
  /\ nextId \in Nat \ {0}
  /\ queue \subseteq Closures
  /\ submitting \in [Workers -> Calls]
  /\ \A w \in Workers : submitting[w] # Idle => submitting[w].mod \in Mods
  /\ running \in Runs
  /\ runs \in [Ids -> Nat]

\* A ticket in the table has not run, and is not about to; the one taken out has not
\* been entered, and once it is, it is entered for the first time.
TicketsOnce ==
  /\ \A k \in Ids : runs[k] <= 1
  /\ \A k \in Ids : Pending(k) => k < nextId /\ runs[k] = 0 /\ running.id # k
  /\ \A k \in Ids : k >= nextId => runs[k] = 0 /\ running.id # k
  /\ running.at = "idle" <=> running.id = 0
  /\ running.at = "taken" => runs[running.id] = 0
  /\ running.at = "inside" => runs[running.id] = 1

TaskInv == TaskTypes /\ TicketsOnce

LEMMA TasksBegin == Init => TaskInv
BY SchedulerAssumption
   DEF Init, TaskInv, TaskTypes, TicketsOnce, Idle, NoRun, Ids, Pending, Calls, Runs

\* What the abstract ticket is.
StatusOf(k) ==
  IF runs[k] > 1 THEN "fired twice"
  ELSE IF runs[k] = 1 THEN "fired"
  ELSE IF Pending(k) \/ running.id = k THEN "pending"
  ELSE IF k < nextId THEN "dropped" ELSE "unborn"
StatusNow == [k \in Ids |-> StatusOf(k)]

\* The abstract action, in terms of the tickets.
LEMMA AbstractSteps ==
  ASSUME \/ \E k \in Ids : /\ StatusOf(k) = "unborn" /\ StatusOf(k)' = "pending"
                           /\ \A j \in Ids \ {k} : StatusOf(j)' = StatusOf(j)
         \/ \E k \in Ids : /\ StatusOf(k) = "pending" /\ StatusOf(k)' = "fired"
                           /\ \A j \in Ids \ {k} : StatusOf(j)' = StatusOf(j)
         \/ \E ks \in SUBSET Ids :
              /\ \A k \in ks : StatusOf(k) = "pending" /\ StatusOf(k)' = "dropped"
              /\ \A j \in Ids \ ks : StatusOf(j)' = StatusOf(j)
  PROVE  [Ticket!ANext]_StatusNow
<1> DEFINE now == [k \in Ids |-> StatusOf(k)]
           next == [k \in Ids |-> StatusOf(k)']
<1>1. StatusNow = now /\ StatusNow' = next
  BY DEF StatusNow
<1>2. ASSUME NEW k \in Ids, StatusOf(k) = "unborn", StatusOf(k)' = "pending",
             \A j \in Ids \ {k} : StatusOf(j)' = StatusOf(j)
      PROVE  Ticket!Issue(k)
  BY <1>2 DEF Ticket!Issue, StatusOf
<1>3. ASSUME NEW k \in Ids, StatusOf(k) = "pending", StatusOf(k)' = "fired",
             \A j \in Ids \ {k} : StatusOf(j)' = StatusOf(j)
      PROVE  Ticket!Fire(k)
  BY <1>3 DEF Ticket!Fire, StatusOf
<1>4. ASSUME NEW ks \in SUBSET Ids,
             \A k \in ks : StatusOf(k) = "pending" /\ StatusOf(k)' = "dropped",
             \A j \in Ids \ ks : StatusOf(j)' = StatusOf(j)
      PROVE  Ticket!Drop(ks)
  BY <1>4 DEF Ticket!Drop, StatusOf
<1> QED
  BY <1>2, <1>3, <1>4 DEF Ticket!ANext

-----------------------------------------------------------------------------
\* Every ticket is known by its entry, its run, the closure taken and the counter.
SameTickets == \A k \in Ids : StatusOf(k)' = StatusOf(k)

LEMMA TicketsStand ==
  ASSUME SameTickets PROVE [Ticket!ANext]_StatusNow
<1>1. {} \in SUBSET Ids
  OBVIOUS
<1> QED
  BY <1>1, AbstractSteps DEF SameTickets

LEMMA StatusDomain == \A k \in Ids : k \in Int /\ k >= 1 /\ k # 0
BY SchedulerAssumption DEF Ids

\* registerTask issues the next ticket.
LEMMA Registered ==
  ASSUME TaskInv, NEW m \in Mods, RegisterTask(m), UNCHANGED <<running, runs>>
  PROVE  /\ tasks' \in [Ids -> Mods \cup {None}] /\ nextId' \in Nat \ {0}
         /\ nextId \in Ids
         /\ TicketsOnce'
         /\ [Ticket!ANext]_StatusNow
<1>1. nextId \in Ids /\ nextId' = nextId + 1 /\ nextId \in Nat
  BY SchedulerAssumption DEF TaskInv, TaskTypes, RegisterTask, Ids
<1>2. tasks' \in [Ids -> Mods \cup {None}] /\ tasks'[nextId] = m /\ m # None
      /\ \A k \in Ids \ {nextId} : tasks'[k] = tasks[k]
  BY <1>1, SchedulerAssumption DEF TaskInv, TaskTypes, RegisterTask
<1>3. TicketsOnce'
  BY <1>1, <1>2, StatusDomain DEF TaskInv, TaskTypes, TicketsOnce, Pending, Runs
<1>4. PICK k \in Ids : k = nextId
  BY <1>1
<1>5. StatusOf(k) = "unborn" /\ StatusOf(k)' = "pending"
  BY <1>1, <1>2, <1>4 DEF TaskInv, TaskTypes, TicketsOnce, Pending, StatusOf
<1>6. ASSUME NEW j \in Ids \ {k} PROVE StatusOf(j)' = StatusOf(j)
  <2>1. (j < nextId) = (j < nextId')
    BY <1>1, <1>4, <1>6, StatusDomain
  <2>2. Pending(j)' = Pending(j) /\ runs' = runs /\ running' = running
    BY <1>2, <1>4, <1>6 DEF Pending
  <2> QED
    BY <2>1, <2>2 DEF StatusOf
<1>7. [Ticket!ANext]_StatusNow
  BY <1>5, <1>6, AbstractSteps
<1> QED
  BY <1>1, <1>2, <1>3, <1>7

LEMMA ScheduleStep ==
  ASSUME TaskInv, NEW m \in Mods, Schedule(m)
  PROVE  TaskInv' /\ [Ticket!ANext]_StatusNow
<1>1. RegisterTask(m) /\ UNCHANGED <<running, runs>>
  BY DEF Schedule
<1>2. [id |-> nextId, mod |-> m, gen |-> gen[m]] \in Closures
  BY <1>1, Registered DEF Closures, TaskInv, TaskTypes
<1> QED
  BY <1>1, <1>2, Registered DEF Schedule, TaskInv, TaskTypes

LEMMA SubmitLockStep ==
  ASSUME TaskInv, NEW w \in Workers, NEW m \in Mods, SubmitLock(w, m)
  PROVE  TaskInv' /\ [Ticket!ANext]_StatusNow
<1>1. SameTickets
  BY DEF SubmitLock, SameTickets, StatusOf, Pending
<1>2. [id |-> 0, mod |-> m, gen |-> gen[m]] \in Calls
  BY DEF Calls, TaskInv, TaskTypes
<1>3. TaskTypes'
  BY <1>2 DEF SubmitLock, TaskInv, TaskTypes
<1>4. TicketsOnce'
  BY DEF SubmitLock, TaskInv, TicketsOnce, Pending
<1> QED
  BY <1>1, <1>3, <1>4, TicketsStand DEF TaskInv

LEMMA SubmitRegisterStep ==
  ASSUME TaskInv, NEW w \in Workers, SubmitRegister(w)
  PROVE  TaskInv' /\ [Ticket!ANext]_StatusNow
<1>1. PICK m \in Mods : m = submitting[w].mod
  BY DEF SubmitRegister, TaskInv, TaskTypes
<1>2. RegisterTask(m) /\ UNCHANGED <<running, runs>>
  BY <1>1 DEF SubmitRegister
<1>3. submitting[w] \in Calls /\ nextId \in Ids
  BY <1>2, Registered DEF TaskInv, TaskTypes
<1>4. submitting' = [submitting EXCEPT ![w] = [submitting[w] EXCEPT !.id = nextId]]
  BY DEF SubmitRegister
<1>5. [submitting[w] EXCEPT !.id = nextId] \in Calls /\ [submitting[w] EXCEPT !.id = nextId].mod = m
  BY <1>1, <1>3 DEF Calls
<1>6. submitting' \in [Workers -> Calls]
      /\ \A v \in Workers : submitting'[v] # Idle => submitting'[v].mod \in Mods
  BY <1>4, <1>5 DEF TaskInv, TaskTypes
<1> QED
  BY <1>2, <1>6, Registered DEF SubmitRegister, TaskInv, TaskTypes

LEMMA SubmitExecuteStep ==
  ASSUME TaskInv, NEW w \in Workers, SubmitExecute(w)
  PROVE  TaskInv' /\ [Ticket!ANext]_StatusNow
<1>1. SameTickets
  BY DEF SubmitExecute, SameTickets, StatusOf, Pending
<1>2. submitting[w] \in Calls /\ submitting[w].id # 0
  BY DEF SubmitExecute, TaskInv, TaskTypes
<1>3. submitting[w].mod \in Mods
  BY <1>2 DEF TaskInv, TaskTypes, Idle
<1>4. submitting[w] \in Closures
  BY <1>2, <1>3 DEF Calls, Closures
<1>5. Idle \in Calls
  BY DEF Idle, Calls
<1>6. TaskTypes'
  BY <1>4, <1>5 DEF SubmitExecute, TaskInv, TaskTypes
<1>7. TicketsOnce'
  BY DEF SubmitExecute, TaskInv, TicketsOnce, Pending
<1> QED
  BY <1>1, <1>6, <1>7, TicketsStand DEF TaskInv

LEMMA CancelStep ==
  ASSUME TaskInv, NEW m \in Mods, NEW k \in Ids, Cancel(m, k)
  PROVE  TaskInv' /\ [Ticket!ANext]_StatusNow
<1>1. tasks' \in [Ids -> Mods \cup {None}] /\ tasks'[k] = None /\ tasks[k] # None
      /\ \A j \in Ids \ {k} : tasks'[j] = tasks[j]
  BY SchedulerAssumption DEF Cancel, TaskInv, TaskTypes
<1>2. TaskTypes'
  BY <1>1 DEF Cancel, TaskInv, TaskTypes
<1>3. TicketsOnce'
  BY <1>1 DEF Cancel, TaskInv, TicketsOnce, Pending
<1>4. StatusOf(k) = "pending" /\ StatusOf(k)' = "dropped"
  BY <1>1 DEF Cancel, TaskInv, TicketsOnce, Pending, StatusOf
<1>5. ASSUME NEW j \in Ids \ {k} PROVE StatusOf(j)' = StatusOf(j)
  BY <1>1, <1>5 DEF Cancel, StatusOf, Pending
<1>6. {k} \in SUBSET Ids
  OBVIOUS
<1> QED
  BY <1>2, <1>3, <1>4, <1>5, <1>6, AbstractSteps DEF TaskInv

LEMMA TakeStep ==
  ASSUME TaskInv, NEW c \in queue, Take(c)
  PROVE  TaskInv' /\ [Ticket!ANext]_StatusNow
<1>1. c \in Closures /\ running = NoRun
  BY DEF Take, TaskInv, TaskTypes
<1>2. CASE ~Pending(c.id)
  <2>1. UNCHANGED <<stage, gen, tasks, nextId, submitting, running, runs>> /\ queue' \subseteq queue
    BY <1>2 DEF Take
  <2>2. SameTickets
    BY <2>1 DEF SameTickets, StatusOf, Pending
  <2>3. TaskInv'
    BY <2>1 DEF TaskInv, TaskTypes, TicketsOnce, Pending
  <2> QED
    BY <2>2, <2>3, TicketsStand
<1>3. CASE Pending(c.id)
  <2> DEFINE k == c.id
             r == [id |-> c.id, mod |-> c.mod, gen |-> c.gen, at |-> "taken"]
  <2>1. k \in Ids /\ r \in Runs
    BY <1>1 DEF Closures, Runs
  <2>2. /\ tasks' \in [Ids -> Mods \cup {None}] /\ tasks'[k] = None
        /\ \A j \in Ids \ {k} : tasks'[j] = tasks[j]
        /\ running' = r /\ queue' \subseteq queue
        /\ UNCHANGED <<stage, gen, nextId, submitting, runs>>
    BY <1>3, <2>1 DEF Take, TaskInv, TaskTypes
  <2>3. TaskTypes'
    BY <2>1, <2>2 DEF TaskInv, TaskTypes
  <2>4. running'.id = k /\ running'.at = "taken" /\ running.id = 0
    BY <1>1, <2>2 DEF NoRun
  <2>5. runs[k] = 0 /\ k < nextId
    BY <1>3, <2>1 DEF TaskInv, TicketsOnce
  <2>6. TicketsOnce'
    BY <2>1, <2>2, <2>4, <2>5, StatusDomain DEF TaskInv, TaskTypes, TicketsOnce, Pending
  <2>7. SameTickets
    BY <1>3, <2>1, <2>2, <2>4, <2>5, StatusDomain DEF SameTickets, StatusOf, Pending
  <2> QED
    BY <2>3, <2>6, <2>7, TicketsStand DEF TaskInv
<1> QED
  BY <1>2, <1>3

LEMMA FireStep ==
  ASSUME TaskInv, Fire
  PROVE  TaskInv' /\ [Ticket!ANext]_StatusNow
<1>0. PICK k \in Ids : k = running.id
  BY DEF Fire, TaskInv, TaskTypes, TicketsOnce, Runs
<1>1. running \in Runs /\ runs[k] = 0 /\ ~Pending(k)
  BY <1>0 DEF Fire, TaskInv, TaskTypes, TicketsOnce, Runs
<1>2. StatusOf(k) = "pending" /\ k < nextId
  BY <1>0, <1>1 DEF StatusOf, TaskInv, TaskTypes, TicketsOnce, Ids
<1>3. CASE running' = [running EXCEPT !.at = "inside"] /\ runs' = [runs EXCEPT ![running.id] = @ + 1]
  <2>1. /\ running' \in Runs /\ running'.id = k /\ running'.at = "inside"
        /\ runs' \in [Ids -> Nat] /\ runs'[k] = 1
        /\ \A j \in Ids \ {k} : runs'[j] = runs[j]
    BY <1>0, <1>1, <1>3 DEF Runs, TaskInv, TaskTypes
  <2>2. TaskTypes'
    BY <1>0, <2>1 DEF Fire, TaskInv, TaskTypes
  <2>3. TicketsOnce'
    BY <1>0, <1>1, <1>2, <2>1, StatusDomain DEF Fire, TaskInv, TaskTypes, TicketsOnce, Pending
  <2>4. StatusOf(k)' = "fired"
    BY <1>0, <2>1 DEF StatusOf
  <2>5. ASSUME NEW j \in Ids \ {k} PROVE StatusOf(j)' = StatusOf(j)
    BY <1>0, <2>1, <2>5 DEF Fire, StatusOf, Pending
  <2> QED
    BY <1>0, <1>1, <1>2, <2>2, <2>3, <2>4, <2>5, AbstractSteps DEF TaskInv
<1>4. CASE running' = NoRun /\ UNCHANGED runs
  <2>1. running' \in Runs /\ running'.id = 0 /\ running'.at = "idle"
    BY <1>0, <1>4 DEF Runs, NoRun
  <2>2. TaskTypes'
    BY <1>0, <1>4, <2>1 DEF Fire, TaskInv, TaskTypes
  <2>3. TicketsOnce'
    BY <1>0, <1>4, <2>1, StatusDomain DEF Fire, TaskInv, TicketsOnce, Pending
  <2>4. StatusOf(k)' = "dropped"
    BY <1>0, <1>1, <1>2, <1>4, <2>1, StatusDomain DEF Fire, StatusOf, Pending
  <2>5. ASSUME NEW j \in Ids \ {k} PROVE StatusOf(j)' = StatusOf(j)
    BY <1>0, <1>1, <1>4, <2>1, <2>5, StatusDomain DEF Fire, StatusOf, Pending
  <2>6. {k} \in SUBSET Ids
    BY <1>0, <1>1
  <2> QED
    BY <1>2, <2>2, <2>3, <2>4, <2>5, <2>6, AbstractSteps DEF TaskInv
<1> QED
  BY <1>3, <1>4 DEF Fire

LEMMA ReturnStep ==
  ASSUME TaskInv, Return
  PROVE  TaskInv' /\ [Ticket!ANext]_StatusNow
<1>1. running \in Runs /\ running.id \in Ids /\ runs[running.id] = 1
  BY DEF Return, TaskInv, TaskTypes, TicketsOnce, Runs
<1>2. running' \in Runs /\ running'.id = 0 /\ running'.at = "idle"
  BY DEF Return, Runs, NoRun
<1>3. TaskTypes'
  BY <1>2 DEF Return, TaskInv, TaskTypes
<1>4. TicketsOnce'
  BY <1>2, StatusDomain DEF Return, TaskInv, TicketsOnce, Pending
<1>5. SameTickets
  BY <1>1, <1>2, StatusDomain DEF Return, SameTickets, StatusOf, Pending, TaskInv, TaskTypes
<1> QED
  BY <1>3, <1>4, <1>5, TicketsStand DEF TaskInv

\* What moves a mod's stage and not its tickets.
LEMMA StageStep ==
  ASSUME TaskInv, NEW m \in Mods, Toggle(m) \/ UnloadFree(m) \/ Load(m)
  PROVE  TaskInv' /\ [Ticket!ANext]_StatusNow
<1>1. UNCHANGED <<tasks, nextId, queue, submitting, running, runs>>
  BY DEF Toggle, UnloadFree, Load
<1>2. /\ stage' \in [Mods -> {"absent", "disabled", "enabled", "gone"}]
      /\ gen' \in [Mods -> Nat]
  BY DEF Toggle, UnloadFree, Load, TaskInv, TaskTypes
<1>3. TaskInv'
  BY <1>1, <1>2 DEF TaskInv, TaskTypes, TicketsOnce, Pending
<1>4. SameTickets
  BY <1>1 DEF SameTickets, StatusOf, Pending
<1> QED
  BY <1>3, <1>4, TicketsStand

LEMMA UnloadGoneStep ==
  ASSUME TaskInv, NEW m \in Mods, UnloadGone(m)
  PROVE  TaskInv' /\ [Ticket!ANext]_StatusNow
<1> DEFINE ks == TasksOf(m)
<1>1. /\ tasks' \in [Ids -> Mods \cup {None}]
      /\ \A k \in ks : tasks'[k] = None /\ tasks[k] # None
      /\ \A j \in Ids \ ks : tasks'[j] = tasks[j]
      /\ ks \in SUBSET Ids
  BY SchedulerAssumption DEF UnloadGone, TaskInv, TaskTypes, TasksOf
<1>2. UNCHANGED <<gen, nextId, queue, submitting, running, runs>>
      /\ stage' \in [Mods -> {"absent", "disabled", "enabled", "gone"}]
  BY DEF UnloadGone, TaskInv, TaskTypes
<1>3. TaskTypes'
  BY <1>1, <1>2 DEF TaskInv, TaskTypes
<1> HIDE DEF ks
<1>4. \A k \in Ids : tasks'[k] = tasks[k] \/ tasks'[k] = None
  BY <1>1
<1>5. TicketsOnce'
  BY <1>2, <1>4 DEF TaskInv, TicketsOnce, Pending
<1>6. ASSUME NEW k \in ks PROVE StatusOf(k) = "pending" /\ StatusOf(k)' = "dropped"
  <2>1. k \in Ids /\ Pending(k) /\ ~Pending(k)'
    BY <1>1, <1>6 DEF Pending
  <2>2. runs[k] = 0 /\ k < nextId /\ running.id # k
    BY <2>1 DEF TaskInv, TicketsOnce
  <2> QED
    BY <1>2, <2>1, <2>2 DEF StatusOf
<1>7. ASSUME NEW j \in Ids \ ks PROVE StatusOf(j)' = StatusOf(j)
  BY <1>1, <1>2, <1>7 DEF StatusOf, Pending
<1> QED
  BY <1>1, <1>3, <1>5, <1>6, <1>7, AbstractSteps DEF TaskInv

LEMMA TaskStep ==
  ASSUME TaskInv, [Next]_vars
  PROVE  TaskInv' /\ [Ticket!ANext]_StatusNow
<1>1. CASE UNCHANGED vars
  <2>1. SameTickets
    BY <1>1 DEF vars, SameTickets, StatusOf, Pending
  <2>2. TaskInv'
    BY <1>1 DEF vars, TaskInv, TaskTypes, TicketsOnce, Pending
  <2> QED
    BY <2>1, <2>2, TicketsStand
<1>2. ASSUME NEW m \in Mods,
             \/ Schedule(m) \/ Toggle(m) \/ UnloadGone(m) \/ UnloadFree(m) \/ Load(m)
             \/ \E w \in Workers : SubmitLock(w, m)
             \/ \E k \in Ids : Cancel(m, k)
      PROVE  TaskInv' /\ [Ticket!ANext]_StatusNow
  BY <1>2, ScheduleStep, StageStep, UnloadGoneStep, SubmitLockStep, CancelStep
<1>3. ASSUME NEW w \in Workers, SubmitRegister(w) \/ SubmitExecute(w)
      PROVE  TaskInv' /\ [Ticket!ANext]_StatusNow
  BY <1>3, SubmitRegisterStep, SubmitExecuteStep
<1> QED
  BY <1>1, <1>2, <1>3, TakeStep, FireStep, ReturnStep DEF Next

\* A task the executor gets is entered at most once, and never after it was
\* cancelled or dropped with its mod, whatever workers schedule and cancel while
\* the server thread takes, runs and unloads.
THEOREM OnceOrNeverTheorem == Spec => OnceOrNever
<1> DEFINE status == [k \in Ids |->
      IF runs[k] > 1 THEN "fired twice"
      ELSE IF runs[k] = 1 THEN "fired"
      ELSE IF Pending(k) \/ running.id = k THEN "pending"
      ELSE IF k < nextId THEN "dropped" ELSE "unborn"]
<1>1. StatusNow = status /\ StatusNow' = status'
  BY DEF StatusNow, StatusOf
<1>2. Init => Ticket!AInit
  BY StatusDomain DEF Init, Ticket!AInit, Pending, NoRun, Ids
<1>3. TaskInv /\ [Next]_vars => TaskInv' /\ [Ticket!ANext]_status
  BY <1>1, TaskStep
<1> QED
  BY <1>2, <1>3, TasksBegin, PTL DEF Spec, OnceOrNever, Ticket!ASpec

\* A task is entered only in the very object that scheduled it, and only while
\* that mod is enabled: the closure re-validates the mod after the ticket is taken.
THEOREM RunsInItsModTheorem == Spec => RunsInItsMod
<1>1. ASSUME [Next]_vars PROVE
        [running'.at = "inside" /\ running.at = "taken" =>
           stage[running.mod] = "enabled" /\ gen[running.mod] = running.gen]_vars
  <2>1. ASSUME Next, running'.at = "inside", running.at = "taken"
        PROVE  stage[running.mod] = "enabled" /\ gen[running.mod] = running.gen
    <3>1. running # NoRun /\ running' # running
      BY <2>1 DEF NoRun
    <3>2. Fire
      BY <2>1, <3>1 DEF Next, Schedule, Toggle, UnloadGone, UnloadFree, Load, SubmitLock, Cancel,
                        SubmitRegister, SubmitExecute, Take, Return
    <3> QED
      BY <2>1, <3>2 DEF Fire, Locks, NoRun
  <2> QED
    BY <1>1, <2>1
<1> QED
  BY <1>1, PTL DEF Spec, RunsInItsMod

-----------------------------------------------------------------------------
(* Forms.                                                                  *)

Shows == [ticket : Form!Tickets, player : Players, mod : Mods, gen : Nat]

FormTypes ==
  /\ formGen \in [Mods -> Nat]
  /\ forms \in [Form!Tickets -> Mods \cup {None}]
  /\ nextTicket \in Nat \ {0}
  /\ shown \subseteq Shows
  /\ fired \in [Form!Tickets -> Nat]

\* A ticket in the table was issued, and its callback has not been entered; what was not
\* issued was not entered either.
FormTickets ==
  /\ \A k \in Form!Tickets : fired[k] <= 1
  /\ \A k \in Form!Tickets : Form!Pending(k) => k < nextTicket /\ fired[k] = 0
  /\ \A k \in Form!Tickets : k >= nextTicket => fired[k] = 0

FormInv == FormTypes /\ FormTickets

LEMMA FormDomain == \A k \in Form!Tickets : k \in Int /\ k >= 1
BY FormsAssumption DEF Form!Tickets

LEMMA FormsBegin == Form!Init => FormInv
BY FormDomain, SchedulerAssumption
   DEF Form!Init, FormInv, FormTypes, FormTickets, Form!Pending, Shows

\* What the abstract ticket of a form is.
FormStatusOf(k) ==
  IF fired[k] > 1 THEN "fired twice"
  ELSE IF fired[k] = 1 THEN "fired"
  ELSE IF Form!Pending(k) THEN "pending"
  ELSE IF k < nextTicket THEN "dropped" ELSE "unborn"
FormStatusNow == [k \in Form!Tickets |-> FormStatusOf(k)]

\* One ticket changes in a way the abstract specification has, or a set of pending ones
\* is dropped.
LEMMA AbstractFormSteps ==
  ASSUME \/ \E k \in Form!Tickets :
              /\ <<FormStatusOf(k), FormStatusOf(k)'>> \in
                   {<<"unborn", "pending">>, <<"pending", "fired">>, <<"unborn", "dropped">>}
              /\ \A j \in Form!Tickets \ {k} : FormStatusOf(j)' = FormStatusOf(j)
         \/ \E ks \in SUBSET Form!Tickets :
              /\ \A k \in ks : FormStatusOf(k) = "pending" /\ FormStatusOf(k)' = "dropped"
              /\ \A j \in Form!Tickets \ ks : FormStatusOf(j)' = FormStatusOf(j)
  PROVE  [Form!Ticket!ANext]_FormStatusNow
<1> DEFINE now == [k \in Form!Tickets |-> FormStatusOf(k)]
           next == [k \in Form!Tickets |-> FormStatusOf(k)']
<1>1. FormStatusNow = now /\ FormStatusNow' = next
  BY DEF FormStatusNow
<1>2. ASSUME NEW k \in Form!Tickets, FormStatusOf(k) = "unborn", FormStatusOf(k)' = "pending",
             \A j \in Form!Tickets \ {k} : FormStatusOf(j)' = FormStatusOf(j)
      PROVE  Form!Ticket!Issue(k)
  BY <1>2 DEF Form!Ticket!Issue, FormStatusOf
<1>3. ASSUME NEW k \in Form!Tickets, FormStatusOf(k) = "pending", FormStatusOf(k)' = "fired",
             \A j \in Form!Tickets \ {k} : FormStatusOf(j)' = FormStatusOf(j)
      PROVE  Form!Ticket!Fire(k)
  BY <1>3 DEF Form!Ticket!Fire, FormStatusOf
<1>4. ASSUME NEW k \in Form!Tickets, FormStatusOf(k) = "unborn", FormStatusOf(k)' = "dropped",
             \A j \in Form!Tickets \ {k} : FormStatusOf(j)' = FormStatusOf(j)
      PROVE  Form!Ticket!Refuse(k)
  BY <1>4 DEF Form!Ticket!Refuse, FormStatusOf
<1>5. ASSUME NEW ks \in SUBSET Form!Tickets,
             \A k \in ks : FormStatusOf(k) = "pending" /\ FormStatusOf(k)' = "dropped",
             \A j \in Form!Tickets \ ks : FormStatusOf(j)' = FormStatusOf(j)
      PROVE  Form!Ticket!Drop(ks)
  BY <1>5 DEF Form!Ticket!Drop, FormStatusOf
<1> QED
  BY <1>2, <1>3, <1>4, <1>5 DEF Form!Ticket!ANext

SameForms == \A k \in Form!Tickets : FormStatusOf(k)' = FormStatusOf(k)

LEMMA FormsStand ==
  ASSUME SameForms PROVE [Form!Ticket!ANext]_FormStatusNow
<1>1. {} \in SUBSET Form!Tickets
  OBVIOUS
<1> QED
  BY <1>1, AbstractFormSteps DEF SameForms

\* form_send: the ticket is there for the answer, or it is refused in the call.
LEMMA SendStep ==
  ASSUME FormInv, NEW m \in Mods, NEW p \in Players, NEW kind \in Form!Kinds,
         NEW result \in Form!Results, Form!Send(m, p, kind, result)
  PROVE  FormInv' /\ [Form!Ticket!ANext]_FormStatusNow
<1>1. nextTicket \in Form!Tickets /\ nextTicket' = nextTicket + 1 /\ nextTicket \in Nat
      /\ UNCHANGED <<formGen, fired>>
  BY FormsAssumption DEF FormInv, FormTypes, Form!Send, Form!Tickets
<1>2. \/ forms' = forms
      \/ forms' = [forms EXCEPT ![nextTicket] = m]
  BY DEF Form!Send
<1>3. /\ forms' \in [Form!Tickets -> Mods \cup {None}] /\ forms'[nextTicket] \in {None, m}
      /\ \A k \in Form!Tickets \ {nextTicket} : forms'[k] = forms[k]
  BY <1>1, <1>2 DEF FormInv, FormTypes, FormTickets, Form!Pending
<1>4. shown' \subseteq Shows
  <2>1. [ticket |-> nextTicket, player |-> p, mod |-> m, gen |-> formGen[m]] \in Shows
    BY <1>1 DEF Shows, FormInv, FormTypes
  <2> QED
    BY <2>1 DEF Form!Send, FormInv, FormTypes
<1>5. FormInv'
  BY <1>1, <1>3, <1>4, FormDomain DEF FormInv, FormTypes, FormTickets, Form!Pending
<1>6. PICK k \in Form!Tickets : k = nextTicket
  BY <1>1
<1>7. /\ FormStatusOf(k) = "unborn"
      /\ FormStatusOf(k)' = "pending" \/ FormStatusOf(k)' = "dropped"
  BY <1>1, <1>3, <1>6 DEF FormInv, FormTypes, FormTickets, Form!Pending, FormStatusOf
<1>8. ASSUME NEW j \in Form!Tickets \ {k} PROVE FormStatusOf(j)' = FormStatusOf(j)
  <2>1. (j < nextTicket) = (j < nextTicket')
    BY <1>1, <1>6, <1>8, FormDomain
  <2>2. Form!Pending(j)' = Form!Pending(j) /\ fired' = fired
    BY <1>1, <1>3, <1>6, <1>8 DEF Form!Pending
  <2> QED
    BY <2>1, <2>2 DEF FormStatusOf
<1> QED
  BY <1>5, <1>7, <1>8, AbstractFormSteps

\* completeTicket: whether or not the mod may be called, its ticket is gone.
LEMMA CompleteStep ==
  ASSUME FormInv, NEW c \in shown, NEW again \in BOOLEAN, Form!Complete(c, again)
  PROVE  FormInv' /\ [Form!Ticket!ANext]_FormStatusNow
<1>1. PICK k \in Form!Tickets : k = c.ticket
  BY DEF FormInv, FormTypes, Shows
<1>2. shown' \subseteq Shows /\ UNCHANGED <<formGen, nextTicket>>
  BY DEF Form!Complete, FormInv, FormTypes
<1>3. CASE ~Form!Pending(k)
  <2>1. UNCHANGED <<forms, fired>>
    BY <1>1, <1>3 DEF Form!Complete
  <2>2. SameForms
    BY <1>2, <2>1 DEF SameForms, FormStatusOf, Form!Pending
  <2>3. FormInv'
    BY <1>2, <2>1 DEF FormInv, FormTypes, FormTickets, Form!Pending
  <2> QED
    BY <2>2, <2>3, FormsStand
<1>4. CASE Form!Pending(k)
  <2>1. /\ forms' \in [Form!Tickets -> Mods \cup {None}] /\ forms'[k] = None
        /\ \A j \in Form!Tickets \ {k} : forms'[j] = forms[j]
    BY <1>1, <1>4 DEF Form!Complete, FormInv, FormTypes
  <2>2. fired[k] = 0 /\ k < nextTicket
    BY <1>4 DEF FormInv, FormTickets
  <2>3. fired' = [fired EXCEPT ![k] = @ + 1] \/ fired' = fired
    BY <1>1, <1>4 DEF Form!Complete
  <2>4. /\ fired' \in [Form!Tickets -> Nat] /\ fired'[k] \in {0, 1}
        /\ \A j \in Form!Tickets \ {k} : fired'[j] = fired[j]
    BY <2>2, <2>3 DEF FormInv, FormTypes
  <2>5. FormInv'
    BY <1>2, <2>1, <2>2, <2>4, FormDomain DEF FormInv, FormTypes, FormTickets, Form!Pending
  <2>6. FormStatusOf(k) = "pending"
        /\ (FormStatusOf(k)' = "fired" \/ FormStatusOf(k)' = "dropped")
    BY <1>2, <1>4, <2>1, <2>2, <2>4 DEF FormStatusOf, Form!Pending
  <2>7. \A j \in Form!Tickets \ {k} : FormStatusOf(j)' = FormStatusOf(j)
    BY <1>2, <2>1, <2>4 DEF FormStatusOf, Form!Pending
  <2>8. {k} \in SUBSET Form!Tickets
    OBVIOUS
  <2>9. CASE FormStatusOf(k)' = "fired"
    BY <2>5, <2>6, <2>7, <2>9, AbstractFormSteps
  <2>10. CASE FormStatusOf(k)' = "dropped"
    BY <2>5, <2>6, <2>7, <2>8, <2>10, AbstractFormSteps
  <2> QED
    BY <2>6, <2>9, <2>10
<1> QED
  BY <1>3, <1>4

\* The tickets stay: a callback returns, players come and go, a mod changes its stage.
LEMMA FormsQuiet ==
  ASSUME FormInv, UNCHANGED <<forms, nextTicket, fired>>,
         formGen' \in [Mods -> Nat], shown' \subseteq shown
  PROVE  FormInv' /\ [Form!Ticket!ANext]_FormStatusNow
<1>1. FormInv'
  BY DEF FormInv, FormTypes, FormTickets, Form!Pending
<1>2. SameForms
  BY DEF SameForms, FormStatusOf, Form!Pending
<1> QED
  BY <1>1, <1>2, FormsStand

\* formsOnRustModGone drops what its mod has pending.
LEMMA FormsGoneStep ==
  ASSUME FormInv, NEW m \in Mods, Form!UnloadGone(m)
  PROVE  FormInv' /\ [Form!Ticket!ANext]_FormStatusNow
<1> DEFINE ks == Form!FormsOf(m)
<1>1. /\ forms' \in [Form!Tickets -> Mods \cup {None}]
      /\ \A k \in ks : forms'[k] = None /\ forms[k] # None
      /\ \A j \in Form!Tickets \ ks : forms'[j] = forms[j]
      /\ ks \in SUBSET Form!Tickets
  BY SchedulerAssumption DEF Form!UnloadGone, FormInv, FormTypes, Form!FormsOf
<1>2. UNCHANGED <<formGen, nextTicket, shown, fired>>
  BY DEF Form!UnloadGone
<1> HIDE DEF ks
<1>3. \A k \in Form!Tickets : forms'[k] = forms[k] \/ forms'[k] = None
  BY <1>1
<1>4. FormInv'
  BY <1>1, <1>2, <1>3 DEF FormInv, FormTypes, FormTickets, Form!Pending
<1>5. ASSUME NEW k \in ks PROVE FormStatusOf(k) = "pending" /\ FormStatusOf(k)' = "dropped"
  <2>1. k \in Form!Tickets /\ Form!Pending(k) /\ ~Form!Pending(k)'
    BY <1>1, <1>5 DEF Form!Pending
  <2>2. fired[k] = 0 /\ k < nextTicket
    BY <2>1 DEF FormInv, FormTickets
  <2> QED
    BY <1>2, <2>1, <2>2 DEF FormStatusOf
<1>6. ASSUME NEW j \in Form!Tickets \ ks PROVE FormStatusOf(j)' = FormStatusOf(j)
  BY <1>1, <1>2, <1>6 DEF FormStatusOf, Form!Pending
<1> QED
  BY <1>1, <1>4, <1>5, <1>6, AbstractFormSteps

LEMMA FormStep ==
  ASSUME FormInv, [Form!Next]_formVars
  PROVE  FormInv' /\ [Form!Ticket!ANext]_FormStatusNow
<1>1. CASE UNCHANGED formVars
  BY <1>1, FormsQuiet DEF formVars, FormInv, FormTypes
<1>2. ASSUME NEW m \in Mods, Form!UnloadFree(m) \/ Form!Toggle(m) \/ Form!Load(m)
      PROVE  FormInv' /\ [Form!Ticket!ANext]_FormStatusNow
  <2>1. UNCHANGED <<forms, nextTicket, fired, shown>> /\ formGen' \in [Mods -> Nat]
    BY <1>2 DEF Form!UnloadFree, Form!Toggle, Form!Load, FormInv, FormTypes
  <2> QED
    BY <2>1, FormsQuiet
<1>3. ASSUME NEW p \in Players, Form!Leave(p) \/ Form!Join(p)
      PROVE  FormInv' /\ [Form!Ticket!ANext]_FormStatusNow
  <2>1. /\ UNCHANGED <<forms, nextTicket, fired, formGen>> /\ shown' \subseteq shown
    BY <1>3 DEF Form!Leave, Form!Join
  <2> QED
    BY <2>1, FormsQuiet DEF FormInv, FormTypes
<1>4. CASE Form!Return
  <2>1. UNCHANGED <<forms, nextTicket, fired, formGen, shown>>
    BY <1>4 DEF Form!Return
  <2> QED
    BY <2>1, FormsQuiet DEF FormInv, FormTypes
<1> QED
  BY <1>1, <1>2, <1>3, <1>4, SendStep, CompleteStep, FormsGoneStep DEF Form!Next

\* A step of the composition is one of the forms, or leaves them alone.
LEMMA FormsMove ==
  ASSUME [CallsNext]_<<part, vars, serviceVars, formVars, contentVars>>
  PROVE  [Form!Next]_formVars
BY DEF CallsNext

\* A form's callback runs at most once, and never after its ticket was dropped, however
\* often the client answers; it is entered only in the object that sent the form, and
\* only while that mod is enabled.
THEOREM FormsOnceOrNeverTheorem == CallsSpec => FormsOnceOrNever
<1> DEFINE status == [k \in Form!Tickets |->
      IF fired[k] > 1 THEN "fired twice"
      ELSE IF fired[k] = 1 THEN "fired"
      ELSE IF Form!Pending(k) THEN "pending"
      ELSE IF k < nextTicket THEN "dropped" ELSE "unborn"]
<1>1. FormStatusNow = status /\ FormStatusNow' = status'
  BY DEF FormStatusNow, FormStatusOf
<1>2. Form!Init => Form!Ticket!AInit
  BY FormDomain DEF Form!Init, Form!Ticket!AInit, Form!Pending
<1>3. FormInv /\ [Form!Next]_formVars => FormInv' /\ [Form!Ticket!ANext]_status
  BY <1>1, FormStep
<1>4. ASSUME [Form!Next]_formVars PROVE
        [answering = Form!Idle /\ answering' # Form!Idle =>
           /\ formStage[answering'.mod] = "enabled"
           /\ \E c \in shown : c.ticket = answering'.ticket
                               /\ c.gen = formGen[answering'.mod]]_formVars
  <2>1. ASSUME Form!Next, answering = Form!Idle, answering' # Form!Idle
        PROVE  /\ formStage[answering'.mod] = "enabled"
               /\ \E c \in shown : c.ticket = answering'.ticket
                                   /\ c.gen = formGen[answering'.mod]
    <3>1. PICK c \in shown, again \in BOOLEAN : Form!Complete(c, again)
      BY <2>1 DEF Form!Next, Form!Send, Form!Return, Form!Leave, Form!Join, Form!Toggle,
                  Form!UnloadGone, Form!UnloadFree, Form!Load
    <3>2. /\ formStage[c.mod] = "enabled" /\ formGen[c.mod] = c.gen
          /\ answering' = [ticket |-> c.ticket, mod |-> c.mod]
      BY <2>1, <3>1 DEF Form!Complete
    <3> QED
      BY <3>2
  <2> QED
    BY <1>4, <2>1
<1>5. CallsInit => Form!Init
  BY DEF CallsInit
<1> QED
  BY <1>2, <1>3, <1>4, <1>5, FormsBegin, FormsMove, PTL
  DEF CallsSpec, FormsOnceOrNever, Form!OnceOrNever, Form!MutedWhileDisabled,
      Form!Ticket!ASpec, Form!vars, formVars

-----------------------------------------------------------------------------
(* What is in a form.  First the arithmetic of sliders.                    *)

LEMMA Products ==
  /\ \A x \in Int, y \in Int : x * y \in Int
  /\ \A g \in Int, m \in Int : g > 0 /\ 0 <= g * m /\ g * m < g => m = 0
  /\ \A x \in Int, y \in Int : 0 <= x /\ x <= y => x * x <= y * y
  /\ \A x \in Int : (-x) * (-x) = x * x
<1>1. \A x \in Int, y \in Int : x * y \in Int
  OBVIOUS
<1>2. ASSUME NEW g \in Int, NEW m \in Int, g > 0, 0 <= g * m, g * m < g PROVE m = 0
  <2>1. CASE m >= 1
    BY <1>2, <2>1
  <2>2. CASE m <= -1
    BY <1>2, <2>2
  <2> QED
    BY <2>1, <2>2
<1>3. ASSUME NEW x \in Int, NEW y \in Int, 0 <= x, x <= y PROVE x * x <= y * y
  BY <1>3
<1>4. \A x \in Int : (-x) * (-x) = x * x
  OBVIOUS
<1> QED
  BY <1>1, <1>2, <1>3, <1>4

\* What is nearer by its distance is nearer by its square.
LEMMA NearerSquared ==
  ASSUME NEW x \in Int, NEW y \in Int,
         x <= y \/ x <= -y, -x <= y \/ -x <= -y
  PROVE  x * x <= y * y
<1> DEFINE ax == IF x < 0 THEN -x ELSE x
           ay == IF y < 0 THEN -y ELSE y
<1>1. ax \in Int /\ ay \in Int /\ 0 <= ax /\ ax <= ay
  OBVIOUS
<1>2. ax * ax <= ay * ay
  BY <1>1, Products
<1>3. ax * ax = x * x /\ ay * ay = y * y
  BY Products
<1> QED
  BY <1>2, <1>3

LEMMA Division ==
  ASSUME NEW x \in Int, NEW g \in Int, g > 0
  PROVE  /\ x \div g \in Int /\ x % g \in Int /\ 0 <= x % g /\ x % g < g
         /\ x = g * (x \div g) + (x % g)
OBVIOUS

LEMMA Multiples ==
  ASSUME NEW q \in Int, NEW g \in Int, g > 0
  PROVE  (q * g) % g = 0
<1> DEFINE x == q * g
           k == x \div g
           r == x % g
<1>1. x \in Int /\ k \in Int /\ r \in Int /\ 0 <= r /\ r < g /\ x = g * k + r
  BY Products
<1>2. r = g * (q - k)
  BY <1>1
<1>3. q - k = 0
  BY <1>1, <1>2, Products
<1> QED
  BY <1>1, <1>2, <1>3

LEMMA StepsApart ==
  ASSUME NEW g \in Int, g > 0, NEW j \in Int, NEW k \in Int
  PROVE  j * g \in Int /\ k * g \in Int /\ (j < k => j * g + g <= k * g)
<1>1. j * g \in Int /\ k * g \in Int
  BY Products
<1>2. ASSUME j < k PROVE j * g + g <= k * g
  <2>1. (k - j - 1) * g >= 0
    <3>1. k - j - 1 \in Int /\ k - j - 1 >= 0
      BY <1>2
    <3>2. \A x \in Int : x >= 0 => x * g >= 0
      OBVIOUS
    <3> QED
      BY <3>1, <3>2
  <2>2. (k - j - 1) * g = k * g - j * g - g
    OBVIOUS
  <2> QED
    BY <1>1, <2>1, <2>2
<1> QED
  BY <1>1, <1>2

\* A number on the grid is a number of steps from its lower end.
LEMMA GridIs ==
  ASSUME NEW at, at.min \in Int, at.max \in Int, at.step \in Int, at.step > 0,
         NEW i \in Int, Content!OnGrid(at, i)
  PROVE  \E j \in Int : i = at.min + j * at.step
<1> DEFINE x == i - at.min
           g == at.step
           j == x \div g
<1>1. x \in Int /\ g \in Int /\ g > 0 /\ x % g = 0
  BY DEF Content!OnGrid
<1>2. j \in Int /\ x = g * j + (x % g)
  <2> HIDE DEF x, g
  <2> QED
    BY <1>1, Division
<1>3. x = j * g
  <2> HIDE DEF x, g, j
  <2> QED
    BY <1>1, <1>2
<1>4. i = at.min + x
  OBVIOUS
<1> HIDE DEF x, j, g
<1> QED
  BY <1>2, <1>3, <1>4 DEF g

\* A slider as normalizeSlider leaves it: its range is in the one that was asked for and
\* a whole number of steps long, and its start is the nearest point of the grid.
LEMMA SliderFits ==
  ASSUME NEW e, e.min \in Int, e.max \in Int, e.step \in Int, e.default \in Int
  PROVE  LET at == Content!Slider(e.min, e.max, e.step, e.default) IN
         /\ at.min \in Int /\ at.max \in Int /\ at.step \in Int /\ at.default \in Int
         /\ Content!Fits(at, e)
<1> DEFINE a == e.min
           b == e.max
           s == e.default
           lo == Content!Smaller(a, b)
           span == a + b - 2 * lo
           grain == IF e.step <= 0 THEN 0 ELSE Content!Smaller(e.step, span)
           q == span \div grain
           hi == IF grain = 0 THEN lo + span ELSE lo + q * grain
           near == Content!Clamped(s, lo, hi)
           k == IF grain = 0 THEN 0 ELSE (2 * (near - lo) + grain) \div (2 * grain)
           start == IF grain = 0 THEN near ELSE Content!Clamped(lo + k * grain, lo, hi)
           at == [min |-> lo, max |-> hi, step |-> grain, default |-> start]
<1>1. Content!Slider(a, b, e.step, s) = at
  BY DEF Content!Slider
<1>2. a \in Int /\ b \in Int /\ s \in Int /\ e.step \in Int
  OBVIOUS
<1> HIDE DEF a, b, s
<1>3. /\ lo \in {a, b} /\ lo \in Int /\ lo <= a /\ lo <= b
      /\ span \in Int /\ span >= 0 /\ lo + span \in {a, b}
  BY <1>2 DEF Content!Smaller
<1> HIDE DEF lo
<1>4. grain \in Int /\ 0 <= grain /\ grain <= span
  BY <1>2, <1>3 DEF Content!Smaller
<1> HIDE DEF span, grain
<1>5. grain # 0 => /\ q \in Int /\ q >= 1 /\ q * grain \in Int
                   /\ q * grain <= span /\ grain <= q * grain
  <2> SUFFICES ASSUME grain # 0
               PROVE  /\ q \in Int /\ q >= 1 /\ q * grain \in Int
                      /\ q * grain <= span /\ grain <= q * grain
    OBVIOUS
  <2> DEFINE r == span % grain
  <2>1. q \in Int /\ r \in Int /\ 0 <= r /\ r < grain /\ span = grain * q + r
    BY <1>3, <1>4, Division
  <2> HIDE DEF q, r
  <2>2. q >= 1
    <3> SUFFICES ASSUME q <= 0 PROVE FALSE
      BY <2>1
    <3>1. grain * q <= 0
      BY <1>4, <2>1
    <3> QED
      BY <1>3, <1>4, <2>1, <3>1, Products
  <2>3. grain * q = q * grain /\ q * grain \in Int
    BY <1>4, <2>1
  <2>4. grain <= q * grain
    BY <1>4, <2>1, <2>2
  <2> QED
    BY <1>3, <1>4, <2>1, <2>2, <2>3, <2>4
<1> HIDE DEF q
<1>6. hi \in Int /\ lo <= hi /\ grain <= hi - lo /\ hi <= lo + span
  BY <1>3, <1>4, <1>5
<1>7. Content!OnGrid(at, hi)
  <2>1. grain # 0 => (hi - lo) % grain = 0
    <3> SUFFICES ASSUME grain # 0 PROVE (q * grain) % grain = 0 /\ hi - lo = q * grain
      OBVIOUS
    <3> QED
      BY <1>3, <1>4, <1>5, Multiples
  <2> QED
    BY <1>6, <1>3, <2>1 DEF Content!OnGrid
<1> HIDE DEF hi
<1>8. near \in Int /\ lo <= near /\ near <= hi
      /\ (s < lo => near = lo) /\ (s > hi => near = hi) /\ (lo <= s /\ s <= hi => near = s)
  BY <1>2, <1>3, <1>6 DEF Content!Clamped, Content!Smaller
<1> HIDE DEF near
<1>9. grain > 0 => /\ k \in Int /\ k * grain \in Int /\ 0 <= k /\ k <= q
                   /\ 2 * (k * grain - (near - lo)) <= grain
                   /\ 2 * ((near - lo) - k * grain) <= grain
  <2> SUFFICES ASSUME grain > 0
               PROVE  /\ k \in Int /\ k * grain \in Int /\ 0 <= k /\ k <= q
                      /\ 2 * (k * grain - (near - lo)) <= grain
                      /\ 2 * ((near - lo) - k * grain) <= grain
    OBVIOUS
  <2> DEFINE d == near - lo
             x == 2 * d + grain
             g2 == 2 * grain
             r == x % g2
             p == k * grain
  <2>1. d \in Int /\ 0 <= d /\ d <= q * grain /\ q * grain \in Int /\ q \in Int
    <3>1. hi = lo + q * grain
      BY <1>4 DEF hi
    <3>2. q \in Int /\ q * grain \in Int
      BY <1>4, <1>5
    <3> QED
      BY <1>3, <1>8, <3>1, <3>2
  <2>2. x \in Int /\ g2 \in Int /\ g2 > 0
    BY <1>4, <2>1
  <2>3. k = x \div g2
    OBVIOUS
  <2> HIDE DEF k
  <2>4. k \in Int /\ r \in Int /\ 0 <= r /\ r < g2 /\ x = g2 * k + r
    <3> HIDE DEF x, g2
    <3> QED
      BY <2>2, <2>3, Division DEF r
  <2> HIDE DEF r
  <2>5. p \in Int /\ g2 * k = 2 * p
    BY <1>4, <2>4
  <2> HIDE DEF p
  <2>6. 2 * (p - d) <= grain /\ 2 * (d - p) < grain
    BY <1>4, <2>1, <2>4, <2>5
  <2>7. 0 <= k
    <3> SUFFICES ASSUME k < 0 PROVE FALSE
      BY <2>4
    <3>1. p + grain <= 0 * grain
      BY <1>4, <2>4, StepsApart DEF p
    <3> QED
      BY <1>4, <2>1, <2>5, <2>6, <3>1
  <2>8. k <= q
    <3> SUFFICES ASSUME q < k PROVE FALSE
      BY <2>1, <2>4
    <3>1. q * grain + grain <= p
      BY <1>4, <2>1, <2>4, StepsApart DEF p
    <3> QED
      BY <1>4, <2>1, <2>5, <2>6, <3>1
  <2>9. 2 * (d - p) <= grain
    BY <1>4, <2>1, <2>5, <2>6
  <2> HIDE DEF d
  <2> QED
    BY <2>4, <2>5, <2>6, <2>7, <2>8, <2>9 DEF p, d
<1> HIDE DEF k
\* The start is on the grid.
<1>10. grain > 0 => /\ start = lo + k * grain /\ lo <= start /\ start <= hi
                    /\ hi = lo + q * grain /\ (start - lo) % grain = 0
  <2> SUFFICES ASSUME grain > 0
               PROVE  /\ start = lo + k * grain /\ lo <= start /\ start <= hi
                      /\ hi = lo + q * grain /\ (start - lo) % grain = 0
    OBVIOUS
  <2> DEFINE p == k * grain
             top == q * grain
  <2>1. p \in Int /\ top \in Int /\ q \in Int /\ k \in Int
    BY <1>4, <1>5, <1>9
  <2>2. 0 <= p
    <3>1. k = 0 \/ 0 * grain + grain <= k * grain
      BY <1>4, <1>9, <2>1, StepsApart
    <3> QED
      BY <1>4, <2>1, <3>1
  <2>3. p <= top
    <3>1. k = q \/ k * grain + grain <= q * grain
      BY <1>4, <1>9, <2>1, StepsApart
    <3> QED
      BY <1>4, <2>1, <3>1
  <2>4. hi = lo + top
    BY <1>4, <1>5 DEF hi
  <2>5. p % grain = 0
    BY <1>4, <2>1, Multiples
  <2> HIDE DEF p, top
  <2>6. Content!Clamped(lo + p, lo, hi) = lo + p /\ (lo + p) - lo = p
    BY <1>3, <2>1, <2>2, <2>3, <2>4 DEF Content!Clamped, Content!Smaller
  <2>7. start = lo + p
    BY <1>4, <2>6 DEF p
  <2> QED
    BY <1>3, <2>1, <2>2, <2>3, <2>4, <2>5, <2>6, <2>7 DEF p, top
<1>11. start \in Int /\ lo <= start /\ start <= hi
  BY <1>3, <1>4, <1>6, <1>8, <1>9, <1>10
<1>12. Content!OnGrid(at, start)
  BY <1>3, <1>4, <1>6, <1>10, <1>11 DEF Content!OnGrid
\* And nothing on the grid is nearer.
<1>13. ASSUME NEW i \in lo .. hi, Content!OnGrid(at, i)
       PROVE  (start - s) * (start - s) <= (i - s) * (i - s)
  <2> DEFINE x == start - s
             y == i - s
  <2>1. i \in Int /\ lo <= i /\ i <= hi /\ x \in Int /\ y \in Int
    BY <1>2, <1>3, <1>6, <1>11
  <2>2. CASE grain = 0
    <3>1. start = near
      BY <2>2
    <3>2. (x <= y \/ x <= -y) /\ (-x <= y \/ -x <= -y)
      BY <1>2, <1>3, <1>6, <1>8, <2>1, <3>1
    <3> HIDE DEF x, y
    <3> QED
      BY <2>1, <3>2, NearerSquared DEF x, y
  <2>3. CASE grain > 0
    <3>1. PICK j \in Int : i = lo + j * grain
      BY <1>3, <1>4, <1>6, <2>1, <2>3, <1>13, GridIs
    <3> DEFINE p == k * grain
               t == j * grain
               top == q * grain
    <3>2. p \in Int /\ t \in Int /\ top \in Int /\ k \in Int /\ q \in Int
      BY <1>4, <1>5, <1>9, <2>3, Products
    <3>3. t + grain <= p \/ p + grain <= t \/ t = p
      <4>1. j < k \/ k < j \/ j = k
        BY <3>2
      <4> QED
        BY <1>4, <2>3, <3>2, <4>1, StepsApart
    <3>4. p + grain <= top \/ p = top
      <4>1. k < q \/ k = q
        BY <1>9, <2>3, <3>2
      <4> QED
        BY <1>4, <2>3, <3>2, <4>1, StepsApart
    <3>5. grain <= p \/ p = 0
      <4>1. 0 < k \/ k = 0
        BY <1>9, <2>3, <3>2
      <4>2. 0 * grain + grain = grain /\ 0 * grain = 0
        BY <1>4
      <4> QED
        BY <1>4, <2>3, <3>2, <4>1, <4>2, StepsApart
    <3>6. /\ start = lo + p /\ i = lo + t /\ hi = lo + top
          /\ 2 * (p - (near - lo)) <= grain /\ 2 * ((near - lo) - p) <= grain
      BY <1>9, <1>10, <2>3, <3>1
    <3> HIDE DEF p, t, top, start
    <3>7. (x <= y \/ x <= -y) /\ (-x <= y \/ -x <= -y)
      BY <1>2, <1>3, <1>4, <1>6, <1>8, <2>1, <2>3, <3>2, <3>3, <3>4, <3>5, <3>6
    <3> HIDE DEF x, y
    <3> QED
      BY <2>1, <3>7, NearerSquared DEF x, y
  <2> QED
    BY <1>4, <2>2, <2>3
<1> HIDE DEF start
<1> QED
  BY <1>1, <1>2, <1>3, <1>4, <1>6, <1>7, <1>11, <1>12, <1>13 DEF Content!Fits, a, b, s

-----------------------------------------------------------------------------
(* The invariant of a form and its answer.                                 *)

\* What ContentAssumption says of a form; the form of the parts that rest is one, too.
Stated(s) ==
  /\ s.kind \in {"custom", "simple", "modal"} /\ s.elements \in Seq(Element)
  /\ \A i \in DOMAIN s.elements :
       /\ s.kind = "simple" => s.elements[i].kind \in {"label", "button"}
       /\ s.kind = "custom" => s.elements[i].kind # "button"
       /\ s.elements[i].kind = "choice" =>
            \A j \in DOMAIN s.elements[i].options :
               Bare(Bare(s.elements[i].options[j])) = Bare(s.elements[i].options[j])

Sliders ==
  [kind : {"slider"}, name : STRING, at : [min : Int, max : Int, step : Int, default : Int]]

\* A control in the form came from an element of the form a mod asked for.
ControlOf(c, s) ==
  /\ s.kind = "simple" => c.kind \in {"label", "button"}
  /\ s.kind = "custom" => c.kind # "button"
  /\ c.kind = "choice" =>
       /\ c.options # <<>> /\ c.default \in 0 .. Len(c.options) - 1
       /\ \A j \in DOMAIN c.options : Bare(Bare(c.options[j])) = Bare(c.options[j])
  /\ c.kind = "slider" =>
       \E j \in DOMAIN s.elements : s.elements[j].kind = "slider" /\ Content!Fits(c.at, s.elements[j])

\* The table has the options of a choice under its name, and of nothing else.
ChoicesKnown ==
  /\ \A i \in DOMAIN form :
       form[i].kind = "choice" /\ form[i].name # "" => form[i].name \in DOMAIN choices
  /\ \A n \in DOMAIN choices :
       \E i \in DOMAIN form :
          form[i].kind = "choice" /\ form[i].name = n /\ choices[n] = form[i].options

ContentInv ==
  /\ Stated(spec)
  /\ rest \in Seq(Element)
  /\ \A i \in DOMAIN rest : \E j \in DOMAIN spec.elements : rest[i] = spec.elements[j]
  /\ form \in Seq(Element \cup Sliders)
  /\ \A i \in DOMAIN form : ControlOf(form[i], spec)
  /\ spec.kind = "simple" => form \o rest = spec.elements
  /\ ChoicesKnown
  /\ reply # Content!Nothing => rest = <<>>
  /\ Content!AnswersAsGiven

LEMMA Kinds ==
  /\ \A e \in Element :
       /\ e.kind \in {"choice", "slider", "toggle", "input", "label", "button"}
       /\ e.kind = "choice" =>
            e \in [kind : {"choice"}, name : STRING, options : Seq(STRING), default : Int]
       /\ e.kind = "slider" =>
            e \in [kind : {"slider"}, name : STRING, min : Int, max : Int, step : Int, default : Int]
       /\ e.kind \in {"toggle", "input"} => e.name \in STRING
  /\ \A c \in Sliders : c.kind = "slider"
BY DEF Element, Sliders

LEMMA ContentBegins ==
  ASSUME \/ Content!Init
         \/ /\ spec = [kind |-> "modal", elements |-> <<>>]
            /\ rest = <<>> /\ form = <<>> /\ choices = <<>> /\ filled = <<>>
            /\ reply = Content!Nothing
  PROVE  ContentInv
<1>1. rest = spec.elements /\ form = <<>> /\ choices = <<>> /\ reply = Content!Nothing
  BY DEF Content!Init
<1>2. Stated(spec)
  <2>1. CASE spec \in Specs
    BY <2>1, ContentAssumption DEF Stated
  <2>2. CASE spec = [kind |-> "modal", elements |-> <<>>]
    <3>1. <<>> \in Seq(Element) /\ DOMAIN <<>> = {}
      OBVIOUS
    <3> QED
      BY <2>2, <3>1 DEF Stated
  <2> QED
    BY <2>1, <2>2 DEF Content!Init
<1>3. form \in Seq(Element \cup Sliders) /\ DOMAIN form = {} /\ DOMAIN choices = {}
  BY <1>1
<1>4. form \o rest = spec.elements
  BY <1>1, <1>2 DEF Stated
<1>5. Content!AnswersAsGiven
  BY <1>1 DEF Content!AnswersAsGiven, Content!Nothing
<1> QED
  BY <1>1, <1>2, <1>3, <1>4, <1>5 DEF ContentInv, ChoicesKnown, Stated

\* What an element becomes is a control of the form, or nothing; a form of buttons keeps
\* every element as it is.
LEMMA ShownIs ==
  ASSUME Stated(spec), NEW j \in DOMAIN spec.elements
  PROVE  LET e == spec.elements[j] IN
         /\ Content!Shown(e) = <<>> \/ \E c \in Element \cup Sliders :
              /\ Content!Shown(e) = <<c>> /\ ControlOf(c, spec) /\ c.kind = e.kind
              /\ e.kind = "choice" => c.name = e.name /\ c.options = e.options
         /\ spec.kind = "simple" => Content!Shown(e) = <<e>>
<1> DEFINE e == spec.elements[j]
<1>1. e \in Element
  BY DEF Stated
<1>2. CASE e.kind = "choice" /\ e.options = <<>>
  BY <1>2 DEF Content!Shown, Stated
<1>3. CASE e.kind = "choice" /\ e.options # <<>>
  <2> DEFINE c == [e EXCEPT !.default = IF @ \in 0 .. Len(e.options) - 1 THEN @ ELSE 0]
  <2>1. Content!Shown(e) = <<c>>
    BY <1>3 DEF Content!Shown
  <2>2. e \in [kind : {"choice"}, name : STRING, options : Seq(STRING), default : Int]
    BY <1>1, <1>3, Kinds
  <2>3. Len(e.options) \in Nat /\ Len(e.options) # 0
    BY <1>3, <2>2
  <2>4. /\ c \in Element /\ c.kind = "choice" /\ c.name = e.name /\ c.options = e.options
        /\ c.default \in 0 .. Len(e.options) - 1
    BY <2>2, <2>3 DEF Element
  <2>5. spec.kind # "simple"
    BY <1>3 DEF Stated
  <2>6. \A i \in DOMAIN e.options : Bare(Bare(e.options[i])) = Bare(e.options[i])
    BY <1>3 DEF Stated
  <2> HIDE DEF c
  <2>7. ControlOf(c, spec)
    BY <1>3, <2>4, <2>5, <2>6 DEF ControlOf
  <2> QED
    BY <1>3, <2>1, <2>4, <2>5, <2>7
<1>4. CASE e.kind = "slider"
  <2> DEFINE at == Content!Slider(e.min, e.max, e.step, e.default)
             c == [kind |-> "slider", name |-> e.name, at |-> at]
  <2>1. Content!Shown(e) = <<c>>
    BY <1>4 DEF Content!Shown
  <2>2. e \in [kind : {"slider"}, name : STRING, min : Int, max : Int, step : Int, default : Int]
    BY <1>1, <1>4, Kinds
  <2>3. /\ at.min \in Int /\ at.max \in Int /\ at.step \in Int /\ at.default \in Int
        /\ Content!Fits(at, e)
    BY <2>2, SliderFits
  <2>4. at = [min |-> at.min, max |-> at.max, step |-> at.step, default |-> at.default]
    BY DEF Content!Slider
  <2> HIDE DEF at
  <2>5. at \in [min : Int, max : Int, step : Int, default : Int]
    BY <2>3, <2>4
  <2>6. c \in Sliders /\ c.kind = "slider" /\ c.at = at
    BY <2>2, <2>5 DEF Sliders
  <2>7. spec.kind # "simple"
    BY <1>4 DEF Stated
  <2> HIDE DEF c
  <2>8. ControlOf(c, spec)
    BY <1>4, <2>3, <2>6, <2>7 DEF ControlOf
  <2> QED
    BY <1>4, <2>1, <2>6, <2>7, <2>8
<1>5. CASE e.kind \notin {"choice", "slider"}
  <2>1. Content!Shown(e) = <<e>>
    BY <1>5 DEF Content!Shown
  <2>2. ControlOf(e, spec)
    BY <1>5 DEF ControlOf, Stated
  <2> QED
    BY <1>1, <1>5, <2>1, <2>2
<1> QED
  BY <1>2, <1>3, <1>4, <1>5

LEMMA AppendNextStep ==
  ASSUME ContentInv, Content!AppendNext PROVE ContentInv'
<1> DEFINE e == Head(rest)
<1>1. rest # <<>> /\ rest' = Tail(rest) /\ form' = form \o Content!Shown(e)
      /\ UNCHANGED <<spec, filled, reply>>
  BY DEF Content!AppendNext
<1>2. /\ rest \in Seq(Element) /\ Len(rest) \in Nat /\ Len(rest) # 0
      /\ DOMAIN rest = 1 .. Len(rest) /\ e = rest[1] /\ e \in Element
  BY <1>1 DEF ContentInv
<1>3. PICK j \in DOMAIN spec.elements : e = spec.elements[j]
  BY <1>2 DEF ContentInv
<1>4. /\ Content!Shown(e) = <<>> \/ \E c \in Element \cup Sliders :
           /\ Content!Shown(e) = <<c>> /\ ControlOf(c, spec) /\ c.kind = e.kind
           /\ e.kind = "choice" => c.name = e.name /\ c.options = e.options
      /\ spec.kind = "simple" => Content!Shown(e) = <<e>>
  BY <1>3, ShownIs DEF ContentInv
<1> HIDE DEF e
<1>5. /\ rest' \in Seq(Element)
      /\ \A i \in DOMAIN rest' : \E h \in DOMAIN spec.elements : rest'[i] = spec.elements[h]
  <2>1. /\ Tail(rest) \in Seq(Element) /\ Len(Tail(rest)) = Len(rest) - 1
        /\ \A i \in 1 .. Len(Tail(rest)) : Tail(rest)[i] = rest[i + 1] /\ i + 1 \in DOMAIN rest
    BY <1>2
  <2>2. DOMAIN Tail(rest) = 1 .. Len(Tail(rest))
    BY <2>1
  <2> QED
    BY <1>1, <2>1, <2>2 DEF ContentInv
<1>6. spec.kind = "simple" => form' \o rest' = spec.elements
  <2> SUFFICES ASSUME spec.kind = "simple" PROVE (form \o <<e>>) \o Tail(rest) = spec.elements
    BY <1>1, <1>4
  <2>1. form \o rest = spec.elements /\ form \in Seq(Element \cup Sliders)
    BY DEF ContentInv
  <2> DEFINE S == Element \cup Sliders
             l == form \o <<e>>
  <2>2. <<e>> \in Seq(S) /\ Len(<<e>>) = 1 /\ <<e>>[1] = e /\ rest \in Seq(S) /\ Tail(rest) \in Seq(S)
    BY <1>1, <1>2
  <2>3. Tail(rest) \in Seq(S) /\ Len(Tail(rest)) = Len(rest) - 1
        /\ \A i \in 1 .. Len(rest) - 1 : Tail(rest)[i] = rest[i + 1]
    BY <1>2, <2>2
  <2>4. /\ l \in Seq(S) /\ Len(l) = Len(form) + 1 /\ l[Len(form) + 1] = e
        /\ \A i \in 1 .. Len(form) : l[i] = form[i]
    BY <2>1, <2>2
  <2> HIDE DEF l, S
  <2>5. l \o Tail(rest) = form \o rest
    <3>1. Len(form) \in Nat /\ form \in Seq(S)
      BY <2>1 DEF S
    <3>2. Len(l \o Tail(rest)) = Len(form) + Len(rest) /\ Len(form \o rest) = Len(form) + Len(rest)
          /\ l \o Tail(rest) \in Seq(S) /\ form \o rest \in Seq(S)
      BY <1>2, <2>2, <2>3, <2>4, <3>1
    <3>3. ASSUME NEW i \in 1 .. Len(form) + Len(rest)
          PROVE  (l \o Tail(rest))[i] = (form \o rest)[i]
      <4>1. CASE i <= Len(form)
        BY <1>2, <2>2, <2>3, <2>4, <3>1, <4>1
      <4>2. CASE i = Len(form) + 1
        BY <1>2, <2>2, <2>3, <2>4, <3>1, <4>2
      <4>3. CASE i > Len(form) + 1
        <5>1. (l \o Tail(rest))[i] = Tail(rest)[i - (Len(form) + 1)]
          BY <1>2, <2>3, <2>4, <3>1, <4>3
        <5>2. (form \o rest)[i] = rest[i - Len(form)]
          BY <1>2, <2>2, <3>1, <4>3
        <5>3. i - (Len(form) + 1) \in 1 .. Len(rest) - 1 /\ (i - (Len(form) + 1)) + 1 = i - Len(form)
          BY <1>2, <3>1, <4>3
        <5> QED
          BY <2>3, <5>1, <5>2, <5>3
      <4>4. i \in Int /\ Len(form) \in Int
        BY <1>2, <3>1
      <4>5. i <= Len(form) \/ i = Len(form) + 1 \/ i > Len(form) + 1
        BY <4>4
      <4> QED
        BY <4>1, <4>2, <4>3, <4>5
    <3> QED
      BY <3>2, <3>3, SeqEqual
  <2> QED
    BY <2>1, <2>5 DEF l
<1>7. Content!AnswersAsGiven'
  <2>1. reply = Content!Nothing
    BY <1>1 DEF ContentInv
  <2> QED
    BY <1>1, <2>1 DEF Content!AnswersAsGiven, Content!Nothing
<1>10. Stated(spec) /\ spec' = spec /\ reply' = Content!Nothing
  BY <1>1 DEF ContentInv
<1>8. CASE Content!Shown(e) = <<>>
  <2>1. form' = form
    BY <1>1, <1>8 DEF ContentInv
  <2>2. choices' = choices
    BY <1>8 DEF Content!AppendNext, e
  <2>3. ChoicesKnown'
    BY <2>1, <2>2 DEF ContentInv, ChoicesKnown
  <2>4. form' \in Seq(Element \cup Sliders) /\ \A i \in DOMAIN form' : ControlOf(form'[i], spec)
    BY <2>1 DEF ContentInv
  <2> QED
    BY <1>5, <1>6, <1>7, <1>10, <2>3, <2>4 DEF ContentInv
<1>9. ASSUME NEW c \in Element \cup Sliders, Content!Shown(e) = <<c>>, ControlOf(c, spec), c.kind = e.kind,
             e.kind = "choice" => c.name = e.name /\ c.options = e.options
      PROVE  ContentInv'
  <2> DEFINE S == Element \cup Sliders
  <2>1. form \in Seq(S) /\ form' = Append(form, c)
    BY <1>1, <1>9 DEF ContentInv
  <2>2. /\ form' \in Seq(S) /\ DOMAIN form = 1 .. Len(form) /\ DOMAIN form' = 1 .. (Len(form) + 1)
        /\ Len(form) \in Nat
        /\ \A i \in 1 .. Len(form) : form'[i] = form[i]
        /\ form'[Len(form) + 1] = c
    BY <2>1, Appended
  <2>3. \A i \in DOMAIN form' : ControlOf(form'[i], spec)
    BY <1>9, <2>2 DEF ContentInv
  <2>5. \A i \in DOMAIN form' : i \in DOMAIN form \/ i = Len(form) + 1
    BY <2>2
  <2>4. ChoicesKnown'
    <3>0. <<c>> # <<>>
      OBVIOUS
    <3>1. CASE e.kind = "choice" /\ e.name # ""
      <4>1. choices' = Content!Put(choices, e.name, e.options)
        BY <1>9, <3>0, <3>1 DEF Content!AppendNext, e
      <4>2. /\ DOMAIN choices' = DOMAIN choices \cup {e.name}
            /\ \A n \in DOMAIN choices' :
                 choices'[n] = IF n = e.name THEN e.options ELSE choices[n]
        BY <4>1 DEF Content!Put
      <4>3. ASSUME NEW i \in DOMAIN form', form'[i].kind = "choice", form'[i].name # ""
            PROVE  form'[i].name \in DOMAIN choices'
        <5>1. CASE i = Len(form) + 1
          BY <1>9, <2>2, <3>1, <4>2, <4>3, <5>1
        <5>2. CASE i \in DOMAIN form
          <6>1. form'[i] = form[i]
            BY <2>2, <5>2
          <6>2. form[i].name \in DOMAIN choices
            BY <4>3, <5>2, <6>1 DEF ContentInv, ChoicesKnown
          <6> QED
            BY <4>2, <6>1, <6>2
        <5> QED
          BY <2>2, <5>1, <5>2
      <4>4. ASSUME NEW n \in DOMAIN choices'
            PROVE  \E i \in DOMAIN form' :
                     form'[i].kind = "choice" /\ form'[i].name = n /\ choices'[n] = form'[i].options
        <5>1. CASE n = e.name
          <6>1. Len(form) + 1 \in DOMAIN form'
            BY <2>2
          <6> QED
            BY <1>9, <2>2, <3>1, <4>2, <5>1, <6>1
        <5>2. CASE n # e.name
          <6>1. PICK i \in DOMAIN form :
                  form[i].kind = "choice" /\ form[i].name = n /\ choices[n] = form[i].options
            BY <4>2, <4>4, <5>2 DEF ContentInv, ChoicesKnown
          <6>2. i \in DOMAIN form' /\ form'[i] = form[i]
            BY <2>2
          <6> QED
            BY <4>2, <5>2, <6>1, <6>2
        <5> QED
          BY <5>1, <5>2
      <4> QED
        BY <4>3, <4>4 DEF ChoicesKnown
    <3>2. CASE ~(e.kind = "choice" /\ e.name # "")
      <4>1. choices' = choices
        BY <3>2 DEF Content!AppendNext, e
      <4> QED
        <5>1. ASSUME NEW i \in DOMAIN form', form'[i].kind = "choice", form'[i].name # ""
              PROVE  form'[i].name \in DOMAIN choices'
          <6>1. i \in DOMAIN form /\ form'[i] = form[i]
            <7>1. i # Len(form) + 1
              BY <1>9, <2>2, <3>2, <5>1
            <7>2. i \in DOMAIN form
              BY <2>5, <5>1, <7>1
            <7> QED
              BY <2>2, <7>2
          <6> QED
            BY <4>1, <5>1, <6>1 DEF ContentInv, ChoicesKnown
        <5>2. ASSUME NEW n \in DOMAIN choices'
              PROVE  \E i \in DOMAIN form' :
                       form'[i].kind = "choice" /\ form'[i].name = n /\ choices'[n] = form'[i].options
          <6>1. PICK i \in DOMAIN form :
                  form[i].kind = "choice" /\ form[i].name = n /\ choices[n] = form[i].options
            BY <4>1, <5>2 DEF ContentInv, ChoicesKnown
          <6>2. i \in DOMAIN form' /\ form'[i] = form[i]
            BY <2>2
          <6> QED
            BY <4>1, <6>1, <6>2
        <5> QED
          BY <5>1, <5>2 DEF ChoicesKnown
    <3> QED
      BY <3>1, <3>2
  <2> QED
    BY <1>5, <1>6, <1>7, <1>10, <2>2, <2>3, <2>4 DEF ContentInv
<1> QED
  BY <1>4, <1>8, <1>9

LEMMA Submitted ==
  ASSUME ContentInv, UNCHANGED <<spec, rest, form, choices>>, rest = <<>>, Content!AnswersAsGiven'
  PROVE  ContentInv'
<1>1. ChoicesKnown'
  BY DEF ContentInv, ChoicesKnown
<1>2. \A i \in DOMAIN form' : ControlOf(form'[i], spec')
  BY DEF ContentInv
<1> QED
  BY <1>1, <1>2 DEF ContentInv

-----------------------------------------------------------------------------
\* Some option is the first of those that are looked for.
LEMMA FirstIndexIs ==
  ASSUME NEW ts \in Seq(STRING), NEW S, NEW h \in DOMAIN ts, ts[h] \in S
  PROVE  \E k \in 0 .. Len(ts) - 1 :
            Content!FirstIndex(ts, S) = {k} /\ k + 1 \in DOMAIN ts /\ ts[k + 1] \in S
<1> DEFINE n == Len(ts)
           is == {i \in DOMAIN ts : ts[i] \in S}
           back == {i \in 1 .. n : (n + 1) - i \in is}
           first == CHOOSE i \in is : \A j \in is : i <= j
<1>1. n \in Nat /\ DOMAIN ts = 1 .. n
  OBVIOUS
<1>2. is \in SUBSET (1 .. n) /\ h \in is
  BY <1>1
<1>3. Content!FirstIndex(ts, S) = {first - 1}
  BY <1>2 DEF Content!FirstIndex
<1>4. \A i \in is : ts[i] \in S /\ i \in DOMAIN ts
  OBVIOUS
<1> HIDE DEF n, is
<1>5. back \in SUBSET (1 .. n) /\ (n + 1) - h \in back
  BY <1>1, <1>2
<1>6. Largest(back) \in back /\ \A y \in back : Largest(back) >= y
  BY <1>1, <1>5, LargestOf
<1>7. \E i \in is : \A j \in is : i <= j
  <2> DEFINE m == (n + 1) - Largest(back)
  <2>1. m \in is /\ Largest(back) \in 1 .. n
    BY <1>6
  <2>2. ASSUME NEW j \in is PROVE m <= j
    <3>1. j \in 1 .. n /\ (n + 1) - j \in 1 .. n /\ (n + 1) - ((n + 1) - j) = j
      BY <1>1, <1>2
    <3>2. (n + 1) - j \in back
      BY <3>1
    <3>3. Largest(back) >= (n + 1) - j
      BY <1>6, <3>2
    <3> QED
      BY <1>1, <2>1, <3>1, <3>3
  <2> QED
    BY <2>1, <2>2
<1>8. first \in is /\ first - 1 \in 0 .. n - 1 /\ (first - 1) + 1 = first
  <2>1. first \in is
    BY <1>7
  <2>2. \A x \in 1 .. n : x - 1 \in 0 .. n - 1 /\ (x - 1) + 1 = x
    BY <1>1
  <2> HIDE DEF first
  <2> QED
    BY <1>2, <2>1, <2>2
<1> QED
  BY <1>3, <1>4, <1>8 DEF n

LEMMA Tags ==
  /\ \A x : /\ Content!Long(x).tag = "long" /\ Content!Double(x).tag = "double"
            /\ Content!Text(x).tag = "text"
  /\ Content!Nothing.tag = "none"
BY DEF Content!Nothing, Content!Long, Content!Double, Content!Text

\* The entry of a choice names an option that looks like the one the player chose,
\* whether it was reported by its index or by its text.
LEMMA ChosenIs ==
  ASSUME NEW ts \in Seq(STRING), \A j \in DOMAIN ts : Bare(Bare(ts[j])) = Bare(ts[j]),
         NEW h \in 0 .. Len(ts) - 1,
         NEW r \in {Content!Long(h), Content!Double(h), Content!Text(ts[h + 1]),
                    Content!Text(Bare(ts[h + 1]))}
  PROVE  \E k \in 0 .. Len(ts) - 1 :
            /\ Bare(ts[k + 1]) = Bare(ts[h + 1])
            /\ Content!Chosen(ts, r) = [value |-> {Content!Long(k)}, text |-> {ts[k + 1]} \ {""}]
<1> DEFINE at == IF r.tag = "text" THEN Content!FindOption(ts, r.text)
                 ELSE {r.num} \intersect (0 .. Len(ts) - 1)
<1>0. Len(ts) \in Nat /\ DOMAIN ts = 1 .. Len(ts) /\ h + 1 \in DOMAIN ts
  OBVIOUS
<1>1. \E k \in 0 .. Len(ts) - 1 : at = {k} /\ Bare(ts[k + 1]) = Bare(ts[h + 1])
  <2>1. CASE r \in {Content!Long(h), Content!Double(h)}
    <3>1. r.tag # "text" /\ r.num = h
      BY <2>1 DEF Content!Long, Content!Double
    <3>2. at = {h}
      BY <3>1
    <3> QED
      BY <3>2
  <2>2. CASE r \in {Content!Text(ts[h + 1]), Content!Text(Bare(ts[h + 1]))}
    <3> DEFINE t == r.text
               alike == {ts[i] : i \in {j \in DOMAIN ts : Bare(ts[j]) = Bare(t)}}
    <3>1. r.tag = "text" /\ t \in {ts[h + 1], Bare(ts[h + 1])}
      BY <2>2 DEF Content!Text
    <3>2. Bare(t) = Bare(ts[h + 1])
      BY <1>0, <3>1
    <3>3. at = Content!FindOption(ts, t)
      BY <3>1
    <3> HIDE DEF t, at
    <3>4. CASE \E i \in DOMAIN ts : ts[i] = t
      <4>1. at = Content!FirstIndex(ts, {t})
        BY <3>3, <3>4 DEF Content!FindOption
      <4>2. PICK i \in DOMAIN ts : ts[i] \in {t}
        BY <3>4
      <4>3. PICK k \in 0 .. Len(ts) - 1 :
              Content!FirstIndex(ts, {t}) = {k} /\ k + 1 \in DOMAIN ts /\ ts[k + 1] \in {t}
        BY <4>2, FirstIndexIs
      <4> QED
        BY <3>2, <4>1, <4>3
    <3>5. CASE ~ \E i \in DOMAIN ts : ts[i] = t
      <4>1. at = Content!FirstIndex(ts, alike)
        BY <3>3, <3>5 DEF Content!FindOption
      <4>2. ts[h + 1] \in alike
        BY <1>0, <3>2
      <4>3. \A x \in alike : Bare(x) = Bare(t)
        OBVIOUS
      <4> HIDE DEF alike
      <4>4. PICK k \in 0 .. Len(ts) - 1 :
              Content!FirstIndex(ts, alike) = {k} /\ k + 1 \in DOMAIN ts /\ ts[k + 1] \in alike
        BY <1>0, <4>2, FirstIndexIs
      <4> QED
        BY <3>2, <4>1, <4>3, <4>4
    <3> QED
      BY <3>4, <3>5
  <2> QED
    BY <2>1, <2>2
<1>2. PICK k \in 0 .. Len(ts) - 1 : at = {k} /\ Bare(ts[k + 1]) = Bare(ts[h + 1])
  BY <1>1
<1>3. Content!Chosen(ts, r) =
        [value |-> {Content!Long(i) : i \in at},
         text |-> IF at # {} THEN {ts[i + 1] : i \in at} \ {""}
                  ELSE IF r.tag = "text" THEN {r.text} \ {""} ELSE {}]
  BY DEF Content!Chosen
<1> HIDE DEF at
<1>4. {Content!Long(i) : i \in at} = {Content!Long(k)} /\ {ts[i + 1] : i \in at} = {ts[k + 1]}
      /\ at # {}
  BY <1>2
<1> QED
  BY <1>2, <1>3, <1>4

\* Under the name of a control that has it for itself is what the player set.
LEMMA ReadIs ==
  ASSUME ContentInv, NEW i \in DOMAIN form, form[i].kind \notin {"label", "button"},
         form[i].name # "", Content!Unique(i),
         NEW v \in Content!Settings(form[i]), NEW r \in Content!Reports(form[i], v)
  PROVE  \E x : /\ Content!Read(Content!Entry(form[i].name, r)) = {x}
                /\ Content!Matches(form[i], v, x)
<1> DEFINE c == form[i]
           n == form[i].name
<1>1. c \in Element \cup Sliders /\ ControlOf(c, spec)
  <2>1. form \in Seq(Element \cup Sliders) /\ ControlOf(c, spec)
    BY DEF ContentInv
  <2>2. i \in 1 .. Len(form)
    BY <2>1, LenProperties
  <2> QED
    BY <2>1, <2>2, ElementOfSeq
<1>2. c.kind \in {"choice", "slider", "toggle", "input"}
  BY <1>1, Kinds
<1>3. n \in DOMAIN choices => c.kind = "choice" /\ choices[n] = c.options
  <2>1. ASSUME n \in DOMAIN choices
        PROVE  \E j \in DOMAIN form :
                 form[j].kind = "choice" /\ form[j].name = n /\ choices[n] = form[j].options
    BY <2>1 DEF ContentInv, ChoicesKnown
  <2> QED
    BY <2>1 DEF Content!Unique
<1>4. c.kind = "choice" => n \in DOMAIN choices
  BY DEF ContentInv, ChoicesKnown
<1>5. CASE c.kind = "choice"
  <2> DEFINE ts == c.options
  <2>1. /\ c \in [kind : {"choice"}, name : STRING, options : Seq(STRING), default : Int]
        /\ \A j \in DOMAIN ts : Bare(Bare(ts[j])) = Bare(ts[j])
    BY <1>1, <1>5, Kinds DEF ControlOf
  <2>2. PICK h \in 0 .. Len(ts) - 1 : v = [num |-> h]
    BY <1>5 DEF Content!Settings
  <2>3. r \in {Content!Long(h), Content!Double(h), Content!Text(ts[h + 1]),
               Content!Text(Bare(ts[h + 1]))}
    BY <1>5, <2>2 DEF Content!Reports
  <2>4. r # Content!Nothing
    <3>1. r.tag # "none" /\ Content!Nothing.tag = "none"
      BY <2>3, Tags
    <3> QED
      BY <3>1
  <2>5. Content!Entry(n, r) = Content!Chosen(ts, r)
    BY <1>3, <1>4, <1>5, <2>4 DEF Content!Entry
  <2>6. ts \in Seq(STRING)
    BY <2>1
  <2>7. PICK k \in 0 .. Len(ts) - 1 :
          /\ Bare(ts[k + 1]) = Bare(ts[h + 1])
          /\ Content!Chosen(ts, r) = [value |-> {Content!Long(k)}, text |-> {ts[k + 1]} \ {""}]
    <3>1. \A j \in DOMAIN ts : Bare(Bare(ts[j])) = Bare(ts[j])
      BY <2>1
    <3> HIDE DEF ts
    <3> QED
      BY <2>3, <2>6, <3>1, ChosenIs
  <2> DEFINE ent == [value |-> {Content!Long(k)}, text |-> {ts[k + 1]} \ {""}]
  <2>8. CASE ts[k + 1] = ""
    <3>1. ent.text = {} /\ ent.value = {Content!Long(k)}
      BY <2>8
    <3>2. Content!Read(ent) = {Content!Long(k)}
      <4> HIDE DEF ent
      <4> QED
        BY <3>1 DEF Content!Read
    <3>3. Content!Matches(c, v, Content!Long(k))
      BY <1>5, <2>2, <2>7 DEF Content!Matches, Content!Long
    <3> QED
      BY <2>5, <2>7, <3>2, <3>3
  <2>9. CASE ts[k + 1] # ""
    <3> DEFINE x == [tag |-> "choice", num |-> k, text |-> ts[k + 1]]
    <3>1. ent.text = {ts[k + 1]} /\ ent.value = {Content!Long(k)}
      BY <2>9
    <3>2. Content!Long(k).tag = "long" /\ Content!Long(k).num = k
      BY DEF Content!Long
    <3>3. (CHOOSE t \in {ts[k + 1]} : TRUE) = ts[k + 1]
      OBVIOUS
    <3>4. Content!Read(ent) = {x}
      <4> HIDE DEF ent
      <4>1. Content!Read(ent) =
              {IF w.tag = "long" /\ ent.text # {}
                 THEN [tag |-> "choice", num |-> w.num, text |-> CHOOSE t \in ent.text : TRUE]
                 ELSE w : w \in ent.value}
        BY <3>1 DEF Content!Read
      <4> QED
        BY <3>1, <3>2, <3>3, <4>1
    <3>5. Content!Matches(c, v, x)
      BY <1>5, <2>2, <2>7 DEF Content!Matches
    <3> QED
      BY <2>5, <2>7, <3>4, <3>5
  <2> QED
    BY <2>8, <2>9
<1>6. CASE c.kind # "choice"
  <2> DEFINE ent == [value |-> {r} \ {Content!Nothing},
                     text |-> IF r.tag = "text" THEN {r.text} ELSE {}]
  <2>1. Content!Entry(n, r) = ent
    BY <1>3, <1>6 DEF Content!Entry
  <2>2. /\ c.kind = "slider" => r = Content!Double(v.num)
        /\ c.kind = "toggle" => r = Content!Long(v.num)
        /\ c.kind = "input" => r = Content!Text(v.text)
    BY DEF Content!Reports
  <2>3. r # Content!Nothing /\ (r.tag = "long" => ent.text = {})
    <3>1. r.tag \in {"long", "double", "text"} /\ Content!Nothing.tag = "none"
      BY <1>2, <1>6, <2>2, Tags
    <3>2. r.tag = "long" => ent.text = {}
      OBVIOUS
    <3> QED
      BY <3>1, <3>2
  <2>4. ent.value = {r}
    BY <2>3
  <2>5. Content!Read(ent) = {r}
    <3> HIDE DEF ent
    <3> QED
      BY <2>3, <2>4 DEF Content!Read
  <2>6. Content!Matches(c, v, r)
    BY <1>2, <1>6, <2>2 DEF Content!Matches
  <2> QED
    BY <2>1, <2>5, <2>6
<1> QED
  BY <1>5, <1>6

LEMMA SubmitStep ==
  ASSUME ContentInv, Content!Submit PROVE ContentInv'
<1>1. rest = <<>> /\ UNCHANGED <<spec, rest, form, choices>> /\ spec.kind = "custom"
  BY DEF Content!Submit
<1>2. PICK vs, r :
        /\ \A i \in DOMAIN form : vs[i] \in Content!Settings(form[i])
        /\ filled' = vs
        /\ r \in Content!Results(vs)
        /\ reply' = [tag |-> "Custom",
                     map |-> [n \in {m \in Content!Named : Content!Read(Content!Entry(m, r[m])) # {}} |->
                                CHOOSE v \in Content!Read(Content!Entry(n, r[n])) : TRUE]]
  BY DEF Content!Submit
<1>3. ASSUME NEW i \in DOMAIN form, form[i].kind # "label", form[i].name # "", Content!Unique(i)
      PROVE  /\ form[i].name \in DOMAIN reply'.map
             /\ Content!Matches(form[i], vs[i], reply'.map[form[i].name])
  <2> DEFINE n == form[i].name
             ent == Content!Entry(n, r[n])
  <2>1. n \in Content!Named
    BY <1>3 DEF Content!Named
  <2>2. PICK j \in DOMAIN form :
          form[j].kind # "label" /\ form[j].name = n /\ r[n] \in Content!Reports(form[j], vs[j])
    BY <1>2, <2>1 DEF Content!Results
  <2>3. j = i
    BY <1>3, <2>2 DEF Content!Unique
  <2>4. form[i].kind # "button"
    BY <1>1 DEF ContentInv, ControlOf
  <2>5. PICK x : Content!Read(ent) = {x} /\ Content!Matches(form[i], vs[i], x)
    BY <1>2, <1>3, <2>2, <2>3, <2>4, ReadIs
  <2>6. (CHOOSE v \in Content!Read(ent) : TRUE) = x /\ Content!Read(ent) # {}
    BY <2>5
  <2>7. n \in {m \in Content!Named : Content!Read(Content!Entry(m, r[m])) # {}}
    BY <2>1, <2>6
  <2>8. n \in DOMAIN reply'.map /\ reply'.map[n] = CHOOSE v \in Content!Read(ent) : TRUE
    BY <1>2, <2>7
  <2> QED
    BY <2>5, <2>6, <2>8
<1>4. reply'.tag = "Custom"
  BY <1>2
<1>5. Content!AnswersAsGiven'
  <2>1. ASSUME NEW i \in DOMAIN form',
               form'[i].kind # "label", form'[i].name # "", Content!Unique(i)'
        PROVE  /\ form'[i].name \in DOMAIN reply'.map
               /\ Content!Matches(form'[i], filled'[i], reply'.map[form'[i].name])
    <3>1. Content!Unique(i)
      BY <1>1, <2>1 DEF Content!Unique
    <3> QED
      BY <1>1, <1>2, <1>3, <2>1, <3>1
  <2> QED
    BY <1>4, <2>1 DEF Content!AnswersAsGiven
<1> QED
  BY <1>1, <1>5, Submitted

LEMMA PressStep ==
  ASSUME ContentInv, Content!Press PROVE ContentInv'
<1>1. rest = <<>> /\ UNCHANGED <<spec, rest, form, choices>> /\ spec.kind = "simple"
  BY DEF Content!Press
<1>2. form = spec.elements
  <2>1. form \in Seq(Element \cup Sliders) /\ form \o <<>> = spec.elements
    BY <1>1 DEF ContentInv
  <2> QED
    BY <2>1
<1>3. PICK i \in 1 .. Len(Content!Buttons(form)) :
        /\ filled' = <<Content!Buttons(form)[i]>>
        /\ reply' = [tag |-> "Button", index |-> i - 1]
  BY DEF Content!Press
<1>4. reply'.tag = "Button" /\ reply'.index + 1 = i
  BY <1>3
<1>5. filled'[1] = Content!Buttons(form)[i]
  BY <1>3
<1>6. Content!AnswersAsGiven'
  BY <1>1, <1>2, <1>4, <1>5 DEF Content!AnswersAsGiven
<1> QED
  BY <1>1, <1>6, Submitted

LEMMA DecideStep ==
  ASSUME ContentInv, Content!Decide PROVE ContentInv'
<1>1. rest = <<>> /\ UNCHANGED <<spec, rest, form, choices>>
  BY DEF Content!Decide
<1>2. Content!AnswersAsGiven'
  BY DEF Content!Decide, Content!AnswersAsGiven
<1> QED
  BY <1>1, <1>2, Submitted

LEMMA CloseStep ==
  ASSUME ContentInv, Content!Cancel PROVE ContentInv'
<1>1. rest = <<>> /\ UNCHANGED <<spec, rest, form, choices>>
  BY DEF Content!Cancel
<1>2. Content!AnswersAsGiven'
  BY DEF Content!Cancel, Content!AnswersAsGiven
<1> QED
  BY <1>1, <1>2, Submitted

LEMMA ContentStep ==
  ASSUME ContentInv, [Content!Next]_contentVars PROVE ContentInv'
<1>1. CASE UNCHANGED contentVars
  <2>1. UNCHANGED <<spec, rest, form, choices, filled, reply>>
    BY <1>1 DEF contentVars
  <2>2. ChoicesKnown'
    BY <2>1 DEF ContentInv, ChoicesKnown
  <2>3. \A i \in DOMAIN form' : ControlOf(form'[i], spec')
    BY <2>1 DEF ContentInv
  <2>4. Content!AnswersAsGiven'
    BY <2>1 DEF ContentInv, Content!AnswersAsGiven, Content!Unique
  <2> QED
    BY <2>1, <2>2, <2>3, <2>4 DEF ContentInv
<1> QED
  BY <1>1, AppendNextStep, SubmitStep, PressStep, DecideStep, CloseStep DEF Content!Next

\* A client can show the form a mod asked for: every choice has options and a default
\* among them, and every slider a range within the one asked for, a whole number of steps
\* long, with the default on the step nearest to the one asked for.  And the mod reads
\* what the player set, whatever LeviLamina reports it as: a choice comes back as the
\* index and the text of an option that looks the same, a button by its place among the
\* buttons of the form.
THEOREM FormsAsFilledTheorem == CallsSpec => []FormsAsFilled
<1>1. CallsInit => ContentInv
  BY ContentBegins DEF CallsInit
<1>2. ASSUME ContentInv, [CallsNext]_<<part, vars, serviceVars, formVars, contentVars>>
      PROVE  ContentInv'
  <2>1. [Content!Next]_contentVars
    BY <1>2 DEF CallsNext
  <2> QED
    BY <1>2, <2>1, ContentStep
<1>3. ContentInv => FormsAsFilled
  BY DEF ContentInv, ControlOf, FormsAsFilled, Content!ClientCanShow
<1> QED
  BY <1>1, <1>2, <1>3, PTL DEF CallsSpec
=============================================================================
