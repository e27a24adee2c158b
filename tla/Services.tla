------------------------------ MODULE Services ------------------------------
(***************************************************************************)
(* The cross-mod service registry: src/src/bridge/core/Services.cpp.       *)
(*                                                                         *)
(* A name has at most one provider.  service_call copies the entry out     *)
(* under the lock, refuses a self-call, locks the weak_ptr captured at     *)
(* registration, and enters the provider on the calling thread with the    *)
(* lock released; the provider may call back into the loader.              *)
(*                                                                         *)
(* A thread's frames are the calls in progress, top last.  Any thread may  *)
(* call (the W13 comment, Services.cpp:87-89); mods are registered,        *)
(* disabled and unloaded on thread Main.                                   *)
(***************************************************************************)
EXTENDS Integers, Sequences, FiniteSets

CONSTANTS
  Mods, Names, Threads,
  Main,         \* the server thread
  None,         \* no mod, or no name
  MaxServices,  \* bound: how many registrations are ever made
  MaxDepth      \* kMaxDepth, nested calls per thread

VARIABLES
  stage,     \* per mod: "absent", "disabled", "enabled", or "gone" from
             \* servicesOnRustModGone until the dylib is freed
  services,  \* gServices: registration id -> [mod, name]
  byName,    \* gByName: name -> registration id, 0 when free
  nextId,    \* gNextId
  stack,     \* per thread: the calls in progress, "copied" under the lock,
             \* then "checked", then "inside" the provider
  answer     \* per thread: what its last finished call returned: "none" yet,
             \* "ok", "not_found", "error" or "refused"

vars == <<stage, services, byName, nextId, stack, answer>>

Ids       == 1..MaxServices
NoService == [mod |-> None, name |-> None]

IdsOf(m)      == {id \in Ids : services[id].mod = m}
Top(t)        == stack[t][Len(stack[t])]
Calling(t, at) == stack[t] # <<>> /\ Top(t).at = at
ModCode(t)    == stack[t] # <<>> => Top(t).at = "inside"   \* a mod's code runs
Inside(t, m)  == \E d \in DOMAIN stack[t] : stack[t][d].provider = m

SetTop(t, at)  == stack' = [stack EXCEPT ![t][Len(stack[t])].at = at]
Leave(t, code) == /\ stack' = [stack EXCEPT ![t] = SubSeq(@, 1, Len(@) - 1)]
                  /\ answer' = [answer EXCEPT ![t] = code]

Init ==
  /\ stage = [m \in Mods |-> "disabled"]
  /\ services = [id \in Ids |-> NoService]
  /\ byName = [n \in Names |-> 0]
  /\ nextId = 1
  /\ stack = [t \in Threads |-> <<>>]
  /\ answer = [t \in Threads |-> "none"]

-----------------------------------------------------------------------------
\* api_service_register, on the server thread with the mod alive: a taken name
\* is refused and nothing changes.
Register(m, n) ==
  /\ ModCode(Main)
  /\ stage[m] \in {"disabled", "enabled"}
  /\ byName[n] = 0
  /\ nextId <= MaxServices
  /\ services' = [services EXCEPT ![nextId] = [mod |-> m, name |-> n]]
  /\ byName' = [byName EXCEPT ![n] = nextId]
  /\ nextId' = nextId + 1
  /\ UNCHANGED <<stage, stack, answer>>

\* gByName.erase(name) and gServices.erase(id), in one critical section.
DropServices(ids) ==
  /\ services' = [id \in Ids |-> IF id \in ids THEN NoService ELSE services[id]]
  /\ byName' = [n \in Names |-> IF n \in {services[id].name : id \in ids} THEN 0
                                                                        ELSE byName[n]]

\* api_service_unregister: only the caller's own registration.
Unregister(t, m, id) ==
  /\ ModCode(t)
  /\ stage[m] # "absent"
  /\ services[id].mod = m
  /\ DropServices({id})
  /\ UNCHANGED <<stage, nextId, stack, answer>>

-----------------------------------------------------------------------------
\* api_service_call up to the copy: the depth cap, an unknown name, a self-call
\* are answered at once; otherwise the entry is copied out.
Lookup(t, m, n) ==
  LET id == byName[n] IN
  /\ ModCode(t) /\ stage[m] # "absent"
  /\ IF Len(stack[t]) < MaxDepth /\ id # 0 /\ services[id].mod # m
       THEN /\ stack' = [stack EXCEPT ![t] = Append(@,
                 [caller |-> m, name |-> n, id |-> id, provider |-> services[id].mod,
                  at |-> "copied"])]
            /\ UNCHANGED answer
       ELSE /\ answer' = [answer EXCEPT ![t] =
                 IF Len(stack[t]) < MaxDepth /\ id = 0 THEN "not_found" ELSE "refused"]
            /\ UNCHANGED stack
  /\ UNCHANGED <<stage, services, byName, nextId>>

\* The weak_ptr is locked: a provider that was erased is not found.  Whether it
\* is enabled is deliberately not asked (Services.cpp:234-253).
Revalidate(t) ==
  /\ Calling(t, "copied")
  /\ IF stage[Top(t).provider] # "absent"
       THEN SetTop(t, "checked") /\ UNCHANGED answer
       ELSE Leave(t, "not_found")
  /\ UNCHANGED <<stage, services, byName, nextId>>

\* svc.cb is entered.
Enter(t) ==
  /\ Calling(t, "checked")
  /\ SetTop(t, "inside")
  /\ UNCHANGED <<stage, services, byName, nextId, answer>>

\* Mutant: a failure of the provider is only reported while it is registered.
ReturnRegistered(t, ok) ==
  /\ Calling(t, "inside")
  /\ services[Top(t).id].mod # None
  /\ Leave(t, IF ok THEN "ok" ELSE "error")
  /\ UNCHANGED <<stage, services, byName, nextId>>

\* The provider answers, returns false, or throws.
Return(t, ok) ==
  /\ Calling(t, "inside")
  /\ Leave(t, IF ok THEN "ok" ELSE "error")
  /\ UNCHANGED <<stage, services, byName, nextId>>

-----------------------------------------------------------------------------
\* ModManager::enable and disable.
Toggle(m) ==
  /\ ModCode(Main)
  /\ stage[m] \in {"disabled", "enabled"}
  /\ stage' = [stage EXCEPT ![m] = IF @ = "enabled" THEN "disabled" ELSE "enabled"]
  /\ UNCHANGED <<services, byName, nextId, stack, answer>>

\* RustModManager::unload as far as servicesOnRustModGone.  Unloading a mod
\* under its own callback returns into unmapped code and is not modelled.
UnloadGone(m) ==
  /\ ModCode(Main)
  /\ stage[m] = "disabled" /\ ~Inside(Main, m)
  /\ stage' = [stage EXCEPT ![m] = "gone"]
  /\ DropServices(IdsOf(m))
  /\ UNCHANGED <<nextId, stack, answer>>

\* lib.free() and eraseMod.  Other steps may come in between: the release hooks
\* that onRustModGone runs may call services.
UnloadFree(m) ==
  /\ ModCode(Main)
  /\ stage[m] = "gone" /\ ~Inside(Main, m)
  /\ stage' = [stage EXCEPT ![m] = "absent"]
  /\ UNCHANGED <<services, byName, nextId, stack, answer>>

Load(m) ==
  /\ ModCode(Main)
  /\ stage[m] = "absent"
  /\ stage' = [stage EXCEPT ![m] = "disabled"]
  /\ UNCHANGED <<services, byName, nextId, stack, answer>>

Next ==
  \/ \E m \in Mods, n \in Names : Register(m, n)
  \/ \E t \in Threads, m \in Mods, id \in Ids : Unregister(t, m, id)
  \/ \E t \in Threads, m \in Mods, n \in Names : Lookup(t, m, n)
  \/ \E t \in Threads : Revalidate(t) \/ Enter(t) \/ \E ok \in BOOLEAN : Return(t, ok)
  \/ \E m \in Mods : Toggle(m) \/ UnloadGone(m) \/ UnloadFree(m) \/ Load(m)

Spec == Init /\ [][Next]_vars

\* The call path is straight-line code, and every single provider returns.
Fairness ==
  \A t \in Threads :
    /\ WF_vars(Revalidate(t) \/ Enter(t))
    /\ \A d \in 1..MaxDepth :
         SF_vars(Len(stack[t]) = d /\ \E ok \in BOOLEAN : Return(t, ok))

FairSpec == Spec /\ Fairness
-----------------------------------------------------------------------------
\* Every call gets its answer, also when its provider unregisters meanwhile.
CallEnds == \A t \in Threads : stack[t] # <<>> ~> stack[t] = <<>>
=============================================================================
