------------------------------- MODULE Forms -------------------------------
(***************************************************************************)
(* Forms with a result callback: src/src/bridge/actors/Forms.cpp.          *)
(*                                                                         *)
(* form_send enters a ticket in gPendingForms and sends the form with a    *)
(* closure that holds a weak_ptr and the ticket; completeTicket takes the  *)
(* ticket out when the player answers and calls the mod.  All of it runs   *)
(* on the server thread, and a result callback may send the next form,     *)
(* disable or unload mods.  Building the form's elements is abstracted to  *)
(* whether it succeeds.                                                    *)
(*                                                                         *)
(* External: the player.  A form on a client may be answered or cancelled; *)
(* when the player leaves, LeviLamina may or may not report it.  An answer *)
(* that arrives twice is allowed: the ticket must not rely on it.          *)
(* Ghost: `fired'.                                                         *)
(***************************************************************************)
EXTENDS Integers, FiniteSets

CONSTANTS
  Mods, Players,
  None,        \* no mod
  MaxTickets,  \* bound: how many forms are ever sent
  MaxGen       \* bound: how often a mod is loaded

VARIABLES
  stage,       \* per mod: "absent", "disabled", "enabled", "gone"
  gen,         \* per mod: which RustMod object it is
  online,      \* the players resolvePlayer finds
  forms,       \* gPendingForms: ticket -> owner
  nextTicket,  \* gNextTicket
  shown,       \* the closures LeviLamina holds for forms on clients:
               \* [ticket, player, mod, gen]
  running,     \* the ticket whose callback runs, and the mod it is in
  fired        \* ghost: per ticket, how often its callback was entered

vars == <<stage, gen, online, forms, nextTicket, shown, running, fired>>

Tickets    == 1..MaxTickets
Gens       == 1..MaxGen
Kinds      == {"simple", "custom", "modal"}
Results    == {"sent", "unsent", "thrown"}
Idle       == [ticket |-> 0, mod |-> None]
Pending(k) == forms[k] # None
FormsOf(m) == {k \in Tickets : forms[k] = m}

Init ==
  /\ stage = [m \in Mods |-> "enabled"]
  /\ gen = [m \in Mods |-> 1]
  /\ online = Players
  /\ forms = [k \in Tickets |-> None]
  /\ nextTicket = 1
  /\ shown = {}
  /\ running = Idle
  /\ fired = [k \in Tickets |-> 0]

-----------------------------------------------------------------------------
\* api_form_send to a player that resolves, with a spec that parses: the ticket
\* is registered, then the form is built and sent.  The ticket is erased when
\* building throws, and when sendModal reports that nothing was sent; sendSimple
\* and sendCustom do not ask, and leave the ticket of an unsent form pending.
Send(m, p, kind, result) ==
  /\ stage[m] # "absent" /\ p \in online /\ nextTicket <= MaxTickets
  /\ nextTicket' = nextTicket + 1
  /\ forms' = IF result = "thrown" \/ (result = "unsent" /\ kind = "modal")
                THEN forms ELSE [forms EXCEPT ![nextTicket] = m]
  /\ shown' = IF result # "sent" THEN shown
              ELSE shown \union
                {[ticket |-> nextTicket, player |-> p, mod |-> m, gen |-> gen[m]]}
  /\ UNCHANGED <<stage, gen, online, running, fired>>

\* Mutant: the ticket stays in the table; or a disabled mod is called.
CompleteKeeps(c, again) ==
  /\ running = Idle /\ c \in shown /\ Pending(c.ticket)
  /\ stage[c.mod] = "enabled" /\ gen[c.mod] = c.gen
  /\ running' = [ticket |-> c.ticket, mod |-> c.mod]
  /\ fired' = [fired EXCEPT ![c.ticket] = @ + 1]
  /\ shown' = IF again THEN shown ELSE shown \ {c}
  /\ UNCHANGED <<stage, gen, online, forms, nextTicket>>

\* completeTicket: an answer or a cancellation reaches the server thread.  The
\* ticket is taken, then the callback is entered if the mod's object is the one
\* that sent the form and it is enabled.
Complete(c, again) ==
  /\ running = Idle /\ c \in shown
  /\ shown' = IF again THEN shown ELSE shown \ {c}
  /\ IF Pending(c.ticket)
       THEN /\ forms' = [forms EXCEPT ![c.ticket] = None]
            /\ IF stage[c.mod] = "enabled" /\ gen[c.mod] = c.gen
                 THEN /\ running' = [ticket |-> c.ticket, mod |-> c.mod]
                      /\ fired' = [fired EXCEPT ![c.ticket] = @ + 1]
                 ELSE UNCHANGED <<running, fired>>
       ELSE UNCHANGED <<forms, running, fired>>
  /\ UNCHANGED <<stage, gen, online, nextTicket>>

Return ==
  /\ running # Idle /\ \A m \in Mods : stage[m] # "gone"
  /\ running' = Idle
  /\ UNCHANGED <<stage, gen, online, forms, nextTicket, shown, fired>>

\* A player leaves; the closures of its forms are dropped without being called.
Leave(p) ==
  /\ running = Idle /\ p \in online
  /\ online' = online \ {p}
  /\ shown' = {c \in shown : c.player # p}
  /\ UNCHANGED <<stage, gen, forms, nextTicket, running, fired>>

Join(p) ==
  /\ running = Idle /\ p \notin online
  /\ online' = online \union {p}
  /\ UNCHANGED <<stage, gen, forms, nextTicket, shown, running, fired>>

-----------------------------------------------------------------------------
\* ModManager::enable and disable.
Toggle(m) ==
  /\ stage[m] \in {"disabled", "enabled"}
  /\ stage' = [stage EXCEPT ![m] = IF @ = "enabled" THEN "disabled" ELSE "enabled"]
  /\ UNCHANGED <<gen, online, forms, nextTicket, shown, running, fired>>

\* RustModManager::unload as far as formsOnRustModGone; not under the mod's own
\* callback, which would return into unmapped code.
UnloadGone(m) ==
  /\ stage[m] = "disabled" /\ running.mod # m
  /\ stage' = [stage EXCEPT ![m] = "gone"]
  /\ forms' = [k \in Tickets |-> IF k \in FormsOf(m) THEN None ELSE forms[k]]
  /\ UNCHANGED <<gen, online, nextTicket, shown, running, fired>>

\* lib.free() and eraseMod: nothing that sends forms runs after formsOnRustModGone.
UnloadFree(m) ==
  /\ stage[m] = "gone"
  /\ stage' = [stage EXCEPT ![m] = "absent"]
  /\ UNCHANGED <<gen, online, forms, nextTicket, shown, running, fired>>

Load(m) ==
  /\ stage[m] = "absent" /\ gen[m] < MaxGen
  /\ stage' = [stage EXCEPT ![m] = "disabled"]
  /\ gen' = [gen EXCEPT ![m] = @ + 1]
  /\ UNCHANGED <<online, forms, nextTicket, shown, running, fired>>

\* The server thread is inside an unload.
Unloading == \E m \in Mods : stage[m] = "gone"

Next ==
  \/ \E m \in Mods : UnloadFree(m)
  \/ /\ ~Unloading
     /\ \/ \E m \in Mods, p \in Players, kind \in Kinds, result \in Results :
             Send(m, p, kind, result)
        \/ \E c \in shown, again \in BOOLEAN : Complete(c, again)
        \/ Return
        \/ \E p \in Players : Leave(p) \/ Join(p)
        \/ \E m \in Mods : Toggle(m) \/ UnloadGone(m) \/ Load(m)

Spec == Init /\ [][Next]_vars
-----------------------------------------------------------------------------
\* "Muted (never called) if the mod is disabled before the player responds"
\* (LeviRsAbi.h:303-305), and never in another object than the one that sent it.
MutedWhileDisabled ==
  [][running = Idle /\ running' # Idle =>
       /\ stage[running'.mod] = "enabled"
       /\ \E c \in shown : c.ticket = running'.ticket /\ c.gen = gen[running'.mod]]_vars

\* "Invoked ONCE" (LeviRsAbi.h:298), however often the answer arrives, and never
\* after the ticket was dropped.
Ticket == INSTANCE OneShot WITH
  Tickets <- Tickets,
  status <- [k \in Tickets |->
    IF fired[k] > 1 THEN "fired twice"
    ELSE IF fired[k] = 1 THEN "fired"
    ELSE IF Pending(k) THEN "pending"
    ELSE IF k < nextTicket THEN "dropped" ELSE "unborn"]

OnceOrNever == Ticket!ASpec
=============================================================================
