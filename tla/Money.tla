------------------------------- MODULE Money --------------------------------
(***************************************************************************)
(* The money listeners: bridge/actors/Money.cpp and MoneyGuard.cpp.  The   *)
(* economy plugin is optional and only ever adds callbacks; the loader     *)
(* gives it one trampoline of each kind, which calls the one callback of   *)
(* that kind that is stored.  A callback carries no mod: whose it is, is   *)
(* found out from its address when a mod goes.                             *)
(***************************************************************************)
EXTENDS Naturals, Sequences

CONSTANTS Mods, None

Kinds == {"before", "after"}

VARIABLES
  backend,      \* the plugin: "absent", "disabled" or "enabled"
  symbol,       \* whether LLMoney_Get was found: "unprobed", "missing", "present"
  loaded,       \* the mods whose library is loaded
  slot,         \* per kind: the mod whose callback is stored, or None
  hooked,       \* per kind: the trampoline was handed over
  trampolines,  \* per kind: how many the plugin holds
  heard         \* the callbacks of the last transaction, <<kind, mod>>

vars == <<backend, symbol, loaded, slot, hooked, trampolines, heard>>

Init ==
  /\ backend = "absent" /\ symbol = "unprobed"
  /\ loaded = {}
  /\ slot = [k \in Kinds |-> None] /\ hooked = [k \in Kinds |-> FALSE]
  /\ trampolines = [k \in Kinds |-> 0]
  /\ heard = <<>>

\* moneyBackendReady: the plugin is there and enabled, and so is the symbol,
\* which is looked for once per process.
Ready == backend = "enabled" /\ symbol' = "present"
Probe == symbol' \in IF backend = "enabled" /\ symbol = "unprobed"
                       THEN {"missing", "present"} ELSE {symbol}

\* api_money_listen_before_event and its twin; a null callback clears the slot.
Listen(m, k, callback) ==
  /\ m \in loaded
  /\ slot' = [slot EXCEPT ![k] = IF callback THEN m ELSE None]
  /\ IF hooked[k] THEN UNCHANGED <<symbol, hooked, trampolines>>
     ELSE /\ Probe
          /\ hooked' = [hooked EXCEPT ![k] = Ready]
          /\ trampolines' = [trampolines EXCEPT ![k] = IF Ready THEN @ + 1 ELSE @]
  /\ heard' = <<>> /\ UNCHANGED <<backend, loaded>>

\* The calls of one kind: every trampoline runs, and reads the slot as it runs.
Calls(k) ==
  [i \in 1..(IF slot[k] = None THEN 0 ELSE trampolines[k]) |-> <<k, slot[k]>>]

\* A callback may refuse the transaction beforehand.
Transact(refused) ==
  /\ backend = "enabled"
  /\ refused => Calls("before") # <<>>
  /\ heard' = Calls("before") \o (IF refused THEN <<>> ELSE Calls("after"))
  /\ UNCHANGED <<backend, symbol, loaded, slot, hooked, trampolines>>

\* The plugin is never unmapped, and holds what it was given for good.
Backend(state) ==
  /\ state # "absent"
  /\ backend' = state
  /\ heard' = <<>>
  /\ UNCHANGED <<symbol, loaded, slot, hooked, trampolines>>

Load(m) ==
  /\ m \notin loaded
  /\ loaded' = loaded \cup {m} /\ heard' = <<>>
  /\ UNCHANGED <<backend, symbol, slot, hooked, trampolines>>

\* moneyOnRustModGone runs before the library is freed.
Unload(m) ==
  /\ m \in loaded
  /\ loaded' = loaded \ {m}
  /\ slot' = [k \in Kinds |-> IF slot[k] = m THEN None ELSE slot[k]]
  /\ heard' = <<>>
  /\ UNCHANGED <<backend, symbol, hooked, trampolines>>

Next ==
  \/ \E m \in Mods : Load(m) \/ Unload(m)
  \/ \E m \in Mods, k \in Kinds, callback \in BOOLEAN : Listen(m, k, callback)
  \/ \E refused \in BOOLEAN : Transact(refused)
  \/ \E state \in {"disabled", "enabled"} : Backend(state)

Spec == Init /\ [][Next]_vars

-----------------------------------------------------------------------------

\* A transaction reaches a mod once of each kind at most, and only a mod whose
\* code is there, however often mods listened before.
HeardOnce ==
  \A i, j \in DOMAIN heard :
    /\ heard[i][2] \in loaded
    /\ heard[i][1] = heard[j][1] => i = j
=============================================================================
