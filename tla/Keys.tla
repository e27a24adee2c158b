-------------------------------- MODULE Keys --------------------------------
(***************************************************************************)
(* The hot keys of the client build: bridge/net/Client.cpp.  LeviLamina's  *)
(* key registry keeps one handle per name and never gives up a handler: a  *)
(* binding that is gone leaves two closures behind, which a flag they      *)
(* share with the entry of the binding keeps from calling into its mod.    *)
(* Registrations, presses and teardowns all run on the client thread, a    *)
(* press may call a mod that registers and unregisters.                    *)
(***************************************************************************)
EXTENDS Naturals, FiniteSets, Sequences

CONSTANTS
  Mods, None,
  KeyNames,     \* what a key is called
  Addresses,    \* where the allocator may place an entry
  MaxHandlers   \* bound: registrations in all

VARIABLES
  loaded,       \* the mods whose library is loaded
  handlers,     \* KeyRegistry: per name its handlers, each the flag it captured
  alive,        \* the flags that are set
  entries,      \* liveEntries: per address [flag, owner], or None
  ownerOf,      \* history: per flag, the mod whose callback the handlers captured
  press,        \* the press being handed out: [name, at, bound], or None
  due,          \* history: the flags this press must still reach
  heard         \* history: the flags whose callback this press has called

vars == <<loaded, handlers, alive, entries, ownerOf, press, due, heard>>

Live == {a \in Addresses : entries[a] # None}

Init ==
  /\ loaded = {}
  /\ handlers = [k \in KeyNames |-> <<>>]
  /\ alive = {} /\ entries = [a \in Addresses |-> None] /\ ownerOf = <<>>
  /\ press = None /\ due = {} /\ heard = <<>>

\* Code of a mod runs between presses, and in the callback called last.
Runs(m) ==
  /\ m \in loaded
  /\ press # None =>
       heard # <<>> /\ m = ownerOf[heard[Len(heard)]] /\ heard[Len(heard)] \in alive

\* api_client_register_key; without a key code nothing is bound.
RegisterKey(m, k, codes) ==
  /\ Runs(m)
  /\ IF codes = 0 THEN UNCHANGED <<handlers, alive, entries, ownerOf>>
     ELSE \E a \in Addresses \ Live :
            /\ Len(ownerOf) < MaxHandlers
            /\ ownerOf' = Append(ownerOf, m)
            /\ handlers' = [handlers EXCEPT ![k] = Append(@, Len(ownerOf'))]
            /\ alive' = alive \cup {Len(ownerOf')}
            /\ entries' = [entries EXCEPT ![a] = [flag |-> Len(ownerOf'), owner |-> m]]
  /\ UNCHANGED <<loaded, press, due, heard>>

\* Mutant: the entry is freed, its flag stays set.
DestroyKeepsFlag(as) ==
  /\ entries' = [a \in Addresses |-> IF a \in as THEN None ELSE entries[a]]
  /\ UNCHANGED alive
  /\ due' = due \ {entries[a].flag : a \in as}

\* destroyEntry, for each of these: the flag first, then the memory.
Destroy(as) ==
  /\ entries' = [a \in Addresses |-> IF a \in as THEN None ELSE entries[a]]
  /\ alive' = alive \ {entries[a].flag : a \in as}
  /\ due' = due \ {entries[a].flag : a \in as}

\* api_client_unregister_key, with any handle, whosever it is; one that is not in the
\* table is refused.
UnregisterKey(m, a) ==
  /\ Runs(m)
  /\ Destroy({a} \intersect Live)
  /\ UNCHANGED <<loaded, handlers, ownerOf, press, heard>>

\* The registry hands a press, or a release, to the handlers the key has.
Press(k) ==
  /\ press = None /\ handlers[k] # <<>>
  /\ press' = [name |-> k, at |-> 1, bound |-> Len(handlers[k])]
  /\ due' = {handlers[k][i] : i \in DOMAIN handlers[k]} \intersect alive
  /\ heard' = <<>>
  /\ UNCHANGED <<loaded, handlers, alive, entries, ownerOf>>

\* The next handler: it calls its mod if its flag is still set.
Handle ==
  /\ press # None /\ press.at <= press.bound
  /\ LET f == handlers[press.name][press.at]
     IN  /\ heard' = IF f \in alive THEN Append(heard, f) ELSE heard
         /\ due' = due \ (IF f \in alive THEN {f} ELSE {})
  /\ press' = [press EXCEPT !.at = @ + 1]
  /\ UNCHANGED <<loaded, handlers, alive, entries, ownerOf>>

Released ==
  /\ press # None /\ press.at > press.bound
  /\ press' = None /\ heard' = <<>>
  /\ UNCHANGED <<loaded, handlers, alive, entries, ownerOf, due>>

Load(m) ==
  /\ press = None /\ m \notin loaded
  /\ loaded' = loaded \cup {m}
  /\ UNCHANGED <<handlers, alive, entries, ownerOf, press, due, heard>>

\* clientOnRustModGone, before the library is freed.  A mod may have another one
\* unloaded from its callback.
Unload(m) ==
  /\ m \in loaded
  /\ press # None => \E n \in Mods \ {m} : Runs(n)
  /\ loaded' = loaded \ {m}
  /\ Destroy({a \in Live : entries[a].owner = m})
  /\ UNCHANGED <<handlers, ownerOf, press, heard>>

Next ==
  \/ \E m \in Mods : Load(m) \/ Unload(m)
  \/ \E m \in Mods, k \in KeyNames, codes \in {0, 1} : RegisterKey(m, k, codes)
  \/ \E m \in Mods, a \in Addresses : UnregisterKey(m, a)
  \/ \E k \in KeyNames : Press(k)
  \/ Handle \/ Released

Spec == Init /\ [][Next]_vars

-----------------------------------------------------------------------------

\* A press reaches every binding of its key that is not removed meanwhile, once.
ReachesEveryBinding ==
  /\ \A i, j \in DOMAIN heard : heard[i] = heard[j] => i = j
  /\ press = None \/ press.at > press.bound => due = {}

\* A handler calls into its mod only while the mod is loaded: a flag is set exactly
\* as long as a loaded mod has the entry (Client.cpp:41-49).
ArmedWhileBound ==
  alive = {entries[a].flag : a \in Live} /\ \A f \in alive : ownerOf[f] \in loaded
=============================================================================
