-------------------------------- MODULE KvDb --------------------------------
(***************************************************************************)
(* The key-value stores of mods: bridge/runtime/data/KvDbApi.cpp.  One     *)
(* mutex covers the table of handles and every call into a store; get and  *)
(* iter hold it while they run the callback of the mod.  The callbacks     *)
(* here do not call a store themselves: the mutex is not recursive.        *)
(***************************************************************************)
EXTENDS Naturals, Sequences, SequencesExt, FiniteSets

CONSTANTS
  Mods, Threads, Paths, None,
  Keys,      \* the order an iteration visits them in
  Values,
  MaxOpen,   \* handles ever given out
  MaxStart   \* starts of the server

KeySet == ToSet(Keys)
Before(k, q) == \E i, j \in DOMAIN Keys : i <= j /\ Keys[i] = k /\ Keys[j] = q

VARIABLES
  loaded,   \* the mods
  opening,  \* per thread: a store it opened and has not entered in the table yet,
            \* [mod, path], or None; the mod is None when it was unloaded meanwhile
  table,    \* gKvDbs: per handle in use, [mod, path]
  nextId,   \* gNextKvId
  files,    \* per path: the content on disk, a function on the keys it has
  locker,   \* the thread that holds gKvMutex, or None
  reading,  \* per thread: a get or iter in progress, [path, left, given], or None;
            \* left are the keys still to hand over
  atCall,   \* history: the content when the reading thread took the mutex
  starts

vars == <<loaded, opening, table, nextId, files, locker, reading, atCall, starts>>
Empty == [k \in {} |-> None]

Init ==
  /\ loaded = {} /\ opening = [t \in Threads |-> None] /\ table = Empty /\ nextId = 1
  /\ files = Empty
  /\ locker = None /\ reading = [t \in Threads |-> None] /\ atCall = Empty
  /\ starts = 1

Idle(t) == reading[t] = None /\ opening[t] = None
Free(t) == locker = None /\ Idle(t)
\* The handles a mod may use: what was entered after its unload is nobody's.
Handles == {h \in DOMAIN table : table[h].mod \in loaded}
Content(h) == files[table[h].path]
Store(h, content) == files' = [files EXCEPT ![table[h].path] = content]
Unchanged == UNCHANGED <<loaded, opening, locker, reading, atCall, starts>>

-----------------------------------------------------------------------------
(* Opening a store.                                                        *)

Opened == {table[h].path : h \in DOMAIN table}
          \cup {opening[t].path : t \in {s \in Threads : opening[s] # None}}

\* api_kvdb_open, before the mutex: the store itself refuses a path that is open
\* already, and one that is not there unless it may be made.
Open(t, m, p, createIfMissing) ==
  /\ m \in loaded /\ Idle(t)
  /\ nextId + Cardinality({s \in Threads : opening[s] # None}) <= MaxOpen
  /\ p \notin Opened
  /\ p \in DOMAIN files \/ createIfMissing
  /\ files' = IF p \in DOMAIN files THEN files
              ELSE [q \in DOMAIN files \cup {p} |-> IF q = p THEN Empty ELSE files[q]]
  /\ opening' = [opening EXCEPT ![t] = [mod |-> m, path |-> p]]
  /\ UNCHANGED <<loaded, table, nextId, locker, reading, atCall, starts>>

\* And under it, whatever has become of the mod.
Enter(t) ==
  /\ opening[t] # None /\ locker = None
  /\ table' = [h \in DOMAIN table \cup {nextId} |->
                 IF h = nextId THEN opening[t] ELSE table[h]]
  /\ nextId' = nextId + 1
  /\ opening' = [opening EXCEPT ![t] = None]
  /\ UNCHANGED <<loaded, files, locker, reading, atCall, starts>>

-----------------------------------------------------------------------------
(* The calls that run no callback: one step under the mutex each.          *)

Without(handles) == [h \in DOMAIN table \ handles |-> table[h]]

Close(t, h) ==
  /\ Free(t) /\ h \in Handles
  /\ table' = Without({h})
  /\ Unchanged /\ UNCHANGED <<nextId, files>>

Set(t, h, k, v) ==
  /\ Free(t) /\ h \in Handles
  /\ Store(h, [q \in DOMAIN Content(h) \cup {k} |-> IF q = k THEN v ELSE Content(h)[q]])
  /\ Unchanged /\ UNCHANGED <<table, nextId>>

Del(t, h, k) ==
  /\ Free(t) /\ h \in Handles
  /\ Store(h, [q \in DOMAIN Content(h) \ {k} |-> Content(h)[q]])
  /\ Unchanged /\ UNCHANGED <<table, nextId>>

-----------------------------------------------------------------------------
(* get and iter: the callback runs once per pair, under the mutex.         *)

\* Mutant: the handle is looked up under the mutex, the pairs are read without it.
ReadUnlocked(t, h, keys) ==
  /\ Free(t) /\ h \in Handles
  /\ LET there == keys \intersect DOMAIN Content(h) IN
     /\ there # {}
     /\ reading' = [reading EXCEPT ![t] =
                      [path |-> table[h].path, left |-> there, given |-> Empty]]
     /\ atCall' = [k \in there |-> Content(h)[k]]
  /\ UNCHANGED <<loaded, opening, table, nextId, files, locker, starts>>

Read(t, h, keys) ==
  /\ Free(t) /\ h \in Handles
  /\ LET there == keys \intersect DOMAIN Content(h) IN
     /\ there # {}
     /\ locker' = t
     /\ reading' = [reading EXCEPT ![t] =
                      [path |-> table[h].path, left |-> there, given |-> Empty]]
     /\ atCall' = [k \in there |-> Content(h)[k]]
  /\ UNCHANGED <<loaded, opening, table, nextId, files, starts>>

Get(t, h, k) == Read(t, h, {k})
Iter(t, h) == Read(t, h, KeySet)

\* The next pair goes to the mod.
Sink(t) ==
  LET r == reading[t] IN
  /\ r # None
  /\ \E k \in r.left :
       /\ \A q \in r.left : Before(k, q)
       /\ reading' = [reading EXCEPT ![t] =
            [path |-> r.path, left |-> r.left \ {k},
             given |-> [q \in DOMAIN r.given \cup {k} |->
               IF q # k THEN r.given[q]
               ELSE IF k \in DOMAIN files[r.path] THEN files[r.path][k] ELSE None]]]
  /\ UNCHANGED <<loaded, opening, table, nextId, files, locker, atCall, starts>>

Done(t) ==
  /\ reading[t] # None /\ reading[t].left = {}
  /\ locker' = None /\ reading' = [reading EXCEPT ![t] = None] /\ atCall' = Empty
  /\ UNCHANGED <<loaded, opening, table, nextId, files, starts>>

-----------------------------------------------------------------------------
(* Mods and the server.                                                    *)

Load(m) ==
  /\ m \notin loaded
  /\ loaded' = loaded \cup {m}
  /\ UNCHANGED <<opening, table, nextId, files, locker, reading, atCall, starts>>

\* kvdbOnRustModGone takes the mutex: what the table has of the mod is closed.
Unload(m) ==
  /\ m \in loaded /\ locker = None
  /\ loaded' = loaded \ {m}
  /\ table' = Without({h \in DOMAIN table : table[h].mod = m})
  /\ opening' = [t \in Threads |->
       IF opening[t] # None /\ opening[t].mod = m THEN [opening[t] EXCEPT !.mod = None]
       ELSE opening[t]]
  /\ UNCHANGED <<nextId, files, locker, reading, atCall, starts>>

\* The process ends anywhere and starts again: the stores are on disk.
Restart ==
  /\ starts < MaxStart
  /\ starts' = starts + 1
  /\ loaded' = {} /\ opening' = [t \in Threads |-> None]
  /\ table' = Empty /\ nextId' = 1
  /\ locker' = None /\ reading' = [t \in Threads |-> None] /\ atCall' = Empty
  /\ UNCHANGED files

Next ==
  \/ \E t \in Threads, m \in Mods, p \in Paths, c \in BOOLEAN : Open(t, m, p, c)
  \/ \E t \in Threads : Enter(t)
  \/ \E t \in Threads, h \in DOMAIN table :
       \/ Close(t, h) \/ Iter(t, h)
       \/ \E k \in KeySet : Del(t, h, k) \/ Get(t, h, k) \/ \E v \in Values : Set(t, h, k, v)
  \/ \E t \in Threads : Sink(t) \/ Done(t)
  \/ \E m \in Mods : Load(m) \/ Unload(m)
  \/ Restart

Spec == Init /\ [][Next]_vars

-----------------------------------------------------------------------------

\* What an iteration has handed over is the store as it was when it began,
\* although the mod's code ran between the pairs: nobody writes the store, closes
\* it or unloads its mod meanwhile.
ReadsOneState ==
  \A t \in Threads : reading[t] # None =>
    LET r == reading[t] IN
    /\ DOMAIN r.given \cup r.left = DOMAIN atCall
    /\ \A k \in DOMAIN r.given : r.given[k] = atCall[k]
    /\ \E h \in DOMAIN table : table[h].path = r.path /\ table[h].mod \in loaded
=============================================================================
