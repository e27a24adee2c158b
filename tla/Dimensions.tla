----------------------------- MODULE Dimensions -----------------------------
(***************************************************************************)
(* Custom dimensions: the manager (CustomDimensionManager.cpp), the        *)
(* engine's registration behind it (NativeDimensions.cpp) and the file     *)
(* that outlives a boot (CustomDimensionConfig.cpp).  Seven tables say     *)
(* which id a name has.  A registration writes them one after the other,   *)
(* may be refused half way by the engine or by its group of definitions,   *)
(* and ends with the one test that counts: the dimension the engine really *)
(* builds.  A failed one leaves what it wrote; the caller tries again, or  *)
(* the server starts again, with a config file somebody may have edited.   *)
(***************************************************************************)
EXTENDS Integers, FiniteSets

CONSTANTS
    Names,
    EngineIds,      \* the ids the engine gives out itself
    MaxBoot         \* bound: boots of the server

VARIABLES
    store,      \* the engine: its NameIdStore, kept with the world
    disk,       \* dimension_config.json: [id, readable] per name
    boot,       \* boots so far
    up,         \* the manager of this boot was constructed
    list,       \* the config in memory
    known,      \* customDimensionMap
    salvaged,   \* salvagedIds
    used,       \* usedIds
    next,       \* mNewDimensionId
    undefined,  \* the engine: VanillaDimensions::Undefined()
    ledger,     \* ledgerByName and ledgerById
    map,        \* the engine: DimensionMap, mRight by name and mLeft by id
    defs,       \* the engine: the DimensionDefinitionGroup of this boot, with the id the
                \* client is told for each name
    built,      \* the engine: the dimensions it built this boot, and their own id
    live,       \* history: ids returned to callers this boot
    fell,       \* history: this boot a registration did without the engine
    told        \* history: ids of the engine returned to callers, in any boot

bootVars == <<store, disk, boot, up, list, known, salvaged, used, next, undefined, ledger, map,
              defs, built, live, fell, told>>

Entries(f) == DOMAIN f
Image(f) == {f[k] : k \in DOMAIN f}
With(f, k, v) == [i \in DOMAIN f \cup {k} |-> IF i = k THEN v ELSE f[i]]
Without(f, ks) == [i \in DOMAIN f \ ks |-> f[i]]
Larger(i, j) == IF i > j THEN i ELSE j
LargestOf(S) == CHOOSE i \in S : \A j \in S : i >= j
TheId(S) == CHOOSE i \in S : TRUE
LeastFree(n) == CHOOSE i \in n .. n + Cardinality(used) :
                    i \notin used /\ \A j \in n .. i - 1 : j \in used

Blank == <<>>
NoPair == [name |-> Blank, id |-> Blank]

Init ==
    /\ store = Blank /\ disk = Blank /\ boot = 0 /\ up = FALSE
    /\ list = Blank /\ known = Blank /\ salvaged = Blank /\ used = {} /\ next = 3
    /\ undefined = 3 /\ ledger = NoPair /\ map = NoPair /\ defs = Blank
    /\ built = Blank /\ live = Blank /\ fell = FALSE /\ told = {}

-----------------------------------------------------------------------------
(* A boot.                                                                 *)

\* The process ends, between any two registrations, and what is not on disk is gone.
Start ==
    /\ boot < MaxBoot
    /\ boot' = boot + 1 /\ up' = FALSE
    /\ list' = Blank /\ known' = Blank /\ salvaged' = Blank /\ used' = {} /\ next' = 3
    /\ undefined' = 3 /\ ledger' = NoPair /\ map' = NoPair /\ defs' = Blank
    /\ built' = Blank /\ live' = Blank /\ fell' = FALSE
    /\ UNCHANGED <<store, disk, told>>

\* The administrator's hand, or a disk: the data of an entry can no longer be read, or
\* its id is one that no custom dimension has, or that of another entry.
Spoil(n) ==
    /\ ~up /\ n \in Entries(disk)
    /\ \/ disk' = [disk EXCEPT ![n].readable = FALSE]
       \/ \E i \in {0} \cup {disk[k].id : k \in Entries(disk)} : disk' = [disk EXCEPT ![n].id = i]
    /\ UNCHANGED <<store, boot, up, list, known, salvaged, used, next, undefined, ledger, map,
                   defs, built, live, fell, told>>

\* Ids below 3 are passed over; of entries that claim one id the first met keeps it.
Keepers(cfg) ==
    LET Valid == {n \in Entries(cfg) : cfg[n].id >= 3}
    IN  {K \in SUBSET Valid :
            /\ \A m, n \in K : cfg[m].id = cfg[n].id => m = n
            /\ {cfg[n].id : n \in K} = {cfg[n].id : n \in Valid}}

(* The constructor.  A file that cannot be loaded is overwritten with an   *)
(* empty one, if it can be; an entry that cannot be read keeps its id.     *)
Construct(loads, saves) ==
    /\ boot > 0 /\ ~up
    /\ up' = TRUE
    /\ list' = IF loads THEN disk ELSE Blank
    /\ disk' = IF ~loads /\ saves THEN Blank ELSE disk
    /\ \E K \in Keepers(list') :
          /\ known' = [n \in {k \in K : list'[k].readable} |-> list'[n].id]
          /\ salvaged' = [n \in {k \in K : ~list'[k].readable} |-> list'[n].id]
          /\ used' = {list'[n].id : n \in K}
          /\ next' = LargestOf({2} \cup used') + 1
    /\ UNCHANGED <<store, boot, undefined, ledger, map, defs, built, live, fell, told>>

-----------------------------------------------------------------------------
(* The steps of a registration, each a function of the tables.             *)

\* engineDimensionId: an unregistered name comes back as Undefined().
EngineId(s, u, n) == IF n \in Entries(s) THEN {s[n]} \ {u} ELSE {}

\* rememberDimension, and what becomes of the engine's map: the old id of the name is
\* forgotten, whosever it is by now.
Remember(l, n, id) ==
    LET old == IF n \in Entries(l.name) THEN {l.name[n]} \ {id} ELSE {}
    IN  [name |-> With(l.name, n, id), id |-> With(Without(l.id, old), id, n)]

\* A name the engine has from an earlier boot, or from earlier in this one.
Preexisting(n) == EngineId(store, undefined, n)

\* The id under which the engine registers the name: the one it has, or else offer, what
\* serverRegisterCustomDimension answers, an id or nothing.  A group of definitions
\* that throws ends a first registration, and only a first one.
Registered(n, offer, group) ==
    IF Preexisting(n) # {} THEN Preexisting(n) ELSE IF group = "throws" THEN {} ELSE offer

\* What registerCustomDimension returns: an id it could read back, or nothing.  One that
\* reads back as Undefined() is given up, and stays with the engine.
Native(n, offer, group) == Registered(n, offer, group) \ {undefined}

\* The definition the client is told of goes in first, when the group has none and takes
\* it: with the id the engine has, or with -1 until a registration has succeeded.  One
\* that is there is corrected only after a first registration.
Defined(n, offer, group) ==
    LET pre == Preexisting(n)
        id == Native(n, offer, group)
        added == IF n \in Entries(defs) \/ group # "takes" THEN defs
                 ELSE With(defs, n, IF pre = {} THEN -1 ELSE TheId(pre))
    IN  IF pre = {} /\ id # {} /\ n \in Entries(added) THEN With(added, n, TheId(id))
        ELSE added

OldId(n) == IF n \in Entries(known) THEN known[n]
            ELSE IF n \in Entries(salvaged) THEN salvaged[n] ELSE 0

\* Mutant: the config knows better than the engine.
IdForConfigFirst(n, nat) ==
    IF OldId(n) >= 3 THEN OldId(n) ELSE IF nat # {} THEN TheId(nat) ELSE LeastFree(next)

\* The id: the engine's, or the old one, or the next the loader has not used.
IdFor(n, nat) ==
    IF nat # {} THEN TheId(nat) ELSE IF OldId(n) >= 3 THEN OldId(n) ELSE LeastFree(next)

\* addDimension, up to the test.
Write(n, nat, saves) ==
    LET id == IdFor(n, nat)
    IN  /\ salvaged' = IF n \in Entries(known) THEN salvaged ELSE Without(salvaged, {n})
        /\ used' = used \cup {id}
        /\ known' = With(known, n, id)
        /\ map' = Remember(map, n, id)
        /\ next' = Larger(next, id + 1)
        /\ undefined' = IF nat = {} THEN next' ELSE undefined
        /\ list' = With(list, n, [id |-> id, readable |-> TRUE])
        /\ disk' = IF list' # list /\ saves THEN list' ELSE disk
        /\ fell' = (fell \/ nat = {})
        /\ UNCHANGED <<boot, up>>

\* The engine may call the factory while it registers the name, before the id is filled
\* in: then with the old id, or with its own.  It builds a dimension once a boot.
BuiltEarly(n, builds, got) ==
    IF builds # "early" \/ got = {} \/ n \in Entries(built) THEN {}
    ELSE IF OldId(n) >= 3 THEN {OldId(n)} ELSE got \ {undefined}

\* The test: the engine builds the dimension if it knows the name, unless it has already.
Probe(n, builds, sofar) ==
    IF EngineId(store', undefined', n) = {} THEN {}
    ELSE IF n \in Entries(sofar) THEN {sofar[n]}
    ELSE IF builds # "never" THEN {known'[n]} ELSE {}

(* addDimension.  offer is what the engine answers to a registration, group *)
(* what its definitions say, builds when it builds the dimension, if it can. *)
Add(n, offer, group, saves, builds) ==
    LET got == Registered(n, offer, group)
        nat == Native(n, offer, group)
        first == BuiltEarly(n, builds, got)
        sofar == IF first = {} THEN built ELSE With(built, n, TheId(first))
        probe == Probe(n, builds, sofar)
        id == known'[n]
        wrote == Remember(ledger, n, id)
    IN  /\ up
        /\ store' = IF got = {} THEN store ELSE With(store, n, TheId(got))
        /\ defs' = Defined(n, offer, group)
        /\ Write(n, nat, saves)
        /\ built' = IF probe = {} THEN sofar ELSE With(sofar, n, TheId(probe))
        /\ ledger' = IF probe \subseteq {id} THEN wrote ELSE Remember(wrote, n, -1)
        /\ live' = IF probe = {id} THEN With(live, n, id) ELSE Without(live, {n})
        /\ told' = IF probe = {id} /\ nat # {} THEN told \cup {<<n, id>>} ELSE told

\* api_md_get_dimension_id: the engine's map first, the config in memory after it.
GetDimensionId(n) ==
    IF n \in Entries(map.name) /\ map.name[n] # undefined THEN map.name[n]
    ELSE IF n \in Entries(list) THEN list[n].id ELSE -1

\* A group that has the definition refuses nothing; what one throws for a name of an
\* earlier boot is caught, as if it had refused.
Groups(n) == {"takes"} \cup (IF n \in Entries(defs) THEN {} ELSE {"refuses"})
                       \cup (IF Preexisting(n) = {} THEN {"throws"} ELSE {})

\* What the engine may answer, if it is asked: nothing, or, to a name it does not have,
\* an id it has not used.
Offers(n, group) ==
    {{}} \cup (IF group = "throws" \/ n \in Entries(store) THEN {}
              ELSE {{i} : i \in EngineIds \ Image(store)})

\* A dimension that is built stays.
Builds(n) == IF n \in Entries(built) THEN {"asked"} ELSE {"early", "asked", "never"}

Next ==
    \/ Start
    \/ \E n \in Names : Spoil(n)
    \/ \E loads, saves \in BOOLEAN : Construct(loads, saves)
    \/ \E n \in Names, saves \in BOOLEAN : \E group \in Groups(n), builds \in Builds(n) :
          \E offer \in Offers(n, group) : Add(n, offer, group, saves, builds)

Spec == Init /\ [][Next]_bootVars

-----------------------------------------------------------------------------
(***************************************************************************)
(* An id the engine gave stands for one name for ever: whatever was        *)
(* refused, tried again, built too early, lost or edited in the config     *)
(* between two boots, callers are never told another id for the name nor   *)
(* the id for another name.  A dimension of this boot was built under the  *)
(* id its caller got, and a mod that asks for the name is told that one.   *)
(* While no registration did without the engine, the id leads back to the  *)
(* name in the ledger and in the engine's map, and the client, if the      *)
(* group has the definition, was told that id.                             *)
(***************************************************************************)
IdsHold ==
    /\ \A p, q \in told : p[1] = q[1] <=> p[2] = q[2]
    /\ \A n \in Entries(live) :
          /\ built[n] = live[n] /\ GetDimensionId(n) = live[n]
          /\ ~fell => /\ live[n] \in Entries(ledger.id) /\ ledger.id[live[n]] = n
                      /\ live[n] \in Entries(map.id) /\ map.id[live[n]] = n
                      /\ n \in Entries(defs) => defs[n] = live[n]
=============================================================================
