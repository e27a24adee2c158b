-------------------------------- MODULE Lane --------------------------------
(***************************************************************************)
(* The Rust fast lane: src/src/bridge/core/Lane.cpp and the consumer side  *)
(* in src/crates/levilamina/src/lane/lane_error.rs.                        *)
(*                                                                         *)
(* A provider mod publishes a function table under an exclusive name; a    *)
(* consumer mod acquires a lease and calls through the table directly.     *)
(* The loader owns the two tables (gLanes, gLeases), the never-freed       *)
(* AliveCell of every lane (alive flag and busy counter), and the calls    *)
(* to the provider's retain/release hooks, whose Arc strong count is       *)
(* `strong'.                                                               *)
(*                                                                         *)
(* The server thread runs one call stack: a frame is a consumer parked in  *)
(* a lane's table entry ("call") or RustModManager::unload in progress     *)
(* ("unload").  Whatever runs under the top frame may call the loader      *)
(* again, so every operation is enabled at any depth, while a frame only   *)
(* continues or returns when it is on top.                                 *)
(*                                                                         *)
(* Abstracted: a lane's name and fingerprint are the members of small      *)
(* sets, an invalid name or descriptor is a call that changes nothing.     *)
(***************************************************************************)
EXTENDS Integers, Sequences, FiniteSets

CONSTANTS
  Mods,          \* the Rust mods
  Names,         \* lane names
  Fingerprints,  \* compile fingerprints; 0 is the reserved one
  None,          \* the null pointer
  MaxLanes,      \* bound: how many lanes are ever published
  MaxLeases,     \* bound: how many leases are ever granted
  MaxDepth,      \* bound: frames on the server thread's stack
  OffThread,     \* may lane_acquire run off the server thread (Lane.cpp:133)
  UnpublishInCall \* may a provider retire a lane it is being called through

ASSUME BoundsAssumption ==
  /\ MaxLanes \in Nat /\ MaxLeases \in Nat /\ MaxDepth \in Nat
  /\ OffThread \in BOOLEAN /\ UnpublishInCall \in BOOLEAN

ASSUME NoneAssumption == None \notin Mods

VARIABLES
  stage,      \* per mod: "absent", "loaded", or the step of its unload
  lanes,      \* gLanes: publish id -> lane
  byName,     \* gByName: name -> publish id, 0 when free
  leases,     \* gLeases: lease id -> lease
  nextLane,   \* gNextLaneId
  nextLease,  \* gNextLeaseId
  alive,      \* AliveCell::flag, never freed
  busy,       \* AliveCell::busy, never freed
  strong,     \* the provider's Arc strong count, per lane
  retaining,  \* leases inserted whose retain hook has not run yet
  handles,    \* lease id -> the consumer's Lane<C> value; its table is in
              \* the dylib of the mod `code'
  pending,    \* per mod: leases, then lanes, its unload still has to process
  stack       \* the server thread's frames, top last

vars == <<stage, lanes, byName, leases, nextLane, nextLease, alive, busy,
          strong, retaining, handles, pending, stack>>

LaneIds  == 1..MaxLanes
LeaseIds == 1..MaxLeases

NoLane   == [mod |-> None, name |-> None, fp |-> 0, leases |-> 0]
NoLease  == [holder |-> None, lane |-> 0]
NoHandle == [holder |-> None, lane |-> 0, code |-> None]

Stages == {"absent", "loaded", "closing", "leases", "lanes"}

LaneRec   == [mod: Mods, name: Names, fp: Fingerprints, leases: Nat]
LeaseRec  == [holder: Mods, lane: LaneIds]
HandleRec == [holder: Mods, lane: LaneIds, code: Mods]

CallFrame   == [kind: {"call"}, lease: LeaseIds, lane: LaneIds, code: Mods]
UnloadFrame == [kind: {"unload"}, mod: Mods]

-----------------------------------------------------------------------------
Published(l)   == lanes[l].mod # None
Provides(m, l) == lanes[l].mod = m
Leased(i)      == leases[i].holder # None
Held(i)        == handles[i].holder # None
LeasesOn(l)    == {i \in LeaseIds : leases[i].lane = l}
LeasesOf(m)    == {i \in LeaseIds : leases[i].holder = m}
RetainsOn(l)   == {i \in retaining : handles[i].lane = l}

Mapped(m)  == stage[m] # "absent"
Active(m)  == stage[m] \in {"loaded", "closing"}  \* its own code may still register
CallsOf(l) == {d \in DOMAIN stack : stack[d].kind = "call" /\ stack[d].lane = l}

OnTop(f) == stack # <<>> /\ stack[Len(stack)] = f
Pop      == SubSeq(stack, 1, Len(stack) - 1)

\* lane_acquire is not atomic: the lease is inserted under the lock, the
\* retain hook runs after it.  On one thread nothing comes in between.
Serial == OffThread \/ retaining = {}

Init ==
  /\ stage = [m \in Mods |-> "loaded"]
  /\ lanes = [l \in LaneIds |-> NoLane]
  /\ byName = [n \in Names |-> 0]
  /\ leases = [i \in LeaseIds |-> NoLease]
  /\ nextLane = 1 /\ nextLease = 1
  /\ alive = [l \in LaneIds |-> FALSE]
  /\ busy = [l \in LaneIds |-> 0]
  /\ strong = [l \in LaneIds |-> 0]
  /\ retaining = {}
  /\ handles = [i \in LeaseIds |-> NoHandle]
  /\ pending = [m \in Mods |-> {}]
  /\ stack = <<>>

-----------------------------------------------------------------------------
\* Mutant: lane_publish forgets the `taken' test, or takes a free publish id again.
PublishOver(m, n, f, id) ==
  /\ Serial
  /\ Active(m)
  /\ f # 0
  /\ id <= MaxLanes
  /\ lanes' = [lanes EXCEPT ![id] = [mod |-> m, name |-> n, fp |-> f, leases |-> 0]]
  /\ byName' = [byName EXCEPT ![n] = id]
  /\ alive' = [alive EXCEPT ![id] = TRUE]
  /\ strong' = [strong EXCEPT ![id] = 1]
  /\ nextLane' = IF id = nextLane THEN id + 1 ELSE nextLane
  /\ UNCHANGED <<stage, leases, nextLease, busy, retaining, handles, pending, stack>>

PublishTaken(m, n, f)    == PublishOver(m, n, f, nextLane)
PublishReused(m, n, f) ==
  /\ byName[n] = 0
  /\ \E id \in LaneIds : /\ id <= nextLane /\ ~Published(id)
                        /\ PublishOver(m, n, f, id)

\* publish + api_lane_publish: the name is exclusive, fingerprint 0 is
\* refused, and the Arc handed over by Arc::into_raw is the first reference.
\* release/retain hooks may not call lane_publish (LeviRsAbi.h:428), so a
\* mod publishes only before laneOnRustModGone begins on it.
Publish(m, n, f) ==
  /\ Serial
  /\ Active(m)
  /\ f # 0
  /\ byName[n] = 0
  /\ nextLane <= MaxLanes
  /\ lanes' = [lanes EXCEPT ![nextLane] =
                 [mod |-> m, name |-> n, fp |-> f, leases |-> 0]]
  /\ byName' = [byName EXCEPT ![n] = nextLane]
  /\ alive' = [alive EXCEPT ![nextLane] = TRUE]
  /\ strong' = [strong EXCEPT ![nextLane] = 1]
  /\ nextLane' = nextLane + 1
  /\ UNCHANGED <<stage, leases, nextLease, busy, retaining, handles, pending, stack>>

\* Mutant: retireLane leaves the flag up, or runs release only once.
RetireBut(l, flag, releases) ==
  /\ alive' = [alive EXCEPT ![l] = flag]
  /\ leases' = [i \in LeaseIds |-> IF i \in LeasesOn(l) THEN NoLease ELSE leases[i]]
  /\ byName' = [byName EXCEPT ![lanes[l].name] = IF @ = l THEN 0 ELSE @]
  /\ lanes' = [lanes EXCEPT ![l] = NoLane]
  /\ strong' = [strong EXCEPT ![l] = @ - releases]

RetireKeepsFlag(l)    == RetireBut(l, TRUE, 1 + Cardinality(LeasesOn(l)))
RetireReleasesOnce(l) == RetireBut(l, FALSE, 1)

\* retireLane: the flag goes down, every lease of the lane and its name leave
\* the tables in one critical section, then release runs once for the
\* publisher's own reference and once per lease found.
Retire(l) ==
  /\ alive' = [alive EXCEPT ![l] = FALSE]
  /\ leases' = [i \in LeaseIds |-> IF i \in LeasesOn(l) THEN NoLease ELSE leases[i]]
  /\ byName' = [byName EXCEPT ![lanes[l].name] = IF @ = l THEN 0 ELSE @]
  /\ lanes' = [lanes EXCEPT ![l] = NoLane]
  /\ strong' = [strong EXCEPT ![l] = @ - (1 + Cardinality(LeasesOn(l)))]

\* api_lane_unpublish (Publication::drop): only the publisher's own lanes.
Unpublish(m, l) ==
  /\ Serial
  /\ Mapped(m)
  /\ Provides(m, l)
  /\ UnpublishInCall \/ CallsOf(l) = {}
  /\ Retire(l)
  /\ UNCHANGED <<stage, nextLane, nextLease, busy, retaining, handles, pending, stack>>

\* api_lane_acquire, under the lock: no self-acquire, the provider is alive,
\* the fingerprint is not 0 and equals the lane's; the lease is inserted and
\* the reference handed out.
AcquireInsert(m, n, want) ==
  /\ Serial
  /\ Active(m)
  /\ nextLease <= MaxLeases
  /\ byName[n] # 0
  /\ LET l == byName[n] IN
       /\ Published(l)
       /\ lanes[l].mod # m
       /\ Mapped(lanes[l].mod)
       /\ want # 0 /\ want = lanes[l].fp
       /\ leases' = [leases EXCEPT ![nextLease] = [holder |-> m, lane |-> l]]
       /\ handles' = [handles EXCEPT ![nextLease] =
                         [holder |-> m, lane |-> l, code |-> lanes[l].mod]]
       /\ lanes' = [lanes EXCEPT ![l].leases = @ + 1]
  /\ retaining' = retaining \union {nextLease}
  /\ nextLease' = nextLease + 1
  /\ UNCHANGED <<stage, byName, nextLane, alive, busy, strong, pending, stack>>

\* api_lane_acquire, after the lock: the retain hook.
AcquireRetain(i) ==
  /\ i \in retaining
  /\ strong' = [strong EXCEPT ![handles[i].lane] = @ + 1]
  /\ retaining' = retaining \ {i}
  /\ UNCHANGED <<stage, lanes, byName, leases, nextLane, nextLease, alive, busy,
                 handles, pending, stack>>

\* The critical section of api_lane_release and the release call after it.
\* A lease that is gone was already released by Retire: nothing happens.
GiveBack(i) ==
  IF ~Leased(i)
    THEN UNCHANGED <<lanes, leases, strong>>
    ELSE LET l == leases[i].lane IN
         /\ leases' = [leases EXCEPT ![i] = NoLease]
         /\ IF Published(l)
              THEN /\ lanes' = [lanes EXCEPT ![l].leases = IF @ > 0 THEN @ - 1 ELSE @]
                   /\ strong' = [strong EXCEPT ![l] = @ - 1]
              ELSE UNCHANGED <<lanes, strong>>

\* Lane::drop -> api_lane_release.  A handle is borrowed while it is being
\* called through, so it cannot be dropped then.
Drop(i) ==
  /\ Serial
  /\ Held(i) /\ i \notin retaining
  /\ Mapped(handles[i].holder)
  /\ \A d \in DOMAIN stack : stack[d].kind = "call" => stack[d].lease # i
  /\ GiveBack(i)
  /\ handles' = [handles EXCEPT ![i] = NoHandle]
  /\ UNCHANGED <<stage, byName, nextLane, nextLease, alive, busy, retaining, pending, stack>>

-----------------------------------------------------------------------------
\* Lane::with: alive is checked, busy raised (BusyGuard::enter), alive checked
\* again, and the table entry entered.  A dead lane returns None.
Call(i) ==
  /\ Serial
  /\ Len(stack) < MaxDepth
  /\ Held(i) /\ i \notin retaining
  /\ Mapped(handles[i].holder)
  /\ LET l == handles[i].lane IN
       /\ alive[l]
       /\ busy' = [busy EXCEPT ![l] = @ + 1]
       /\ stack' = Append(stack, [kind |-> "call", lease |-> i, lane |-> l,
                                  code |-> handles[i].code])
  /\ UNCHANGED <<stage, lanes, byName, leases, nextLane, nextLease, alive, strong,
                 retaining, handles, pending>>

\* The table entry returns and BusyGuard::drop lowers the counter.
Return ==
  /\ Serial
  /\ stack # <<>>
  /\ LET f == stack[Len(stack)] IN
       /\ f.kind = "call"
       /\ busy' = [busy EXCEPT ![f.lane] = @ - 1]
  /\ stack' = Pop
  /\ UNCHANGED <<stage, lanes, byName, leases, nextLane, nextLease, alive, strong,
                 retaining, handles, pending>>

-----------------------------------------------------------------------------
\* Mutant: unload does not look at the busy counters.
LaneNeverBusy(m) == FALSE

\* laneModBusyName: some lane still in the table is being called.
LaneBusy(m) == \E l \in LaneIds : Provides(m, l) /\ busy[l] # 0

\* RustModManager::unload: refused while a lane of the mod is busy, then the
\* mod's own on_unload runs, and may use the lane calls like any other code.
UnloadBegin(m) ==
  /\ Serial
  /\ Len(stack) < MaxDepth
  /\ stage[m] = "loaded"
  /\ ~LaneBusy(m)
  /\ stage' = [stage EXCEPT ![m] = "closing"]
  /\ stack' = Append(stack, [kind |-> "unload", mod |-> m])
  /\ UNCHANGED <<lanes, byName, leases, nextLane, nextLease, alive, busy, strong,
                 retaining, handles, pending>>

\* on_unload returned: the mod refuses, or unload goes on to laneOnRustModGone,
\* whose first scan lists the leases the mod holds.
OnUnload(m) ==
  /\ Serial
  /\ stage[m] = "closing" /\ OnTop([kind |-> "unload", mod |-> m])
  /\ \/ /\ stage' = [stage EXCEPT ![m] = "loaded"]
        /\ stack' = Pop
        /\ UNCHANGED pending
     \/ /\ stage' = [stage EXCEPT ![m] = "leases"]
        /\ pending' = [pending EXCEPT ![m] = LeasesOf(m)]
        /\ UNCHANGED stack
  /\ UNCHANGED <<lanes, byName, leases, nextLane, nextLease, alive, busy, strong,
                 retaining, handles>>

\* Mutant: a lease that is gone already is waited for.
ReturnLeaseOnlyHeld(m, i) ==
  /\ Serial
  /\ stage[m] = "leases" /\ OnTop([kind |-> "unload", mod |-> m])
  /\ i \in pending[m] /\ Leased(i)
  /\ GiveBack(i)
  /\ pending' = [pending EXCEPT ![m] = @ \ {i}]
  /\ UNCHANGED <<stage, byName, nextLane, nextLease, alive, busy, retaining, handles, stack>>

\* laneOnRustModGone, first loop: one of the mod's own leases is given back.
ReturnLease(m, i) ==
  /\ Serial
  /\ stage[m] = "leases" /\ OnTop([kind |-> "unload", mod |-> m])
  /\ i \in pending[m]
  /\ GiveBack(i)
  /\ pending' = [pending EXCEPT ![m] = @ \ {i}]
  /\ UNCHANGED <<stage, byName, nextLane, nextLease, alive, busy, retaining, handles, stack>>

\* laneOnRustModGone, second scan: the lanes the mod published.
ListPublished(m) ==
  /\ Serial
  /\ stage[m] = "leases" /\ OnTop([kind |-> "unload", mod |-> m])
  /\ pending[m] = {}
  /\ stage' = [stage EXCEPT ![m] = "lanes"]
  /\ pending' = [pending EXCEPT ![m] = {l \in LaneIds : Provides(m, l)}]
  /\ UNCHANGED <<lanes, byName, leases, nextLane, nextLease, alive, busy, strong,
                 retaining, handles, stack>>

\* laneOnRustModGone, second loop; a lane retired meanwhile is skipped.
RetireOwn(m, l) ==
  /\ Serial
  /\ stage[m] = "lanes" /\ OnTop([kind |-> "unload", mod |-> m])
  /\ l \in pending[m]
  /\ IF Published(l) THEN Retire(l)
                     ELSE UNCHANGED <<lanes, byName, leases, alive, strong>>
  /\ pending' = [pending EXCEPT ![m] = @ \ {l}]
  /\ UNCHANGED <<stage, nextLane, nextLease, busy, retaining, handles, stack>>

\* lib.free() fails, and the mod stays in the table; or it succeeds, eraseMod
\* follows, and the dylib is unmapped with the handles it held.
FreeLib(m) ==
  /\ Serial
  /\ stage[m] = "lanes" /\ OnTop([kind |-> "unload", mod |-> m])
  /\ pending[m] = {}
  /\ \/ stage' = [stage EXCEPT ![m] = "loaded"] /\ UNCHANGED handles
     \/ /\ stage' = [stage EXCEPT ![m] = "absent"]
        /\ handles' = [i \in LeaseIds |->
                         IF handles[i].holder = m /\ i \notin retaining
                           THEN NoHandle ELSE handles[i]]
  /\ stack' = Pop
  /\ UNCHANGED <<lanes, byName, leases, nextLane, nextLease, alive, busy, strong,
                 retaining, pending>>

\* RustModManager::load brings the mod back.
Load(m) ==
  /\ Serial
  /\ stage[m] = "absent"
  /\ stage' = [stage EXCEPT ![m] = "loaded"]
  /\ UNCHANGED <<lanes, byName, leases, nextLane, nextLease, alive, busy, strong,
                 retaining, handles, pending, stack>>

Next ==
  \/ \E m \in Mods, n \in Names, f \in Fingerprints :
       Publish(m, n, f) \/ AcquireInsert(m, n, f)
  \/ \E m \in Mods, l \in LaneIds : Unpublish(m, l) \/ RetireOwn(m, l)
  \/ \E i \in LeaseIds : AcquireRetain(i) \/ Drop(i) \/ Call(i)
  \/ Return
  \/ \E m \in Mods : UnloadBegin(m) \/ OnUnload(m) \/ ListPublished(m) \/ FreeLib(m) \/ Load(m)
  \/ \E m \in Mods, i \in LeaseIds : ReturnLease(m, i)

Spec == Init /\ [][Next]_vars
-----------------------------------------------------------------------------
TypeOK ==
  /\ stage \in [Mods -> Stages]
  /\ lanes \in [LaneIds -> LaneRec \union {NoLane}]
  /\ byName \in [Names -> LaneIds \union {0}]
  /\ leases \in [LeaseIds -> LeaseRec \union {NoLease}]
  /\ nextLane \in 1..(MaxLanes + 1)
  /\ nextLease \in 1..(MaxLeases + 1)
  /\ alive \in [LaneIds -> BOOLEAN]
  /\ busy \in [LaneIds -> Int]
  /\ strong \in [LaneIds -> Int]
  /\ retaining \subseteq LeaseIds
  /\ handles \in [LeaseIds -> HandleRec \union {NoHandle}]
  /\ pending \in [Mods -> SUBSET (LaneIds \union LeaseIds)]
  /\ stack \in Seq(CallFrame \union UnloadFrame)

\* The two tables name the same lanes: a name resolves to a lane that carries
\* it, and every lane in gLanes is the one its name resolves to, so no two
\* mods ever provide one name (Lane.cpp, the `taken' test of lane_publish).
NamesExclusive ==
  /\ \A n \in Names : byName[n] # 0 => lanes[byName[n]].name = n
  /\ \A l \in LaneIds : Published(l) => byName[lanes[l].name] = l

\* The alive flag, which outlives the lane, says exactly whether the lane is
\* still in the table: a consumer never sees a retired lane as alive.
FlagTracksTable == \A l \in LaneIds : alive[l] <=> Published(l)

\* retain and release balance: the Arc count the provider sees, plus the
\* retains still to run, is one for the publication and one per lease.  So
\* the state is neither leaked nor freed twice, whichever of consumer drop,
\* unpublish and either mod's unload comes first.
StrongBalanced ==
  \A l \in LaneIds :
    strong[l] + Cardinality(RetainsOn(l))
      = (IF Published(l) THEN 1 ELSE 0) + Cardinality(LeasesOn(l))

\* No frame is parked in the code of a provider whose dylib was unmapped:
\* what unload's busy test is for (LeviRsAbi.h:478-486).
CalledCodeMapped ==
  \A d \in DOMAIN stack :
    stack[d].kind = "call" => Mapped(stack[d].code)

\* A lane that was retired stays retired: publish ids and their alive cells
\* are never reused, so a stale consumer cannot come back to life.
RetiredForGood ==
  [][\A l \in LaneIds : l < nextLane /\ ~alive[l] => ~alive'[l]]_vars

\* The abstract promise, seen through the tables: a lane is up while it is in
\* gLanes, its grants are its leases, and it is called while its busy cell is
\* not zero.
Promise == INSTANCE LanePromise WITH
  phase  <- [l \in LaneIds |-> IF Published(l) THEN "up"
                               ELSE IF l < nextLane THEN "down" ELSE "unborn"],
  grants <- [l \in LaneIds |-> LeasesOn(l)],
  spent  <- 1..(nextLease - 1),
  inside <- {l \in LaneIds : busy[l] # 0}

\* The loader keeps the promise: in particular no lease is granted on, and no
\* call enters, a lane that was retired, and retiring ends every lease.
KeepsPromise == Promise!ASpec

\* unload is straight-line code on the server thread, and a table entry returns:
\* whatever is on top at some depth goes on, however often it calls back.
UnloadStep(m) ==
  \/ OnUnload(m) \/ ListPublished(m) \/ FreeLib(m)
  \/ \E i \in LeaseIds : ReturnLease(m, i)
  \/ \E l \in LaneIds : RetireOwn(m, l)

Fairness ==
  /\ WF_vars(\E i \in LeaseIds : AcquireRetain(i))
  /\ \A d \in 1..MaxDepth :
       SF_vars(Len(stack) = d /\ (Return \/ \E m \in Mods : UnloadStep(m)))

FairSpec == Spec /\ Fairness

\* An unload that got past the busy test ends, refused or with the dylib
\* unmapped, however the mods re-enter the lane calls from on_unload and from
\* the release hooks it runs.
UnloadEnds ==
  \A m \in Mods : stage[m] = "closing" ~> stage[m] \in {"loaded", "absent"}
=============================================================================
