----------------------------- MODULE LaneProofs -----------------------------
(***************************************************************************)
(* Theorems about Lane for every value of its constants: the tables stay   *)
(* consistent, and the provider's reference count balances.                *)
(***************************************************************************)
EXTENDS Lane, FiniteSetTheorems, SequenceTheorems, TLAPS

\* Ids at or beyond the two counters were never used.
Fresh ==
  /\ \A l \in LaneIds : l >= nextLane => ~Published(l) /\ strong[l] = 0
  /\ \A i \in LeaseIds : i >= nextLease => ~Leased(i) /\ ~Held(i) /\ i \notin retaining
  /\ \A n \in Names : byName[n] # 0 => Published(byName[n])
  /\ \A i \in LeaseIds : Leased(i) => leases[i].lane < nextLane
  /\ \A i \in LeaseIds : Held(i) => handles[i].lane < nextLane
  /\ \A i \in retaining : Held(i)

\* Every lease is on a published lane.
LeasesLive == \A i \in LeaseIds : Leased(i) => Published(leases[i].lane)

\* The inductive invariant: the balance needs the tables to agree, because
\* publishing starts a count at one on an id nothing refers to yet, and
\* returning a lease lowers the count only of a lane still in the table.
IInv == TypeOK /\ Fresh /\ NamesExclusive /\ FlagTracksTable /\ LeasesLive /\ StrongBalanced

-----------------------------------------------------------------------------
LEMMA LeasesFinite ==
  ASSUME NEW l
  PROVE  /\ IsFiniteSet(LeasesOn(l)) /\ Cardinality(LeasesOn(l)) \in Nat
         /\ IsFiniteSet(LeasesOn(l)') /\ Cardinality(LeasesOn(l)') \in Nat
<1>1. IsFiniteSet(LeaseIds)
  BY FS_Interval, BoundsAssumption DEF LeaseIds
<1>2. LeasesOn(l) \in SUBSET LeaseIds /\ LeasesOn(l)' \in SUBSET LeaseIds
  BY DEF LeasesOn
<1> QED
  BY <1>1, <1>2, FS_Subset, FS_CardinalityType

LEMMA RetainsFinite ==
  ASSUME NEW l, retaining \subseteq LeaseIds, retaining' \subseteq LeaseIds
  PROVE  /\ IsFiniteSet(RetainsOn(l)) /\ Cardinality(RetainsOn(l)) \in Nat
         /\ IsFiniteSet(RetainsOn(l)') /\ Cardinality(RetainsOn(l)') \in Nat
<1>1. IsFiniteSet(LeaseIds)
  BY FS_Interval, BoundsAssumption DEF LeaseIds
<1>2. RetainsOn(l) \in SUBSET LeaseIds /\ RetainsOn(l)' \in SUBSET LeaseIds
  BY DEF RetainsOn
<1> QED
  BY <1>1, <1>2, FS_Subset, FS_CardinalityType

\* A nil record is told from a real one by its mod, holder or lane.
LEMMA NoneDiffers ==
  /\ \A m \in Mods : m # None
  /\ \A l \in LaneIds : l # 0 /\ l \in Int
BY NoneAssumption, BoundsAssumption DEF LaneIds

-----------------------------------------------------------------------------
LEMMA InitIInv == Init => IInv
<1> SUFFICES ASSUME Init PROVE IInv
  OBVIOUS
<1>1. TypeOK
  BY BoundsAssumption
  DEF Init, TypeOK, LaneIds, LeaseIds, Stages, LaneRec, NoLane, NoLease, NoHandle
<1>2. Fresh
  BY NoneDiffers DEF Init, Fresh, Published, Leased, Held, NoLane, NoLease, NoHandle
<1>3. NamesExclusive /\ FlagTracksTable /\ LeasesLive
  BY DEF Init, NamesExclusive, FlagTracksTable, LeasesLive, Published, Leased, NoLane, NoLease
<1>4. ASSUME NEW l \in LaneIds
      PROVE  LeasesOn(l) = {} /\ RetainsOn(l) = {}
  BY NoneDiffers DEF Init, LeasesOn, RetainsOn, NoLease
<1>5. StrongBalanced
  BY <1>4, FS_EmptySet DEF StrongBalanced, Init, Published, NoLane
<1> QED
  BY <1>1, <1>2, <1>3, <1>5 DEF IInv

-----------------------------------------------------------------------------
\* Adding to one entry of an integer table leaves an integer table.
LEMMA AddAt ==
  ASSUME NEW S, NEW f \in [S -> Int], NEW x, NEW d \in Int
  PROVE  [f EXCEPT ![x] = @ + d] \in [S -> Int]
<1>1. CASE x \in S
  BY <1>1
<1>2. CASE x \notin S
  <2>1. \A y \in S : [f EXCEPT ![x] = @ + d][y] = f[y]
    BY <1>2
  <2>2. [f EXCEPT ![x] = @ + d] = [y \in S |-> [f EXCEPT ![x] = @ + d][y]]
    OBVIOUS
  <2> QED
    BY <2>1, <2>2
<1> QED
  BY <1>1, <1>2

\* The stack stays a sequence of frames when its top is popped.
LEMMA PopType ==
  ASSUME stack \in Seq(CallFrame \union UnloadFrame), stack # <<>>
  PROVE  /\ Pop \in Seq(CallFrame \union UnloadFrame)
         /\ stack[Len(stack)] \in CallFrame \union UnloadFrame
<1>1. Len(stack) \in Nat /\ Len(stack) >= 1 /\ Len(stack) \in 1..Len(stack)
  BY EmptySeq, LenProperties
<1>2. stack[Len(stack)] \in CallFrame \union UnloadFrame
  BY <1>1, ElementOfSeq
<1>3. Pop \in Seq(CallFrame \union UnloadFrame)
  BY <1>1, SubSeqProperties DEF Pop
<1> QED
  BY <1>2, <1>3

\* What retiring a lane does to the tables, for the two actions that do it.
LEMMA RetireType ==
  ASSUME TypeOK, NEW l \in LaneIds, Retire(l)
  PROVE  /\ alive' \in [LaneIds -> BOOLEAN]
         /\ leases' \in [LeaseIds -> LeaseRec \union {NoLease}]
         /\ byName' \in [Names -> LaneIds \union {0}]
         /\ lanes' \in [LaneIds -> LaneRec \union {NoLane}]
         /\ strong' \in [LaneIds -> Int]
<1>1. strong' \in [LaneIds -> Int]
  <2>1. Cardinality(LeasesOn(l)) \in Nat
    BY LeasesFinite
  <2>2. strong' = [strong EXCEPT ![l] = @ - (1 + Cardinality(LeasesOn(l)))]
    BY DEF Retire
  <2> QED
    BY <2>1, <2>2 DEF TypeOK
<1>2. lanes' \in [LaneIds -> LaneRec \union {NoLane}]
  BY DEF TypeOK, Retire
<1>3. leases' \in [LeaseIds -> LeaseRec \union {NoLease}]
  BY DEF TypeOK, Retire
<1>4. byName' \in [Names -> LaneIds \union {0}]
  BY DEF TypeOK, Retire
<1>5. alive' \in [LaneIds -> BOOLEAN]
  BY DEF TypeOK, Retire
<1> QED
  BY <1>1, <1>2, <1>3, <1>4, <1>5

LEMMA GiveBackType ==
  ASSUME TypeOK, NEW i \in LeaseIds, GiveBack(i)
  PROVE  /\ lanes' \in [LaneIds -> LaneRec \union {NoLane}]
         /\ leases' \in [LeaseIds -> LeaseRec \union {NoLease}]
         /\ strong' \in [LaneIds -> Int]
<1>1. CASE ~Leased(i)
  BY <1>1 DEF TypeOK, GiveBack
<1>2. CASE Leased(i)
  <2> DEFINE l == leases[i].lane
  <2>1. l \in LaneIds
    BY <1>2 DEF TypeOK, Leased, LeaseRec, NoLease
  <2>2. leases' \in [LeaseIds -> LeaseRec \union {NoLease}]
    BY <1>2 DEF TypeOK, GiveBack
  <2>3. strong' \in [LaneIds -> Int]
    BY <1>2, <2>1 DEF TypeOK, GiveBack
  <2>4. CASE Published(l)
    <3>1. lanes[l] \in LaneRec
      BY <2>1, <2>4 DEF TypeOK, Published, NoLane
    <3>2. lanes' = [lanes EXCEPT ![l].leases = IF @ > 0 THEN @ - 1 ELSE @]
      BY <1>2, <2>4 DEF GiveBack
    <3>3. [lanes[l] EXCEPT !.leases = IF @ > 0 THEN @ - 1 ELSE @] \in LaneRec
      BY <3>1 DEF LaneRec
    <3>4. lanes' = [lanes EXCEPT ![l] =
                      [lanes[l] EXCEPT !.leases = IF @ > 0 THEN @ - 1 ELSE @]]
      BY <3>2, <2>1 DEF TypeOK
    <3> QED
      BY <2>1, <2>2, <2>3, <3>3, <3>4 DEF TypeOK
  <2>5. CASE ~Published(l)
    BY <1>2, <2>2, <2>3, <2>5 DEF TypeOK, GiveBack
  <2> QED
    BY <2>4, <2>5
<1> QED
  BY <1>1, <1>2

\* Every step keeps the variables in their types.
LEMMA StepType == TypeOK /\ [Next]_vars => TypeOK'
<1> SUFFICES ASSUME TypeOK, [Next]_vars PROVE TypeOK'
  OBVIOUS
<1> USE BoundsAssumption
<1>1. ASSUME NEW m \in Mods, NEW n \in Names, NEW f \in Fingerprints, Publish(m, n, f)
      PROVE  TypeOK'
  <2>1. nextLane \in LaneIds
    BY <1>1 DEF TypeOK, Publish, LaneIds
  <2>2. [mod |-> m, name |-> n, fp |-> f, leases |-> 0] \in LaneRec
    BY DEF LaneRec
  <2> QED
    BY <1>1, <2>1, <2>2 DEF TypeOK, Publish, LaneIds
<1>2. ASSUME NEW m \in Mods, NEW n \in Names, NEW f \in Fingerprints, AcquireInsert(m, n, f)
      PROVE  TypeOK'
  <2> DEFINE l == byName[n]
  <2>1. nextLease \in LeaseIds /\ l \in LaneIds
    BY <1>2 DEF TypeOK, AcquireInsert, LeaseIds
  <2>2. lanes[l] \in LaneRec
    BY <1>2, <2>1 DEF TypeOK, AcquireInsert, Published, NoLane
  <2>3. lanes' = [lanes EXCEPT ![l] = [lanes[l] EXCEPT !.leases = @ + 1]]
    BY <1>2, <2>1 DEF TypeOK, AcquireInsert
  <2>4. [lanes[l] EXCEPT !.leases = @ + 1] \in LaneRec
    BY <2>2 DEF LaneRec
  <2>5. lanes' \in [LaneIds -> LaneRec \union {NoLane}]
    BY <2>1, <2>3, <2>4 DEF TypeOK
  <2>6. lanes[l].mod \in Mods
    BY <2>2 DEF LaneRec
  <2>7. handles' \in [LeaseIds -> HandleRec \union {NoHandle}]
    BY <1>2, <2>1, <2>6 DEF TypeOK, AcquireInsert, HandleRec
  <2>8. leases' \in [LeaseIds -> LeaseRec \union {NoLease}]
    BY <1>2, <2>1 DEF TypeOK, AcquireInsert, LeaseRec
  <2> QED
    BY <1>2, <2>1, <2>5, <2>7, <2>8, SMTT(30) DEF TypeOK, AcquireInsert, LeaseIds
<1>3. ASSUME NEW m \in Mods, NEW l \in LaneIds, Unpublish(m, l)
      PROVE  TypeOK'
  BY <1>3, RetireType DEF TypeOK, Unpublish
<1>4. ASSUME NEW m \in Mods, NEW l \in LaneIds, RetireOwn(m, l)
      PROVE  TypeOK'
  <2>1. CASE Published(l)
    BY <1>4, <2>1, RetireType DEF TypeOK, RetireOwn
  <2>2. CASE ~Published(l)
    BY <1>4, <2>2 DEF TypeOK, RetireOwn
  <2> QED
    BY <2>1, <2>2
<1>5. ASSUME NEW i \in LeaseIds, AcquireRetain(i)
      PROVE  TypeOK'
  <2>1. strong' = [strong EXCEPT ![handles[i].lane] = @ + 1]
    BY <1>5 DEF AcquireRetain
  <2>2. strong' \in [LaneIds -> Int]
    <3>1. strong \in [LaneIds -> Int] /\ 1 \in Int
      BY DEF TypeOK
    <3>2. [strong EXCEPT ![handles[i].lane] = @ + 1] \in [LaneIds -> Int]
      BY <3>1, AddAt
    <3> QED
      BY <2>1, <3>2
  <2> QED
    BY <1>5, <2>2 DEF TypeOK, AcquireRetain
<1>6. ASSUME NEW i \in LeaseIds, Drop(i)
      PROVE  TypeOK'
  BY <1>6, GiveBackType DEF TypeOK, Drop
<1>7. ASSUME NEW i \in LeaseIds, Call(i)
      PROVE  TypeOK'
  <2> DEFINE f == [kind |-> "call", lease |-> i, lane |-> handles[i].lane,
                   code |-> handles[i].code]
  <2>1. f \in CallFrame
    BY <1>7 DEF TypeOK, Call, Held, HandleRec, NoHandle, CallFrame
  <2>2. stack' = Append(stack, f)
    BY <1>7 DEF Call
  <2>3. stack' \in Seq(CallFrame \union UnloadFrame)
    BY <2>1, <2>2, AppendProperties DEF TypeOK
  <2>4. busy' = [busy EXCEPT ![handles[i].lane] = @ + 1]
    BY <1>7 DEF Call
  <2>5. busy' \in [LaneIds -> Int]
    <3>1. busy \in [LaneIds -> Int] /\ 1 \in Int
      BY DEF TypeOK
    <3>2. [busy EXCEPT ![handles[i].lane] = @ + 1] \in [LaneIds -> Int]
      BY <3>1, AddAt
    <3> QED
      BY <2>4, <3>2
  <2> QED
    BY <1>7, <2>3, <2>5 DEF TypeOK, Call
<1>8. ASSUME Return PROVE TypeOK'
  <2>1. stack # <<>> /\ stack' = Pop
    BY <1>8 DEF Return
  <2>2. Pop \in Seq(CallFrame \union UnloadFrame)
    BY <2>1, PopType DEF TypeOK
  <2>3. PICK l : busy' = [busy EXCEPT ![l] = @ - 1]
    BY <1>8 DEF Return
  <2>4. busy' \in [LaneIds -> Int]
    <3>1. busy' = [busy EXCEPT ![l] = @ + (-1)]
      BY <2>3 DEF TypeOK
    <3>2. busy \in [LaneIds -> Int] /\ -1 \in Int
      BY DEF TypeOK
    <3>3. [busy EXCEPT ![l] = @ + (-1)] \in [LaneIds -> Int]
      BY <3>2, AddAt
    <3> QED
      BY <3>1, <3>3
  <2> QED
    BY <1>8, <2>1, <2>2, <2>4 DEF TypeOK, Return
<1>9. ASSUME NEW m \in Mods, UnloadBegin(m) PROVE TypeOK'
  <2>1. [kind |-> "unload", mod |-> m] \in UnloadFrame
    BY DEF UnloadFrame
  <2>2. stack' \in Seq(CallFrame \union UnloadFrame)
    BY <1>9, <2>1, AppendProperties DEF TypeOK, UnloadBegin
  <2> QED
    BY <1>9, <2>2 DEF TypeOK, UnloadBegin, Stages
<1>10. ASSUME NEW m \in Mods, ListPublished(m) PROVE TypeOK'
  BY <1>10 DEF TypeOK, ListPublished, Stages
<1>11. ASSUME NEW m \in Mods, FreeLib(m) PROVE TypeOK'
  <2>1. stack # <<>> /\ stack' = Pop
    BY <1>11 DEF FreeLib, OnTop
  <2>2. Pop \in Seq(CallFrame \union UnloadFrame)
    BY <2>1, PopType DEF TypeOK
  <2> QED
    BY <1>11, <2>1, <2>2 DEF TypeOK, FreeLib, Stages
<1>12. ASSUME NEW m \in Mods, Load(m) PROVE TypeOK'
  BY <1>12 DEF TypeOK, Load, Stages
<1>13. ASSUME NEW m \in Mods, NEW i \in LeaseIds, ReturnLease(m, i) PROVE TypeOK'
  BY <1>13, GiveBackType DEF TypeOK, ReturnLease
<1>14. ASSUME NEW m \in Mods, OnUnload(m) PROVE TypeOK'
  <2>1. stack # <<>>
    BY <1>14 DEF OnUnload, OnTop
  <2>2. Pop \in Seq(CallFrame \union UnloadFrame)
    BY <2>1, PopType DEF TypeOK
  <2> QED
    BY <1>14, <2>2 DEF TypeOK, OnUnload, Stages, LeasesOf
<1>15. CASE UNCHANGED vars
  BY <1>15 DEF TypeOK, vars
<1> QED
  BY <1>1, <1>2, <1>3, <1>4, <1>5, <1>6, <1>7, <1>8, <1>9, <1>10, <1>11, <1>12, <1>13, <1>14,
     <1>15
  DEF Next

\* The variables of the lane tables always have their types.
THEOREM TypeCorrect == Spec => []TypeOK
<1>1. Init => TypeOK
  BY InitIInv DEF IInv
<1> QED
  BY <1>1, StepType, PTL DEF Spec

-----------------------------------------------------------------------------
\* What is not None is a record of the table, so its fields have their types.
LEMMA Fields ==
  ASSUME TypeOK
  PROVE  /\ \A l \in LaneIds : IF Published(l) THEN lanes[l] \in LaneRec
                                               ELSE lanes[l] = NoLane
         /\ \A i \in LeaseIds : IF Leased(i) THEN leases[i] \in LeaseRec
                                             ELSE leases[i] = NoLease
         /\ \A i \in LeaseIds : IF Held(i) THEN handles[i] \in HandleRec
                                           ELSE handles[i] = NoHandle
         /\ \A n \in Names : byName[n] = 0 \/ byName[n] \in LaneIds
         /\ nextLane \in Nat /\ nextLane >= 1 /\ nextLease \in Nat /\ nextLease >= 1
BY NoneAssumption, BoundsAssumption
DEF TypeOK, Published, Leased, Held, LaneRec, LeaseRec, HandleRec, NoLane, NoLease, NoHandle

\* The count of one lane, as a number.
Count(l) == strong[l] + Cardinality(RetainsOn(l))
              - (IF Published(l) THEN 1 ELSE 0) - Cardinality(LeasesOn(l))

LEMMA BalanceAsCount ==
  ASSUME TypeOK, TypeOK'
  PROVE  /\ StrongBalanced <=> \A l \in LaneIds : Count(l) = 0
         /\ StrongBalanced' <=> \A l \in LaneIds : Count(l)' = 0
<1>1. ASSUME NEW l \in LaneIds
      PROVE  /\ Cardinality(RetainsOn(l)) \in Nat /\ Cardinality(RetainsOn(l)') \in Nat
             /\ Cardinality(LeasesOn(l)) \in Nat /\ Cardinality(LeasesOn(l)') \in Nat
             /\ strong[l] \in Int /\ strong'[l] \in Int
  BY LeasesFinite, RetainsFinite DEF TypeOK
<1>2. StrongBalanced <=> \A l \in LaneIds : Count(l) = 0
  BY <1>1 DEF StrongBalanced, Count
<1>3. StrongBalanced' <=> \A l \in LaneIds : Count(l)' = 0
  BY <1>1 DEF StrongBalanced, Count
<1> QED
  BY <1>2, <1>3

\* Handles only disappear, and never one whose retain hook is still to run.
HandlesDropped ==
  \A i \in LeaseIds : \/ handles'[i] = handles[i]
                      \/ handles'[i] = NoHandle /\ i \notin retaining

LEMMA RetainsKept ==
  ASSUME TypeOK, HandlesDropped, retaining' = retaining, NEW l
  PROVE  RetainsOn(l)' = RetainsOn(l)
<1>1. \A i \in retaining : handles'[i] = handles[i]
  BY DEF TypeOK, HandlesDropped
<1> QED
  BY <1>1 DEF RetainsOn

\* A step that touches neither table nor the count keeps the invariant.
LEMMA TablesUntouched ==
  ASSUME IInv, TypeOK', HandlesDropped,
         UNCHANGED <<lanes, byName, leases, nextLane, nextLease, alive, strong, retaining>>
  PROVE  IInv'
<1>1. Fresh'
  <2>1. \A i \in LeaseIds : Held(i)' => Held(i) /\ handles'[i] = handles[i]
    BY DEF HandlesDropped, Held, NoHandle
  <2>2. \A i \in retaining : Held(i)'
    BY DEF IInv, Fresh, TypeOK, HandlesDropped, Held
  <2> QED
    BY <2>1, <2>2 DEF IInv, Fresh, Published, Leased
<1>2. NamesExclusive' /\ FlagTracksTable' /\ LeasesLive'
  BY DEF IInv, NamesExclusive, FlagTracksTable, LeasesLive, Published, Leased
<1>3. \A l \in LaneIds : RetainsOn(l)' = RetainsOn(l) /\ LeasesOn(l)' = LeasesOn(l)
  BY RetainsKept DEF IInv, LeasesOn
<1>4. StrongBalanced'
  BY <1>3 DEF IInv, StrongBalanced, Published
<1> QED
  BY <1>1, <1>2, <1>4 DEF IInv

LEMMA PublishIInv ==
  ASSUME IInv, TypeOK', NEW m \in Mods, NEW n \in Names, NEW f \in Fingerprints,
         Publish(m, n, f)
  PROVE  IInv'
<1> DEFINE new == [mod |-> m, name |-> n, fp |-> f, leases |-> 0]
<1>0. PICK k \in LaneIds : k = nextLane
  BY Fields DEF IInv, Publish, LaneIds
<1>1. k \in LaneIds /\ nextLane = k /\ nextLane' = k + 1 /\ ~Published(k) /\ strong[k] = 0
  BY <1>0, Fields DEF IInv, Fresh, Publish, LaneIds
<1>2. /\ lanes'[k] = new /\ \A l \in LaneIds : l # k => lanes'[l] = lanes[l]
      /\ strong'[k] = 1 /\ \A l \in LaneIds : l # k => strong'[l] = strong[l]
      /\ alive'[k] = TRUE /\ \A l \in LaneIds : l # k => alive'[l] = alive[l]
  BY <1>1 DEF Publish, IInv, TypeOK
<1>3. byName[n] = 0 /\ byName'[n] = k /\ \A x \in Names : x # n => byName'[x] = byName[x]
  BY <1>1 DEF Publish, IInv, TypeOK
<1>4. /\ leases' = leases /\ handles' = handles /\ retaining' = retaining
      /\ nextLease' = nextLease
  BY DEF Publish
<1>5. Published(k)' /\ \A l \in LaneIds : l # k => (Published(l)' <=> Published(l))
  BY <1>2, NoneDiffers DEF Published
<1>6. k \in Nat /\ \A l \in LaneIds : l \in Int
  BY <1>1 DEF LaneIds
<1>7. Fresh'
  <2>1. \A l \in LaneIds : l >= nextLane' => ~Published(l)' /\ strong'[l] = 0
    BY <1>1, <1>2, <1>5, <1>6 DEF IInv, Fresh
  <2>2. \A i \in LeaseIds : i >= nextLease => ~Leased(i)' /\ ~Held(i)' /\ i \notin retaining
    BY <1>4 DEF IInv, Fresh, Leased, Held
  <2>3. ASSUME NEW x \in Names, byName'[x] # 0 PROVE lanes'[byName'[x]].mod # None
    <3>1. CASE x = n
      BY <1>2, <1>3, <3>1, NoneDiffers
    <3>2. CASE x # n
      <4>1. PICK l \in LaneIds : l = byName[x] /\ byName'[x] = l /\ Published(l)
        BY <1>3, <2>3, <3>2, Fields DEF IInv, Fresh
      <4> QED
        BY <1>1, <1>2, <4>1 DEF Published
    <3> QED
      BY <3>1, <3>2
  <2>4. \A i \in LeaseIds : Leased(i)' => leases'[i].lane < nextLane'
    BY <1>1, <1>4, <1>6, Fields DEF IInv, Fresh, Leased, LeaseRec, LaneIds
  <2>5. \A i \in LeaseIds : Held(i)' => handles'[i].lane < nextLane'
    BY <1>1, <1>4, <1>6, Fields DEF IInv, Fresh, Held, HandleRec, LaneIds
  <2>6. \A i \in retaining' : Held(i)'
    BY <1>4 DEF IInv, Fresh, Held
  <2> QED
    BY <1>4, <2>1, <2>2, <2>3, <2>4, <2>5, <2>6 DEF Fresh, Published
<1>8. NamesExclusive'
  BY <1>1, <1>2, <1>3, <1>5, Fields DEF IInv, Fresh, NamesExclusive, LaneRec, LaneIds
<1>9. FlagTracksTable'
  <2>1. \A l \in LaneIds : alive'[l] <=> Published(l)'
    BY <1>2, <1>5 DEF IInv, FlagTracksTable
  <2> QED
    BY <2>1 DEF FlagTracksTable
<1>10. LeasesLive'
  BY <1>1, <1>4, <1>5, Fields DEF IInv, LeasesLive, Leased, LeaseRec
<1>11. \A l \in LaneIds : LeasesOn(l)' = LeasesOn(l) /\ RetainsOn(l)' = RetainsOn(l)
  BY <1>4 DEF LeasesOn, RetainsOn
<1>12. LeasesOn(k) = {}
  <2>1. \A i \in LeaseIds : leases[i].lane # k
    BY <1>1, <1>6, Fields, NoneDiffers DEF IInv, Fresh, NoLease
  <2> QED
    BY <2>1 DEF LeasesOn
<1>13. RetainsOn(k) = {}
  <2>1. \A i \in retaining : i \in LeaseIds /\ handles[i].lane # k
    BY <1>1, <1>6 DEF IInv, Fresh, TypeOK
  <2> QED
    BY <2>1 DEF RetainsOn
<1>14. StrongBalanced'
  <2>1. ASSUME NEW l \in LaneIds, l # k PROVE Count(l)' = Count(l)
    BY <1>2, <1>5, <1>11, <2>1 DEF Count
  <2>2. Count(k)' = 0
    <3>1. Cardinality(LeasesOn(k)') = 0 /\ Cardinality(RetainsOn(k)') = 0
      BY <1>1, <1>11, <1>12, <1>13, FS_EmptySet
    <3> QED
      BY <1>1, <1>2, <1>5, <3>1 DEF Count
  <2>3. \A l \in LaneIds : Count(l)' = 0
    BY <2>1, <2>2, BalanceAsCount DEF IInv
  <2> QED
    BY <2>3, BalanceAsCount DEF IInv
<1> QED
  BY <1>7, <1>8, <1>9, <1>10, <1>14 DEF IInv

\* Retiring a lane that is published keeps everything: the releases it runs are
\* exactly the references it takes out of the tables.
LEMMA RetireIInv ==
  ASSUME IInv, TypeOK', NEW l \in LaneIds, Published(l), Retire(l),
         UNCHANGED <<nextLane, nextLease, retaining, handles>>
  PROVE  IInv'
<1>1. /\ ~Published(l)' /\ \A k \in LaneIds : k # l => lanes'[k] = lanes[k]
      /\ \A k \in LaneIds : k # l => (Published(k)' <=> Published(k))
  BY DEF Retire, IInv, TypeOK, Published, NoLane
<1>2. /\ \A i \in LeasesOn(l) : ~Leased(i)'
      /\ \A i \in LeaseIds \ LeasesOn(l) : leases'[i] = leases[i]
  BY DEF Retire, Leased, NoLease, LeasesOn
<1>3. /\ lanes[l].name \in Names /\ byName[lanes[l].name] = l
      /\ byName'[lanes[l].name] = 0
      /\ \A x \in Names : x # lanes[l].name => byName'[x] = byName[x]
  BY Fields DEF Retire, IInv, TypeOK, NamesExclusive, LaneRec
<1>4. Fresh'
  <2>1. l < nextLane
    BY Fields DEF IInv, Fresh, LaneIds
  <2>2. \A k \in LaneIds : k >= nextLane => strong'[k] = strong[k]
    BY <2>1 DEF Retire, IInv, TypeOK, LaneIds
  <2>3. \A n \in Names : byName'[n] # 0 => byName'[n] = byName[n] /\ byName[n] # l
    BY <1>3 DEF IInv, NamesExclusive
  <2>4. \A i \in LeaseIds : Leased(i)' => Leased(i) /\ leases'[i] = leases[i]
    BY <1>2 DEF Leased
  <2> QED
    BY <1>1, <2>1, <2>2, <2>3, <2>4, Fields DEF IInv, Fresh, Held, TypeOK
<1>5. NamesExclusive'
  <2>1. \A n \in Names : byName'[n] # 0 => byName'[n] = byName[n] /\ byName[n] # l
    BY <1>3 DEF IInv, NamesExclusive
  <2> QED
    BY <1>1, <1>3, <2>1, Fields DEF IInv, NamesExclusive, LaneRec
<1>6. FlagTracksTable'
  BY <1>1 DEF Retire, IInv, FlagTracksTable, TypeOK
<1>7. LeasesLive'
  <2>1. \A i \in LeaseIds : Leased(i)' => /\ Leased(i) /\ leases'[i] = leases[i]
                                          /\ leases[i].lane # l
    BY <1>2 DEF Leased, LeasesOn
  <2> QED
    BY <1>1, <2>1, Fields DEF IInv, LeasesLive, LeaseRec
<1>8. LeasesOn(l)' = {} /\ RetainsOn(l)' = RetainsOn(l)
  BY <1>2, NoneDiffers DEF Retire, LeasesOn, RetainsOn, NoLease
<1>9. ASSUME NEW k \in LaneIds, k # l
      PROVE  LeasesOn(k)' = LeasesOn(k) /\ RetainsOn(k)' = RetainsOn(k)
  BY <1>2, <1>9, NoneDiffers DEF Retire, LeasesOn, RetainsOn, NoLease
<1>10. StrongBalanced'
  <2>1. ASSUME NEW k \in LaneIds, k # l PROVE Count(k)' = Count(k)
    <3>1. strong'[k] = strong[k]
      BY <2>1 DEF Retire, IInv, TypeOK
    <3> QED
      BY <1>1, <1>9, <2>1, <3>1 DEF Count
  <2>2. Count(l)' = Count(l)
    <3>1. strong'[l] = strong[l] - (1 + Cardinality(LeasesOn(l)))
      BY DEF Retire, IInv, TypeOK
    <3>2. /\ Cardinality(LeasesOn(l)) \in Nat /\ Cardinality(RetainsOn(l)) \in Nat
          /\ strong[l] \in Int
      BY LeasesFinite, RetainsFinite DEF IInv, TypeOK
    <3>3. Cardinality(LeasesOn(l)') = 0
      BY <1>8, FS_EmptySet
    <3> QED
      BY <1>1, <1>8, <3>1, <3>2, <3>3 DEF Count
  <2> QED
    BY <2>1, <2>2, BalanceAsCount DEF IInv
<1> QED
  BY <1>4, <1>5, <1>6, <1>7, <1>10 DEF IInv

\* Granting a lease adds one lease and one retain still to run.
LEMMA AcquireInsertIInv ==
  ASSUME IInv, TypeOK', NEW m \in Mods, NEW n \in Names, NEW f \in Fingerprints,
         AcquireInsert(m, n, f)
  PROVE  IInv'
<1>1. PICK l \in LaneIds : l = byName[n] /\ Published(l)
  BY Fields DEF IInv, AcquireInsert
<1>2. PICK k \in LeaseIds : k = nextLease
  BY Fields DEF IInv, AcquireInsert, LeaseIds
<1>3. /\ ~Leased(k) /\ ~Held(k) /\ k \notin retaining /\ l < nextLane
      /\ k \in Int /\ l \in Int /\ nextLane \in Int
  BY <1>1, <1>2, Fields DEF IInv, Fresh, LaneIds, LeaseIds
<1>4. /\ lanes'[l].mod = lanes[l].mod /\ lanes'[l].name = lanes[l].name
      /\ \A j \in LaneIds : j # l => lanes'[j] = lanes[j]
  <2>1. lanes' = [lanes EXCEPT ![l].leases = @ + 1]
    BY <1>1 DEF AcquireInsert
  <2>2. lanes[l] \in LaneRec
    BY <1>1, Fields DEF IInv
  <2> QED
    BY <2>1, <2>2 DEF IInv, TypeOK, LaneRec
<1>5. /\ leases'[k] = [holder |-> m, lane |-> l]
      /\ \A i \in LeaseIds : i # k => leases'[i] = leases[i]
  BY <1>1, <1>2 DEF AcquireInsert, IInv, TypeOK
<1>6. /\ handles'[k].holder = m /\ handles'[k].lane = l
      /\ \A i \in LeaseIds : i # k => handles'[i] = handles[i]
  BY <1>1, <1>2 DEF AcquireInsert, IInv, TypeOK
<1>7. /\ retaining' = retaining \union {k} /\ nextLease' = k + 1
      /\ UNCHANGED <<byName, nextLane, alive, strong>>
  BY <1>2 DEF AcquireInsert
<1>8. \A j \in LaneIds : Published(j)' <=> Published(j)
  BY <1>4 DEF Published
<1>9. Fresh'
  <2>1. \A j \in LaneIds : j >= nextLane' => ~Published(j)' /\ strong'[j] = 0
    BY <1>7, <1>8 DEF IInv, Fresh
  <2>2. \A i \in LeaseIds : i >= nextLease' => ~Leased(i)' /\ ~Held(i)' /\ i \notin retaining'
    BY <1>2, <1>3, <1>5, <1>6, <1>7 DEF IInv, Fresh, Leased, Held, LeaseIds
  <2>3. \A x \in Names : byName'[x] # 0 => lanes'[byName'[x]].mod # None
    BY <1>4, <1>7, Fields DEF IInv, Fresh, Published
  <2>4. \A i \in LeaseIds : Leased(i)' => leases'[i].lane < nextLane'
    BY <1>3, <1>5, <1>7 DEF IInv, Fresh, Leased
  <2>5. \A i \in LeaseIds : Held(i)' => handles'[i].lane < nextLane'
    BY <1>3, <1>6, <1>7 DEF IInv, Fresh, Held
  <2>6. \A i \in retaining' : Held(i)'
    BY <1>6, <1>7, NoneDiffers DEF IInv, Fresh, Held, TypeOK
  <2> QED
    BY <2>1, <2>2, <2>3, <2>4, <2>5, <2>6 DEF Fresh, Published
<1>10. NamesExclusive'
  BY <1>4, <1>7, <1>8, Fields DEF IInv, NamesExclusive, LaneRec
<1>11. FlagTracksTable'
  BY <1>7, <1>8 DEF IInv, FlagTracksTable
<1>12. LeasesLive'
  <2>1. \A i \in LeaseIds : Leased(i)' => /\ leases'[i].lane \in LaneIds
                                          /\ Published(leases'[i].lane)
    BY <1>1, <1>5, Fields DEF IInv, LeasesLive, Leased, LeaseRec
  <2>2. \A i \in LeaseIds : Leased(i)' => lanes'[leases'[i].lane].mod # None
    BY <1>4, <2>1 DEF Published
  <2> QED
    BY <2>2 DEF LeasesLive, Published
<1>13. /\ LeasesOn(l)' = LeasesOn(l) \union {k} /\ k \notin LeasesOn(l)
       /\ \A j \in LaneIds : j # l => LeasesOn(j)' = LeasesOn(j)
  <2>1. \A j \in LaneIds : leases[k].lane # j
    BY <1>3, Fields, NoneDiffers DEF IInv, NoLease
  <2> QED
    BY <1>5, <2>1 DEF LeasesOn
<1>14. /\ RetainsOn(l)' = RetainsOn(l) \union {k} /\ k \notin RetainsOn(l)
       /\ \A j \in LaneIds : j # l => RetainsOn(j)' = RetainsOn(j)
  BY <1>3, <1>6, <1>7, ZenonT(40) DEF RetainsOn, IInv, TypeOK
<1>15. StrongBalanced'
  <2>1. ASSUME NEW j \in LaneIds, j # l PROVE Count(j)' = Count(j)
    BY <1>7, <1>8, <1>13, <1>14, <2>1 DEF Count
  <2>2. Count(l)' = Count(l)
    <3>1. Cardinality(LeasesOn(l)') = Cardinality(LeasesOn(l)) + 1
      BY <1>13, LeasesFinite, FS_AddElement
    <3>2. Cardinality(RetainsOn(l)') = Cardinality(RetainsOn(l)) + 1
      <4>1. IsFiniteSet(RetainsOn(l))
        BY RetainsFinite DEF IInv, TypeOK
      <4> QED
        BY <1>14, <4>1, FS_AddElement
    <3>3. /\ Cardinality(LeasesOn(l)) \in Nat /\ Cardinality(RetainsOn(l)) \in Nat
          /\ strong[l] \in Int
      BY LeasesFinite, RetainsFinite DEF IInv, TypeOK
    <3> QED
      BY <1>7, <1>8, <3>1, <3>2, <3>3 DEF Count
  <2>3. \A j \in LaneIds : Count(j)' = 0
    BY <2>1, <2>2, BalanceAsCount DEF IInv
  <2> QED
    BY <2>3, BalanceAsCount DEF IInv
<1> QED
  BY <1>9, <1>10, <1>11, <1>12, <1>15 DEF IInv

\* The retain hook turns one pending retain into one reference.
LEMMA AcquireRetainIInv ==
  ASSUME IInv, TypeOK', NEW i \in LeaseIds, AcquireRetain(i)
  PROVE  IInv'
<1>1. PICK l \in LaneIds : l = handles[i].lane /\ l < nextLane
  BY Fields DEF IInv, Fresh, AcquireRetain, HandleRec
<1>2. /\ strong'[l] = strong[l] + 1 /\ \A j \in LaneIds : j # l => strong'[j] = strong[j]
      /\ retaining' = retaining \ {i} /\ i \in retaining
      /\ UNCHANGED <<lanes, byName, leases, nextLane, nextLease, alive, handles>>
  BY <1>1 DEF AcquireRetain, IInv, TypeOK
<1>3. Fresh'
  <2>1. \A j \in LaneIds : j >= nextLane' => ~Published(j)' /\ strong'[j] = 0
    BY <1>1, <1>2, Fields DEF IInv, Fresh, Published, LaneIds
  <2> QED
    BY <1>2, <2>1 DEF IInv, Fresh, Leased, Held, Published
<1>4. NamesExclusive' /\ FlagTracksTable' /\ LeasesLive'
  BY <1>2 DEF IInv, NamesExclusive, FlagTracksTable, LeasesLive, Published, Leased
<1>5. /\ RetainsOn(l)' = RetainsOn(l) \ {i} /\ i \in RetainsOn(l)
      /\ \A j \in LaneIds : j # l => RetainsOn(j)' = RetainsOn(j)
  BY <1>1, <1>2 DEF RetainsOn
<1>6. \A j \in LaneIds : /\ LeasesOn(j)' = LeasesOn(j)
                         /\ Published(j)' <=> Published(j)
  BY <1>2 DEF LeasesOn, Published
<1>7. StrongBalanced'
  <2>1. ASSUME NEW j \in LaneIds, j # l PROVE Count(j)' = Count(j)
    BY <1>2, <1>5, <1>6, <2>1 DEF Count
  <2>2. Count(l)' = Count(l)
    <3>1. Cardinality(RetainsOn(l)') = Cardinality(RetainsOn(l)) - 1
      BY <1>5, RetainsFinite, FS_RemoveElement, ZenonT(40) DEF IInv, TypeOK
    <3>2. /\ Cardinality(LeasesOn(l)) \in Nat /\ Cardinality(RetainsOn(l)) \in Nat
          /\ strong[l] \in Int
      BY LeasesFinite, RetainsFinite DEF IInv, TypeOK
    <3> QED
      BY <1>2, <1>6, <3>1, <3>2 DEF Count
  <2>3. \A j \in LaneIds : Count(j)' = 0
    BY <2>1, <2>2, BalanceAsCount DEF IInv
  <2> QED
    BY <2>3, BalanceAsCount DEF IInv
<1> QED
  BY <1>3, <1>4, <1>7 DEF IInv


\* Returning a lease drops one reference, unless the lease is gone already.
LEMMA GiveBackIInv ==
  ASSUME IInv, TypeOK', HandlesDropped, NEW i \in LeaseIds, GiveBack(i),
         UNCHANGED <<byName, nextLane, nextLease, alive, retaining>>
  PROVE  IInv'
<1>1. CASE ~Leased(i)
  <2>1. UNCHANGED <<lanes, leases, strong>>
    BY <1>1 DEF GiveBack
  <2> QED
    BY <2>1, TablesUntouched
<1>2. CASE Leased(i)
  <2>1. PICK l \in LaneIds : l = leases[i].lane /\ l < nextLane /\ Published(l)
    BY <1>2, Fields DEF IInv, Fresh, LeasesLive, LeaseRec
  <2>2. /\ leases'[i] = NoLease
        /\ \A j \in LeaseIds : j # i => leases'[j] = leases[j]
    BY <1>2 DEF GiveBack, IInv, TypeOK
  <2>3. /\ strong'[l] = strong[l] - 1
        /\ \A j \in LaneIds : j # l => strong'[j] = strong[j]
    BY <1>2, <2>1 DEF GiveBack, IInv, TypeOK
  <2>4. /\ lanes'[l].mod = lanes[l].mod /\ lanes'[l].name = lanes[l].name
        /\ \A j \in LaneIds : j # l => lanes'[j] = lanes[j]
    <3>1. lanes' = [lanes EXCEPT ![l].leases = IF @ > 0 THEN @ - 1 ELSE @]
      BY <1>2, <2>1 DEF GiveBack
    <3>2. lanes[l] \in LaneRec
      BY <2>1, Fields DEF IInv
    <3> QED
      BY <3>1, <3>2 DEF IInv, TypeOK, LaneRec
  <2>5. \A j \in LaneIds : Published(j)' <=> Published(j)
    BY <2>4 DEF Published
  <2>6. \A j \in LeaseIds : Leased(j)' => Leased(j) /\ leases'[j] = leases[j]
    BY <2>2 DEF Leased, NoLease
  <2>7. Fresh'
    <3>1. \A j \in LaneIds : j >= nextLane' => ~Published(j)' /\ strong'[j] = 0
      BY <2>1, <2>3, <2>5, Fields DEF IInv, Fresh, LaneIds
    <3>2. \A j \in LeaseIds : Held(j)' => Held(j) /\ handles'[j] = handles[j]
      BY DEF HandlesDropped, Held, NoHandle
    <3>3. \A j \in retaining : Held(j)'
      BY DEF IInv, Fresh, TypeOK, HandlesDropped, Held
    <3>4. \A x \in Names : byName'[x] # 0 => lanes'[byName'[x]].mod # None
      BY <2>4, Fields DEF IInv, Fresh, Published
    <3> QED
      BY <2>6, <3>1, <3>2, <3>3, <3>4 DEF IInv, Fresh, Published
  <2>8. NamesExclusive'
    BY <2>4, <2>5, Fields DEF IInv, NamesExclusive, LaneRec
  <2>9. FlagTracksTable'
    BY <2>5 DEF IInv, FlagTracksTable
  <2>10. LeasesLive'
    <3>1. \A j \in LeaseIds : Leased(j)' => /\ leases'[j].lane \in LaneIds
                                            /\ Published(leases'[j].lane)
      BY <2>6, Fields DEF IInv, LeasesLive, LeaseRec
    <3>2. \A j \in LeaseIds : Leased(j)' => lanes'[leases'[j].lane].mod # None
      BY <2>4, <3>1 DEF Published
    <3> QED
      BY <3>2 DEF LeasesLive, Published
  <2>11. /\ LeasesOn(l)' = LeasesOn(l) \ {i} /\ i \in LeasesOn(l)
         /\ \A j \in LaneIds : j # l => LeasesOn(j)' = LeasesOn(j)
    BY <2>1, <2>2, NoneDiffers DEF LeasesOn, NoLease
  <2>12. \A j \in LaneIds : RetainsOn(j)' = RetainsOn(j)
    BY RetainsKept DEF IInv
  <2>13. StrongBalanced'
    <3>1. ASSUME NEW j \in LaneIds, j # l PROVE Count(j)' = Count(j)
      BY <2>3, <2>5, <2>11, <2>12, <3>1 DEF Count
    <3>2. Count(l)' = Count(l)
      <4>1. Cardinality(LeasesOn(l)') = Cardinality(LeasesOn(l)) - 1
        BY <2>11, LeasesFinite, FS_RemoveElement
      <4>2. /\ Cardinality(LeasesOn(l)) \in Nat /\ Cardinality(RetainsOn(l)) \in Nat
            /\ strong[l] \in Int
        BY LeasesFinite, RetainsFinite DEF IInv, TypeOK
      <4> QED
        BY <2>3, <2>5, <2>12, <4>1, <4>2 DEF Count
    <3>3. \A j \in LaneIds : Count(j)' = 0
      BY <3>1, <3>2, BalanceAsCount DEF IInv
    <3> QED
      BY <3>3, BalanceAsCount DEF IInv
  <2> QED
    BY <2>7, <2>8, <2>9, <2>10, <2>13 DEF IInv
<1> QED
  BY <1>1, <1>2

-----------------------------------------------------------------------------
\* Every step keeps the inductive invariant.
LEMMA StepIInv == IInv /\ [Next]_vars => IInv'
<1> SUFFICES ASSUME IInv, [Next]_vars PROVE IInv'
  OBVIOUS
<1>1. TypeOK'
  BY StepType DEF IInv
<1>2. handles' = handles => HandlesDropped
  BY DEF HandlesDropped
<1>3. ASSUME NEW m \in Mods, NEW l \in LaneIds, Unpublish(m, l) PROVE IInv'
  <2>1. Published(l)
    BY <1>3, NoneDiffers DEF Unpublish, Provides, Published
  <2> QED
    BY <1>1, <1>3, <2>1, RetireIInv DEF Unpublish
<1>4. ASSUME NEW m \in Mods, NEW l \in LaneIds, RetireOwn(m, l) PROVE IInv'
  <2>1. CASE Published(l)
    BY <1>1, <1>4, <2>1, RetireIInv DEF RetireOwn
  <2>2. CASE ~Published(l)
    BY <1>1, <1>2, <1>4, <2>2, TablesUntouched DEF RetireOwn
  <2> QED
    BY <2>1, <2>2
<1>5. ASSUME NEW i \in LeaseIds, Drop(i) PROVE IInv'
  <2>1. HandlesDropped
    BY <1>5 DEF Drop, HandlesDropped, IInv, TypeOK
  <2> QED
    BY <1>1, <1>5, <2>1, GiveBackIInv DEF Drop
<1>6. ASSUME NEW m \in Mods, NEW i \in LeaseIds, ReturnLease(m, i) PROVE IInv'
  BY <1>1, <1>2, <1>6, GiveBackIInv DEF ReturnLease
<1>7. ASSUME NEW i \in LeaseIds, Call(i) PROVE IInv'
  BY <1>1, <1>2, <1>7, TablesUntouched DEF Call
<1>8. ASSUME Return PROVE IInv'
  BY <1>1, <1>2, <1>8, TablesUntouched DEF Return
<1>9. ASSUME NEW m \in Mods, UnloadBegin(m) PROVE IInv'
  BY <1>1, <1>2, <1>9, TablesUntouched DEF UnloadBegin
<1>10. ASSUME NEW m \in Mods, ListPublished(m) PROVE IInv'
  BY <1>1, <1>2, <1>10, TablesUntouched DEF ListPublished
<1>11. ASSUME NEW m \in Mods, FreeLib(m) PROVE IInv'
  <2>1. HandlesDropped
    BY <1>11 DEF FreeLib, HandlesDropped
  <2> QED
    BY <1>1, <1>11, <2>1, TablesUntouched DEF FreeLib
<1>12. ASSUME NEW m \in Mods, Load(m) PROVE IInv'
  BY <1>1, <1>2, <1>12, TablesUntouched DEF Load
<1>13. ASSUME NEW m \in Mods, OnUnload(m) PROVE IInv'
  BY <1>1, <1>2, <1>13, TablesUntouched DEF OnUnload
<1>14. CASE UNCHANGED vars
  BY <1>1, <1>2, <1>14, TablesUntouched DEF vars
<1> QED
  BY <1>1, <1>3, <1>4, <1>5, <1>6, <1>7, <1>8, <1>9, <1>10, <1>11, <1>12, <1>13,
     <1>14, PublishIInv, AcquireInsertIInv, AcquireRetainIInv
  DEF Next

LEMMA Inductive == Spec => []IInv
BY InitIInv, StepIInv, PTL DEF Spec

\* The provider's reference count is one for the publication plus one per
\* lease (less the retains still to run), with any number of mods and lanes
\* and even when lane_acquire runs on another thread.
THEOREM CountsBalance == Spec => []StrongBalanced
BY Inductive, PTL DEF IInv

\* A name never has two providers, and gLanes and gByName agree.
THEOREM NamesStayExclusive == Spec => []NamesExclusive
BY Inductive, PTL DEF IInv

\* The alive flag a consumer reads says whether the lane is in the table.
THEOREM FlagIsTrue == Spec => []FlagTracksTable
BY Inductive, PTL DEF IInv

\* A lane that was retired is never alive again.
THEOREM RetiredStaysRetired == Spec => RetiredForGood
<1> DEFINE Dead == \A l \in LaneIds : l < nextLane /\ ~alive[l] => ~alive'[l]
<1>1. IInv /\ [Next]_vars => [Dead]_vars
  <2> SUFFICES ASSUME IInv, Next PROVE Dead
    OBVIOUS
  <2>1. ASSUME NEW m \in Mods, NEW n \in Names, NEW f \in Fingerprints, Publish(m, n, f)
        PROVE  Dead
    BY <2>1 DEF Publish, IInv, TypeOK, LaneIds
  <2>2. ASSUME NEW l \in LaneIds, Retire(l) PROVE Dead
    BY <2>2 DEF Retire, IInv, TypeOK
  <2>3. CASE alive' = alive
    BY <2>3
  <2> QED
    BY <2>1, <2>2, <2>3
    DEF Next, AcquireInsert, Unpublish, RetireOwn, AcquireRetain, Drop, Call, Return,
        UnloadBegin, OnUnload, ListPublished, FreeLib, Load, ReturnLease
<1> QED
  BY Inductive, <1>1, PTL DEF Spec, RetiredForGood

-----------------------------------------------------------------------------
\* The frames on the server thread's stack.
Calling(d)      == d \in DOMAIN stack /\ stack[d].kind = "call"
Unloading(d, m) == d \in DOMAIN stack /\ stack[d] = [kind |-> "unload", mod |-> m]

\* The busy counter of a lane is the number of calls parked in it.
BusyCounted == \A l \in LaneIds : busy[l] = Cardinality(CallsOf(l))

LEMMA StackPushed ==
  ASSUME NEW F, stack \in Seq(F), NEW f \in F, stack' = Append(stack, f)
  PROVE  /\ Len(stack) \in Nat /\ DOMAIN stack = 1..Len(stack)
         /\ DOMAIN stack' = 1..(Len(stack) + 1)
         /\ \A d \in 1..Len(stack) : stack'[d] = stack[d]
         /\ stack'[Len(stack) + 1] = f
BY AppendProperties, LenProperties

LEMMA StackPopped ==
  ASSUME NEW F, stack \in Seq(F), stack # <<>>, stack' = Pop
  PROVE  /\ Len(stack) \in Nat /\ Len(stack) >= 1 /\ DOMAIN stack = 1..Len(stack)
         /\ DOMAIN stack' = 1..(Len(stack) - 1)
         /\ \A d \in 1..(Len(stack) - 1) : stack'[d] = stack[d]
<1>1. Len(stack) \in Nat /\ Len(stack) >= 1 /\ DOMAIN stack = 1..Len(stack)
  BY EmptySeq, LenProperties
<1>2. /\ Len(stack') = Len(stack) - 1
      /\ \A d \in 1..(Len(stack) - 1) : stack'[d] = stack[d]
      /\ stack' \in Seq(F)
  BY <1>1, SubSeqProperties DEF Pop
<1>3. DOMAIN stack' = 1..(Len(stack) - 1)
  BY <1>2, LenProperties
<1> QED
  BY <1>1, <1>2, <1>3

\* A frame is a call or an unload, and its fields tell which.
LEMMA FrameKinds ==
  ASSUME TypeOK, NEW d \in DOMAIN stack
  PROVE  \/ stack[d].kind = "call" /\ stack[d] \in CallFrame
         \/ stack[d].kind = "unload" /\ stack[d] \in UnloadFrame
<1>1. stack[d] \in CallFrame \union UnloadFrame
  BY ElementOfSeq, LenProperties DEF TypeOK
<1> QED
  BY <1>1 DEF CallFrame, UnloadFrame

\* The calls of a lane are finitely many, before and after a step.
LEMMA CallsFinite ==
  ASSUME TypeOK, TypeOK', NEW l
  PROVE  /\ IsFiniteSet(CallsOf(l)) /\ Cardinality(CallsOf(l)) \in Nat
         /\ IsFiniteSet(CallsOf(l)') /\ Cardinality(CallsOf(l)') \in Nat
<1>1. /\ Len(stack) \in Nat /\ DOMAIN stack = 1..Len(stack)
      /\ Len(stack') \in Nat /\ DOMAIN stack' = 1..Len(stack')
  BY LenProperties DEF TypeOK
<1>2. IsFiniteSet(DOMAIN stack) /\ IsFiniteSet(DOMAIN stack')
  BY <1>1, FS_Interval
<1>3. CallsOf(l) \in SUBSET DOMAIN stack /\ CallsOf(l)' \in SUBSET DOMAIN stack'
  BY DEF CallsOf
<1> QED
  BY <1>2, <1>3, FS_Subset, FS_CardinalityType

LEMMA CallCounted ==
  ASSUME IInv, TypeOK', BusyCounted, NEW i \in LeaseIds, Call(i)
  PROVE  BusyCounted'
<1>1. PICK k \in LaneIds : k = handles[i].lane
  BY Fields DEF IInv, Call, HandleRec
<1>2. PICK n \in Nat : n = Len(stack)
  BY LenProperties DEF IInv, TypeOK
<1>3. PICK f : f = [kind |-> "call", lease |-> i, lane |-> k, code |-> handles[i].code]
  OBVIOUS
<1>4. f \in CallFrame /\ f.kind = "call" /\ f.lane = k
  BY <1>1, <1>3, Fields DEF IInv, Call, HandleRec, CallFrame
<1>5. stack' = Append(stack, f)
  BY <1>1, <1>3 DEF Call
<1>6. /\ DOMAIN stack = 1..n /\ DOMAIN stack' = 1..(n + 1)
      /\ \A d \in 1..n : stack'[d] = stack[d]
      /\ stack'[n + 1] = f
  BY <1>2, <1>4, <1>5, StackPushed DEF IInv, TypeOK
<1>7. CallsOf(k)' = CallsOf(k) \union {n + 1} /\ n + 1 \notin CallsOf(k)
  BY <1>4, <1>6 DEF CallsOf
<1>8. \A l \in LaneIds : l # k => CallsOf(l)' = CallsOf(l)
  BY <1>4, <1>6 DEF CallsOf
<1>9. busy'[k] = busy[k] + 1 /\ \A l \in LaneIds : l # k => busy'[l] = busy[l]
  BY <1>1 DEF Call, IInv, TypeOK
<1>10. Cardinality(CallsOf(k)') = Cardinality(CallsOf(k)) + 1
  BY <1>7, CallsFinite, FS_AddElement DEF IInv
<1> QED
  BY <1>8, <1>9, <1>10 DEF BusyCounted

\* Return takes the top frame off, and with it one from that lane's counter.
LEMMA ReturnCounted ==
  ASSUME IInv, TypeOK', BusyCounted, Return
  PROVE  /\ BusyCounted'
         /\ \E k \in LaneIds : /\ busy[k] # 0 /\ busy'[k] = busy[k] - 1
                               /\ \A l \in LaneIds : l # k => busy'[l] = busy[l]
<1>1. PICK n \in Nat : n = Len(stack) /\ n >= 1
  BY StackPopped DEF IInv, TypeOK, Return
<1>2. /\ DOMAIN stack = 1..n /\ DOMAIN stack' = 1..(n - 1)
      /\ \A d \in 1..(n - 1) : stack'[d] = stack[d]
  BY <1>1, StackPopped DEF IInv, TypeOK, Return
<1>3. n \in DOMAIN stack /\ stack[n].kind = "call"
  BY <1>1, <1>2 DEF Return
<1>4. stack[n] \in CallFrame
  BY <1>3, FrameKinds DEF IInv
<1>5. PICK k \in LaneIds : k = stack[n].lane
  BY <1>4 DEF CallFrame
<1>6. busy'[k] = busy[k] - 1 /\ \A l \in LaneIds : l # k => busy'[l] = busy[l]
  BY <1>1, <1>5 DEF Return, IInv, TypeOK
<1>7. CallsOf(k)' = CallsOf(k) \ {n} /\ n \in CallsOf(k)
  BY <1>2, <1>3, <1>5 DEF CallsOf
<1>8. \A l \in LaneIds : l # k => CallsOf(l)' = CallsOf(l)
  BY <1>2, <1>3, <1>5 DEF CallsOf
<1>9. /\ Cardinality(CallsOf(k)') = Cardinality(CallsOf(k)) - 1
      /\ Cardinality(CallsOf(k)) \in Nat /\ Cardinality(CallsOf(k)') \in Nat
  BY <1>7, CallsFinite, FS_RemoveElement DEF IInv
<1>10. BusyCounted'
  BY <1>6, <1>8, <1>9 DEF BusyCounted
<1>11. busy[k] # 0
  BY <1>9 DEF BusyCounted
<1> QED
  BY <1>6, <1>10, <1>11

\* An unload frame put on or taken off is no call.
LEMMA UnloadFrameUncounted ==
  ASSUME TypeOK, BusyCounted, busy' = busy, NEW m \in Mods,
         \/ stack' = Append(stack, [kind |-> "unload", mod |-> m])
         \/ stack' = Pop /\ OnTop([kind |-> "unload", mod |-> m])
  PROVE  BusyCounted'
<1> DEFINE f == [kind |-> "unload", mod |-> m]
<1>0. f \in CallFrame \union UnloadFrame /\ f.kind # "call"
  BY DEF UnloadFrame
<1>1. CASE stack' = Append(stack, f)
  <2>1. \A l \in LaneIds : CallsOf(l)' = CallsOf(l)
    BY <1>0, <1>1, StackPushed DEF TypeOK, CallsOf
  <2> QED
    BY <2>1 DEF BusyCounted
<1>2. CASE stack' = Pop /\ OnTop(f)
  <2>0. PICK n \in Nat : n = Len(stack) /\ n >= 1
    BY <1>2, StackPopped DEF TypeOK, OnTop
  <2>1. /\ DOMAIN stack = 1..n /\ DOMAIN stack' = 1..(n - 1)
        /\ \A d \in 1..(n - 1) : stack'[d] = stack[d]
        /\ stack[n].kind # "call"
    BY <1>0, <1>2, <2>0, StackPopped DEF TypeOK, OnTop
  <2>2. \A l \in LaneIds : CallsOf(l)' = CallsOf(l)
    BY <2>1 DEF CallsOf
  <2> QED
    BY <2>2 DEF BusyCounted
<1> QED
  BY <1>1, <1>2

LEMMA StepCounted == IInv /\ BusyCounted /\ [Next]_vars => BusyCounted'
<1> SUFFICES ASSUME IInv, BusyCounted, [Next]_vars PROVE BusyCounted'
  OBVIOUS
<1>1. TypeOK /\ TypeOK'
  BY StepType DEF IInv
<1>2. CASE UNCHANGED <<busy, stack>>
  BY <1>2 DEF BusyCounted, CallsOf
<1>3. ASSUME NEW i \in LeaseIds, Call(i) PROVE BusyCounted'
  BY <1>1, <1>3, CallCounted
<1>4. CASE Return
  BY <1>1, <1>4, ReturnCounted
<1>5. ASSUME NEW m \in Mods, UnloadBegin(m) PROVE BusyCounted'
  BY <1>1, <1>5, UnloadFrameUncounted DEF UnloadBegin
<1>6. ASSUME NEW m \in Mods, OnUnload(m) PROVE BusyCounted'
  BY <1>1, <1>2, <1>6, UnloadFrameUncounted DEF OnUnload
<1>7. ASSUME NEW m \in Mods, FreeLib(m) PROVE BusyCounted'
  BY <1>1, <1>7, UnloadFrameUncounted DEF FreeLib
<1> QED
  BY <1>2, <1>3, <1>4, <1>5, <1>6, <1>7, ZenonT(40)
  DEF Next, Publish, AcquireInsert, Unpublish, RetireOwn, AcquireRetain, Drop,
      ListPublished, Load, ReturnLease, vars

LEMMA BeginsCounted == Init => BusyCounted
<1> SUFFICES ASSUME Init PROVE BusyCounted
  OBVIOUS
<1>1. \A l \in LaneIds : CallsOf(l) = {}
  BY DEF Init, CallsOf
<1> QED
  BY <1>1, FS_EmptySet DEF Init, BusyCounted

LEMMA AlwaysCounted == Spec => []BusyCounted
BY Inductive, BeginsCounted, StepCounted, PTL DEF Spec

-----------------------------------------------------------------------------
\* The abstract state as the refinement mapping of KeepsPromise gives it.
PhaseNow  == [l \in LaneIds |-> IF Published(l) THEN "up"
                                ELSE IF l < nextLane THEN "down" ELSE "unborn"]
GrantsNow == [l \in LaneIds |-> LeasesOn(l)]
SpentNow  == 1..(nextLease - 1)
InsideNow == {l \in LaneIds : busy[l] # 0}

AbstractNow == <<PhaseNow, GrantsNow, SpentNow, InsideNow>>

LEMMA PhaseUnchanged ==
  ASSUME \A l \in LaneIds : Published(l)' <=> Published(l), nextLane' = nextLane
  PROVE  PhaseNow' = PhaseNow
BY DEF PhaseNow

LEMMA GrantsUnchanged ==
  ASSUME \A l \in LaneIds : LeasesOn(l)' = LeasesOn(l)
  PROVE  GrantsNow' = GrantsNow
BY DEF GrantsNow

\* Publishing brings the next publication up.
LEMMA PublishGoesUp ==
  ASSUME IInv, TypeOK', NEW m \in Mods, NEW n \in Names, NEW f \in Fingerprints,
         Publish(m, n, f)
  PROVE  \E l \in LaneIds : Promise!GoUp(l)
<1>1. PICK k \in LaneIds : k = nextLane /\ k \in Int /\ nextLane' = k + 1
  BY Fields DEF IInv, Publish, LaneIds
<1>2. /\ lanes'[k].mod = m /\ \A l \in LaneIds : l # k => lanes'[l] = lanes[l]
      /\ leases' = leases /\ nextLease' = nextLease /\ busy' = busy
  BY <1>1 DEF Publish, IInv, TypeOK
<1>3. ~Published(k)
  BY <1>1 DEF IInv, Fresh
<1>4. Published(k)' /\ \A l \in LaneIds : l # k => (Published(l)' <=> Published(l))
  BY <1>2, NoneDiffers DEF Published
<1>5. \A l \in LaneIds : l \in Int
  BY NoneDiffers
<1>6. PhaseNow[k] = "unborn"
  BY <1>1, <1>3 DEF PhaseNow
<1>7. PhaseNow' = [PhaseNow EXCEPT ![k] = "up"]
  <2>1. \A l \in LaneIds : PhaseNow'[l] = [PhaseNow EXCEPT ![k] = "up"][l]
    BY <1>1, <1>4, <1>5 DEF PhaseNow
  <2> QED
    BY <2>1 DEF PhaseNow
<1>8. GrantsNow' = GrantsNow /\ SpentNow' = SpentNow /\ InsideNow' = InsideNow
  BY <1>2 DEF GrantsNow, SpentNow, InsideNow, LeasesOn
<1>9. Promise!GoUp(k)
  BY <1>6, <1>7, <1>8 DEF Promise!GoUp, PhaseNow, GrantsNow, SpentNow, InsideNow
<1> QED
  BY <1>9

\* Retiring takes it down, and every grant with it.
LEMMA RetireGoesDown ==
  ASSUME IInv, TypeOK', NEW k \in LaneIds, Published(k), Retire(k),
         UNCHANGED <<nextLane, nextLease, busy>>
  PROVE  Promise!GoDown(k)
<1>1. /\ ~Published(k)'
      /\ \A l \in LaneIds : l # k => (Published(l)' <=> Published(l))
  BY DEF Retire, IInv, TypeOK, Published, NoLane
<1>2. k < nextLane
  BY Fields DEF IInv, Fresh, LaneIds
<1>3. LeasesOn(k)' = {} /\ \A l \in LaneIds : l # k => LeasesOn(l)' = LeasesOn(l)
  BY NoneDiffers DEF Retire, LeasesOn, NoLease
<1>4. PhaseNow' = [PhaseNow EXCEPT ![k] = "down"]
  <2>1. \A l \in LaneIds : PhaseNow'[l] = [PhaseNow EXCEPT ![k] = "down"][l]
    BY <1>1, <1>2 DEF PhaseNow
  <2> QED
    BY <2>1 DEF PhaseNow
<1>5. GrantsNow' = [GrantsNow EXCEPT ![k] = {}]
  <2>1. \A l \in LaneIds : GrantsNow'[l] = [GrantsNow EXCEPT ![k] = {}][l]
    BY <1>3 DEF GrantsNow
  <2> QED
    BY <2>1 DEF GrantsNow
<1>6. SpentNow' = SpentNow /\ InsideNow' = InsideNow
  BY DEF SpentNow, InsideNow
<1>7. PhaseNow[k] = "up"
  BY DEF PhaseNow
<1> QED
  BY <1>4, <1>5, <1>6, <1>7
  DEF Promise!GoDown, PhaseNow, GrantsNow, SpentNow, InsideNow

\* Inserting a lease grants a reference that was never granted before, on a
\* publication that is up.
LEMMA InsertGrants ==
  ASSUME IInv, TypeOK', NEW m \in Mods, NEW n \in Names, NEW f \in Fingerprints,
         AcquireInsert(m, n, f)
  PROVE  \E l \in LaneIds, i \in LeaseIds : Promise!Grant(l, i)
<1>1. PICK k \in LaneIds : k = byName[n] /\ Published(k)
  BY Fields DEF IInv, AcquireInsert
<1>2. PICK i \in LeaseIds : i = nextLease /\ i \in Nat /\ i >= 1
  BY Fields DEF IInv, AcquireInsert, LeaseIds
<1>3. /\ lanes'[k].mod = lanes[k].mod
      /\ \A l \in LaneIds : l # k => lanes'[l] = lanes[l]
  <2>1. lanes' = [lanes EXCEPT ![k].leases = @ + 1]
    BY <1>1 DEF AcquireInsert
  <2>2. lanes[k] \in LaneRec
    BY <1>1, Fields DEF IInv
  <2> QED
    BY <2>1, <2>2 DEF IInv, TypeOK, LaneRec
<1>4. /\ leases'[i] = [holder |-> m, lane |-> k]
      /\ \A j \in LeaseIds : j # i => leases'[j] = leases[j]
      /\ nextLane' = nextLane /\ nextLease' = i + 1 /\ busy' = busy
  BY <1>1, <1>2 DEF AcquireInsert, IInv, TypeOK
<1>5. \A l \in LaneIds : leases[i].lane # l
  BY <1>2, Fields, NoneDiffers DEF IInv, Fresh, NoLease
<1>6. /\ LeasesOn(k)' = LeasesOn(k) \union {i}
      /\ \A l \in LaneIds : l # k => LeasesOn(l)' = LeasesOn(l)
  BY <1>4, <1>5 DEF LeasesOn
<1>7. PhaseNow' = PhaseNow
  BY <1>3, <1>4, PhaseUnchanged DEF Published
<1>8. GrantsNow' = [GrantsNow EXCEPT ![k] = @ \union {i}]
  <2>1. \A l \in LaneIds : GrantsNow'[l] = [GrantsNow EXCEPT ![k] = @ \union {i}][l]
    BY <1>6 DEF GrantsNow
  <2> QED
    BY <2>1 DEF GrantsNow
<1>9. SpentNow' = SpentNow \union {i} /\ i \notin SpentNow
  BY <1>2, <1>4 DEF SpentNow
<1>10. InsideNow' = InsideNow
  BY <1>4 DEF InsideNow
<1>11. PhaseNow[k] = "up"
  BY <1>1 DEF PhaseNow
<1>12. Promise!Grant(k, i)
  BY <1>7, <1>8, <1>9, <1>10, <1>11
  DEF Promise!Grant, PhaseNow, GrantsNow, SpentNow, InsideNow
<1> QED
  BY <1>12

\* Giving a lease back ends its grant, or does nothing when it is gone.
LEMMA GiveBackEnds ==
  ASSUME IInv, TypeOK', NEW i \in LeaseIds, GiveBack(i),
         UNCHANGED <<nextLane, nextLease, busy>>
  PROVE  AbstractNow' = AbstractNow \/ \E l \in LaneIds : Promise!End(l, i)
<1>1. CASE ~Leased(i)
  BY <1>1 DEF GiveBack, AbstractNow, PhaseNow, GrantsNow, SpentNow, InsideNow,
              Published, LeasesOn
<1>2. CASE Leased(i)
  <2>1. PICK k \in LaneIds : k = leases[i].lane /\ Published(k)
    BY <1>2, Fields DEF IInv, LeasesLive, LeaseRec
  <2>2. leases'[i] = NoLease /\ \A j \in LeaseIds : j # i => leases'[j] = leases[j]
    BY <1>2 DEF GiveBack, IInv, TypeOK
  <2>3. /\ lanes'[k].mod = lanes[k].mod
        /\ \A l \in LaneIds : l # k => lanes'[l] = lanes[l]
    <3>1. lanes' = [lanes EXCEPT ![k].leases = IF @ > 0 THEN @ - 1 ELSE @]
      BY <1>2, <2>1 DEF GiveBack
    <3>2. lanes[k] \in LaneRec
      BY <2>1, Fields DEF IInv
    <3> QED
      BY <3>1, <3>2 DEF IInv, TypeOK, LaneRec
  <2>4. /\ LeasesOn(k)' = LeasesOn(k) \ {i} /\ i \in LeasesOn(k)
        /\ \A l \in LaneIds : l # k => LeasesOn(l)' = LeasesOn(l)
    BY <2>1, <2>2, NoneDiffers DEF LeasesOn, NoLease
  <2>5. PhaseNow' = PhaseNow
    BY <2>3, PhaseUnchanged DEF Published
  <2>6. GrantsNow' = [GrantsNow EXCEPT ![k] = @ \ {i}]
    <3>1. \A l \in LaneIds : GrantsNow'[l] = [GrantsNow EXCEPT ![k] = @ \ {i}][l]
      BY <2>4 DEF GrantsNow
    <3> QED
      BY <3>1 DEF GrantsNow
  <2>7. SpentNow' = SpentNow /\ InsideNow' = InsideNow /\ i \in GrantsNow[k]
    BY <2>4 DEF SpentNow, InsideNow, GrantsNow
  <2>8. Promise!End(k, i)
    BY <2>5, <2>6, <2>7 DEF Promise!End, PhaseNow, GrantsNow, SpentNow, InsideNow
  <2> QED
    BY <2>8
<1> QED
  BY <1>1, <1>2

\* A call enters a publication that is up.
LEMMA CallEnters ==
  ASSUME IInv, TypeOK', BusyCounted, NEW i \in LeaseIds, Call(i)
  PROVE  \E l \in LaneIds : Promise!Enter(l)
<1>1. PICK k \in LaneIds : k = handles[i].lane /\ alive[k]
  BY Fields DEF IInv, Call, HandleRec
<1>2. Published(k)
  BY <1>1 DEF IInv, FlagTracksTable
<1>3. busy'[k] = busy[k] + 1 /\ \A l \in LaneIds : l # k => busy'[l] = busy[l]
  BY <1>1 DEF Call, IInv, TypeOK
<1>4. busy[k] \in Nat
  BY CallsFinite DEF IInv, BusyCounted
<1>5. InsideNow' = InsideNow \union {k}
  BY <1>3, <1>4 DEF InsideNow
<1>6. PhaseNow' = PhaseNow /\ GrantsNow' = GrantsNow /\ SpentNow' = SpentNow
  BY DEF Call, PhaseNow, GrantsNow, SpentNow, Published, LeasesOn
<1>7. PhaseNow[k] = "up"
  BY <1>2 DEF PhaseNow
<1>8. Promise!Enter(k)
  BY <1>5, <1>6, <1>7 DEF Promise!Enter, PhaseNow, GrantsNow, SpentNow, InsideNow
<1> QED
  BY <1>8

\* A return leaves the publication, or leaves it to the calls below it.
LEMMA ReturnLeaves ==
  ASSUME IInv, TypeOK', BusyCounted, Return
  PROVE  AbstractNow' = AbstractNow \/ \E l \in LaneIds : Promise!Leave(l)
<1>1. PICK k \in LaneIds : /\ busy[k] # 0 /\ busy'[k] = busy[k] - 1
                           /\ \A l \in LaneIds : l # k => busy'[l] = busy[l]
  BY ReturnCounted
<1>2. PhaseNow' = PhaseNow /\ GrantsNow' = GrantsNow /\ SpentNow' = SpentNow
  BY DEF Return, PhaseNow, GrantsNow, SpentNow, Published, LeasesOn
<1>3. CASE busy'[k] # 0
  <2>1. InsideNow' = InsideNow
    BY <1>1, <1>3 DEF InsideNow
  <2> QED
    BY <1>2, <2>1 DEF AbstractNow
<1>4. CASE busy'[k] = 0
  <2>1. InsideNow' = InsideNow \ {k} /\ k \in InsideNow
    BY <1>1, <1>4 DEF InsideNow
  <2>2. Promise!Leave(k)
    BY <1>2, <2>1 DEF Promise!Leave, PhaseNow, GrantsNow, SpentNow, InsideNow
  <2> QED
    BY <2>2
<1> QED
  BY <1>3, <1>4

\* What touches neither the tables nor the busy counters is a stutter.
LEMMA OthersStutter ==
  ASSUME UNCHANGED <<lanes, leases, nextLane, nextLease, busy>>
  PROVE  AbstractNow' = AbstractNow
BY DEF AbstractNow, PhaseNow, GrantsNow, SpentNow, InsideNow, Published, LeasesOn

LEMMA StepPromised ==
  IInv /\ BusyCounted /\ [Next]_vars => Promise!ANext \/ AbstractNow' = AbstractNow
<1> SUFFICES ASSUME IInv, BusyCounted, [Next]_vars
             PROVE  Promise!ANext \/ AbstractNow' = AbstractNow
  OBVIOUS
<1>1. TypeOK'
  BY StepType DEF IInv
<1>2. ASSUME NEW m \in Mods, NEW n \in Names, NEW f \in Fingerprints,
             Publish(m, n, f) \/ AcquireInsert(m, n, f)
      PROVE  Promise!ANext
  BY <1>1, <1>2, PublishGoesUp, InsertGrants DEF Promise!ANext
<1>3. ASSUME NEW m \in Mods, NEW l \in LaneIds, Unpublish(m, l) PROVE Promise!ANext
  <2>1. Published(l)
    BY <1>3, NoneDiffers DEF Unpublish, Provides, Published
  <2> QED
    BY <1>1, <1>3, <2>1, RetireGoesDown DEF Unpublish, Promise!ANext
<1>4. ASSUME NEW m \in Mods, NEW l \in LaneIds, RetireOwn(m, l)
      PROVE  Promise!ANext \/ AbstractNow' = AbstractNow
  <2>1. CASE Published(l)
    BY <1>1, <1>4, <2>1, RetireGoesDown DEF RetireOwn, Promise!ANext
  <2>2. CASE ~Published(l)
    BY <1>4, <2>2, OthersStutter DEF RetireOwn
  <2> QED
    BY <2>1, <2>2
<1>5. ASSUME NEW i \in LeaseIds, Drop(i)
      PROVE  Promise!ANext \/ AbstractNow' = AbstractNow
  BY <1>1, <1>5, GiveBackEnds DEF Drop, Promise!ANext
<1>6. ASSUME NEW m \in Mods, NEW i \in LeaseIds, ReturnLease(m, i)
      PROVE  Promise!ANext \/ AbstractNow' = AbstractNow
  BY <1>1, <1>6, GiveBackEnds DEF ReturnLease, Promise!ANext
<1>7. ASSUME NEW i \in LeaseIds, Call(i) PROVE Promise!ANext
  BY <1>1, <1>7, CallEnters DEF Promise!ANext
<1>8. CASE Return
  BY <1>1, <1>8, ReturnLeaves DEF Promise!ANext
<1>9. CASE UNCHANGED <<lanes, leases, nextLane, nextLease, busy>>
  BY <1>9, OthersStutter
<1> QED
  BY <1>2, <1>3, <1>4, <1>5, <1>6, <1>7, <1>8, <1>9
  DEF Next, AcquireRetain, UnloadBegin, OnUnload, ListPublished, FreeLib, Load, vars

LEMMA BeginsPromised == Init => Promise!AInit
<1> SUFFICES ASSUME Init PROVE Promise!AInit
  OBVIOUS
<1>1. \A l \in LaneIds : /\ l \in Int /\ l >= 1
                         /\ ~Published(l) /\ LeasesOn(l) = {} /\ busy[l] = 0
  BY NoneDiffers DEF Init, Published, LeasesOn, NoLane, NoLease, LaneIds
<1>2. nextLane = 1 /\ nextLease = 1
  BY DEF Init
<1>3. PhaseNow = [l \in LaneIds |-> "unborn"] /\ GrantsNow = [l \in LaneIds |-> {}]
  BY <1>1, <1>2 DEF PhaseNow, GrantsNow
<1>4. SpentNow = {} /\ InsideNow = {}
  BY <1>1, <1>2 DEF SpentNow, InsideNow
<1> QED
  BY <1>3, <1>4 DEF Promise!AInit, PhaseNow, GrantsNow, SpentNow, InsideNow

\* The tables, counters and stack of the fast lane implement what LanePromise
\* says of it: a publication goes up once and down once, a grant is made once,
\* only while it is up, and ends with it, and a call enters only what is up.
THEOREM LaneKeepsPromise == Spec => KeepsPromise
<1>1. AbstractNow = Promise!avars /\ AbstractNow' = (Promise!avars)'
  BY DEF AbstractNow, Promise!avars, PhaseNow, GrantsNow, SpentNow, InsideNow
<1>2. IInv /\ BusyCounted /\ [Next]_vars => [Promise!ANext]_(Promise!avars)
  BY <1>1, StepPromised
<1> QED
  BY <1>2, BeginsPromised, Inductive, AlwaysCounted, PTL
  DEF Spec, KeepsPromise, Promise!ASpec

-----------------------------------------------------------------------------
\* What keeps a called provider mapped.  A handle's table is in the dylib of the
\* mod that provides the lane, and a lane in the table has a mapped provider.
HandlesTrue ==
  \A i \in LeaseIds : Held(i) /\ Published(handles[i].lane)
                        => lanes[handles[i].lane].mod = handles[i].code

ProvidersMapped == \A l \in LaneIds : Published(l) => Mapped(lanes[l].mod)

\* A mod is unloaded by at most one frame, and only while its stage says so.
UnloadsStaged ==
  \A m \in Mods, d \in DOMAIN stack : Unloading(d, m) =>
    /\ stage[m] \in {"closing", "leases", "lanes"}
    /\ \A e \in DOMAIN stack : Unloading(e, m) => e = d

\* The second loop of laneOnRustModGone has all of the mod's lanes, and no other's.
PendingOwn ==
  \A m \in Mods : stage[m] = "lanes" =>
    \A l \in LaneIds : /\ l \in pending[m] => l < nextLane
                       /\ l \in pending[m] /\ Published(l) => Provides(m, l)
                       /\ Provides(m, l) => l \in pending[m]

\* No call into a mod is parked below the frame that unloads it,
CallsBelow ==
  \A m \in Mods, d \in DOMAIN stack, e \in DOMAIN stack :
    Calling(d) /\ Unloading(e, m) /\ d < e => stack[d].code # m

\* because a call is parked in a lane its mod still provides, unless the mod's
\* unload began before the call.
CallsProvided ==
  \A d \in DOMAIN stack : Calling(d) =>
    \/ Provides(stack[d].code, stack[d].lane)
    \/ \E e \in DOMAIN stack : e < d /\ Unloading(e, stack[d].code)

MapInv == /\ HandlesTrue /\ ProvidersMapped /\ UnloadsStaged /\ PendingOwn
          /\ CallsBelow /\ CallsProvided /\ CalledCodeMapped

\* A lane keeps its provider, or loses it.
SameMods == \A l \in LaneIds : lanes'[l].mod = lanes[l].mod

LEMMA GiveBackSameMods ==
  ASSUME TypeOK, NEW i \in LeaseIds, GiveBack(i)
  PROVE  SameMods
<1>1. CASE lanes' = lanes
  BY <1>1 DEF SameMods
<1>2. CASE Leased(i) /\ Published(leases[i].lane)
  <2>1. PICK k \in LaneIds : k = leases[i].lane
    BY <1>2, Fields DEF LeaseRec
  <2>2. lanes' = [lanes EXCEPT ![k].leases = IF @ > 0 THEN @ - 1 ELSE @]
    BY <1>2, <2>1 DEF GiveBack
  <2>3. lanes[k] \in LaneRec
    BY <1>2, <2>1, Fields
  <2> QED
    BY <2>2, <2>3 DEF TypeOK, LaneRec, SameMods
<1> QED
  BY <1>1, <1>2 DEF GiveBack

LEMMA RetireMods ==
  ASSUME TypeOK, NEW l \in LaneIds, Retire(l)
  PROVE  /\ lanes'[l].mod = None
         /\ \A k \in LaneIds : k # l => lanes'[k].mod = lanes[k].mod
BY DEF TypeOK, Retire, NoLane

\* The frames of a called lane and its code are lane ids and mods.
LEMMA FrameFields ==
  ASSUME TypeOK, NEW d \in DOMAIN stack
  PROVE  /\ Calling(d) => stack[d].lane \in LaneIds /\ stack[d].code \in Mods
         /\ ~Calling(d) => \E m \in Mods : Unloading(d, m)
         /\ \A m \in Mods : Calling(d) => ~Unloading(d, m)
BY FrameKinds DEF Calling, Unloading, CallFrame, UnloadFrame

\* A call taken off the stack, or an unload whose frame ends, leaves the rest
\* of the stack as it was.
LEMMA PopKeeps ==
  ASSUME TypeOK, MapInv, stack # <<>>, stack' = Pop, SameMods
  PROVE  /\ CallsBelow' /\ CallsProvided'
         /\ \A d \in DOMAIN stack' : d \in DOMAIN stack /\ stack'[d] = stack[d]
<1>1. PICK n \in Nat : n = Len(stack) /\ n >= 1
  BY StackPopped DEF TypeOK
<1>2. /\ DOMAIN stack = 1..n /\ DOMAIN stack' = 1..(n - 1)
      /\ \A d \in 1..(n - 1) : stack'[d] = stack[d]
  BY <1>1, StackPopped DEF TypeOK
<1>3. \A d \in DOMAIN stack' : d \in DOMAIN stack /\ stack'[d] = stack[d]
  BY <1>2
<1>4. CallsBelow'
  BY <1>3 DEF MapInv, CallsBelow, Calling, Unloading
<1>5. ASSUME NEW d \in DOMAIN stack', Calling(d)'
      PROVE  \/ Provides(stack[d].code, stack[d].lane)'
             \/ \E e \in DOMAIN stack' : e < d /\ Unloading(e, stack[d].code)'
  <2>1. d \in DOMAIN stack /\ stack'[d] = stack[d] /\ Calling(d)
    BY <1>3, <1>5 DEF Calling
  <2>2. stack[d].lane \in LaneIds
    BY <2>1, FrameFields
  <2>3. CASE Provides(stack[d].code, stack[d].lane)
    BY <2>1, <2>2, <2>3 DEF Provides, SameMods
  <2>4. CASE \E e \in DOMAIN stack : e < d /\ Unloading(e, stack[d].code)
    <3>1. PICK e \in DOMAIN stack : e < d /\ Unloading(e, stack[d].code)
      BY <2>4
    <3>2. e \in DOMAIN stack'
      BY <1>2, <3>1
    <3> QED
      BY <2>1, <3>1, <3>2, <1>3 DEF Unloading
  <2> QED
    BY <2>1, <2>3, <2>4 DEF MapInv, CallsProvided
<1>6. CallsProvided'
  BY <1>5, <1>3 DEF CallsProvided
<1> QED
  BY <1>3, <1>4, <1>6

\* A step that leaves stack, stages and the lanes' providers alone, and whose
\* handles are old ones or fewer.
LEMMA QuietMaps ==
  ASSUME TypeOK, TypeOK', MapInv, SameMods,
         UNCHANGED <<stage, stack, nextLane>>,
         \A i \in LeaseIds : Held(i)' => Held(i) /\ handles'[i] = handles[i],
         \A m \in Mods : stage[m] = "lanes" => pending'[m] = pending[m]
  PROVE  MapInv'
<1>1. HandlesTrue'
  BY Fields DEF MapInv, HandlesTrue, Published, SameMods, HandleRec
<1>2. ProvidersMapped' /\ UnloadsStaged'
  BY DEF MapInv, ProvidersMapped, UnloadsStaged, Published, SameMods, Mapped, Unloading
<1>3. PendingOwn'
  BY DEF MapInv, PendingOwn, Published, Provides, SameMods
<1>4. CallsBelow' /\ CalledCodeMapped'
  BY DEF MapInv, CallsBelow, CalledCodeMapped, Calling, Unloading, Mapped
<1>5. CallsProvided'
  BY FrameFields DEF MapInv, CallsProvided, Calling, Unloading, Provides, SameMods
<1> QED
  BY <1>1, <1>2, <1>3, <1>4, <1>5 DEF MapInv

LEMMA PublishMaps ==
  ASSUME IInv, TypeOK', MapInv, NEW m \in Mods, NEW n \in Names,
         NEW f \in Fingerprints, Publish(m, n, f)
  PROVE  MapInv'
<1>1. PICK k \in LaneIds : k = nextLane /\ k \in Int /\ nextLane' = k + 1
  BY Fields DEF IInv, Publish, LaneIds
<1>2. /\ lanes'[k].mod = m /\ \A l \in LaneIds : l # k => lanes'[l] = lanes[l]
      /\ UNCHANGED <<stage, handles, pending, stack>> /\ Active(m)
  BY <1>1 DEF Publish, IInv, TypeOK
<1>3. lanes[k].mod = None /\ \A l \in LaneIds : l \in Int
  BY <1>1, NoneDiffers DEF IInv, Fresh, Published
<1>4. HandlesTrue'
  <2>1. ASSUME NEW i \in LeaseIds, Held(i)
        PROVE  handles[i].lane \in LaneIds /\ handles[i].lane # k
    BY <1>1, <2>1, Fields DEF IInv, Fresh, HandleRec
  <2> QED
    BY <1>2, <2>1 DEF MapInv, HandlesTrue, Held, Published
<1>5. ProvidersMapped' /\ UnloadsStaged'
  BY <1>2 DEF MapInv, ProvidersMapped, UnloadsStaged, Published, Mapped, Active, Unloading
<1>6. PendingOwn'
  <2> SUFFICES ASSUME NEW x \in Mods, stage[x] = "lanes", NEW l \in LaneIds
               PROVE  /\ l \in pending[x] => l < k + 1
                      /\ l \in pending[x] /\ lanes'[l].mod # None => lanes'[l].mod = x
                      /\ lanes'[l].mod = x => l \in pending[x]
    BY <1>1, <1>2 DEF PendingOwn, Published, Provides
  <2>1. x # m
    BY <1>2 DEF Active
  <2>2. /\ l \in pending[x] => l < k
        /\ l \in pending[x] /\ lanes[l].mod # None => lanes[l].mod = x
        /\ lanes[l].mod = x => l \in pending[x]
    BY <1>1 DEF MapInv, PendingOwn, Published, Provides
  <2> QED
    BY <1>2, <1>3, <2>1, <2>2
<1>7. CallsBelow' /\ CalledCodeMapped'
  BY <1>2 DEF MapInv, CallsBelow, CalledCodeMapped, Calling, Unloading, Mapped
<1>8. CallsProvided'
  <2>1. ASSUME NEW d \in DOMAIN stack, Calling(d), Provides(stack[d].code, stack[d].lane)
        PROVE  Provides(stack[d].code, stack[d].lane)'
    <3>1. stack[d].lane \in LaneIds /\ stack[d].code \in Mods
      BY <2>1, FrameFields DEF IInv
    <3>2. stack[d].lane # k
      BY <1>3, <2>1, <3>1, NoneDiffers DEF Provides
    <3> QED
      BY <1>2, <2>1, <3>1, <3>2 DEF Provides
  <2> QED
    BY <1>2, <2>1 DEF MapInv, CallsProvided, Calling, Unloading, Provides
<1> QED
  BY <1>4, <1>5, <1>6, <1>7, <1>8 DEF MapInv

LEMMA AcquireInsertMaps ==
  ASSUME IInv, TypeOK', MapInv, NEW m \in Mods, NEW n \in Names,
         NEW f \in Fingerprints, AcquireInsert(m, n, f)
  PROVE  MapInv'
<1>1. PICK k \in LaneIds : k = byName[n] /\ Published(k)
  BY Fields DEF IInv, AcquireInsert
<1>2. PICK i \in LeaseIds : i = nextLease
  BY Fields DEF IInv, AcquireInsert, LeaseIds
<1>3. SameMods
  <2>1. lanes' = [lanes EXCEPT ![k].leases = @ + 1]
    BY <1>1 DEF AcquireInsert
  <2>2. lanes[k] \in LaneRec
    BY <1>1, Fields DEF IInv
  <2> QED
    BY <2>1, <2>2 DEF IInv, TypeOK, LaneRec, SameMods
<1>4. /\ handles'[i] = [holder |-> m, lane |-> k, code |-> lanes[k].mod]
      /\ \A j \in LeaseIds : j # i => handles'[j] = handles[j]
      /\ UNCHANGED <<stage, stack, nextLane, pending>>
  BY <1>1, <1>2 DEF AcquireInsert, IInv, TypeOK
<1>5. HandlesTrue'
  <2> SUFFICES ASSUME NEW j \in LeaseIds, Held(j)', Published(handles[j].lane)'
               PROVE  lanes'[handles'[j].lane].mod = handles'[j].code
    BY DEF HandlesTrue
  <2>1. CASE j = i
    BY <1>1, <1>3, <1>4, <2>1 DEF SameMods
  <2>2. CASE j # i
    <3>1. handles'[j] = handles[j] /\ Held(j) /\ handles[j].lane \in LaneIds
      BY <1>4, <2>2, Fields DEF Held, IInv, HandleRec
    <3> QED
      BY <1>3, <3>1 DEF SameMods, MapInv, HandlesTrue, Published
  <2> QED
    BY <2>1, <2>2
<1>6. ProvidersMapped' /\ UnloadsStaged'
  BY <1>3, <1>4
  DEF MapInv, ProvidersMapped, UnloadsStaged, Published, SameMods, Mapped, Unloading
<1>7. PendingOwn'
  BY <1>3, <1>4 DEF MapInv, PendingOwn, Published, Provides, SameMods
<1>8. CallsBelow' /\ CalledCodeMapped'
  BY <1>4 DEF MapInv, CallsBelow, CalledCodeMapped, Calling, Unloading, Mapped
<1>9. CallsProvided'
  BY <1>3, <1>4, FrameFields
  DEF IInv, MapInv, CallsProvided, Calling, Unloading, Provides, SameMods
<1> QED
  BY <1>5, <1>6, <1>7, <1>8, <1>9 DEF MapInv

\* Retiring a lane in which no call of its provider is parked.
LEMMA RetireMaps ==
  ASSUME IInv, TypeOK', MapInv, NEW l \in LaneIds, Retire(l),
         UNCHANGED <<stage, stack, nextLane, handles>>,
         \A d \in DOMAIN stack : Calling(d) /\ Provides(stack[d].code, stack[d].lane)
                                   => stack[d].lane # l,
         \A m \in Mods : pending'[m] = pending[m] \/ pending'[m] = pending[m] \ {l}
  PROVE  MapInv'
<1>1. /\ lanes'[l].mod = None
      /\ \A k \in LaneIds : k # l => lanes'[k].mod = lanes[k].mod
  BY RetireMods DEF IInv
<1>2. HandlesTrue'
  <2> SUFFICES ASSUME NEW j \in LeaseIds, Held(j), lanes'[handles[j].lane].mod # None
               PROVE  lanes'[handles[j].lane].mod = handles[j].code
    BY DEF HandlesTrue, Held, Published
  <2>1. handles[j].lane \in LaneIds /\ handles[j].lane # l
    BY <1>1, Fields DEF IInv, HandleRec
  <2> QED
    BY <1>1, <2>1 DEF MapInv, HandlesTrue, Published
<1>3. ProvidersMapped' /\ UnloadsStaged'
  BY <1>1 DEF MapInv, ProvidersMapped, UnloadsStaged, Published, Mapped, Unloading
<1>4. PendingOwn'
  BY <1>1, NoneDiffers DEF MapInv, PendingOwn, Published, Provides
<1>5. CallsBelow' /\ CalledCodeMapped'
  BY DEF MapInv, CallsBelow, CalledCodeMapped, Calling, Unloading, Mapped
<1>6. CallsProvided'
  BY <1>1, FrameFields DEF IInv, MapInv, CallsProvided, Calling, Unloading, Provides
<1> QED
  BY <1>2, <1>3, <1>4, <1>5, <1>6 DEF MapInv

\* A lane is alive only if it is provided, so the call's frame is provided too.
LEMMA CallMaps ==
  ASSUME IInv, TypeOK', MapInv, NEW i \in LeaseIds, Call(i)
  PROVE  MapInv'
<1>1. PICK k \in LaneIds : k = handles[i].lane /\ alive[k]
  BY Fields DEF IInv, Call, HandleRec
<1>2. PICK c \in Mods : c = handles[i].code
  BY Fields DEF IInv, Call, HandleRec
<1>3. Published(k) /\ Provides(c, k) /\ Mapped(c)
  BY <1>1, <1>2
  DEF IInv, FlagTracksTable, MapInv, HandlesTrue, ProvidersMapped, Call, Provides, Published
<1>4. PICK n \in Nat : n = Len(stack)
  BY LenProperties DEF IInv, TypeOK
<1>5. PICK f : f = [kind |-> "call", lease |-> i, lane |-> k, code |-> c]
  OBVIOUS
<1>6. /\ f \in CallFrame \union UnloadFrame
      /\ f.kind = "call" /\ f.lane = k /\ f.code = c
      /\ \A m : f # [kind |-> "unload", mod |-> m]
  BY <1>5 DEF CallFrame
<1>7. stack' = Append(stack, f)
  BY <1>1, <1>2, <1>5 DEF Call
<1>8. /\ DOMAIN stack = 1..n /\ DOMAIN stack' = 1..(n + 1)
      /\ \A d \in 1..n : stack'[d] = stack[d]
      /\ stack'[n + 1] = f
  BY <1>4, <1>6, <1>7, StackPushed DEF IInv, TypeOK
<1>9. UNCHANGED <<stage, lanes, nextLane, handles, pending>>
  BY DEF Call
<1>10. HandlesTrue' /\ ProvidersMapped' /\ PendingOwn'
  BY <1>9
  DEF MapInv, HandlesTrue, ProvidersMapped, PendingOwn, Held, Published, Mapped, Provides
<1>11. UnloadsStaged'
  BY <1>6, <1>8, <1>9 DEF MapInv, UnloadsStaged, Unloading
<1>12. CallsBelow'
  BY <1>6, <1>8 DEF MapInv, CallsBelow, Calling, Unloading
<1>13. CallsProvided'
  <2> SUFFICES ASSUME NEW d \in 1..(n + 1), stack'[d].kind = "call"
               PROVE  \/ Provides(stack[d].code, stack[d].lane)'
                      \/ \E e \in 1..(n + 1) : e < d /\ Unloading(e, stack[d].code)'
    BY <1>8 DEF CallsProvided, Calling, Provides, Unloading
  <2>1. CASE d = n + 1
    BY <1>3, <1>6, <1>8, <1>9, <2>1 DEF Provides
  <2>2. CASE d # n + 1
    <3>1. d \in DOMAIN stack /\ stack'[d] = stack[d] /\ Calling(d)
      BY <1>8, <2>2 DEF Calling
    <3>2. CASE Provides(stack[d].code, stack[d].lane)
      BY <1>9, <3>1, <3>2 DEF Provides
    <3>3. CASE \E e \in DOMAIN stack : e < d /\ Unloading(e, stack[d].code)
      BY <1>8, <3>1, <3>3 DEF Unloading
    <3> QED
      BY <3>1, <3>2, <3>3 DEF MapInv, CallsProvided
  <2> QED
    BY <2>1, <2>2
<1>14. CalledCodeMapped'
  BY <1>3, <1>6, <1>8, <1>9 DEF MapInv, CalledCodeMapped, Mapped
<1> QED
  BY <1>10, <1>11, <1>12, <1>13, <1>14 DEF MapInv

LEMMA ReturnMaps ==
  ASSUME IInv, TypeOK', MapInv, Return
  PROVE  MapInv'
<1>1. SameMods /\ stack # <<>> /\ stack' = Pop
  BY DEF Return, SameMods
<1>2. /\ CallsBelow' /\ CallsProvided'
      /\ \A d \in DOMAIN stack' : d \in DOMAIN stack /\ stack'[d] = stack[d]
  BY <1>1, PopKeeps DEF IInv
<1>3. HandlesTrue' /\ ProvidersMapped' /\ PendingOwn'
  BY DEF MapInv, HandlesTrue, ProvidersMapped, PendingOwn, Held, Published, Mapped,
         Provides, Return
<1>4. UnloadsStaged' /\ CalledCodeMapped'
  BY <1>2 DEF MapInv, UnloadsStaged, CalledCodeMapped, Unloading, Mapped, Return
<1> QED
  BY <1>2, <1>3, <1>4 DEF MapInv

\* The busy test: no lane of the mod is being called, so nothing below the new
\* frame is parked in its code.
LEMMA UnloadBeginMaps ==
  ASSUME IInv, TypeOK', BusyCounted, MapInv, NEW m \in Mods, UnloadBegin(m)
  PROVE  MapInv'
<1>1. PICK n \in Nat : n = Len(stack)
  BY LenProperties DEF IInv, TypeOK
<1>2. PICK f : f = [kind |-> "unload", mod |-> m]
  OBVIOUS
<1>3. /\ f \in CallFrame \union UnloadFrame /\ f.kind # "call"
      /\ \A x : f = [kind |-> "unload", mod |-> x] <=> x = m
  BY <1>2 DEF UnloadFrame
<1>4. stack' = Append(stack, f)
  BY <1>2 DEF UnloadBegin
<1>5. /\ DOMAIN stack = 1..n /\ DOMAIN stack' = 1..(n + 1)
      /\ \A d \in 1..n : stack'[d] = stack[d]
      /\ stack'[n + 1] = f
  BY <1>1, <1>3, <1>4, StackPushed DEF IInv, TypeOK
<1>6. /\ stage[m] = "loaded" /\ stage'[m] = "closing"
      /\ \A x \in Mods : x # m => stage'[x] = stage[x]
      /\ UNCHANGED <<lanes, nextLane, handles, pending>>
  BY DEF UnloadBegin, IInv, TypeOK
<1>7. \A x \in Mods : Mapped(x)' <=> Mapped(x)
  BY <1>6 DEF Mapped
<1>8. \A d \in DOMAIN stack : ~Unloading(d, m)
  BY <1>6 DEF MapInv, UnloadsStaged
<1>9. ASSUME NEW d \in DOMAIN stack, Calling(d) PROVE stack[d].code # m
  <2>1. stack[d].lane \in LaneIds
    BY <1>9, FrameFields DEF IInv
  <2>2. d \in CallsOf(stack[d].lane)
    BY <1>9 DEF CallsOf, Calling
  <2>3. Cardinality(CallsOf(stack[d].lane)) # 0
    BY <2>2, CallsFinite, FS_EmptySet DEF IInv
  <2>4. ~Provides(m, stack[d].lane)
    BY <2>1, <2>3 DEF UnloadBegin, LaneBusy, BusyCounted
  <2> QED
    BY <1>8, <1>9, <2>4 DEF MapInv, CallsProvided
<1>10. HandlesTrue' /\ PendingOwn'
  BY <1>6 DEF MapInv, HandlesTrue, PendingOwn, Held, Published, Provides
<1>11. ProvidersMapped'
  <2>1. \A l \in LaneIds : Published(l) => lanes[l].mod \in Mods
    BY Fields DEF IInv, LaneRec
  <2> QED
    BY <1>6, <1>7, <2>1 DEF MapInv, ProvidersMapped, Published, Mapped
<1>12. UnloadsStaged'
  <2> SUFFICES ASSUME NEW x \in Mods, NEW d \in 1..(n + 1), Unloading(d, x)'
               PROVE  /\ stage'[x] \in {"closing", "leases", "lanes"}
                      /\ \A e \in 1..(n + 1) : Unloading(e, x)' => e = d
    BY <1>5 DEF UnloadsStaged, Unloading
  <2>1. CASE x = m
    BY <1>5, <1>6, <1>8, <2>1 DEF Unloading
  <2>2. CASE x # m
    <3>1. \A e \in 1..(n + 1) : Unloading(e, x)' => e \in DOMAIN stack /\ Unloading(e, x)
      BY <1>3, <1>5, <2>2 DEF Unloading
    <3> QED
      BY <1>6, <2>2, <3>1 DEF MapInv, UnloadsStaged
  <2> QED
    BY <2>1, <2>2
<1>13. CallsBelow'
  <2> SUFFICES ASSUME NEW x \in Mods, NEW d \in 1..(n + 1), NEW e \in 1..(n + 1),
                      Calling(d)', Unloading(e, x)', d < e
               PROVE  stack'[d].code # x
    BY <1>5 DEF CallsBelow, Unloading, Calling
  <2>1. d \in DOMAIN stack /\ stack'[d] = stack[d] /\ Calling(d)
    BY <1>5 DEF Calling
  <2>2. CASE e = n + 1
    BY <1>3, <1>5, <1>9, <2>1, <2>2 DEF Unloading
  <2>3. CASE e # n + 1
    <3>1. e \in DOMAIN stack /\ Unloading(e, x)
      BY <1>5, <2>3 DEF Unloading
    <3> QED
      BY <2>1, <3>1 DEF MapInv, CallsBelow
  <2> QED
    BY <2>2, <2>3
<1>14. CallsProvided'
  <2> SUFFICES ASSUME NEW d \in 1..(n + 1), Calling(d)'
               PROVE  \/ Provides(stack[d].code, stack[d].lane)'
                      \/ \E e \in 1..(n + 1) : e < d /\ Unloading(e, stack[d].code)'
    BY <1>5 DEF CallsProvided, Calling, Provides, Unloading
  <2>1. d \in DOMAIN stack /\ stack'[d] = stack[d] /\ Calling(d)
    BY <1>3, <1>5 DEF Calling
  <2>2. CASE Provides(stack[d].code, stack[d].lane)
    BY <1>6, <2>1, <2>2 DEF Provides
  <2>3. CASE \E e \in DOMAIN stack : e < d /\ Unloading(e, stack[d].code)
    BY <1>5, <2>1, <2>3 DEF Unloading
  <2> QED
    BY <2>1, <2>2, <2>3 DEF MapInv, CallsProvided
<1>15. CalledCodeMapped'
  <2>1. \A d \in DOMAIN stack : Calling(d) => stack[d].code \in Mods
    BY FrameFields DEF IInv
  <2> QED
    BY <1>3, <1>5, <1>7, <2>1 DEF MapInv, CalledCodeMapped, Mapped, Calling
<1> QED
  BY <1>10, <1>11, <1>12, <1>13, <1>14, <1>15 DEF MapInv

\* A frame that ends an unload: nothing of the mod is left, or it stays mapped.
LEMMA UnloadEndsMaps ==
  ASSUME IInv, TypeOK', MapInv, NEW m \in Mods, OnTop([kind |-> "unload", mod |-> m]),
         stack' = Pop, UNCHANGED <<lanes, nextLane, pending>>,
         \A x \in Mods : x # m => stage'[x] = stage[x],
         \A i \in LeaseIds : Held(i)' => Held(i) /\ handles'[i] = handles[i],
         \/ stage'[m] = "loaded"
         \/ stage'[m] = "absent" /\ stage[m] = "lanes" /\ pending[m] = {}
  PROVE  MapInv'
<1>1. SameMods /\ stack # <<>>
  BY DEF SameMods, OnTop
<1>2. PICK n \in Nat : n = Len(stack) /\ n >= 1
  BY <1>1, StackPopped DEF IInv, TypeOK
<1>3. /\ DOMAIN stack = 1..n /\ DOMAIN stack' = 1..(n - 1)
      /\ \A d \in 1..(n - 1) : stack'[d] = stack[d]
  BY <1>1, <1>2, StackPopped DEF IInv, TypeOK
<1>4. Unloading(n, m)
  BY <1>2, <1>3 DEF OnTop, Unloading
<1>5. CallsBelow' /\ CallsProvided'
  BY <1>1, PopKeeps DEF IInv
<1>6. HandlesTrue'
  BY DEF MapInv, HandlesTrue, Published
<1>7. ProvidersMapped'
  <2> SUFFICES ASSUME NEW l \in LaneIds, Published(l) PROVE stage'[lanes[l].mod] # "absent"
    BY DEF ProvidersMapped, Published, Mapped
  <2>1. lanes[l].mod \in Mods /\ stage[lanes[l].mod] # "absent"
    BY Fields DEF IInv, LaneRec, MapInv, ProvidersMapped, Mapped
  <2>2. CASE lanes[l].mod = m /\ stage'[m] = "absent"
    BY <2>2 DEF MapInv, PendingOwn, Provides
  <2> QED
    BY <2>1, <2>2
<1>8. UnloadsStaged'
  <2>1. \A d \in 1..(n - 1) : ~Unloading(d, m)
    BY <1>3, <1>4 DEF MapInv, UnloadsStaged
  <2> QED
    BY <1>3, <2>1 DEF MapInv, UnloadsStaged, Unloading
<1>9. PendingOwn'
  BY DEF MapInv, PendingOwn, Published, Provides
<1>10. CalledCodeMapped'
  <2> SUFFICES ASSUME NEW d \in 1..(n - 1), stack[d].kind = "call"
               PROVE  stage'[stack[d].code] # "absent"
    BY <1>3 DEF CalledCodeMapped, Mapped
  <2>1. d \in DOMAIN stack /\ Calling(d) /\ d < n /\ n \in DOMAIN stack
    BY <1>2, <1>3 DEF Calling
  <2>2. stack[d].code # m /\ stack[d].code \in Mods
    BY <1>4, <2>1, FrameFields DEF IInv, MapInv, CallsBelow
  <2> QED
    BY <2>1, <2>2 DEF MapInv, CalledCodeMapped, Mapped
<1> QED
  BY <1>5, <1>6, <1>7, <1>8, <1>9, <1>10 DEF MapInv

\* A mod whose stage changes with no frame pushed or popped: the loops of
\* laneOnRustModGone begin, or the mod is loaded again.
LEMMA StageMaps ==
  ASSUME IInv, TypeOK', MapInv, NEW m \in Mods,
         UNCHANGED <<lanes, nextLane, handles, stack>>,
         \A x \in Mods : x # m => stage'[x] = stage[x] /\ pending'[x] = pending[x],
         \/ stage[m] = "closing" /\ stage'[m] = "leases"
         \/ stage[m] = "absent" /\ stage'[m] = "loaded"
         \/ /\ stage[m] = "leases" /\ stage'[m] = "lanes"
            /\ pending'[m] = {l \in LaneIds : Provides(m, l)}
  PROVE  MapInv'
<1>1. \A x \in Mods : Mapped(x) => Mapped(x)'
  BY DEF Mapped
<1>2. HandlesTrue'
  BY DEF MapInv, HandlesTrue, Held, Published
<1>3. ProvidersMapped'
  <2>1. \A l \in LaneIds : Published(l) => lanes[l].mod \in Mods
    BY Fields DEF IInv, LaneRec
  <2> QED
    BY <1>1, <2>1 DEF MapInv, ProvidersMapped, Published, Mapped
<1>4. UnloadsStaged'
  BY DEF MapInv, UnloadsStaged, Unloading
<1>5. PendingOwn'
  <2>1. \A l \in LaneIds : Published(l) => l < nextLane
    BY Fields DEF IInv, Fresh, LaneIds
  <2>2. \A l \in LaneIds : Provides(m, l) => Published(l)
    BY NoneDiffers DEF Provides, Published
  <2> QED
    BY <2>1, <2>2 DEF MapInv, PendingOwn, Published, Provides
<1>6. CallsBelow' /\ CallsProvided'
  BY DEF MapInv, CallsBelow, CallsProvided, Calling, Unloading, Provides
<1>7. CalledCodeMapped'
  <2>1. \A d \in DOMAIN stack : Calling(d) => stack[d].code \in Mods
    BY FrameFields DEF IInv
  <2> QED
    BY <1>1, <2>1 DEF MapInv, CalledCodeMapped, Mapped, Calling
<1> QED
  BY <1>2, <1>3, <1>4, <1>5, <1>6, <1>7 DEF MapInv

LEMMA StepMaps ==
  ASSUME UnpublishInCall = FALSE
  PROVE  IInv /\ BusyCounted /\ MapInv /\ [Next]_vars => MapInv'
<1> SUFFICES ASSUME IInv, BusyCounted, MapInv, [Next]_vars PROVE MapInv'
  OBVIOUS
<1>1. TypeOK /\ TypeOK'
  BY StepType DEF IInv
<1>2. ASSUME NEW m \in Mods, NEW n \in Names, NEW f \in Fingerprints,
             Publish(m, n, f) \/ AcquireInsert(m, n, f)
      PROVE  MapInv'
  BY <1>1, <1>2, PublishMaps, AcquireInsertMaps
<1>3. ASSUME NEW m \in Mods, NEW l \in LaneIds, Unpublish(m, l) PROVE MapInv'
  <2>1. \A d \in DOMAIN stack : Calling(d) => stack[d].lane # l
    BY <1>3 DEF Unpublish, CallsOf, Calling
  <2> QED
    BY <1>1, <1>3, <2>1, RetireMaps DEF Unpublish
<1>4. ASSUME NEW m \in Mods, NEW l \in LaneIds, RetireOwn(m, l) PROVE MapInv'
  <2>1. /\ stage[m] = "lanes" /\ l \in pending[m]
        /\ pending'[m] = pending[m] \ {l}
        /\ \A x \in Mods : x # m => pending'[x] = pending[x]
        /\ UNCHANGED <<stage, nextLane, handles, stack>>
    BY <1>4 DEF RetireOwn, IInv, TypeOK
  <2>2. CASE Published(l)
    <3>1. Provides(m, l)
      BY <2>1, <2>2 DEF MapInv, PendingOwn
    <3>2. ASSUME NEW d \in DOMAIN stack, Calling(d),
                 Provides(stack[d].code, stack[d].lane), stack[d].lane = l
          PROVE  FALSE
      <4>1. PICK n \in Nat : n = Len(stack) /\ n \in DOMAIN stack /\ DOMAIN stack = 1..n
        BY <1>4, EmptySeq, LenProperties DEF RetireOwn, OnTop, IInv, TypeOK
      <4>2. Unloading(n, m)
        BY <1>4, <4>1 DEF RetireOwn, OnTop, Unloading
      <4>3. d < n
        BY <3>2, <4>1, <4>2, FrameFields DEF IInv
      <4>4. stack[d].code = m
        BY <3>1, <3>2 DEF Provides
      <4> QED
        BY <3>2, <4>1, <4>2, <4>3, <4>4 DEF MapInv, CallsBelow
    <3> QED
      BY <1>1, <1>4, <2>1, <2>2, <3>2, RetireMaps DEF RetireOwn
  <2>3. CASE ~Published(l)
    <3>1. lanes' = lanes
      BY <1>4, <2>3 DEF RetireOwn
    <3>2. HandlesTrue' /\ ProvidersMapped' /\ UnloadsStaged'
      BY <2>1, <3>1
      DEF MapInv, HandlesTrue, ProvidersMapped, UnloadsStaged, Held, Published, Mapped,
          Unloading
    <3>3. PendingOwn'
      <4>1. ~Provides(m, l)
        BY <2>3, NoneDiffers DEF Provides, Published
      <4> QED
        BY <2>1, <3>1, <4>1 DEF MapInv, PendingOwn, Published, Provides
    <3>4. CallsBelow' /\ CallsProvided' /\ CalledCodeMapped'
      BY <2>1, <3>1
      DEF MapInv, CallsBelow, CallsProvided, CalledCodeMapped, Calling, Unloading,
          Provides, Mapped
    <3> QED
      BY <3>2, <3>3, <3>4 DEF MapInv
  <2> QED
    BY <2>2, <2>3
<1>5. ASSUME NEW i \in LeaseIds, AcquireRetain(i) PROVE MapInv'
  BY <1>1, <1>5, QuietMaps DEF AcquireRetain, SameMods, Held
<1>6. ASSUME NEW i \in LeaseIds, Drop(i) PROVE MapInv'
  <2>1. SameMods
    BY <1>1, <1>6, GiveBackSameMods DEF Drop
  <2>2. \A j \in LeaseIds : Held(j)' => Held(j) /\ handles'[j] = handles[j]
    BY <1>6 DEF Drop, Held, NoHandle, IInv, TypeOK
  <2> QED
    BY <1>1, <1>6, <2>1, <2>2, QuietMaps DEF Drop
<1>7. ASSUME NEW m \in Mods, NEW i \in LeaseIds, ReturnLease(m, i) PROVE MapInv'
  <2>1. SameMods
    BY <1>1, <1>7, GiveBackSameMods DEF ReturnLease
  <2>2. \A x \in Mods : stage[x] = "lanes" => pending'[x] = pending[x]
    BY <1>7 DEF ReturnLease, IInv, TypeOK
  <2> QED
    BY <1>1, <1>7, <2>1, <2>2, QuietMaps DEF ReturnLease, Held
<1>8. ASSUME NEW i \in LeaseIds, Call(i) PROVE MapInv'
  BY <1>1, <1>8, CallMaps
<1>9. CASE Return
  BY <1>1, <1>9, ReturnMaps
<1>10. ASSUME NEW m \in Mods, UnloadBegin(m) PROVE MapInv'
  BY <1>1, <1>10, UnloadBeginMaps
<1>11. ASSUME NEW m \in Mods, OnUnload(m) PROVE MapInv'
  <2>1. CASE stage' = [stage EXCEPT ![m] = "loaded"] /\ stack' = Pop /\ UNCHANGED pending
    <3>1. /\ stage'[m] = "loaded"
          /\ \A x \in Mods : x # m => stage'[x] = stage[x]
          /\ UNCHANGED <<lanes, nextLane, pending>> /\ stack' = Pop
      BY <1>11, <2>1 DEF OnUnload, IInv, TypeOK
    <3>2. \A i \in LeaseIds : Held(i)' => Held(i) /\ handles'[i] = handles[i]
      BY <1>11 DEF OnUnload, Held
    <3>3. OnTop([kind |-> "unload", mod |-> m])
      BY <1>11 DEF OnUnload
    <3> QED
      BY <1>1, <3>1, <3>2, <3>3, UnloadEndsMaps
  <2>2. CASE /\ stage' = [stage EXCEPT ![m] = "leases"] /\ UNCHANGED stack
             /\ pending' = [pending EXCEPT ![m] = LeasesOf(m)]
    <3>1. /\ stage[m] = "closing" /\ stage'[m] = "leases"
          /\ \A x \in Mods : x # m => stage'[x] = stage[x] /\ pending'[x] = pending[x]
          /\ UNCHANGED <<lanes, nextLane, handles, stack>>
      BY <1>11, <2>2 DEF OnUnload, IInv, TypeOK
    <3> QED
      BY <1>1, <3>1, StageMaps
  <2> QED
    BY <1>11, <2>1, <2>2 DEF OnUnload
<1>12. ASSUME NEW m \in Mods, ListPublished(m) PROVE MapInv'
  <2>1. /\ stage[m] = "leases" /\ stage'[m] = "lanes"
        /\ pending'[m] = {l \in LaneIds : Provides(m, l)}
        /\ \A x \in Mods : x # m => stage'[x] = stage[x] /\ pending'[x] = pending[x]
        /\ UNCHANGED <<lanes, nextLane, handles, stack>>
    BY <1>12 DEF ListPublished, IInv, TypeOK
  <2> QED
    BY <1>1, <2>1, StageMaps
<1>13. ASSUME NEW m \in Mods, FreeLib(m) PROVE MapInv'
  <2>1. /\ stage[m] = "lanes" /\ pending[m] = {} /\ stage'[m] \in {"loaded", "absent"}
        /\ \A x \in Mods : x # m => stage'[x] = stage[x]
        /\ UNCHANGED <<lanes, nextLane, pending>> /\ stack' = Pop
        /\ OnTop([kind |-> "unload", mod |-> m])
    BY <1>13 DEF FreeLib, IInv, TypeOK
  <2>2. \A i \in LeaseIds : Held(i)' => Held(i) /\ handles'[i] = handles[i]
    BY <1>13 DEF FreeLib, Held, NoHandle
  <2> QED
    BY <1>1, <2>1, <2>2, UnloadEndsMaps
<1>14. ASSUME NEW m \in Mods, Load(m) PROVE MapInv'
  <2>1. /\ stage[m] = "absent" /\ stage'[m] = "loaded"
        /\ \A x \in Mods : x # m => stage'[x] = stage[x] /\ pending'[x] = pending[x]
        /\ UNCHANGED <<lanes, nextLane, handles, stack>>
    BY <1>14 DEF Load, IInv, TypeOK
  <2> QED
    BY <1>1, <2>1, StageMaps
<1>15. CASE UNCHANGED vars
  BY <1>1, <1>15, QuietMaps DEF vars, SameMods, Held
<1> QED
  BY <1>2, <1>3, <1>4, <1>5, <1>6, <1>7, <1>8, <1>9, <1>10, <1>11, <1>12, <1>13, <1>14, <1>15
  DEF Next

LEMMA BeginsMapped == Init => MapInv
<1> SUFFICES ASSUME Init PROVE MapInv
  OBVIOUS
<1>1. stack = <<>> /\ DOMAIN stack = {}
  BY DEF Init
<1>2. \A m \in Mods : stage[m] = "loaded"
  BY DEF Init
<1>3. \A i \in LeaseIds : ~Held(i)
  BY DEF Init, Held, NoHandle
<1>4. \A l \in LaneIds : ~Published(l)
  BY DEF Init, Published, NoLane
<1> QED
  BY <1>1, <1>2, <1>3, <1>4
  DEF MapInv, HandlesTrue, ProvidersMapped, UnloadsStaged, PendingOwn, CallsBelow,
      CallsProvided, CalledCodeMapped

\* A provider that does not retire a lane from inside a call of that lane is
\* never unmapped under a parked call, however deep the calls nest, whatever
\* the unloads in progress do, and with lane_acquire on another thread.  (Without
\* that condition the busy test of unload does not see the call any more.)
THEOREM CalledCodeStaysMapped ==
  ASSUME UnpublishInCall = FALSE
  PROVE  Spec => []CalledCodeMapped
<1>1. IInv /\ BusyCounted /\ MapInv /\ [Next]_vars => MapInv'
  BY StepMaps
<1>2. MapInv => CalledCodeMapped
  BY DEF MapInv
<1> QED
  BY <1>1, <1>2, BeginsMapped, Inductive, AlwaysCounted, PTL DEF Spec

=============================================================================
