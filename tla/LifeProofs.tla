----------------------------- MODULE LifeProofs -----------------------------
(***************************************************************************)
(* Theorems about the life of a mod (ModLifecycle), for every value of the *)
(* constants: whatever is nested in whatever.  What its operations keep is *)
(* said of each frame of the stack and of each mod, so that a step has to  *)
(* answer only for the mod it is about.                                    *)
(***************************************************************************)
EXTENDS MCMods, FiniteSetTheorems, SequenceTheorems, TLAPS

Callback == {"enable", "disable", "unload"}
Torn == {"gone", "release"}
Running == Callback \cup Torn \cup {"main"}
Places == Running \cup {"toEnable", "toDisable", "toUnload", "hung"}
LifeFrames == [op : Life!Ops, m : Mods, at : Places, k : Nat]

LifeTypes ==
  /\ object \in [Mods -> Nat] /\ made \in [Mods -> Nat] /\ runtime \in [Mods -> Nat]
  /\ images \in [Mods -> Nat]
  /\ regs \in [Mods -> SUBSET (Used \X Nat)] /\ late \in [Mods -> SUBSET (Used \X Nat)]
  /\ ops \in Seq(LifeFrames)

\* Below the top every frame runs code of its mod; a mod runs in one frame at most.
NestedInCode ==
  /\ \A d \in DOMAIN ops : d < Len(ops) => ops[d].at \in Running /\ ops[d].at # "gone"
  /\ \A d, e \in DOMAIN ops :
       ops[d].m = ops[e].m /\ ops[d].at \in Running /\ ops[e].at \in Running => d = e

\* What stands behind a frame: the mutex and the instance of a callback; in a teardown
\* no instance, and but for late ones no entry outside the tables that are left.
FrameOk(f) ==
  /\ f.at = "main" => /\ object[f.m] = 0 /\ made[f.m] # 0 /\ runtime[f.m] = made[f.m]
                      /\ images[f.m] > 0
  /\ f.at \in Callback => f.m \in held /\ f.m \in slot
  /\ f.at \in Torn => f.m \notin slot /\ object[f.m] # 0
  /\ f.at \in Torn \cup {"toEnable", "enable", "toUnload", "unload"} => f.m \notin enabled
  /\ f.at \notin Torn => f.k = 0
  /\ f.at = "release" => f.k = 5
  /\ f.at \in Torn =>
       \A e \in regs[f.m] \ late[f.m] :
         e[2] = object[f.m] => \E i \in Life!Left(f.k) : e[1] = Life!GoneOrder[i]

TornDown(m) == \E d \in DOMAIN ops : ops[d].m = m /\ ops[d].at \in Torn
Loading(m) == \E d \in DOMAIN ops : ops[d].m = m /\ ops[d].at = "main"

\* A mod in the table has one object, one handle and a mapped image; one without an
\* instance is being torn down or inert; and its entries are its own.
ModOk(m) ==
  /\ m \in slot => object[m] # 0
  /\ object[m] # 0 => /\ object[m] = made[m] /\ runtime[m] = object[m]
                      /\ images[m] > 0
  /\ object[m] # 0 /\ m \notin slot /\ ~TornDown(m) =>
       m \notin enabled /\ \A e \in regs[m] \ late[m] : e[2] # object[m]
  /\ DirtyFail = FALSE => \A e \in regs[m] \ late[m] :
       /\ object[m] # 0 => e[2] = object[m]
       /\ object[m] = 0 => Loading(m) /\ e[2] = made[m]

LifeInv == /\ LifeTypes /\ NestedInCode
           /\ \A d \in DOMAIN ops : FrameOk(ops[d])
           /\ \A m \in Mods : ModOk(m)


-----------------------------------------------------------------------------
(* Steps on the top of the stack.                                          *)

SameFor(o) ==
  /\ object'[o] = object[o] /\ made'[o] = made[o] /\ runtime'[o] = runtime[o]
  /\ images'[o] = images[o] /\ regs'[o] = regs[o] /\ late'[o] = late[o]
  /\ o \in slot' <=> o \in slot
  /\ o \in held' <=> o \in held
  /\ o \in enabled' <=> o \in enabled

LEMMA FrameKept ==
  ASSUME NEW f, SameFor(f.m), FrameOk(f)
  PROVE  FrameOk(f)'
BY DEF SameFor, FrameOk

LEMMA ModKept ==
  ASSUME NEW o, SameFor(o), ModOk(o), TornDown(o) => TornDown(o)', Loading(o) => Loading(o)'
  PROVE  ModOk(o)'
BY DEF SameFor, ModOk

LEMMA Moved ==
  ASSUME NEW g \in LifeFrames, NEW p \in Places
  PROVE  /\ [g EXCEPT !.at = p] \in LifeFrames /\ [g EXCEPT !.at = p].at = p
         /\ [g EXCEPT !.at = p].m = g.m /\ [g EXCEPT !.at = p].k = g.k
BY DEF LifeFrames

LEMMA TopFrame ==
  ASSUME LifeTypes
  PROVE  \E n \in Nat : /\ n = Len(ops) /\ DOMAIN ops = 1..n
                        /\ ops = <<>> <=> n = 0
                        /\ \A d \in 1..n : ops[d] \in LifeFrames
<1>1. PICK n \in Nat : n = Len(ops) /\ DOMAIN ops = 1..n
  BY LenProperties DEF LifeTypes
<1>2. \A d \in 1..n : ops[d] \in LifeFrames
  BY <1>1, ElementOfSeq DEF LifeTypes
<1>3. ops = <<>> <=> n = 0
  BY <1>1, EmptySeq DEF LifeTypes
<1> QED
  BY <1>1, <1>2, <1>3

LEMMA NobodyBelow ==
  ASSUME LifeInv, NEW n \in Nat, n = Len(ops), DOMAIN ops = 1..n, n # 0, ops[n].at \in Running
  PROVE  \A d \in 1..(n - 1) : ops[d].m # ops[n].m
BY DEF LifeInv, NestedInCode

LEMMA Replaced ==
  ASSUME LifeInv, LifeTypes', NEW n \in Nat, n = Len(ops), DOMAIN ops = 1..n, n # 0,
         NEW f \in LifeFrames, f.m = ops[n].m, ops' = [ops EXCEPT ![n] = f],
         \A o \in Mods \ {f.m} : SameFor(o),
         FrameOk(f)', ModOk(f.m)',
         f.at \in Running => \A d \in 1..(n - 1) : ops[d].m # f.m,
         SameFor(f.m) \/ \A d \in 1..(n - 1) : ops[d].m # f.m
  PROVE  LifeInv'
<1>1. /\ DOMAIN ops' = 1..n /\ ops'[n] = f
      /\ \A d \in 1..(n - 1) : ops'[d] = ops[d] /\ d \in 1..n
      /\ \A d \in 1..n : d = n \/ d \in 1..(n - 1)
  OBVIOUS
<1>2. Len(ops') = n
  BY <1>1, LenProperties DEF LifeTypes
<1>3. NestedInCode'
  <2>1. \A d \in 1..(n - 1) : ops[d].at \in Running /\ ops[d].at # "gone"
    BY DEF LifeInv, NestedInCode
  <2>2. \A d, e \in 1..(n - 1) :
          ops[d].m = ops[e].m /\ ops[d].at \in Running /\ ops[e].at \in Running => d = e
    BY <1>1 DEF LifeInv, NestedInCode
  <2>3. \A d \in 1..n : d < n => d \in 1..(n - 1)
    OBVIOUS
  <2> QED
    BY <1>1, <1>2, <2>1, <2>2, <2>3 DEF NestedInCode
<1>4. \A d \in 1..(n - 1) : FrameOk(ops[d])'
  <2> SUFFICES ASSUME NEW d \in 1..(n - 1) PROVE FrameOk(ops[d])'
    OBVIOUS
  <2>1. PICK g \in LifeFrames : g = ops[d]
    BY <1>1, ElementOfSeq DEF LifeInv, LifeTypes
  <2>2. FrameOk(g)
    BY <1>1, <2>1 DEF LifeInv
  <2>3. SameFor(g.m)
    BY <2>1 DEF LifeFrames
  <2>4. FrameOk(g)'
    BY <2>2, <2>3, FrameKept
  <2>5. ops'[d] = g
    BY <1>1, <2>1
  <2> QED
    BY <2>4, <2>5 DEF FrameOk
<1>5. \A d \in DOMAIN ops' : FrameOk(ops[d])'
  <2>1. FrameOk(ops[n])'
    BY <1>1 DEF FrameOk
  <2> QED
    BY <1>1, <1>4, <2>1
<1>6. \A o \in Mods : ModOk(o)'
  <2> SUFFICES ASSUME NEW o \in Mods, o # f.m PROVE ModOk(o)'
    OBVIOUS
  <2>1. TornDown(o) => TornDown(o)'
    BY <1>1 DEF TornDown
  <2>2. Loading(o) => Loading(o)'
    BY <1>1 DEF Loading
  <2> QED
    BY <2>1, <2>2, ModKept DEF LifeInv
<1> QED
  BY <1>3, <1>5, <1>6 DEF LifeInv

LEMMA PoppedTop ==
  ASSUME LifeInv, LifeTypes', NEW n \in Nat, n = Len(ops), DOMAIN ops = 1..n, n # 0,
         NEW m \in Mods, m = ops[n].m, ops' = SubSeq(ops, 1, n - 1),
         \A o \in Mods \ {m} : SameFor(o), ModOk(m)',
         SameFor(m) \/ \A d \in 1..(n - 1) : ops[d].m # m
  PROVE  LifeInv'
<1>1. /\ DOMAIN ops' = 1..(n - 1) /\ Len(ops') = n - 1
      /\ \A d \in 1..(n - 1) : ops'[d] = ops[d] /\ d \in 1..n
      /\ \A d \in 1..n : d = n \/ d \in 1..(n - 1)
  BY SubSeqProperties DEF LifeInv, LifeTypes
<1>2. NestedInCode'
  <2>1. \A d \in 1..(n - 1) : ops[d].at \in Running /\ ops[d].at # "gone"
    BY DEF LifeInv, NestedInCode
  <2>2. \A d, e \in 1..(n - 1) :
          ops[d].m = ops[e].m /\ ops[d].at \in Running /\ ops[e].at \in Running => d = e
    BY <1>1 DEF LifeInv, NestedInCode
  <2> QED
    BY <1>1, <2>1, <2>2, SMTT(20) DEF NestedInCode
<1>3. \A d \in DOMAIN ops' : FrameOk(ops[d])'
  <2> SUFFICES ASSUME NEW d \in 1..(n - 1) PROVE FrameOk(ops[d])'
    BY <1>1
  <2>1. PICK g \in LifeFrames : g = ops[d]
    BY <1>1, ElementOfSeq DEF LifeInv, LifeTypes
  <2>2. FrameOk(g)
    BY <1>1, <2>1 DEF LifeInv
  <2>3. SameFor(g.m)
    BY <2>1 DEF LifeFrames
  <2>4. FrameOk(g)'
    BY <2>2, <2>3, FrameKept
  <2>5. ops'[d] = g
    BY <1>1, <2>1
  <2> QED
    BY <2>4, <2>5 DEF FrameOk
<1>4. \A o \in Mods : ModOk(o)'
  <2> SUFFICES ASSUME NEW o \in Mods, o # m PROVE ModOk(o)'
    OBVIOUS
  <2>1. TornDown(o) => TornDown(o)'
    BY <1>1 DEF TornDown
  <2>2. Loading(o) => Loading(o)'
    BY <1>1 DEF Loading
  <2> QED
    BY <2>1, <2>2, ModKept DEF LifeInv
<1> QED
  BY <1>2, <1>3, <1>4 DEF LifeInv

LEMMA PushedTop ==
  ASSUME LifeInv, LifeTypes', NEW n \in Nat, n = Len(ops), DOMAIN ops = 1..n,
         n # 0 => ops[n].at \in Running /\ ops[n].at # "gone",
         NEW f \in LifeFrames, ops' = Append(ops, f),
         \A o \in Mods \ {f.m} : SameFor(o),
         FrameOk(f)', ModOk(f.m)',
         f.at \in Running => \A d \in 1..n : ops[d].m # f.m,
         SameFor(f.m) \/ \A d \in 1..n : ops[d].m # f.m
  PROVE  LifeInv'
<1>1. /\ DOMAIN ops' = 1..(n + 1) /\ Len(ops') = n + 1 /\ ops'[n + 1] = f
      /\ \A d \in 1..n : ops'[d] = ops[d]
      /\ \A d \in 1..(n + 1) : d = n + 1 \/ d \in 1..n
  BY AppendProperties, LenProperties DEF LifeInv, LifeTypes
<1>2. NestedInCode'
  <2>1. \A d \in 1..n : ops[d].at \in Running /\ ops[d].at # "gone"
    BY DEF LifeInv, NestedInCode
  <2>2. \A d, e \in 1..n :
          ops[d].m = ops[e].m /\ ops[d].at \in Running /\ ops[e].at \in Running => d = e
    BY DEF LifeInv, NestedInCode
  <2>3. \A d \in 1..(n + 1) : d < n + 1 => d \in 1..n
    OBVIOUS
  <2> QED
    BY <1>1, <2>1, <2>2, <2>3 DEF NestedInCode
<1>3. \A d \in 1..n : FrameOk(ops[d])'
  <2> SUFFICES ASSUME NEW d \in 1..n PROVE FrameOk(ops[d])'
    OBVIOUS
  <2>1. PICK g \in LifeFrames : g = ops[d]
    BY <1>1, ElementOfSeq DEF LifeInv, LifeTypes
  <2>2. FrameOk(g)
    BY <2>1 DEF LifeInv
  <2>3. SameFor(g.m)
    BY <2>1 DEF LifeFrames
  <2>4. FrameOk(g)'
    BY <2>2, <2>3, FrameKept
  <2>5. ops'[d] = g
    BY <1>1, <2>1
  <2> QED
    BY <2>4, <2>5 DEF FrameOk
<1>4. \A d \in DOMAIN ops' : FrameOk(ops[d])'
  <2>1. FrameOk(ops[n + 1])'
    BY <1>1 DEF FrameOk
  <2> QED
    BY <1>1, <1>3, <2>1
<1>5. \A o \in Mods : ModOk(o)'
  <2> SUFFICES ASSUME NEW o \in Mods, o # f.m PROVE ModOk(o)'
    OBVIOUS
  <2>1. \A d \in 1..n : d \in 1..(n + 1)
    OBVIOUS
  <2>2. TornDown(o) => TornDown(o)'
    BY <1>1, <2>1 DEF TornDown
  <2>3. Loading(o) => Loading(o)'
    BY <1>1, <2>1 DEF Loading
  <2> QED
    BY <2>2, <2>3, ModKept DEF LifeInv
<1> QED
  BY <1>2, <1>4, <1>5 DEF LifeInv


-----------------------------------------------------------------------------
(* Loading.                                                                *)

LEMMA LifeMayCall ==
  ASSUME LifeInv, Life!MayCall, NEW n \in Nat, n = Len(ops), ops = <<>> <=> n = 0
  PROVE  n # 0 => ops[n].at \in Running /\ ops[n].at # "gone"
BY DEF Life!MayCall, Life!Top, Life!InCode, Running, Callback, Torn

LEMMA LifeLoadStep ==
  ASSUME LifeInv, NEW op \in Life!Ops, NEW m \in Mods, Life!Load(op, m)
  PROVE  LifeInv'
<1>1. PICK n \in Nat : /\ n = Len(ops) /\ DOMAIN ops = 1..n /\ (ops = <<>> <=> n = 0)
                       /\ \A d \in 1..n : ops[d] \in LifeFrames
  BY TopFrame DEF LifeInv
<1>2. n # 0 => ops[n].at \in Running /\ ops[n].at # "gone"
  BY <1>1, LifeMayCall DEF Life!Load, Life!MayStart
<1>3. PICK f \in LifeFrames : f = [op |-> op, m |-> m, at |-> "main", k |-> 0]
  BY DEF LifeFrames, Places, Running
<1>4. /\ object[m] = 0 /\ runtime[m] = 0 /\ ops' = Append(ops, f)
      /\ made' = [made EXCEPT ![m] = @ + 1]
      /\ images' = [images EXCEPT ![m] = @ + 1]
      /\ runtime' = [runtime EXCEPT ![m] = IF @ = 0 THEN made'[m] ELSE @]
      /\ UNCHANGED <<object, slot, held, enabled, regs, late>>
  BY <1>3 DEF Life!Load, Life!CanInit, Life!Push, Life!tables
<1>5. LifeTypes'
  <2>1. ops' \in Seq(LifeFrames)
    BY <1>4, AppendProperties DEF LifeInv, LifeTypes
  <2>2. made' \in [Mods -> Nat] /\ images' \in [Mods -> Nat]
    BY <1>4 DEF LifeInv, LifeTypes
  <2>3. runtime' \in [Mods -> Nat]
    BY <1>4, <2>2 DEF LifeInv, LifeTypes
  <2> QED
    BY <1>4, <2>1, <2>2, <2>3 DEF LifeInv, LifeTypes
<1>6. \A o \in Mods \ {m} : SameFor(o)
  BY <1>4 DEF SameFor, LifeInv, LifeTypes
<1>7. made'[m] # 0 /\ runtime'[m] = made'[m] /\ images'[m] > 0
  BY <1>4 DEF LifeInv, LifeTypes
<1>8. \A d \in 1..n : ops[d].m # m
  <2>1. \A d \in 1..n : ops[d].at \in Running
    BY <1>1, <1>2 DEF LifeInv, NestedInCode
  <2>2. \A d \in 1..n : FrameOk(ops[d]) /\ ModOk(m)
    BY <1>1 DEF LifeInv
  <2> QED
    BY <1>4, <2>1, <2>2 DEF FrameOk, ModOk, Running
<1>9. FrameOk(f)'
  BY <1>3, <1>4, <1>7 DEF FrameOk, Torn, Callback
<1>10. ModOk(m)'
  <2>1. m \notin slot /\ (DirtyFail = FALSE => regs[m] \ late[m] = {})
    <3>1. ModOk(m) /\ ~Loading(m)
      BY <1>1, <1>8 DEF LifeInv, Loading
    <3> QED
      BY <1>4, <3>1 DEF ModOk
  <2> QED
    BY <1>4, <2>1 DEF ModOk
<1> QED
  BY <1>1, <1>2, <1>3, <1>4, <1>5, <1>6, <1>8, <1>9, <1>10, PushedTop

LEMMA MainOkStep ==
  ASSUME LifeInv, Life!MainOk
  PROVE  LifeInv'
<1>1. PICK n \in Nat : /\ n = Len(ops) /\ DOMAIN ops = 1..n /\ (ops = <<>> <=> n = 0)
                       /\ \A d \in 1..n : ops[d] \in LifeFrames
  BY TopFrame DEF LifeInv
<1>2. n # 0 /\ ops[n].at = "main"
  BY <1>1 DEF Life!MainOk, Life!At, Life!Top
<1>3. PICK m \in Mods : m = ops[n].m
  BY <1>1, <1>2 DEF LifeFrames
<1>4. PICK f \in LifeFrames : f = [ops[n] EXCEPT !.at = "toEnable"] /\ f.m = m
                              /\ f.at = "toEnable" /\ f.k = ops[n].k
  <2>1. ops[n] \in LifeFrames /\ "toEnable" \in Places
    BY <1>1, <1>2 DEF Places
  <2> QED
    BY <1>3, <2>1, Moved
<1>5. f.m = m /\ f.at = "toEnable" /\ f.k = ops[n].k
  BY <1>4
<1>6. /\ object' = [object EXCEPT ![m] = made[m]]
      /\ slot' = slot \cup {m} /\ enabled' = enabled \ {m}
      /\ UNCHANGED <<made, images, runtime, held, regs, late>>
      /\ ops' = SubSeq(ops, 1, n - 1) \/ ops' = [ops EXCEPT ![n] = f]
  BY <1>1, <1>2, <1>3, <1>4 DEF Life!MainOk, Life!Pop, Life!Goto, Life!Top, Life!tables
<1>7. \A d \in 1..(n - 1) : ops[d].m # m
  BY <1>1, <1>2, <1>3, NobodyBelow DEF Running
<1>8. FrameOk(ops[n]) /\ ModOk(m)
  BY <1>1, <1>2 DEF LifeInv
<1>9. \A o \in Mods \ {m} : SameFor(o)
  BY <1>6 DEF SameFor, LifeInv, LifeTypes
<1>10. FrameOk(f)'
  BY <1>2, <1>5, <1>6, <1>8 DEF FrameOk, Torn, Callback
<1>11. ModOk(m)'
  <2>1. object'[m] = made[m] /\ made[m] # 0 /\ runtime[m] = made[m] /\ images[m] > 0
        /\ object[m] = 0
    BY <1>2, <1>3, <1>6, <1>8 DEF FrameOk, LifeInv, LifeTypes
  <2> QED
    BY <1>6, <1>8, <2>1 DEF ModOk
<1>12. CASE ops' = SubSeq(ops, 1, n - 1)
  <2>1. LifeTypes'
    <3>1. ops' \in Seq(LifeFrames)
      BY <1>1, <1>2, <1>12, SubSeqProperties DEF LifeInv, LifeTypes
    <3> QED
      BY <1>6, <3>1 DEF LifeInv, LifeTypes
  <2> QED
    BY <1>1, <1>2, <1>3, <1>7, <1>9, <1>11, <1>12, <2>1, PoppedTop
<1>13. CASE ops' = [ops EXCEPT ![n] = f]
  <2>1. LifeTypes'
    <3>1. ops' \in Seq(LifeFrames)
      BY <1>1, <1>2, <1>13, ExceptSeq DEF LifeInv, LifeTypes
    <3> QED
      BY <1>6, <3>1 DEF LifeInv, LifeTypes
  <2> QED
    BY <1>1, <1>2, <1>3, <1>5, <1>7, <1>9, <1>10, <1>11, <1>13, <2>1, Replaced
<1> QED
  BY <1>6, <1>12, <1>13

LEMMA MainFailsStep ==
  ASSUME LifeInv, Life!MainFails
  PROVE  LifeInv'
<1>1. PICK n \in Nat : /\ n = Len(ops) /\ DOMAIN ops = 1..n /\ (ops = <<>> <=> n = 0)
                       /\ \A d \in 1..n : ops[d] \in LifeFrames
  BY TopFrame DEF LifeInv
<1>2. n # 0 /\ ops[n].at = "main"
  BY <1>1 DEF Life!MainFails, Life!At, Life!Top
<1>3. PICK m \in Mods : m = ops[n].m
  BY <1>1, <1>2 DEF LifeFrames
<1>4. /\ images' = [images EXCEPT ![m] = @ - 1]
      /\ runtime' = [runtime EXCEPT ![m] = IF images[m] = 1 /\ m \notin pinned THEN 0 ELSE @]
      /\ slot' = slot \/ slot' = slot \ {m}
      /\ UNCHANGED <<object, made, held, enabled, regs, late>>
      /\ ops' = SubSeq(ops, 1, n - 1)
  BY <1>1, <1>3 DEF Life!MainFails, Life!Free, Life!Pop, Life!Top, Life!tables
<1>5. DirtyFail = FALSE => \A e \in regs[m] : e[2] # made[m]
  <2>1. (\E e \in regs[m] : e[2] = made[m]) => DirtyFail
    BY <1>1, <1>3 DEF Life!MainFails, Life!Top
  <2> QED
    BY <2>1
<1>6. \A d \in 1..(n - 1) : ops[d].m # m
  BY <1>1, <1>2, <1>3, NobodyBelow DEF Running
<1>7. FrameOk(ops[n]) /\ ModOk(m)
  BY <1>1, <1>2 DEF LifeInv
<1>8. object[m] = 0 /\ m \notin slot /\ images[m] > 0
  BY <1>2, <1>3, <1>7 DEF FrameOk, ModOk
<1>9. \A o \in Mods \ {m} : SameFor(o)
  BY <1>4 DEF SameFor, LifeInv, LifeTypes
<1>10. ModOk(m)'
  BY <1>4, <1>5, <1>7, <1>8 DEF ModOk
<1>11. LifeTypes'
  <2>1. ops' \in Seq(LifeFrames)
    BY <1>1, <1>2, <1>4, SubSeqProperties DEF LifeInv, LifeTypes
  <2>2. images' \in [Mods -> Nat] /\ runtime' \in [Mods -> Nat]
    BY <1>4, <1>8 DEF LifeInv, LifeTypes
  <2> QED
    BY <1>4, <2>1, <2>2 DEF LifeInv, LifeTypes
<1> QED
  BY <1>1, <1>2, <1>3, <1>4, <1>6, <1>9, <1>10, <1>11, PoppedTop

-----------------------------------------------------------------------------
(* What changes nothing but the stack.                                     *)

\* An operation begins, goes to where nothing runs, or is given up.
LEMMA QuietStep ==
  ASSUME LifeInv, UNCHANGED <<object, made, images, runtime, slot, held, enabled, regs, late>>,
         NEW n \in Nat, n = Len(ops), DOMAIN ops = 1..n,
         \A d \in 1..n : ops[d] \in LifeFrames,
         NEW f \in LifeFrames,
         f.at \in {"toEnable", "toDisable", "toUnload", "hung"}, f.k = 0,
         f.at \in {"toEnable", "toUnload"} => f.m \notin enabled,
         \/ /\ ops' = Append(ops, f)
            /\ n # 0 => ops[n].at \in Running /\ ops[n].at # "gone"
         \/ /\ n # 0 /\ ops[n].at \notin Torn \cup {"main"} /\ ops[n].m = f.m
            /\ ops' = SubSeq(ops, 1, n - 1) \/ ops' = [ops EXCEPT ![n] = f]
  PROVE  LifeInv'
<1>1. \A o \in Mods : SameFor(o)
  BY DEF SameFor
<1>2. FrameOk(f)'
  BY DEF FrameOk, Torn, Callback
<1>3. f.m \in Mods /\ ModOk(f.m) /\ f.at \notin Running
  BY DEF LifeFrames, LifeInv, Running, Callback, Torn
<1>4. CASE /\ ops' = Append(ops, f)
           /\ n # 0 => ops[n].at \in Running /\ ops[n].at # "gone"
  <2>1. /\ DOMAIN ops' = 1..(n + 1) /\ \A d \in 1..n : ops'[d] = ops[d] /\ d \in 1..(n + 1)
    BY <1>4, AppendProperties, LenProperties DEF LifeInv, LifeTypes
  <2>2. TornDown(f.m) => TornDown(f.m)'
    BY <2>1 DEF TornDown
  <2>3. Loading(f.m) => Loading(f.m)'
    BY <2>1 DEF Loading
  <2>4. ModOk(f.m)'
    BY <1>1, <1>3, <2>2, <2>3, ModKept
  <2>5. LifeTypes'
    <3>1. ops' \in Seq(LifeFrames)
      BY <1>4, AppendProperties DEF LifeInv, LifeTypes
    <3> QED
      BY <3>1 DEF LifeInv, LifeTypes
  <2> QED
    BY <1>1, <1>2, <1>3, <1>4, <2>4, <2>5, PushedTop
<1>5. ASSUME n # 0, ops[n].at \notin Torn \cup {"main"}, ops[n].m = f.m,
             ops' = SubSeq(ops, 1, n - 1)
      PROVE  LifeInv'
  <2>1. /\ DOMAIN ops' = 1..(n - 1) /\ \A d \in 1..(n - 1) : ops'[d] = ops[d]
        /\ \A d \in 1..n : d = n \/ d \in 1..(n - 1)
    BY <1>5, SubSeqProperties DEF LifeInv, LifeTypes
  <2>2. TornDown(f.m) => TornDown(f.m)'
    BY <1>5, <2>1 DEF TornDown
  <2>3. Loading(f.m) => Loading(f.m)'
    BY <1>5, <2>1, ZenonT(40) DEF Loading
  <2>4. ModOk(f.m)'
    BY <1>1, <1>3, <2>2, <2>3, ModKept
  <2>5. LifeTypes'
    <3>1. ops' \in Seq(LifeFrames)
      BY <1>5, SubSeqProperties DEF LifeInv, LifeTypes
    <3> QED
      BY <3>1 DEF LifeInv, LifeTypes
  <2> QED
    BY <1>1, <1>3, <1>5, <2>4, <2>5, PoppedTop
<1>6. ASSUME n # 0, ops[n].at \notin Torn \cup {"main"}, ops[n].m = f.m,
             ops' = [ops EXCEPT ![n] = f]
      PROVE  LifeInv'
  <2>1. /\ DOMAIN ops' = 1..n /\ \A d \in 1..n : d # n => ops'[d] = ops[d]
    BY <1>6
  <2>2. TornDown(f.m) => TornDown(f.m)'
    BY <1>6, <2>1 DEF TornDown
  <2>3. Loading(f.m) => Loading(f.m)'
    BY <1>6, <2>1 DEF Loading
  <2>4. ModOk(f.m)'
    BY <1>1, <1>3, <2>2, <2>3, ModKept
  <2>5. LifeTypes'
    <3>1. ops' \in Seq(LifeFrames)
      BY <1>6, ExceptSeq DEF LifeInv, LifeTypes
    <3> QED
      BY <3>1 DEF LifeInv, LifeTypes
  <2> QED
    BY <1>1, <1>2, <1>3, <1>6, <2>4, <2>5, Replaced
<1> QED
  BY <1>4, <1>5, <1>6


-----------------------------------------------------------------------------
(* Enabling, disabling and unloading.                                      *)

LEMMA LifeBeginStep ==
  ASSUME LifeInv, NEW m \in Mods,
         Life!Enable(m) \/ Life!Disable(m) \/ \E op \in Life!Ops : Life!Unload(op, m)
  PROVE  LifeInv'
<1>1. PICK n \in Nat : /\ n = Len(ops) /\ DOMAIN ops = 1..n /\ (ops = <<>> <=> n = 0)
                       /\ \A d \in 1..n : ops[d] \in LifeFrames
  BY TopFrame DEF LifeInv
<1>2. n # 0 => ops[n].at \in Running /\ ops[n].at # "gone"
  BY <1>1, LifeMayCall DEF Life!Enable, Life!Disable, Life!Unload, Life!MayStart
<1>3. PICK op \in Life!Ops, p \in {"toEnable", "toDisable", "toUnload"} :
        /\ ops' = Append(ops, [op |-> op, m |-> m, at |-> p, k |-> 0])
        /\ p \in {"toEnable", "toUnload"} => m \notin enabled
        /\ UNCHANGED <<object, made, images, runtime, slot, held, enabled, regs, late>>
  <2>1. CASE Life!Enable(m)
    BY <2>1 DEF Life!Enable, Life!Push, Life!image, Life!tables, Life!Ops
  <2>2. CASE Life!Disable(m)
    BY <2>2 DEF Life!Disable, Life!Push, Life!image, Life!tables, Life!Ops
  <2>3. ASSUME NEW op \in Life!Ops, Life!Unload(op, m), m \in enabled
        PROVE  ops' = Append(ops, [op |-> op, m |-> m, at |-> "toDisable", k |-> 0])
    BY <2>3 DEF Life!Unload, Life!Push
  <2>4. ASSUME NEW op \in Life!Ops, Life!Unload(op, m), m \notin enabled
        PROVE  ops' = Append(ops, [op |-> op, m |-> m, at |-> "toUnload", k |-> 0])
    BY <2>4 DEF Life!Unload, Life!Push
  <2>5. ASSUME NEW op \in Life!Ops, Life!Unload(op, m)
        PROVE  UNCHANGED <<object, made, images, runtime, slot, held, enabled, regs, late>>
    BY <2>5 DEF Life!Unload, Life!image, Life!tables
  <2> QED
    BY <2>1, <2>2, <2>3, <2>4, <2>5
<1>4. PICK f \in LifeFrames : f = [op |-> op, m |-> m, at |-> p, k |-> 0]
  BY DEF LifeFrames, Places
<1>5. f.m = m /\ f.at = p /\ f.k = 0 /\ ops' = Append(ops, f)
  BY <1>3, <1>4
<1> QED
  BY <1>1, <1>2, <1>3, <1>5, QuietStep

LEMMA GivenUpStep ==
  ASSUME LifeInv, UNCHANGED <<object, made, images, runtime, slot, held, enabled, regs, late>>,
         NEW n \in Nat, n = Len(ops), DOMAIN ops = 1..n, n # 0,
         \A d \in 1..n : ops[d] \in LifeFrames,
         ops[n].at \in {"toEnable", "toDisable", "toUnload"},
         Life!Pop \/ Life!Goto("hung") \/ (ops[n].at = "toEnable" /\ Life!Fail)
  PROVE  LifeInv'
<1>1. PICK g \in LifeFrames : g = ops[n]
  OBVIOUS
<1>2. FrameOk(g)
  BY <1>1 DEF LifeInv
<1>3. g.k = 0 /\ (g.at \in {"toEnable", "toUnload"} => g.m \notin enabled)
  BY <1>1, <1>2 DEF FrameOk, Torn
<1>4. PICK h \in LifeFrames : h = [g EXCEPT !.at = "hung"] /\ h.m = g.m /\ h.at = "hung"
                              /\ h.k = g.k
  BY Moved DEF Places
<1>5. ops[n].at \notin Torn \cup {"main"}
  BY DEF Torn
<1>6. CASE Life!Pop
  <2>1. ops' = SubSeq(ops, 1, n - 1)
    BY <1>6 DEF Life!Pop
  <2> QED
    BY <1>1, <1>3, <1>4, <1>5, <2>1, QuietStep
<1>7. CASE Life!Goto("hung")
  <2>1. ops' = [ops EXCEPT ![n] = h]
    BY <1>1, <1>4, <1>7 DEF Life!Goto
  <2> QED
    BY <1>1, <1>3, <1>4, <1>5, <2>1, QuietStep
<1>8. CASE ops[n].at = "toEnable" /\ Life!Fail
  <2>1. PICK r : r = [g EXCEPT !.op = "rollback", !.at = "toUnload"]
    OBVIOUS
  <2>2. r \in LifeFrames /\ r.m = g.m /\ r.at = "toUnload" /\ r.k = g.k
    BY <2>1 DEF LifeFrames, Life!Ops, Places
  <2>3. ops' = [ops EXCEPT ![n] = r] \/ Life!Pop
    BY <1>1, <1>8, <2>1 DEF Life!Fail
  <2>4. CASE ops' = [ops EXCEPT ![n] = r]
    BY <1>1, <1>3, <1>5, <1>8, <2>2, <2>4, QuietStep
  <2> QED
    BY <1>6, <2>3, <2>4
<1> QED
  BY <1>6, <1>7, <1>8

\* A callback is entered with the mutex, by a mod that has an instance: then no other
\* frame is in its code.
LEMMA EnteredStep ==
  ASSUME LifeInv, UNCHANGED <<object, made, images, runtime, slot, enabled, regs, late>>,
         NEW n \in Nat, n = Len(ops), DOMAIN ops = 1..n, n # 0,
         \A d \in 1..n : ops[d] \in LifeFrames,
         ops[n].at \in {"toEnable", "toDisable", "toUnload"},
         NEW p \in Callback, p # "disable" => ops[n].m \notin enabled,
         ops[n].m \notin held, ops[n].m \in slot,
         held' = held \cup {ops[n].m}, Life!Goto(p)
  PROVE  LifeInv'
<1>1. PICK g \in LifeFrames : g = ops[n]
  OBVIOUS
<1>2. PICK f \in LifeFrames : f = [g EXCEPT !.at = p] /\ f.m = g.m /\ f.at = p /\ f.k = g.k
  BY Moved DEF Places, Running
<1>3. ops' = [ops EXCEPT ![n] = f]
  BY <1>1, <1>2 DEF Life!Goto
<1>4. FrameOk(g) /\ ModOk(g.m) /\ g.m \in Mods
  BY <1>1 DEF LifeInv, LifeFrames
<1>5. \A d \in 1..(n - 1) : ops[d].m # g.m
  <2> SUFFICES ASSUME NEW d \in 1..(n - 1), ops[d].m = g.m PROVE FALSE
    OBVIOUS
  <2>1. FrameOk(ops[d]) /\ ops[d].at \in Running
    BY DEF LifeInv, NestedInCode
  <2> QED
    BY <1>1, <1>4, <2>1 DEF FrameOk, ModOk, Running
<1>6. FrameOk(f)'
  BY <1>1, <1>2, <1>4 DEF FrameOk, Torn, Callback
<1>7. ModOk(g.m)'
  BY <1>1, <1>4 DEF ModOk
<1>8. \A o \in Mods \ {f.m} : SameFor(o)
  BY <1>1, <1>2 DEF SameFor
<1>9. LifeTypes'
  <2>1. ops' \in Seq(LifeFrames)
    BY <1>3, ExceptSeq DEF LifeInv, LifeTypes
  <2> QED
    BY <2>1 DEF LifeInv, LifeTypes
<1> QED
  BY <1>1, <1>2, <1>3, <1>5, <1>6, <1>7, <1>8, <1>9, Replaced, ZenonT(40)

LEMMA LifeEnterStep ==
  ASSUME LifeInv, Life!EnterEnable \/ Life!EnterDisable \/ Life!EnterUnload
  PROVE  LifeInv'
<1>1. PICK n \in Nat : /\ n = Len(ops) /\ DOMAIN ops = 1..n /\ (ops = <<>> <=> n = 0)
                       /\ \A d \in 1..n : ops[d] \in LifeFrames
  BY TopFrame DEF LifeInv
<1>2. /\ n # 0 /\ ops[n].at \in {"toEnable", "toDisable", "toUnload"}
      /\ UNCHANGED <<object, made, images, runtime, slot, enabled, regs, late>>
  BY <1>1 DEF Life!EnterEnable, Life!EnterDisable, Life!EnterUnload, Life!At, Life!Top,
              Life!image, Life!tables
<1>3. FrameOk(ops[n])
  BY <1>1, <1>2 DEF LifeInv
<1>4. \/ /\ UNCHANGED held
         /\ Life!Pop \/ Life!Goto("hung") \/ (ops[n].at = "toEnable" /\ Life!Fail)
      \/ \E p \in Callback :
           /\ p # "disable" => ops[n].m \notin enabled
           /\ ops[n].m \notin held /\ ops[n].m \in slot
           /\ held' = held \cup {ops[n].m} /\ Life!Goto(p)
  <2>1. CASE Life!EnterEnable
    BY <1>1, <1>3, <2>1 DEF Life!EnterEnable, Life!At, Life!Top, Life!TryEnter, Callback,
                            FrameOk
  <2>2. CASE Life!EnterDisable
    BY <1>1, <2>2 DEF Life!EnterDisable, Life!At, Life!Top, Life!TryEnter, Callback
  <2>3. CASE Life!EnterUnload
    BY <1>1, <1>3, <2>3 DEF Life!EnterUnload, Life!At, Life!Top, Life!TryEnter, Callback,
                            FrameOk
  <2> QED
    BY <2>1, <2>2, <2>3
<1> QED
  BY <1>1, <1>2, <1>4, GivenUpStep, EnteredStep

\* A callback returns, and its mod keeps the instance.
LEMMA ReturnedStep ==
  ASSUME LifeInv, UNCHANGED <<object, made, images, runtime, slot, regs, late>>,
         NEW n \in Nat, n = Len(ops), DOMAIN ops = 1..n, n # 0,
         \A d \in 1..n : ops[d] \in LifeFrames,
         NEW m \in Mods, m = ops[n].m, ops[n].at \in Callback,
         held' = held \ {m},
         enabled' \in {enabled, enabled \cup {m}, enabled \ {m}},
         \/ Life!Pop
         \/ /\ m \notin enabled'
            /\ \E f \in LifeFrames : /\ f.m = m /\ f.at = "toUnload" /\ f.k = ops[n].k
                                     /\ ops' = [ops EXCEPT ![n] = f]
  PROVE  LifeInv'
<1>1. FrameOk(ops[n]) /\ ModOk(m)
  BY DEF LifeInv
<1>2. m \in slot /\ object[m] # 0 /\ ops[n].k = 0
  BY <1>1 DEF FrameOk, ModOk, Callback, Torn
<1>3. \A d \in 1..(n - 1) : ops[d].m # m
  BY NobodyBelow DEF Running
<1>4. \A o \in Mods \ {m} : SameFor(o)
  BY DEF SameFor
<1>5. ModOk(m)'
  BY <1>1, <1>2 DEF ModOk
<1>6. CASE Life!Pop
  <2>1. ops' = SubSeq(ops, 1, n - 1)
    BY <1>6 DEF Life!Pop
  <2>2. LifeTypes'
    <3>1. ops' \in Seq(LifeFrames)
      BY <2>1, SubSeqProperties DEF LifeInv, LifeTypes
    <3> QED
      BY <3>1 DEF LifeInv, LifeTypes
  <2> QED
    BY <1>3, <1>4, <1>5, <2>1, <2>2, PoppedTop
<1>7. ASSUME m \notin enabled', NEW f \in LifeFrames, f.m = m, f.at = "toUnload",
             f.k = ops[n].k, ops' = [ops EXCEPT ![n] = f]
      PROVE  LifeInv'
  <2>1. FrameOk(f)'
    BY <1>2, <1>7 DEF FrameOk, Torn, Callback
  <2>2. LifeTypes'
    <3>1. ops' \in Seq(LifeFrames)
      BY <1>7, ExceptSeq DEF LifeInv, LifeTypes
    <3> QED
      BY <3>1 DEF LifeInv, LifeTypes
  <2> QED
    <3>1. ModOk(f.m)' /\ f.at \notin Running
      BY <1>5, <1>7 DEF Running, Callback, Torn
    <3>2. /\ \A d \in 1..(n - 1) : ops[d].m # f.m
          /\ \A o \in Mods \ {f.m} : SameFor(o)
      BY <1>3, <1>4, <1>7
    <3> QED
      BY <1>7, <2>1, <2>2, <3>1, <3>2, Replaced
<1> QED
  BY <1>6, <1>7

LEMMA LifeReturnStep ==
  ASSUME LifeInv, Life!ReturnEnable \/ Life!ReturnDisable
  PROVE  LifeInv'
<1>1. PICK n \in Nat : /\ n = Len(ops) /\ DOMAIN ops = 1..n /\ (ops = <<>> <=> n = 0)
                       /\ \A d \in 1..n : ops[d] \in LifeFrames
  BY TopFrame DEF LifeInv
<1>2. n # 0 /\ ops[n].at \in {"enable", "disable"}
  BY <1>1 DEF Life!ReturnEnable, Life!ReturnDisable, Life!At, Life!Top
<1>3. PICK g \in LifeFrames : g = ops[n]
  BY <1>1, <1>2
<1>4. PICK m \in Mods : m = g.m
  BY DEF LifeFrames
<1>5. FrameOk(g)
  BY <1>1, <1>2, <1>3 DEF LifeInv
<1>6. /\ UNCHANGED <<object, made, images, runtime, slot, regs, late>>
      /\ held' = held \ {m}
  BY <1>1, <1>3, <1>4 DEF Life!ReturnEnable, Life!ReturnDisable, Life!Top,
     Life!image, Life!tables
<1>7. PICK r : r = [g EXCEPT !.op = "rollback", !.at = "toUnload"]
  OBVIOUS
<1>8. r \in LifeFrames /\ r.m = g.m /\ r.at = "toUnload" /\ r.k = g.k
  BY <1>7 DEF LifeFrames, Life!Ops, Places
<1>9. PICK u \in LifeFrames : u = [g EXCEPT !.at = "toUnload"] /\ u.m = g.m
                              /\ u.at = "toUnload" /\ u.k = g.k
  BY Moved DEF Places
<1>10. CASE Life!ReturnEnable
  <2>1. \/ enabled' = enabled \cup {m} /\ Life!Pop
        \/ enabled' = enabled /\ Life!Pop
        \/ enabled' = enabled /\ ops' = [ops EXCEPT ![n] = r]
    BY <1>1, <1>3, <1>4, <1>7, <1>10 DEF Life!ReturnEnable, Life!Fail, Life!Top
  <2>2. m \notin enabled
    BY <1>1, <1>3, <1>4, <1>5, <1>10 DEF FrameOk, Life!ReturnEnable, Life!At, Life!Top
  <2> QED
    BY <1>1, <1>2, <1>3, <1>4, <1>6, <1>8, <2>1, <2>2, ReturnedStep DEF Callback
<1>11. CASE Life!ReturnDisable
  <2>1. \/ enabled' = enabled \ {m} /\ Life!Pop
        \/ enabled' = enabled \ {m} /\ ops' = [ops EXCEPT ![n] = u]
        \/ enabled' = enabled /\ Life!Pop
    BY <1>1, <1>3, <1>4, <1>9, <1>11 DEF Life!ReturnDisable, Life!Goto, Life!Top
  <2> QED
    <3>1. enabled' \in {enabled, enabled \cup {m}, enabled \ {m}}
      BY <2>1
    <3>2. \/ Life!Pop
          \/ m \notin enabled' /\ ops' = [ops EXCEPT ![n] = u]
      BY <2>1
    <3>3. m = ops[n].m /\ ops[n].at \in Callback /\ u.k = ops[n].k /\ u.m = m
      BY <1>2, <1>3, <1>4, <1>9 DEF Callback
    <3> QED
      BY <1>1, <1>2, <1>6, <1>9, <3>1, <3>2, <3>3, ReturnedStep
<1> QED
  BY <1>10, <1>11


-----------------------------------------------------------------------------
(* The teardown.                                                           *)

LEMMA TornTop ==
  ASSUME LifeInv, NEW n \in Nat, n = Len(ops), DOMAIN ops = 1..n, n # 0,
         NEW g \in LifeFrames, g = ops[n], g.at \in Torn
  PROVE  /\ \A d \in 1..(n - 1) : ops[d].m # g.m
         /\ FrameOk(g) /\ ModOk(g.m) /\ g.m \in Mods
         /\ g.m \notin slot /\ object[g.m] # 0 /\ g.m \notin enabled
<1>1. FrameOk(g) /\ ModOk(g.m) /\ g.m \in Mods
  BY DEF LifeInv, LifeFrames
<1>2. \A d \in 1..(n - 1) : ops[d].m # g.m
  BY NobodyBelow DEF Running
<1> QED
  BY <1>1, <1>2 DEF FrameOk, Torn

\* on_unload returns: it kept the instance, or the teardown begins, with all that
\* the mod registered before it.
LEMMA ReturnUnloadStep ==
  ASSUME LifeInv, Life!ReturnUnload
  PROVE  LifeInv'
<1>1. PICK n \in Nat : /\ n = Len(ops) /\ DOMAIN ops = 1..n /\ (ops = <<>> <=> n = 0)
                       /\ \A d \in 1..n : ops[d] \in LifeFrames
  BY TopFrame DEF LifeInv
<1>2. n # 0 /\ ops[n].at = "unload"
  BY <1>1 DEF Life!ReturnUnload, Life!At, Life!Top
<1>3. PICK g \in LifeFrames : g = ops[n]
  BY <1>1, <1>2
<1>4. PICK m \in Mods : m = g.m
  BY DEF LifeFrames
<1>5. FrameOk(g) /\ ModOk(m)
  BY <1>1, <1>2, <1>3 DEF LifeInv
<1>6. PICK f \in LifeFrames : f = [g EXCEPT !.at = "gone"] /\ f.m = g.m /\ f.at = "gone"
                              /\ f.k = g.k
  BY Moved DEF Places, Running, Torn
<1>7. /\ UNCHANGED <<object, made, images, runtime, enabled, regs, late>>
      /\ held' = held \ {m}
      /\ \/ slot' = slot \ {m} /\ ops' = [ops EXCEPT ![n] = f]
         \/ slot' = slot /\ Life!Pop
  BY <1>1, <1>3, <1>4, <1>6 DEF Life!ReturnUnload, Life!Goto, Life!Top, Life!image, Life!tables
<1>8. CASE slot' = slot /\ Life!Pop
  BY <1>1, <1>2, <1>3, <1>4, <1>7, <1>8, ReturnedStep DEF Callback
<1>9. CASE slot' = slot \ {m} /\ ops' = [ops EXCEPT ![n] = f]
  <2>1. \A d \in 1..(n - 1) : ops[d].m # f.m
    BY <1>1, <1>2, <1>3, <1>6, NobodyBelow DEF Running, Callback
  <2>2. \A o \in Mods \ {f.m} : SameFor(o)
    BY <1>4, <1>6, <1>7, <1>9 DEF SameFor
  <2>3. m \in slot /\ object[m] # 0 /\ m \notin enabled /\ g.k = 0
    BY <1>2, <1>3, <1>4, <1>5 DEF FrameOk, ModOk, Callback, Torn
  <2>4. \A e \in regs[m] : \E i \in Life!Left(0) : e[1] = Life!GoneOrder[i]
    <3> SUFFICES ASSUME NEW e \in regs[m]
                 PROVE  \E i \in Life!Left(0) : e[1] = Life!GoneOrder[i]
      OBVIOUS
    <3>1. e[1] \in Used
      BY DEF LifeInv, LifeTypes
    <3>2. \E i \in 1..11 : Life!GoneOrder[i] = e[1]
      BY <3>1, TablesAssumption
    <3>3. DOMAIN Life!GoneOrder = 1..11
      BY DEF Life!GoneOrder
    <3> QED
      BY <3>1, <3>2, <3>3 DEF Life!Left
  <2>5. FrameOk(f)'
    BY <1>4, <1>6, <1>7, <1>9, <2>3, <2>4 DEF FrameOk, Torn, Callback
  <2>6. TornDown(m)'
    BY <1>1, <1>2, <1>4, <1>6, <1>9 DEF TornDown, Torn
  <2>7. ModOk(f.m)'
    BY <1>4, <1>5, <1>6, <1>7, <1>9, <2>3, <2>6 DEF ModOk
  <2>8. LifeTypes'
    <3>1. ops' \in Seq(LifeFrames)
      BY <1>1, <1>2, <1>9, ExceptSeq DEF LifeInv, LifeTypes
    <3> QED
      BY <1>7, <3>1 DEF LifeInv, LifeTypes
  <2> QED
    BY <1>1, <1>2, <1>3, <1>6, <1>9, <2>1, <2>2, <2>5, <2>7, <2>8, Replaced
<1> QED
  BY <1>7, <1>8, <1>9

\* The entries of one table go; those that are left are in the tables after it.
LEMMA GoneStepStep ==
  ASSUME LifeInv, Life!GoneStep
  PROVE  LifeInv'
<1>1. PICK n \in Nat : /\ n = Len(ops) /\ DOMAIN ops = 1..n /\ (ops = <<>> <=> n = 0)
                       /\ \A d \in 1..n : ops[d] \in LifeFrames
  BY TopFrame DEF LifeInv
<1>2. n # 0 /\ ops[n].at = "gone"
  BY <1>1 DEF Life!GoneStep, Life!At, Life!Top
<1>3. PICK g \in LifeFrames : g = ops[n]
  BY <1>1, <1>2
<1>4. PICK m \in Mods : m = g.m
  BY DEF LifeFrames
<1>5. PICK i \in Life!Left(g.k) :
        /\ \A j \in Life!Left(g.k) : i <= j
        /\ regs' = [regs EXCEPT ![m] = @ \ Life!Of(m, Life!GoneOrder[i])]
        /\ ops' = [ops EXCEPT ![n] =
             [g EXCEPT !.k = i, !.at = IF Life!GoneOrder[i] = "lane" /\ Life!Of(m, "lane") # {}
                                       THEN "release" ELSE "gone"]]
  <2>1. Life!Top = g
    BY <1>1, <1>3 DEF Life!Top
  <2>2. PICK i \in Life!Left(g.k) :
          /\ \A j \in Life!Left(g.k) : i <= j
          /\ regs' = [regs EXCEPT ![g.m] = @ \ Life!Of(g.m, Life!GoneOrder[i])]
          /\ ops' = [ops EXCEPT ![Len(ops)] =
               [@ EXCEPT !.k = i,
                         !.at = IF Life!GoneOrder[i] = "lane" /\ Life!Of(g.m, "lane") # {}
                                THEN "release" ELSE "gone"]]
    BY <2>1 DEF Life!GoneStep
  <2> QED
    BY <1>1, <1>3, <1>4, <2>2
<1>6. i \in 1..11 /\ i \in Nat
  <2>1. DOMAIN Life!GoneOrder = 1..11
    BY DEF Life!GoneOrder
  <2> QED
    BY <1>5, <2>1 DEF Life!Left
<1>7. PICK p \in Torn : p = IF Life!GoneOrder[i] = "lane" /\ Life!Of(m, "lane") # {}
                            THEN "release" ELSE "gone"
  BY DEF Torn
<1>8. PICK f : f = [g EXCEPT !.k = i, !.at = p]
  OBVIOUS
<1>9. f \in LifeFrames /\ f.m = m /\ f.at = p /\ f.k = i
  BY <1>4, <1>6, <1>7, <1>8 DEF LifeFrames, Places, Running
<1>10. /\ ops' = [ops EXCEPT ![n] = f]
       /\ UNCHANGED <<object, made, images, runtime, slot, held, enabled, late>>
  BY <1>5, <1>7, <1>8 DEF Life!GoneStep, Life!image, Life!tables
<1>11. /\ \A d \in 1..(n - 1) : ops[d].m # m
       /\ FrameOk(g) /\ ModOk(m) /\ m \notin slot /\ object[m] # 0 /\ m \notin enabled
  BY <1>1, <1>2, <1>3, <1>4, TornTop DEF Torn
<1>12. p = "release" => i = 5
  <2>1. \A j \in 1..11 : Life!GoneOrder[j] = "lane" => j = 5
    BY DEF Life!GoneOrder
  <2> QED
    BY <1>6, <1>7, <2>1
<1>13. regs'[m] = regs[m] \ Life!Of(m, Life!GoneOrder[i])
  BY <1>5 DEF LifeInv, LifeTypes
<1>14. \A e \in regs'[m] \ late[m] : e[2] = object[m] =>
         \E j \in Life!Left(i) : e[1] = Life!GoneOrder[j]
  <2> SUFFICES ASSUME NEW e \in regs'[m] \ late[m], e[2] = object[m]
               PROVE  \E j \in Life!Left(i) : e[1] = Life!GoneOrder[j]
    OBVIOUS
  <2>1. e \in regs[m] \ late[m] /\ e[1] # Life!GoneOrder[i]
    BY <1>13 DEF Life!Of
  <2>2. PICK j \in Life!Left(g.k) : e[1] = Life!GoneOrder[j]
    BY <1>2, <1>3, <1>4, <1>11, <2>1 DEF FrameOk, Torn
  <2>3. j > i
    <3>1. j \in Nat /\ i <= j /\ j # i
      BY <1>5, <2>1, <2>2 DEF Life!Left, Life!GoneOrder
    <3> QED
      BY <1>6, <3>1
  <2> QED
    BY <2>2, <2>3 DEF Life!Left
<1>15. FrameOk(f)'
  BY <1>9, <1>10, <1>11, <1>12, <1>14 DEF FrameOk, Torn, Callback
<1>16. TornDown(m)'
  BY <1>1, <1>2, <1>9, <1>10 DEF TornDown
<1>17. ModOk(m)'
  BY <1>10, <1>11, <1>13, <1>16 DEF ModOk
<1>18. \A o \in Mods \ {m} : SameFor(o)
  BY <1>5, <1>10 DEF SameFor, LifeInv, LifeTypes
<1>19. LifeTypes'
  <2>1. ops' \in Seq(LifeFrames)
    BY <1>1, <1>2, <1>9, <1>10, ExceptSeq DEF LifeInv, LifeTypes
  <2>2. regs' \in [Mods -> SUBSET (Used \X Nat)]
    BY <1>5 DEF LifeInv, LifeTypes
  <2> QED
    BY <1>10, <2>1, <2>2 DEF LifeInv, LifeTypes
<1> QED
  BY <1>1, <1>2, <1>3, <1>4, <1>9, <1>10, <1>11, <1>15, <1>17, <1>18, <1>19, Replaced

LEMMA ReleaseStep ==
  ASSUME LifeInv, Life!ReturnRelease
  PROVE  LifeInv'
<1>1. PICK n \in Nat : /\ n = Len(ops) /\ DOMAIN ops = 1..n /\ (ops = <<>> <=> n = 0)
                       /\ \A d \in 1..n : ops[d] \in LifeFrames
  BY TopFrame DEF LifeInv
<1>2. n # 0 /\ ops[n].at = "release"
  BY <1>1 DEF Life!ReturnRelease, Life!At, Life!Top
<1>3. PICK g \in LifeFrames : g = ops[n]
  BY <1>1, <1>2
<1>4. PICK f \in LifeFrames : f = [g EXCEPT !.at = "gone"] /\ f.m = g.m /\ f.at = "gone"
                              /\ f.k = g.k
  BY Moved DEF Places, Running, Torn
<1>5. /\ UNCHANGED <<object, made, images, runtime, slot, held, enabled, regs, late>>
      /\ ops' = [ops EXCEPT ![n] = f]
  BY <1>1, <1>3, <1>4 DEF Life!ReturnRelease, Life!Goto, Life!image, Life!tables
<1>6. /\ \A d \in 1..(n - 1) : ops[d].m # f.m
      /\ FrameOk(g) /\ ModOk(f.m) /\ f.m \in Mods
  BY <1>1, <1>2, <1>3, <1>4, TornTop DEF Torn
<1>7. \A o \in Mods : SameFor(o)
  BY <1>5 DEF SameFor
<1>8. FrameOk(f)'
  BY <1>2, <1>3, <1>4, <1>5, <1>6 DEF FrameOk, Torn, Callback
<1>9. TornDown(f.m)' /\ (Loading(f.m) => Loading(f.m)')
  BY <1>1, <1>2, <1>3, <1>4, <1>5 DEF TornDown, Torn, Loading
<1>10. ModOk(f.m)'
  BY <1>6, <1>7, <1>9, ModKept
<1>11. LifeTypes'
  <2>1. ops' \in Seq(LifeFrames)
    BY <1>1, <1>2, <1>5, ExceptSeq DEF LifeInv, LifeTypes
  <2> QED
    BY <1>5, <2>1 DEF LifeInv, LifeTypes
<1> QED
  BY <1>1, <1>2, <1>3, <1>4, <1>5, <1>6, <1>7, <1>8, <1>10, <1>11, Replaced

\* The end of the teardown: nothing of the mod is left, whether its library goes or not.
LEMMA FreeLibStep ==
  ASSUME LifeInv, Life!FreeLib
  PROVE  LifeInv'
<1>1. PICK n \in Nat : /\ n = Len(ops) /\ DOMAIN ops = 1..n /\ (ops = <<>> <=> n = 0)
                       /\ \A d \in 1..n : ops[d] \in LifeFrames
  BY TopFrame DEF LifeInv
<1>2. n # 0 /\ ops[n].at = "gone"
  BY <1>1 DEF Life!FreeLib, Life!At, Life!Top
<1>3. PICK g \in LifeFrames : g = ops[n]
  BY <1>1, <1>2
<1>4. PICK m \in Mods : m = g.m
  BY DEF LifeFrames
<1>5. /\ \A d \in 1..(n - 1) : ops[d].m # m
      /\ FrameOk(g) /\ ModOk(m) /\ m \notin slot /\ object[m] # 0 /\ m \notin enabled
  BY <1>1, <1>2, <1>3, <1>4, TornTop DEF Torn
<1>6. \A e \in regs[m] \ late[m] : e[2] # object[m]
  <2>1. Life!Left(g.k) = {}
    BY <1>1, <1>3 DEF Life!FreeLib, Life!Top
  <2> QED
    BY <1>2, <1>3, <1>4, <1>5, <2>1 DEF FrameOk, Torn
<1>7. /\ ops' = SubSeq(ops, 1, n - 1) /\ UNCHANGED <<made, held, regs, late>>
      /\ \/ /\ images' = [images EXCEPT ![m] = @ - 1]
            /\ runtime' = [runtime EXCEPT ![m] =
                             IF images[m] = 1 /\ m \notin pinned THEN 0 ELSE @]
            /\ slot' = slot \/ slot' = slot \ {m}
            /\ object' = [object EXCEPT ![m] = 0] /\ enabled' = enabled \ {m}
         \/ UNCHANGED <<images, runtime, slot, object, enabled>>
  BY <1>1, <1>3, <1>4 DEF Life!FreeLib, Life!Free, Life!Pop, Life!Top, Life!tables
<1>8. \A o \in Mods \ {m} : SameFor(o)
  BY <1>7 DEF SameFor, LifeInv, LifeTypes
<1>9. images[m] > 0
  BY <1>5 DEF ModOk
<1>10. ModOk(m)'
  <2>1. CASE object'[m] = 0 /\ m \notin slot'
    BY <1>5, <1>6, <1>7, <2>1 DEF ModOk
  <2>2. CASE UNCHANGED <<images, runtime, slot, object, enabled>>
    BY <1>5, <1>6, <1>7, <2>2 DEF ModOk
  <2> QED
    BY <1>5, <1>7, <2>1, <2>2 DEF LifeInv, LifeTypes
<1>11. LifeTypes'
  <2>1. ops' \in Seq(LifeFrames)
    BY <1>1, <1>2, <1>7, SubSeqProperties DEF LifeInv, LifeTypes
  <2>2. images' \in [Mods -> Nat]
    <3>1. images' = images \/ images' = [images EXCEPT ![m] = @ - 1]
      BY <1>7
    <3>2. [images EXCEPT ![m] = @ - 1] \in [Mods -> Nat]
      BY <1>9 DEF LifeInv, LifeTypes
    <3> QED
      BY <3>1, <3>2 DEF LifeInv, LifeTypes
  <2>3. runtime' \in [Mods -> Nat]
    <3>1. runtime' = runtime \/ runtime' = [runtime EXCEPT ![m] =
                                  IF images[m] = 1 /\ m \notin pinned THEN 0 ELSE @]
      BY <1>7
    <3>2. [runtime EXCEPT ![m] = IF images[m] = 1 /\ m \notin pinned THEN 0 ELSE @]
            \in [Mods -> Nat]
      BY DEF LifeInv, LifeTypes
    <3> QED
      BY <3>1, <3>2 DEF LifeInv, LifeTypes
  <2>4. object' \in [Mods -> Nat]
    <3>1. object' = object \/ object' = [object EXCEPT ![m] = 0]
      BY <1>7
    <3>2. [object EXCEPT ![m] = 0] \in [Mods -> Nat]
      BY DEF LifeInv, LifeTypes
    <3> QED
      BY <3>1, <3>2 DEF LifeInv, LifeTypes
  <2> QED
    BY <1>7, <2>1, <2>2, <2>3, <2>4 DEF LifeInv, LifeTypes
<1> QED
  BY <1>1, <1>2, <1>3, <1>4, <1>5, <1>7, <1>8, <1>10, <1>11, PoppedTop


-----------------------------------------------------------------------------
(* What a mod registers, and the theorems.                                 *)

\* A mod registers under the handle of the object it has, or is to have: in a teardown
\* only from the release hook, and in tables that are left.
LEMMA LifeRegisterStep ==
  ASSUME LifeInv, NEW m \in Mods, NEW reg \in Used, Life!Register(m, reg)
  PROVE  LifeInv'
<1>1. PICK n \in Nat : /\ n = Len(ops) /\ DOMAIN ops = 1..n /\ (ops = <<>> <=> n = 0)
                       /\ \A d \in 1..n : ops[d] \in LifeFrames
  BY TopFrame DEF LifeInv
<1>2. /\ regs' = [regs EXCEPT ![m] = @ \cup {<<reg, runtime[m]>>}]
      /\ UNCHANGED <<object, made, images, runtime, slot, held, enabled, ops>>
  BY DEF Life!Register, Life!image, Life!tables
<1>3. \/ n = 0 /\ m \in slot
      \/ n # 0 /\ ops[n].m = m /\ ops[n].at \in Life!InCode
  BY <1>1 DEF Life!Register, Life!Top
<1>12. /\ late' = late \/ late' = [late EXCEPT ![m] = @ \cup {<<reg, runtime[m]>>}]
       /\ n # 0 /\ ops[n].at = "release" =>
            \/ late' = [late EXCEPT ![m] = @ \cup {<<reg, runtime[m]>>}]
            \/ \E i \in Life!Left(ops[n].k) : Life!GoneOrder[i] = reg
  <2>1. late' = IF Life!Passed(reg) THEN [late EXCEPT ![m] = @ \cup {<<reg, runtime[m]>>}]
                ELSE late
    BY DEF Life!Register
  <2> QED
    BY <1>1, <2>1 DEF Life!Passed, Life!At, Life!Top
<1>4. LifeTypes'
  <2>1. regs' \in [Mods -> SUBSET (Used \X Nat)]
    BY <1>2 DEF LifeInv, LifeTypes
  <2>2. late' \in [Mods -> SUBSET (Used \X Nat)]
    <3>1. [late EXCEPT ![m] = @ \cup {<<reg, runtime[m]>>}] \in [Mods -> SUBSET (Used \X Nat)]
      BY DEF LifeInv, LifeTypes
    <3> QED
      BY <1>12, <3>1 DEF LifeInv, LifeTypes
  <2> QED
    BY <1>2, <2>1, <2>2 DEF LifeInv, LifeTypes
<1>5. NestedInCode'
  BY <1>2 DEF LifeInv, NestedInCode
<1>6. \A o \in Mods \ {m} : SameFor(o)
  BY <1>2, <1>12 DEF SameFor, LifeInv, LifeTypes
<1>7. /\ regs'[m] = regs[m] \cup {<<reg, runtime[m]>>} /\ ModOk(m)
      /\ late'[m] = late[m] \/ late'[m] = late[m] \cup {<<reg, runtime[m]>>}
  BY <1>2, <1>12 DEF LifeInv, LifeTypes
<1>13. regs'[m] \ late'[m] \subseteq (regs[m] \ late[m]) \cup {<<reg, runtime[m]>>}
  BY <1>7
<1>8. \A d \in 1..n : ops[d].m = m /\ ops[d].at \in Torn => d = n /\ ops[n].at = "release"
  <2> SUFFICES ASSUME NEW d \in 1..n, ops[d].m = m, ops[d].at \in Torn
               PROVE  d = n /\ ops[n].at = "release"
    OBVIOUS
  <2>1. FrameOk(ops[d])
    BY <1>1 DEF LifeInv
  <2>2. m \notin slot
    BY <2>1 DEF FrameOk
  <2>3. n # 0 /\ ops[n].m = m /\ ops[n].at \in Running /\ ops[n].at # "gone"
    BY <1>3, <2>2 DEF Life!InCode, Running, Callback, Torn
  <2>4. d = n
    BY <1>1, <2>3 DEF LifeInv, NestedInCode, Running
  <2> QED
    BY <2>3, <2>4 DEF Torn
<1>9. \A d \in 1..n : FrameOk(ops[d])'
  <2> SUFFICES ASSUME NEW d \in 1..n PROVE FrameOk(ops[d])'
    OBVIOUS
  <2>1. PICK g \in LifeFrames : g = ops[d]
    BY <1>1
  <2>2. FrameOk(g)
    BY <1>1, <2>1 DEF LifeInv
  <2>3. CASE g.m # m
    <3>1. SameFor(g.m)
      BY <1>6, <2>3 DEF LifeFrames
    <3>2. FrameOk(g)'
      BY <2>2, <3>1, FrameKept
    <3> QED
      BY <1>2, <2>1, <3>2 DEF FrameOk
  <2>4. CASE g.m = m
    <3>1. g.at \notin Torn => FrameOk(g)'
      BY <1>2, <2>2 DEF FrameOk, Torn, Callback
    <3>2. ASSUME g.at \in Torn PROVE FrameOk(g)'
      <4>1. g.at = "release" /\ ops[n] = g /\ n # 0
        BY <1>1, <1>8, <2>1, <2>4, <3>2
      <4>2. ASSUME NEW e \in regs'[m] \ late'[m], e[2] = object[m]
            PROVE  \E i \in Life!Left(g.k) : e[1] = Life!GoneOrder[i]
        <5>1. CASE e \in regs[m] \ late[m]
          BY <2>2, <2>4, <3>2, <4>2, <5>1 DEF FrameOk
        <5>2. CASE e = <<reg, runtime[m]>>
          <6>1. late' # [late EXCEPT ![m] = @ \cup {<<reg, runtime[m]>>}]
            BY <4>2, <5>2 DEF LifeInv, LifeTypes
          <6> QED
            BY <1>12, <4>1, <5>2, <6>1
        <5> QED
          BY <1>13, <4>2, <5>1, <5>2
      <4> QED
        BY <1>2, <2>2, <2>4, <4>1, <4>2 DEF FrameOk, Torn, Callback
    <3> QED
      BY <1>2, <2>1, <3>1, <3>2 DEF FrameOk
  <2> QED
    BY <2>3, <2>4
<1>10. ModOk(m)'
  <2>1. CASE m \in slot
    BY <1>2, <1>7, <1>13, <2>1 DEF ModOk
  <2>2. ASSUME n # 0, ops[n].m = m, ops[n].at \in Life!InCode, m \notin slot
        PROVE  ModOk(m)'
    <3>1. FrameOk(ops[n])
      BY <1>1, <2>2 DEF LifeInv
    <3>2. CASE ops[n].at = "main"
      <4>1. object[m] = 0 /\ runtime[m] = made[m] /\ Loading(m)
        BY <1>1, <2>2, <3>1, <3>2 DEF FrameOk, Loading
      <4>2. Loading(m)'
        BY <1>2, <4>1 DEF Loading
      <4> QED
        BY <1>2, <1>7, <1>13, <2>2, <4>1, <4>2 DEF ModOk
    <3>3. CASE ops[n].at \in Torn
      <4>1. TornDown(m)' /\ object[m] # 0 /\ runtime[m] = object[m]
        BY <1>1, <1>2, <1>7, <2>2, <3>1, <3>3 DEF FrameOk, ModOk, TornDown
      <4> QED
        BY <1>2, <1>7, <1>13, <2>2, <4>1 DEF ModOk
    <3> QED
      BY <2>2, <3>1, <3>2, <3>3 DEF FrameOk, Life!InCode, Callback, Torn
  <2> QED
    BY <1>3, <2>1, <2>2
<1>11. \A o \in Mods : ModOk(o)'
  <2> SUFFICES ASSUME NEW o \in Mods, o # m PROVE ModOk(o)'
    BY <1>10
  <2>1. (TornDown(o) => TornDown(o)') /\ (Loading(o) => Loading(o)')
    BY <1>2 DEF TornDown, Loading
  <2> QED
    BY <1>6, <2>1, ModKept DEF LifeInv
<1> QED
  BY <1>1, <1>2, <1>4, <1>5, <1>9, <1>11 DEF LifeInv

\* The invariant does not look at what else there is.
LEMMA LifeRest ==
  ASSUME LifeInv,
         UNCHANGED <<object, made, images, runtime, slot, held, enabled, regs, late, ops>>
  PROVE  LifeInv'
<1>1. LifeTypes' /\ NestedInCode'
  BY DEF LifeInv, LifeTypes, NestedInCode
<1>2. \A o \in Mods : SameFor(o)
  BY DEF SameFor
<1>3. \A o \in Mods : ModOk(o)'
  <2> SUFFICES ASSUME NEW o \in Mods PROVE ModOk(o)'
    OBVIOUS
  <2>1. (TornDown(o) => TornDown(o)') /\ (Loading(o) => Loading(o)')
    BY DEF TornDown, Loading
  <2> QED
    BY <1>2, <2>1, ModKept DEF LifeInv
<1>4. \A d \in DOMAIN ops' : FrameOk(ops[d])'
  <2> SUFFICES ASSUME NEW d \in DOMAIN ops PROVE FrameOk(ops[d])'
    OBVIOUS
  <2>1. PICK g : g = ops[d]
    OBVIOUS
  <2>2. FrameOk(g) /\ SameFor(g.m)
    BY <2>1 DEF LifeInv, SameFor
  <2>3. FrameOk(g)'
    BY <2>2, FrameKept
  <2> QED
    BY <2>1, <2>3 DEF FrameOk
<1> QED
  BY <1>1, <1>3, <1>4 DEF LifeInv

LEMMA LifeStep == LifeInv /\ [Life!Next]_lifeVars => LifeInv'
<1> SUFFICES ASSUME LifeInv, [Life!Next]_lifeVars PROVE LifeInv'
  OBVIOUS
<1>1. ASSUME NEW m \in Mods, Life!Pin(m) PROVE LifeInv'
  BY <1>1, LifeRest DEF Life!Pin, Life!tables
<1>2. CASE UNCHANGED lifeVars
  BY <1>2, LifeRest DEF lifeVars
<1>3. ASSUME NEW m \in Mods, NEW op \in Life!Ops, Life!Load(op, m) \/ Life!Unload(op, m)
      PROVE  LifeInv'
  BY <1>3, LifeLoadStep, LifeBeginStep
<1>4. ASSUME NEW m \in Mods, Life!Enable(m) \/ Life!Disable(m) PROVE LifeInv'
  BY <1>4, LifeBeginStep
<1> QED
  BY <1>1, <1>2, <1>3, <1>4, LifeRegisterStep, MainOkStep, MainFailsStep, LifeEnterStep,
     LifeReturnStep, ReturnUnloadStep, GoneStepStep, ReleaseStep, FreeLibStep
     DEF Life!Next

LEMMA LifeBegins == ModsInit => LifeInv
<1> SUFFICES ASSUME ModsInit PROVE LifeInv
  OBVIOUS
<1>1. /\ object = [m \in Mods |-> 0] /\ made = [m \in Mods |-> 0]
      /\ images = [m \in Mods |-> 0] /\ runtime = [m \in Mods |-> 0]
      /\ slot = {} /\ regs = [m \in Mods |-> {}] /\ late = [m \in Mods |-> {}]
      /\ ops = <<>>
  BY DEF ModsInit, Life!Init
<1>2. DOMAIN ops = {}
  BY <1>1
<1> QED
  BY <1>1, <1>2 DEF LifeInv, LifeTypes, NestedInCode, ModOk

lifeModsVars == <<part, vars, questionVars, lifeVars, commandVars, eventVars, storeVars,
                  moneyVars, keyVars, busVars>>

LEMMA LifeMoves == LifeInv /\ [ModsNext]_lifeModsVars => LifeInv'
<1>1. ModsNext => [Life!Next]_lifeVars
  BY Zenon DEF ModsNext
<1>2. UNCHANGED lifeModsVars => [Life!Next]_lifeVars
  BY Zenon DEF lifeModsVars
<1> QED
  BY <1>1, <1>2, LifeStep

\* A loaded mod calls the loader under its own handle.
THEOREM HandleIsOwnTheorem == ModsSpec => []HandleIsOwn
<1>1. LifeInv => HandleIsOwn
  BY DEF LifeInv, ModOk, HandleIsOwn, Life!HandleIsOwn
<1> QED
  BY <1>1, LifeBegins, LifeMoves, PTL DEF ModsSpec, lifeModsVars

\* The image is mapped while a frame of the mod's code is on the stack, whatever
\* `/llr' command that code runs.
THEOREM RunningCodeMappedTheorem == ModsSpec => []RunningCodeMapped
<1>1. LifeInv => RunningCodeMapped
  <2> SUFFICES ASSUME LifeInv, NEW d \in DOMAIN ops, ops[d].at \in Life!InCode
               PROVE  images[ops[d].m] > 0
    BY DEF RunningCodeMapped, Life!RunningCodeMapped, Life!Mapped
  <2>1. FrameOk(ops[d]) /\ ops[d].m \in Mods
    <3>1. ops[d] \in LifeFrames
      BY TopFrame DEF LifeInv
    <3> QED
      BY <3>1 DEF LifeInv, LifeFrames
  <2>2. ModOk(ops[d].m)
    BY <2>1 DEF LifeInv
  <2> QED
    BY <2>1, <2>2 DEF FrameOk, ModOk, Life!InCode, Callback, Torn
<1> QED
  BY <1>1, LifeBegins, LifeMoves, PTL DEF ModsSpec, lifeModsVars

\* A mod whose library could not be freed stays in the table, but inert: of what it has
\* registered only what a release hook adds in a table already passed is left.
THEOREM TornDownIsInertTheorem == ModsSpec => []TornDownIsInert
<1>1. LifeInv => TornDownIsInert
  <2> SUFFICES ASSUME LifeInv, NEW m \in Mods, object[m] # 0, m \notin slot, ~Life!Busy(m)
               PROVE  m \notin enabled /\ \A e \in regs[m] \ late[m] : e[2] # object[m]
    BY DEF TornDownIsInert, Life!TornDownIsInert
  <2>1. ~TornDown(m)
    BY DEF TornDown, Life!Busy
  <2> QED
    BY <2>1 DEF LifeInv, ModOk
<1> QED
  BY <1>1, LifeBegins, LifeMoves, PTL DEF ModsSpec, lifeModsVars

\* Once a mod's object is gone no table of the loader holds an entry of it, such late
\* ones apart, if nothing is registered by a load that fails.
THEOREM NothingOfGoneModsTheorem ==
  ASSUME DirtyFail = FALSE
  PROVE  ModsSpec => []NothingOfGoneMods
<1>1. LifeInv => NothingOfGoneMods
  <2> SUFFICES ASSUME LifeInv, NEW m \in Mods, NEW e \in regs[m] \ late[m]
               PROVE  e[2] \in {object[m]} \cup Life!LoadingObject(m)
    BY DEF NothingOfGoneMods, Life!NothingOfGoneMods
  <2>1. object[m] # 0 => e[2] = object[m]
    BY DEF LifeInv, ModOk
  <2>2. object[m] = 0 => Loading(m) /\ e[2] = made[m]
    BY DEF LifeInv, ModOk
  <2>3. Loading(m) => made[m] \in Life!LoadingObject(m)
    BY DEF Loading, Life!LoadingObject
  <2> QED
    BY <2>1, <2>2, <2>3
<1> QED
  BY <1>1, LifeBegins, LifeMoves, PTL DEF ModsSpec, lifeModsVars
=============================================================================
