----------------------------- MODULE ModsProofs -----------------------------
(***************************************************************************)
(* Theorems about what mods have at the loader, for every value of the     *)
(* constants.  Each part has its inductive invariant, over the part's own  *)
(* actions; ModsSpec lets one part move and leaves the others alone, so a  *)
(* part's invariant holds of it too.                                       *)
(***************************************************************************)
EXTENDS MCMods, ListProofs

-----------------------------------------------------------------------------
(* Key-value stores.                                                       *)

\* A reader holds the mutex, so nobody writes the store, closes it or takes its
\* mod away; what it has handed over and what is left make up the content.
StoreInv ==
  /\ reading = [t \in Threads |-> reading[t]]
  /\ Store!Opened \subseteq DOMAIN files
  /\ opening = [t \in Threads |-> opening[t]]
  /\ \A t \in Threads : reading[t] # None =>
       /\ locker = t
       /\ \A k \in DOMAIN atCall : /\ k \in DOMAIN files[reading[t].path]
                                   /\ files[reading[t].path][k] = atCall[k]
  /\ ReadsOneState

\* With the mutex free no thread reads.
LEMMA NobodyReads ==
  ASSUME StoreInv, locker = None
  PROVE  \A t \in Threads : reading[t] = None
BY NoneAssumption DEF StoreInv

\* A call made with the mutex free disturbs no reader.
LEMMA UnreadStep ==
  ASSUME StoreInv, locker = None, reading' = reading,
         opening' = [t \in Threads |-> opening'[t]],
         Store!Opened' \subseteq DOMAIN files'
  PROVE  StoreInv'
BY NobodyReads DEF StoreInv, ReadsOneState, Store!ReadsOneState

LEMMA ReadStep ==
  ASSUME StoreInv, NEW t \in Threads, NEW h, NEW S, Store!Read(t, h, S)
  PROVE  StoreInv'
<1>1. locker = None /\ \A u \in Threads : reading[u] = None
  BY NobodyReads DEF Store!Read, Store!Free
<1>2. PICK there : /\ there = S \cap DOMAIN files[table[h].path]
                   /\ atCall' = [k \in there |-> files[table[h].path][k]]
  BY DEF Store!Read, Store!Content
<1>3. PICK r : r = [path |-> table[h].path, left |-> there,
                    given |-> [k \in {} |-> None]]
  OBVIOUS
<1>4. /\ reading' = [reading EXCEPT ![t] = r] /\ locker' = t
      /\ h \in DOMAIN table /\ UNCHANGED <<openers, opening, table, files>>
  BY <1>2, <1>3 DEF Store!Handles, Store!Read, Store!Content, Store!Empty
<1>5. r.path = table[h].path /\ r.left = there /\ DOMAIN r.given = {}
  BY <1>3
<1>6. reading'[t] = r /\ \A u \in Threads : u # t => reading'[u] = None
  BY <1>1, <1>4 DEF StoreInv
<1>7. reading' = [u \in Threads |-> reading'[u]]
  BY <1>4 DEF StoreInv
<1>8. \A k \in DOMAIN atCall' : /\ k \in DOMAIN files[r.path]
                                /\ files[r.path][k] = atCall'[k]
  BY <1>2, <1>5
<1>9. table[h].mod \in openers
  BY DEF Store!Read, Store!Handles
<1>10. ReadsOneState'
  <2>1. DOMAIN r.given \cup r.left = DOMAIN atCall'
    BY <1>2, <1>5
  <2> QED
    BY <1>4, <1>5, <1>6, <1>9, <2>1 DEF ReadsOneState, Store!ReadsOneState
<1> QED
  BY <1>4, <1>6, <1>7, <1>8, <1>10 DEF StoreInv, Store!Opened

LEMMA SinkStep ==
  ASSUME StoreInv, NEW t \in Threads, Store!Sink(t)
  PROVE  StoreInv'
<1>1. reading[t] # None /\ locker = t
  BY DEF Store!Sink, StoreInv
<1>2. PICK k \in reading[t].left :
        reading' = [reading EXCEPT ![t] =
          [path |-> reading[t].path, left |-> reading[t].left \ {k},
           given |-> [q \in DOMAIN reading[t].given \cup {k} |->
             IF q # k THEN reading[t].given[q]
             ELSE IF k \in DOMAIN files[reading[t].path]
                    THEN files[reading[t].path][k] ELSE None]]]
  BY DEF Store!Sink
<1>3. UNCHANGED <<openers, opening, table, files, locker, atCall>>
  BY DEF Store!Sink
<1>4. /\ DOMAIN reading[t].given \cup reading[t].left = DOMAIN atCall
      /\ \A q \in DOMAIN reading[t].given : reading[t].given[q] = atCall[q]
      /\ \E h \in DOMAIN table : table[h].path = reading[t].path /\ table[h].mod \in openers
  BY <1>1 DEF StoreInv, ReadsOneState, Store!ReadsOneState
<1>5. k \in DOMAIN atCall /\ k \in DOMAIN files[reading[t].path]
      /\ files[reading[t].path][k] = atCall[k]
  BY <1>1, <1>4 DEF StoreInv
<1>6. /\ reading'[t].path = reading[t].path
      /\ reading'[t].left = reading[t].left \ {k}
      /\ DOMAIN reading'[t].given = DOMAIN reading[t].given \cup {k}
      /\ \A q \in DOMAIN reading'[t].given : reading'[t].given[q] = atCall[q]
      /\ \A u \in Threads : u # t => reading'[u] = reading[u]
      /\ reading' = [u \in Threads |-> reading'[u]]
  BY <1>2, <1>4, <1>5 DEF StoreInv
<1>7. \A u \in Threads : u # t => reading'[u] = None
  BY <1>1, <1>6 DEF StoreInv
<1>8. ReadsOneState'
  <2>1. DOMAIN reading'[t].given \cup reading'[t].left = DOMAIN atCall
    BY <1>4, <1>5, <1>6
  <2> QED
    BY <1>3, <1>4, <1>6, <1>7, <2>1 DEF ReadsOneState, Store!ReadsOneState
<1> QED
  BY <1>1, <1>3, <1>6, <1>7, <1>8 DEF StoreInv, Store!Opened

\* A store that is opened is none that somebody reads.
LEMMA OpenStep ==
  ASSUME StoreInv, NEW t \in Threads, NEW m \in Mods, NEW p \in Paths, NEW c,
         Store!Open(t, m, p, c)
  PROVE  StoreInv'
<1>1. /\ UNCHANGED <<openers, table, locker, reading, atCall>>
      /\ p \notin Store!Opened /\ opening[t] = None
  BY DEF Store!Open, Store!Idle
<1>2. /\ DOMAIN files' = DOMAIN files \cup {p}
      /\ \A q \in DOMAIN files : q # p => files'[q] = files[q]
  BY DEF Store!Open
<1>3. PICK o : o = [mod |-> m, path |-> p]
  OBVIOUS
<1>4. /\ opening'[t] = o /\ \A u \in Threads : u # t => opening'[u] = opening[u]
      /\ opening' = [u \in Threads |-> opening'[u]]
  BY <1>3 DEF Store!Open, StoreInv
<1>5. Store!Opened' \subseteq DOMAIN files'
  <2>1. \A u \in Threads : opening'[u] # None =>
          opening'[u].path = p \/ (opening[u] # None /\ opening'[u] = opening[u])
    BY <1>3, <1>4
  <2>2. Store!Opened' \subseteq Store!Opened \cup {p}
    BY <1>1, <2>1 DEF Store!Opened
  <2> QED
    BY <1>2, <2>2 DEF StoreInv
<1>6. ASSUME NEW u \in Threads, reading[u] # None
      PROVE  /\ reading[u].path # p /\ reading[u].path \in DOMAIN files
             /\ files'[reading[u].path] = files[reading[u].path]
  <2>1. reading[u].path \in Store!Opened
    BY <1>6 DEF StoreInv, ReadsOneState, Store!ReadsOneState, Store!Opened
  <2> QED
    BY <1>1, <1>2, <2>1 DEF StoreInv
<1>7. ReadsOneState'
  BY <1>1 DEF StoreInv, ReadsOneState, Store!ReadsOneState
<1> QED
  BY <1>1, <1>4, <1>5, <1>6, <1>7 DEF StoreInv

\* It comes into the table, or into nobody's hands.
LEMMA EnterStoreStep ==
  ASSUME StoreInv, NEW t \in Threads, Store!Enter(t)
  PROVE  StoreInv'
<1>1. PICK o : o = opening[t]
  OBVIOUS
<1>2. /\ o # None /\ locker = None /\ UNCHANGED <<files, reading>>
      /\ opening' = [opening EXCEPT ![t] = None]
      /\ DOMAIN table' = DOMAIN table \cup {nextKv}
      /\ \A h \in DOMAIN table' : table'[h] = IF h = nextKv THEN o ELSE table[h]
  BY <1>1 DEF Store!Enter
<1>3. opening' = [u \in Threads |-> opening'[u]]
  BY <1>2 DEF StoreInv
<1>4. Store!Opened' \subseteq Store!Opened
  <2>1. \A u \in Threads : opening'[u] # None => u # t /\ opening'[u] = opening[u]
    BY <1>2 DEF StoreInv
  <2>2. o.path \in Store!Opened
    BY <1>1, <1>2 DEF Store!Opened
  <2> QED
    BY <1>2, <2>1, <2>2 DEF Store!Opened
<1> QED
  BY <1>2, <1>3, <1>4, UnreadStep DEF StoreInv

LEMMA StoreStep == StoreInv /\ [Store!Next]_storeVars => StoreInv'
<1> SUFFICES ASSUME StoreInv, [Store!Next]_storeVars PROVE StoreInv'
  OBVIOUS
<1>1. ASSUME NEW t \in Threads, NEW m \in Mods, NEW p \in Paths, NEW c \in BOOLEAN,
             Store!Open(t, m, p, c)
      PROVE  StoreInv'
  BY <1>1, OpenStep
<1>2. ASSUME NEW t \in Threads, NEW h \in DOMAIN table, Store!Close(t, h)
      PROVE  StoreInv'
  <2>1. opening' = opening /\ files' = files /\ locker = None /\ reading' = reading
    BY <1>2 DEF Store!Close, Store!Free, Store!Unchanged
  <2>2. Store!Opened' \subseteq Store!Opened
    BY <1>2, <2>1 DEF Store!Close, Store!Without, Store!Opened
  <2> QED
    BY <2>1, <2>2, UnreadStep DEF StoreInv
<1>3. ASSUME NEW t \in Threads, NEW h \in DOMAIN table, NEW k, NEW v,
             Store!Del(t, h, k) \/ Store!Set(t, h, k, v)
      PROVE  StoreInv'
  <2>1. /\ locker = None /\ UNCHANGED <<opening, table, reading>>
        /\ DOMAIN files' = DOMAIN files
    BY <1>3 DEF Store!Del, Store!Set, Store!Store, Store!Free, Store!Unchanged
  <2>2. Store!Opened' = Store!Opened
    BY <2>1 DEF Store!Opened
  <2> QED
    BY <2>1, <2>2, UnreadStep DEF StoreInv
<1>4. ASSUME NEW t \in Threads, NEW h \in DOMAIN table, NEW k,
             Store!Get(t, h, k) \/ Store!Iter(t, h)
      PROVE  StoreInv'
  BY <1>4, ReadStep DEF Store!Get, Store!Iter
<1>5. ASSUME NEW t \in Threads, Store!Sink(t) PROVE StoreInv'
  BY <1>5, SinkStep
<1>6. ASSUME NEW t \in Threads, Store!Done(t) PROVE StoreInv'
  <2>1. \A u \in Threads : reading'[u] = None
    BY <1>6 DEF Store!Done, StoreInv
  <2> QED
    BY <1>6, <2>1 DEF Store!Done, StoreInv, ReadsOneState, Store!ReadsOneState, Store!Opened
<1>7. ASSUME NEW m \in Mods, Store!Load(m) PROVE StoreInv'
  <2>1. /\ UNCHANGED <<opening, table, files, locker, reading, atCall>>
        /\ openers \subseteq openers'
    BY <1>7 DEF Store!Load
  <2>2. Store!Opened' = Store!Opened
    BY <2>1 DEF Store!Opened
  <2>3. ReadsOneState'
    BY <2>1 DEF StoreInv, ReadsOneState, Store!ReadsOneState
  <2> QED
    BY <2>1, <2>2, <2>3 DEF StoreInv
<1>8. ASSUME NEW m \in Mods, Store!Unload(m) PROVE StoreInv'
  <2>1. locker = None /\ UNCHANGED <<files, reading>>
    BY <1>8 DEF Store!Unload
  <2>2. /\ opening' = [t \in Threads |-> opening'[t]]
        /\ \A t \in Threads : opening'[t] # None =>
             opening[t] # None /\ opening'[t].path = opening[t].path
    BY <1>8 DEF Store!Unload
  <2>3. Store!Opened' \subseteq Store!Opened
    BY <1>8, <2>2 DEF Store!Unload, Store!Without, Store!Opened
  <2> QED
    BY <2>1, <2>2, <2>3, UnreadStep DEF StoreInv
<1>9. CASE Store!Restart
  BY <1>9 DEF Store!Restart, Store!Empty, StoreInv, ReadsOneState, Store!ReadsOneState,
              Store!Opened
<1>10. CASE UNCHANGED storeVars
  BY <1>10 DEF storeVars, StoreInv, ReadsOneState, Store!ReadsOneState, Store!Opened
<1>11. ASSUME NEW t \in Threads, Store!Enter(t) PROVE StoreInv'
  BY <1>11, EnterStoreStep
<1> QED
  BY <1>1, <1>2, <1>3, <1>4, <1>5, <1>6, <1>7, <1>8, <1>9, <1>10, <1>11
     DEF Store!Next

-----------------------------------------------------------------------------
(* Money callbacks.                                                        *)

\* Each kind has one trampoline at most, and a stored callback is a loaded mod's.
MoneyInv ==
  /\ moneySlot \in [Economy!Kinds -> owners \cup {None}]
  /\ trampolines \in [Economy!Kinds -> {0, 1}]
  /\ hooked = [k \in Economy!Kinds |-> hooked[k]]
  /\ \A k \in Economy!Kinds : trampolines[k] = 1 => hooked[k]
  /\ Economy!HeardOnce

LEMMA ListenStep ==
  ASSUME MoneyInv, NEW m \in Mods, NEW k \in Economy!Kinds, NEW c \in BOOLEAN,
         Economy!Listen(m, k, c)
  PROVE  MoneyInv'
<1>1. m \in owners /\ owners' = owners /\ heard' = <<>>
  BY DEF Economy!Listen
<1>2. moneySlot' \in [Economy!Kinds -> owners \cup {None}]
  BY <1>1 DEF Economy!Listen, MoneyInv
<1>3. CASE hooked[k]
  BY <1>1, <1>2, <1>3 DEF Economy!Listen, MoneyInv, Economy!HeardOnce
<1>4. CASE ~hooked[k]
  <2>1. trampolines[k] = 0
    BY <1>4 DEF MoneyInv
  <2>2. /\ hooked' = [hooked EXCEPT ![k] = Economy!Ready]
        /\ trampolines' = [trampolines EXCEPT ![k] = IF Economy!Ready THEN @ + 1 ELSE @]
    BY <1>4 DEF Economy!Listen
  <2> HIDE DEF Economy!Ready
  <2>3. /\ trampolines' \in [Economy!Kinds -> {0, 1}]
        /\ trampolines'[k] = 1 => Economy!Ready
        /\ \A j \in Economy!Kinds : j # k => trampolines'[j] = trampolines[j]
    BY <2>1, <2>2 DEF MoneyInv
  <2>4. /\ hooked' = [j \in Economy!Kinds |-> hooked'[j]]
        /\ hooked'[k] <=> Economy!Ready
        /\ \A j \in Economy!Kinds : j # k => hooked'[j] = hooked[j]
    BY <2>2, Zenon DEF MoneyInv
  <2> QED
    BY <1>1, <1>2, <2>3, <2>4 DEF MoneyInv, Economy!HeardOnce
<1> QED
  BY <1>3, <1>4

\* What a transaction calls: of each kind the stored callback, once.
LEMMA TransactStep ==
  ASSUME MoneyInv, NEW r \in BOOLEAN, Economy!Transact(r)
  PROVE  MoneyInv'
<1> DEFINE S == {"before", "after"} \X (owners \cup {None})
<1>1. ASSUME NEW k \in Economy!Kinds
      PROVE  /\ Economy!Calls(k) \in Seq(S) /\ Len(Economy!Calls(k)) \in {0, 1}
             /\ \A i \in 1..Len(Economy!Calls(k)) :
                  /\ Economy!Calls(k)[i][1] = k
                  /\ Economy!Calls(k)[i][2] \in owners
  <2>1. CASE moneySlot[k] = None \/ trampolines[k] = 0
    <3>1. Economy!Calls(k) = [i \in 1..0 |-> <<k, moneySlot[k]>>]
      BY <2>1 DEF Economy!Calls
    <3> QED
      BY <3>1
  <2>2. CASE moneySlot[k] # None /\ trampolines[k] = 1
    <3>1. Economy!Calls(k) = [i \in 1..1 |-> <<k, moneySlot[k]>>]
      BY <2>2 DEF Economy!Calls
    <3>2. moneySlot[k] \in owners
      BY <2>2 DEF MoneyInv
    <3> QED
      BY <3>1, <3>2 DEF Economy!Kinds
  <2> QED
    BY <2>1, <2>2 DEF MoneyInv
<1>2. "before" \in Economy!Kinds /\ "after" \in Economy!Kinds
  BY DEF Economy!Kinds
<1>3. PICK b \in Seq(S) : b = Economy!Calls("before")
  BY <1>1, <1>2
<1>4. PICK a \in Seq(S) : a = Economy!Calls("after")
  BY <1>1, <1>2
<1>5. /\ Len(b) \in {0, 1} /\ Len(a) \in {0, 1}
      /\ \A i \in 1..Len(b) : b[i][1] = "before" /\ b[i][2] \in owners
      /\ \A i \in 1..Len(a) : a[i][1] = "after" /\ a[i][2] \in owners
  BY <1>1, <1>2, <1>3, <1>4
<1>6. heard' = b \o (IF r THEN <<>> ELSE a)
  BY <1>3, <1>4 DEF Economy!Transact
<1>7. PICK x \in Seq(S) : x = IF r THEN <<>> ELSE a
  <2>1. <<>> \in Seq(S)
    OBVIOUS
  <2>2. CASE r = TRUE
    BY <2>1, <2>2, Zenon
  <2>3. CASE r = FALSE
    BY <2>3, Zenon
  <2> QED
    BY <2>2, <2>3
<1>8. /\ Len(x) \in {0, 1}
      /\ \A i \in 1..Len(x) : x[i][1] = "after" /\ x[i][2] \in owners
  BY <1>5, <1>7
<1>9. /\ heard' \in Seq(S) /\ Len(heard') = Len(b) + Len(x)
      /\ \A i \in 1..(Len(b) + Len(x)) :
           heard'[i] = IF i <= Len(b) THEN b[i] ELSE x[i - Len(b)]
  BY <1>6, <1>7, ConcatProperties
<1>10. DOMAIN heard' = 1..(Len(b) + Len(x))
  BY <1>9, LenProperties
<1>11. \A i \in DOMAIN heard' : /\ heard'[i][2] \in owners
                                /\ heard'[i][1] = IF i <= Len(b) THEN "before" ELSE "after"
  BY <1>5, <1>8, <1>9, <1>10
<1>12. \A i, j \in DOMAIN heard' : heard'[i][1] = heard'[j][1] => i = j
  BY <1>5, <1>8, <1>10, <1>11
<1>13. Economy!HeardOnce'
  BY <1>11, <1>12 DEF Economy!Transact, Economy!HeardOnce
<1> QED
  BY <1>13 DEF Economy!Transact, MoneyInv

LEMMA MoneyStep == MoneyInv /\ [Economy!Next]_moneyVars => MoneyInv'
<1> SUFFICES ASSUME MoneyInv, [Economy!Next]_moneyVars PROVE MoneyInv'
  OBVIOUS
<1>1. ASSUME NEW m \in Mods, Economy!Load(m) PROVE MoneyInv'
  BY <1>1 DEF Economy!Load, MoneyInv, Economy!HeardOnce
<1>2. ASSUME NEW m \in Mods, Economy!Unload(m) PROVE MoneyInv'
  BY <1>2 DEF Economy!Unload, MoneyInv, Economy!HeardOnce
<1>3. ASSUME NEW s, Economy!Backend(s) PROVE MoneyInv'
  BY <1>3 DEF Economy!Backend, MoneyInv, Economy!HeardOnce
<1>4. CASE UNCHANGED moneyVars
  BY <1>4 DEF moneyVars, MoneyInv, Economy!HeardOnce
<1> QED
  BY <1>1, <1>2, <1>3, <1>4, ListenStep, TransactStep DEF Economy!Next

-----------------------------------------------------------------------------
(* Hot keys.                                                               *)

\* Flags are numbers never given out twice; a live entry has a flag of its own.
FlagsOnce ==
  /\ ownerOf \in Seq(Mods)
  /\ handlers \in [KeyNames -> Seq(1..Len(ownerOf))]
  /\ \A k \in KeyNames : \A i, j \in DOMAIN handlers[k] :
       handlers[k][i] = handlers[k][j] => i = j

EntriesOwned ==
  /\ entries = [a \in Addresses |-> entries[a]]
  /\ \A a \in Key!Live : /\ entries[a].flag \in 1..Len(ownerOf)
                         /\ entries[a].owner = ownerOf[entries[a].flag]
                         /\ entries[a].owner \in binders
  /\ \A a, b \in Key!Live : entries[a].flag = entries[b].flag => a = b

\* A press has called handlers it passed, and must still reach only later ones.
PressOnItsWay ==
  /\ press = None => pressHeard = <<>> /\ pressDue = {}
  /\ press # None =>
       /\ press \in [name : KeyNames, at : Nat, bound : Nat]
       /\ press.at >= 1 /\ press.at <= press.bound + 1
       /\ press.bound <= Len(handlers[press.name])
       /\ \A f \in pressDue : f \in alive /\ \E i \in press.at .. press.bound :
                                               f = handlers[press.name][i]
       /\ pressHeard \in Seq(Nat)
       /\ \A j \in DOMAIN pressHeard : \E i \in 1 .. (press.at - 1) :
            pressHeard[j] = handlers[press.name][i]

KeyInv == /\ FlagsOnce /\ EntriesOwned /\ PressOnItsWay
          /\ Key!ReachesEveryBinding /\ Key!ArmedWhileBound

\* Removing entries takes exactly their flags down.
LEMMA DestroyStep ==
  ASSUME KeyInv, NEW S \in SUBSET Key!Live, Key!Destroy(S),
         UNCHANGED <<handlers, ownerOf, press, pressHeard>>,
         \A a \in Key!Live \ S : entries[a].owner \in binders'
  PROVE  KeyInv'
<1>1. /\ entries' = [a \in Addresses |-> IF a \in S THEN None ELSE entries[a]]
      /\ alive' = alive \ {entries[a].flag : a \in S}
      /\ pressDue' = pressDue \ {entries[a].flag : a \in S}
  BY DEF Key!Destroy
<1>2. Key!Live' = Key!Live \ S
  BY <1>1 DEF Key!Live
<1>3. \A a \in Key!Live \ S : entries'[a] = entries[a]
  BY <1>1 DEF Key!Live
<1>4. FlagsOnce'
  BY DEF KeyInv, FlagsOnce
<1>5. EntriesOwned'
  <2>1. entries' = [a \in Addresses |-> entries'[a]]
    BY <1>1
  <2>2. \A a \in Key!Live' : /\ a \in Key!Live \ S /\ entries'[a] = entries[a]
                            /\ entries[a].flag \in 1..Len(ownerOf)
                            /\ entries[a].owner = ownerOf[entries[a].flag]
    BY <1>2, <1>3 DEF KeyInv, EntriesOwned
  <2>3. \A a, b \in Key!Live' : entries'[a].flag = entries'[b].flag => a = b
    BY <2>2, ZenonT(40) DEF KeyInv, EntriesOwned
  <2>4. ownerOf' = ownerOf
    OBVIOUS
  <2> QED
    BY <2>1, <2>2, <2>3, <2>4 DEF EntriesOwned
<1>6. PressOnItsWay'
  <2>1. \A f \in pressDue' : f \in pressDue /\ (f \in alive => f \in alive')
    BY <1>1
  <2> QED
    BY <1>1, <2>1 DEF KeyInv, PressOnItsWay
<1>7. Key!ReachesEveryBinding'
  BY <1>1 DEF KeyInv, Key!ReachesEveryBinding
<1>8. Key!ArmedWhileBound'
  <2>1. alive = {entries[a].flag : a \in Key!Live}
    BY DEF KeyInv, Key!ArmedWhileBound
  <2>2. \A a \in Key!Live \ S : entries[a].flag \notin {entries[b].flag : b \in S}
    BY DEF KeyInv, EntriesOwned
  <2>3. alive' = {entries'[a].flag : a \in Key!Live \ S}
    BY <1>1, <1>3, <2>1, <2>2
  <2>4. \A f \in alive' : ownerOf[f] \in binders'
    BY <1>3, <2>3 DEF KeyInv, EntriesOwned
  <2> QED
    BY <1>2, <2>3, <2>4 DEF Key!ArmedWhileBound
<1> QED
  BY <1>4, <1>5, <1>6, <1>7, <1>8 DEF KeyInv

LEMMA KeysRest == KeyInv /\ UNCHANGED keyVars => KeyInv'
BY DEF keyVars, KeyInv, FlagsOnce, EntriesOwned, PressOnItsWay, Key!Live,
       Key!ReachesEveryBinding, Key!ArmedWhileBound

LEMMA RegisterKeyStep ==
  ASSUME KeyInv, NEW m \in Mods, NEW k \in KeyNames, NEW codes \in {0, 1},
         Key!RegisterKey(m, k, codes)
  PROVE  KeyInv'
<1>1. CASE codes = 0
  <2>1. UNCHANGED keyVars
    BY <1>1 DEF Key!RegisterKey, keyVars
  <2> QED
    BY <2>1, KeysRest
<1>2. CASE codes # 0
  <2>1. PICK n \in Nat : n = Len(ownerOf) + 1
    BY LenProperties DEF KeyInv, FlagsOnce
  <2>2. /\ ownerOf' = Append(ownerOf, m) /\ Len(ownerOf') = n
        /\ Len(ownerOf) = n - 1 /\ n >= 1
        /\ \A i \in 1..(n - 1) : ownerOf'[i] = ownerOf[i]
        /\ ownerOf'[n] = m /\ ownerOf' \in Seq(Mods)
    <3>1. ownerOf' = Append(ownerOf, m) /\ ownerOf \in Seq(Mods)
      BY <1>2 DEF Key!RegisterKey, KeyInv, FlagsOnce
    <3> QED
      BY <2>1, <3>1, Appended
  <2>3. PICK a \in Addresses \ Key!Live :
          /\ handlers' = [handlers EXCEPT ![k] = Append(@, n)]
          /\ alive' = alive \cup {n}
          /\ entries' = [entries EXCEPT ![a] = [flag |-> n, owner |-> m]]
    BY <1>2, <2>2 DEF Key!RegisterKey
  <2>4. /\ m \in binders
        /\ UNCHANGED <<binders, press, pressDue, pressHeard>>
    BY <1>2 DEF Key!RegisterKey, Key!Runs
  <2>5. PICK e : e = [flag |-> n, owner |-> m]
    OBVIOUS
  <2>6. e # None /\ e.flag = n /\ e.owner = m
    BY <2>5, NoneAssumption
  <2>7. /\ entries'[a] = e /\ \A b \in Addresses : b # a => entries'[b] = entries[b]
        /\ entries' = [b \in Addresses |-> entries'[b]]
    BY <2>3, <2>5 DEF KeyInv, EntriesOwned
  <2>8. Key!Live' = Key!Live \cup {a}
    BY <2>6, <2>7 DEF Key!Live
  <2>9. /\ handlers'[k] = Append(handlers[k], n)
        /\ \A j \in KeyNames : j # k => handlers'[j] = handlers[j]
        /\ handlers' = [j \in KeyNames |-> handlers'[j]]
    BY <2>3 DEF KeyInv, FlagsOnce
  <2>10. PICK l \in Nat : l = Len(handlers[k])
    BY LenProperties DEF KeyInv, FlagsOnce
  <2>11. /\ \A j \in KeyNames : handlers[j] \in Seq(1..(n - 1)) /\ handlers[j] \in Seq(1..n)
         /\ DOMAIN handlers[k] = 1..l
    BY <2>2, <2>10, LenProperties DEF KeyInv, FlagsOnce
  <2>12. /\ handlers'[k] \in Seq(1..n) /\ DOMAIN handlers'[k] = 1..(l + 1)
         /\ Len(handlers'[k]) = l + 1
         /\ \A i \in 1..l : handlers'[k][i] = handlers[k][i]
         /\ handlers'[k][l + 1] = n
    <3>1. n \in 1..n
      BY <2>2
    <3> QED
      BY <2>9, <2>10, <2>11, <3>1, Appended
  <2>13. \A j \in KeyNames : handlers'[j] \in Seq(1..n)
    BY <2>9, <2>11, <2>12
  <2>14. FlagsOnce'
    <3>1. \A i \in 1..l : handlers[k][i] \in 1..(n - 1)
      BY <2>11, ElementOfSeq
    <3>2. \A i, j \in DOMAIN handlers'[k] : handlers'[k][i] = handlers'[k][j] => i = j
      <4>1. \A i, j \in 1..l : handlers[k][i] = handlers[k][j] => i = j
        BY <2>11 DEF KeyInv, FlagsOnce
      <4>2. n \notin 1..(n - 1)
        BY <2>2
      <4> QED
        BY <2>12, <3>1, <4>1, <4>2, SMTT(30)
    <3>3. \A h \in KeyNames : \A i, j \in DOMAIN handlers'[h] :
            handlers'[h][i] = handlers'[h][j] => i = j
      BY <2>9, <3>2 DEF KeyInv, FlagsOnce
    <3>4. handlers' \in [KeyNames -> Seq(1..n)]
      BY <2>9, <2>13
    <3> QED
      BY <2>2, <3>3, <3>4 DEF FlagsOnce
  <2>15. EntriesOwned'
    <3>1. \A b \in Key!Live : b # a /\ entries[b].flag \in 1..(n - 1)
      BY <2>2, <2>3 DEF KeyInv, EntriesOwned
    <3> QED
      BY <2>2, <2>4, <2>6, <2>7, <2>8, <3>1 DEF KeyInv, EntriesOwned, Key!Live
  <2>16. \A j \in KeyNames : /\ Len(handlers[j]) \in Nat
                             /\ Len(handlers'[j]) \in Nat
                             /\ Len(handlers'[j]) >= Len(handlers[j])
                             /\ \A i \in 1..Len(handlers[j]) : handlers'[j][i] = handlers[j][i]
    <3> SUFFICES ASSUME NEW j \in KeyNames
                 PROVE  /\ Len(handlers[j]) \in Nat /\ Len(handlers'[j]) \in Nat
                        /\ Len(handlers'[j]) >= Len(handlers[j])
                        /\ \A i \in 1..Len(handlers[j]) : handlers'[j][i] = handlers[j][i]
      OBVIOUS
    <3>1. Len(handlers[j]) \in Nat
      BY <2>11, LenProperties
    <3>2. CASE j = k
      BY <2>10, <2>12, <3>2
    <3>3. CASE j # k
      BY <2>9, <3>1, <3>3
    <3> QED
      BY <3>2, <3>3
  <2>17. PressOnItsWay'
    <3>1. CASE press = None
      BY <2>4, <3>1 DEF KeyInv, PressOnItsWay
    <3>2. CASE press # None
      <4>1. PICK p : p = press
        OBVIOUS
      <4>2. /\ p.name \in KeyNames /\ p.at \in Nat /\ p.bound \in Nat
            /\ p.bound <= Len(handlers[p.name]) /\ p.at >= 1 /\ p.at <= p.bound + 1
        BY <3>2, <4>1 DEF KeyInv, PressOnItsWay
      <4>3. \A i \in 1..p.bound : handlers'[p.name][i] = handlers[p.name][i]
        BY <2>16, <4>2, SMTT(30)
      <4>4. p.bound <= Len(handlers'[p.name])
        BY <2>16, <4>2
      <4>5. /\ \A i \in p.at .. p.bound : i \in 1 .. p.bound
            /\ \A i \in 1 .. (p.at - 1) : i \in 1 .. p.bound
        BY <4>2
      <4>6. /\ p \in [name : KeyNames, at : Nat, bound : Nat]
            /\ \A f \in pressDue : f \in alive /\ \E i \in p.at .. p.bound :
                                                   f = handlers[p.name][i]
            /\ pressHeard \in Seq(Nat)
            /\ \A j \in DOMAIN pressHeard : \E i \in 1 .. (p.at - 1) :
                 pressHeard[j] = handlers[p.name][i]
        BY <3>2, <4>1 DEF KeyInv, PressOnItsWay
      <4>7. \A f \in pressDue : f \in alive' /\ \E i \in p.at .. p.bound :
                                                   f = handlers'[p.name][i]
        BY <2>3, <4>3, <4>5, <4>6
      <4>8. \A j \in DOMAIN pressHeard : \E i \in 1 .. (p.at - 1) :
              pressHeard[j] = handlers'[p.name][i]
        BY <4>3, <4>5, <4>6
      <4> QED
        BY <2>4, <3>2, <4>1, <4>2, <4>4, <4>6, <4>7, <4>8 DEF PressOnItsWay
    <3> QED
      BY <3>1, <3>2
  <2>18. Key!ReachesEveryBinding'
    BY <2>4 DEF KeyInv, Key!ReachesEveryBinding
  <2>19. Key!ArmedWhileBound'
    <3>1. alive = {entries[b].flag : b \in Key!Live}
      BY DEF KeyInv, Key!ArmedWhileBound
    <3>2. alive' = {entries'[b].flag : b \in Key!Live \cup {a}}
      BY <2>3, <2>6, <2>7, <3>1 DEF Key!Live
    <3>3. \A f \in alive : f \in 1..(n - 1) /\ ownerOf[f] \in binders
      BY <2>2, <3>1, ZenonT(40) DEF KeyInv, EntriesOwned, Key!ArmedWhileBound
    <3>4. \A f \in alive' : ownerOf'[f] \in binders'
      BY <2>2, <2>3, <2>4, <3>3
    <3> QED
      BY <2>8, <3>2, <3>4 DEF Key!ArmedWhileBound
  <2> QED
    BY <2>14, <2>15, <2>17, <2>18, <2>19 DEF KeyInv
<1> QED
  BY <1>1, <1>2

LEMMA PressStep ==
  ASSUME KeyInv, NEW k \in KeyNames, Key!Press(k)
  PROVE  KeyInv'
<1>1. PICK l \in Nat : l = Len(handlers[k]) /\ l >= 1 /\ DOMAIN handlers[k] = 1..l
  BY EmptySeq, LenProperties DEF Key!Press, KeyInv, FlagsOnce
<1>2. PICK p : p = [name |-> k, at |-> 1, bound |-> l]
  OBVIOUS
<1>3. /\ press' = p /\ p.name = k /\ p.at = 1 /\ p.bound = l
      /\ p \in [name : KeyNames, at : Nat, bound : Nat] /\ p # None
  BY <1>1, <1>2, NoneAssumption DEF Key!Press
<1>4. /\ pressDue' = {handlers[k][i] : i \in 1..l} \cap alive
      /\ pressHeard' = <<>>
      /\ UNCHANGED <<binders, handlers, alive, entries, ownerOf>>
  BY <1>1 DEF Key!Press
<1>5. FlagsOnce' /\ EntriesOwned' /\ Key!ArmedWhileBound'
  BY <1>4 DEF KeyInv, FlagsOnce, EntriesOwned, Key!Live, Key!ArmedWhileBound
<1>6. PressOnItsWay'
  BY <1>1, <1>3, <1>4 DEF PressOnItsWay
<1>7. Key!ReachesEveryBinding'
  BY <1>1, <1>3, <1>4 DEF Key!ReachesEveryBinding
<1> QED
  BY <1>5, <1>6, <1>7 DEF KeyInv

\* A handler that is passed is called if its flag is set, and never called again.
LEMMA HandleStep ==
  ASSUME KeyInv, Key!Handle
  PROVE  KeyInv'
<1>1. PICK p : p = press
  OBVIOUS
<1>2. /\ p # None /\ p \in [name : KeyNames, at : Nat, bound : Nat]
      /\ p.name \in KeyNames /\ p.at \in Nat /\ p.bound \in Nat
      /\ p.at >= 1 /\ p.at <= p.bound /\ p.bound <= Len(handlers[p.name])
  BY <1>1 DEF Key!Handle, KeyInv, PressOnItsWay
<1>3. PICK q : q = [p EXCEPT !.at = @ + 1]
  OBVIOUS
<1>4. /\ press' = q /\ q.name = p.name /\ q.bound = p.bound /\ q.at = p.at + 1
      /\ q \in [name : KeyNames, at : Nat, bound : Nat] /\ q # None
  BY <1>1, <1>2, <1>3, NoneAssumption DEF Key!Handle
<1>5. PICK hs \in Seq(1..Len(ownerOf)) : hs = handlers[p.name]
  BY <1>2 DEF KeyInv, FlagsOnce
<1>6. PICK f : f = hs[p.at]
  OBVIOUS
<1>7. /\ pressHeard' = IF f \in alive THEN Append(pressHeard, f) ELSE pressHeard
      /\ pressDue' = pressDue \ (IF f \in alive THEN {f} ELSE {})
      /\ UNCHANGED <<binders, handlers, alive, entries, ownerOf>>
  BY <1>1, <1>5, <1>6 DEF Key!Handle
<1>8. DOMAIN hs = 1..Len(hs) /\ Len(hs) \in Nat /\ p.at \in DOMAIN hs
  BY <1>2, <1>5, LenProperties
<1>9. \A i, j \in DOMAIN hs : hs[i] = hs[j] => i = j
  BY <1>2, <1>5 DEF KeyInv, FlagsOnce
<1>10. PICK n \in Nat : n = Len(pressHeard) /\ DOMAIN pressHeard = 1..n
  BY <1>1, <1>2, LenProperties DEF KeyInv, PressOnItsWay
<1>11. /\ pressHeard \in Seq(Nat)
       /\ \A j \in 1..n : \E i \in 1 .. (p.at - 1) : pressHeard[j] = hs[i]
       /\ \A j, i \in 1..n : pressHeard[i] = pressHeard[j] => i = j
  BY <1>1, <1>2, <1>5, <1>10 DEF KeyInv, PressOnItsWay, Key!ReachesEveryBinding
<1>12. f \in Nat
  <2>1. hs[p.at] \in 1..Len(ownerOf)
    BY <1>5, <1>8, ElementOfSeq
  <2> QED
    BY <1>6, <2>1, LenProperties DEF KeyInv, FlagsOnce
<1>13. /\ pressHeard' \in Seq(Nat)
       /\ \A j \in DOMAIN pressHeard' : \E i \in 1 .. p.at : pressHeard'[j] = hs[i]
       /\ \A j, i \in DOMAIN pressHeard' : pressHeard'[i] = pressHeard'[j] => i = j
  <2>1. CASE f \notin alive
    <3>1. pressHeard' = pressHeard
      BY <1>7, <2>1
    <3>2. \A i \in 1 .. (p.at - 1) : i \in 1 .. p.at
      BY <1>2
    <3> QED
      BY <1>10, <1>11, <3>1, <3>2
  <2>2. CASE f \in alive
    <3>1. /\ pressHeard' \in Seq(Nat) /\ DOMAIN pressHeard' = 1..(n + 1)
          /\ \A j \in 1..n : pressHeard'[j] = pressHeard[j]
          /\ pressHeard'[n + 1] = f
      BY <1>7, <1>10, <1>11, <1>12, <2>2, AppendProperties, LenProperties
    <3>2. \A j \in 1..n : pressHeard[j] # f
      <4>1. \A i \in 1 .. (p.at - 1) : i \in DOMAIN hs /\ i # p.at
        BY <1>2, <1>8
      <4> SUFFICES ASSUME NEW j \in 1..n, pressHeard[j] = f PROVE FALSE
        OBVIOUS
      <4>2. PICK i \in 1 .. (p.at - 1) : pressHeard[j] = hs[i]
        BY <1>11
      <4>3. i \in DOMAIN hs /\ i # p.at
        BY <4>1
      <4>4. hs[i] = hs[p.at]
        BY <1>6, <4>2
      <4> QED
        BY <1>8, <1>9, <4>3, <4>4
    <3>3. \A j \in 1..(n + 1) : \E i \in 1 .. p.at : pressHeard'[j] = hs[i]
      <4>1. p.at \in 1 .. p.at /\ \A i \in 1 .. (p.at - 1) : i \in 1 .. p.at
        BY <1>2
      <4>2. \A j \in 1..(n + 1) : j \in 1..n \/ j = n + 1
        BY <1>10
      <4>3. \A j \in 1..n : \E i \in 1 .. p.at : pressHeard'[j] = hs[i]
        BY <1>11, <3>1, <4>1
      <4>4. pressHeard'[n + 1] = hs[p.at]
        BY <1>6, <3>1
      <4> QED
        BY <4>1, <4>2, <4>3, <4>4
    <3>4. \A j, i \in 1..(n + 1) : pressHeard'[i] = pressHeard'[j] => i = j
      <4>1. \A j \in 1..(n + 1) : j \in 1..n \/ j = n + 1
        BY <1>10
      <4> QED
        BY <1>11, <3>1, <3>2, <4>1
    <3> QED
      BY <3>1, <3>3, <3>4
  <2> QED
    BY <2>1, <2>2
<1>14. \A g \in pressDue' : g \in alive /\ \E i \in (p.at + 1) .. p.bound : g = hs[i]
  <2> SUFFICES ASSUME NEW g \in pressDue'
               PROVE  g \in alive /\ \E i \in (p.at + 1) .. p.bound : g = hs[i]
    OBVIOUS
  <2>1. g \in pressDue
    BY <1>7
  <2>2. g \in alive /\ \E i \in p.at .. p.bound : g = hs[i]
    BY <1>1, <1>2, <1>5, <2>1 DEF KeyInv, PressOnItsWay
  <2>3. g # f
    BY <1>7, <2>2
  <2> QED
    BY <1>2, <1>6, <2>2, <2>3
<1>15. FlagsOnce' /\ EntriesOwned' /\ Key!ArmedWhileBound'
  BY <1>7 DEF KeyInv, FlagsOnce, EntriesOwned, Key!Live, Key!ArmedWhileBound
<1>16. PressOnItsWay'
  <2>1. q.at - 1 = p.at
    BY <1>2, <1>4
  <2>2. handlers'[q.name] = hs /\ alive' = alive
    BY <1>4, <1>5, <1>7
  <2>3. \A g \in pressDue' : g \in alive' /\ \E i \in q.at .. q.bound :
                                                 g = handlers'[q.name][i]
    BY <1>4, <1>14, <2>2
  <2>4. \A j \in DOMAIN pressHeard' : \E i \in 1 .. (q.at - 1) :
          pressHeard'[j] = handlers'[q.name][i]
    BY <1>13, <2>1, <2>2
  <2>5. /\ q.at >= 1 /\ q.at <= q.bound + 1
        /\ q.bound <= Len(handlers'[q.name])
    BY <1>2, <1>4, <1>5, <2>2
  <2> QED
    BY <1>4, <1>13, <2>3, <2>4, <2>5 DEF PressOnItsWay
<1>17. Key!ReachesEveryBinding'
  <2>1. q.at > q.bound => pressDue' = {}
    BY <1>2, <1>4, <1>14
  <2> QED
    BY <1>4, <1>13, <2>1 DEF Key!ReachesEveryBinding
<1> QED
  BY <1>15, <1>16, <1>17 DEF KeyInv

LEMMA KeyStep == KeyInv /\ [Key!Next]_keyVars => KeyInv'
<1> SUFFICES ASSUME KeyInv, [Key!Next]_keyVars PROVE KeyInv'
  OBVIOUS
<1>1. ASSUME NEW m \in Mods, Key!Load(m) PROVE KeyInv'
  BY <1>1 DEF Key!Load, KeyInv, FlagsOnce, EntriesOwned, PressOnItsWay, Key!Live,
              Key!ReachesEveryBinding, Key!ArmedWhileBound
<1>2. ASSUME NEW m \in Mods, Key!Unload(m) PROVE KeyInv'
  <2>1. /\ Key!Destroy({a \in Key!Live : entries[a].owner = m})
        /\ binders' = binders \ {m}
        /\ UNCHANGED <<handlers, ownerOf, press, pressHeard>>
    BY <1>2 DEF Key!Unload
  <2>2. \A a \in Key!Live \ {b \in Key!Live : entries[b].owner = m} :
          entries[a].owner \in binders'
    BY <2>1 DEF KeyInv, EntriesOwned
  <2> QED
    BY <2>1, <2>2, DestroyStep
<1>3. ASSUME NEW m \in Mods, NEW a \in Addresses, Key!UnregisterKey(m, a) PROVE KeyInv'
  <2>1. /\ Key!Destroy({a} \cap Key!Live)
        /\ UNCHANGED <<binders, handlers, ownerOf, press, pressHeard>>
    BY <1>3 DEF Key!UnregisterKey
  <2>2. \A b \in Key!Live : entries[b].owner \in binders'
    BY <2>1 DEF KeyInv, EntriesOwned
  <2> QED
    BY <2>1, <2>2, DestroyStep
<1>4. CASE Key!Released
  <2>1. pressDue = {} /\ press' = None /\ pressHeard' = <<>>
        /\ UNCHANGED <<binders, handlers, alive, entries, ownerOf, pressDue>>
    BY <1>4 DEF Key!Released, KeyInv, Key!ReachesEveryBinding
  <2> QED
    BY <2>1 DEF KeyInv, FlagsOnce, EntriesOwned, PressOnItsWay, Key!Live,
                Key!ReachesEveryBinding, Key!ArmedWhileBound
<1>5. CASE UNCHANGED keyVars
  BY <1>5, KeysRest
<1> QED
  BY <1>1, <1>2, <1>3, <1>4, <1>5, RegisterKeyStep, PressStep, HandleStep DEF Key!Next

-----------------------------------------------------------------------------
(* Events.                                                                 *)

\* A listener runs in a dispatch, and in that of a command only if a player gave it.
EventInv ==
  /\ event # None => event \in [name : EventNames, player : BOOLEAN, before : Event!Data,
                                data : Event!Data, refused : BOOLEAN]
  /\ shown # None => /\ event # None /\ due # <<>>
                     /\ event.name \in CommandEvents => event.player = TRUE
  /\ asked = [f \in DOMAIN asked |-> asked[f]]
  /\ event # None =>
       /\ \A f \in Event!Fields : event.data[f] =
            IF f \in DOMAIN asked THEN asked[f] ELSE event.before[f]
       /\ event.refused = TRUE => event.player = TRUE /\ event.name \notin Executed

\* What leaves the event and its history alone leaves the rest, as long as the
\* listener that runs is the first one due.
LEMMA AsideStep ==
  ASSUME EventInv, UNCHANGED <<event, asked>>,
         shown' # None => /\ event # None /\ due' # <<>>
                          /\ event.name \in CommandEvents => event.player = TRUE
  PROVE  EventInv'
BY DEF EventInv

LEMMA DispatchStep ==
  ASSUME EventInv, NEW n \in EventNames, NEW player \in BOOLEAN,
         NEW data \in Event!Data, Event!Dispatch(n, player, data)
  PROVE  EventInv'
<1>1. PICK e : e = [name |-> n, player |-> player, before |-> data, data |-> data,
                    refused |-> FALSE]
  OBVIOUS
<1>2. /\ event' = e /\ asked' = [f \in {} |-> Absent] /\ shown' = None
  BY <1>1 DEF Event!Dispatch, EventInv
<1>3. /\ e \in [name : EventNames, player : BOOLEAN, before : Event!Data,
                data : Event!Data, refused : BOOLEAN]
      /\ e.data = data /\ e.before = data /\ e.refused = FALSE
  BY <1>1
<1>4. DOMAIN asked' = {} /\ asked' = [f \in DOMAIN asked' |-> asked'[f]]
  BY <1>2
<1> QED
  BY <1>2, <1>3, <1>4 DEF EventInv

LEMMA WriteBackStep ==
  ASSUME EventInv, NEW edit \in Event!Data, Event!WriteBack(edit)
  PROVE  EventInv'
<1>1. PICK e : e = event
  OBVIOUS
<1>2. /\ e \in [name : EventNames, player : BOOLEAN, before : Event!Data,
                data : Event!Data, refused : BOOLEAN]
      /\ shown # None /\ e # None /\ due # <<>>
      /\ e.name \in CommandEvents => e.player = TRUE
      /\ \A f \in Event!Fields : e.data[f] =
           IF f \in DOMAIN asked THEN asked[f] ELSE e.before[f]
      /\ e.refused = TRUE => e.player = TRUE /\ e.name \notin Executed
  BY <1>1 DEF Event!WriteBack, EventInv
<1>3. PICK S : S = Event!Changed(edit)
  OBVIOUS
<1>4. S \subseteq Event!Fields
  BY <1>3 DEF Event!Changed
<1>5. PICK d : d = [f \in Event!Fields |-> IF f \in S THEN edit[f] ELSE e.data[f]]
  OBVIOUS
<1>6. d \in Event!Data
  BY <1>2, <1>5 DEF Event!Data
<1>7. PICK c : c = [e EXCEPT !.data = d]
  OBVIOUS
<1>8. /\ c \in [name : EventNames, player : BOOLEAN, before : Event!Data,
                data : Event!Data, refused : BOOLEAN]
      /\ c.name = e.name /\ c.player = e.player /\ c.before = e.before /\ c.data = d
      /\ c.refused = e.refused /\ c # None
  BY <1>2, <1>6, <1>7, NoneAssumption
<1>9. /\ event' = c
      /\ asked' = [f \in DOMAIN asked \cup S |-> IF f \in S THEN edit[f] ELSE asked[f]]
      /\ UNCHANGED <<shown, due>>
  BY <1>1, <1>3, <1>5, <1>7 DEF Event!WriteBack, Event!Merged
<1>10. \A f \in Event!Fields : c.data[f] =
         IF f \in DOMAIN asked' THEN asked'[f] ELSE c.before[f]
  BY <1>2, <1>5, <1>8, <1>9
<1>11. asked' = [f \in DOMAIN asked' |-> asked'[f]]
  BY <1>9
<1> QED
  BY <1>2, <1>8, <1>9, <1>10, <1>11 DEF EventInv

LEMMA RefuseStep ==
  ASSUME EventInv, Event!Refuse
  PROVE  EventInv'
<1>1. PICK e : e = event
  OBVIOUS
<1>2. /\ e \in [name : EventNames, player : BOOLEAN, before : Event!Data,
                data : Event!Data, refused : BOOLEAN]
      /\ shown # None /\ e # None /\ due # <<>>
      /\ e.name \in CommandEvents /\ e.player = TRUE
      /\ \A f \in Event!Fields : e.data[f] =
           IF f \in DOMAIN asked THEN asked[f] ELSE e.before[f]
      /\ e.refused = TRUE => e.player = TRUE /\ e.name \notin Executed
  BY <1>1 DEF Event!Refuse, EventInv
<1>3. PICK r \in BOOLEAN : r = (e.refused \/ e.name \notin Executed)
  OBVIOUS
<1>4. r = TRUE => e.refused = TRUE \/ e.name \notin Executed
  BY <1>2, <1>3
<1>5. PICK c : c = [e EXCEPT !.refused = r]
  OBVIOUS
<1>6. /\ c \in [name : EventNames, player : BOOLEAN, before : Event!Data,
                data : Event!Data, refused : BOOLEAN]
      /\ c.name = e.name /\ c.player = e.player /\ c.before = e.before /\ c.data = e.data
      /\ c.refused = r /\ c # None
  BY <1>2, <1>5, NoneAssumption
<1>7. event' = c /\ UNCHANGED <<shown, due, asked>>
  BY <1>1, <1>3, <1>5 DEF Event!Refuse
<1>8. asked = [f \in DOMAIN asked |-> asked[f]]
  BY DEF EventInv
<1> QED
  BY <1>2, <1>4, <1>6, <1>7, <1>8 DEF EventInv

LEMMA EventStep == EventInv /\ [Event!Next]_eventVars => EventInv'
<1> SUFFICES ASSUME EventInv, [Event!Next]_eventVars PROVE EventInv'
  OBVIOUS
<1>1. ASSUME UNCHANGED <<event, due, shown, asked>> PROVE EventInv'
  BY <1>1 DEF EventInv
<1>2. ASSUME NEW m \in Mods, Event!ModGone(m) PROVE EventInv'
  BY <1>1, <1>2 DEF Event!ModGone, Event!dispatchVars
<1>3. ASSUME NEW m \in Mods, NEW w \in Spellings, NEW p \in 0..1, Event!Subscribe(m, w, p)
      PROVE  EventInv'
  BY <1>1, <1>3 DEF Event!Subscribe, Event!dispatchVars
<1>4. ASSUME NEW m \in Mods, NEW id \in 1..MaxListeners, Event!Unsubscribe(m, id)
      PROVE  EventInv'
  BY <1>1, <1>4 DEF Event!Unsubscribe, Event!dispatchVars
<1>5. ASSUME NEW n \in EventNames, NEW player \in BOOLEAN,
             NEW own \in [Own -> Health \cup {Absent}],
             Event!Dispatch(n, player, [f \in Event!Fields |->
                                          IF f \in Own THEN own[f] ELSE Absent])
      PROVE  EventInv'
  <2>1. PICK data : data = [f \in Event!Fields |-> IF f \in Own THEN own[f] ELSE Absent]
    OBVIOUS
  <2>2. data \in Event!Data
    BY <2>1 DEF Event!Data
  <2> QED
    BY <1>5, <2>1, <2>2, DispatchStep
<1>6. CASE Event!Enter
  <2>1. event.name \in CommandEvents => event.player = TRUE
    BY <1>6 DEF Event!Enter, EventInv
  <2> QED
    BY <1>6, <2>1, AsideStep DEF Event!Enter
<1>7. CASE Event!Pass
  BY <1>7, AsideStep DEF Event!Pass
<1>8. CASE Event!Leave
  BY <1>8, AsideStep DEF Event!Leave
<1>9. CASE Event!Finish
  BY <1>9 DEF Event!Finish, EventInv
<1>10. CASE UNCHANGED eventVars
  BY <1>1, <1>10 DEF eventVars
<1> QED
  BY <1>2, <1>3, <1>4, <1>5, <1>6, <1>7, <1>8, <1>9, <1>10, RefuseStep, WriteBackStep
     DEF Event!Next

-----------------------------------------------------------------------------
(* Commands.                                                               *)

\* The table keeps one binding per name, of the mod that was last told the name is
\* its own or of nobody; the closures the game holds for a name look that one up.
TableSound ==
  /\ gen \in [Mods -> Nat]
  /\ stage = [m \in Mods |-> stage[m]] /\ muted = [m \in Mods |-> muted[m]]
  /\ gCommands \in [CommandWords -> Nat]
  /\ closures = [n \in CommandWords |-> closures[n]]
  /\ holder = [n \in CommandWords |-> holder[n]]
  /\ bindings \in Seq([mod : Mods \cup {None}, gen : Nat])
  /\ \A n \in CommandWords : gCommands[n] # 0 => gCommands[n] <= Len(bindings)
  /\ \A n, o \in CommandWords : gCommands[n] = gCommands[o] => n = o \/ gCommands[n] = 0

BindingsHeld ==
  \A n \in CommandWords : gCommands[n] # 0 =>
    /\ bindings[gCommands[n]].mod = holder[n]
    /\ holder[n] # None => /\ holder[n] \in Mods
                           /\ bindings[gCommands[n]].gen = gen[holder[n]]
                           /\ stage[holder[n]] # "absent"

ClosuresBound ==
  \A n \in CommandWords :
    /\ gCommands[n] = 0 => closures[n] = <<>>
    /\ \A i \in DOMAIN closures[n] : closures[n][i].binding = gCommands[n]

CommandInv == /\ TableSound /\ BindingsHeld /\ ClosuresBound
              /\ ModCommand!CallsItsHolder

LEMMA CommandsRest == CommandInv /\ UNCHANGED commandVars => CommandInv'
<1> SUFFICES ASSUME CommandInv, UNCHANGED commandVars PROVE CommandInv'
  OBVIOUS
<1>1. UNCHANGED <<stage, gen, muted, bindings, gCommands, closures, holder, entered>>
  BY DEF commandVars
<1>2. TableSound'
  BY <1>1 DEF CommandInv, TableSound
<1>3. BindingsHeld'
  BY <1>1 DEF CommandInv, BindingsHeld
<1>4. ClosuresBound' /\ ModCommand!CallsItsHolder'
  BY <1>1 DEF CommandInv, ClosuresBound, ModCommand!CallsItsHolder
<1> QED
  BY <1>2, <1>3, <1>4 DEF CommandInv

\* A mod that loads again has a new generation; its names are nobody's then.
LEMMA CommandLoadStep ==
  ASSUME CommandInv, NEW m \in Mods, ModCommand!Load(m)
  PROVE  CommandInv'
<1>1. /\ stage[m] = "absent"
      /\ stage' = [stage EXCEPT ![m] = "disabled"]
      /\ gen' = [gen EXCEPT ![m] = @ + 1]
      /\ muted' = [muted EXCEPT ![m] = FALSE]
      /\ entered' = None
      /\ UNCHANGED <<bindings, gCommands, closures, holder>>
  BY DEF ModCommand!Load, ModCommand!tableVars
<1>2. TableSound'
  <2>1. gen' \in [Mods -> Nat]
    BY <1>1 DEF CommandInv, TableSound
  <2>2. stage' = [o \in Mods |-> stage'[o]]
    BY <1>1 DEF CommandInv, TableSound
  <2>3. muted' = [o \in Mods |-> muted'[o]]
    BY <1>1 DEF CommandInv, TableSound
  <2> QED
    BY <1>1, <2>1, <2>2, <2>3 DEF CommandInv, TableSound
<1>3. \A o \in Mods : o # m => gen'[o] = gen[o] /\ stage'[o] = stage[o]
  BY <1>1 DEF CommandInv, TableSound
<1>4. BindingsHeld'
  <2>1. \A n \in CommandWords : gCommands[n] # 0 => holder[n] # m
    BY <1>1, NoneAssumption DEF CommandInv, BindingsHeld
  <2> QED
    BY <1>1, <1>3, <2>1 DEF CommandInv, BindingsHeld
<1>5. ClosuresBound' /\ ModCommand!CallsItsHolder'
  BY <1>1 DEF CommandInv, ClosuresBound, ModCommand!CallsItsHolder
<1> QED
  BY <1>2, <1>4, <1>5 DEF CommandInv

LEMMA CommandTurnStep ==
  ASSUME CommandInv, NEW m \in Mods, ModCommand!Enable(m) \/ ModCommand!Disable(m)
  PROVE  CommandInv'
<1>1. /\ stage[m] # "absent" /\ entered' = None
      /\ stage' = stage \/ stage' = [stage EXCEPT ![m] = "enabled"]
                        \/ stage' = [stage EXCEPT ![m] = "disabled"]
      /\ muted' = [muted EXCEPT ![m] = TRUE] \/ muted' = [muted EXCEPT ![m] = FALSE]
      /\ UNCHANGED <<gen, bindings, gCommands, closures, holder>>
  BY DEF ModCommand!Enable, ModCommand!Disable, ModCommand!tableVars
<1>2. /\ \A o \in Mods : stage[o] # "absent" => stage'[o] # "absent"
      /\ stage' = [o \in Mods |-> stage'[o]]
      /\ muted' = [o \in Mods |-> muted'[o]]
  BY <1>1 DEF CommandInv, TableSound
<1>3. TableSound'
  BY <1>1, <1>2 DEF CommandInv, TableSound
<1>4. BindingsHeld'
  BY <1>1, <1>2 DEF CommandInv, BindingsHeld
<1>5. ClosuresBound' /\ ModCommand!CallsItsHolder'
  BY <1>1 DEF CommandInv, ClosuresBound, ModCommand!CallsItsHolder
<1> QED
  BY <1>3, <1>4, <1>5 DEF CommandInv

\* The bindings of a mod that goes are nulled, and its names become nobody's.
LEMMA CommandUnloadStep ==
  ASSUME CommandInv, NEW m \in Mods, ModCommand!Unload(m)
  PROVE  CommandInv'
<1>1. /\ stage' = [stage EXCEPT ![m] = "absent"]
      /\ muted' = [muted EXCEPT ![m] = TRUE]
      /\ holder' = [n \in CommandWords |-> IF holder[n] = m THEN None ELSE holder[n]]
      /\ entered' = None /\ UNCHANGED <<gen, gCommands, closures>>
  BY DEF ModCommand!Unload
<1>2. PICK v \in [mod : Mods \cup {None}, gen : Nat] : v = [mod |-> None, gen |-> 0]
  OBVIOUS
<1>3. bindings' = [b \in DOMAIN bindings |->
        IF bindings[b].mod = m /\ \E n \in CommandWords : gCommands[n] = b
          THEN v ELSE bindings[b]]
  BY <1>2 DEF ModCommand!Unload, ModCommand!ModGone, ModCommand!Vacant
<1>4. PICK l \in Nat : l = Len(bindings) /\ DOMAIN bindings = 1..l
  BY LenProperties DEF CommandInv, TableSound
<1>5. /\ bindings' \in Seq([mod : Mods \cup {None}, gen : Nat]) /\ Len(bindings') = l
  <2>1. \A b \in 1..l : bindings[b] \in [mod : Mods \cup {None}, gen : Nat]
    BY <1>4, ElementOfSeq DEF CommandInv, TableSound
  <2>2. bindings' = [b \in 1..l |-> bindings'[b]]
    BY <1>3, <1>4
  <2>3. \A b \in 1..l : bindings'[b] \in [mod : Mods \cup {None}, gen : Nat]
    BY <1>3, <1>4, <2>1
  <2> QED
    <3>1. bindings' \in [1..l -> [mod : Mods \cup {None}, gen : Nat]]
      BY <2>2, <2>3
    <3> QED
      BY <3>1, IsSequence
<1>6. /\ stage' = [o \in Mods |-> stage'[o]] /\ muted' = [o \in Mods |-> muted'[o]]
      /\ \A o \in Mods : o # m => stage'[o] = stage[o]
  BY <1>1 DEF CommandInv, TableSound
<1>7. TableSound'
  BY <1>1, <1>4, <1>5, <1>6 DEF CommandInv, TableSound
<1>8. \A n \in CommandWords : gCommands[n] # 0 =>
        /\ gCommands[n] \in DOMAIN bindings
        /\ bindings'[gCommands[n]] = IF holder[n] = m THEN v ELSE bindings[gCommands[n]]
  <2> SUFFICES ASSUME NEW n \in CommandWords, gCommands[n] # 0
               PROVE  /\ gCommands[n] \in DOMAIN bindings
                      /\ bindings'[gCommands[n]] =
                           IF holder[n] = m THEN v ELSE bindings[gCommands[n]]
    OBVIOUS
  <2>1. PICK g \in Nat : g = gCommands[n]
    BY DEF CommandInv, TableSound
  <2>2. g \in DOMAIN bindings
    BY <1>4, <2>1 DEF CommandInv, TableSound
  <2>3. bindings[g].mod = holder[n]
    BY <2>1 DEF CommandInv, BindingsHeld
  <2> QED
    BY <1>3, <2>1, <2>2, <2>3
<1>9. BindingsHeld'
  BY <1>1, <1>2, <1>6, <1>8 DEF CommandInv, BindingsHeld
<1>10. ClosuresBound' /\ ModCommand!CallsItsHolder'
  BY <1>1 DEF CommandInv, ClosuresBound, ModCommand!CallsItsHolder
<1> QED
  BY <1>7, <1>9, <1>10 DEF CommandInv

\* A name that was registered before goes to whoever may claim it.
LEMMA RebindStep ==
  ASSUME CommandInv, NEW m \in Mods, NEW n \in CommandWords,
         ModCommand!Rebind(m, n), stage[m] # "absent",
         entered' = None, UNCHANGED <<stage, gen, muted>>
  PROVE  CommandInv'
<1>1. PICK e : e = [mod |-> m, gen |-> gen[m]]
  OBVIOUS
<1>2. e \in [mod : Mods \cup {None}, gen : Nat] /\ e.mod = m /\ e.gen = gen[m]
  BY <1>1 DEF CommandInv, TableSound
<1>3. PICK l \in Nat : l = Len(bindings) /\ DOMAIN bindings = 1..l
  BY LenProperties DEF CommandInv, TableSound
<1>4. PICK b \in 1..l : b = gCommands[n]
  BY <1>3 DEF ModCommand!Rebind, CommandInv, TableSound
<1>5. /\ bindings' = [bindings EXCEPT ![b] = e]
      /\ holder' = [holder EXCEPT ![n] = m]
      /\ UNCHANGED <<gCommands, closures>>
  BY <1>1, <1>4 DEF ModCommand!Rebind
<1>6. /\ bindings' \in Seq([mod : Mods \cup {None}, gen : Nat]) /\ Len(bindings') = l
      /\ bindings'[b] = e /\ \A c \in 1..l : c # b => bindings'[c] = bindings[c]
  BY <1>2, <1>3, <1>5, ExceptSeq DEF CommandInv, TableSound
<1>7. /\ holder' = [o \in CommandWords |-> holder'[o]] /\ holder'[n] = m
      /\ \A o \in CommandWords : o # n => holder'[o] = holder[o]
  BY <1>5 DEF CommandInv, TableSound
<1>8. TableSound'
  BY <1>3, <1>5, <1>6, <1>7 DEF CommandInv, TableSound
<1>9. \A o \in CommandWords : /\ o # n => gCommands[o] # b
                              /\ gCommands[o] # 0 => gCommands[o] \in 1..l
  BY <1>3, <1>4 DEF CommandInv, TableSound
<1>10. BindingsHeld'
  BY <1>2, <1>4, <1>5, <1>6, <1>7, <1>9 DEF CommandInv, BindingsHeld
<1>11. ClosuresBound' /\ ModCommand!CallsItsHolder'
  BY <1>5 DEF CommandInv, ClosuresBound, ModCommand!CallsItsHolder
<1> QED
  BY <1>8, <1>10, <1>11 DEF CommandInv

\* The first registration; when it throws, none of its overloads is in the game.
LEMMA InstallStep ==
  ASSUME CommandInv, NEW m \in Mods, NEW n \in CommandWords, NEW overloads,
         Len(overloads) \in Nat, NEW done \in {0, Len(overloads)},
         ModCommand!Install(m, n, overloads, done), stage[m] # "absent",
         entered' = None, UNCHANGED <<stage, gen, muted>>
  PROVE  CommandInv'
<1>1. PICK e : e = [mod |-> m, gen |-> gen[m]]
  OBVIOUS
<1>2. e \in [mod : Mods \cup {None}, gen : Nat] /\ e.mod = m /\ e.gen = gen[m]
  BY <1>1 DEF CommandInv, TableSound
<1>3. PICK l \in Nat : l = Len(bindings) /\ DOMAIN bindings = 1..l
  BY LenProperties DEF CommandInv, TableSound
<1>4. PICK b \in Nat : b = l + 1 /\ b # 0
  BY <1>3
<1>5. PICK s : s = [i \in 1..done |-> [binding |-> b, params |-> overloads[i]]]
  OBVIOUS
<1>6. PICK g \in Nat : g = IF done = Len(overloads) THEN b ELSE 0
  BY <1>4
<1>7. /\ gCommands[n] = 0
      /\ bindings' = Append(bindings, e)
      /\ closures' = [closures EXCEPT ![n] = @ \o s]
      /\ gCommands' = [gCommands EXCEPT ![n] = g]
      /\ holder' = [holder EXCEPT ![n] = IF g = b THEN m ELSE @]
  BY <1>1, <1>3, <1>4, <1>5, <1>6 DEF ModCommand!Install
<1>8. /\ Len(bindings') = b /\ bindings' \in Seq([mod : Mods \cup {None}, gen : Nat])
      /\ bindings'[b] = e /\ \A c \in 1..l : bindings'[c] = bindings[c]
  BY <1>2, <1>3, <1>4, <1>7, Appended DEF CommandInv, TableSound
<1>9. /\ closures[n] = <<>> /\ closures[n] \o s = s
  <2>1. PICK S : S = {[binding |-> b, params |-> overloads[i]] : i \in 1..done}
    OBVIOUS
  <2>2. done \in Nat
    OBVIOUS
  <2>3. s \in Seq(S)
    BY <1>5, <2>1, <2>2
  <2> QED
    BY <1>7, <2>3, ConcatEmptySeq DEF CommandInv, ClosuresBound
<1>10. /\ closures'[n] = s /\ gCommands'[n] = g
       /\ g = b => holder'[n] = m
       /\ \A o \in CommandWords : o # n => /\ closures'[o] = closures[o]
                                           /\ gCommands'[o] = gCommands[o]
                                           /\ holder'[o] = holder[o]
       /\ closures' = [o \in CommandWords |-> closures'[o]]
       /\ gCommands' \in [CommandWords -> Nat]
       /\ holder' = [o \in CommandWords |-> holder'[o]]
  BY <1>7, <1>9 DEF CommandInv, TableSound
<1>11. \A o \in CommandWords : gCommands[o] # 0 => gCommands[o] \in 1..l
  BY <1>3 DEF CommandInv, TableSound
<1>12. g \in {0, b} /\ \A o \in CommandWords : gCommands[o] # b
  BY <1>3, <1>4, <1>6, <1>11
<1>13. TableSound'
  <2>1. \A o \in CommandWords : gCommands'[o] # 0 => gCommands'[o] <= b
    BY <1>4, <1>10, <1>11, <1>12
  <2>2. \A o, q \in CommandWords :
          gCommands'[o] = gCommands'[q] => o = q \/ gCommands'[o] = 0
    BY <1>10, <1>12 DEF CommandInv, TableSound
  <2> QED
    BY <1>8, <1>10, <2>1, <2>2 DEF CommandInv, TableSound
<1>14. BindingsHeld'
  <2> SUFFICES ASSUME NEW o \in CommandWords, gCommands'[o] # 0
               PROVE  /\ bindings'[gCommands'[o]].mod = holder'[o]
                      /\ holder'[o] # None =>
                           /\ holder'[o] \in Mods
                           /\ bindings'[gCommands'[o]].gen = gen[holder'[o]]
                           /\ stage[holder'[o]] # "absent"
    BY DEF BindingsHeld
  <2>1. CASE o = n
    BY <1>2, <1>8, <1>10, <1>12, <2>1
  <2>2. CASE o # n
    BY <1>8, <1>10, <1>11, <2>2, SMTT(20) DEF CommandInv, BindingsHeld
  <2> QED
    BY <2>1, <2>2
<1>15. ClosuresBound'
  <2>1. g = 0 => s = <<>>
    BY <1>4, <1>5, <1>6
  <2>2. \A i \in DOMAIN s : s[i].binding = g
    BY <1>4, <1>5, <1>6
  <2> QED
    BY <1>10, <2>1, <2>2 DEF CommandInv, ClosuresBound
<1>16. ModCommand!CallsItsHolder'
  BY DEF ModCommand!CallsItsHolder
<1> QED
  BY <1>13, <1>14, <1>15, <1>16 DEF CommandInv

LEMMA RegisterStep ==
  ASSUME CommandInv, Breaks \subseteq {0}, NEW m \in Mods, NEW n \in CommandWords,
         NEW overloads, Len(overloads) \in Nat, ModCommand!Register(m, n, overloads)
  PROVE  CommandInv'
<1>1. stage[m] # "absent" /\ entered' = None /\ UNCHANGED <<stage, gen, muted>>
  BY DEF ModCommand!Register, ModCommand!modVars
<1>2. CASE ModCommand!Rebind(m, n)
  BY <1>1, <1>2, RebindStep
<1>3. CASE \E done \in (Breaks \cap 0..Len(overloads)) \cup {Len(overloads)} :
             ModCommand!Install(m, n, overloads, done)
  <2>1. PICK done \in (Breaks \cap 0..Len(overloads)) \cup {Len(overloads)} :
          ModCommand!Install(m, n, overloads, done)
    BY <1>3
  <2>2. done \in {0, Len(overloads)}
    OBVIOUS
  <2> QED
    BY <1>1, <2>1, <2>2, InstallStep
<1> QED
  BY <1>2, <1>3 DEF ModCommand!Register

\* What a closure calls is what its binding says.
LEMMA ExecuteStep ==
  ASSUME CommandInv, NEW n \in CommandWords, NEW i \in DOMAIN closures[n], NEW given,
         ModCommand!Execute(n, i, given)
  PROVE  CommandInv'
<1>1. PICK g \in Nat : g = gCommands[n]
  BY DEF CommandInv, TableSound
<1>2. closures[n][i].binding = g
  BY <1>1 DEF CommandInv, ClosuresBound
<1>3. g # 0
  <2>1. DOMAIN closures[n] # {}
    OBVIOUS
  <2> QED
    BY <1>1, <2>1 DEF CommandInv, ClosuresBound
<1>4. PICK a : a = [overload |-> i, given |-> ModCommand!Serialised(closures[n][i].params, given)]
  OBVIOUS
<1>5. /\ bindings[g].mod # None
      /\ entered' = [name |-> n, mod |-> bindings[g].mod, gen |-> bindings[g].gen, args |-> a]
      /\ UNCHANGED <<stage, gen, muted, bindings, gCommands, closures, holder>>
  BY <1>2, <1>4 DEF ModCommand!Execute, ModCommand!modVars, ModCommand!tableVars
<1>6. /\ bindings[g].mod = holder[n] /\ holder[n] \in Mods
      /\ bindings[g].gen = gen[holder[n]] /\ stage[holder[n]] # "absent"
  BY <1>1, <1>3, <1>5 DEF CommandInv, BindingsHeld
<1>7. entered'.name = n /\ entered'.mod = holder[n] /\ entered'.gen = gen[holder[n]]
  BY <1>5, <1>6
<1>8. ModCommand!CallsItsHolder'
  BY <1>5, <1>6, <1>7 DEF ModCommand!CallsItsHolder
<1>9. TableSound' /\ BindingsHeld' /\ ClosuresBound'
  BY <1>5 DEF CommandInv, TableSound, BindingsHeld, ClosuresBound
<1> QED
  BY <1>8, <1>9 DEF CommandInv

LEMMA CommandStep ==
  ASSUME Breaks \subseteq {0}
  PROVE  CommandInv /\ [ModCommand!Next]_commandVars => CommandInv'
<1> SUFFICES ASSUME CommandInv, [ModCommand!Next]_commandVars PROVE CommandInv'
  OBVIOUS
<1>1. ASSUME NEW m \in Mods, NEW n \in CommandWords, ModCommand!RegisterCommand(m, n)
      PROVE  CommandInv'
  <2>1. PICK o : o = << <<ModCommand!RawText>> >>
    OBVIOUS
  <2>2. Len(o) \in Nat /\ ModCommand!Register(m, n, o)
    BY <1>1, <2>1 DEF ModCommand!RegisterCommand
  <2> QED
    BY <2>2, RegisterStep
<1>2. ASSUME NEW m \in Mods, NEW n \in CommandWords, NEW d \in SomeDeclarations,
             ModCommand!RegisterCommandEx(m, n, d)
      PROVE  CommandInv'
  <2>1. Len(d) \in Nat
    BY DEF SomeDeclarations
  <2> QED
    BY <1>2, <2>1, RegisterStep DEF ModCommand!RegisterCommandEx
<1>3. ASSUME NEW n \in CommandWords, NEW i \in DOMAIN closures[n],
             NEW given, ModCommand!Execute(n, i, given)
      PROVE  CommandInv'
  BY <1>3, ExecuteStep
<1>4. CASE UNCHANGED commandVars
  BY <1>4, CommandsRest
<1> QED
  BY <1>1, <1>2, <1>3, <1>4, CommandLoadStep, CommandTurnStep, CommandUnloadStep
     DEF ModCommand!Next

-----------------------------------------------------------------------------
(* The parts together.                                                     *)

\* Whatever moves, each of the parts makes a step of its own or none.
Moves ==
  /\ [Store!Next]_storeVars
  /\ [Economy!Next]_moneyVars
  /\ [Key!Next]_keyVars
  /\ [Event!Next]_eventVars
  /\ [ModCommand!Next]_commandVars
  /\ [Life!Next]_lifeVars
  /\ [Topic!Next]_busVars

modsVars == <<part, vars, questionVars, lifeVars, commandVars, eventVars, storeVars,
              moneyVars, keyVars, busVars>>

LEMMA ModsMove == [ModsNext]_modsVars => Moves
<1>1. ModsNext => Moves
  BY Zenon DEF ModsNext, Moves
<1>2. UNCHANGED modsVars => Moves
  BY Zenon DEF modsVars, Moves
<1> QED
  BY <1>1, <1>2

LEMMA StoreBegins == ModsInit => StoreInv
<1> SUFFICES ASSUME ModsInit PROVE StoreInv
  OBVIOUS
<1>1. /\ opening = [t \in Threads |-> None] /\ table = Store!Empty
      /\ locker = None /\ reading = [t \in Threads |-> None]
  BY DEF ModsInit, Store!Init
<1>2. DOMAIN table = {}
  BY <1>1 DEF Store!Empty
<1>3. Store!Opened = {}
  BY <1>1, <1>2 DEF Store!Opened
<1> QED
  BY <1>1, <1>3 DEF StoreInv, ReadsOneState, Store!ReadsOneState

LEMMA MoneyBegins == ModsInit => MoneyInv
BY DEF ModsInit, Economy!Init, MoneyInv, Economy!HeardOnce

LEMMA KeysBegin == ModsInit => KeyInv
<1> SUFFICES ASSUME ModsInit PROVE KeyInv
  OBVIOUS
<1>1. /\ ownerOf = <<>> /\ handlers = [k \in KeyNames |-> <<>>] /\ alive = {}
      /\ entries = [a \in Addresses |-> None] /\ binders = {}
      /\ press = None /\ pressDue = {} /\ pressHeard = <<>>
  BY DEF ModsInit, Key!Init
<1>2. Key!Live = {}
  BY <1>1 DEF Key!Live
<1> QED
  BY <1>1, <1>2 DEF KeyInv, FlagsOnce, EntriesOwned, PressOnItsWay,
                    Key!ReachesEveryBinding, Key!ArmedWhileBound

LEMMA EventsBegin == ModsInit => EventInv
BY DEF ModsInit, Event!Init, EventInv

LEMMA CommandsBegin == ModsInit => CommandInv
BY DEF ModsInit, ModCommand!Init, CommandInv, TableSound, BindingsHeld, ClosuresBound,
       ModCommand!CallsItsHolder

\* A transaction reaches a mod's callback once of each kind at most, a press reaches
\* each binding of its key once, and both only a mod that is loaded.
THEOREM HeardOnceTheorem == ModsSpec => []HeardOnce
<1>1. MoneyInv /\ [ModsNext]_modsVars => MoneyInv'
  BY ModsMove, MoneyStep DEF Moves
<1>2. KeyInv /\ [ModsNext]_modsVars => KeyInv'
  BY ModsMove, KeyStep DEF Moves
<1>3. MoneyInv /\ KeyInv => HeardOnce
  BY DEF MoneyInv, KeyInv, HeardOnce
<1> QED
  BY <1>1, <1>2, <1>3, MoneyBegins, KeysBegin, PTL DEF ModsSpec, modsVars

\* The edits of all listeners reach the event, what the bridge added for them does
\* not, and only a command a player gave is refused, before it runs.
THEOREM EditsArriveTheorem == ModsSpec => []EditsArrive
<1>1. EventInv /\ [ModsNext]_modsVars => EventInv'
  BY ModsMove, EventStep DEF Moves
<1>2. EventInv => EditsArrive
  BY DEF EventInv, EditsArrive, Event!EditsArrive
<1> QED
  BY <1>1, <1>2, EventsBegin, PTL DEF ModsSpec, modsVars

\* A command calls the mod last told that the name is its own, in the load that is
\* running, unless a registration throws with some overloads already in the game.
THEOREM CallsItsHolderTheorem ==
  ASSUME Breaks \subseteq {0}
  PROVE  ModsSpec => []CallsItsHolder
<1>1. CommandInv /\ [ModsNext]_modsVars => CommandInv'
  BY ModsMove, CommandStep DEF Moves
<1>2. CommandInv => CallsItsHolder
  BY DEF CommandInv, CallsItsHolder
<1> QED
  BY <1>1, <1>2, CommandsBegin, PTL DEF ModsSpec, modsVars

\* What an iteration has handed over is the store as it was when it began.
THEOREM ReadsOneStateTheorem == ModsSpec => []ReadsOneState
<1>1. StoreInv /\ [ModsNext]_modsVars => StoreInv'
  BY ModsMove, StoreStep DEF Moves
<1>2. StoreInv => ReadsOneState
  BY DEF StoreInv
<1> QED
  BY <1>1, <1>2, StoreBegins, PTL DEF ModsSpec, modsVars

-----------------------------------------------------------------------------
(* The event bus: whatever the callbacks subscribe, remove, publish,       *)
(* disable or unload while a publish is on its way.                        *)

Ids == Topic!SubIds
Called == {"copied", "checked"}
BusFrames ==
  [kind : {"publish", "unload"}, mod : Mods, topic : Topics \cup {None},
   at : Called \cup {"loop", "inside"}, todo : Seq(Ids), id : Nat,
   callee : Mods \cup {None}, veto : BOOLEAN, owed : SUBSET Ids, last : Nat]

Increasing(s) == \A i, j \in DOMAIN s : i < j => s[i] < s[j]

BusTypes ==
  /\ busStage \in [Mods -> {"absent", "disabled", "enabled", "gone"}]
  /\ subs \in [Ids -> [mod : Mods \cup {None}, topic : Topics \cup {None}]]
  /\ nextSub \in Nat \ {0}
  /\ byTopic \in [Topics -> Seq(Ids)]
  /\ busStack \in [Threads -> Seq(BusFrames)]

\* A subscription is of a mod that can still be called, and a topic lists its
\* subscriptions in the order they were made.
IndexSound ==
  /\ \A id \in Ids : id >= nextSub => subs[id].mod = None
  /\ \A id \in Ids : subs[id].mod # None => busStage[subs[id].mod] \in {"disabled", "enabled"}
  /\ \A c \in Topics : /\ Increasing(byTopic[c])
                       /\ \A i \in DOMAIN byTopic[c] : subs[byTopic[c][i]].mod # None

\* A dispatch goes through its list oldest first; what it owes a call is there, of an
\* enabled mod, and still to come.
DispatchOk(f) ==
  /\ f.at \in Called => f.id > f.last /\ f.callee \in Mods
  /\ Increasing(f.todo)
  /\ \A i \in DOMAIN f.todo : f.todo[i] > f.last /\ (f.at \in Called => f.todo[i] > f.id)
  /\ \A id \in f.owed :
       /\ subs[id].mod # None /\ busStage[subs[id].mod] = "enabled"
       /\ \/ \E i \in DOMAIN f.todo : f.todo[i] = id
          \/ f.at \in Called /\ f.id = id /\ f.callee = subs[id].mod

\* The server thread disables and unloads nothing while it is on its way to a callback.
MainOk(f) ==
  /\ f.at = "copied" => busStage[f.callee] \in {"disabled", "enabled"}
  /\ f.at = "checked" => busStage[f.callee] = "enabled"

FrameSound(t, f) == DispatchOk(f) /\ (t = Main => MainOk(f))

\* Below the top every frame runs a mod's code.
NestedInside ==
  \A t \in Threads : \A d \in DOMAIN busStack[t] :
    d < Len(busStack[t]) => busStack[t][d].at = "inside"

BusInv ==
  /\ BusTypes /\ IndexSound /\ NestedInside
  /\ \A t \in Threads : \A d \in DOMAIN busStack[t] : FrameSound(t, busStack[t][d])

-----------------------------------------------------------------------------
(* Steps on the top of a stack.                                            *)

LEMMA BusTop ==
  ASSUME BusTypes, NEW t \in Threads
  PROVE  \E n \in Nat : /\ n = Len(busStack[t]) /\ DOMAIN busStack[t] = 1..n
                        /\ busStack[t] = <<>> <=> n = 0
                        /\ \A d \in 1..n : busStack[t][d] \in BusFrames
<1>1. busStack[t] \in Seq(BusFrames)
  BY DEF BusTypes
<1>2. PICK n \in Nat : n = Len(busStack[t]) /\ DOMAIN busStack[t] = 1..n
  BY <1>1, LenProperties
<1>3. \A d \in 1..n : busStack[t][d] \in BusFrames
  BY <1>1, <1>2, ElementOfSeq
<1>4. busStack[t] = <<>> <=> n = 0
  BY <1>1, <1>2, EmptySeq
<1> QED
  BY <1>2, <1>3, <1>4

TablesRest == UNCHANGED <<busStage, subs, byTopic, nextSub>>

LEMMA SoundKept ==
  ASSUME TablesRest, NEW t, NEW f, FrameSound(t, f)
  PROVE  FrameSound(t, f)'
BY DEF TablesRest, FrameSound, DispatchOk, MainOk

LEMMA TablesKept ==
  ASSUME BusInv, TablesRest
  PROVE  IndexSound'
BY DEF BusInv, TablesRest, IndexSound

\* The top frame becomes f.
LEMMA BusReplaced ==
  ASSUME BusInv, TablesRest, NEW t \in Threads, NEW n \in Nat, n = Len(busStack[t]), n # 0,
         NEW f \in BusFrames, busStack' = [busStack EXCEPT ![t][n] = f], FrameSound(t, f)
  PROVE  BusInv'
<1>1. busStack[t] \in Seq(BusFrames) /\ DOMAIN busStack[t] = 1..n
  BY LenProperties DEF BusInv, BusTypes
<1>2. PICK s : s = [busStack[t] EXCEPT ![n] = f]
  OBVIOUS
<1>3. s \in Seq(BusFrames) /\ Len(s) = n /\ DOMAIN s = 1..n /\ s[n] = f
      /\ \A d \in 1..n : d # n => s[d] = busStack[t][d]
  BY <1>1, <1>2, ExceptSeq, LenProperties
<1>4. busStack' = [busStack EXCEPT ![t] = s]
  BY <1>2
<1>5. /\ busStack' \in [Threads -> Seq(BusFrames)] /\ busStack'[t] = s
      /\ \A u \in Threads : u # t => busStack'[u] = busStack[u]
  BY <1>3, <1>4 DEF BusInv, BusTypes
<1>6. BusTypes'
  BY <1>5 DEF BusInv, BusTypes, TablesRest
<1>7. NestedInside'
  BY <1>1, <1>3, <1>5 DEF BusInv, NestedInside
<1>8. ASSUME NEW u \in Threads, NEW d \in DOMAIN busStack'[u]
      PROVE  FrameSound(u, busStack[u][d])'
  <2>1. PICK g : g = busStack'[u][d]
    OBVIOUS
  <2>2. FrameSound(u, g)
    BY <1>1, <1>3, <1>5, <2>1 DEF BusInv
  <2>3. FrameSound(u, g)'
    BY <2>2, SoundKept
  <2> QED
    BY <2>1, <2>3 DEF FrameSound, DispatchOk, MainOk
<1> QED
  BY <1>6, <1>7, <1>8, TablesKept DEF BusInv

\* A mod's stage moves, and no frame or table minds.
LEMMA StageMoved ==
  ASSUME BusInv, NEW m \in Mods, NEW v \in {"absent", "disabled", "enabled"},
         busStage' = [busStage EXCEPT ![m] = v], UNCHANGED <<subs, byTopic, nextSub>>,
         \/ busStage[m] \in {"absent", "gone"}
         \/ busStage[m] = "disabled" /\ v = "enabled"
  PROVE  /\ busStage' \in [Mods -> {"absent", "disabled", "enabled", "gone"}]
         /\ IndexSound'
         /\ \A u \in Threads : \A f \in BusFrames : FrameSound(u, f) => FrameSound(u, f)'
<1>1. /\ busStage' \in [Mods -> {"absent", "disabled", "enabled", "gone"}]
      /\ \A o \in Mods \ {m} : busStage'[o] = busStage[o]
      /\ busStage'[m] = v
  BY DEF BusInv, BusTypes
<1>2. \A id \in Ids : subs[id].mod \in Mods \cup {None}
  BY DEF BusInv, BusTypes
<1>3. IndexSound'
  BY <1>1, <1>2 DEF BusInv, IndexSound
<1>4. ASSUME NEW u \in Threads, NEW f \in BusFrames, FrameSound(u, f)
      PROVE  FrameSound(u, f)'
  <2>1. f.owed \in SUBSET Ids
    BY DEF BusFrames
  <2>2. DispatchOk(f)'
    BY <1>1, <1>2, <1>4, <2>1 DEF FrameSound, DispatchOk
  <2>3. u = Main => MainOk(f)'
    BY <1>1, <1>4 DEF FrameSound, MainOk, DispatchOk, Called
  <2> QED
    BY <2>2, <2>3 DEF FrameSound
<1> QED
  BY <1>1, <1>3, <1>4

\* Nothing but the frames on the stacks has to be sound.
LEMMA StacksSame ==
  ASSUME BusInv, busStage' \in [Mods -> {"absent", "disabled", "enabled", "gone"}],
         UNCHANGED <<subs, byTopic, nextSub, busStack>>, IndexSound',
         \A u \in Threads : \A f \in BusFrames : FrameSound(u, f) => FrameSound(u, f)'
  PROVE  BusInv'
<1>1. BusTypes' /\ NestedInside'
  BY DEF BusInv, BusTypes, NestedInside
<1>2. ASSUME NEW u \in Threads, NEW d \in DOMAIN busStack'[u]
      PROVE  FrameSound(u, busStack[u][d])'
  <2>1. d \in DOMAIN busStack[u] /\ busStack[u][d] \in BusFrames
    BY BusTop DEF BusInv
  <2>2. PICK g \in BusFrames : g = busStack[u][d]
    BY <2>1
  <2>3. FrameSound(u, g)
    BY <2>1, <2>2 DEF BusInv
  <2>4. FrameSound(u, g)' /\ g = busStack'[u][d]
    BY <2>2, <2>3
  <2> QED
    BY <2>4 DEF FrameSound, DispatchOk, MainOk
<1> QED
  BY <1>1, <1>2 DEF BusInv

\* The top frame goes.
LEMMA BusPopped ==
  ASSUME BusInv, NEW t \in Threads, NEW n \in Nat, n = Len(busStack[t]), n # 0,
         busStack' = [busStack EXCEPT ![t] = SubSeq(@, 1, n - 1)],
         busStage' \in [Mods -> {"absent", "disabled", "enabled", "gone"}],
         UNCHANGED <<subs, byTopic, nextSub>>, IndexSound',
         \A u \in Threads : \A f \in BusFrames : FrameSound(u, f) => FrameSound(u, f)'
  PROVE  BusInv'
<1>1. /\ busStack[t] \in Seq(BusFrames) /\ DOMAIN busStack[t] = 1..n
      /\ \A d \in 1..(n - 1) : busStack[t][d] \in BusFrames
  BY LenProperties, ElementOfSeq DEF BusInv, BusTypes
<1>2. PICK s : s = SubSeq(busStack[t], 1, n - 1)
  OBVIOUS
<1>3. /\ s \in Seq(BusFrames) /\ Len(s) = n - 1 /\ DOMAIN s = 1..(n - 1)
      /\ \A d \in 1..(n - 1) : s[d] = busStack[t][d]
  BY <1>1, <1>2, SubSeqProperties, LenProperties
<1>4. /\ busStack' \in [Threads -> Seq(BusFrames)] /\ busStack'[t] = s
      /\ \A u \in Threads : u # t => busStack'[u] = busStack[u]
  BY <1>2, <1>3 DEF BusInv, BusTypes
<1>5. BusTypes'
  BY <1>4 DEF BusInv, BusTypes
<1>6. NestedInside'
  <2>1. \A d \in 1..(n - 1) : busStack[t][d].at = "inside"
    BY <1>1 DEF BusInv, NestedInside
  <2> QED
    BY <1>3, <1>4, <2>1 DEF BusInv, NestedInside
<1>7. ASSUME NEW u \in Threads, NEW d \in DOMAIN busStack'[u]
      PROVE  FrameSound(u, busStack[u][d])'
  <2>1. d \in DOMAIN busStack[u] /\ busStack'[u][d] = busStack[u][d]
    BY <1>1, <1>3, <1>4
  <2>2. busStack[u][d] \in BusFrames
    BY <2>1, BusTop DEF BusInv
  <2>3. PICK g \in BusFrames : g = busStack[u][d]
    BY <2>2
  <2>4. FrameSound(u, g)' /\ g = busStack'[u][d]
    BY <2>1, <2>3 DEF BusInv
  <2> QED
    BY <2>4, ZenonT(40) DEF FrameSound, DispatchOk, MainOk
<1> QED
  BY <1>5, <1>6, <1>7 DEF BusInv

\* A frame is pushed on code of a mod.
LEMMA BusPushed ==
  ASSUME BusInv, TablesRest, NEW t \in Threads, Topic!ModCode(t),
         NEW f \in BusFrames, busStack' = [busStack EXCEPT ![t] = Append(@, f)],
         FrameSound(t, f)
  PROVE  BusInv'
<1>1. PICK n \in Nat : /\ n = Len(busStack[t]) /\ DOMAIN busStack[t] = 1..n
                       /\ busStack[t] = <<>> <=> n = 0
  BY BusTop DEF BusInv
<1>2. PICK s : s = Append(busStack[t], f)
  OBVIOUS
<1>3. busStack[t] \in Seq(BusFrames)
  BY DEF BusInv, BusTypes
<1>4. /\ s \in Seq(BusFrames) /\ Len(s) = n + 1 /\ DOMAIN s = 1..(n + 1) /\ s[n + 1] = f
      /\ \A d \in 1..n : s[d] = busStack[t][d]
  BY <1>1, <1>2, <1>3, Appended
<1>5. /\ busStack' \in [Threads -> Seq(BusFrames)] /\ busStack'[t] = s
      /\ \A u \in Threads : u # t => busStack'[u] = busStack[u]
  BY <1>2, <1>4 DEF BusInv, BusTypes
<1>6. BusTypes'
  BY <1>5 DEF BusInv, BusTypes, TablesRest
<1>7. NestedInside'
  <2>1. \A d \in 1..n : busStack[t][d].at = "inside"
    BY <1>1 DEF BusInv, NestedInside, Topic!ModCode, Topic!Top
  <2>2. \A d \in 1..n : s[d].at = "inside"
    BY <1>4, <2>1
  <2>3. \A d \in 1..(n + 1) : d < n + 1 => d \in 1..n
    OBVIOUS
  <2>4. \A d \in DOMAIN s : d < Len(s) => s[d].at = "inside"
    BY <1>4, <2>2, <2>3
  <2> QED
    BY <1>5, <2>4 DEF BusInv, NestedInside
<1>8. ASSUME NEW u \in Threads, NEW d \in DOMAIN busStack'[u]
      PROVE  FrameSound(u, busStack[u][d])'
  <2>1. PICK g : g = busStack'[u][d]
    OBVIOUS
  <2>2. \A e \in 1..(n + 1) : e = n + 1 \/ e \in 1..n
    OBVIOUS
  <2>3. FrameSound(u, g)
    BY <1>1, <1>4, <1>5, <2>1, <2>2 DEF BusInv
  <2>4. FrameSound(u, g)'
    BY <2>3, SoundKept
  <2> QED
    BY <2>1, <2>4 DEF FrameSound, DispatchOk, MainOk
<1> QED
  BY <1>6, <1>7, <1>8, TablesKept DEF BusInv


-----------------------------------------------------------------------------
(* Lists of subscriptions.                                                 *)

LEMMA KeptIds ==
  ASSUME NEW s \in Seq(Ids), Increasing(s), NEW K \in SUBSET (DOMAIN s)
  PROVE  /\ Topic!Kept(s, K) \in Seq(Ids) /\ Increasing(Topic!Kept(s, K))
         /\ \A i \in DOMAIN Topic!Kept(s, K) : \E k \in K : Topic!Kept(s, K)[i] = s[k]
<1>1. PICK w : w = Topic!Kept(s, K)
  OBVIOUS
<1>2. w = Kept(s, K)
  BY <1>1, Zenon DEF Kept, Rank, Cardinality, Topic!Kept, Topic!Rank, Topic!Cardinality
<1>3. /\ w \in Seq(Ids) /\ \A i \in DOMAIN w : \E k \in K : w[i] = s[k]
      /\ \A i, j \in DOMAIN w : i < j => \E k, l \in K : k < l /\ w[i] = s[k] /\ w[j] = s[l]
  BY <1>2, KeptElements
<1>4. Increasing(w)
  <2> SUFFICES ASSUME NEW i \in DOMAIN w, NEW j \in DOMAIN w, i < j PROVE w[i] < w[j]
    BY DEF Increasing
  <2>1. PICK k \in K, l \in K : k < l /\ w[i] = s[k] /\ w[j] = s[l]
    BY <1>3
  <2> QED
    BY <2>1 DEF Increasing
<1> QED
  BY <1>1, <1>3, <1>4

LEMMA IdsDropped ==
  ASSUME BusInv, NEW c \in Topics, NEW ids, NEW w, w = Topic!Without(byTopic[c], ids)
  PROVE  /\ w \in Seq(Ids) /\ Increasing(w)
         /\ \A i \in DOMAIN w : w[i] \notin ids /\ w[i] \in Ids /\ subs[w[i]].mod # None
<1>1. PICK s \in Seq(Ids) : s = byTopic[c]
  BY DEF BusInv, BusTypes
<1>2. Increasing(s) /\ \A k \in DOMAIN s : s[k] \in Ids /\ subs[s[k]].mod # None
  BY <1>1, LenProperties, ElementOfSeq DEF BusInv, IndexSound
<1>3. PICK K \in SUBSET (DOMAIN s) : K = {i \in DOMAIN s : s[i] \notin ids}
  OBVIOUS
<1>4. w = Topic!Kept(s, K)
  BY <1>1, <1>3 DEF Topic!Without
<1>5. \A k \in K : k \in DOMAIN s /\ s[k] \notin ids
  BY <1>3
<1> QED
  BY <1>2, <1>4, <1>5, KeptIds

LEMMA IdsAsked ==
  ASSUME BusInv, NEW c \in Topics, NEW m, NEW w, w = Topic!IdsFor(c, m)
  PROVE  /\ w \in Seq(Ids) /\ Increasing(w)
         /\ \A i \in DOMAIN w : w[i] \in Ids /\ subs[w[i]].mod # None
<1>1. PICK s \in Seq(Ids) : s = byTopic[c]
  BY DEF BusInv, BusTypes
<1>2. Increasing(s) /\ \A k \in DOMAIN s : s[k] \in Ids /\ subs[s[k]].mod # None
  BY <1>1, LenProperties, ElementOfSeq DEF BusInv, IndexSound
<1>3. PICK K \in SUBSET (DOMAIN s) : K = {i \in DOMAIN s : subs[s[i]].mod # m}
  OBVIOUS
<1>4. w = Topic!Kept(s, K)
  BY <1>1, <1>3 DEF Topic!IdsFor
<1>5. \A k \in K : k \in DOMAIN s
  OBVIOUS
<1> QED
  BY <1>2, <1>4, <1>5, KeptIds

-----------------------------------------------------------------------------
(* What a publish no longer owes.                                          *)

LEMMA MainInside ==
  ASSUME BusInv, Topic!ModCode(Main)
  PROVE  \A d \in DOMAIN busStack[Main] : busStack[Main][d].at = "inside"
<1>1. PICK n \in Nat : /\ n = Len(busStack[Main]) /\ DOMAIN busStack[Main] = 1..n
                       /\ busStack[Main] = <<>> <=> n = 0
  BY BusTop, BusAssumption DEF BusInv
<1> QED
  BY <1>1, BusAssumption DEF BusInv, NestedInside, Topic!ModCode, Topic!Top

\* What the tables and stages lose is in ids.
Loses(ids) ==
  /\ busStage' \in [Mods -> {"absent", "disabled", "enabled", "gone"}]
  /\ \A id \in Ids \ ids : subs[id].mod # None /\ busStage[subs[id].mod] = "enabled" =>
       subs'[id] = subs[id] /\ busStage'[subs[id].mod] = "enabled"
  /\ busStage' = busStage \/ Topic!ModCode(Main)

LEMMA FrameExcused ==
  ASSUME NEW f \in BusFrames, NEW ids, NEW g, g = [f EXCEPT !.owed = f.owed \ ids]
  PROVE  /\ g \in BusFrames /\ g.at = f.at /\ g.todo = f.todo /\ g.id = f.id
         /\ g.callee = f.callee /\ g.last = f.last /\ g.owed = f.owed \ ids
<1>1. g \in BusFrames
  BY DEF BusFrames
<1> QED
  BY <1>1 DEF BusFrames

LEMMA FramesExcused ==
  ASSUME BusInv, NEW ids, Loses(ids), NEW ex, ex = Topic!Excused(ids)
  PROVE  /\ ex \in [Threads -> Seq(BusFrames)]
         /\ \A t \in Threads : /\ DOMAIN ex[t] = DOMAIN busStack[t]
                               /\ Len(ex[t]) = Len(busStack[t])
         /\ \A t \in Threads : \A d \in DOMAIN busStack[t] :
              ex[t][d].at = busStack[t][d].at /\ FrameSound(t, ex[t][d])'
<1>1. \A t \in Threads : \A d \in DOMAIN busStack[t] : busStack[t][d] \in BusFrames
  BY BusTop DEF BusInv
<1>2. /\ ex = [t \in Threads |-> ex[t]]
      /\ \A t \in Threads : ex[t] = [d \in DOMAIN busStack[t] |-> ex[t][d]]
      /\ \A t \in Threads : \A d \in DOMAIN busStack[t] :
           ex[t][d] = [busStack[t][d] EXCEPT !.owed = @ \ ids]
  BY DEF Topic!Excused
<1>3. \A t \in Threads : \A d \in DOMAIN busStack[t] : ex[t][d] \in BusFrames
  <2> TAKE t \in Threads
  <2> TAKE d \in DOMAIN busStack[t]
  <2>1. PICK f \in BusFrames : f = busStack[t][d]
    BY <1>1
  <2>2. PICK g : g = [f EXCEPT !.owed = f.owed \ ids]
    OBVIOUS
  <2>3. g \in BusFrames
    BY <2>2, FrameExcused
  <2>4. ex[t][d] = g
    BY <1>2, <2>1, <2>2
  <2> QED
    BY <2>3, <2>4
<1>4. \A t \in Threads : ex[t] \in Seq(BusFrames) /\ DOMAIN ex[t] = DOMAIN busStack[t]
                         /\ Len(ex[t]) = Len(busStack[t])
  <2> TAKE t \in Threads
  <2>1. PICK n \in Nat : n = Len(busStack[t]) /\ DOMAIN busStack[t] = 1..n
    BY BusTop DEF BusInv
  <2>2. ex[t] \in [1..n -> BusFrames]
    BY <1>2, <1>3, <2>1
  <2>3. ex[t] \in Seq(BusFrames) /\ Len(ex[t]) = n
    BY <2>2, IsSequence
  <2> QED
    BY <2>1, <2>2, <2>3
<1>5. ASSUME NEW t \in Threads, NEW d \in DOMAIN busStack[t]
      PROVE  ex[t][d].at = busStack[t][d].at /\ FrameSound(t, ex[t][d])'
  <2>1. PICK f \in BusFrames : f = busStack[t][d]
    BY <1>1
  <2>2. PICK g \in BusFrames : g = ex[t][d]
    BY <1>3
  <2>3. /\ g.at = f.at /\ g.todo = f.todo /\ g.id = f.id /\ g.callee = f.callee
        /\ g.last = f.last /\ g.owed = f.owed \ ids
    <3>1. g = [f EXCEPT !.owed = f.owed \ ids]
      BY <1>2, <2>1, <2>2
    <3>2. /\ g.at = f.at /\ g.todo = f.todo /\ g.id = f.id
          /\ g.callee = f.callee /\ g.last = f.last /\ g.owed = f.owed \ ids
      BY <3>1, FrameExcused
    <3> QED
      BY <3>2
  <2>4. FrameSound(t, f)
    BY <2>1 DEF BusInv
  <2>5. \A id \in g.owed : /\ id \in f.owed /\ id \in Ids
                           /\ subs'[id] = subs[id] /\ busStage'[subs[id].mod] = "enabled"
    BY <2>1, <2>3, <2>4 DEF BusFrames, FrameSound, DispatchOk, Loses
  <2>6. DispatchOk(g)'
    BY <2>3, <2>4, <2>5 DEF FrameSound, DispatchOk
  <2>7. t = Main => MainOk(g)'
    <3>1. CASE busStage' = busStage
      BY <2>3, <2>4, <3>1 DEF FrameSound, MainOk
    <3>2. CASE Topic!ModCode(Main)
      BY <2>1, <2>3, <3>2, MainInside DEF MainOk
    <3> QED
      BY <3>1, <3>2 DEF Loses
  <2> QED
    BY <2>1, <2>2, <2>3, <2>6, <2>7 DEF FrameSound
<1> QED
  BY <1>2, <1>4, <1>5

LEMMA ExcusedStep ==
  ASSUME BusInv, NEW ids, Loses(ids), busStack' = Topic!Excused(ids),
         subs' \in [Ids -> [mod : Mods \cup {None}, topic : Topics \cup {None}]],
         byTopic' \in [Topics -> Seq(Ids)], nextSub' = nextSub, IndexSound'
  PROVE  BusInv'
<1>1. PICK ex : ex = Topic!Excused(ids)
  OBVIOUS
<1>2. /\ ex \in [Threads -> Seq(BusFrames)]
      /\ \A t \in Threads : /\ DOMAIN ex[t] = DOMAIN busStack[t]
                            /\ Len(ex[t]) = Len(busStack[t])
      /\ \A t \in Threads : \A d \in DOMAIN busStack[t] :
           ex[t][d].at = busStack[t][d].at /\ FrameSound(t, ex[t][d])'
  BY <1>1, FramesExcused
<1>3. busStack' = ex
  BY <1>1
<1>4. BusTypes'
  BY <1>2, <1>3 DEF BusInv, BusTypes, Loses
<1>5. NestedInside'
  BY <1>2, <1>3 DEF BusInv, NestedInside
<1>6. ASSUME NEW t \in Threads, NEW d \in DOMAIN busStack'[t]
      PROVE  FrameSound(t, busStack[t][d])'
  BY <1>2, <1>3 DEF FrameSound, DispatchOk, MainOk
<1> QED
  BY <1>4, <1>5, <1>6 DEF BusInv

LEMMA TopicsDropped ==
  ASSUME BusInv, NEW ids, byTopic' = [c \in Topics |-> Topic!Without(byTopic[c], ids)]
  PROVE  /\ byTopic' \in [Topics -> Seq(Ids)]
         /\ \A c \in Topics : /\ Increasing(byTopic[c])'
                              /\ \A i \in DOMAIN byTopic'[c] :
                                   /\ byTopic'[c][i] \in Ids \ ids
                                   /\ subs[byTopic'[c][i]].mod # None
<1>1. ASSUME NEW c \in Topics
      PROVE  /\ byTopic'[c] \in Seq(Ids) /\ Increasing(byTopic[c])'
             /\ \A i \in DOMAIN byTopic'[c] : /\ byTopic'[c][i] \in Ids \ ids
                                              /\ subs[byTopic'[c][i]].mod # None
  <2>1. PICK w : w = Topic!Without(byTopic[c], ids)
    OBVIOUS
  <2>2. /\ w \in Seq(Ids) /\ Increasing(w)
        /\ \A i \in DOMAIN w : w[i] \notin ids /\ w[i] \in Ids /\ subs[w[i]].mod # None
    BY <2>1, IdsDropped, ZenonT(40)
  <2>3. byTopic'[c] = w
    BY <2>1
  <2> QED
    BY <2>2, <2>3 DEF Increasing
<1>2. byTopic' = [c \in Topics |-> byTopic'[c]]
  OBVIOUS
<1> QED
  BY <1>1, <1>2

LEMMA UnsubscribeStep ==
  ASSUME BusInv, NEW t \in Threads, NEW m \in Mods, NEW id \in Ids,
         Topic!Unsubscribe(t, m, id)
  PROVE  BusInv'
<1>1. /\ subs' = [i \in Ids |-> IF i \in {id} THEN Topic!NoSub ELSE subs[i]]
      /\ byTopic' = [c \in Topics |-> Topic!Without(byTopic[c], {id})]
      /\ busStack' = Topic!Excused({id}) /\ UNCHANGED <<busStage, nextSub>>
  BY DEF Topic!Unsubscribe, Topic!Remove, Ids
<1>2. Topic!NoSub \in [mod : Mods \cup {None}, topic : Topics \cup {None}]
      /\ Topic!NoSub.mod = None
  BY DEF Topic!NoSub
<1>3. /\ subs' \in [Ids -> [mod : Mods \cup {None}, topic : Topics \cup {None}]]
      /\ \A i \in Ids : IF i = id THEN subs'[i].mod = None ELSE subs'[i] = subs[i]
  BY <1>1, <1>2 DEF BusInv, BusTypes
<1>4. /\ byTopic' \in [Topics -> Seq(Ids)]
      /\ \A c \in Topics : /\ Increasing(byTopic[c])'
                           /\ \A i \in DOMAIN byTopic'[c] : /\ byTopic'[c][i] \in Ids \ {id}
                                                            /\ subs[byTopic'[c][i]].mod # None
  BY <1>1, TopicsDropped
<1>5. IndexSound'
  <2>1. \A i \in Ids : subs'[i].mod # None => subs'[i] = subs[i]
    BY <1>3
  <2>2. \A c \in Topics : \A i \in DOMAIN byTopic'[c] : subs'[byTopic'[c][i]].mod # None
    BY <1>3, <1>4
  <2> QED
    BY <1>1, <1>4, <2>1, <2>2 DEF BusInv, IndexSound
<1>6. Loses({id})
  BY <1>1, <1>3 DEF Loses, BusInv, BusTypes
<1> QED
  BY <1>1, <1>3, <1>4, <1>5, <1>6, ExcusedStep


-----------------------------------------------------------------------------
(* Subscribing and publishing.                                             *)

LEMMA SubscribeStep ==
  ASSUME BusInv, NEW t \in Threads, NEW m \in Mods, NEW c \in Topics,
         Topic!Subscribe(t, m, c)
  PROVE  BusInv'
<1>1. PICK k \in Nat : k = nextSub
  BY DEF BusInv, BusTypes
<1>2. k \in Ids
  BY <1>1, BusAssumption DEF Topic!Subscribe, BusInv, BusTypes, Ids, Topic!SubIds
<1>3. PICK e : e = [mod |-> m, topic |-> c]
  OBVIOUS
<1>4. e \in [mod : Mods \cup {None}, topic : Topics \cup {None}] /\ e.mod = m
  BY <1>3
<1>5. /\ busStage[m] \in {"disabled", "enabled"}
      /\ subs' = [subs EXCEPT ![k] = e]
      /\ byTopic' = [byTopic EXCEPT ![c] = Append(byTopic[c], k)]
      /\ nextSub' = k + 1 /\ UNCHANGED <<busStage, busStack>>
  BY <1>1, <1>3 DEF Topic!Subscribe
<1>6. /\ subs' \in [Ids -> [mod : Mods \cup {None}, topic : Topics \cup {None}]]
      /\ subs'[k] = e /\ \A id \in Ids : id # k => subs'[id] = subs[id]
  BY <1>2, <1>4, <1>5 DEF BusInv, BusTypes
<1>7. \A id \in Ids : subs[id].mod # None => id < k /\ id \in Nat
  BY <1>1 DEF BusInv, IndexSound, Ids, Topic!SubIds
<1>8. PICK s \in Seq(Ids) : s = byTopic[c]
  BY DEF BusInv, BusTypes
<1>9. PICK w : w = Append(s, k)
  OBVIOUS
<1>10. /\ w \in Seq(Ids) /\ Increasing(w)
       /\ \A i \in DOMAIN w : subs'[w[i]].mod # None
  <2>1. /\ Len(s) \in Nat /\ DOMAIN s = 1..Len(s)
        /\ w \in Seq(Ids) /\ DOMAIN w = 1..(Len(s) + 1)
        /\ \A i \in 1..Len(s) : w[i] = s[i]
        /\ w[Len(s) + 1] = k
    BY <1>2, <1>9, Appended
  <2>2. \A i \in 1..Len(s) : s[i] \in Ids /\ s[i] < k /\ subs'[s[i]].mod # None
    <3>1. \A i \in 1..Len(s) : s[i] \in Ids /\ subs[s[i]].mod # None
      BY <1>8, <2>1, ElementOfSeq DEF BusInv, IndexSound
    <3>2. \A i \in 1..Len(s) : s[i] < k /\ s[i] # k
      BY <1>7, <3>1
    <3> QED
      BY <1>6, <3>1, <3>2
  <2>3. \A i \in 1..(Len(s) + 1) : i = Len(s) + 1 \/ i \in 1..Len(s)
    BY <2>1
  <2>4. Increasing(s)
    BY <1>8 DEF BusInv, IndexSound
  <2>5. \A i, j \in 1..(Len(s) + 1) : i < j => w[i] < w[j]
    BY <2>1, <2>2, <2>3, <2>4 DEF Increasing
  <2>6. subs'[k].mod # None
    BY <1>4, <1>6, NoneAssumption
  <2> QED
    BY <2>1, <2>2, <2>3, <2>5, <2>6 DEF Increasing
<1>11. /\ byTopic' \in [Topics -> Seq(Ids)] /\ byTopic'[c] = w
       /\ \A o \in Topics : o # c => byTopic'[o] = byTopic[o]
  BY <1>5, <1>8, <1>9, <1>10 DEF BusInv, BusTypes
<1>12. BusTypes'
  BY <1>1, <1>5, <1>6, <1>11 DEF BusInv, BusTypes
<1>13. IndexSound'
  <2>1. \A id \in Ids : id >= k + 1 => subs'[id].mod = None
    BY <1>1, <1>6 DEF BusInv, IndexSound, Ids, Topic!SubIds
  <2>2. \A id \in Ids : subs'[id].mod # None => busStage[subs'[id].mod] \in {"disabled", "enabled"}
    BY <1>4, <1>5, <1>6 DEF BusInv, IndexSound
  <2>3. \A o \in Topics : /\ Increasing(byTopic[o])'
                          /\ \A i \in DOMAIN byTopic'[o] : subs'[byTopic'[o][i]].mod # None
    <3> TAKE o \in Topics
    <3>1. CASE o = c
      BY <1>10, <1>11, <3>1 DEF Increasing
    <3>2. CASE o # c
      <4>1. \A i \in DOMAIN byTopic[o] : byTopic[o][i] \in Ids /\ subs[byTopic[o][i]].mod # None
        BY LenProperties, ElementOfSeq DEF BusInv, BusTypes, IndexSound
      <4>2. \A i \in DOMAIN byTopic[o] : subs'[byTopic[o][i]].mod # None
        <5> TAKE i \in DOMAIN byTopic[o]
        <5>1. PICK id \in Ids : id = byTopic[o][i] /\ subs[id].mod # None
          BY <4>1
        <5>2. id # k
          BY <1>7, <5>1
        <5> QED
          BY <1>6, <5>1, <5>2
      <4> QED
        BY <1>11, <3>2, <4>2 DEF BusInv, IndexSound, Increasing
    <3> QED
      BY <3>1, <3>2
  <2> QED
    BY <1>5, <2>1, <2>2, <2>3 DEF IndexSound
<1>14. ASSUME NEW u \in Threads, NEW d \in DOMAIN busStack'[u]
       PROVE  FrameSound(u, busStack[u][d])'
  <2>1. PICK f \in BusFrames : f = busStack[u][d] /\ f = busStack'[u][d]
    BY <1>5, BusTop DEF BusInv
  <2>2. FrameSound(u, f)
    BY <1>5, <2>1 DEF BusInv
  <2>3. \A id \in f.owed : id \in Ids /\ subs'[id] = subs[id]
    BY <1>6, <1>7, <2>2 DEF BusFrames, FrameSound, DispatchOk
  <2>4. FrameSound(u, f)'
    BY <1>5, <2>2, <2>3 DEF FrameSound, DispatchOk, MainOk
  <2> QED
    BY <2>1, <2>4 DEF FrameSound, DispatchOk, MainOk
<1>15. NestedInside'
  BY <1>5 DEF BusInv, NestedInside
<1> QED
  BY <1>12, <1>13, <1>14, <1>15 DEF BusInv

LEMMA PublishStep ==
  ASSUME BusInv, NEW t \in Threads, NEW m \in Mods, NEW c \in Topics,
         Topic!Publish(t, m, c)
  PROVE  BusInv'
<1>1. PICK w : w = Topic!IdsFor(c, m)
  OBVIOUS
<1>2. /\ w \in Seq(Ids) /\ Increasing(w)
      /\ \A i \in DOMAIN w : w[i] \in Ids /\ subs[w[i]].mod # None
  BY <1>1, IdsAsked
<1>3. PICK o : o = {id \in Topic!Elems(w) : busStage[subs[id].mod] = "enabled"}
  OBVIOUS
<1>4. \A id \in o : /\ \E i \in DOMAIN w : w[i] = id
                    /\ busStage[subs[id].mod] = "enabled"
  BY <1>3 DEF Topic!Elems
<1>5. o \in SUBSET Ids /\ \A id \in o : subs[id].mod # None
  BY <1>2, <1>4
<1>6. PICK f : f = [kind |-> "publish", mod |-> m, topic |-> c, at |-> "loop",
                    todo |-> w, id |-> 0, callee |-> None, veto |-> FALSE,
                    owed |-> o, last |-> 0]
  OBVIOUS
<1>7. f \in BusFrames
  BY <1>2, <1>5, <1>6 DEF BusFrames
<1>8. f.at = "loop" /\ f.todo = w /\ f.owed = o /\ f.last = 0
  BY <1>6
<1>9. Topic!ModCode(t) /\ TablesRest /\ busStack' = [busStack EXCEPT ![t] = Append(@, f)]
  BY <1>1, <1>3, <1>6 DEF Topic!Publish, Topic!Push, TablesRest
<1>10. \A id \in Ids : id > 0
  BY BusAssumption DEF Ids, Topic!SubIds
<1>11. FrameSound(t, f)
  BY <1>2, <1>4, <1>5, <1>8, <1>10 DEF FrameSound, DispatchOk, MainOk, Called
<1> QED
  BY <1>7, <1>9, <1>11, BusPushed


-----------------------------------------------------------------------------
(* A dispatch.                                                             *)

\* The frame a dispatch moves on.
LEMMA Dispatching ==
  ASSUME BusInv, NEW t \in Threads, NEW a, Topic!Publishing(t, a)
  PROVE  \E n \in Nat : \E f \in BusFrames :
           /\ n = Len(busStack[t]) /\ n # 0
           /\ f = busStack[t][n] /\ f = Topic!Top(t) /\ f.at = a /\ FrameSound(t, f)
<1>1. PICK n \in Nat : /\ n = Len(busStack[t]) /\ DOMAIN busStack[t] = 1..n
                       /\ busStack[t] = <<>> <=> n = 0
                       /\ \A d \in 1..n : busStack[t][d] \in BusFrames
  BY BusTop DEF BusInv
<1>2. n # 0 /\ n \in 1..n
  BY <1>1 DEF Topic!Publishing
<1>3. PICK f \in BusFrames : f = busStack[t][n]
  BY <1>1, <1>2
<1> QED
  BY <1>1, <1>2, <1>3 DEF BusInv, Topic!Publishing, Topic!Top

LEMMA LookupStep ==
  ASSUME BusInv, NEW t \in Threads, Topic!Lookup(t)
  PROVE  BusInv'
<1>1. PICK n \in Nat, f \in BusFrames :
        /\ n = Len(busStack[t]) /\ n # 0
        /\ f = busStack[t][n] /\ f = Topic!Top(t) /\ f.at = "loop" /\ FrameSound(t, f)
  BY Dispatching DEF Topic!Lookup
<1>2. f.todo # <<>> /\ f.todo \in Seq(Ids)
  BY <1>1 DEF Topic!Lookup, BusFrames
<1>3. PICK s : s = Tail(f.todo)
  OBVIOUS
<1>4. PICK k : k = Head(f.todo)
  OBVIOUS
<1>5. /\ k \in Ids /\ s \in Seq(Ids)
      /\ DOMAIN f.todo = 1..Len(f.todo) /\ Len(f.todo) \in Nat /\ 1 \in DOMAIN f.todo
      /\ k = f.todo[1]
      /\ DOMAIN s = 1..(Len(f.todo) - 1)
      /\ \A i \in DOMAIN s : s[i] = f.todo[i + 1]
  BY <1>2, <1>3, <1>4, HeadTailProperties, LenProperties, EmptySeq
<1>6. /\ Increasing(s) /\ \A i \in DOMAIN s : s[i] > k /\ s[i] > f.last
      /\ k > f.last
      /\ \A id \in f.owed : id = k \/ \E i \in DOMAIN s : s[i] = id
  <2>1. Increasing(f.todo) /\ \A i \in DOMAIN f.todo : f.todo[i] > f.last
    BY <1>1 DEF FrameSound, DispatchOk
  <2>2. \A id \in f.owed : \E i \in DOMAIN f.todo : f.todo[i] = id
    BY <1>1 DEF FrameSound, DispatchOk, Called
  <2>3. \A i \in DOMAIN s : i + 1 \in DOMAIN f.todo /\ 1 < i + 1
    BY <1>5
  <2>4. \A i \in DOMAIN f.todo : i = 1 \/ i - 1 \in DOMAIN s
    BY <1>5
  <2>5. \A i, j \in DOMAIN s : i < j => i + 1 < j + 1
    BY <1>5
  <2>6. Increasing(s)
    BY <1>5, <2>1, <2>3, <2>5 DEF Increasing
  <2>7. \A i \in DOMAIN s : f.todo[1] < f.todo[i + 1] /\ f.todo[i + 1] > f.last
    BY <1>5, <2>1, <2>3 DEF Increasing
  <2>8. \A i \in DOMAIN s : s[i] > k /\ s[i] > f.last
    <3> TAKE i \in DOMAIN s
    <3>1. s[i] \in Ids
      BY <1>5, ElementOfSeq, LenProperties
    <3> QED
      BY <1>5, <2>7, <3>1 DEF Ids, Topic!SubIds
  <2>9. \A i \in DOMAIN f.todo : i # 1 => f.todo[i] = s[i - 1]
    BY <1>5, <2>4
  <2>10. \A id \in f.owed : id = k \/ \E i \in DOMAIN s : s[i] = id
    BY <1>5, <2>2, <2>4, <2>9
  <2> QED
    BY <1>5, <2>1, <2>6, <2>8, <2>10
<1>7. TablesRest
  BY DEF Topic!Lookup, TablesRest
<1>8. CASE subs[k].mod # None
  <2>1. PICK g : g = [f EXCEPT !.todo = s, !.at = "copied", !.id = k, !.callee = subs[k].mod]
    OBVIOUS
  <2>2. subs[k].mod \in Mods /\ k \in Nat
    BY <1>5, <1>8 DEF BusInv, BusTypes, Ids, Topic!SubIds
  <2>3. /\ g \in BusFrames /\ g.todo = s /\ g.at = "copied" /\ g.id = k
        /\ g.callee = subs[k].mod /\ g.owed = f.owed /\ g.last = f.last
    BY <1>5, <2>1, <2>2 DEF BusFrames, Called
  <2>4. busStage[subs[k].mod] \in {"disabled", "enabled"}
    BY <1>5, <1>8 DEF BusInv, IndexSound
  <2>5. FrameSound(t, g)
    BY <1>1, <1>6, <2>2, <2>3, <2>4 DEF FrameSound, DispatchOk, MainOk, Called
  <2>6. busStack' = [busStack EXCEPT ![t][n] = g]
    BY <1>1, <1>3, <1>4, <1>8, <2>1 DEF Topic!Lookup, Topic!SetTop, Topic!InTable
  <2> QED
    BY <1>1, <1>7, <2>3, <2>5, <2>6, BusReplaced
<1>9. CASE subs[k].mod = None
  <2>1. PICK g : g = [f EXCEPT !.todo = s]
    OBVIOUS
  <2>2. /\ g \in BusFrames /\ g.todo = s /\ g.at = "loop"
        /\ g.owed = f.owed /\ g.last = f.last
    BY <1>1, <1>5, <2>1 DEF BusFrames
  <2>3. k \notin f.owed
    BY <1>1, <1>9 DEF FrameSound, DispatchOk
  <2>4. FrameSound(t, g)
    BY <1>1, <1>6, <2>2, <2>3 DEF FrameSound, DispatchOk, MainOk, Called
  <2>5. busStack' = [busStack EXCEPT ![t][n] = g]
    BY <1>1, <1>3, <1>4, <1>9, <2>1 DEF Topic!Lookup, Topic!SetTop, Topic!InTable
  <2> QED
    BY <1>1, <1>7, <2>2, <2>4, <2>5, BusReplaced
<1> QED
  BY <1>8, <1>9

LEMMA RevalidateStep ==
  ASSUME BusInv, NEW t \in Threads, Topic!Revalidate(t)
  PROVE  BusInv'
<1>1. PICK n \in Nat, f \in BusFrames :
        /\ n = Len(busStack[t]) /\ n # 0
        /\ f = busStack[t][n] /\ f = Topic!Top(t) /\ f.at = "copied" /\ FrameSound(t, f)
  BY Dispatching DEF Topic!Revalidate
<1>2. PICK at \in {"checked", "loop"} :
        /\ busStage[f.callee] # "absent" => (at = "checked" <=> busStage[f.callee] = "enabled")
        /\ busStack' = [busStack EXCEPT ![t][n] = [f EXCEPT !.at = at]]
        /\ TablesRest
  BY <1>1 DEF Topic!Revalidate, Topic!SetTop, TablesRest
<1>3. PICK g : g = [f EXCEPT !.at = at]
  OBVIOUS
<1>4. /\ g \in BusFrames /\ g.at = at /\ g.todo = f.todo /\ g.id = f.id
      /\ g.callee = f.callee /\ g.owed = f.owed /\ g.last = f.last
  BY <1>3 DEF BusFrames, Called
<1>5. \A i \in DOMAIN f.todo : f.todo[i] > f.last
  BY <1>1 DEF FrameSound, DispatchOk
<1>6. at = "loop" => f.id \notin f.owed
  <2> SUFFICES ASSUME at = "loop", f.id \in f.owed PROVE FALSE
    OBVIOUS
  <2>1. \A i \in DOMAIN f.todo : f.todo[i] # f.id
    <3>1. \A i \in DOMAIN f.todo : f.todo[i] > f.id /\ f.todo[i] \in Ids
      BY <1>1, LenProperties, ElementOfSeq DEF FrameSound, DispatchOk, Called, BusFrames
    <3> QED
      BY <3>1 DEF Ids, Topic!SubIds, BusFrames
  <2>2. f.callee = subs[f.id].mod /\ busStage[subs[f.id].mod] = "enabled"
    BY <1>1, <2>1 DEF FrameSound, DispatchOk
  <2> QED
    BY <1>2, <2>2
<1>7. DispatchOk(g)
  <2>1. CASE at = "checked"
    BY <1>1, <1>4, <2>1 DEF FrameSound, DispatchOk, Called
  <2>2. CASE at = "loop"
    BY <1>1, <1>4, <1>6, <2>2 DEF FrameSound, DispatchOk, Called
  <2> QED
    BY <2>1, <2>2
<1>8. t = Main => MainOk(g)
  BY <1>1, <1>2, <1>4 DEF FrameSound, MainOk
<1> QED
  BY <1>1, <1>2, <1>3, <1>4, <1>7, <1>8, BusReplaced DEF FrameSound

LEMMA EnterStep ==
  ASSUME BusInv, NEW t \in Threads, Topic!Enter(t)
  PROVE  BusInv'
<1>1. PICK n \in Nat, f \in BusFrames :
        /\ n = Len(busStack[t]) /\ n # 0
        /\ f = busStack[t][n] /\ f = Topic!Top(t) /\ f.at = "checked" /\ FrameSound(t, f)
  BY Dispatching DEF Topic!Enter
<1>2. PICK g : g = [f EXCEPT !.at = "inside", !.owed = f.owed \ {f.id}, !.last = f.id]
  OBVIOUS
<1>3. busStack' = [busStack EXCEPT ![t][n] = g] /\ TablesRest
  BY <1>1, <1>2 DEF Topic!Enter, Topic!SetTop, TablesRest
<1>4. /\ g \in BusFrames /\ g.at = "inside" /\ g.todo = f.todo
      /\ g.owed = f.owed \ {f.id} /\ g.last = f.id
  BY <1>2 DEF BusFrames
<1>5. FrameSound(t, g)
  BY <1>1, <1>4 DEF FrameSound, DispatchOk, MainOk, Called
<1> QED
  BY <1>1, <1>3, <1>4, <1>5, BusReplaced

LEMMA ReturnStep ==
  ASSUME BusInv, NEW t \in Threads, NEW v \in BOOLEAN, Topic!Return(t, v)
  PROVE  BusInv'
<1>1. PICK n \in Nat, f \in BusFrames :
        /\ n = Len(busStack[t]) /\ n # 0
        /\ f = busStack[t][n] /\ f = Topic!Top(t) /\ f.at = "inside" /\ FrameSound(t, f)
  BY Dispatching DEF Topic!Return
<1>2. PICK b \in BOOLEAN : b = (f.veto \/ v)
  OBVIOUS
<1>3. PICK g : g = [f EXCEPT !.at = "loop", !.id = 0, !.callee = None, !.veto = b]
  OBVIOUS
<1>4. busStack' = [busStack EXCEPT ![t][n] = g] /\ TablesRest
  BY <1>1, <1>2, <1>3 DEF Topic!Return, Topic!SetTop, TablesRest
<1>5. /\ g \in BusFrames /\ g.at = "loop" /\ g.todo = f.todo
      /\ g.owed = f.owed /\ g.last = f.last
  BY <1>3 DEF BusFrames
<1>6. FrameSound(t, g)
  BY <1>1, <1>5 DEF FrameSound, DispatchOk, MainOk, Called
<1> QED
  BY <1>1, <1>4, <1>5, <1>6, BusReplaced

LEMMA FinishStep ==
  ASSUME BusInv, NEW t \in Threads, Topic!Finish(t)
  PROVE  BusInv'
<1>1. PICK n \in Nat, f \in BusFrames :
        /\ n = Len(busStack[t]) /\ n # 0
        /\ f = busStack[t][n] /\ f = Topic!Top(t) /\ f.at = "loop" /\ FrameSound(t, f)
  BY Dispatching DEF Topic!Finish
<1>2. busStack' = [busStack EXCEPT ![t] = SubSeq(@, 1, n - 1)] /\ TablesRest
  BY <1>1 DEF Topic!Finish, Topic!Pop, TablesRest
<1>3. \A u \in Threads : \A g \in BusFrames : FrameSound(u, g) => FrameSound(u, g)'
  BY <1>2, SoundKept
<1> QED
  BY <1>1, <1>2, <1>3, TablesKept, BusPopped DEF TablesRest, BusInv, BusTypes


-----------------------------------------------------------------------------
(* Mods that come and go.                                                  *)

LEMMA BusTurnStep ==
  ASSUME BusInv, NEW m \in Mods, Topic!Enable(m) \/ Topic!Load(m)
  PROVE  BusInv'
<1>1. PICK v \in {"disabled", "enabled"} :
        /\ busStage' = [busStage EXCEPT ![m] = v]
        /\ busStage[m] = "absent" \/ (busStage[m] = "disabled" /\ v = "enabled")
  BY DEF Topic!Enable, Topic!Load
<1>2. UNCHANGED <<subs, byTopic, nextSub, busStack>>
  BY DEF Topic!Enable, Topic!Load
<1> QED
  BY <1>1, <1>2, StageMoved, StacksSame

LEMMA BusFreeStep ==
  ASSUME BusInv, NEW m \in Mods, Topic!UnloadFree(m)
  PROVE  BusInv'
<1>1. /\ busStage[m] = "gone" /\ busStage' = [busStage EXCEPT ![m] = "absent"]
      /\ UNCHANGED <<subs, byTopic, nextSub>>
  BY DEF Topic!UnloadFree
<1>2. PICK n \in Nat : /\ n = Len(busStack[Main])
                       /\ busStack' = [busStack EXCEPT ![Main] = SubSeq(@, 1, n - 1)]
  BY BusTop, BusAssumption DEF Topic!UnloadFree, Topic!Pop, BusInv
<1>3. CASE n # 0
  BY <1>1, <1>2, <1>3, StageMoved, BusPopped, BusAssumption
<1>4. CASE n = 0
  <2>1. busStack[Main] = <<>>
    BY <1>2, <1>4, BusTop, BusAssumption DEF BusInv
  <2>2. SubSeq(busStack[Main], 1, 0 - 1) = <<>>
    BY SubSeqEmpty
  <2>3. busStack' = busStack
    BY <1>2, <1>4, <2>1, <2>2 DEF BusInv, BusTypes
  <2> QED
    BY <1>1, <2>3, StageMoved, StacksSame
<1> QED
  BY <1>3, <1>4

LEMMA DisableStep ==
  ASSUME BusInv, NEW m \in Mods, Topic!Disable(m)
  PROVE  BusInv'
<1>1. PICK ids : ids = Topic!SubsOf(m)
  OBVIOUS
<1>2. /\ Topic!ModCode(Main) /\ busStage[m] = "enabled"
      /\ busStage' = [busStage EXCEPT ![m] = "disabled"]
      /\ busStack' = Topic!Excused(ids) /\ UNCHANGED <<subs, byTopic, nextSub>>
  BY <1>1 DEF Topic!Disable
<1>3. /\ busStage' \in [Mods -> {"absent", "disabled", "enabled", "gone"}]
      /\ busStage'[m] = "disabled"
      /\ \A o \in Mods \ {m} : busStage'[o] = busStage[o]
  BY <1>2 DEF BusInv, BusTypes
<1>4. \A id \in Ids : /\ subs[id].mod \in Mods \cup {None}
                      /\ id \notin ids => subs[id].mod # m
  BY <1>1 DEF BusInv, BusTypes, Topic!SubsOf, Ids
<1>5. Loses(ids)
  BY <1>2, <1>3, <1>4 DEF Loses
<1>6. IndexSound'
  BY <1>2, <1>3, <1>4 DEF BusInv, IndexSound
<1> QED
  BY <1>2, <1>5, <1>6, ExcusedStep DEF BusInv, BusTypes

LEMMA BusGoneStep ==
  ASSUME BusInv, NEW m \in Mods, Topic!UnloadGone(m)
  PROVE  BusInv'
<1>1. PICK ids : ids = Topic!SubsOf(m)
  OBVIOUS
<1>2. PICK ex : ex = Topic!Excused(ids)
  OBVIOUS
<1>3. PICK f : f = Topic!UnloadFrame(m)
  OBVIOUS
<1>4. /\ Topic!ModCode(Main) /\ busStage[m] = "disabled"
      /\ busStage' = [busStage EXCEPT ![m] = "gone"]
      /\ subs' = [id \in Ids |-> IF id \in ids THEN Topic!NoSub ELSE subs[id]]
      /\ byTopic' = [c \in Topics |-> Topic!Without(byTopic[c], ids)]
      /\ busStack' = [ex EXCEPT ![Main] = Append(ex[Main], f)]
      /\ nextSub' = nextSub
  BY <1>1, <1>2, <1>3 DEF Topic!UnloadGone, Ids
<1>5. /\ busStage' \in [Mods -> {"absent", "disabled", "enabled", "gone"}]
      /\ \A o \in Mods \ {m} : busStage'[o] = busStage[o]
  BY <1>4 DEF BusInv, BusTypes
<1>6. \A id \in Ids : /\ subs[id].mod \in Mods \cup {None}
                      /\ id \notin ids => subs[id].mod # m
  BY <1>1 DEF BusInv, BusTypes, Topic!SubsOf, Ids
<1>7. Topic!NoSub \in [mod : Mods \cup {None}, topic : Topics \cup {None}]
      /\ Topic!NoSub.mod = None
  BY DEF Topic!NoSub
<1>8. /\ subs' \in [Ids -> [mod : Mods \cup {None}, topic : Topics \cup {None}]]
      /\ \A i \in Ids : IF i \in ids THEN subs'[i].mod = None ELSE subs'[i] = subs[i]
  BY <1>4, <1>7 DEF BusInv, BusTypes
<1>9. Loses(ids)
  BY <1>4, <1>5, <1>6, <1>8 DEF Loses
<1>10. /\ byTopic' \in [Topics -> Seq(Ids)]
       /\ \A c \in Topics : /\ Increasing(byTopic[c])'
                            /\ \A i \in DOMAIN byTopic'[c] : /\ byTopic'[c][i] \in Ids \ ids
                                                             /\ subs[byTopic'[c][i]].mod # None
  BY <1>4, TopicsDropped
<1>11. IndexSound'
  <2>1. \A i \in Ids : subs'[i].mod # None => subs'[i] = subs[i] /\ i \notin ids
    BY <1>8
  <2>2. \A c \in Topics : \A i \in DOMAIN byTopic'[c] : subs'[byTopic'[c][i]].mod # None
    BY <1>8, <1>10
  <2>3. \A i \in Ids : i >= nextSub' => subs'[i].mod = None
    BY <1>4, <2>1 DEF BusInv, IndexSound
  <2>4. \A i \in Ids : subs'[i].mod # None => busStage'[subs'[i].mod] \in {"disabled", "enabled"}
    BY <1>5, <1>6, <2>1 DEF BusInv, IndexSound
  <2> QED
    BY <1>10, <2>2, <2>3, <2>4 DEF IndexSound
<1>12. /\ ex \in [Threads -> Seq(BusFrames)]
       /\ \A t \in Threads : /\ DOMAIN ex[t] = DOMAIN busStack[t]
                             /\ Len(ex[t]) = Len(busStack[t])
       /\ \A t \in Threads : \A d \in DOMAIN busStack[t] :
            ex[t][d].at = busStack[t][d].at /\ FrameSound(t, ex[t][d])'
  BY <1>2, <1>9, FramesExcused
<1>13. /\ f \in BusFrames /\ f.at = "inside" /\ f.todo = <<>> /\ f.owed = {}
  BY <1>3 DEF Topic!UnloadFrame, BusFrames
<1>14. FrameSound(Main, f)'
  BY <1>13 DEF FrameSound, DispatchOk, MainOk, Called, Increasing
<1>15. PICK n \in Nat : n = Len(busStack[Main]) /\ DOMAIN busStack[Main] = 1..n
  BY BusTop, BusAssumption DEF BusInv
<1>16. PICK w : w = Append(ex[Main], f)
  OBVIOUS
<1>17. /\ w \in Seq(BusFrames) /\ Len(w) = n + 1 /\ DOMAIN w = 1..(n + 1) /\ w[n + 1] = f
       /\ \A d \in 1..n : w[d] = ex[Main][d]
  <2>1. ex[Main] \in Seq(BusFrames) /\ Len(ex[Main]) = n
    BY <1>12, <1>15, BusAssumption
  <2> QED
    BY <1>13, <1>16, <2>1, Appended
<1>18. /\ busStack' \in [Threads -> Seq(BusFrames)] /\ busStack'[Main] = w
       /\ \A t \in Threads : t # Main => busStack'[t] = ex[t]
  <2>1. busStack' = [ex EXCEPT ![Main] = w] /\ ex \in [Threads -> Seq(BusFrames)]
    BY <1>4, <1>12, <1>16
  <2>2. w \in Seq(BusFrames) /\ Main \in Threads
    BY <1>17, BusAssumption
  <2> QED
    BY <2>1, <2>2
<1>19. BusTypes'
  BY <1>4, <1>5, <1>8, <1>10, <1>18 DEF BusInv, BusTypes
<1>20. \A d \in 1..(n + 1) : d = n + 1 \/ d \in 1..n
  OBVIOUS
<1>21. NestedInside'
  <2>1. \A d \in 1..n : w[d].at = "inside"
    BY <1>4, <1>12, <1>15, <1>17, MainInside, BusAssumption
  <2>2. \A d \in 1..(n + 1) : d < n + 1 => d \in 1..n
    OBVIOUS
  <2>3. \A d \in DOMAIN w : d < Len(w) => w[d].at = "inside"
    BY <1>17, <2>1, <2>2
  <2>4. \A t \in Threads : \A d \in DOMAIN ex[t] : d < Len(ex[t]) => ex[t][d].at = "inside"
    BY <1>12 DEF BusInv, NestedInside
  <2> QED
    BY <1>18, <2>3, <2>4 DEF NestedInside
<1>22. ASSUME NEW t \in Threads, NEW d \in DOMAIN busStack'[t]
       PROVE  FrameSound(t, busStack[t][d])'
  <2>1. CASE t # Main
    <3>1. d \in DOMAIN busStack[t] /\ busStack'[t][d] = ex[t][d]
      BY <1>12, <1>18, <2>1
    <3> QED
      BY <1>12, <3>1 DEF FrameSound, DispatchOk, MainOk
  <2>2. CASE t = Main /\ d = n + 1
    BY <1>14, <1>17, <1>18, <2>2 DEF FrameSound, DispatchOk, MainOk
  <2>3. CASE t = Main /\ d \in 1..n
    <3>1. d \in DOMAIN busStack[Main] /\ busStack'[t][d] = ex[Main][d]
      BY <1>15, <1>17, <1>18, <2>3
    <3>2. FrameSound(Main, ex[Main][d])'
      BY <1>12, <3>1, BusAssumption
    <3> QED
      BY <2>3, <3>1, <3>2 DEF FrameSound, DispatchOk, MainOk
  <2> QED
    BY <1>17, <1>18, <1>20, <2>1, <2>2, <2>3
<1> QED
  BY <1>11, <1>19, <1>21, <1>22 DEF BusInv

LEMMA BusRests == BusInv /\ UNCHANGED busVars => BusInv'
<1> SUFFICES ASSUME BusInv, UNCHANGED busVars PROVE BusInv'
  OBVIOUS
<1>1. TablesRest /\ busStack' = busStack
  BY DEF busVars, TablesRest
<1>2. \A u \in Threads : \A f \in BusFrames : FrameSound(u, f) => FrameSound(u, f)'
  BY <1>1, SoundKept
<1> QED
  BY <1>1, <1>2, TablesKept, StacksSame DEF TablesRest, BusInv, BusTypes

LEMMA BusStep == BusInv /\ [Topic!Next]_busVars => BusInv'
<1> SUFFICES ASSUME BusInv, [Topic!Next]_busVars PROVE BusInv'
  OBVIOUS
<1>1. ASSUME NEW t \in Threads, NEW m \in Mods, NEW id \in Topic!SubIds,
             Topic!Unsubscribe(t, m, id)
      PROVE  BusInv'
  BY <1>1, UnsubscribeStep DEF Ids
<1>2. CASE UNCHANGED busVars
  BY <1>2, BusRests
<1> QED
  BY <1>1, <1>2, SubscribeStep, PublishStep, LookupStep, RevalidateStep, EnterStep, ReturnStep,
     FinishStep, BusTurnStep, BusFreeStep, DisableStep, BusGoneStep DEF Topic!Next

LEMMA BusBegins == ModsInit => BusInv
<1> SUFFICES ASSUME ModsInit PROVE BusInv
  OBVIOUS
<1>1. /\ busStage = [m \in Mods |-> "enabled"]
      /\ subs = [id \in Ids |-> Topic!NoSub] /\ byTopic = [c \in Topics |-> <<>>]
      /\ nextSub = 1 /\ busStack = [t \in Threads |-> <<>>]
  BY DEF ModsInit, Topic!Init, Ids
<1>2. BusTypes
  BY <1>1 DEF BusTypes, Topic!NoSub
<1>3. \A id \in Ids : subs[id].mod = None
  BY <1>1 DEF Topic!NoSub
<1> QED
  BY <1>1, <1>2, <1>3 DEF BusInv, IndexSound, NestedInside, Increasing

-----------------------------------------------------------------------------
LEMMA BusAlways == ModsSpec => []BusInv
<1>1. BusInv /\ [ModsNext]_modsVars => BusInv'
  BY ModsMove, BusStep DEF Moves
<1> QED
  BY <1>1, BusBegins, PTL DEF ModsSpec, modsVars

\* A publish calls its subscribers in the order in which they subscribed, and none
\* twice, whatever its callbacks do to the table meanwhile.
THEOREM CalledInOrderTheorem == ModsSpec => []CalledInOrder
<1>1. BusInv => CalledInOrder
  BY DEF BusInv, FrameSound, DispatchOk, Called, CalledInOrder, Topic!CalledInOrder,
         Topic!Frames
<1> QED
  BY <1>1, BusAlways, PTL

\* When a dispatch ends, every subscription it found was called, unless it was removed
\* or its mod disabled meanwhile.
THEOREM EverySubscriberRunsTheorem == ModsSpec => []EverySubscriberRuns
<1>1. BusInv => EverySubscriberRuns
  BY DEF BusInv, FrameSound, DispatchOk, Called, EverySubscriberRuns,
         Topic!EverySubscriberRuns, Topic!Frames
<1> QED
  BY <1>1, BusAlways, PTL

\* The server thread enters a callback only while the mod is enabled: nothing is
\* disabled or unloaded there between the re-validation and the call.
THEOREM MainCallsEnabledTheorem == ModsSpec => MainCallsEnabled
<1>1. BusInv /\ Topic!Entering(Main) => busStage[Topic!Top(Main).callee] = "enabled"
  <2> SUFFICES ASSUME BusInv, Topic!Publishing(Main, "checked")
               PROVE  busStage[Topic!Top(Main).callee] = "enabled"
    BY DEF Topic!Entering
  <2> QED
    BY Dispatching, BusAssumption DEF FrameSound, MainOk
<1>2. BusInv => [Topic!Entering(Main) => busStage[Topic!Top(Main).callee] = "enabled"]_busVars
  BY <1>1
<1> QED
  BY <1>2, BusAlways, PTL DEF MainCallsEnabled, Topic!MainCallsEnabled, Topic!vars, busVars
=============================================================================
