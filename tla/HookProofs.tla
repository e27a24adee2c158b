----------------------------- MODULE HookProofs -----------------------------
(***************************************************************************)
(* Theorems about packet interception and the hook events, for any mods,   *)
(* threads, connections, packets and answers: the header codec loses       *)
(* nothing, every interceptor sees what passes, what goes on is what the   *)
(* chain made of it, and a dispatch asks every listener it began with.     *)
(***************************************************************************)
EXTENDS MCHooks, ListProofs

(* The header.                                                             *)

\* A number that decodes has one size.
LEMMA SizeIsUnique ==
  ASSUME NEW data, NEW n \in 1..5, Ends(data, n),
         \A i \in DOMAIN data : data[i] \in Int,
         \A k \in 1..5 : k \in DOMAIN data => 1..k \subseteq DOMAIN data
  PROVE  Decodes(data) /\ Size(data) = n
<1>1. Decodes(data)
  BY DEF Decodes
<1>2. ASSUME NEW k \in 1..5, Ends(data, k) PROVE k = n
  <2>1. CASE k < n
    BY <1>2, <2>1 DEF Ends
  <2>2. CASE n < k
    BY <1>2, <2>2 DEF Ends
  <2> QED
    BY <2>1, <2>2
<1> QED
  BY <1>1, <1>2 DEF Size

LEMMA OneByte ==
  ASSUME NEW a \in 0..127
  PROVE  Decodes(<<a>>) /\ Raw(<<a>>) = a
<1>1. Ends(<<a>>, 1)
  BY DEF Ends
<1>2. Decodes(<<a>>) /\ Size(<<a>>) = 1
  BY <1>1, SizeIsUnique
<1>3. a % 128 = a
  OBVIOUS
<1> QED
  BY <1>2, <1>3 DEF Raw

LEMMA TwoBytes ==
  ASSUME NEW low \in 0..127, NEW high \in 0..127
  PROVE  /\ Decodes(<<low + 128, high>>)
         /\ Raw(<<low + 128, high>>) = low + 128 * high
<1> DEFINE data == <<low + 128, high>>
<1>1. Ends(data, 2)
  BY DEF Ends
<1>2. Decodes(data) /\ Size(data) = 2
  BY <1>1, SizeIsUnique
<1>3. (low + 128) % 128 = low /\ high % 128 = high
  OBVIOUS
<1> QED
  BY <1>2, <1>3 DEF Raw

\* writeUVarInt, then readUVarInt, gives the number back.
LEMMA NumberRoundTrip ==
  ASSUME NEW raw \in Nat, raw < 128 * 128
  PROVE  Decodes(WriteUVarInt(raw)) /\ Raw(WriteUVarInt(raw)) = raw
<1>1. CASE raw < 128
  <2>1. raw \in 0..127
    BY <1>1
  <2>2. WriteUVarInt(raw) = <<raw>>
    BY <1>1 DEF WriteUVarInt
  <2>3. Decodes(<<raw>>) /\ Raw(<<raw>>) = raw
    BY <2>1, OneByte
  <2> QED
    BY <2>2, <2>3
<1>2. CASE raw >= 128
  <2>1. PICK low \in 0..127, high \in 0..127 :
          low = raw % 128 /\ high = raw \div 128 /\ raw = low + 128 * high
    <3>1. raw % 128 \in 0..127 /\ raw \div 128 \in 0..127
      OBVIOUS
    <3>2. raw = (raw % 128) + 128 * (raw \div 128)
      OBVIOUS
    <3> WITNESS raw % 128 \in 0..127, raw \div 128 \in 0..127
    <3> QED
      BY <3>2
  <2>2. WriteUVarInt(raw) = <<low + 128, high>>
    BY <1>2, <2>1 DEF WriteUVarInt
  <2>3. Decodes(<<low + 128, high>>) /\ Raw(<<low + 128, high>>) = low + 128 * high
    BY TwoBytes
  <2> QED
    BY <2>1, <2>2, <2>3
<1> QED
  BY <1>1, <1>2

\* An interceptor's edit reaches the receiver as its masked fields, and a
\* rewrite of the body alone leaves the fields of the header as they were
\* (PacketHooks.cpp 255-275).
THEOREM HeaderRoundTrip ==
  ASSUME NEW edit \in [id: Nat, sender: Nat, target: Nat]
  PROVE  /\ Decodes(EncodeHeader(edit))
         /\ Fields(EncodeHeader(edit)) = Masked(edit)
         /\ edit \in Field => Masked(edit) = edit
<1>0. edit.id \in Nat /\ edit.sender \in Nat /\ edit.target \in Nat
  OBVIOUS
<1>i. PICK i \in 0..1023 : i = edit.id % 1024
  BY <1>0
<1>s. PICK s \in 0..3 : s = edit.sender % 4
  BY <1>0
<1>t. PICK t \in 0..3 : t = edit.target % 4
  BY <1>0
<1>1. i = edit.id % 1024 /\ s = edit.sender % 4 /\ t = edit.target % 4
  BY <1>i, <1>s, <1>t
<1>2. Masked(edit) = [id |-> i, sender |-> s, target |-> t]
  BY <1>1 DEF Masked
<1>3. PICK raw \in Nat : raw = i + 1024 * s + 4096 * t
  OBVIOUS
<1>4. EncodeHeader(edit) = WriteUVarInt(raw)
  BY <1>2, <1>3 DEF EncodeHeader
<1>6. raw < 128 * 128 /\ raw % 1024 = i /\ (raw \div 1024) % 4 = s /\ (raw \div 4096) % 4 = t
  <2>1. raw < 128 * 128 /\ raw % 1024 = i
    BY <1>3
  <2>2. raw \div 1024 = s + 4 * t
    BY <1>3
  <2>3. raw \div 4096 = t
    BY <1>3
  <2> QED
    BY <2>1, <2>2, <2>3
<1>5. Decodes(EncodeHeader(edit)) /\ Raw(EncodeHeader(edit)) = raw
  BY <1>4, <1>6, NumberRoundTrip
<1>7. Fields(EncodeHeader(edit)) = Masked(edit)
  BY <1>2, <1>5, <1>6 DEF Fields
<1>8. ASSUME edit \in Field PROVE Masked(edit) = edit
  BY <1>8 DEF Field, Masked
<1> QED
  BY <1>5, <1>7, <1>8

\* The fields of a header that decodes fit their bits.
LEMMA FieldsFit ==
  ASSUME NEW data \in Seq(0..255), Decodes(data)
  PROVE  Fields(data) \in Field
<1>1. Len(data) \in Nat /\ DOMAIN data = 1..Len(data)
  BY LenProperties
<1>2. Size(data) \in 1..5 /\ Ends(data, Size(data))
  BY DEF Decodes, Size
<1>3. PICK n \in 1..5 : n = Size(data) /\ n \in 1..Len(data)
  BY <1>1, <1>2 DEF Ends
<1>4. data[1] \in 0..255 /\ (n # 1 => data[2] \in 0..255)
  <2>1. 1 \in 1..Len(data) /\ (n # 1 => 2 \in 1..Len(data))
    BY <1>1, <1>3
  <2> QED
    BY <1>1, <2>1, ElementOfSeq
<1>5. Raw(data) \in Nat
  <2>1. PICK a \in 0..255 : a = data[1]
    BY <1>4
  <2>2. a % 128 \in Nat
    BY <2>1
  <2>3. CASE n = 1
    BY <1>3, <2>1, <2>2, <2>3 DEF Raw
  <2>4. CASE n # 1
    <3>1. PICK b \in 0..255 : b = data[2]
      BY <1>4, <2>4
    <3>2. b % 128 \in Nat
      BY <3>1
    <3> QED
      BY <1>3, <2>1, <2>2, <2>4, <3>1, <3>2 DEF Raw
  <2> QED
    BY <2>3, <2>4
<1>6. PICK raw \in Nat : raw = Raw(data)
  BY <1>5
<1>7. raw % 1024 \in 0..1023 /\ (raw \div 1024) % 4 \in 0..3 /\ (raw \div 4096) % 4 \in 0..3
  OBVIOUS
<1> QED
  BY <1>6, <1>7 DEF Fields, Field

-----------------------------------------------------------------------------
(* What holds of the frames of a thread.                                   *)

SubRec == [id : Nat, mod : Mods \cup {None}, kinds : SUBSET Kinds, user : BOOLEAN]
Said == [sub : Nat, did : Verdict]
Edit == [id : Nat, sender : Nat, target : Nat]
Walking == {"resolve", "loop", "inside"}
FrameRec ==
  [kind : Kinds \cup {"unload"}, conn : Conns \cup {None},
   at : Walking \cup {"dispatch", "origin", "dropped", "pull", "nodata"},
   live : BOOLEAN, in : Packet, out : Packet, edit : Edit, body : Bodies,
   changed : BOOLEAN, todo : Seq(SubRec), sub : SubRec, owed : SUBSET Nat, hist : Seq(Said)]

Ascending(s) == \A i, j \in DOMAIN s : i < j => s[i].id < s[j].id
Wanted(k) == {subs[i].id : i \in {j \in DOMAIN subs : k \in subs[j].kinds}}

\* The interceptors are called in order.
Ordered(f) ==
  /\ \A i, j \in DOMAIN f.hist : i < j => f.hist[i].sub < f.hist[j].sub
  /\ f.at \in Walking =>
       /\ Ascending(f.todo)
       /\ \A i \in DOMAIN f.hist, j \in DOMAIN f.todo : f.hist[i].sub < f.todo[j].id
       /\ f.at = "inside" =>
            /\ \A i \in DOMAIN f.hist : f.hist[i].sub < f.sub.id
            /\ \A j \in DOMAIN f.todo : f.sub.id < f.todo[j].id

Readable(f) == f.kind # "conn" => Decodes(f.in.head) /\ Interceptable(f)

\* The interceptors a packet still has to be shown are registered, and once the
\* snapshot is taken they are in it; n: under another packet's callback.
Due(n, f) ==
  /\ f.at = "dispatch" => f.owed \subseteq Wanted(f.kind)
  /\ f.at \in Walking /\ f.kind # "unload" =>
       \A x \in f.owed : \E j \in DOMAIN f.todo : f.todo[j].id = x
  /\ f.at = "pull" /\ ~f.live => f.owed = {}
  /\ f.at = "origin" /\ Readable(f) /\ ~n => f.owed = {}

Shape(n, f) ==
  /\ f.kind = "unload" => f.at = "inside"
  /\ f.kind = "conn" \/ f.at = "dispatch" => f.hist = <<>>
  /\ f.at \in {"pull", "nodata"} => f.kind = "in"
  /\ f.kind = "in" /\ f.at \in Walking \cup {"dispatch", "dropped"} => f.live
  /\ f.kind \in {"in", "out"} /\ f.at \in Walking => ~n /\ Decodes(f.in.head)

\* The last of the indices.
IsLast(I, i) == i \in I /\ \A j \in I : j <= i

\* What the chain has made of a packet so far.
Made(f) ==
  /\ f.out = f.in
  /\ \A i \in DOMAIN f.hist : f.hist[i].did.verdict # "drop"
  /\ f.changed <=> Replaces(f) # {}
  /\ Replaces(f) # {} => \E i : IsLast(Replaces(f), i) /\ f.body = f.hist[i].did.body
  /\ f.at \in Walking =>
       /\ f.edit.sender = Fields(f.in.head).sender /\ f.edit.target = Fields(f.in.head).target
       /\ IF Renames(f) = {} THEN f.edit.id = Fields(f.in.head).id
          ELSE \E i : IsLast(Renames(f), i) /\ f.edit.id = f.hist[i].did.id

\* ForwardsChain, of one frame.
Forwarded(n, f) ==
  /\ \A i \in DOMAIN f.hist : f.hist[i].did.verdict # "drop"
  /\ IF Replaces(f) = {} \/ n
       THEN f.out = f.in
       ELSE /\ Decodes(f.out.head) /\ Fields(f.out.head) = Expected(f)
            /\ f.out.body = f.hist[Latest(Replaces(f))].did.body

Chained(n, f) ==
  f.kind \in {"in", "out"} =>
    /\ f.at \in Walking \cup {"dispatch"} => Made(f)
    /\ f.at = "origin" => Forwarded(n, f)

FrameOk(n, f) == Ordered(f) /\ Due(n, f) /\ Shape(n, f) /\ Chained(n, f)

\* A packet callback runs below position d.
Under(s, d) == \E e \in 1..(d - 1) : s[e].kind \in {"in", "out"}

StackOk(s) ==
  /\ s \in Seq(FrameRec)
  /\ \A d \in DOMAIN s : /\ d < Len(s) => s[d].at = "inside"
                         /\ FrameOk(Under(s, d), s[d])

SubsOk ==
  /\ subs \in Seq(SubRec) /\ Ascending(subs)
  /\ nextSub \in Nat /\ \A i \in DOMAIN subs : subs[i].id < nextSub
  /\ gates = LiveOf(subs)

HookInv ==
  /\ SubsOk
  /\ DOMAIN stack = Threads /\ stack = [t \in Threads |-> stack[t]]
  /\ \A t \in Threads : StackOk(stack[t])

-----------------------------------------------------------------------------
(* Steps on a stack.                                                       *)

LEMMA StackShape ==
  ASSUME NEW s, s \in Seq(FrameRec)
  PROVE  \E n \in Nat : /\ n = Len(s) /\ DOMAIN s = 1..n
                        /\ s = <<>> <=> n = 0
                        /\ \A d \in 1..n : s[d] \in FrameRec
<1>1. PICK n \in Nat : n = Len(s) /\ DOMAIN s = 1..n
  BY LenProperties
<1>2. \A d \in 1..n : s[d] \in FrameRec
  BY <1>1, ElementOfSeq
<1>3. s = <<>> <=> n = 0
  BY <1>1, EmptySeq
<1> QED
  BY <1>1, <1>2, <1>3

\* The top frame becomes f.
LEMMA Replaced ==
  ASSUME NEW s, StackOk(s), NEW n \in Nat, n = Len(s), n # 0,
         NEW f \in FrameRec, FrameOk(Under(s, n), f),
         NEW r, r = [s EXCEPT ![n] = f]
  PROVE  StackOk(r)
<1>1. s \in Seq(FrameRec) /\ DOMAIN s = 1..n /\ n \in 1..n
  BY LenProperties DEF StackOk
<1>2. /\ r \in Seq(FrameRec) /\ Len(r) = n /\ DOMAIN r = 1..n /\ r[n] = f
      /\ \A d \in 1..n : d # n => r[d] = s[d]
  BY <1>1, ExceptSeq, LenProperties
<1>3. ASSUME NEW d \in 1..n PROVE Under(r, d) = Under(s, d)
  <2>1. \A e \in 1..(d - 1) : e \in 1..n /\ e # n
    BY <1>3
  <2>2. \A e \in 1..(d - 1) : r[e] = s[e]
    BY <1>2, <2>1
  <2> QED
    BY <2>2 DEF Under
<1>4. ASSUME NEW d \in 1..n
      PROVE  (d < n => r[d].at = "inside") /\ FrameOk(Under(r, d), r[d])
  <2>1. CASE d = n
    <3>1. ~(d < n) /\ r[d] = f
      BY <1>2, <2>1
    <3>2. Under(r, d) = Under(s, n)
      BY <1>3, <1>4, <2>1
    <3>3. FrameOk(Under(r, d), r[d])
      BY <3>1, <3>2, Zenon
    <3> QED
      BY <3>1, <3>3
  <2>2. CASE d # n
    BY <1>1, <1>2, <1>3, <1>4, <2>2 DEF StackOk
  <2> QED
    BY <2>1, <2>2
<1> QED
  BY <1>2, <1>4 DEF StackOk

\* The top frame goes.
LEMMA Popped ==
  ASSUME NEW s, StackOk(s), s # <<>>, NEW r, r = Front(s)
  PROVE  StackOk(r) /\ Len(r) \in Nat /\ \A d \in DOMAIN r : r[d].at = "inside"
<1>1. PICK n \in Nat : n = Len(s) /\ DOMAIN s = 1..n /\ n # 0 /\ \A d \in 1..n : s[d] \in FrameRec
  BY StackShape DEF StackOk
<1>2. s \in Seq(FrameRec) /\ r = SubSeq(s, 1, n - 1)
  BY <1>1 DEF StackOk, Front
<1>3. /\ r \in Seq(FrameRec) /\ Len(r) = n - 1 /\ DOMAIN r = 1..(n - 1)
      /\ \A d \in 1..(n - 1) : r[d] = s[d]
  BY <1>1, <1>2, SubSeqProperties, LenProperties
<1>4. ASSUME NEW d \in 1..(n - 1) PROVE Under(r, d) = Under(s, d)
  <2>1. \A e \in 1..(d - 1) : r[e] = s[e]
    BY <1>3, <1>4
  <2> QED
    BY <2>1 DEF Under
<1>5. ASSUME NEW d \in 1..(n - 1)
      PROVE  r[d].at = "inside" /\ FrameOk(Under(r, d), r[d])
  <2>1. d \in DOMAIN s /\ d < Len(s)
    BY <1>1, <1>5
  <2> QED
    BY <1>3, <1>4, <1>5, <2>1 DEF StackOk
<1> QED
  BY <1>1, <1>3, <1>5 DEF StackOk

\* A frame is pushed on a mod's code.
LEMMA Pushed ==
  ASSUME NEW s, StackOk(s), s # <<>> => s[Len(s)].at = "inside",
         NEW f \in FrameRec, FrameOk(Under(s, Len(s) + 1), f), NEW r, r = Append(s, f)
  PROVE  StackOk(r)
<1>1. PICK n \in Nat : n = Len(s) /\ DOMAIN s = 1..n /\ (s = <<>> <=> n = 0)
  BY StackShape DEF StackOk
<1>2. s \in Seq(FrameRec)
  BY DEF StackOk
<1>3. /\ r \in Seq(FrameRec) /\ Len(r) = n + 1 /\ DOMAIN r = 1..(n + 1) /\ r[n + 1] = f
      /\ \A d \in 1..n : r[d] = s[d]
  BY <1>1, <1>2, Appended
<1>4. ASSUME NEW d \in 1..(n + 1) PROVE Under(r, d) = Under(s, d)
  <2>1. \A e \in 1..(d - 1) : r[e] = s[e]
    BY <1>1, <1>3, <1>4
  <2> QED
    BY <2>1 DEF Under
<1>5. \A d \in 1..n : s[d].at = "inside"
  BY <1>1 DEF StackOk
<1>6. ASSUME NEW d \in 1..(n + 1)
      PROVE  (d < n + 1 => r[d].at = "inside") /\ FrameOk(Under(r, d), r[d])
  <2>1. CASE d = n + 1
    BY <1>1, <1>3, <1>4, <2>1
  <2>2. CASE d \in 1..n
    BY <1>1, <1>3, <1>4, <1>5, <2>2 DEF StackOk
  <2> QED
    BY <1>1, <1>6, <2>1, <2>2
<1> QED
  BY <1>3, <1>6 DEF StackOk

-----------------------------------------------------------------------------
(* The registry moves under the stacks.                                    *)

Sides == Kinds \cup {"unload"}

\* The lists lose the interceptors in ids, at most.
Loses(ids) == \A k \in Sides : Wanted(k) \ ids \subseteq Wanted(k)'

\* g is f, without what ids owed it.
Less(g, f, ids) ==
  /\ g.kind = f.kind /\ g.at = f.at /\ g.live = f.live
  /\ g.in = f.in /\ g.out = f.out /\ g.edit = f.edit /\ g.body = f.body
  /\ g.changed = f.changed /\ g.hist = f.hist /\ g.sub.id = f.sub.id
  /\ g.owed = f.owed \ ids
  /\ DOMAIN g.todo = DOMAIN f.todo /\ \A j \in DOMAIN f.todo : g.todo[j].id = f.todo[j].id

LEMMA FrameLess ==
  ASSUME NEW ids, Loses(ids), NEW n, NEW f \in FrameRec, FrameOk(n, f),
         NEW g \in FrameRec, Less(g, f, ids)
  PROVE  FrameOk(n, g)'
<1>1. f.kind \in Sides
  BY DEF FrameRec, Sides
<1>2. Ordered(g)'
  BY DEF FrameOk, Less, Ordered, Ascending
<1>3. Readable(g) <=> Readable(f)
  BY DEF Less, Readable, Interceptable
<1>4. Due(n, g)'
  BY <1>1, <1>3 DEF FrameOk, Less, Due, Loses
<1>5. Shape(n, g)'
  BY DEF FrameOk, Less, Shape
<1>6. Replaces(g) = Replaces(f) /\ Renames(g) = Renames(f)
  BY DEF Less, Replaces, Renames
<1>7. Expected(g) = Expected(f)
  BY <1>6 DEF Less, Expected
<1>8. Made(g) <=> Made(f)
  BY <1>6 DEF Less, Made
<1>9. Forwarded(n, g) <=> Forwarded(n, f)
  BY <1>6, <1>7 DEF Less, Forwarded
<1>10. Chained(n, g)'
  BY <1>8, <1>9 DEF FrameOk, Less, Chained
<1> QED
  BY <1>2, <1>4, <1>5, <1>10 DEF FrameOk

LEMMA StackLess ==
  ASSUME NEW ids, Loses(ids), NEW s, StackOk(s), NEW r, DOMAIN r = DOMAIN s,
         r = [d \in DOMAIN s |-> r[d]],
         \A d \in DOMAIN s : r[d] \in FrameRec /\ Less(r[d], s[d], ids)
  PROVE  StackOk(r)' /\ Len(r) = Len(s)
<1>1. PICK n \in Nat : n = Len(s) /\ DOMAIN s = 1..n /\ \A d \in 1..n : s[d] \in FrameRec
  BY StackShape DEF StackOk
<1>2. r \in [1..n -> FrameRec]
  BY <1>1
<1>3. r \in Seq(FrameRec) /\ Len(r) = n
  BY <1>2, IsSequence
<1>4. ASSUME NEW d \in 1..n PROVE Under(r, d) = Under(s, d)
  <2>1. \A e \in 1..(d - 1) : r[e].kind = s[e].kind
    BY <1>1, <1>4 DEF Less
  <2> QED
    BY <2>1 DEF Under
<1>5. ASSUME NEW d \in 1..n
      PROVE  (d < n => r[d].at = "inside") /\ FrameOk(Under(r, d), r[d])'
  <2>1. PICK f \in FrameRec : f = s[d]
    BY <1>1
  <2>2. PICK g \in FrameRec : g = r[d]
    BY <1>1
  <2>3. PICK b : b = Under(s, d)
    OBVIOUS
  <2>4. FrameOk(b, f) /\ (d < n => f.at = "inside")
    BY <1>1, <2>1, <2>3 DEF StackOk
  <2>5. Less(g, f, ids)
    BY <1>1, <2>1, <2>2
  <2>6. FrameOk(b, g)'
    BY <2>4, <2>5, FrameLess
  <2>7. b = Under(r, d)
    BY <1>4, <2>3
  <2>8. d < n => g.at = "inside"
    BY <2>4, <2>5 DEF Less
  <2>9. FrameOk(Under(r, d), r[d])'
    BY <2>2, <2>6, <2>7, Zenon
  <2> QED
    BY <2>2, <2>8, <2>9
<1> QED
  BY <1>1, <1>3, <1>5 DEF StackOk

LEMMA StackGrows ==
  ASSUME Loses({}), NEW s, StackOk(s)
  PROVE  StackOk(s)'
<1>1. PICK n \in Nat : n = Len(s) /\ DOMAIN s = 1..n /\ \A d \in 1..n : s[d] \in FrameRec
  BY StackShape DEF StackOk
<1>2. s = [d \in DOMAIN s |-> s[d]]
  BY StackShape DEF StackOk
<1>3. \A d \in DOMAIN s : s[d] \in FrameRec /\ Less(s[d], s[d], {})
  BY <1>1 DEF Less
<1> QED
  BY <1>2, <1>3, StackLess

LEMMA NothingLost ==
  ASSUME subs' = subs PROVE Loses({})
BY DEF Loses, Wanted

\* What a filter leaves of the registrations.
LEMMA Filtered ==
  ASSUME NEW s \in Seq(SubRec), Ascending(s), NEW K \in SUBSET (DOMAIN s), NEW w, w = Kept(s, K)
  PROVE  /\ w \in Seq(SubRec) /\ Ascending(w)
         /\ \A i \in DOMAIN w : \E k \in K : w[i] = s[k]
         /\ \A k \in K : \E i \in DOMAIN w : w[i] = s[k]
<1>1. /\ w \in Seq(SubRec)
      /\ \A i \in DOMAIN w : \E k \in K : w[i] = s[k]
      /\ \A k \in K : \E i \in DOMAIN w : w[i] = s[k]
      /\ \A i, j \in DOMAIN w : i < j => \E k, l \in K : k < l /\ w[i] = s[k] /\ w[j] = s[l]
  BY KeptElements
<1>2. Ascending(w)
  <2> SUFFICES ASSUME NEW i \in DOMAIN w, NEW j \in DOMAIN w, i < j PROVE w[i].id < w[j].id
    BY DEF Ascending
  <2>1. PICK k \in K, l \in K : k < l /\ w[i] = s[k] /\ w[j] = s[l]
    BY <1>1
  <2> QED
    BY <2>1 DEF Ascending
<1> QED
  BY <1>1, <1>2

\* snapshotFor has the interceptors that want the packet, in order.
LEMMA WantingIs ==
  ASSUME SubsOk, NEW k, NEW w, w = Wanting(k)
  PROVE  /\ w \in Seq(SubRec) /\ Ascending(w) /\ Ids(w) = Wanted(k)
         /\ \A x \in Wanted(k) : \E j \in DOMAIN w : w[j].id = x
<1>1. PICK s \in Seq(SubRec) : s = subs
  BY DEF SubsOk
<1>2. PICK K \in SUBSET (DOMAIN s) : K = {i \in DOMAIN s : k \in s[i].kinds}
  OBVIOUS
<1>3. w = Kept(s, K) /\ Ascending(s)
  BY <1>1, <1>2 DEF Wanting, SubsOk
<1>4. /\ w \in Seq(SubRec) /\ Ascending(w)
      /\ \A i \in DOMAIN w : \E h \in K : w[i] = s[h]
      /\ \A h \in K : \E i \in DOMAIN w : w[i] = s[h]
  BY <1>3, Filtered
<1>5. Wanted(k) = {s[i].id : i \in K}
  BY <1>1, <1>2 DEF Wanted
<1> QED
  BY <1>4, <1>5 DEF Ids

\* A gate is true while somebody wants its packets.
LEMMA GateIs ==
  ASSUME SubsOk, NEW k, k \notin gates
  PROVE  Wanted(k) = {}
BY DEF SubsOk, LiveOf, Wanted

\* std::erase_if, and the gates after it.
LEMMA Erased ==
  ASSUME SubsOk, NEW ids, subs' = Without(ids), gates' = LiveOf(subs'), nextSub' = nextSub
  PROVE  SubsOk' /\ Loses(ids)
<1>1. PICK s \in Seq(SubRec) : s = subs
  BY DEF SubsOk
<1>2. PICK K \in SUBSET (DOMAIN s) : K = {i \in DOMAIN s : s[i].id \notin ids}
  OBVIOUS
<1>3. PICK w : w = subs'
  OBVIOUS
<1>4. w = Kept(s, K) /\ Ascending(s)
  BY <1>1, <1>2, <1>3 DEF Without, SubsOk
<1>5. /\ w \in Seq(SubRec) /\ Ascending(w)
      /\ \A i \in DOMAIN w : \E h \in K : w[i] = s[h]
      /\ \A h \in K : \E i \in DOMAIN w : w[i] = s[h]
  BY <1>4, Filtered
<1>6. \A i \in DOMAIN w : w[i].id < nextSub
  BY <1>1, <1>5 DEF SubsOk
<1>7. SubsOk'
  BY <1>3, <1>5, <1>6 DEF SubsOk, Ascending
<1>8. ASSUME NEW k \in Sides, NEW x \in Wanted(k), x \notin ids PROVE x \in Wanted(k)'
  <2>1. PICK i \in DOMAIN s : s[i].id = x /\ k \in s[i].kinds
    BY <1>1, <1>8 DEF Wanted
  <2>2. i \in K
    BY <1>2, <1>8, <2>1
  <2>3. PICK j \in DOMAIN w : w[j] = s[i]
    BY <1>5, <2>2
  <2> QED
    BY <1>3, <2>1, <2>3 DEF Wanted
<1> QED
  BY <1>7, <1>8 DEF Loses

-----------------------------------------------------------------------------
(* What a step is made of.                                                 *)

\* PumpDrains, of one step.
Pump == \A t \in Threads :
          In(t, "nodata")' /\ ~In(t, "nodata") => inbox[Top(t).conn] = 0

LEMMA TopFrame ==
  ASSUME HookInv, NEW t \in Threads, stack[t] # <<>>
  PROVE  \E n \in Nat : \E f \in FrameRec :
           /\ n = Len(stack[t]) /\ n # 0 /\ StackOk(stack[t])
           /\ f = stack[t][n] /\ f = Top(t) /\ FrameOk(Under(stack[t], n), f)
           /\ Nested(t) <=> Under(stack[t], n)
<1>1. PICK s : s = stack[t]
  OBVIOUS
<1>2. StackOk(s)
  BY <1>1 DEF HookInv
<1>3. PICK n \in Nat : /\ n = Len(s) /\ DOMAIN s = 1..n /\ (s = <<>> <=> n = 0)
                       /\ \A d \in 1..n : s[d] \in FrameRec
  BY <1>2, StackShape DEF StackOk
<1>4. n # 0 /\ n \in 1..n
  BY <1>1, <1>3
<1>5. PICK f \in FrameRec : f = s[n]
  BY <1>3, <1>4
<1>6. FrameOk(Under(s, n), f)
  BY <1>2, <1>3, <1>4, <1>5 DEF StackOk
<1>7. \A d \in 1..(n - 1) : s[d].at = "inside"
  BY <1>2, <1>3 DEF StackOk
<1>8. Nested(t) <=> Under(s, n)
  BY <1>1, <1>3, <1>7 DEF Nested, Under
<1>9. f = Top(t)
  BY <1>1, <1>3, <1>5 DEF Top
<1> QED
  BY <1>1, <1>2, <1>3, <1>4, <1>5, <1>6, <1>8, <1>9

\* One thread's stack becomes r.
LEMMA OneStack ==
  ASSUME HookInv, NEW t \in Threads, NEW r, StackOk(r), stack' = [stack EXCEPT ![t] = r],
         UNCHANGED <<subs, gates, nextSub>>,
         r # <<>> /\ r[Len(r)].at = "nodata" => inbox[Top(t).conn] = 0
  PROVE  HookInv' /\ Pump
<1>1. /\ DOMAIN stack' = Threads /\ stack' = [u \in Threads |-> stack'[u]]
      /\ stack'[t] = r /\ \A u \in Threads : u # t => stack'[u] = stack[u]
  BY DEF HookInv
<1>2. SubsOk'
  BY DEF HookInv, SubsOk, LiveOf, Ascending
<1>3. ASSUME NEW u \in Threads PROVE StackOk(stack[u])'
  <2>1. PICK s : s = stack'[u]
    OBVIOUS
  <2>2. StackOk(s)
    BY <1>1, <2>1 DEF HookInv
  <2>3. StackOk(s)'
    BY <2>2, NothingLost, StackGrows
  <2> QED
    BY <2>1, <2>3 DEF StackOk, FrameOk, Due
<1>4. ASSUME NEW u \in Threads, In(u, "nodata")', ~In(u, "nodata")
      PROVE  inbox[Top(u).conn] = 0
  <2>1. u = t
    BY <1>1, <1>4 DEF In, Top
  <2>2. r # <<>> /\ r[Len(r)].at = "nodata"
    BY <1>1, <1>4, <2>1 DEF In, Top
  <2> QED
    BY <2>1, <2>2
<1> QED
  BY <1>1, <1>2, <1>3, <1>4 DEF HookInv, Pump

LEMMA TopStep ==
  ASSUME HookInv, NEW t \in Threads, stack[t] # <<>>, NEW f \in FrameRec, SetTop(t, f),
         FrameOk(Under(stack[t], Len(stack[t])), f), UNCHANGED <<subs, gates, nextSub>>,
         f.at = "nodata" => inbox[Top(t).conn] = 0
  PROVE  HookInv' /\ Pump
<1>1. PICK s : s = stack[t]
  OBVIOUS
<1>2. PICK n \in Nat : n = Len(s) /\ n # 0 /\ StackOk(s) /\ DOMAIN s = 1..n
  BY <1>1, TopFrame, LenProperties DEF StackOk
<1>3. PICK r : r = [s EXCEPT ![n] = f]
  OBVIOUS
<1>4. FrameOk(Under(s, n), f)
  BY <1>1, <1>2
<1>5. StackOk(r)
  BY <1>2, <1>3, <1>4, Replaced
<1>6. stack' = [stack EXCEPT ![t] = r]
  BY <1>1, <1>2, <1>3 DEF SetTop
<1>7. r[Len(r)] = f
  <2>1. s \in Seq(FrameRec) /\ n \in 1..n
    BY <1>2 DEF StackOk
  <2>2. Len(r) = n /\ r[n] = f
    BY <1>2, <1>3, <2>1, ExceptSeq
  <2> QED
    BY <2>2
<1> QED
  BY <1>5, <1>6, <1>7, OneStack

LEMMA PopStep ==
  ASSUME HookInv, NEW t \in Threads, stack[t] # <<>>, Pop(t), UNCHANGED <<subs, gates, nextSub>>
  PROVE  HookInv' /\ Pump
<1>1. PICK s : s = stack[t]
  OBVIOUS
<1>2. PICK r : r = Front(s)
  OBVIOUS
<1>3. StackOk(s) /\ s # <<>>
  BY <1>1 DEF HookInv
<1>4. StackOk(r) /\ \A d \in DOMAIN r : r[d].at = "inside"
  BY <1>2, <1>3, Popped
<1>5. stack' = [stack EXCEPT ![t] = r]
  BY <1>1, <1>2 DEF Pop
<1>6. r # <<>> => r[Len(r)].at # "nodata"
  <2>1. PICK n \in Nat : n = Len(r) /\ DOMAIN r = 1..n /\ (r = <<>> <=> n = 0)
    BY <1>4, StackShape DEF StackOk
  <2> QED
    BY <1>4, <2>1
<1> QED
  BY <1>4, <1>5, <1>6, OneStack

LEMMA PushStep ==
  ASSUME HookInv, NEW t \in Threads, ModCode(t), NEW f \in FrameRec, Push(t, f),
         FrameOk(Under(stack[t], Len(stack[t]) + 1), f), UNCHANGED <<subs, gates, nextSub>>,
         f.at # "nodata"
  PROVE  HookInv' /\ Pump
<1>1. PICK s : s = stack[t]
  OBVIOUS
<1>2. PICK r : r = Append(s, f)
  OBVIOUS
<1>3. StackOk(s) /\ (s # <<>> => s[Len(s)].at = "inside")
  BY <1>1 DEF HookInv, ModCode, Top
<1>4. FrameOk(Under(s, Len(s) + 1), f)
  BY <1>1
<1>5. StackOk(r)
  BY <1>2, <1>3, <1>4, Pushed
<1>6. stack' = [stack EXCEPT ![t] = r]
  BY <1>1, <1>2 DEF Push
<1>7. r[Len(r)] = f
  <2>1. s \in Seq(FrameRec)
    BY <1>3 DEF StackOk
  <2>2. Len(r) = Len(s) + 1 /\ r[Len(s) + 1] = f
    BY <1>2, <2>1, Appended
  <2> QED
    BY <2>2
<1> QED
  BY <1>5, <1>6, <1>7, OneStack

\* A frame's list, and its sub, with a closure gone.
LEMMA FrameFreed ==
  ASSUME NEW f \in FrameRec, NEW id, NEW todo, NEW sub, NEW g,
         todo = [i \in DOMAIN f.todo |-> [f.todo[i] EXCEPT !.user = @ /\ f.todo[i].id # id]],
         sub = [f.sub EXCEPT !.user = @ /\ f.sub.id # id],
         g = [f EXCEPT !.owed = f.owed \ {id}, !.sub = sub, !.todo = todo]
  PROVE  g \in FrameRec /\ Less(g, f, {id})
<1>1. ASSUME NEW e \in SubRec
      PROVE  /\ [e EXCEPT !.user = @ /\ e.id # id] \in SubRec
             /\ [e EXCEPT !.user = @ /\ e.id # id].id = e.id
  <2>1. PICK b \in BOOLEAN : b = (e.user /\ e.id # id)
    OBVIOUS
  <2>2. [e EXCEPT !.user = @ /\ e.id # id] = [e EXCEPT !.user = b]
    BY <2>1
  <2>3. [e EXCEPT !.user = b] \in SubRec /\ [e EXCEPT !.user = b].id = e.id
    BY DEF SubRec
  <2> QED
    BY <2>2, <2>3
<1>2. f.sub \in SubRec /\ f.todo \in Seq(SubRec)
  BY DEF FrameRec
<1>3. sub \in SubRec /\ sub.id = f.sub.id
  BY <1>1, <1>2
<1>4. PICK n \in Nat : n = Len(f.todo) /\ DOMAIN f.todo = 1..n /\ \A i \in 1..n : f.todo[i] \in SubRec
  BY <1>2, LenProperties, ElementOfSeq
<1>5. todo \in [1..n -> SubRec] /\ \A i \in 1..n : todo[i].id = f.todo[i].id
  BY <1>1, <1>4
<1>6. todo \in Seq(SubRec)
  BY <1>5, IsSequence
<1>7. /\ g \in FrameRec /\ g.todo = todo /\ g.sub = sub /\ g.owed = f.owed \ {id}
      /\ g.kind = f.kind /\ g.at = f.at /\ g.live = f.live
      /\ g.in = f.in /\ g.out = f.out /\ g.edit = f.edit /\ g.body = f.body
      /\ g.changed = f.changed /\ g.hist = f.hist
  BY <1>3, <1>6 DEF FrameRec
<1> QED
  BY <1>3, <1>4, <1>5, <1>7 DEF Less

LEMMA FrameExcused ==
  ASSUME NEW f \in FrameRec, NEW ids, NEW g, g = [f EXCEPT !.owed = f.owed \ ids]
  PROVE  g \in FrameRec /\ Less(g, f, ids)
<1>1. /\ g \in FrameRec /\ g.todo = f.todo /\ g.sub = f.sub /\ g.owed = f.owed \ ids
      /\ g.kind = f.kind /\ g.at = f.at /\ g.live = f.live
      /\ g.in = f.in /\ g.out = f.out /\ g.edit = f.edit /\ g.body = f.body
      /\ g.changed = f.changed /\ g.hist = f.hist
  BY DEF FrameRec
<1> QED
  BY <1>1 DEF Less

\* Every stack loses what it owed the interceptors in ids.
StacksLess(ex, ids) ==
  /\ DOMAIN ex = Threads /\ ex = [t \in Threads |-> ex[t]]
  /\ \A t \in Threads : /\ DOMAIN ex[t] = DOMAIN stack[t]
                        /\ ex[t] = [d \in DOMAIN stack[t] |-> ex[t][d]]
                        /\ \A d \in DOMAIN stack[t] :
                             ex[t][d] \in FrameRec /\ Less(ex[t][d], stack[t][d], ids)

LEMMA FreedIsLess ==
  ASSUME HookInv, NEW id, NEW ex, ex = Freed(id)
  PROVE  StacksLess(ex, {id})
<1>1. /\ DOMAIN ex = Threads /\ ex = [t \in Threads |-> ex[t]]
      /\ \A t \in Threads : /\ DOMAIN ex[t] = DOMAIN stack[t]
                            /\ ex[t] = [d \in DOMAIN stack[t] |-> ex[t][d]]
  BY DEF Freed
<1>2. ASSUME NEW t \in Threads, NEW d \in DOMAIN stack[t]
      PROVE  ex[t][d] \in FrameRec /\ Less(ex[t][d], stack[t][d], {id})
  <2>1. PICK f \in FrameRec : f = stack[t][d]
    BY <1>2, StackShape DEF HookInv, StackOk
  <2>2. PICK todo : todo = [i \in DOMAIN f.todo |-> [f.todo[i] EXCEPT !.user = @ /\ f.todo[i].id # id]]
    OBVIOUS
  <2>3. PICK sub : sub = [f.sub EXCEPT !.user = @ /\ f.sub.id # id]
    OBVIOUS
  <2>4. PICK g : g = [f EXCEPT !.owed = f.owed \ {id}, !.sub = sub, !.todo = todo]
    OBVIOUS
  <2>5. ex[t][d] = g
    BY <1>2, <2>1, <2>2, <2>3, <2>4 DEF Freed
  <2>6. g \in FrameRec /\ Less(g, f, {id})
    BY <2>2, <2>3, <2>4, FrameFreed
  <2> QED
    BY <2>1, <2>5, <2>6
<1> QED
  BY <1>1, <1>2 DEF StacksLess

LEMMA ExcusedIsLess ==
  ASSUME HookInv, NEW ids, NEW ex, ex = Excused(ids)
  PROVE  StacksLess(ex, ids)
<1>1. /\ DOMAIN ex = Threads /\ ex = [t \in Threads |-> ex[t]]
      /\ \A t \in Threads : /\ DOMAIN ex[t] = DOMAIN stack[t]
                            /\ ex[t] = [d \in DOMAIN stack[t] |-> ex[t][d]]
  BY DEF Excused
<1>2. ASSUME NEW t \in Threads, NEW d \in DOMAIN stack[t]
      PROVE  ex[t][d] \in FrameRec /\ Less(ex[t][d], stack[t][d], ids)
  <2>1. PICK f \in FrameRec : f = stack[t][d]
    BY <1>2, StackShape DEF HookInv, StackOk
  <2>2. PICK g : g = [f EXCEPT !.owed = f.owed \ ids]
    OBVIOUS
  <2>3. ex[t][d] = g
    BY <1>2, <2>1, <2>2 DEF Excused
  <2>4. g \in FrameRec /\ Less(g, f, ids)
    BY <2>2, FrameExcused
  <2> QED
    BY <2>1, <2>3, <2>4
<1> QED
  BY <1>1, <1>2 DEF StacksLess

LEMMA LessIsOk ==
  ASSUME HookInv, NEW ids, Loses(ids), NEW ex, StacksLess(ex, ids), NEW t \in Threads
  PROVE  /\ StackOk(ex[t])' /\ Len(ex[t]) = Len(stack[t])
         /\ \A d \in DOMAIN stack[t] : ex[t][d].at = stack[t][d].at
<1>1. PICK s : s = stack[t]
  OBVIOUS
<1>2. PICK r : r = ex[t]
  OBVIOUS
<1>3. /\ DOMAIN r = DOMAIN s /\ r = [d \in DOMAIN s |-> r[d]]
      /\ \A d \in DOMAIN s : r[d] \in FrameRec /\ Less(r[d], s[d], ids)
  BY <1>1, <1>2 DEF StacksLess
<1>4. StackOk(s)
  BY <1>1 DEF HookInv
<1>5. StackOk(r)' /\ Len(r) = Len(s)
  BY <1>3, <1>4, StackLess
<1>6. StackOk(ex[t])'
  BY <1>2, <1>5, Zenon
<1>7. \A d \in DOMAIN s : r[d].at = s[d].at
  BY <1>3 DEF Less
<1> QED
  BY <1>1, <1>2, <1>5, <1>6, <1>7

-----------------------------------------------------------------------------
(* The registry's actions.                                                 *)

LEMMA Rests ==
  ASSUME HookInv, SubsOk', Loses({}), stack' = stack
  PROVE  HookInv' /\ Pump
<1>1. ASSUME NEW t \in Threads PROVE StackOk(stack[t])'
  <2>1. PICK s : s = stack[t]
    OBVIOUS
  <2>2. StackOk(s)
    BY <2>1 DEF HookInv
  <2>3. StackOk(s)'
    BY <2>2, StackGrows
  <2> QED
    BY <2>1, <2>3 DEF StackOk, FrameOk, Due
<1>2. Pump
  BY DEF Pump, In, Top
<1> QED
  BY <1>1, <1>2 DEF HookInv

LEMMA RegisterStep ==
  ASSUME HookInv, NEW t \in Threads, NEW m \in Mods, NEW kinds \in Masks, Register(t, m, kinds)
  PROVE  HookInv' /\ Pump
<1>1. PICK e : e = [id |-> nextSub, mod |-> m, kinds |-> kinds, user |-> TRUE]
  OBVIOUS
<1>2. e \in SubRec /\ e.id = nextSub /\ nextSub \in Nat
  BY <1>1 DEF SubRec, HookInv, SubsOk, Masks, Kinds
<1>3. PICK s \in Seq(SubRec) : s = subs
  BY DEF HookInv, SubsOk
<1>4. PICK w : w = Append(s, e)
  OBVIOUS
<1>5. subs' = w /\ gates' = LiveOf(subs') /\ nextSub' = nextSub + 1 /\ stack' = stack
  BY <1>1, <1>3, <1>4 DEF Register
<1>6. /\ Len(s) \in Nat /\ DOMAIN s = 1..Len(s)
      /\ w \in Seq(SubRec) /\ DOMAIN w = 1..(Len(s) + 1)
      /\ \A i \in 1..Len(s) : w[i] = s[i]
      /\ w[Len(s) + 1] = e
  BY <1>2, <1>4, Appended
<1>7. \A i \in 1..Len(s) : s[i].id < nextSub /\ s[i].id \in Nat
  <2>1. \A i \in 1..Len(s) : s[i] \in SubRec
    BY <1>6, ElementOfSeq
  <2>2. \A i \in 1..Len(s) : s[i].id \in Nat
    BY <2>1 DEF SubRec
  <2>3. \A i \in DOMAIN s : s[i].id < nextSub
    BY <1>3 DEF HookInv, SubsOk
  <2> QED
    BY <1>6, <2>2, <2>3
<1>8. \A i \in 1..(Len(s) + 1) : i = Len(s) + 1 \/ i \in 1..Len(s)
  BY <1>6
<1>9. \A i \in 1..(Len(s) + 1) : w[i].id < nextSub + 1
  BY <1>2, <1>6, <1>7, <1>8
<1>10. Ascending(w)
  <2>1. Ascending(s)
    BY <1>3 DEF HookInv, SubsOk
  <2> SUFFICES ASSUME NEW i \in 1..(Len(s) + 1), NEW j \in 1..(Len(s) + 1), i < j
               PROVE  w[i].id < w[j].id
    BY <1>6 DEF Ascending
  <2>2. i \in 1..Len(s) /\ w[i] = s[i]
    BY <1>6
  <2>3. CASE j = Len(s) + 1
    BY <1>2, <1>6, <1>7, <2>2, <2>3
  <2>4. CASE j \in 1..Len(s)
    BY <1>6, <2>1, <2>2, <2>4 DEF Ascending
  <2> QED
    BY <1>8, <2>3, <2>4
<1>11. SubsOk'
  BY <1>2, <1>5, <1>6, <1>9, <1>10 DEF SubsOk, Ascending
<1>12. Loses({})
  <2> SUFFICES ASSUME NEW k \in Sides, NEW x \in Wanted(k) PROVE x \in Wanted(k)'
    BY DEF Loses
  <2>1. PICK i \in DOMAIN s : s[i].id = x /\ k \in s[i].kinds
    BY <1>3 DEF Wanted
  <2>2. i \in DOMAIN w /\ w[i] = s[i]
    BY <1>6, <2>1
  <2> QED
    BY <1>5, <2>1, <2>2 DEF Wanted
<1> QED
  BY <1>5, <1>11, <1>12, Rests

\* All the stacks of a step that takes interceptors away.
LEMMA AllLess ==
  ASSUME HookInv, NEW ids, Loses(ids), SubsOk', NEW ex, StacksLess(ex, ids), stack' = ex
  PROVE  HookInv' /\ Pump
<1>1. ASSUME NEW t \in Threads PROVE StackOk(stack[t])'
  <2>1. PICK r : r = ex[t]
    OBVIOUS
  <2>2. StackOk(ex[t])'
    BY LessIsOk
  <2> QED
    BY <2>2 DEF StackOk, FrameOk, Due
<1>2. ASSUME NEW t \in Threads, In(t, "nodata")', ~In(t, "nodata")
      PROVE  FALSE
  <2>1. PICK n \in Nat : n = Len(stack[t]) /\ DOMAIN stack[t] = 1..n /\ (stack[t] = <<>> <=> n = 0)
    BY StackShape DEF HookInv, StackOk
  <2>2. PICK k \in Nat : k = Len(ex[t]) /\ DOMAIN ex[t] = 1..k /\ (ex[t] = <<>> <=> k = 0)
    <3>1. DOMAIN ex[t] = 1..n /\ Len(ex[t]) = n
      BY <2>1, LessIsOk DEF StacksLess
    <3>2. ex[t] = <<>> => n = 0
      BY <2>1, <3>1
    <3>3. n = 0 => ex[t] = <<>>
      BY <2>1, <3>1 DEF StacksLess
    <3> QED
      BY <2>1, <3>1, <3>2, <3>3
  <2>3. k = n /\ \A d \in DOMAIN stack[t] : ex[t][d].at = stack[t][d].at
    BY <2>1, <2>2, LessIsOk
  <2>4. ex[t] # <<>> /\ ex[t][k].at = "nodata"
    BY <1>2, <2>2 DEF In, Top
  <2> QED
    BY <1>2, <2>1, <2>2, <2>3, <2>4 DEF In, Top
<1> QED
  BY <1>1, <1>2 DEF HookInv, Pump, StacksLess

LEMMA UnregisterStep ==
  ASSUME HookInv, NEW t \in Threads, NEW m \in Mods, NEW s, Unregister(t, m, s)
  PROVE  HookInv' /\ Pump
<1>1. PICK id : id = s.id
  OBVIOUS
<1>2. /\ subs' = Without({id}) /\ gates' = LiveOf(subs') /\ nextSub' = nextSub
      /\ stack' = Freed(id)
  BY <1>1 DEF Unregister
<1>3. SubsOk' /\ Loses({id})
  BY <1>2, Erased DEF HookInv
<1>4. PICK ex : ex = Freed(id)
  OBVIOUS
<1>5. StacksLess(ex, {id})
  BY <1>4, FreedIsLess
<1> QED
  BY <1>2, <1>3, <1>4, <1>5, AllLess

\* A new frame.
LEMMA NewFrame ==
  ASSUME HookInv, NEW k \in Sides, NEW c \in Conns \cup {None},
         NEW at \in {"dispatch", "origin", "pull", "inside"}, NEW p \in Packet,
         NEW f, f = Frame(k, c, at, p)
  PROVE  /\ f \in FrameRec /\ f.kind = k /\ f.at = at /\ ~f.live
         /\ f.in = p /\ f.out = p /\ f.hist = <<>> /\ f.todo = <<>> /\ ~f.changed
         /\ f.owed = Wanted(k)
<1>1. PICK w : w = Wanting(k)
  OBVIOUS
<1>2. w \in Seq(SubRec) /\ Ids(w) = Wanted(k)
  BY <1>1, WantingIs DEF HookInv
<1>3. PICK o : o = Wanted(k)
  OBVIOUS
<1>4. o \in SUBSET Nat
  <2>1. \A i \in DOMAIN w : w[i] \in SubRec
    BY <1>2, LenProperties, ElementOfSeq
  <2> QED
    BY <1>2, <1>3, <2>1 DEF Ids, SubRec
<1>5. f = [kind |-> k, conn |-> c, at |-> at, live |-> FALSE, in |-> p, out |-> p,
           edit |-> [id |-> 0, sender |-> 0, target |-> 0], body |-> p.body,
           changed |-> FALSE, todo |-> <<>>, sub |-> NoSub, owed |-> o, hist |-> <<>>]
  BY <1>1, <1>2, <1>3 DEF Frame
<1>6. NoSub \in SubRec /\ p.body \in Bodies
  BY DEF NoSub, SubRec, Packet
<1>7. <<>> \in Seq(SubRec) /\ <<>> \in Seq(Said)
  OBVIOUS
<1>8. [id |-> 0, sender |-> 0, target |-> 0] \in Edit
  BY DEF Edit
<1>9. f \in FrameRec
  BY <1>4, <1>5, <1>6, <1>7, <1>8 DEF FrameRec, Sides, Walking
<1> QED
  BY <1>3, <1>5, <1>9

\* A frame whose callbacks are still to come.
LEMMA FreshOk ==
  ASSUME NEW n, NEW f \in FrameRec, f.hist = <<>>, f.todo = <<>>, ~f.changed, f.out = f.in,
         f.kind = "unload" => f.at = "inside",
         \/ f.at = "dispatch" /\ f.owed \subseteq Wanted(f.kind) /\ (f.kind = "in" => f.live)
         \/ f.at = "origin" /\ f.owed = {}
         \/ f.at = "pull" /\ f.kind = "in" /\ (~f.live => f.owed = {})
         \/ f.at = "inside" /\ f.kind = "unload"
  PROVE  FrameOk(n, f)
<1>1. DOMAIN f.hist = {} /\ DOMAIN f.todo = {}
  OBVIOUS
<1>2. Ordered(f)
  BY <1>1 DEF Ordered, Ascending
<1>3. Due(n, f) /\ Shape(n, f)
  BY DEF Due, Shape, Walking
<1>4. Replaces(f) = {}
  BY <1>1 DEF Replaces
<1>5. Chained(n, f)
  BY <1>1, <1>4 DEF Chained, Made, Forwarded, Walking
<1> QED
  BY <1>2, <1>3, <1>5 DEF FrameOk

LEMMA NoPacketIs == NoPacket \in Packet
<1>1. <<>> \in Seq(0..255) /\ None \in Bodies
  BY DEF Bodies
<1> QED
  BY <1>1 DEF NoPacket, Packet

\* The unload of a mod is pushed on a stack that loses the mod's interceptors.
LEMMA ModGoneStep ==
  ASSUME HookInv, NEW m \in Mods, ModGone(m)
  PROVE  HookInv' /\ Pump
<1>1. PICK ids : ids = OfMod(m)
  OBVIOUS
<1>2. PICK ex : ex = Excused(ids)
  OBVIOUS
<1>3. PICK u : u = Unload(m)
  OBVIOUS
<1>4. PICK f : f = Frame("unload", None, "inside", NoPacket)
  OBVIOUS
<1>5. /\ f \in FrameRec /\ f.kind = "unload" /\ f.at = "inside"
      /\ f.in = NoPacket /\ f.out = NoPacket /\ f.hist = <<>> /\ f.todo = <<>>
      /\ ~f.changed /\ f.owed = Wanted("unload")
  <2>1. "unload" \in Sides /\ None \in Conns \cup {None}
    BY DEF Sides
  <2>2. "inside" \in {"dispatch", "origin", "pull", "inside"}
    OBVIOUS
  <2>3. PICK k \in Sides, c \in Conns \cup {None}, p \in Packet,
             at \in {"dispatch", "origin", "pull", "inside"} :
          k = "unload" /\ c = None /\ p = NoPacket /\ at = "inside"
    BY <2>1, <2>2, NoPacketIs
  <2>4. f = Frame(k, c, at, p)
    BY <1>4, <2>3
  <2>5. /\ f \in FrameRec /\ f.kind = k /\ f.at = at
        /\ f.in = p /\ f.out = p /\ f.hist = <<>> /\ f.todo = <<>>
        /\ ~f.changed /\ f.owed = Wanted(k)
    BY <2>4, NewFrame
  <2> QED
    BY <2>3, <2>5
<1>6. Wanted("unload") = {}
  <2>1. PICK w \in Seq(SubRec) : w = subs
    BY DEF HookInv, SubsOk
  <2>2. \A i \in DOMAIN w : w[i] \in SubRec
    BY LenProperties, ElementOfSeq
  <2>3. \A i \in DOMAIN w : "unload" \notin w[i].kinds
    BY <2>2 DEF SubRec, Kinds
  <2> QED
    BY <2>1, <2>3 DEF Wanted
<1>7. u = [f EXCEPT !.sub = [f.sub EXCEPT !.mod = m]]
  BY <1>3, <1>4 DEF Unload
<1>8. f.sub \in SubRec
  BY <1>5 DEF FrameRec
<1>9. [f.sub EXCEPT !.mod = m] \in SubRec
  BY <1>8 DEF SubRec
<1>10. /\ u \in FrameRec /\ u.kind = "unload" /\ u.at = "inside" /\ u.out = u.in
       /\ u.hist = <<>> /\ u.todo = <<>> /\ ~u.changed /\ u.owed = {}
  BY <1>5, <1>6, <1>7, <1>9 DEF FrameRec
<1>11. /\ subs' = Without(ids) /\ gates' = LiveOf(subs') /\ nextSub' = nextSub
       /\ stack' = [ex EXCEPT ![Main] = Append(@, u)]
       /\ ModCode(Main)
  BY <1>1, <1>2, <1>3 DEF ModGone
<1>12. SubsOk' /\ Loses(ids)
  BY <1>11, Erased DEF HookInv
<1>13. StacksLess(ex, ids)
  BY <1>2, ExcusedIsLess
<1>14. Main \in Threads
  BY PacketAssumption
<1>15. PICK s : s = stack[Main]
  OBVIOUS
<1>16. PICK r : r = ex[Main]
  OBVIOUS
<1>17. /\ StackOk(s) /\ DOMAIN r = DOMAIN s /\ r = [d \in DOMAIN s |-> r[d]]
       /\ \A d \in DOMAIN s : r[d] \in FrameRec /\ Less(r[d], s[d], ids)
       /\ s # <<>> => s[Len(s)].at = "inside"
  BY <1>11, <1>13, <1>14, <1>15, <1>16 DEF StacksLess, HookInv, ModCode, Top
<1>18. PICK n \in Nat : n = Len(s) /\ DOMAIN s = 1..n /\ s \in Seq(FrameRec)
  BY <1>17, StackShape DEF StackOk
<1>19. PICK s2 : s2 = Append(s, u)
  OBVIOUS
<1>20. FrameOk(Under(s, Len(s) + 1), u)
  BY <1>10, FreshOk
<1>21. StackOk(s2)
  BY <1>10, <1>17, <1>19, <1>20, Pushed
<1>22. r \in Seq(FrameRec) /\ Len(r) = n
  <2>1. r \in [1..n -> FrameRec]
    BY <1>17, <1>18
  <2> QED
    BY <2>1, IsSequence
<1>23. PICK r2 : r2 = Append(r, u)
  OBVIOUS
<1>24. /\ r2 \in Seq(FrameRec) /\ DOMAIN r2 = 1..(n + 1) /\ Len(r2) = n + 1
       /\ r2[n + 1] = u /\ \A d \in 1..n : r2[d] = r[d]
  BY <1>10, <1>22, <1>23, Appended
<1>25. /\ DOMAIN s2 = 1..(n + 1) /\ s2[n + 1] = u /\ \A d \in 1..n : s2[d] = s[d]
  BY <1>10, <1>18, <1>19, Appended
<1>26. r2 = [d \in 1..(n + 1) |-> r2[d]]
  BY <1>24
<1>27. Less(u, u, ids)
  BY <1>10 DEF Less
<1>28. ASSUME NEW d \in 1..(n + 1)
       PROVE  r2[d] \in FrameRec /\ Less(r2[d], s2[d], ids)
  <2>1. CASE d = n + 1
    BY <1>10, <1>24, <1>25, <1>27, <2>1
  <2>2. CASE d \in 1..n
    BY <1>17, <1>18, <1>24, <1>25, <2>2
  <2> QED
    BY <1>28, <2>1, <2>2
<1>29. StackOk(r2)'
  BY <1>12, <1>21, <1>24, <1>25, <1>26, <1>28, StackLess
<1>30. /\ DOMAIN stack' = Threads /\ stack' = [t \in Threads |-> stack'[t]]
       /\ stack'[Main] = r2 /\ \A t \in Threads : t # Main => stack'[t] = ex[t]
  BY <1>11, <1>13, <1>14, <1>16, <1>23 DEF StacksLess
<1>31. ASSUME NEW t \in Threads PROVE StackOk(stack[t])'
  <2>1. CASE t = Main
    BY <1>29, <1>30, <2>1 DEF StackOk, FrameOk, Due
  <2>2. CASE t # Main
    <3>1. StackOk(ex[t])'
      BY <1>12, <1>13, LessIsOk
    <3> QED
      BY <1>30, <2>2, <3>1 DEF StackOk, FrameOk, Due
  <2> QED
    BY <2>1, <2>2
<1>32. ASSUME NEW t \in Threads, In(t, "nodata")', ~In(t, "nodata") PROVE FALSE
  <2>1. CASE t = Main
    BY <1>10, <1>24, <1>30, <1>32, <2>1 DEF In, Top
  <2>2. CASE t # Main
    <3>1. PICK k \in Nat : k = Len(stack[t]) /\ DOMAIN stack[t] = 1..k /\ (stack[t] = <<>> <=> k = 0)
      BY StackShape DEF HookInv, StackOk
    <3>2. /\ Len(ex[t]) = k /\ \A d \in 1..k : ex[t][d].at = stack[t][d].at
      BY <1>12, <1>13, <3>1, LessIsOk
    <3>3. k = 0 => ex[t] = <<>>
      BY <1>13, <3>1 DEF StacksLess
    <3> QED
      BY <1>30, <1>32, <2>2, <3>1, <3>2, <3>3 DEF In, Top
  <2> QED
    BY <2>1, <2>2
<1> QED
  BY <1>12, <1>30, <1>31, <1>32 DEF HookInv, Pump

-----------------------------------------------------------------------------
(* The detours.                                                            *)

\* What a step does to no frame's registry.
LEMMA SendStep ==
  ASSUME HookInv, NEW t \in Threads, NEW c \in Conns, NEW p \in Packets, Send(t, c, p)
  PROVE  HookInv' /\ Pump
<1>1. PICK at \in {"dispatch", "origin"} :
        at = IF "out" \in gates THEN "dispatch" ELSE "origin"
  OBVIOUS
<1>2. PICK f : f = Frame("out", c, at, p)
  OBVIOUS
<1>3. /\ f \in FrameRec /\ f.kind = "out" /\ f.at = at /\ f.in = p /\ f.out = p
      /\ f.hist = <<>> /\ f.todo = <<>> /\ ~f.changed /\ f.owed = Wanted("out")
  <2>1. p \in Packet /\ "out" \in Sides /\ c \in Conns \cup {None}
    BY PacketAssumption DEF Sides, Kinds
  <2> QED
    BY <1>1, <1>2, <2>1, NewFrame
<1>4. at = "origin" => f.owed = {}
  BY <1>1, <1>3, GateIs DEF HookInv
<1>5. FrameOk(Under(stack[t], Len(stack[t]) + 1), f)
  BY <1>1, <1>3, <1>4, FreshOk
<1>6. ModCode(t) /\ Push(t, f) /\ UNCHANGED <<subs, gates, nextSub>>
  BY <1>1, <1>2 DEF Send, registry
<1> QED
  BY <1>1, <1>3, <1>5, <1>6, PushStep

LEMMA ReceiveStep ==
  ASSUME HookInv, NEW t \in Threads, NEW c \in Conns, Receive(t, c)
  PROVE  HookInv' /\ Pump
<1>1. PICK b \in BOOLEAN : b <=> "in" \in gates
  OBVIOUS
<1>2. PICK f : f = Frame("in", c, "pull", NoPacket)
  OBVIOUS
<1>3. /\ f \in FrameRec /\ f.kind = "in" /\ f.at = "pull" /\ f.in = NoPacket /\ f.out = NoPacket
      /\ f.hist = <<>> /\ f.todo = <<>> /\ ~f.changed /\ f.owed = Wanted("in")
  <2>1. "in" \in Sides /\ c \in Conns \cup {None}
    BY DEF Sides, Kinds
  <2> QED
    BY <1>2, <2>1, NewFrame, NoPacketIs
<1>4. PICK g : g = [f EXCEPT !.live = b]
  OBVIOUS
<1>5. /\ g \in FrameRec /\ g.kind = "in" /\ g.at = "pull" /\ g.out = g.in /\ g.live = b
      /\ g.hist = <<>> /\ g.todo = <<>> /\ ~g.changed /\ g.owed = Wanted("in")
  BY <1>3, <1>4 DEF FrameRec
<1>6. ~b => g.owed = {}
  BY <1>1, <1>5, GateIs DEF HookInv
<1>7. FrameOk(Under(stack[t], Len(stack[t]) + 1), g)
  BY <1>5, <1>6, FreshOk
<1>8. ("in" \in gates) = b
  BY <1>1
<1>9. ModCode(t) /\ Push(t, g) /\ UNCHANGED <<subs, gates, nextSub>>
  BY <1>2, <1>4, <1>8 DEF Receive, registry, ModCode
<1> QED
  BY <1>5, <1>7, <1>9, PushStep

LEMMA ConnEventStep ==
  ASSUME HookInv, NEW t \in Threads, NEW c \in Conns, NEW from, NEW to, ConnEvent(t, c, from, to)
  PROVE  HookInv' /\ Pump
<1>1. PICK at \in {"dispatch", "origin"} :
        at = IF "conn" \in gates THEN "dispatch" ELSE "origin"
  OBVIOUS
<1>2. PICK f : f = Frame("conn", c, at, NoPacket)
  OBVIOUS
<1>3. /\ f \in FrameRec /\ f.kind = "conn" /\ f.at = at /\ f.in = NoPacket /\ f.out = NoPacket
      /\ f.hist = <<>> /\ f.todo = <<>> /\ ~f.changed /\ f.owed = Wanted("conn")
  <2>1. "conn" \in Sides /\ c \in Conns \cup {None}
    BY DEF Sides, Kinds
  <2> QED
    BY <1>1, <1>2, <2>1, NewFrame, NoPacketIs
<1>4. at = "origin" => f.owed = {}
  BY <1>1, <1>3, GateIs DEF HookInv
<1>5. FrameOk(Under(stack[t], Len(stack[t]) + 1), f)
  BY <1>1, <1>3, <1>4, FreshOk
<1>6. ModCode(t) /\ Push(t, f) /\ UNCHANGED <<subs, gates, nextSub>>
  BY <1>1, <1>2 DEF ConnEvent, registry, ModCode
<1> QED
  BY <1>1, <1>3, <1>5, <1>6, PushStep

LEMMA PullStep ==
  ASSUME HookInv, NEW t \in Threads, NEW p \in Packets, Pull(t, p)
  PROVE  HookInv' /\ Pump
<1>1. stack[t] # <<>> /\ UNCHANGED <<subs, gates, nextSub>>
  BY DEF Pull, In, registry
<1>2. PICK n \in Nat, f \in FrameRec :
        /\ n = Len(stack[t]) /\ n # 0
        /\ f = Top(t) /\ FrameOk(Under(stack[t], n), f)
  BY <1>1, TopFrame
<1>3. f.at = "pull"
  BY <1>2 DEF Pull, In
<1>4. f.kind = "in" /\ (~f.live => f.owed = {}) /\ f.conn \in Conns \cup {None} /\ f.live \in BOOLEAN
  BY <1>2, <1>3 DEF FrameOk, Shape, Due, FrameRec
<1>5. CASE inbox[f.conn] = 0
  <2>1. PICK g : g = [f EXCEPT !.at = "nodata"]
    OBVIOUS
  <2>2. SetTop(t, g)
    BY <1>2, <1>5, <2>1 DEF Pull
  <2>3. g \in FrameRec /\ g.at = "nodata" /\ g.kind = "in" /\ g.hist = f.hist
    BY <1>4, <2>1 DEF FrameRec
  <2>4. FrameOk(Under(stack[t], n), g)
    BY <1>2, <2>3 DEF FrameOk, Ordered, Due, Shape, Chained, Walking
  <2> QED
    BY <1>1, <1>2, <1>5, <2>2, <2>3, <2>4, TopStep
<1>6. CASE inbox[f.conn] # 0
  <2>1. PICK at \in {"dispatch", "origin"} : at = IF f.live THEN "dispatch" ELSE "origin"
    OBVIOUS
  <2>2. PICK e : e = Frame("in", f.conn, "dispatch", p)
    OBVIOUS
  <2>3. /\ e \in FrameRec /\ e.kind = "in" /\ e.at = "dispatch" /\ e.in = p /\ e.out = p
        /\ e.hist = <<>> /\ e.todo = <<>> /\ ~e.changed /\ e.owed = Wanted("in")
    <3>1. p \in Packet /\ "in" \in Sides
      BY PacketAssumption DEF Sides, Kinds
    <3> QED
      BY <1>4, <2>2, <3>1, NewFrame, SMTT(20)
  <2>4. PICK o : o = IF f.live THEN e.owed ELSE f.owed
    OBVIOUS
  <2>5. o \in SUBSET Nat
    BY <2>3, <2>4 DEF FrameRec
  <2>6. PICK g : g = [e EXCEPT !.live = f.live, !.at = at, !.owed = o]
    OBVIOUS
  <2>7. /\ g \in FrameRec /\ g.kind = "in" /\ g.at = at /\ g.out = g.in /\ (g.live <=> f.live)
        /\ g.hist = <<>> /\ g.todo = <<>> /\ ~g.changed /\ g.owed = o
    BY <1>4, <2>1, <2>3, <2>5, <2>6, ZenonT(40) DEF FrameRec
  <2>8. SetTop(t, g)
    BY <1>2, <1>6, <2>1, <2>2, <2>3, <2>4, <2>6 DEF Pull
  <2>9. FrameOk(Under(stack[t], n), g)
    <3>1. CASE f.live
      BY <2>1, <2>3, <2>4, <2>7, <3>1, FreshOk
    <3>2. CASE ~f.live
      BY <1>4, <2>1, <2>4, <2>7, <3>2, FreshOk
    <3> QED
      BY <3>1, <3>2
  <2> QED
    BY <1>1, <1>2, <2>1, <2>7, <2>8, <2>9, TopStep
<1> QED
  BY <1>5, <1>6

LEMMA SnapshotStep ==
  ASSUME HookInv, NEW t \in Threads, Snapshot(t)
  PROVE  HookInv' /\ Pump
<1>1. stack[t] # <<>> /\ UNCHANGED <<subs, gates, nextSub>>
  BY DEF Snapshot, In, registry
<1>2. PICK n \in Nat, f \in FrameRec :
        /\ n = Len(stack[t]) /\ n # 0
        /\ f = Top(t) /\ FrameOk(Under(stack[t], n), f) /\ (Nested(t) <=> Under(stack[t], n))
  BY <1>1, TopFrame
<1>3. f.at = "dispatch"
  BY <1>2 DEF Snapshot, In
<1>4. f.owed \subseteq Wanted(f.kind) /\ f.hist = <<>> /\ f.kind # "unload" /\ (f.kind = "in" => f.live)
      /\ (f.kind \in {"in", "out"} => f.out = f.in /\ ~f.changed)
  BY <1>2, <1>3 DEF FrameOk, Due, Shape, Chained, Made, Replaces, Walking
<1>5. PICK w : w = Wanting(f.kind)
  OBVIOUS
<1>6. /\ w \in Seq(SubRec) /\ Ascending(w) /\ Ids(w) = Wanted(f.kind)
      /\ \A x \in Wanted(f.kind) : \E j \in DOMAIN w : w[j].id = x
  BY <1>5, WantingIs DEF HookInv
<1>7. PICK b : b = Under(stack[t], n)
  OBVIOUS
<1>8. CASE HandsOff(t) \/ w = <<>>
  <2>1. PICK g : g = [f EXCEPT !.at = "origin"]
    OBVIOUS
  <2>2. SetTop(t, g)
    BY <1>2, <1>5, <1>8, <2>1 DEF Snapshot
  <2>3. /\ g \in FrameRec /\ g.at = "origin" /\ g.kind = f.kind /\ g.hist = f.hist
        /\ g.in = f.in /\ g.out = f.out /\ g.owed = f.owed /\ g.live = f.live
    BY <2>1 DEF FrameRec
  <2>4. Readable(g) /\ ~Under(stack[t], n) => g.owed = {}
    <3>1. CASE HandsOff(t)
      BY <1>2, <2>3, <3>1 DEF HandsOff, Readable, Interceptable
    <3>2. CASE w = <<>>
      BY <1>4, <1>6, <2>3, <3>2 DEF Ids
    <3> QED
      BY <1>8, <3>1, <3>2
  <2>5. Ordered(g) /\ Due(Under(stack[t], n), g) /\ Shape(Under(stack[t], n), g)
    BY <1>4, <2>3, <2>4 DEF Ordered, Due, Shape, Walking
  <2>6. Replaces(g) = {}
    BY <1>4, <2>3 DEF Replaces
  <2>7. Chained(Under(stack[t], n), g)
    BY <1>4, <2>3, <2>6 DEF Chained, Forwarded, Walking
  <2>8. FrameOk(Under(stack[t], n), g)
    BY <2>5, <2>7 DEF FrameOk
  <2> QED
    BY <1>1, <1>2, <2>2, <2>3, <2>8, TopStep
<1>9. CASE ~HandsOff(t) /\ w # <<>>
  <2>1. PICK e : e = IF f.kind = "conn" THEN f.edit ELSE Fields(f.in.head)
    OBVIOUS
  <2>2. f.kind # "conn" => ~Under(stack[t], n) /\ Decodes(f.in.head)
    BY <1>2, <1>9 DEF HandsOff
  <2>3. e \in Edit
    <3>1. CASE f.kind = "conn"
      BY <2>1, <3>1 DEF FrameRec
    <3>2. CASE f.kind # "conn"
      <4>1. f.in.head \in Seq(0..255)
        BY DEF FrameRec, Packet
      <4>2. Fields(f.in.head) \in Field
        BY <2>2, <3>2, <4>1, FieldsFit
      <4> QED
        BY <2>1, <3>2, <4>2 DEF Field, Edit
    <3> QED
      BY <3>1, <3>2
  <2>4. PICK g : g = [f EXCEPT !.at = "resolve", !.todo = w, !.edit = e]
    OBVIOUS
  <2>5. SetTop(t, g)
    BY <1>2, <1>5, <1>9, <2>1, <2>4 DEF Snapshot
  <2>6. /\ g \in FrameRec /\ g.at = "resolve" /\ g.kind = f.kind /\ g.hist = <<>>
        /\ g.in = f.in /\ g.out = f.out /\ g.owed = f.owed /\ g.live = f.live
        /\ g.changed = f.changed /\ g.todo = w /\ g.edit = e
    BY <1>4, <1>6, <2>3, <2>4 DEF FrameRec, Walking
  <2>7. Ordered(g)
    BY <1>6, <2>6 DEF Ordered
  <2>8. Due(Under(stack[t], n), g) /\ Shape(Under(stack[t], n), g)
    BY <1>4, <1>6, <2>2, <2>6 DEF Due, Shape, Walking
  <2>9. Replaces(g) = {} /\ Renames(g) = {}
    BY <2>6 DEF Replaces, Renames
  <2>10. Chained(Under(stack[t], n), g)
    BY <1>4, <2>1, <2>6, <2>9 DEF Chained, Made
  <2>11. FrameOk(Under(stack[t], n), g)
    BY <2>7, <2>8, <2>10 DEF FrameOk
  <2> QED
    BY <1>1, <1>2, <2>5, <2>6, <2>11, TopStep
<1> QED
  BY <1>8, <1>9

LEMMA ResolveStep ==
  ASSUME HookInv, NEW t \in Threads, Resolve(t)
  PROVE  HookInv' /\ Pump
<1>1. stack[t] # <<>> /\ UNCHANGED <<subs, gates, nextSub>>
  BY DEF Resolve, In, registry
<1>2. PICK n \in Nat, f \in FrameRec :
        /\ n = Len(stack[t]) /\ n # 0
        /\ f = Top(t) /\ FrameOk(Under(stack[t], n), f)
  BY <1>1, TopFrame
<1>3. f.at = "resolve"
  BY <1>2 DEF Resolve, In
<1>4. PICK g : g = [f EXCEPT !.at = "loop"]
  OBVIOUS
<1>5. SetTop(t, g)
  BY <1>2, <1>4 DEF Resolve
<1>6. /\ g \in FrameRec /\ g.at = "loop" /\ g.kind = f.kind /\ g.hist = f.hist
      /\ g.in = f.in /\ g.out = f.out /\ g.owed = f.owed /\ g.live = f.live
      /\ g.changed = f.changed /\ g.todo = f.todo /\ g.edit = f.edit /\ g.body = f.body
  BY <1>4 DEF FrameRec, Walking
<1>7. Ordered(g) /\ Due(Under(stack[t], n), g) /\ Shape(Under(stack[t], n), g)
  BY <1>2, <1>3, <1>6 DEF FrameOk, Ordered, Due, Shape, Walking
<1>8. Replaces(g) = Replaces(f) /\ Renames(g) = Renames(f)
  BY <1>6 DEF Replaces, Renames
<1>9. Chained(Under(stack[t], n), g)
  BY <1>2, <1>3, <1>6, <1>8 DEF FrameOk, Chained, Made, Walking
<1>10. FrameOk(Under(stack[t], n), g)
  BY <1>7, <1>9 DEF FrameOk
<1> QED
  BY <1>1, <1>2, <1>5, <1>6, <1>10, TopStep

LEMMA CallStep ==
  ASSUME HookInv, NEW t \in Threads, Call(t)
  PROVE  HookInv' /\ Pump
<1>1. stack[t] # <<>> /\ UNCHANGED <<subs, gates, nextSub>>
  BY DEF Call, In, registry
<1>2. PICK n \in Nat, f \in FrameRec :
        /\ n = Len(stack[t]) /\ n # 0
        /\ f = Top(t) /\ FrameOk(Under(stack[t], n), f)
  BY <1>1, TopFrame
<1>3. f.at = "loop" /\ f.todo # <<>> /\ f.todo \in Seq(SubRec)
  BY <1>2 DEF Call, In, FrameRec
<1>4. PICK w \in Seq(SubRec) : w = f.todo
  BY <1>3
<1>5. PICK s : s = Tail(w)
  OBVIOUS
<1>6. PICK e : e = Head(w)
  OBVIOUS
<1>7. /\ e \in SubRec /\ s \in Seq(SubRec)
      /\ DOMAIN w = 1..Len(w) /\ Len(w) \in Nat /\ 1 \in DOMAIN w /\ e = w[1]
      /\ DOMAIN s = 1..(Len(w) - 1) /\ \A i \in DOMAIN s : s[i] = w[i + 1]
  BY <1>3, <1>4, <1>5, <1>6, HeadTailProperties, LenProperties, EmptySeq
<1>8. PICK o : o = f.owed \ {e.id}
  OBVIOUS
<1>9. PICK g : g = [f EXCEPT !.at = "inside", !.sub = e, !.todo = s, !.owed = o]
  OBVIOUS
<1>10. SetTop(t, g)
  BY <1>2, <1>4, <1>5, <1>6, <1>8, <1>9 DEF Call
<1>11. o \in SUBSET Nat
  BY <1>8 DEF FrameRec
<1>12. /\ g \in FrameRec /\ g.at = "inside" /\ g.kind = f.kind /\ g.hist = f.hist
       /\ g.in = f.in /\ g.out = f.out /\ g.owed = o /\ g.live = f.live
       /\ g.changed = f.changed /\ g.todo = s /\ g.edit = f.edit /\ g.body = f.body
       /\ g.sub = e
  BY <1>7, <1>9, <1>11 DEF FrameRec, Walking
<1>13. /\ Ascending(w) /\ \A i \in DOMAIN f.hist, j \in DOMAIN w : f.hist[i].sub < w[j].id
       /\ \A i, j \in DOMAIN f.hist : i < j => f.hist[i].sub < f.hist[j].sub
  BY <1>2, <1>3, <1>4 DEF FrameOk, Ordered, Walking
<1>14. \A i \in DOMAIN s : i + 1 \in DOMAIN w /\ 1 < i + 1
  BY <1>7
<1>15. \A i \in DOMAIN w : i = 1 \/ (i - 1 \in DOMAIN s /\ s[i - 1] = w[i])
  BY <1>7
<1>16. Ascending(s) /\ \A j \in DOMAIN s : e.id < s[j].id
  <2>1. \A i, j \in DOMAIN s : i < j => i + 1 < j + 1
    BY <1>7
  <2> QED
    BY <1>7, <1>13, <1>14, <2>1 DEF Ascending
<1>17. /\ \A i \in DOMAIN f.hist : f.hist[i].sub < e.id
       /\ \A i \in DOMAIN f.hist, j \in DOMAIN s : f.hist[i].sub < s[j].id
  BY <1>7, <1>13, <1>14
<1>18. Ordered(g)
  BY <1>12, <1>13, <1>16, <1>17 DEF Ordered
<1>19. f.kind # "unload" => \A x \in o : \E j \in DOMAIN s : s[j].id = x
  <2> SUFFICES ASSUME f.kind # "unload", NEW x \in o PROVE \E j \in DOMAIN s : s[j].id = x
    OBVIOUS
  <2>1. PICK j \in DOMAIN w : w[j].id = x
    BY <1>2, <1>3, <1>4, <1>8 DEF FrameOk, Due, Walking
  <2>2. j # 1
    BY <1>7, <1>8, <2>1
  <2> QED
    BY <1>15, <2>1, <2>2
<1>20. Due(Under(stack[t], n), g) /\ Shape(Under(stack[t], n), g)
  BY <1>2, <1>3, <1>12, <1>19 DEF FrameOk, Due, Shape, Walking
<1>21. Replaces(g) = Replaces(f) /\ Renames(g) = Renames(f)
  BY <1>12 DEF Replaces, Renames
<1>22. Chained(Under(stack[t], n), g)
  BY <1>2, <1>3, <1>12, <1>21 DEF FrameOk, Chained, Made, Walking
<1>23. FrameOk(Under(stack[t], n), g)
  BY <1>18, <1>20, <1>22 DEF FrameOk
<1> QED
  BY <1>1, <1>2, <1>10, <1>12, <1>23, TopStep


LEMMA ConnReturnStep ==
  ASSUME HookInv, NEW t \in Threads, ConnReturn(t)
  PROVE  HookInv' /\ Pump
<1>1. stack[t] # <<>> /\ UNCHANGED <<subs, gates, nextSub>>
  BY DEF ConnReturn, In, registry
<1>2. PICK n \in Nat, f \in FrameRec :
        /\ n = Len(stack[t]) /\ n # 0
        /\ f = Top(t) /\ FrameOk(Under(stack[t], n), f)
  BY <1>1, TopFrame
<1>3. f.at = "inside" /\ f.kind = "conn"
  BY <1>2 DEF ConnReturn, In
<1>4. PICK e \in SubRec : e = NoSub
  BY DEF NoSub, SubRec
<1>5. PICK g : g = [f EXCEPT !.at = "loop", !.sub = e]
  OBVIOUS
<1>6. SetTop(t, g)
  BY <1>2, <1>4, <1>5 DEF ConnReturn
<1>7. /\ g \in FrameRec /\ g.at = "loop" /\ g.kind = "conn" /\ g.hist = f.hist
      /\ g.in = f.in /\ g.out = f.out /\ g.owed = f.owed /\ g.live = f.live
      /\ g.todo = f.todo
  BY <1>3, <1>5 DEF FrameRec, Walking
<1>8. FrameOk(Under(stack[t], n), g)
  BY <1>2, <1>3, <1>7 DEF FrameOk, Ordered, Due, Shape, Chained, Walking
<1> QED
  BY <1>1, <1>2, <1>6, <1>7, <1>8, TopStep

LEMMA LeaveStep ==
  ASSUME HookInv, NEW t \in Threads, Leave(t)
  PROVE  HookInv' /\ Pump
<1>1. stack[t] # <<>> /\ UNCHANGED <<subs, gates, nextSub>>
  BY DEF Leave, registry
<1>2. PICK n \in Nat, f \in FrameRec :
        /\ n = Len(stack[t]) /\ n # 0
        /\ f = Top(t) /\ FrameOk(Under(stack[t], n), f)
  BY <1>1, TopFrame
<1>3. CASE f.kind = "in" /\ f.at = "dropped"
  <2>1. f.live
    BY <1>2, <1>3 DEF FrameOk, Shape
  <2>2. PICK g : g = [f EXCEPT !.at = "pull"]
    OBVIOUS
  <2>3. SetTop(t, g)
    BY <1>2, <1>3, <2>2 DEF Leave
  <2>4. /\ g \in FrameRec /\ g.at = "pull" /\ g.kind = "in" /\ g.hist = f.hist /\ g.live
    BY <1>3, <2>1, <2>2 DEF FrameRec
  <2>5. FrameOk(Under(stack[t], n), g)
    BY <1>2, <2>4 DEF FrameOk, Ordered, Due, Shape, Chained, Walking
  <2> QED
    BY <1>1, <1>2, <2>3, <2>4, <2>5, TopStep
<1>4. CASE ~(f.kind = "in" /\ f.at = "dropped")
  <2>1. Pop(t)
    BY <1>2, <1>4 DEF Leave
  <2> QED
    BY <1>1, <2>1, PopStep
<1> QED
  BY <1>3, <1>4

LEMMA ConnLeaveStep ==
  ASSUME HookInv, NEW t \in Threads, ConnLeave(t)
  PROVE  HookInv' /\ Pump
<1>1. stack[t] # <<>> /\ Pop(t) /\ UNCHANGED <<subs, gates, nextSub>>
  BY DEF ConnLeave, In, registry
<1> QED
  BY <1>1, PopStep

LEMMA ModFreeStep ==
  ASSUME HookInv, NEW m \in Mods, ModFree(m)
  PROVE  HookInv' /\ Pump
<1>1. stack[Main] # <<>> /\ Pop(Main) /\ UNCHANGED <<subs, gates, nextSub>>
  BY DEF ModFree, In
<1> QED
  BY <1>1, PacketAssumption, PopStep

LEMMA LatestIs ==
  ASSUME NEW n \in Nat, NEW I \in SUBSET (1..n), NEW i, IsLast(I, i)
  PROVE  Latest(I) = i
<1>1. i \in I /\ \A j \in I : j <= i
  BY DEF IsLast
<1>2. ASSUME NEW k \in I, \A j \in I : j <= k PROVE k = i
  BY <1>1, <1>2
<1> QED
  BY <1>1, <1>2 DEF Latest

\* A mask leaves a number that fits as it is.
LEMMA SmallRemainders ==
  /\ \A a \in 0..3 : a % 4 = a
  /\ \A a \in 0..1023 : a % 1024 = a
  OBVIOUS

\* What is written is bytes.
LEMMA EncodeIsBytes ==
  ASSUME NEW edit \in [id: Nat, sender: Nat, target: Nat]
  PROVE  EncodeHeader(edit) \in Seq(0..255)
<1>0. edit.id \in Nat /\ edit.sender \in Nat /\ edit.target \in Nat
  OBVIOUS
<1>i. PICK i \in 0..1023 : i = edit.id % 1024
  BY <1>0
<1>s. PICK s \in 0..3 : s = edit.sender % 4
  BY <1>0
<1>t. PICK t \in 0..3 : t = edit.target % 4
  BY <1>0
<1>1. i = edit.id % 1024 /\ s = edit.sender % 4 /\ t = edit.target % 4
  BY <1>i, <1>s, <1>t
<1>2. PICK raw \in Nat : raw = i + 1024 * s + 4096 * t /\ raw < 128 * 128
  OBVIOUS
<1>3. EncodeHeader(edit) = WriteUVarInt(raw)
  BY <1>1, <1>2 DEF EncodeHeader, Masked
<1>4. CASE raw < 128
  BY <1>3, <1>4 DEF WriteUVarInt
<1>5. CASE raw >= 128
  <2>1. PICK low \in 0..255, high \in 0..255 :
          low = (raw % 128) + 128 /\ high = raw \div 128
    <3>1. (raw % 128) + 128 \in 0..255 /\ raw \div 128 \in 0..255
      BY <1>2
    <3> QED
      BY <3>1
  <2>2. EncodeHeader(edit) = <<low, high>>
    BY <1>3, <1>5, <2>1 DEF WriteUVarInt
  <2> QED
    BY <2>2
<1> QED
  BY <1>4, <1>5


LEMMA FinishStep ==
  ASSUME HookInv, NEW t \in Threads, Finish(t)
  PROVE  HookInv' /\ Pump
<1>1. stack[t] # <<>> /\ UNCHANGED <<subs, gates, nextSub>>
  BY DEF Finish, In, registry
<1>2. PICK n \in Nat, f \in FrameRec :
        /\ n = Len(stack[t]) /\ n # 0
        /\ f = Top(t) /\ FrameOk(Under(stack[t], n), f)
  BY <1>1, TopFrame
<1>3. f.at = "loop" /\ f.todo = <<>>
  BY <1>2 DEF Finish, In
<1>4. PICK h \in Nat : h = Len(f.hist) /\ DOMAIN f.hist = 1..h
  BY LenProperties DEF FrameRec
<1>5. /\ f.owed = {}
      /\ \A i, j \in DOMAIN f.hist : i < j => f.hist[i].sub < f.hist[j].sub
      /\ f.kind = "conn" => f.hist = <<>>
      /\ f.kind # "unload"
      /\ f.kind \in {"in", "out"} =>
           ~Under(stack[t], n) /\ Decodes(f.in.head) /\ Made(f)
  BY <1>2, <1>3 DEF FrameOk, Due, Shape, Chained, Ordered, Walking
<1>6. PICK e \in Edit : e = f.edit
  BY DEF FrameRec
<1>7. PICK bytes : bytes = EncodeHeader(e)
  OBVIOUS
<1>8. bytes \in Seq(0..255) /\ Decodes(bytes) /\ Fields(bytes) = Masked(e)
  BY <1>7, EncodeIsBytes, HeaderRoundTrip DEF Edit
<1>9. PICK p : p = [f.out EXCEPT !.head = bytes, !.body = f.body]
  OBVIOUS
<1>10. p \in Packet /\ p.head = bytes /\ p.body = f.body
  BY <1>8, <1>9 DEF FrameRec, Packet
<1>11. PICK o \in Packet : o = IF f.changed THEN p ELSE f.out
  BY <1>10 DEF FrameRec
<1>12. PICK g : g = [f EXCEPT !.at = "origin", !.out = o]
  OBVIOUS
<1>13. SetTop(t, g)
  BY <1>2, <1>6, <1>7, <1>9, <1>11, <1>12 DEF Finish
<1>14. /\ g \in FrameRec /\ g.at = "origin" /\ g.kind = f.kind /\ g.hist = f.hist
       /\ g.in = f.in /\ g.out = o /\ g.owed = f.owed /\ g.live = f.live
  BY <1>11, <1>12 DEF FrameRec
<1>15. Ordered(g) /\ Shape(Under(stack[t], n), g)
  BY <1>5, <1>14 DEF Ordered, Shape, Walking
<1>16. Due(Under(stack[t], n), g)
  BY <1>2, <1>3, <1>5, <1>14 DEF Due, Walking, FrameOk
<1>17. Replaces(g) = Replaces(f) /\ Renames(g) = Renames(f)
  BY <1>14 DEF Replaces, Renames
<1>18. Replaces(f) \in SUBSET (1..h) /\ Renames(f) \in SUBSET (1..h)
  BY <1>4 DEF Replaces, Renames
<1>19. ASSUME f.kind \in {"in", "out"}, f.changed
       PROVE  Fields(p.head) = Expected(g) /\ f.body = f.hist[Latest(Replaces(f))].did.body
  <2>1. /\ Replaces(f) # {}
        /\ e.sender = Fields(f.in.head).sender /\ e.target = Fields(f.in.head).target
        /\ IF Renames(f) = {} THEN e.id = Fields(f.in.head).id
           ELSE \E i : IsLast(Renames(f), i) /\ e.id = f.hist[i].did.id
    BY <1>3, <1>5, <1>6, <1>19 DEF Made, Walking
  <2>2. PICK k : IsLast(Replaces(f), k) /\ f.body = f.hist[k].did.body
    BY <1>5, <1>19, <2>1 DEF Made
  <2>3. f.body = f.hist[Latest(Replaces(f))].did.body
    BY <1>18, <2>2, LatestIs
  <2>4. PICK x \in Field : x = Fields(f.in.head)
    <3>1. f.in.head \in Seq(0..255)
      BY DEF FrameRec, Packet
    <3> QED
      BY <1>5, <1>19, <3>1, FieldsFit
  <2>5. /\ x.id \in 0..1023 /\ x.sender \in 0..3 /\ x.target \in 0..3
        /\ e = [id |-> e.id, sender |-> e.sender, target |-> e.target]
        /\ x = [id |-> x.id, sender |-> x.sender, target |-> x.target]
    BY DEF Field, Edit
  <2>6. e.sender % 4 = x.sender /\ e.target % 4 = x.target
    <3>1. x.sender % 4 = x.sender /\ x.target % 4 = x.target
      BY <2>5, SmallRemainders
    <3> QED
      BY <2>1, <2>4, <3>1
  <2>7. Expected(g) = [x EXCEPT !.id = IF Renames(f) = {} THEN @
                                       ELSE f.hist[Latest(Renames(f))].did.id % 1024]
    BY <1>14, <1>17, <2>4 DEF Expected
  <2>8. CASE Renames(f) = {}
    <3>1. e.id % 1024 = x.id
      <4>1. x.id % 1024 = x.id
        BY <2>5, SmallRemainders
      <4> QED
        BY <2>1, <2>4, <2>8, <4>1
    <3>2. Expected(g) = x
      BY <2>5, <2>7, <2>8
    <3> QED
      BY <1>8, <1>10, <2>3, <2>5, <2>6, <3>1, <3>2 DEF Masked
  <2>9. CASE Renames(f) # {}
    <3>1. PICK i : IsLast(Renames(f), i) /\ e.id = f.hist[i].did.id
      BY <2>1, <2>9
    <3>2. Latest(Renames(f)) = i
      BY <1>18, <3>1, LatestIs
    <3>3. PICK id : id = e.id % 1024
      OBVIOUS
    <3>4. Expected(g) = [id |-> id, sender |-> x.sender, target |-> x.target]
      BY <2>5, <2>7, <2>9, <3>1, <3>2, <3>3 DEF Field
    <3>5. Masked(e) = [id |-> id, sender |-> x.sender, target |-> x.target]
      BY <2>6, <3>3 DEF Masked
    <3> QED
      BY <1>8, <1>10, <2>3, <3>4, <3>5
  <2> QED
    BY <2>8, <2>9
<1>20. ASSUME f.kind \in {"in", "out"} PROVE Forwarded(Under(stack[t], n), g)
  <2>1. \A i \in DOMAIN g.hist : g.hist[i].did.verdict # "drop"
    BY <1>5, <1>14, <1>20 DEF Made
  <2>2. CASE f.changed
    <3>1. g.out = p /\ Replaces(g) # {}
      BY <1>5, <1>11, <1>14, <1>17, <1>20, <2>2 DEF Made
    <3>2. Decodes(g.out.head) /\ Fields(g.out.head) = Expected(g) /\ g.out.body = f.body
      BY <1>8, <1>10, <1>19, <1>20, <2>2, <3>1
    <3>3. f.body = g.hist[Latest(Replaces(g))].did.body
      BY <1>14, <1>17, <1>19, <1>20, <2>2
    <3> QED
      BY <1>5, <1>20, <2>1, <3>1, <3>2, <3>3 DEF Forwarded
  <2>3. CASE ~f.changed
    <3>1. g.out = g.in /\ Replaces(g) = {}
      BY <1>5, <1>11, <1>14, <1>17, <1>20, <2>3 DEF Made
    <3> QED
      BY <2>1, <3>1 DEF Forwarded
  <2> QED
    BY <2>2, <2>3
<1>21. FrameOk(Under(stack[t], n), g)
  BY <1>14, <1>15, <1>16, <1>20 DEF FrameOk, Chained, Walking
<1> QED
  BY <1>1, <1>2, <1>13, <1>14, <1>21, TopStep


\* A callback's answer: the list of answers grows by one, and a REPLACE is the
\* last of its kind.
LEMMA AnswerStep ==
  ASSUME HookInv, NEW t \in Threads, NEW a \in Answers, Answer(t, a)
  PROVE  HookInv' /\ Pump
<1>1. stack[t] # <<>> /\ UNCHANGED <<subs, gates, nextSub>>
  BY DEF Answer, In, registry
<1>2. PICK n \in Nat, f \in FrameRec :
        /\ n = Len(stack[t]) /\ n # 0
        /\ f = Top(t) /\ FrameOk(Under(stack[t], n), f)
  BY <1>1, TopFrame
<1>3. f.at = "inside" /\ f.kind \in {"in", "out"}
  BY <1>2 DEF Answer, In
<1>4. /\ \A i, j \in DOMAIN f.hist : i < j => f.hist[i].sub < f.hist[j].sub
      /\ Ascending(f.todo)
      /\ \A i \in DOMAIN f.hist, j \in DOMAIN f.todo : f.hist[i].sub < f.todo[j].id
      /\ \A i \in DOMAIN f.hist : f.hist[i].sub < f.sub.id
      /\ \A j \in DOMAIN f.todo : f.sub.id < f.todo[j].id
      /\ \A x \in f.owed : \E j \in DOMAIN f.todo : f.todo[j].id = x
      /\ ~Under(stack[t], n) /\ Decodes(f.in.head) /\ (f.kind = "in" => f.live)
      /\ Made(f)
  BY <1>2, <1>3 DEF FrameOk, Ordered, Due, Shape, Chained, Walking
<1>5. PICK v \in Verdict : v = a
  BY PacketAssumption
<1>6. PICK s \in Said : s = [sub |-> f.sub.id, did |-> v]
  BY DEF Said, FrameRec, SubRec
<1>7. PICK h \in Nat : h = Len(f.hist) /\ DOMAIN f.hist = 1..h
  BY LenProperties DEF FrameRec
<1>8. PICK hist \in Seq(Said) : hist = Append(f.hist, s)
  BY Appended DEF FrameRec
<1>9. /\ DOMAIN hist = 1..(h + 1) /\ hist[h + 1] = s
      /\ \A i \in 1..h : hist[i] = f.hist[i]
  BY <1>7, <1>8, Appended DEF FrameRec
<1>10. s.sub = f.sub.id /\ s.did = v /\ f.sub.id \in Nat
  BY <1>6 DEF FrameRec, SubRec
<1>11. PICK e0 \in SubRec : e0 = NoSub
  BY DEF NoSub, SubRec
<1>12. PICK at \in {"dropped", "loop"} : at = IF v.verdict = "drop" THEN "dropped" ELSE "loop"
  OBVIOUS
<1>13. PICK x : x = [f EXCEPT !.hist = hist, !.sub = e0, !.at = at]
  OBVIOUS
<1>14. /\ x \in FrameRec /\ x.at = at /\ x.kind = f.kind /\ x.hist = hist
       /\ x.in = f.in /\ x.out = f.out /\ x.owed = f.owed /\ x.live = f.live
       /\ x.todo = f.todo /\ x.edit = f.edit /\ x.body = f.body /\ x.changed = f.changed
  BY <1>12, <1>13 DEF FrameRec, Walking
<1>15. Answered(f, a) = x
  BY <1>5, <1>6, <1>8, <1>11, <1>12, <1>13 DEF Answered
<1>16. PICK y : y = [x EXCEPT !.edit.id = IF v.id = None THEN @ ELSE v.id,
                             !.body = v.body, !.changed = TRUE]
  OBVIOUS
<1>17. PICK g : g = IF v.verdict = "replace" THEN y ELSE x
  OBVIOUS
<1>18. SetTop(t, g)
  BY <1>2, <1>5, <1>15, <1>16, <1>17 DEF Answer
<1>19. PICK id \in Nat : id = IF v.id = None THEN f.edit.id ELSE v.id
  BY DEF FrameRec, Edit, Verdict
<1>20. PICK e \in Edit : e = [f.edit EXCEPT !.id = id]
  BY DEF FrameRec, Edit
<1>21. e.id = id /\ e.sender = f.edit.sender /\ e.target = f.edit.target
  BY <1>20 DEF FrameRec, Edit
<1>22. /\ y \in FrameRec /\ y.at = at /\ y.kind = f.kind /\ y.hist = hist
       /\ y.in = f.in /\ y.out = f.out /\ y.owed = f.owed /\ y.live = f.live
       /\ y.todo = f.todo /\ y.edit = e /\ y.body = v.body /\ y.changed
  <2>1. y = [x EXCEPT !.edit = e, !.body = v.body, !.changed = TRUE]
    BY <1>14, <1>16, <1>19, <1>20
  <2>2. v.body \in Bodies
    BY DEF Verdict
  <2> QED
    BY <1>14, <2>1, <2>2 DEF FrameRec
<1>23. /\ g \in FrameRec /\ g.at = at /\ g.kind = f.kind /\ g.hist = hist
       /\ g.in = f.in /\ g.out = f.out /\ g.owed = f.owed /\ g.live = f.live
       /\ g.todo = f.todo
  BY <1>14, <1>17, <1>22
<1>24. Ordered(g)
  <2>1. ASSUME NEW i \in DOMAIN hist, NEW j \in DOMAIN hist, i < j
        PROVE  hist[i].sub < hist[j].sub
    <3>1. i \in 1..h /\ hist[i] = f.hist[i] /\ i \in DOMAIN f.hist
      BY <1>7, <1>9, <2>1
    <3>2. CASE j \in 1..h
      <4>1. hist[j] = f.hist[j] /\ j \in DOMAIN f.hist
        BY <1>7, <1>9, <3>2
      <4> QED
        BY <1>4, <2>1, <3>1, <4>1
    <3>3. CASE j = h + 1
      BY <1>4, <1>9, <1>10, <3>1, <3>3
    <3> QED
      BY <1>9, <2>1, <3>2, <3>3
  <2>2. ASSUME NEW i \in DOMAIN hist, NEW j \in DOMAIN f.todo
        PROVE  hist[i].sub < f.todo[j].id
    <3>1. CASE i = h + 1
      BY <1>4, <1>9, <1>10, <2>2, <3>1
    <3>2. CASE i \in 1..h
      <4>1. hist[i] = f.hist[i] /\ i \in DOMAIN f.hist
        BY <1>7, <1>9, <3>2
      <4> QED
        BY <1>4, <2>2, <4>1
    <3> QED
      BY <1>9, <2>2, <3>1, <3>2
  <2> QED
    BY <1>4, <1>12, <1>23, <2>1, <2>2 DEF Ordered
<1>25. Due(Under(stack[t], n), g) /\ Shape(Under(stack[t], n), g)
  BY <1>3, <1>4, <1>12, <1>23 DEF Due, Shape, Walking
<1>26. CASE v.verdict = "drop"
  BY <1>1, <1>2, <1>12, <1>18, <1>23, <1>24, <1>25, <1>26, TopStep
     DEF FrameOk, Chained, Walking
<1>27. CASE v.verdict # "drop"
  <2>1. g.at = "loop" /\ \A i \in DOMAIN g.hist : g.hist[i].did.verdict # "drop"
    BY <1>4, <1>7, <1>9, <1>10, <1>12, <1>23, <1>27 DEF Made
  <2>2. g.out = g.in
    BY <1>4, <1>23 DEF Made
  <2>3. CASE v.verdict = "replace"
    <3>1. g = y
      BY <1>17, <2>3
    <3>2. Replaces(g) = Replaces(f) \cup {h + 1}
      BY <1>7, <1>9, <1>10, <1>23, <2>3 DEF Replaces
    <3>3. IsLast(Replaces(g), h + 1) /\ g.body = g.hist[h + 1].did.body
      BY <1>7, <1>9, <1>10, <1>22, <3>1, <3>2 DEF IsLast, Replaces
    <3>4. Renames(g) = IF v.id = None THEN Renames(f) ELSE Renames(f) \cup {h + 1}
      BY <1>7, <1>9, <1>10, <1>23, <3>2 DEF Renames, Replaces
    <3>5. IF Renames(g) = {} THEN g.edit.id = Fields(g.in.head).id
          ELSE \E i : IsLast(Renames(g), i) /\ g.edit.id = g.hist[i].did.id
      <4>1. CASE v.id = None
        <5>1. Renames(g) = Renames(f) /\ g.edit.id = f.edit.id
          BY <1>19, <1>21, <1>22, <3>1, <3>4, <4>1
        <5>2. \A i \in Renames(f) : g.hist[i] = f.hist[i]
          BY <1>7, <1>9, <1>23 DEF Renames, Replaces
        <5> QED
          BY <1>3, <1>4, <1>23, <5>1, <5>2 DEF Made, Walking, IsLast
      <4>2. CASE v.id # None
        <5>1. IsLast(Renames(g), h + 1)
          BY <1>7, <3>4, <4>2 DEF IsLast, Renames, Replaces
        <5>2. g.edit.id = g.hist[h + 1].did.id
          BY <1>9, <1>10, <1>19, <1>21, <1>22, <3>1, <4>2
        <5>3. Renames(g) # {}
          BY <3>4, <4>2
        <5> QED
          BY <5>1, <5>2, <5>3
      <4> QED
        BY <4>1, <4>2
    <3>6. /\ g.edit.sender = Fields(g.in.head).sender /\ g.edit.target = Fields(g.in.head).target
      BY <1>3, <1>4, <1>21, <1>22, <3>1 DEF Made, Walking
    <3>7. g.changed /\ Replaces(g) # {}
      BY <1>22, <3>1, <3>2
    <3>8. Made(g)
      BY <2>1, <2>2, <3>3, <3>5, <3>6, <3>7 DEF Made
    <3> QED
      BY <1>1, <1>2, <1>18, <1>23, <1>24, <1>25, <2>1, <3>8, TopStep DEF FrameOk, Chained, Walking
  <2>4. CASE v.verdict # "replace"
    <3>1. g = x
      BY <1>17, <2>4
    <3>2. Replaces(g) = Replaces(f)
      BY <1>7, <1>9, <1>10, <1>23, <2>4 DEF Replaces
    <3>3. \A i \in Replaces(f) : g.hist[i] = f.hist[i]
      BY <1>7, <1>9, <1>23 DEF Replaces
    <3>4. Renames(g) = Renames(f) /\ \A i \in Renames(f) : i \in Replaces(f)
      BY <3>2, <3>3 DEF Renames
    <3>5. Made(g)
      BY <1>3, <1>4, <1>14, <2>1, <2>2, <3>1, <3>2, <3>3, <3>4 DEF Made, Walking, IsLast
    <3> QED
      BY <1>1, <1>2, <1>18, <1>23, <1>24, <1>25, <2>1, <3>5, TopStep DEF FrameOk, Chained, Walking
  <2> QED
    BY <2>3, <2>4
<1> QED
  BY <1>26, <1>27


-----------------------------------------------------------------------------
(* Always.                                                                 *)

LEMMA ArriveStep ==
  ASSUME HookInv, stack' = stack, UNCHANGED registry
  PROVE  HookInv' /\ Pump
<1>1. SubsOk'
  BY DEF HookInv, SubsOk, LiveOf, Ascending, registry
<1>2. UNCHANGED <<subs, gates, nextSub>>
  BY DEF registry
<1>3. Loses({})
  BY <1>2, NothingLost
<1> QED
  BY <1>1, <1>3, Rests

LEMMA HookStep == HookInv /\ [Next]_vars => HookInv' /\ Pump
<1> SUFFICES ASSUME HookInv, [Next]_vars PROVE HookInv' /\ Pump
  OBVIOUS
<1>1. CASE UNCHANGED vars
  BY <1>1, ArriveStep DEF vars, registry
<1>2. ASSUME NEW t \in Threads, NEW m \in Mods, NEW kinds \in Masks, Register(t, m, kinds)
      PROVE  HookInv' /\ Pump
  BY <1>2, RegisterStep
<1>3. ASSUME NEW t \in Threads, NEW m \in Mods, NEW s \in ToSet(subs), Unregister(t, m, s)
      PROVE  HookInv' /\ Pump
  BY <1>3, UnregisterStep
<1>4. ASSUME NEW m \in Mods, ModGone(m) \/ ModFree(m) PROVE HookInv' /\ Pump
  BY <1>4, ModGoneStep, ModFreeStep
<1>5. ASSUME NEW t \in Threads, NEW c \in Conns, NEW p \in Packets, Send(t, c, p)
      PROVE  HookInv' /\ Pump
  BY <1>5, SendStep
<1>6. ASSUME NEW c \in Conns, Arrive(c) PROVE HookInv' /\ Pump
  BY <1>6, ArriveStep DEF Arrive
<1>7. ASSUME NEW t \in Threads, NEW c \in Conns,
             \/ Receive(t, c)
             \/ ConnEvent(t, c, "closed", "opening") \/ ConnEvent(t, c, "open", "closing")
      PROVE  HookInv' /\ Pump
  BY <1>7, ReceiveStep, ConnEventStep
<1>8. ASSUME NEW t \in Threads, NEW p \in Packets, Pull(t, p) PROVE HookInv' /\ Pump
  BY <1>8, PullStep
<1>9. ASSUME NEW t \in Threads, \/ Snapshot(t) \/ Resolve(t) \/ Call(t) \/ ConnReturn(t)
                                \/ Finish(t) \/ Leave(t) \/ ConnLeave(t)
      PROVE  HookInv' /\ Pump
  BY <1>9, SnapshotStep, ResolveStep, CallStep, ConnReturnStep, FinishStep, LeaveStep, ConnLeaveStep
<1>10. ASSUME NEW t \in Threads, NEW a \in Answers, Answer(t, a) PROVE HookInv' /\ Pump
  BY <1>10, AnswerStep
<1> QED
  BY <1>1, <1>2, <1>3, <1>4, <1>5, <1>6, <1>7, <1>8, <1>9, <1>10 DEF Next

LEMMA HooksBegin == Init => HookInv
<1> SUFFICES ASSUME Init PROVE HookInv
  OBVIOUS
<1>1. subs = <<>> /\ gates = {} /\ nextSub = 1 /\ DOMAIN subs = {}
  BY DEF Init
<1>2. SubsOk
  BY <1>1 DEF SubsOk, Ascending, LiveOf
<1>3. ASSUME NEW t \in Threads PROVE StackOk(stack[t])
  <2>1. stack[t] = <<>> /\ DOMAIN stack[t] = {}
    BY DEF Init
  <2>2. stack[t] \in Seq(FrameRec)
    BY <2>1
  <2> QED
    BY <2>1, <2>2 DEF StackOk
<1> QED
  BY <1>2, <1>3 DEF HookInv, Init

LEMMA HooksAlways == Spec => []HookInv
BY HooksBegin, HookStep, PTL DEF Spec

\* No packet slips by: a packet that goes on was shown, in order, to every
\* interceptor that was registered when it came and still is, whoever registers,
\* unregisters, unloads a mod or sends from a callback meanwhile
\* (PacketHooks.cpp 296-420).
THEOREM EveryHookSeesTheorem == Spec => []EveryHookSees
<1>1. HookInv => EveryHookSees
  <2> SUFFICES ASSUME HookInv, NEW t \in Threads, NEW d \in DOMAIN stack[t], NEW f, f = stack[t][d]
               PROVE  /\ \A i, j \in DOMAIN f.hist : i < j => f.hist[i].sub < f.hist[j].sub
                      /\ /\ f.at = "origin"
                         /\ f.kind # "conn" => Decodes(f.in.head) /\ Interceptable(f)
                         /\ \A e \in 1..(d - 1) : stack[t][e].kind \notin {"in", "out"}
                         => f.owed = {}
    BY DEF EveryHookSees
  <2>1. FrameOk(Under(stack[t], d), f)
    BY DEF HookInv, StackOk
  <2>2. Ordered(f) /\ Due(Under(stack[t], d), f)
    BY <2>1 DEF FrameOk
  <2>3. (\A e \in 1..(d - 1) : stack[t][e].kind \notin {"in", "out"}) => ~Under(stack[t], d)
    BY DEF Under
  <2> QED
    BY <2>2, <2>3 DEF Ordered, Due, Readable
<1> QED
  BY <1>1, HooksAlways, PTL

\* What goes on is what the chain of interceptors made of the packet: nothing
\* of a drop, the packet itself if nobody replaced it, and else a header that
\* decodes to the edited one and the last body (PacketHooks.cpp 255-275, 340-420).
THEOREM ForwardsChainTheorem == Spec => []ForwardsChain
<1>1. HookInv => ForwardsChain
  <2> SUFFICES ASSUME HookInv, NEW t \in Threads, NEW d \in DOMAIN stack[t], NEW f, f = stack[t][d],
                      f.kind \in {"in", "out"}, f.at = "origin"
               PROVE  /\ \A i \in DOMAIN f.hist : f.hist[i].did.verdict # "drop"
                      /\ IF Replaces(f) = {} \/ \E e \in 1..(d - 1) : stack[t][e].kind \in {"in", "out"}
                           THEN f.out = f.in
                           ELSE /\ Decodes(f.out.head) /\ Fields(f.out.head) = Expected(f)
                                /\ f.out.body = f.hist[Latest(Replaces(f))].did.body
    BY DEF ForwardsChain
  <2>1. FrameOk(Under(stack[t], d), f)
    BY DEF HookInv, StackOk
  <2>2. Forwarded(Under(stack[t], d), f)
    BY <2>1 DEF FrameOk, Chained
  <2>3. Under(stack[t], d) <=> \E e \in 1..(d - 1) : stack[t][e].kind \in {"in", "out"}
    BY DEF Under
  <2> QED
    BY <2>2, <2>3 DEF Forwarded
<1> QED
  BY <1>1, HooksAlways, PTL

\* A dropped packet does not strand the ones behind it: the pump reports
\* NoData only when the connection has none (PacketHooks.cpp 514-541).
THEOREM PumpDrainsTheorem == Spec => PumpDrains
<1>1. HookInv /\ [Next]_vars =>
        [\A t \in Threads : In(t, "nodata")' /\ ~In(t, "nodata") => inbox[Top(t).conn] = 0]_vars
  BY HookStep DEF Pump
<1> QED
  BY <1>1, HooksAlways, PTL DEF Spec, PumpDrains


-----------------------------------------------------------------------------
(* The hook events.                                                        *)

Listener == [id : Nat, mod : Mods \cup {None}]
Reply == [sub : Listener, cancel : BOOLEAN]
Dispatched ==
  [event : Events, at : {"loop", "inside"}, todo : Seq(Listener), sub : Listener,
   cancelled : BOOLEAN, asked : Seq(Listener), replies : Seq(Reply)]

\* Where the dispatch stands in what it has to ask: the replies it has, the
\* listener it is inside, the ones it has left.
Progress(f) ==
  LET r == Len(f.replies)
      c == IF f.at = "inside" THEN 1 ELSE 0
  IN /\ Len(f.asked) = r + c + Len(f.todo)
     /\ \A i \in 1..r : f.replies[i].sub = f.asked[i]
     /\ f.at = "inside" => f.sub = f.asked[r + 1]
     /\ \A i \in 1..Len(f.todo) : f.todo[i] = f.asked[r + c + i]
     /\ f.cancelled <=> \E i \in 1..r : f.replies[i].cancel

EventInv ==
  /\ listeners \in [Events -> Seq(Listener)]
  /\ nextId \in Nat
  /\ dispatches \in Seq(Dispatched)
  /\ \A d \in 1..Len(dispatches) : Progress(dispatches[d])

\* One dispatch takes a step; those below it are as they were.
LEMMA DispatchMoves ==
  ASSUME dispatches \in Seq(Dispatched), \A d \in 1..Len(dispatches) : Progress(dispatches[d]),
         dispatches # <<>>, NEW g \in Dispatched, Progress(g), Event!SetTop(g)
  PROVE  dispatches' \in Seq(Dispatched) /\ \A d \in 1..Len(dispatches') : Progress(dispatches'[d])
<1>1. PICK s \in Seq(Dispatched) : s = dispatches
  OBVIOUS
<1>2. PICK n \in Nat : n = Len(s) /\ DOMAIN s = 1..n /\ n # 0
  BY <1>1, LenProperties, EmptySeq
<1>3. n \in 1..n /\ dispatches' = [s EXCEPT ![n] = g]
  BY <1>1, <1>2 DEF Event!SetTop
<1>4. PICK r : r = [s EXCEPT ![n] = g]
  OBVIOUS
<1>5. /\ r \in Seq(Dispatched) /\ Len(r) = n /\ r[n] = g
      /\ \A d \in 1..n : d # n => r[d] = s[d]
  BY <1>2, <1>3, <1>4, ExceptSeq, LenProperties
<1>6. \A d \in 1..n : Progress(r[d])
  BY <1>1, <1>2, <1>5
<1> QED
  BY <1>3, <1>4, <1>5, <1>6

LEMMA TopDispatch ==
  ASSUME EventInv, dispatches # <<>>
  PROVE  \E f \in Dispatched : f = Event!Top /\ Progress(f)
<1>1. PICK s \in Seq(Dispatched) : s = dispatches
  BY DEF EventInv
<1>2. PICK n \in Nat : n = Len(s) /\ DOMAIN s = 1..n /\ n # 0
  BY <1>1, LenProperties, EmptySeq
<1>3. n \in 1..n /\ s[n] \in Dispatched /\ Progress(s[n])
  BY <1>1, <1>2, ElementOfSeq DEF EventInv
<1>4. Event!Top = s[n]
  BY <1>1, <1>2 DEF Event!Top, Event!Last
<1> QED
  BY <1>3, <1>4

\* Unsubscribing and dropping a mod leave lists of listeners.
LEMMA ListenersKept ==
  ASSUME EventInv, NEW gone
  PROVE  Event!Without(gone) \in [Events -> Seq(Listener)]
<1>1. ASSUME NEW s, NEW K PROVE Event!Kept(s, K) = Kept(s, K)
  BY Zenon DEF Event!Kept, Kept, Event!Rank, Rank, Event!Cardinality, Cardinality
<1>2. ASSUME NEW e \in Events
      PROVE  Event!Kept(listeners[e], {i \in DOMAIN listeners[e] : listeners[e][i] \notin gone})
               \in Seq(Listener)
  <2>1. PICK s \in Seq(Listener) : s = listeners[e]
    BY <1>2 DEF EventInv
  <2>2. PICK K \in SUBSET (DOMAIN s) : K = {i \in DOMAIN s : s[i] \notin gone}
    OBVIOUS
  <2>3. Kept(s, K) \in Seq(Listener)
    BY KeptElements
  <2> QED
    BY <1>1, <2>1, <2>2, <2>3
<1> QED
  BY <1>2 DEF Event!Without


LEMMA DispatchStep ==
  ASSUME EventInv, NEW e \in Events, Event!Dispatch(e)
  PROVE  EventInv'
<1>1. PICK s \in Seq(Dispatched) : s = dispatches
  BY DEF EventInv
<1>2. PICK w \in Seq(Listener) : w = listeners[e]
  BY DEF EventInv
<1>3. PICK n \in Listener : n = Event!NoSub
  BY DEF Event!NoSub, Listener
<1>4. PICK g : g = [event |-> e, at |-> "loop", todo |-> w, sub |-> n,
                    cancelled |-> FALSE, asked |-> w, replies |-> <<>>]
  OBVIOUS
<1>5. g \in Dispatched /\ Len(w) \in Nat
  BY <1>4, LenProperties DEF Dispatched
<1>6. Progress(g)
  BY <1>4, <1>5 DEF Progress
<1>7. dispatches' = Append(s, g) /\ UNCHANGED <<present, listeners, installed, nextId>>
  BY <1>1, <1>2, <1>3, <1>4 DEF Event!Dispatch
<1>8. PICK r : r = Append(s, g)
  OBVIOUS
<1>9. /\ r \in Seq(Dispatched) /\ Len(r) = Len(s) + 1 /\ Len(s) \in Nat /\ r[Len(s) + 1] = g
      /\ \A d \in 1..Len(s) : r[d] = s[d]
  BY <1>5, <1>8, Appended
<1>10. ASSUME NEW d \in 1..Len(r) PROVE Progress(r[d])
  <2>1. CASE d = Len(s) + 1
    BY <1>6, <1>9, <2>1
  <2>2. CASE d \in 1..Len(s)
    BY <1>1, <1>9, <2>2 DEF EventInv
  <2> QED
    BY <1>9, <1>10, <2>1, <2>2
<1> QED
  BY <1>7, <1>8, <1>9, <1>10 DEF EventInv

LEMMA AskStep ==
  ASSUME EventInv, Event!Call
  PROVE  EventInv'
<1>1. dispatches # <<>> /\ UNCHANGED <<present, listeners, installed, nextId>>
  BY DEF Event!Call, Event!In
<1>2. PICK f \in Dispatched : f = Event!Top /\ Progress(f)
  BY <1>1, TopDispatch
<1>3. f.at = "loop" /\ f.todo # <<>>
  BY <1>2 DEF Event!Call, Event!In
<1>4. PICK w \in Seq(Listener) : w = f.todo
  BY DEF Dispatched
<1>5. PICK s : s = Tail(w)
  OBVIOUS
<1>6. PICK e : e = Head(w)
  OBVIOUS
<1>7. /\ e \in Listener /\ s \in Seq(Listener) /\ Len(w) \in Nat /\ Len(w) # 0
      /\ Len(s) = Len(w) - 1 /\ e = w[1] /\ \A i \in 1..Len(s) : s[i] = w[i + 1]
  BY <1>3, <1>4, <1>5, <1>6, HeadTailProperties, LenProperties, EmptySeq
<1>8. PICK g : g = [f EXCEPT !.at = "inside", !.sub = e, !.todo = s]
  OBVIOUS
<1>9. Event!SetTop(g)
  BY <1>2, <1>4, <1>5, <1>6, <1>8 DEF Event!Call
<1>10. /\ g \in Dispatched /\ g.at = "inside" /\ g.sub = e /\ g.todo = s
       /\ g.asked = f.asked /\ g.replies = f.replies /\ g.cancelled = f.cancelled
  BY <1>7, <1>8 DEF Dispatched
<1>11. PICK r \in Nat : r = Len(f.replies)
  BY LenProperties DEF Dispatched
<1>12. /\ Len(f.asked) = r + Len(w)
       /\ \A i \in 1..r : f.replies[i].sub = f.asked[i]
       /\ \A i \in 1..Len(w) : w[i] = f.asked[r + i]
       /\ f.cancelled <=> \E i \in 1..r : f.replies[i].cancel
  BY <1>2, <1>3, <1>4, <1>11 DEF Progress
<1>13. Len(g.asked) = r + 1 + Len(g.todo) /\ g.sub = g.asked[r + 1]
  BY <1>7, <1>10, <1>12, SMTT(20)
<1>14. \A i \in 1..Len(s) : s[i] = g.asked[r + 1 + i]
  BY <1>7, <1>10, <1>12
<1>15. Progress(g)
  BY <1>10, <1>11, <1>12, <1>13, <1>14 DEF Progress
<1> QED
  BY <1>1, <1>9, <1>10, <1>15, DispatchMoves DEF EventInv

LEMMA ReplyStep ==
  ASSUME EventInv, NEW cancel \in BOOLEAN, Event!Reply(cancel)
  PROVE  EventInv'
<1>1. dispatches # <<>> /\ UNCHANGED <<present, listeners, installed, nextId>>
  BY DEF Event!Reply, Event!In
<1>2. PICK f \in Dispatched : f = Event!Top /\ Progress(f)
  BY <1>1, TopDispatch
<1>3. f.at = "inside"
  BY <1>2 DEF Event!Reply, Event!In
<1>4. PICK e \in Listener : e = Event!NoSub
  BY DEF Event!NoSub, Listener
<1>5. PICK b \in BOOLEAN : b = (f.cancelled \/ cancel)
  OBVIOUS
<1>6. PICK x \in Reply : x = [sub |-> f.sub, cancel |-> cancel]
  BY DEF Reply, Dispatched
<1>7. PICK w \in Seq(Reply) : w = f.replies
  BY DEF Dispatched
<1>8. PICK v : v = Append(w, x)
  OBVIOUS
<1>9. PICK r \in Nat : r = Len(w)
  BY LenProperties
<1>10. /\ v \in Seq(Reply) /\ Len(v) = r + 1 /\ v[r + 1] = x
       /\ \A i \in 1..r : v[i] = w[i]
  BY <1>8, <1>9, Appended
<1>11. PICK g : g = [f EXCEPT !.at = "loop", !.sub = e, !.cancelled = b, !.replies = v]
  OBVIOUS
<1>12. Event!SetTop(g)
  BY <1>2, <1>4, <1>5, <1>6, <1>7, <1>8, <1>11 DEF Event!Reply
<1>13. /\ g \in Dispatched /\ g.at = "loop" /\ g.todo = f.todo /\ (g.cancelled <=> b)
       /\ g.asked = f.asked /\ g.replies = v
  BY <1>10, <1>11 DEF Dispatched
<1>14. /\ Len(f.asked) = r + 1 + Len(f.todo)
       /\ \A i \in 1..r : w[i].sub = f.asked[i]
       /\ f.sub = f.asked[r + 1]
       /\ \A i \in 1..Len(f.todo) : f.todo[i] = f.asked[r + 1 + i]
       /\ f.cancelled <=> \E i \in 1..r : w[i].cancel
  BY <1>2, <1>3, <1>7, <1>9 DEF Progress
<1>15. x.sub = f.sub /\ (x.cancel <=> cancel)
  BY <1>6
<1>16. \A i \in 1..(r + 1) : i \in 1..r \/ i = r + 1
  OBVIOUS
<1>17. \A i \in 1..(r + 1) : v[i].sub = f.asked[i]
  BY <1>10, <1>14, <1>15, <1>16
<1>18. b <=> \E i \in 1..(r + 1) : v[i].cancel
  <2>1. ASSUME b PROVE \E i \in 1..(r + 1) : v[i].cancel
    <3>1. CASE cancel
      <4>1. r + 1 \in 1..(r + 1) /\ v[r + 1].cancel
        BY <1>10, <1>15, <3>1
      <4> QED
        BY <4>1
    <3>2. CASE f.cancelled
      <4>1. PICK i \in 1..r : w[i].cancel
        BY <1>14, <3>2
      <4>2. i \in 1..(r + 1) /\ v[i].cancel
        BY <1>10, <4>1
      <4> QED
        BY <4>2
    <3> QED
      BY <1>5, <2>1, <3>1, <3>2
  <2>2. ASSUME NEW i \in 1..(r + 1), v[i].cancel PROVE b
    <3>1. CASE i = r + 1
      BY <1>5, <1>10, <1>15, <2>2, <3>1
    <3>2. CASE i \in 1..r
      BY <1>5, <1>10, <1>14, <2>2, <3>2
    <3> QED
      BY <1>16, <2>2, <3>1, <3>2
  <2> QED
    BY <2>1, <2>2
<1>19. Progress(g)
  <2>1. Len(g.replies) = r + 1 /\ g.at # "inside" /\ r + 1 + 0 = r + 1
    BY <1>10, <1>13
  <2>2. /\ Len(g.asked) = r + 1 + Len(g.todo)
        /\ \A i \in 1..(r + 1) : g.replies[i].sub = g.asked[i]
        /\ g.cancelled <=> \E i \in 1..(r + 1) : g.replies[i].cancel
    BY <1>13, <1>14, <1>17, <1>18
  <2>3. \A i \in 1..Len(g.todo) : g.todo[i] = g.asked[r + 1 + i]
    BY <1>13, <1>14
  <2> QED
    BY <2>1, <2>2, <2>3 DEF Progress
<1> QED
  BY <1>1, <1>12, <1>13, <1>19, DispatchMoves DEF EventInv

LEMMA AskedStep ==
  ASSUME EventInv, Event!Finish
  PROVE  EventInv'
<1>1. PICK s \in Seq(Dispatched) : s = dispatches
  BY DEF EventInv
<1>2. s # <<>> /\ dispatches' = Event!Front(s) /\ UNCHANGED <<present, listeners, installed, nextId>>
  BY <1>1 DEF Event!Finish, Event!In
<1>3. PICK n \in Nat : n = Len(s) /\ DOMAIN s = 1..n /\ n # 0
  BY <1>2, LenProperties, EmptySeq
<1>4. PICK r : r = SubSeq(s, 1, n - 1)
  OBVIOUS
<1>5. dispatches' = r
  BY <1>2, <1>3, <1>4 DEF Event!Front
<1>6. r \in Seq(Dispatched) /\ Len(r) = n - 1 /\ \A d \in 1..(n - 1) : r[d] = s[d]
  BY <1>3, <1>4, SubSeqProperties, LenProperties
<1>7. \A d \in 1..Len(r) : Progress(r[d])
  BY <1>1, <1>3, <1>6 DEF EventInv
<1> QED
  BY <1>2, <1>5, <1>6, <1>7 DEF EventInv

LEMMA EventStep == EventInv /\ [Event!Next]_hookVars => EventInv'
<1> SUFFICES ASSUME EventInv, [Event!Next]_hookVars PROVE EventInv'
  OBVIOUS
<1>1. ASSUME UNCHANGED dispatches, listeners' \in [Events -> Seq(Listener)], nextId' \in Nat
      PROVE  EventInv'
  BY <1>1 DEF EventInv
<1>2. CASE UNCHANGED hookVars
  BY <1>1, <1>2 DEF hookVars, EventInv
<1>3. ASSUME NEW m \in Mods, NEW e \in Events, Event!Subscribe(m, e) PROVE EventInv'
  <2>1. PICK x \in Listener : x = [id |-> nextId, mod |-> m]
    BY DEF EventInv, Listener
  <2>2. PICK w \in Seq(Listener) : w = Append(listeners[e], x)
    BY Appended DEF EventInv
  <2>3. listeners' = [listeners EXCEPT ![e] = w]
    BY <1>3, <2>1, <2>2 DEF Event!Subscribe
  <2> QED
    BY <1>1, <1>3, <2>3 DEF Event!Subscribe, EventInv
<1>4. ASSUME NEW m \in Mods, NEW id, Event!Unsubscribe(m, id) PROVE EventInv'
  BY <1>1, <1>4, ListenersKept DEF Event!Unsubscribe, EventInv
<1>5. ASSUME NEW m \in Mods, Event!DropMod(m) PROVE EventInv'
  BY <1>1, <1>5, ListenersKept DEF Event!DropMod, EventInv
<1>6. ASSUME NEW m \in Mods, Event!Load(m) PROVE EventInv'
  BY <1>1, <1>6 DEF Event!Load, EventInv
<1> QED
  BY <1>2, <1>3, <1>4, <1>5, <1>6, DispatchStep, AskStep, ReplyStep, AskedStep DEF Event!Next

LEMMA EventsBegin == Event!Init => EventInv
<1> SUFFICES ASSUME Event!Init PROVE EventInv
  OBVIOUS
<1>1. listeners = [e \in Events |-> <<>>] /\ nextId = 1 /\ dispatches = <<>>
  BY DEF Event!Init
<1>2. <<>> \in Seq(Listener) /\ <<>> \in Seq(Dispatched)
  OBVIOUS
<1> QED
  BY <1>1, <1>2 DEF EventInv

\* A dispatch that ends has asked exactly the listeners it began with, in order,
\* whatever they subscribe, unsubscribe, unload or cause meanwhile, and it is
\* cancelled exactly if one of them said so (HookEvents.cpp 130-190).
THEOREM EveryListenerAskedTheorem == HooksSpec => []EveryListenerAsked
<1>1. HooksInit => EventInv
  BY EventsBegin DEF HooksInit
<1>2. EventInv /\ [HooksNext]_<<vars, hookVars>> => EventInv'
  BY EventStep DEF HooksNext
<1>3. EventInv => EveryListenerAsked
  <2> SUFFICES ASSUME EventInv, NEW d \in DOMAIN dispatches, NEW f, f = dispatches[d],
                      f.at = "loop", f.todo = <<>>
               PROVE  /\ Len(f.replies) = Len(f.asked)
                      /\ \A i \in DOMAIN f.asked : f.replies[i].sub = f.asked[i]
                      /\ f.cancelled <=> \E i \in DOMAIN f.replies : f.replies[i].cancel
    BY DEF EveryListenerAsked, Event!EveryoneAsked
  <2>1. f \in Dispatched /\ Progress(f)
    BY LenProperties, ElementOfSeq DEF EventInv
  <2>2. /\ Len(f.asked) \in Nat /\ DOMAIN f.asked = 1..Len(f.asked)
        /\ Len(f.replies) \in Nat /\ DOMAIN f.replies = 1..Len(f.replies)
    BY <2>1, LenProperties DEF Dispatched
  <2> QED
    BY <2>1, <2>2 DEF Progress
<1> QED
  BY <1>1, <1>2, <1>3, PTL DEF HooksSpec
=============================================================================
