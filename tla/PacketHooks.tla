---------------------------- MODULE PacketHooks ----------------------------
(***************************************************************************)
(* Packet interception: src/src/bridge/net/PacketHooks.cpp, and the Rust   *)
(* handle that owns an interceptor, src/crates/levilamina/src/comms/       *)
(* packet.rs.                                                              *)
(*                                                                         *)
(* packetSubs and connSubs are one list here: an entry's `kinds' are the   *)
(* directions of a packet hook, or {"conn"}.  A packet passes the detour   *)
(* of its direction: the gate is read, the interested entries are          *)
(* snapshotted, and each is called without a lock on what the one before   *)
(* made of the packet.  Any thread may be in a detour, registering or      *)
(* unregistering; mods are unloaded on thread Main.                        *)
(*                                                                         *)
(* A gate is written in the critical section that changes the list; a      *)
(* reader between the two writes sees what a reader before both does.      *)
(*                                                                         *)
(* Ghost: a frame's `owed' (the entries it must still call) and `hist'     *)
(* (who answered what) serve the properties only.                          *)
(***************************************************************************)
EXTENDS Integers, Sequences, SequencesExt, Subsequence

CONSTANTS
  Mods, Threads, Conns,
  Main,      \* the server thread
  None,
  Packets,   \* what the engine sends and receives: [head, id, body]
  Answers,   \* what a callback does: [verdict, id, body]; id None: not edited
  MaxSubs,   \* bound: how many hooks are ever registered
  MaxInbox,  \* bound: packets of a connection not yet received
  MaxStack   \* bound, per thread: its frames

\* A header is bytes; a body is a value.
Bodies  == {p.body : p \in Packets} \cup {a.body : a \in Answers} \cup {None}
Packet  == [head : Seq(0..255), id : Nat, body : Bodies]
Verdict == [verdict : {"pass", "replace", "drop"}, id : Nat \cup {None}, body : Bodies]

ASSUME PacketAssumption ==
  /\ Main \in Threads
  /\ Packets \subseteq Packet /\ Answers \subseteq Verdict
  /\ MaxSubs \in Nat /\ MaxInbox \in Nat /\ MaxStack \in [Threads -> Nat]

-----------------------------------------------------------------------------
(***************************************************************************)
(* The header in front of every packet (211-275): an unsigned LEB128       *)
(* integer whose bits 0..9 are the packet id, 10..11 the sender's and      *)
(* 12..13 the target's sub client id.  The bits above are decoded into     *)
(* Header::raw, which nothing reads, and are not modelled.                 *)
(***************************************************************************)
Field == [id: 0..1023, sender: 0..3, target: 0..3]

\* readUVarInt: a number ends at its first byte below 128, the fifth at the
\* latest; without one the bytes are truncated or over-long.
Ends(data, n) ==
  /\ n \in DOMAIN data /\ n <= 5
  /\ data[n] < 128
  /\ \A i \in 1..(n - 1) : data[i] >= 128

Decodes(data) == \E n \in 1..5 : Ends(data, n)
Size(data)    == CHOOSE n \in 1..5 : Ends(data, n)

\* The low 14 bits: seven of the first byte, seven of the second.
Raw(data) == (data[1] % 128) + (IF Size(data) = 1 THEN 0 ELSE 128 * (data[2] % 128))

\* decodeHeader's fields.
Fields(data) ==
  [id     |-> Raw(data) % 1024,
   sender |-> (Raw(data) \div 1024) % 4,
   target |-> (Raw(data) \div 4096) % 4]

\* writeUVarInt, of a number of 14 bits.
WriteUVarInt(raw) ==
  IF raw < 128 THEN <<raw>> ELSE <<(raw % 128) + 128, raw \div 128>>

\* What encodeHeader keeps of an edit: each field is masked to its bits.
Masked(edit) == [id     |-> edit.id % 1024,
                 sender |-> edit.sender % 4,
                 target |-> edit.target % 4]

EncodeHeader(edit) ==
  LET f == Masked(edit) IN WriteUVarInt(f.id + 1024 * f.sender + 4096 * f.target)

-----------------------------------------------------------------------------
VARIABLES
  stage,      \* per mod: "loaded", "gone" from packetHooksOnRustModGone until
              \* its dylib is freed, then "absent"
  subs,       \* packetSubs and connSubs, in order of registration
  gates,      \* which of gInboundLive, gOutboundLive and gConnLive are true
  nextSub,
  addresses,  \* the keys of addressCache
  conns,      \* per connection: "closed", "opening", "open", "closing"
  inbox,      \* per connection: how many packets its peer still holds
  stack       \* per thread: its detours and unloads in progress, top last

vars == <<stage, subs, gates, nextSub, addresses, conns, inbox, stack>>
registry == <<stage, subs, gates, nextSub>>
network  == <<addresses, conns, inbox>>

Kinds    == {"in", "out", "conn"}
Masks    == {{"in"}, {"out"}, {"in", "out"}, {"conn"}}
\* `user' is the callback's closure: TRUE until it is freed.
NoSub    == [id |-> 0, mod |-> None, kinds |-> {}, user |-> TRUE]
NoPacket == [head |-> <<>>, id |-> 0, body |-> None]

\* The bytes the engine sees are the head and the body; `id' is what getId says.
Ids(s)      == {s[i].id : i \in DOMAIN s}
LiveOf(s)   == UNION {s[i].kinds : i \in DOMAIN s}    \* refreshGatesLocked
Wanting(k)  == Kept(subs, {i \in DOMAIN subs : k \in subs[i].kinds})   \* snapshotFor
Top(t)      == stack[t][Len(stack[t])]
In(t, at)   == stack[t] # <<>> /\ Top(t).at = at
ModCode(t)  == stack[t] # <<>> => Top(t).at = "inside"   \* a mod's code runs
SetTop(t, f) == stack' = [stack EXCEPT ![t][Len(stack[t])] = f]
Pop(t)       == stack' = [stack EXCEPT ![t] = Front(@)]
Push(t, f)   == Len(stack[t]) < MaxStack[t] /\ stack' = [stack EXCEPT ![t] = Append(@, f)]

\* tlDispatchDepth > 0: a packet callback is running further down the thread.
Nested(t) == \E d \in 1..(Len(stack[t]) - 1) :
               stack[t][d].at = "inside" /\ stack[t][d].kind \in {"in", "out"}

Frame(k, c, at, p) ==
  [kind |-> k, conn |-> c, at |-> at, live |-> FALSE, in |-> p, out |-> p,
   edit |-> [id |-> 0, sender |-> 0, target |-> 0], body |-> p.body,
   changed |-> FALSE, todo |-> <<>>, sub |-> NoSub, owed |-> Ids(Wanting(k)), hist |-> <<>>]

Init ==
  /\ stage = [m \in Mods |-> "loaded"]
  /\ subs = <<>> /\ gates = {} /\ nextSub = 1
  /\ addresses = {}
  /\ conns = [c \in Conns |-> "closed"]
  /\ inbox = [c \in Conns |-> 0]
  /\ stack = [t \in Threads |-> <<>>]

-----------------------------------------------------------------------------
(* The registry.                                                           *)

\* api_packet_hook_register and api_packet_conn_hook_register; a zero mask is
\* refused.
Register(t, m, kinds) ==
  /\ ModCode(t)
  /\ stage[m] = "loaded"
  /\ nextSub <= MaxSubs
  /\ subs' = Append(subs, [id |-> nextSub, mod |-> m, kinds |-> kinds, user |-> TRUE])
  /\ gates' = LiveOf(subs')
  /\ nextSub' = nextSub + 1
  /\ UNCHANGED <<stage, stack, network>>

Without(ids) == Kept(subs, {i \in DOMAIN subs : subs[i].id \notin ids})
Excused(ids) == [t \in Threads |-> [d \in DOMAIN stack[t] |->
                   [stack[t][d] EXCEPT !.owed = @ \ ids]]]

\* drop_cb, after the entry left the list: a snapshot still holds the entry, and
\* its pointer to the closure.
Freed(id) ==
  LET Dangling(s) == [s EXCEPT !.user = @ /\ s.id # id]
  IN [t \in Threads |-> [d \in DOMAIN stack[t] |->
        [stack[t][d] EXCEPT !.owed = @ \ {id}, !.sub = Dangling(@),
           !.todo = [i \in DOMAIN @ |-> Dangling(@[i])]]]]

\* Mutant: the last hook to go closes its gates, whoever else wants them.
UnregisterClosesGates(t, m, s) ==
  /\ ModCode(t) /\ stage[m] = "loaded" /\ s.mod = m
  /\ subs' = Without({s.id}) /\ gates' = gates \ s.kinds
  /\ stack' = Freed(s.id)
  /\ UNCHANGED <<stage, nextSub, network>>

\* PacketHook::drop: the entry is unregistered, if it is the mod's own, and the
\* closure is freed at once.
Unregister(t, m, s) ==
  /\ ModCode(t) /\ stage[m] = "loaded"
  /\ s.mod = m
  /\ subs' = Without({s.id})
  /\ gates' = LiveOf(subs')
  /\ stack' = Freed(s.id)
  /\ UNCHANGED <<stage, nextSub, network>>

OfMod(m) == {s.id : s \in {subs[i] : i \in {j \in DOMAIN subs : subs[j].mod = m}}}
Inside(t, m) == \E d \in DOMAIN stack[t] :
                  stack[t][d].at = "inside" /\ stack[t][d].sub.mod = m
Unload(m) == [Frame("unload", None, "inside", NoPacket) EXCEPT !.sub.mod = m]

\* RustModManager::unload as far as packetHooksOnRustModGone; not under a
\* callback of the same mod on the same thread.
ModGone(m) ==
  /\ ModCode(Main) /\ stage[m] = "loaded" /\ ~Inside(Main, m)
  /\ Len(stack[Main]) < MaxStack[Main]
  /\ stage' = [stage EXCEPT ![m] = "gone"]
  /\ subs' = Without(OfMod(m))
  /\ gates' = LiveOf(subs')
  /\ stack' = [Excused(OfMod(m)) EXCEPT ![Main] = Append(@, Unload(m))]
  /\ UNCHANGED <<nextSub, network>>

\* lib.free().
ModFree(m) ==
  /\ In(Main, "inside") /\ Top(Main).kind = "unload" /\ Top(Main).sub.mod = m
  /\ stage' = [stage EXCEPT ![m] = "absent"]
  /\ Pop(Main)
  /\ UNCHANGED <<subs, gates, nextSub, network>>

-----------------------------------------------------------------------------
(* The detours.                                                            *)

\* LeviRsPacketSendHook: the engine, or a mod's callback, sends a packet.
Send(t, c, p) ==
  /\ ModCode(t) /\ conns[c] # "closed"
  /\ Push(t, Frame("out", c, IF "out" \in gates THEN "dispatch" ELSE "origin", p))
  /\ UNCHANGED <<registry, network>>

Arrive(c) ==
  /\ conns[c] = "open" /\ inbox[c] < MaxInbox
  /\ inbox' = [inbox EXCEPT ![c] = @ + 1]
  /\ UNCHANGED <<registry, addresses, conns, stack>>

Pumped(c) == \E t \in Threads : \E d \in DOMAIN stack[t] :
               stack[t][d].kind = "in" /\ stack[t][d].conn = c

\* LeviRsPacketReceiveHook: the engine pumps a connection, on one thread.
Receive(t, c) ==
  /\ stack[t] = <<>> /\ conns[c] = "open" /\ ~Pumped(c)
  /\ Push(t, [Frame("in", c, "pull", NoPacket) EXCEPT !.live = "in" \in gates])
  /\ UNCHANGED <<registry, network>>

\* origin, once per turn of the loop: the next packet, or NoData.
Pull(t, p) ==
  /\ In(t, "pull")
  /\ LET c == Top(t).conn IN
     IF inbox[c] = 0
       THEN /\ SetTop(t, [Top(t) EXCEPT !.at = "nodata"])
            /\ UNCHANGED inbox
       ELSE /\ SetTop(t, [Frame("in", c, "dispatch", p) EXCEPT !.live = Top(t).live,
                            !.at = IF Top(t).live THEN @ ELSE "origin",
                            !.owed = IF Top(t).live THEN @ ELSE Top(t).owed])
            /\ inbox' = [inbox EXCEPT ![c] = @ - 1]
  /\ UNCHANGED <<registry, addresses, conns>>

\* LeviRsConnOpenHook and LeviRsConnCloseHook, as far as dispatchConn's gate.
ConnEvent(t, c, from, to) ==
  /\ stack[t] = <<>> /\ conns[c] = from /\ ~Pumped(c)
  /\ conns' = [conns EXCEPT ![c] = to]
  /\ Push(t, Frame("conn", c, IF "conn" \in gates THEN "dispatch" ELSE "origin", NoPacket))
  /\ UNCHANGED <<registry, addresses, inbox>>

\* What makes dispatch hand the packet through before it takes a snapshot.
HandsOff(t) ==
  LET f == Top(t) IN
  /\ f.kind # "conn"
  /\ \/ Nested(t)
     \/ ~Decodes(f.in.head)
     \/ f.kind = "out" /\ Fields(f.in.head).id # f.in.id

\* dispatch and dispatchConn, under the shared lock.
Snapshot(t) ==
  /\ In(t, "dispatch")
  /\ LET f == Top(t)  todo == Wanting(f.kind) IN
     IF HandsOff(t) \/ todo = <<>>
       THEN SetTop(t, [f EXCEPT !.at = "origin"])
       ELSE SetTop(t, [f EXCEPT !.at = "resolve", !.todo = todo,
                         !.edit = IF f.kind = "conn" THEN @ ELSE Fields(f.in.head)])
  /\ UNCHANGED <<registry, network>>

\* addressOf: a miss inserts, open or not.
Resolve(t) ==
  /\ In(t, "resolve")
  /\ addresses' = addresses \union {Top(t).conn}
  /\ SetTop(t, [Top(t) EXCEPT !.at = "loop"])
  /\ UNCHANGED <<registry, conns, inbox>>

Call(t) ==
  /\ In(t, "loop") /\ Top(t).todo # <<>>
  /\ SetTop(t, [Top(t) EXCEPT !.at = "inside", !.sub = Head(Top(t).todo), !.todo = Tail(@),
                              !.owed = @ \ {Head(Top(t).todo).id}])
  /\ UNCHANGED <<registry, network>>

\* The frame once its callback answered a; a callback that throws passes.
Answered(f, a) ==
  [f EXCEPT !.hist = Append(@, [sub |-> f.sub.id, did |-> a]),
            !.sub = NoSub,
            !.at = IF a.verdict = "drop" THEN "dropped" ELSE "loop"]

\* Mutant: a field the REPLACE leaves alone becomes zero.
AnswerZeroes(t, a) ==
  /\ In(t, "inside") /\ Top(t).kind \in {"in", "out"}
  /\ LET f == Answered(Top(t), a) IN
     SetTop(t, IF a.verdict = "replace"
                 THEN [f EXCEPT !.edit.id = IF a.id = None THEN 0 ELSE a.id,
                                !.body = a.body, !.changed = TRUE]
                 ELSE f)
  /\ UNCHANGED <<registry, network>>

\* One turn of dispatch's loop.  Only a REPLACE has its edit and body taken;
\* every field of the header it leaves alone keeps what was there.
Answer(t, a) ==
  /\ In(t, "inside") /\ Top(t).kind \in {"in", "out"}
  /\ LET f == Answered(Top(t), a) IN
     SetTop(t, IF a.verdict = "replace"
                 THEN [f EXCEPT !.edit.id = IF a.id = None THEN @ ELSE a.id,
                                !.body = a.body, !.changed = TRUE]
                 ELSE f)
  /\ UNCHANGED <<registry, network>>

\* A connection callback has no verdict.
ConnReturn(t) ==
  /\ In(t, "inside") /\ Top(t).kind = "conn"
  /\ SetTop(t, [Top(t) EXCEPT !.at = "loop", !.sub = NoSub])
  /\ UNCHANGED <<registry, network>>

\* The loop ran out: the packet is rebuilt if somebody replaced it.
Finish(t) ==
  /\ In(t, "loop") /\ Top(t).todo = <<>>
  /\ LET f == Top(t) IN
     SetTop(t, [f EXCEPT !.at = "origin",
                  !.out = IF f.changed THEN [@ EXCEPT !.head = EncodeHeader(f.edit),
                                                      !.body = f.body] ELSE @])
  /\ UNCHANGED <<registry, network>>

\* Mutant: a dropped packet ends the pump.
LeaveOnDrop(t) ==
  /\ stack[t] # <<>> /\ Top(t).kind \in {"in", "out"}
  /\ Top(t).at \in {"origin", "dropped", "nodata"}
  /\ IF Top(t).kind = "in" /\ Top(t).at = "dropped"
       THEN SetTop(t, [Top(t) EXCEPT !.at = "nodata"])
       ELSE Pop(t)
  /\ UNCHANGED <<registry, network>>

\* The detour returns; the inbound pump goes on after a dropped packet.
Leave(t) ==
  /\ stack[t] # <<>> /\ Top(t).kind \in {"in", "out"}
  /\ Top(t).at \in {"origin", "dropped", "nodata"}
  /\ IF Top(t).kind = "in" /\ Top(t).at = "dropped"
       THEN SetTop(t, [Top(t) EXCEPT !.at = "pull"])
       ELSE Pop(t)
  /\ UNCHANGED <<registry, network>>

\* After the observers of an open, the connection runs; after those of a close,
\* its address is forgotten.
ConnLeave(t) ==
  /\ In(t, "origin") /\ Top(t).kind = "conn"
  /\ LET c == Top(t).conn IN
     IF conns[c] = "opening"
       THEN conns' = [conns EXCEPT ![c] = "open"] /\ UNCHANGED <<addresses, inbox>>
       ELSE /\ conns' = [conns EXCEPT ![c] = "closed"]
            /\ addresses' = addresses \ {c}
            /\ inbox' = [inbox EXCEPT ![c] = 0]
  /\ Pop(t)
  /\ UNCHANGED registry

Next ==
  \/ \E t \in Threads, m \in Mods, kinds \in Masks : Register(t, m, kinds)
  \/ \E t \in Threads, m \in Mods, s \in ToSet(subs) : Unregister(t, m, s)
  \/ \E m \in Mods : ModGone(m) \/ ModFree(m)
  \/ \E t \in Threads, c \in Conns, p \in Packets : Send(t, c, p)
  \/ \E c \in Conns : Arrive(c)
  \/ \E t \in Threads, c \in Conns :
       \/ Receive(t, c)
       \/ ConnEvent(t, c, "closed", "opening") \/ ConnEvent(t, c, "open", "closing")
  \/ \E t \in Threads, p \in Packets : Pull(t, p)
  \/ \E t \in Threads : \/ Snapshot(t) \/ Resolve(t) \/ Call(t) \/ ConnReturn(t)
                        \/ Finish(t) \/ Leave(t) \/ ConnLeave(t)
  \/ \E t \in Threads, a \in Answers : Answer(t, a)

Spec == Init /\ [][Next]_vars
-----------------------------------------------------------------------------
Frames == UNION {ToSet(stack[t]) : t \in Threads}

Interceptable(f) == f.kind = "out" => Fields(f.in.head).id = f.in.id

\* No packet slips by (LeviRsAbi.h, packet_hook_register): a packet that goes on
\* was shown to every interceptor registered when it came and still registered,
\* in order of registration; and a connection event to every observer.
EveryHookSees ==
  \A t \in Threads : \A d \in DOMAIN stack[t] : LET f == stack[t][d] IN
    /\ \A i, j \in DOMAIN f.hist : i < j => f.hist[i].sub < f.hist[j].sub
    /\ /\ f.at = "origin"
       /\ f.kind # "conn" => Decodes(f.in.head) /\ Interceptable(f)
       /\ \A e \in 1..(d - 1) : stack[t][e].kind \notin {"in", "out"}
       => f.owed = {}

\* The reference for dispatch's loop: the last REPLACE decides on the body, the
\* last one that set the id on the id; the other fields stay.
Replaces(f) == {i \in DOMAIN f.hist : f.hist[i].did.verdict = "replace"}
Renames(f)  == {i \in Replaces(f) : f.hist[i].did.id # None}
Latest(I)   == CHOOSE i \in I : \A j \in I : j <= i
Expected(f) ==
  [Fields(f.in.head) EXCEPT !.id = IF Renames(f) = {} THEN @
                                   ELSE f.hist[Latest(Renames(f))].did.id % 1024]

\* What goes on is what the chain made of the packet: the first DROP stops it,
\* PASS changes nothing, a packet nobody replaced or sent from inside a callback
\* goes out byte for byte, and a rewritten one decodes to the edited header.
ForwardsChain ==
  \A t \in Threads : \A d \in DOMAIN stack[t] : LET f == stack[t][d] IN
    f.kind \in {"in", "out"} /\ f.at = "origin" =>
      /\ \A i \in DOMAIN f.hist : f.hist[i].did.verdict # "drop"
      /\ IF Replaces(f) = {} \/ \E e \in 1..(d - 1) : stack[t][e].kind \in {"in", "out"}
           THEN f.out = f.in
           ELSE /\ Decodes(f.out.head) /\ Fields(f.out.head) = Expected(f)
                /\ f.out.body = f.hist[Latest(Replaces(f))].did.body

\* A dropped packet does not strand the ones queued behind it: receivePacket
\* reports NoData only when the peer has none (PacketHooks.cpp 534-539).
PumpDrains ==
  [][\A t \in Threads :
       In(t, "nodata")' /\ ~In(t, "nodata") => inbox[Top(t).conn] = 0]_vars

\* "A callback may register or unregister (including itself) safely"
\* (LeviRsAbi.h 1562-1563): no interceptor runs in a closure that was freed.
RunsInLiveClosure ==
  \A f \in Frames : f.at = "inside" => f.sub.user
=============================================================================
