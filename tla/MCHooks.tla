------------------------------ MODULE MCHooks ------------------------------
(***************************************************************************)
(* Packet interception and the hook events, for TLC.  They share nothing:  *)
(* one moves while the other rests in its initial state.                   *)
(***************************************************************************)
EXTENDS PacketHooks, TLC

CONSTANTS Events, MaxListeners, MaxNested

VARIABLES present, listeners, installed, nextId, dispatches

hookVars == <<present, listeners, installed, nextId, dispatches>>

Event == INSTANCE HookEvents WITH
  MaxSubs <- MaxListeners, MaxDepth <- MaxNested,
  subs <- listeners, stack <- dispatches

HooksInit == Init /\ Event!Init

HooksNext ==
  \/ Event!Init /\ Next /\ UNCHANGED hookVars
  \/ Init /\ Event!Next /\ UNCHANGED vars

HooksSpec == HooksInit /\ [][HooksNext]_<<vars, hookVars>>

\* A packet of id 1 from sub client 1; one whose header is not what getId says,
\* and one whose header does not decode.
Ordinary == [head |-> <<129, 8>>, id |-> 1, body |-> "b"]
SomePackets ==
  {Ordinary, [Ordinary EXCEPT !.head = <<2>>], [Ordinary EXCEPT !.head = <<128>>]}

\* The id 1025 does not fit its ten bits.
SomeAnswers ==
  {[verdict |-> "pass", id |-> 7, body |-> "c"],
   [verdict |-> "replace", id |-> None, body |-> "c"],
   [verdict |-> "replace", id |-> 1025 + 300, body |-> "d"],
   [verdict |-> "drop", id |-> None, body |-> "b"]}

\* The mods are alike.
ModsAlike == Permutations(Mods)

Stacks == [t \in Threads |-> IF t = Main THEN 2 ELSE 1]

\* Bounds: while two detours are in progress, what they carry is ordinary; and
\* while both threads are in detours nothing is replaced and no detour is inside
\* another one.  What the chain makes of a packet is in the frame alone.
OrdinaryTogether ==
  LET together == \A t \in Threads : stack[t] # <<>>
      nested == \E t \in Threads : Len(stack[t]) > 1
  IN /\ together => ~ nested
     /\ together \/ nested => \A f \in Frames :
          /\ f.in \in {Ordinary, NoPacket}
          /\ \A i \in DOMAIN f.hist : f.hist[i].did.id \in {None, 7}
     /\ together => \A f \in Frames : \A i \in DOMAIN f.hist :
                       f.hist[i].did.verdict # "replace"

\* The hook events' dispatch.
EveryListenerAsked == Event!EveryoneAsked
=============================================================================
