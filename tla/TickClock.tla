----------------------------- MODULE TickClock ------------------------------
(***************************************************************************)
(* The world's clock: bridge/hooks/engine/TickControl.cpp and Profiler.cpp.*)
(* Both are detours of Level::tick, installed by the first call and never  *)
(* removed; the profiler's is outside.  A frame of the engine runs no      *)
(* tick, one or several; the calls of mods come between frames and from    *)
(* inside a tick.  All of it is on the server thread.                      *)
(***************************************************************************)
EXTENDS Naturals

CONSTANTS
  Unit,        \* a warp factor is a multiple of 1/Unit
  Factors,     \* the factors asked for, in units
  Steps,       \* the step counts asked for
  MaxPending,  \* steps waiting
  Windows,     \* the lengths of windows asked for, in range
  None

VARIABLES
  hooked, frozen, warp, acc, pending,  \* TickState
  sampling, reportReady, remaining, window, levelCalls,  \* ProfState
  frame,   \* the frame in progress, [kind, left, inTick, timed], or None
  owed     \* history: steps granted, neither run nor called off

control == <<hooked, frozen, warp, acc, pending>>
profiler == <<sampling, reportReady, remaining, window, levelCalls>>
vars == <<control, profiler, frame, owed>>

Init ==
  /\ hooked = FALSE /\ frozen = FALSE /\ warp = Unit /\ acc = 0 /\ pending = 0
  /\ sampling = FALSE /\ reportReady = FALSE /\ remaining = 0 /\ window = 0
  /\ levelCalls = 0
  /\ frame = None /\ owed = 0

\* A mod is called between frames, or by a tick.
Callable == frame # None => frame.inTick

-----------------------------------------------------------------------------
(* The frame.                                                              *)

Frame(kind, ticks) ==
  [kind |-> kind, left |-> ticks, inTick |-> FALSE, timed |-> sampling]

\* Mutant: the steps are taken off the queue when they have run.
BeginFrameKeeps ==
  /\ frame = None
  /\ \/ hooked /\ frozen /\ frame' = Frame("step", pending) /\ acc' = acc
     \/ (~hooked \/ (~frozen /\ warp = Unit)) /\ frame' = Frame("plain", 1) /\ acc' = acc
     \/ hooked /\ ~frozen /\ warp # Unit
        /\ frame' = Frame("warp", (acc + warp) \div Unit)
        /\ acc' = (acc + warp) % Unit
  /\ UNCHANGED <<hooked, frozen, warp, pending, profiler, owed>>

\* LevelTickHook decides how many ticks the frame runs: the steps waiting, one,
\* or what has accumulated.
BeginFrame ==
  /\ frame = None
  /\ \/ hooked /\ frozen
        /\ frame' = Frame("step", pending)
        /\ pending' = 0 /\ acc' = acc
     \/ (~hooked \/ (~frozen /\ warp = Unit))
        /\ frame' = Frame("plain", 1)
        /\ UNCHANGED <<pending, acc>>
     \/ hooked /\ ~frozen /\ warp # Unit
        /\ frame' = Frame("warp", (acc + warp) \div Unit)
        /\ acc' = (acc + warp) % Unit /\ pending' = pending
  /\ UNCHANGED <<hooked, frozen, warp, profiler, owed>>

\* The engine's own tick, and its end.
Tick ==
  /\ frame # None /\ ~frame.inTick /\ frame.left > 0
  /\ frame' = [frame EXCEPT !.left = @ - 1, !.inTick = TRUE]
  /\ owed' = IF frame.kind = "step" THEN owed - 1 ELSE owed
  /\ UNCHANGED <<control, profiler>>

TickDone ==
  /\ frame # None /\ frame.inTick
  /\ frame' = [frame EXCEPT !.inTick = FALSE]
  /\ UNCHANGED <<control, profiler, owed>>

\* ProfLevelTickHook adds the frame to the window if it was sampling when the
\* frame began; the last frame makes the report.
EndFrame ==
  /\ frame # None /\ ~frame.inTick /\ frame.left = 0
  /\ frame' = None
  /\ IF ~frame.timed THEN UNCHANGED profiler
     ELSE /\ levelCalls' = levelCalls + 1
          /\ remaining' = remaining - 1
          /\ sampling' = (remaining > 1)
          /\ reportReady' = (remaining = 1)
          /\ UNCHANGED window
  /\ UNCHANGED <<control, owed>>

-----------------------------------------------------------------------------
(* The calls.                                                              *)

\* api_tick_freeze: thawing calls off the steps that wait.
Freeze(on) ==
  /\ Callable /\ (on \/ hooked)
  /\ hooked' = TRUE /\ frozen' = on
  /\ pending' = IF on THEN pending ELSE 0
  /\ owed' = IF on THEN owed ELSE owed - pending
  /\ UNCHANGED <<warp, acc, profiler, frame>>

\* api_tick_step: refused unless the clock is frozen.
Step(n) ==
  /\ Callable /\ hooked /\ frozen
  /\ pending + n <= MaxPending
  /\ pending' = pending + n /\ owed' = owed + n
  /\ UNCHANGED <<hooked, frozen, warp, acc, profiler, frame>>

\* api_tick_warp: the normal speed empties the accumulator.
Warp(f) ==
  /\ Callable /\ (f # Unit \/ hooked)
  /\ hooked' = TRUE /\ warp' = f
  /\ acc' = IF f = Unit THEN 0 ELSE acc
  /\ UNCHANGED <<frozen, pending, profiler, frame, owed>>

\* api_profile_begin: one window at a time.
ProfileBegin(n) ==
  /\ Callable /\ ~sampling
  /\ levelCalls' = 0 /\ reportReady' = FALSE
  /\ window' = n /\ remaining' = n /\ sampling' = TRUE
  /\ UNCHANGED <<control, frame, owed>>

\* api_profile_take: a report is taken once.
ProfileTake ==
  /\ Callable /\ reportReady
  /\ reportReady' = FALSE
  /\ UNCHANGED <<control, sampling, remaining, window, levelCalls, frame, owed>>

Next ==
  \/ BeginFrame \/ Tick \/ TickDone \/ EndFrame \/ ProfileTake
  \/ \E on \in BOOLEAN : Freeze(on)
  \/ \E n \in Steps : Step(n)
  \/ \E f \in Factors : Warp(f)
  \/ \E n \in Windows : ProfileBegin(n)

Spec == Init /\ [][Next]_vars

-----------------------------------------------------------------------------

\* Every step granted is run once or called off by a thaw: it waits, or it is in
\* the frame in progress, also when it was asked for from inside a step.
StepsExact ==
  owed = pending + (IF frame # None /\ frame.kind = "step" THEN frame.left ELSE 0)

\* A report covers as many frames as its window, whenever in a frame the window
\* was armed, and whatever was frozen, stepped or warped meanwhile.
WindowWhole ==
  /\ sampling => levelCalls + remaining = window /\ remaining > 0
  /\ reportReady => ~sampling /\ levelCalls = window

=============================================================================
