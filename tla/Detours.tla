------------------------------ MODULE Detours -------------------------------
(***************************************************************************)
(* The gameplay detours of bridge/hooks/{protect,player,world}: which      *)
(* functions of the engine an act runs through, and what each detour lets  *)
(* pass.  Protect.tla says what a detour does.                             *)
(***************************************************************************)
EXTENDS TLC

(***************************************************************************)
(* The acts, and the functions each one runs through.  "effect" is the     *)
(* engine's own part; a bow passes three detours, two of them once per     *)
(* arrow, and a forwarded attack two.                                      *)
(***************************************************************************)
Path ==
  [throw    |-> <<"shoot", "effect">>,
   dispense |-> <<"shoot", "effect">>,
   bow      |-> <<"shooter", "shoot", "spawner", "effect">>,
   skeleton |-> <<"spawner", "effect">>,
   trident  |-> <<"tridentRelease", "spawner", "effect">>,
   firework |-> <<"firework", "effect">>,
   gamemode |-> <<"setGameType", "effect">>,
   respawn  |-> <<"setGameType", "effect">>,
   attack   |-> <<"attack2", "attack3", "effect">>,
   drop     |-> <<"drop", "effect">>,
   uiDrop   |-> <<"transaction", "effect">>,
   craft    |-> <<"transaction", "effect">>,
   interact |-> <<"interact", "effect">>,
   ride     |-> <<"canAddPassenger", "effect">>,
   mobRide  |-> <<"canAddPassenger", "effect">>,
   arrowUp  |-> <<"arrowTouch", "effect">>,
   useItem  |-> <<"useItemOn", "effect">>,
   open     |-> <<"openContainer", "effect">>,
   ghost    |-> <<"openContainer", "effect">>,
   dig      |-> <<"startDestroyBlock", "effect">>,
   travel   |-> <<"requestChangeDimension", "effect">>,
   hopper   |-> <<"effect", "setItem">>,
   chest    |-> <<"effect", "setItem">>]

-----------------------------------------------------------------------------
(* The detours, file by file: the event of each, and the acts it lets pass *)
(* although somebody is subscribed.                                        *)

Detour(event, passes) == [event |-> event, passes |-> passes]

\* Launches that no player made, by a dispenser, pass.
LaunchDetours ==
  [shoot |-> Detour("Projectile", {"dispense"}),
   shooter |-> Detour("Projectile", {}),
   tridentRelease |-> Detour("Projectile", {}),
   firework |-> Detour("Projectile", {})]

\* The spawner's: also a trident, which TridentReleaseHook has asked about.
SpawnerDetour == [spawner |-> Detour("Projectile", {"skeleton", "trident"})]

\* The engine sets the mode a player has already, at every respawn.
GameModeDetour == [setGameType |-> Detour("GameMode", {"respawn"})]

\* Both overloads, whichever forwards to the other.
AttackDetours == [attack2 |-> Detour("Attack", {}), attack3 |-> Detour("Attack", {})]

\* Of the transactions only the one action on the player's own inventory is a drop.
DropDetours ==
  [drop |-> Detour("Drop", {}), transaction |-> Detour("Drop", {"craft"})]

InteractDetour == [interact |-> Detour("Interact", {})]

RideDetour == [canAddPassenger |-> Detour("Ride", {"mobRide"})]

TakeDetours == [arrowTouch |-> Detour("Take", {})]

UseItemDetour == [useItemOn |-> Detour("UseItemOn", {})]

\* Whoever opens it may be gone, or be no player.
ContainerDetour == [openContainer |-> Detour("Open", {"ghost"})]

DestroyDetour == [startDestroyBlock |-> Detour("StartDestroy", {})]

TravelDetour == [requestChangeDimension |-> Detour("ChangeDimension", {})]

\* The code of setItem is shared with other containers; a hopper tells afterwards.
HopperDetour == [setItem |-> Detour("Hopper", {"chest"})]

Detours ==
  LaunchDetours @@ SpawnerDetour @@ GameModeDetour @@ AttackDetours @@ DropDetours
    @@ InteractDetour @@ RideDetour @@ TakeDetours @@ UseItemDetour @@ ContainerDetour
    @@ DestroyDetour @@ TravelDetour @@ HopperDetour
=============================================================================
