--------------------------- MODULE MCPassSpenders ---------------------------
(***************************************************************************)
(* Each behaviour plays one scene: two workers on one occurrence or batch, *)
(* one worker and the owner, the intake of usage events, or a schedule and *)
(* a grant on the same pass.                                               *)
(***************************************************************************)
EXTENDS PassSpenders, TLC

CONSTANTS e1, e2, e3, Lead, Nwc, Ckb

VARIABLE scene

MCCost == (e1 :> 1) @@ (e2 :> 2) @@ (e3 :> 2)

Scenes ==
  [name: {"scheduleDuel", "scheduleOwner"}, on: Schedule]
    \cup [name: {"batchDuel", "batchOwner", "intake", "both"}, on: {Nwc}]

Duel == scene.name \in {"scheduleDuel", "batchDuel"}
WorkingSchedulers ==
  CASE scene.name = "scheduleDuel" -> Scheduler
    [] scene.name \in {"scheduleOwner", "both"} -> {Lead} [] OTHER -> {}
WorkingSettlers ==
  CASE scene.name = "batchDuel" -> Settler [] scene.name = "batchOwner" -> {Lead} [] OTHER -> {}
Reported ==
  CASE scene.name \in {"batchDuel", "both"} -> {e2} [] scene.name = "batchOwner" -> {e1, e2}
    [] scene.name = "intake" -> Event [] OTHER -> {}

SceneInit == SpendersInit /\ scene \in Scenes

\* Nothing but the scene's processes moves.
SceneNext ==
  /\ \/ /\ WorkingSchedulers # {}
        /\ ScheduleNext /\ UNCHANGED meteredVars
        /\ \A w \in Scheduler \ WorkingSchedulers : scheduler'[w] = scheduler[w]
        /\ \A s \in Schedule \ {scene.on} : schedule'[s] = schedule[s]
        /\ scene.name # "scheduleOwner" => UNCHANGED <<request, destination>>
     \/ /\ Reported # {}
        /\ MeteredNext /\ UNCHANGED scheduleVars
        /\ \A w \in Settler \ WorkingSettlers : settler'[w] = settler[w]
        /\ \A e \in Event \ Reported : usage'[e] = usage[e]
        /\ Duel => UNCHANGED revoking
        /\ scene.name # "intake" => inWindow' >= inWindow
     \/ /\ ~Duel
        /\ PassMoves /\ UNCHANGED <<scheduleVars, meteredVars>>
        /\ scene.name # "both" => minor'.limit = PassLimit
  /\ UNCHANGED scene

SceneSpec == SceneInit /\ [][SceneNext]_<<spenderVars, scene>>
=============================================================================
