----------------------------- MODULE EdgeosSync -----------------------------
(***************************************************************************)
(* edgeos-sync.py apply: commit-confirm on an EdgeOS router, over the link *)
(* the router itself may cut.  Session A stages the change, queues an at   *)
(* job that rolls back, and commits; session B, a new login, cancels the   *)
(* job and saves.  The tool, its link and the router's power fail at any   *)
(* step, and the tool is run again.  CI runs one at a time (a concurrency  *)
(* group), and so does the model.  `plan` discards what it stages.         *)
(***************************************************************************)
EXTENDS Naturals

CONSTANTS
    Configs,      \* configurations of the router
    Cut,          \* those under which it can't be reached
    FirstConfig,  \* the one it runs and has saved at first
    MaxApplies,   \* bound: applies
    MaxPowerCuts  \* bound: power cuts

ASSUME EdgeosAssumption ==
    /\ Cut \subseteq Configs /\ FirstConfig \in Configs \ Cut
    /\ MaxApplies \in Nat /\ MaxPowerCuts \in Nat

VARIABLES
    running, saved,  \* the router's configuration and /config/config.boot
    rollback,        \* /config/edgeos-sync-rollback.boot
    atq, confirmJob, \* queued rollback jobs; /var/run/confirm.job, 0: no file
    step, wanted,   \* where the tool is, and what it applies
    applies, powerCuts

router == <<running, saved, rollback, atq, confirmJob>>
edgeVars == <<router, step, wanted, applies, powerCuts>>

SessionA == {"stage", "schedule", "jobFile", "commit"}
SessionB == {"confirm", "save"}

\* The router's files and the tool's place have their types.
EdgeosTypeOK ==
    /\ running \in Configs /\ saved \in Configs /\ rollback \in Configs
    /\ atq \subseteq 1 .. applies /\ confirmJob \in 0 .. applies
    /\ step \in {"idle", "login"} \cup SessionA \cup SessionB
    /\ wanted \in Configs
    /\ applies \in 0 .. MaxApplies /\ powerCuts \in 0 .. MaxPowerCuts

EdgeosInit ==
    /\ running = FirstConfig /\ saved = FirstConfig /\ rollback = FirstConfig
    /\ atq = {} /\ confirmJob = 0
    /\ step = "idle" /\ wanted = FirstConfig /\ applies = 0 /\ powerCuts = 0

Reachable == running \notin Cut

-----------------------------------------------------------------------------
(* The tool                                                                *)

\* live_lines and diff: without a difference it ends here.
StartApply ==
    /\ step = "idle" /\ applies < MaxApplies /\ Reachable
    /\ wanted' \in Configs \ {running}
    /\ applies' = applies + 1 /\ step' = "stage"
    /\ UNCHANGED <<router, powerCuts>>

\* begin, delete, set, and the copy of config.boot that a rollback loads.
StageChange ==
    /\ step = "stage" /\ rollback' = saved /\ step' = "schedule"
    /\ UNCHANGED <<running, saved, atq, confirmJob, wanted, applies, powerCuts>>

\* The job of an apply has its number: at counts up.
ScheduleRollback ==
    /\ step = "schedule" /\ atq' = atq \cup {applies} /\ step' = "jobFile"
    /\ UNCHANGED <<running, saved, rollback, confirmJob, wanted, applies, powerCuts>>

\* Mutant: the commit doesn't depend on the job.
ScheduleFailsUnseen ==
    /\ step = "schedule" /\ step' = "jobFile"
    /\ UNCHANGED <<router, wanted, applies, powerCuts>>

\* `at` printed no job: the script exits before the commit.
ScheduleFails ==
    /\ step = "schedule" /\ step' = "idle"
    /\ UNCHANGED <<router, wanted, applies, powerCuts>>

WriteJobFile ==
    /\ step = "jobFile" /\ confirmJob' = applies /\ step' = "commit"
    /\ UNCHANGED <<running, saved, rollback, atq, wanted, applies, powerCuts>>

\* Mutant: saved with the commit.
CommitSaves ==
    /\ step = "commit" /\ running' = wanted /\ saved' = wanted /\ step' = "login"
    /\ UNCHANGED <<rollback, atq, confirmJob, wanted, applies, powerCuts>>

CommitChange ==
    /\ step = "commit" /\ running' = wanted /\ step' = "login"
    /\ UNCHANGED <<saved, rollback, atq, confirmJob, wanted, applies, powerCuts>>

\* The commit changes nothing, and the script cancels its job.
CommitFails ==
    /\ step = "commit" /\ atq' = atq \ {confirmJob} /\ confirmJob' = 0 /\ step' = "idle"
    /\ UNCHANGED <<running, saved, rollback, wanted, applies, powerCuts>>

\* The second login, and confirm.job is there.
LoginAgain ==
    /\ step = "login" /\ Reachable /\ confirmJob # 0 /\ step' = "confirm"
    /\ UNCHANGED <<router, wanted, applies, powerCuts>>

\* `confirm` cancels the job of the file, if it works.
Confirm ==
    /\ step = "confirm" /\ step' = "save"
    /\ \/ atq' = atq \ {confirmJob} /\ confirmJob' = 0
       \/ UNCHANGED <<atq, confirmJob>>
    /\ UNCHANGED <<running, saved, rollback, wanted, applies, powerCuts>>

\* Only with the job gone from atq.
SaveConfig ==
    /\ step = "save" /\ applies \notin atq /\ saved' = running /\ step' = "idle"
    /\ UNCHANGED <<running, rollback, atq, confirmJob, wanted, applies, powerCuts>>

\* A command of a script fails (set -e), ssh times out, the link is cut, the
\* runner stops: what the router has done stays done.
ApplyDies ==
    /\ step # "idle" /\ step' = "idle"
    /\ UNCHANGED <<router, wanted, applies, powerCuts>>

-----------------------------------------------------------------------------
(* The router                                                              *)

\* It boots; a session on it is gone, and /var/run is empty.
Boots(config) ==
    /\ running' = config /\ confirmJob' = 0
    /\ step' = IF step = "login" THEN "login" ELSE "idle"
    /\ UNCHANGED <<rollback, wanted, applies>>

\* The at job: load the rollback file and reboot.
RollBack ==
    /\ \E j \in atq : atq' = atq \ {j}
    /\ Boots(rollback) /\ saved' = rollback /\ UNCHANGED powerCuts

\* Whether atd's queue survives is not the tool's to say.
PowerCut ==
    /\ powerCuts < MaxPowerCuts /\ powerCuts' = powerCuts + 1
    /\ Boots(saved) /\ UNCHANGED saved /\ atq' \in SUBSET atq

\* Nobody runs the tool again.
EdgeosStop == step = "idle" /\ atq = {} /\ UNCHANGED edgeVars

EdgeosNext ==
    \/ StartApply \/ StageChange \/ ScheduleRollback \/ ScheduleFails \/ WriteJobFile
    \/ CommitChange \/ CommitFails \/ LoginAgain \/ Confirm \/ SaveConfig
    \/ ApplyDies \/ RollBack \/ PowerCut \/ EdgeosStop

\* atd runs what is due. Nothing is asked of the tool: it may stop for good.
EdgeosFair == WF_edgeVars(RollBack)

EdgeosSpec == EdgeosInit /\ [][EdgeosNext]_edgeVars /\ EdgeosFair

-----------------------------------------------------------------------------
(* "If the change cuts the device off, the confirm never arrives and the device
   reboots into its saved, pre-change config" (infrastructure/edgeos/README.md):
   wherever the tool, the link or the power fails, a router that can't be reached
   comes back without anybody's help. *)
ComesBack == running \in Cut ~> Reachable

(* Nothing is saved, or kept to roll back to, that no fresh login has proved to be
   reachable (edgeos-sync.py: session B confirms and saves), through every
   interleaving of a rollback, a power cut and a second apply. *)
BootsReachable == saved \notin Cut /\ (atq # {} => rollback \notin Cut)
=============================================================================
