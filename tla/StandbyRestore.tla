--------------------------- MODULE StandbyRestore ---------------------------
(***************************************************************************)
(* restore_drill.py: on Sundays each site restores the other site's newest *)
(* snapshot of a warm app's PVC into its own copy, wherever the app is off *)
(* here.  Composed with SiteFailover: the drill and the tool share the     *)
(* site's Deployment, its site-overrides and its PVCs, and no lock.        *)
(***************************************************************************)
EXTENDS SiteFailover

CONSTANT Quiet    \* the drill runs apart from the tool: none of the two starts
                  \* before the other is over and Flux has applied its result

ASSUME QuietAssumption == Quiet \in BOOLEAN

VARIABLE drill    \* drill[s]: where the Job at s is, and the entry in hand

drillVars == <<vars, drill>>

NoDrill == [step |-> "idle", pvc |-> Unset]

DrillTypeOK ==
  drill \in [Sites -> {NoDrill} \cup [step : {"overrides", "post", "wait"}, pvc : Pvcs]]

DrillGoes(s, step, p) == drill' = [drill EXCEPT ![s] = [step |-> step, pvc |-> p]]

Settled == pc = "idle" /\ \A s \in Sites : desired[s] = EffReplicas(s)

\* Mutant: the Deployment isn't looked at.
DrillAnywhere(s, p) ==
  /\ drill[s].step = "idle"
  /\ Quiet => Settled
  /\ "lateRestore" \in Faults \/ orphans = {}
  /\ DrillGoes(s, "overrides", p)
  /\ UNCHANGED vars

\* GET the Deployment: replicas > 0 means the app runs here, and it is skipped.
DrillDeployment(s, p) ==
  /\ drill[s].step = "idle"
  /\ desired[s] = "0"
  /\ Quiet => Settled
  /\ "lateRestore" \in Faults \/ orphans = {}
  /\ DrillGoes(s, "overrides", p)
  /\ UNCHANGED vars

\* GET this site's site-overrides: any key of the app means a switchover.
DrillOverrides(s) ==
  /\ drill[s].step = "overrides"
  /\ IF ov[s] = NoKeys THEN DrillGoes(s, "post", drill[s].pvc)
     ELSE drill' = [drill EXCEPT ![s] = NoDrill]
  /\ UNCHANGED vars

\* POST the Restore.  kopiur works on it from here on; like a Restore the tool
\* has left, it mirrors its snapshot when it ends (OrphanEnds).
DrillPost(s) ==
  /\ drill[s].step = "post"
  /\ orphans' = orphans \cup {<<s, drill[s].pvc>>}
  /\ DrillGoes(s, "wait", drill[s].pvc)
  /\ UNCHANGED <<gitHome, settings, ov, desired, pod, dbspec, role, tokenOut, holds,
                 strays, spoilt>>
  /\ UNCHANGED toolVars

\* The Restore has ended, or 1800 s have passed, or the Job's own deadline ends
\* it: the Restore itself stays.
DrillOver(s) ==
  /\ drill[s].step = "wait"
  /\ <<s, drill[s].pvc>> \notin orphans \/ "lateRestore" \in Faults
  /\ drill' = [drill EXCEPT ![s] = NoDrill]
  /\ UNCHANGED vars

DrillNext ==
  \E s \in Sites :
    \/ \E p \in Pvcs : DrillDeployment(s, p)
    \/ DrillOverrides(s) \/ DrillPost(s) \/ DrillOver(s)

DrillInit == Init /\ drill = [s \in Sites |-> NoDrill]

Starts == pc = "idle" /\ pc' # "idle"

FailoverNext ==
  /\ Next
  /\ Quiet /\ Starts => \A s \in Sites : drill[s] = NoDrill
  /\ UNCHANGED drill

DrilledNext == DrillNext \/ FailoverNext

DrilledSpec == DrillInit /\ [][DrilledNext]_drillVars

\* The fairness of SiteFailover's sites; nothing is asked of the tool or the drill.
DrilledFairness ==
  \A s \in Sites :
    /\ WF_drillVars(FluxSettings(s) /\ UNCHANGED drill)
    /\ WF_drillVars(FluxApp(s) /\ UNCHANGED drill)
    /\ WF_drillVars(PodStart(s) /\ UNCHANGED drill)
    /\ WF_drillVars(PodStop(s) /\ UNCHANGED drill)
    /\ WF_drillVars(PodGone(s) /\ UNCHANGED drill)
    /\ \A c \in Clusters :
         /\ WF_drillVars(FluxDb(s, c) /\ UNCHANGED drill)
         /\ WF_drillVars(Replay(s, c) /\ UNCHANGED drill)
         /\ WF_drillVars(Demote(s, c) /\ UNCHANGED drill)
         /\ WF_drillVars(Promote(s, c) /\ UNCHANGED drill)

FairDrilledSpec == DrilledSpec /\ DrilledFairness

-----------------------------------------------------------------------------
\* "It skips an app with site-overrides here (a switchover under way)"
\* (multi-site.md; restore_drill.py says the same): no drill's Restore goes on in
\* a PVC while its app's workloads run on it.
DrillSparesRunningApp == \A s \in Sites, p \in Pvcs : <<s, p>> \in orphans => ~live(s)

=============================================================================
