------------------------ MODULE StandbyRestoreProofs ------------------------
(* Theorems about StandbyRestore: the weekly drill next to the tool, for every *)
(* set of Postgres clusters and PVCs.                                          *)
EXTENDS StandbyRestore, SiteFailoverProofs

USE DEF Goto, KeepEnv, envVars, toolVars

RollbackSteps == {"rollback", "rollbackKs", "rollbackWait"}

\* No cluster-settings change while a switchover is under way.
SettingsLevel == pc \in SwitchSteps => \A s \in Sites : settings[s] = gitHome

\* A site without overrides does what git says, and is off unless git names it.
Unkeyed ==
  \A s \in Sites : ov[s] = NoKeys =>
    settings[s] = gitHome /\ (gitHome # s => ~MayRun(s))

\* A Restore nobody waits for goes on where the app is off and stays off; while it
\* does, no switchover is under way but the rollback of the one that left it.
OrphanPlace ==
  /\ \A s \in Sites, p \in Pvcs : <<s, p>> \in orphans => ~MayRun(s)
  /\ orphans # {} => pc \in {"idle"} \cup ClearSteps \cup RollbackSteps
  /\ pc \in RollbackSteps => \A s \in Sites, p \in Pvcs : <<s, p>> \in orphans => s = new

\* What the drill has looked at is still so when it goes on.
DrillPlace ==
  \A s \in Sites :
    /\ drill[s].step # "idle" => pc = "idle"
    /\ drill[s].step = "overrides" /\ ov[s] = NoKeys => gitHome # s
    /\ drill[s].step = "post" => ov[s] = NoKeys /\ gitHome # s

Apart == DrillTypeOK /\ SettingsLevel /\ Unkeyed /\ OrphanPlace /\ DrillPlace
QInv == IInv /\ Apart /\ StraysRead

\* An app of the drill's list, none of which is prebound (standby-restore/app/cronjob.yaml),
\* and the drill apart from the tool; a Restore the tool gave up on is over before the
\* operator starts a switchover, and no failed read passes an app for stopped.
Calm == Planned /\ ~Prebind /\ Quiet /\ Faults \cap {"lateRestore", "unread"} = {}

-----------------------------------------------------------------------------
(* The drill and the placement                                              *)

\* It changes nothing the placement depends on.
LEMMA DrillKeeps ==
  ASSUME DrillNext
  PROVE  /\ UNCHANGED <<gitHome, settings, ov, desired, pod, dbspec, role, tokenOut, holds>>
         /\ UNCHANGED <<strays, spoilt, pc, src, left, cur, fixForward>>
  BY DEF DrillNext, DrillDeployment, DrillOverrides, DrillPost, DrillOver, vars

LEMMA InvDrill ==
  ASSUME IInv, DrillNext, \A s \in Sites : drill[s].step = "post" => drill[s].pvc \in Pvcs
  PROVE  IInv'
<1>1. orphans' \subseteq Sites \X Pvcs
  <2>1. CASE UNCHANGED orphans
    BY <2>1 DEF IInv, TypeOK
  <2>2. ASSUME NEW s \in Sites, DrillPost(s) PROVE orphans' \subseteq Sites \X Pvcs
    BY <2>2 DEF DrillPost, IInv, TypeOK
  <2> QED BY <2>1, <2>2 DEF DrillNext, DrillDeployment, DrillOverrides, DrillOver, vars
<1> USE DrillKeeps DEF IInv
<1>2. TypeOK'
  BY <1>1 DEF TypeOK
<1>3. Exclusive' /\ NewSiteOff'
  BY DEF Exclusive, NewSiteOff, NewOff, MayRun, MayLead, runs, live, InRecovery, new
<1>4. OldSiteStopped' /\ OldSiteDemoted' /\ ClearInPlace' /\ PrebindPlace'
  BY DEF OldSiteStopped, runs, live, OldSiteDemoted, ClearInPlace, PrebindPlace, InRecovery,
     EffReplicas, EffPrimary, new
<1>5. RunsAsTold'
  BY DEF RunsAsTold, Told, MayRun, runs, live, new
<1> QED BY <1>2, <1>3, <1>4, <1>5

LEMMA DrillType ==
  ASSUME DrillTypeOK, [DrilledNext]_drillVars
  PROVE  DrillTypeOK'
<1>1. ASSUME NEW s \in Sites, NEW st \in {"overrides", "post", "wait"}, NEW p \in Pvcs,
             DrillGoes(s, st, p)
      PROVE  DrillTypeOK'
  BY <1>1 DEF DrillTypeOK, DrillGoes
<1>2. ASSUME NEW s \in Sites, drill[s].step # "idle" PROVE drill[s].pvc \in Pvcs
  BY <1>2 DEF DrillTypeOK, NoDrill
<1>3. CASE UNCHANGED drill
  BY <1>3 DEF DrillTypeOK
<1>4. ASSUME NEW s \in Sites, drill' = [drill EXCEPT ![s] = NoDrill] PROVE DrillTypeOK'
  BY <1>4 DEF DrillTypeOK
<1>5. CASE DrillNext
  <2>1. ASSUME NEW s \in Sites, NEW p \in Pvcs, DrillDeployment(s, p) PROVE DrillTypeOK'
    BY <1>1, <2>1 DEF DrillDeployment
  <2>2. ASSUME NEW s \in Sites, DrillOverrides(s) \/ DrillPost(s) \/ DrillOver(s)
        PROVE  DrillTypeOK'
    BY <1>1, <1>2, <1>4, <2>2 DEF DrillOverrides, DrillPost, DrillOver
  <2> QED BY <1>5, <2>1, <2>2 DEF DrillNext
<1> QED BY <1>3, <1>5 DEF DrilledNext, FailoverNext, drillVars

LEMMA DrillPvc ==
  ASSUME DrillTypeOK
  PROVE  \A s \in Sites : drill[s].step # "idle" => drill[s].pvc \in Pvcs
  BY DEF DrillTypeOK, NoDrill

\* The drill breaks neither of the tool's promises: quiet or not, the app's workloads
\* never run at both sites (but for those a failed read took for stopped, as without
\* the drill), and none of its clusters is a primary at both.
THEOREM DrillKeepsPlacementCorrect ==
  ASSUME Planned PROVE DrilledSpec => [](OneRunner /\ OnePrimary)
<1>1. DrillInit => IInv /\ DrillTypeOK
  BY InvInit DEF DrillInit, DrillTypeOK
<1>2. IInv /\ DrillTypeOK /\ [DrilledNext]_drillVars => (IInv /\ DrillTypeOK)'
  <2> SUFFICES ASSUME IInv, DrillTypeOK, [DrilledNext]_drillVars PROVE IInv'
    BY DrillType
  <2>1. CASE DrillNext
    BY <2>1, InvDrill, DrillPvc
  <2>2. CASE [Next]_vars
    BY <2>2, InvNext
  <2> QED BY <2>1, <2>2 DEF DrilledNext, FailoverNext, drillVars
<1>3. IInv => OneRunner /\ OnePrimary
  BY InvImplies
<1> QED BY <1>1, <1>2, <1>3, PTL DEF DrilledSpec

-----------------------------------------------------------------------------
(* The drill spares what runs                                               *)

LEMMA QuietInit == ASSUME Calm, DrillInit PROVE QInv
<1>1. IInv
  BY InvInit DEF Calm, DrillInit
<1>2. PICK home \in Sites : Init!(home)
  BY DEF DrillInit, Init
<1>3. \A s \in Sites \ {home} : ~MayRun(s)
  BY <1>2, SitesTwo DEF MayRun, runs, live, NoKeys
<1>4. DrillTypeOK /\ DrillPlace
  BY DEF DrillInit, DrillTypeOK, DrillPlace, NoDrill
<1> QED
  BY <1>1, <1>2, <1>3, <1>4, StraysInit DEF QInv, Apart, SettingsLevel, Unkeyed, OrphanPlace,
     SwitchSteps, RollbackSteps, DrillInit

\* Steps that tell no site anything new.
LEMMA ApartKept ==
  ASSUME QInv, Shrinks, UNCHANGED <<gitHome, ov, drill>>, DrillTypeOK', SettingsLevel',
         \A s \in Sites : settings'[s] = settings[s] \/ settings'[s] = gitHome,
         orphans' \subseteq orphans,
         orphans # {} => pc' \in {"idle"} \cup ClearSteps \cup RollbackSteps,
         pc' \in RollbackSteps => pc \in RollbackSteps /\ src' = src,
         \A s \in Sites : drill[s].step # "idle" => pc' = "idle"
  PROVE  Apart'
<1> USE DEF QInv, Apart
<1>1. Unkeyed'
  BY DEF Unkeyed, Shrinks
<1>2. OrphanPlace'
  BY DEF OrphanPlace, Shrinks, new
<1>3. DrillPlace'
  BY DEF DrillPlace
<1> QED BY <1>1, <1>2, <1>3

LEMMA QuietEnv == ASSUME Calm, QInv, EnvNext, UNCHANGED drill PROVE Apart'
<1> USE DEF QInv, Apart
<1>1. UNCHANGED <<ov, pc, src>> /\ orphans' \subseteq orphans
  BY EnvKeeps
<1>2. Shrinks /\ DrillTypeOK'
  BY EnvShrinks DEF Calm, DrillTypeOK
<1>3. ASSUME NEW h \in Sites, MakePermanent(h) PROVE Apart'
  <2>1. /\ pc = "idle" /\ gitHome' = h /\ UNCHANGED <<settings, orphans>>
        /\ EffReplicas(h) = "1" /\ EffReplicas(Other(h)) = "0"
    BY <1>3 DEF MakePermanent, RunsOnlyAt
  <2>2. ASSUME NEW s \in Sites, ov[s] = NoKeys PROVE gitHome = h
    <3>1. ov[s].replicas = Unset
      BY <2>2 DEF NoKeys
    <3>2. s = h => settings[s] = s
      BY <2>1, <3>1 DEF EffReplicas
    <3>3. s = Other(h) => settings[s] # s
      BY <2>1, <3>1 DEF EffReplicas
    <3>4. settings[s] = h
      BY <3>2, <3>3, SitesTwo DEF TypeOK, IInv
    <3> QED BY <2>2, <3>4 DEF Unkeyed
  <2>3. Unkeyed'
    BY <1>1, <1>2, <2>1, <2>2 DEF Unkeyed, Shrinks
  <2>4. OrphanPlace' /\ SettingsLevel'
    BY <1>1, <1>2, <2>1 DEF OrphanPlace, Shrinks, SettingsLevel, SwitchSteps, new
  <2>5. DrillPlace'
    BY <1>1, <2>1, <2>2 DEF DrillPlace
  <2> QED BY <1>2, <2>3, <2>4, <2>5
<1>4. CASE ~\E s \in Sites : MakePermanent(s)
  <2>1. gitHome' = gitHome
    BY <1>4, EnvKeeps
  <2>2. \A s \in Sites : settings'[s] = settings[s] \/ settings'[s] = gitHome
    BY EnvKeeps DEF IInv, TypeOK
  <2>3. SettingsLevel'
    BY <1>1, <2>1, <2>2 DEF SettingsLevel
  <2> QED BY <1>1, <1>2, <2>1, <2>2, <2>3, ApartKept DEF OrphanPlace, DrillPlace
<1> QED BY <1>3, <1>4

-----------------------------------------------------------------------------
(* The tool                                                                 *)

\* It is under way, or none of the drills is.
LEMMA ToolAlone ==
  ASSUME Calm, QInv, ToolNext, FailoverNext, pc # "idle" \/ Starts
  PROVE  \A s \in Sites : drill[s].step = "idle"
  BY DEF Calm, QInv, Apart, DrillPlace, FailoverNext, NoDrill

LEMMA AloneApart ==
  ASSUME \A s \in Sites : drill[s].step = "idle", UNCHANGED drill, DrillTypeOK
  PROVE  DrillPlace' /\ DrillTypeOK'
  BY DEF DrillPlace, DrillTypeOK

\* Steps that only move the tool, and those at whose end a Restore is left.
LEMMA QuietKept ==
  ASSUME Calm, QInv, SitesKept, UNCHANGED drill, \A s \in Sites : drill[s].step = "idle",
         \/ Aborted \/ Stopped \/ Snapshotted \/ Restored \/ CopyFails \/ RolledBack
         \/ Copied \/ PrimarySeen \/ Switched \/ TimesOut \/ KubectlFails \/ Crash
         \/ \E p \in Pvcs : CopyPvc(p)
         \/ \E c \in Clusters : TokenRead(c)
  PROVE  Apart'
<1> USE DEF QInv, Apart
<1>1. src' = src /\ src \in Sites
  BY DEF Aborted, Stopped, Snapshotted, Restored, CopyFails, RolledBack, Copied, TokenRead,
     PrimarySeen, Switched, TimesOut, KubectlFails, Crash, CopyPvc, IInv, TypeOK
<1>2. \/ pc' = "idle"
      \/ pc \in SwitchSteps /\ pc' \in SwitchSteps \ RollbackSteps /\ pc \notin RollbackSteps
      \/ pc \in {"snapshot", "restore"} /\ pc' = "rollback"
  BY DEF Aborted, Stopped, Snapshotted, Restored, CopyFails, RolledBack, Copied, TokenRead,
     PrimarySeen, Switched, TimesOut, KubectlFails, Crash, CopyPvc, SwitchSteps, RollbackSteps,
     IInv, PrebindPlace, PrebindSteps, Calm
<1>3. \/ orphans' = orphans
      \/ /\ pc = "restore" /\ pc' \in {"idle", "rollback"}
         /\ \E p \in Pvcs : orphans' = orphans \cup {<<new, p>>}
  BY DEF Aborted, Stopped, Snapshotted, Restored, CopyFails, RolledBack, Copied, TokenRead,
     PrimarySeen, Switched, TimesOut, KubectlFails, Crash, CopyPvc, LeaveRestore, TakenForStopped,
     IInv, TypeOK
<1>4. pc \in {"snapshot", "restore"} => ~MayRun(new) /\ orphans = {}
  BY DEF IInv, NewSiteOff, NewOff, PrebindEnds, BeforePromotion, OrphanPlace, ClearSteps,
     RollbackSteps, Calm
<1>5. \A s \in Sites : MayRun(s)' => MayRun(s)
  BY DEF SitesKept, MayRun, runs, live
<1>6. OrphanPlace'
  BY <1>1, <1>2, <1>3, <1>4, <1>5 DEF OrphanPlace, new, SwitchSteps, ClearSteps, RollbackSteps
<1>7. Unkeyed' /\ SettingsLevel'
  BY <1>2, <1>5 DEF Unkeyed, SettingsLevel, SitesKept, SwitchSteps
<1> QED BY <1>6, <1>7, AloneApart

LEMMA QuietStarts ==
  ASSUME Calm, QInv, UNCHANGED drill, \A s \in Sites : drill[s].step = "idle",
         Clear \/ \E s \in Sites : Preflight(s)
  PROVE  Apart'
<1> USE DEF QInv, Apart
<1>1. /\ SitesKept /\ pc = "idle" /\ UNCHANGED orphans
      /\ \/ pc' = "clear"
         \/ pc' = "confirm" /\ orphans = {} /\ \A s \in Sites : settings[s] = gitHome
  BY DEF Clear, Preflight, SitesKept, OperatorStarts, Calm, Planned
<1>2. \A s \in Sites : MayRun(s)' => MayRun(s)
  BY <1>1 DEF SitesKept, MayRun, runs, live
<1>3. Unkeyed' /\ SettingsLevel' /\ OrphanPlace'
  BY <1>1, <1>2 DEF Unkeyed, SettingsLevel, SitesKept, SwitchSteps, OrphanPlace, ClearSteps,
     RollbackSteps
<1> QED BY <1>3, AloneApart

\* The keys of one site are written in a switchover.
LEMMA QuietKeys ==
  ASSUME Calm, QInv, UNCHANGED drill, \A s \in Sites : drill[s].step = "idle",
         StopOld \/ Rollback \/ DemoteOld \/ PromoteNew
  PROVE  Apart'
<1> USE DEF QInv, Apart
<1>0. PICK o \in Sites, n \in Sites : o = src /\ n = new /\ n # o
  BY SitesTwo DEF IInv, TypeOK, new
<1>1. /\ UNCHANGED <<gitHome, settings, desired, pod, strays, src, orphans>>
      /\ pc \in SwitchSteps /\ pc' \in SwitchSteps
  BY DEF StopOld, Rollback, DemoteOld, PromoteNew, SwitchSteps
<1>2. SettingsLevel'
  BY <1>1 DEF SettingsLevel
<1>3. CASE Rollback
  <2>0. ov' = [ov EXCEPT ![o] = NoKeys]
    BY <1>0, <1>3, SetOverridesIs DEF Rollback, Calm
  <2>1. /\ ov'[n] = ov[n] /\ ov'[o] = NoKeys /\ \A s \in Sites : s = o \/ s = n
        /\ pc = "rollback" /\ pc' = "rollbackKs"
    BY <1>0, <1>3, <2>0, SitesTwo DEF Rollback, IInv, TypeOK
  <2>2. MayRun(n)' => MayRun(n)
    BY <1>1, <2>1 DEF MayRun, runs, live
  <2>3. settings[o] = gitHome /\ desired[o] = "0" /\ ~runs(o)
    BY <1>0, <2>1 DEF SettingsLevel, SwitchSteps, IInv, OldSiteStopped
  <2>4. gitHome # o => ~MayRun(o)'
    BY <1>1, <2>1, <2>3, SitesTwo DEF MayRun, runs, live, NoKeys
  <2>5. Unkeyed'
    BY <1>1, <2>1, <2>2, <2>3, <2>4 DEF Unkeyed
  <2>6. OrphanPlace'
    BY <1>0, <1>1, <2>1, <2>2 DEF OrphanPlace, RollbackSteps, new
  <2> QED BY <1>2, <2>5, <2>6, AloneApart
<1>4. CASE StopOld \/ DemoteOld \/ PromoteNew
  <2>1. PICK k \in Sites : /\ ov'[k].replicas \in {"0", "1"}
                           /\ \A s \in Sites \ {k} : ov'[s] = ov[s]
    <3>1. /\ ReplicasKey("0").replicas = "0" /\ ReplicasKey("1").replicas = "1"
          /\ [ReplicasKey("0") EXCEPT !.primary = n].replicas = "0"
          /\ [replicas |-> "1", primary |-> n, tokens |-> Clusters].replicas = "1"
      BY DEF ReplicasKey, NoKeys
    <3>2. PICK k \in Sites : \E v :
            ov' = [ov EXCEPT ![k] = v] /\ v.replicas \in {"0", "1"}
      <4>0. PICK k \in Sites : \E v : SetOverrides(k, v) /\ v.replicas \in {"0", "1"}
        <5>1. CASE StopOld
          BY <1>0, <3>1, <5>1 DEF StopOld
        <5>2. CASE DemoteOld
          BY <1>0, <3>1, <5>2 DEF DemoteOld
        <5>3. CASE PromoteNew
          BY <1>0, <3>1, <5>3 DEF PromoteNew
        <5> QED BY <1>4, <5>1, <5>2, <5>3
      <4> QED BY <4>0, SetOverridesIs DEF Calm
    <3> QED BY <3>2 DEF IInv, TypeOK
  <2>2. ov'[k] # NoKeys
    BY <2>1, SitesTwo DEF NoKeys
  <2>3. \A s \in Sites \ {k} : MayRun(s)' => MayRun(s)
    BY <1>1, <2>1 DEF MayRun, runs, live
  <2>4. orphans = {} /\ pc' \notin RollbackSteps
    BY <1>4 DEF StopOld, DemoteOld, PromoteNew, OrphanPlace, ClearSteps, RollbackSteps
  <2>5. Unkeyed'
    BY <1>1, <2>1, <2>2, <2>3 DEF Unkeyed
  <2>6. OrphanPlace'
    BY <1>1, <2>4 DEF OrphanPlace
  <2> QED BY <1>2, <2>5, <2>6, AloneApart
<1> QED BY <1>3, <1>4

\* Flux applies what it is told, at the tool's bidding.
LEMMA QuietReconcile ==
  ASSUME Calm, QInv, UNCHANGED drill, \A s \in Sites : drill[s].step = "idle", TypeOK',
         AppReconcile \/ DbReconcile \/ NothingToClear \/ ClearConfirmed \/ ClearGit \/ ClearReconcile
  PROVE  Apart'
<1> USE DEF QInv, Apart
<1>1. Shrinks
  BY InvAppReconcile, InvDbReconcile, InvClearSteps, InvClearReconcile DEF Calm
<1>2. /\ UNCHANGED <<gitHome, ov, orphans>>
      /\ \A s \in Sites : settings'[s] = settings[s] \/ settings'[s] = gitHome
  BY DEF AppReconcile, DbReconcile, NothingToClear, ClearConfirmed, ClearGit, ClearReconcile,
     IInv, TypeOK
<1>3. \/ pc \in SwitchSteps \ RollbackSteps /\ pc' \in SwitchSteps \ RollbackSteps
      \/ pc \in RollbackSteps /\ pc' \in RollbackSteps /\ src' = src
      \/ pc \in ClearSteps /\ pc' \in ClearSteps \cup {"idle"}
  BY DEF AppReconcile, AppReconciles, DbReconcile, DbReconciles, NothingToClear, ClearConfirmed,
     ClearGit, ClearReconcile, NextSite, SwitchSteps, ClearSteps, RollbackSteps
<1>4. pc \in SwitchSteps \ RollbackSteps => orphans = {}
  BY DEF OrphanPlace, SwitchSteps, ClearSteps, RollbackSteps
<1>5. SettingsLevel'
  BY <1>2, <1>3 DEF SettingsLevel, SwitchSteps, ClearSteps, RollbackSteps
<1>6. orphans # {} => pc' \in {"idle"} \cup ClearSteps \cup RollbackSteps
  BY <1>3, <1>4
<1>7. pc' \in RollbackSteps => pc \in RollbackSteps /\ src' = src
  BY <1>3 DEF SwitchSteps, ClearSteps, RollbackSteps
<1> QED BY <1>1, <1>2, <1>5, <1>6, <1>7, AloneApart, ApartKept

LEMMA QuietClearKeys ==
  ASSUME Calm, QInv, UNCHANGED drill, \A s \in Sites : drill[s].step = "idle", TypeOK', ClearKeys
  PROVE  Apart'
<1> USE DEF QInv, Apart, ClearKeys
<1>0. PICK k \in Sites : k = src
  BY DEF IInv, TypeOK
<1>a. ov' = [ov EXCEPT ![k] = NoKeys]
  BY <1>0, SetOverridesIs DEF Calm
<1>1. /\ UNCHANGED <<gitHome, settings, desired, pod, orphans>>
      /\ pc = "clearKeys" /\ pc' = "clearKs"
      /\ \A s \in Sites \ {k} : ov'[s] = ov[s]
  BY <1>0, <1>a DEF IInv, TypeOK
<1>2. Shrinks
  BY InvClearKeys DEF Calm
<1>3. settings[k] = gitHome /\ \A s \in Sites : s # gitHome => ~MayRun(s)
  <2>1. PICK h \in Sites : h = gitHome
    BY DEF IInv, TypeOK
  <2>2. MayRun(h)
    BY <1>1, <2>1, EffMeansMay DEF IInv, ClearInPlace, ClearSteps
  <2>3. \A s \in Sites : s # h => ~MayRun(s)
    BY <2>2, SitesTwo DEF IInv, Exclusive, Sites
  <2> QED BY <1>0, <1>1, <2>1, <2>3 DEF IInv, ClearInPlace
<1>4. Unkeyed'
  BY <1>1, <1>2, <1>3 DEF Unkeyed, Shrinks
<1>5. OrphanPlace' /\ SettingsLevel'
  BY <1>1, <1>2 DEF OrphanPlace, Shrinks, SettingsLevel, SwitchSteps, ClearSteps, RollbackSteps
<1> QED BY <1>4, <1>5, AloneApart

LEMMA QuietTool == ASSUME Calm, QInv, FailoverNext, ToolNext PROVE Apart'
<1>0. UNCHANGED drill /\ Planned /\ ~Prebind /\ IInv
  BY DEF FailoverNext, Calm, QInv
<1>1. TypeOK'
  BY <1>0, TypeTool DEF IInv
<1>2. pc # "idle" \/ Starts
  <2>1. CASE pc = "idle"
    <3>1. Clear \/ \E s \in Sites : Preflight(s)
      BY <2>1
      DEF ToolNext, Aborted, StopOld, AppReconcile, AppReconciles, Stopped, PrebindOn,
          PrebindBound, PrebindOff, PrebindStopped, CopyPvc, Snapshotted, Restored, CopyFails,
          PrebindSteps, Rollback, RolledBack, Copied, DemoteOld, DbReconcile, DbReconciles,
          TokenRead, PromoteNew, PrimarySeen, Switched, TimesOut, KubectlFails, CopySteps, Crash,
          NothingToClear, ClearConfirmed, ClearGit, ClearKeys, ClearReconcile
    <3> QED BY <2>1, <3>1 DEF Starts, Clear, Preflight
  <2> QED BY <2>1
<1>3. \A s \in Sites : drill[s].step = "idle"
  BY <1>2, ToolAlone
<1>4. ~(PrebindOn \/ PrebindBound \/ PrebindOff \/ PrebindStopped)
  BY <1>0 DEF IInv, PrebindPlace, PrebindSteps, PrebindOn, PrebindBound, PrebindOff, PrebindStopped
<1>5. \/ Aborted \/ Stopped \/ Snapshotted \/ Restored \/ CopyFails \/ RolledBack
      \/ Copied \/ PrimarySeen \/ Switched \/ TimesOut \/ KubectlFails \/ Crash
      \/ \E p \in Pvcs : CopyPvc(p)
      \/ \E c \in Clusters : TokenRead(c)
      => SitesKept
  BY DEF SitesKept, Aborted, Stopped, Snapshotted, Restored, CopyFails, RolledBack, Copied,
       PrimarySeen, Switched, TimesOut, KubectlFails, Crash, CopyPvc, LeaveRestore, TokenRead,
       TakenForStopped
<1> QED
  BY <1>0, <1>1, <1>3, <1>4, <1>5, QuietKept, QuietStarts, QuietKeys, QuietReconcile, QuietClearKeys
  DEF ToolNext

-----------------------------------------------------------------------------
(* The drill                                                                *)

LEMMA QuietDrill == ASSUME Calm, QInv, DrillNext PROVE Apart'
<1> USE DEF QInv, Apart
<1>0. DrillTypeOK' /\ (\A s \in Sites : drill[s].step # "idle" => drill[s].pvc \in Pvcs)
  BY DrillType, DrillPvc DEF DrilledNext
<1>1. /\ UNCHANGED <<gitHome, settings, ov, pc, src>>
      /\ \A s \in Sites : MayRun(s)' => MayRun(s)
  BY DrillKeeps DEF MayRun, runs, live
<1>2. SettingsLevel' /\ Unkeyed'
  BY <1>1 DEF SettingsLevel, Unkeyed
<1>3. ASSUME UNCHANGED orphans PROVE OrphanPlace'
  BY <1>1, <1>3 DEF OrphanPlace, new
<1>4. ASSUME NEW s \in Sites, NEW p \in Pvcs, DrillDeployment(s, p) PROVE Apart'
  <2>1. /\ drill'[s] = [step |-> "overrides", pvc |-> p]
        /\ \A t \in Sites \ {s} : drill'[t] = drill[t]
        /\ UNCHANGED orphans
    BY <1>4 DEF DrillDeployment, DrillGoes, DrillTypeOK, vars
  <2>2. pc = "idle" /\ EffReplicas(s) = "0"
    BY <1>4 DEF DrillDeployment, Calm, Settled
  <2>3. ov[s] = NoKeys => gitHome # s
    BY <2>2, SitesTwo DEF Unkeyed, EffReplicas, NoKeys
  <2>4. DrillPlace'
    BY <1>1, <2>1, <2>2, <2>3 DEF DrillPlace
  <2> QED BY <1>0, <1>2, <1>3, <2>1, <2>4
<1>5. ASSUME NEW s \in Sites, DrillOverrides(s) PROVE Apart'
  <2>1. /\ drill[s].step = "overrides" /\ UNCHANGED orphans
        /\ drill'[s].step \in {"post", "idle"} /\ (drill'[s].step = "post" => ov[s] = NoKeys)
        /\ \A t \in Sites \ {s} : drill'[t] = drill[t]
    BY <1>5 DEF DrillOverrides, DrillGoes, DrillTypeOK, NoDrill, vars
  <2>2. DrillPlace'
    BY <1>1, <2>1 DEF DrillPlace
  <2> QED BY <1>0, <1>2, <1>3, <2>1, <2>2
<1>6. ASSUME NEW s \in Sites, DrillPost(s) PROVE Apart'
  <2>1. /\ drill[s].step = "post" /\ orphans' = orphans \cup {<<s, drill[s].pvc>>}
        /\ drill'[s].step = "wait"
        /\ \A t \in Sites \ {s} : drill'[t] = drill[t]
    BY <1>6 DEF DrillPost, DrillGoes, DrillTypeOK
  <2>2. pc = "idle" /\ ~MayRun(s)
    BY <2>1 DEF DrillPlace, Unkeyed
  <2>3. OrphanPlace'
    BY <1>1, <2>1, <2>2 DEF OrphanPlace, RollbackSteps
  <2>4. DrillPlace'
    BY <1>1, <2>1, <2>2 DEF DrillPlace
  <2> QED BY <1>0, <1>2, <2>3, <2>4
<1>7. ASSUME NEW s \in Sites, DrillOver(s) PROVE Apart'
  <2>1. /\ UNCHANGED orphans /\ drill'[s].step = "idle"
        /\ \A t \in Sites \ {s} : drill'[t] = drill[t]
    BY <1>7 DEF DrillOver, DrillTypeOK, NoDrill, vars
  <2>2. DrillPlace'
    BY <1>1, <2>1 DEF DrillPlace
  <2> QED BY <1>0, <1>2, <1>3, <2>1, <2>2
<1> QED BY <1>4, <1>5, <1>6, <1>7 DEF DrillNext

LEMMA StraysDrill == ASSUME StraysRead, DrillNext PROVE StraysRead'
  BY DrillKeeps DEF StraysRead

LEMMA QuietNext == ASSUME Calm, QInv, [DrilledNext]_drillVars PROVE QInv'
<1>1. CASE UNCHANGED drillVars
  <2>1. IInv'
    BY <1>1, InvNext DEF QInv, Calm, drillVars
  <2>2. Apart'
    BY <1>1 DEF QInv, Apart, drillVars, vars, DrillTypeOK, SettingsLevel, Unkeyed, OrphanPlace,
       DrillPlace, MayRun, runs, live, new
  <2>3. StraysRead'
    BY <1>1, StraysNext DEF QInv, drillVars
  <2> QED BY <2>1, <2>2, <2>3 DEF QInv
<1>2. CASE DrillNext
  BY <1>2, InvDrill, DrillPvc, QuietDrill, StraysDrill DEF QInv, Apart
<1>3. CASE FailoverNext
  <2>1. IInv'
    BY <1>3, InvNext DEF QInv, Calm, FailoverNext
  <2>2. Apart'
    BY <1>3, QuietEnv, QuietTool DEF FailoverNext, Next
  <2>3. StraysRead'
    BY <1>3, StraysNext DEF QInv, FailoverNext
  <2> QED BY <2>1, <2>2, <2>3 DEF QInv
<1> QED BY <1>1, <1>2, <1>3 DEF DrilledNext

\* "It skips an app with site-overrides here (a switchover under way)": where the
\* drill and the tool keep apart, no Restore of either goes on in a PVC while the
\* app's workloads run on it, for any number of PVCs and Postgres clusters, wherever
\* the tool dies, and even if an operator moves the app the wrong way or clears early.
THEOREM DrillSparesRunningAppCorrect ==
  ASSUME Calm PROVE DrilledSpec => []DrillSparesRunningApp
<1>1. QInv => DrillSparesRunningApp
  BY DEF QInv, Apart, OrphanPlace, DrillSparesRunningApp, MayRun, runs, StraysRead, Calm
<1>2. DrillInit => QInv
  BY QuietInit
<1>3. QInv /\ [DrilledNext]_drillVars => QInv'
  BY QuietNext
<1> QED BY <1>1, <1>2, <1>3, PTL DEF DrilledSpec
=============================================================================
