------------------------- MODULE SiteFailoverProofs -------------------------
(* Theorems about SiteFailover, for every set of Postgres clusters and PVCs. *)
EXTENDS SiteFailover, TLAPS

USE DEF Goto, KeepEnv, envVars, toolVars

LEMMA OtherSite == ASSUME NEW s \in Sites PROVE Other(s) \in Sites
  BY DEF Sites, Other

LEMMA KeysType ==
  /\ NoKeys \in Keys
  /\ \A r \in {"0", "1"} : ReplicasKey(r) \in Keys
  /\ \A r \in {"0", "1"}, s \in Sites, t \in SUBSET Clusters :
       [replicas |-> r, primary |-> s, tokens |-> t] \in Keys
  BY DEF NoKeys, ReplicasKey, Keys

LEMMA TypeInit == Init => TypeOK
<1> SUFFICES ASSUME Init PROVE TypeOK
  OBVIOUS
<1>1. PICK home \in Sites : Init!(home)
  BY DEF Init
<1>2. ov \in [Sites -> Keys]
  BY <1>1, KeysType
<1>3. dbspec \in [Sites -> [Clusters -> [primary : Sites, token : BOOLEAN]]]
  BY <1>1
<1>4. role \in [Sites -> [Clusters -> {"primary", "replica"}]]
  BY <1>1
<1>5. holds \in [Data -> SUBSET Copies]
  BY <1>1 DEF Copies
<1>6. /\ gitHome \in Sites /\ settings \in [Sites -> Sites]
      /\ desired \in [Sites -> {"0", "1"}]
      /\ pod \in [Sites -> {"none", "running", "lingering"}]
  BY <1>1
<1>7. /\ tokenOut \in [Sites -> SUBSET Clusters] /\ orphans \subseteq Sites \X Pvcs
      /\ strays \subseteq Sites /\ spoilt \subseteq Pvcs
  BY <1>1
<1>8. /\ pc \in {"idle"} /\ src \in Sites /\ left \subseteq Data
      /\ cur = Unset /\ pc \notin {"snapshot", "restore"} /\ fixForward \in BOOLEAN
  BY <1>1
<1> QED BY <1>2, <1>3, <1>4, <1>5, <1>6, <1>7, <1>8 DEF TypeOK

LEMMA HoldsType ==
  ASSUME TypeOK, NEW d \in Data, NEW x \in SUBSET Copies, SetHolds(d, x), spoilt' \subseteq Pvcs
  PROVE  TypeOK'
<1>1. holds' \in [Data -> SUBSET Copies]
  BY DEF SetHolds, TypeOK
<1> QED BY <1>1 DEF SetHolds, TypeOK

LEMMA WrittenType ==
  ASSUME TypeOK, NEW s \in Sites, NEW d \in Data
  PROVE  WrittenAt(s, d) \in SUBSET Copies
  BY DEF WrittenAt, TypeOK, Copies

LEMMA TypeEnv == TypeOK /\ EnvNext => TypeOK'
<1> SUFFICES ASSUME TypeOK, EnvNext PROVE TypeOK'
  OBVIOUS
<1>1. PICK s \in Sites :
        \/ FluxSettings(s) \/ FluxApp(s) \/ PodStart(s) \/ PodStop(s) \/ PodGone(s)
        \/ MakePermanent(s)
        \/ \E c \in Clusters : FluxDb(s, c) \/ WriteDb(s, c) \/ Replay(s, c)
                               \/ Demote(s, c) \/ Promote(s, c)
        \/ \E p \in Pvcs : WritePvc(s, p) \/ OrphanEnds(s, p)
  BY DEF EnvNext
<1>2. CASE FluxSettings(s)
  BY <1>2 DEF FluxSettings, TypeOK
<1>3. CASE FluxApp(s)
  BY <1>3 DEF FluxApp, TypeOK, EffReplicas, Keys
<1>4. CASE PodStart(s) \/ PodStop(s) \/ PodGone(s)
  <2>1. PICK to \in {"none", "running", "lingering"} :
          /\ pod' = [pod EXCEPT ![s] = to]
          /\ strays' = IF to = "none" THEN strays \ {s} ELSE strays
    BY <1>4 DEF PodStart, PodStop, PodGone, SetPod
  <2>2. /\ UNCHANGED <<gitHome, settings, ov, desired, dbspec, role, tokenOut, holds, orphans, spoilt>>
        /\ UNCHANGED toolVars
    BY <1>4 DEF PodStart, PodStop, PodGone, SetPod
  <2>3. pod' \in [Sites -> {"none", "running", "lingering"}] /\ strays' \subseteq Sites
    BY <2>1 DEF TypeOK
  <2> QED BY <2>2, <2>3 DEF TypeOK
<1>5. CASE MakePermanent(s)
  BY <1>5 DEF MakePermanent, TypeOK
<1>6. ASSUME NEW c \in Clusters, FluxDb(s, c) PROVE TypeOK'
  <2>1. Applied(s, c) \in [primary : Sites, token : BOOLEAN]
    BY DEF Applied, EffPrimary, TypeOK, Keys
  <2> QED BY <1>6, <2>1 DEF FluxDb, TypeOK
<1>7. ASSUME NEW c \in Clusters, WriteDb(s, c) PROVE TypeOK'
  BY <1>7, WrittenType, HoldsType DEF WriteDb, Data, TypeOK
<1>8. ASSUME NEW c \in Clusters, Replay(s, c) PROVE TypeOK'
  <2>1. c \in Data /\ holds[c] \cup {s} \in SUBSET Copies
    BY DEF Data, TypeOK, Copies
  <2> QED BY <1>8, <2>1, HoldsType DEF Replay, TypeOK
<1>9. ASSUME NEW c \in Clusters, Demote(s, c) PROVE TypeOK'
  <2>1. holds' \in [Data -> SUBSET Copies]
    BY <1>9 DEF Demote, TypeOK, Copies, Data
  <2>2. role' \in [Sites -> [Clusters -> {"primary", "replica"}]]
    BY <1>9 DEF Demote, TypeOK
  <2>3. tokenOut' \in [Sites -> SUBSET Clusters]
    BY <1>9 DEF Demote, TypeOK
  <2> QED BY <1>9, <2>1, <2>2, <2>3 DEF Demote, TypeOK
<1>10. ASSUME NEW c \in Clusters, Promote(s, c) PROVE TypeOK'
  <2>1. role' \in [Sites -> [Clusters -> {"primary", "replica"}]]
    BY <1>10 DEF Promote, TypeOK
  <2>2. tokenOut' \in [Sites -> SUBSET Clusters]
    BY <1>10 DEF Promote, TypeOK
  <2> QED BY <1>10, <2>1, <2>2 DEF Promote, TypeOK
<1>11. ASSUME NEW p \in Pvcs, WritePvc(s, p) PROVE TypeOK'
  <2>1. spoilt' \subseteq Pvcs
    BY <1>11 DEF WritePvc, TypeOK
  <2> QED BY <1>11, <2>1, WrittenType, HoldsType DEF WritePvc, Data
<1>12. ASSUME NEW p \in Pvcs, OrphanEnds(s, p) PROVE TypeOK'
  <2>1. holds' \in [Data -> SUBSET Copies]
    BY <1>12 DEF OrphanEnds, TypeOK, Data
  <2> QED BY <1>12, <2>1 DEF OrphanEnds, TypeOK
<1> QED
  BY <1>1, <1>2, <1>3, <1>4, <1>5, <1>6, <1>7, <1>8, <1>9, <1>10, <1>11, <1>12

LEMMA SetOverridesType ==
  ASSUME TypeOK, NEW s \in Sites, NEW keys \in Keys, SetOverrides(s, keys)
  PROVE  ov' \in [Sites -> Keys]
  BY KeysType DEF SetOverrides, TypeOK

LEMMA ReconcileAppType ==
  ASSUME TypeOK, NEW s \in Sites, ReconcileApp(s)
  PROVE  desired' \in [Sites -> {"0", "1"}]
  BY DEF ReconcileApp, EffReplicas, TypeOK, Keys

LEMMA ReconcileDbType ==
  ASSUME TypeOK, NEW s \in Sites, ReconcileDb(s)
  PROVE  dbspec' \in [Sites -> [Clusters -> [primary : Sites, token : BOOLEAN]]]
<1>1. \A c \in Clusters : Applied(s, c) \in [primary : Sites, token : BOOLEAN]
  BY DEF Applied, EffPrimary, TypeOK, Keys
<1>2. PICK done : dbspec' = [dbspec EXCEPT ![s] =
         [c \in Clusters |-> IF c \in done THEN Applied(s, c) ELSE dbspec[s][c]]]
  BY DEF ReconcileDb
<1>3. [c \in Clusters |-> IF c \in done THEN Applied(s, c) ELSE dbspec[s][c]]
        \in [Clusters -> [primary : Sites, token : BOOLEAN]]
  BY <1>1 DEF TypeOK
<1> QED BY <1>2, <1>3 DEF TypeOK

LEMMA LeaveRestoreType ==
  ASSUME TypeOK, LeaveRestore
  PROVE  /\ holds' \in [Data -> SUBSET Copies]
         /\ orphans' \subseteq Sites \X Pvcs
         /\ cur' = Unset
<1>1. pc = "restore" => cur \in Pvcs /\ cur \in Data
  BY DEF TypeOK, Data
<1>2. holds' \in [Data -> SUBSET Copies]
  BY <1>1 DEF LeaveRestore, TypeOK
<1>3. pc = "restore" => <<new, cur>> \in Sites \X Pvcs
  BY <1>1, OtherSite DEF TypeOK, new
<1>4. orphans' \subseteq Sites \X Pvcs
  BY <1>3 DEF LeaveRestore, TypeOK
<1> QED BY <1>2, <1>4 DEF LeaveRestore

LEMMA TypeTool == TypeOK /\ ToolNext => TypeOK'
<1> SUFFICES ASSUME TypeOK, ToolNext PROVE TypeOK'
  OBVIOUS
<1> USE DEF SwitchSteps, ClearSteps
<1>0. new \in Sites /\ Wsl1 \in Sites /\ Wsl2 \in Sites
  BY OtherSite DEF TypeOK, new, Sites
<1>1. ASSUME NEW s \in Sites, Preflight(s) PROVE TypeOK'
  BY <1>1 DEF Preflight, TypeOK
<1>2. CASE Aborted
  BY <1>2 DEF Aborted, TypeOK
<1>3. CASE StopOld
  BY <1>3, KeysType, SetOverridesType DEF StopOld, TypeOK
<1>4. CASE AppReconcile
  BY <1>4, <1>0, ReconcileAppType DEF AppReconcile, AppReconciles, TypeOK
<1>5. CASE Stopped
  BY <1>5 DEF Stopped, TakenForStopped, TypeOK, Data
<1>6. CASE PrebindOn \/ PrebindOff
  BY <1>6, <1>0, KeysType, SetOverridesType DEF PrebindOn, PrebindOff, TypeOK
<1>7. CASE PrebindBound \/ PrebindStopped
  BY <1>0, <1>7 DEF PrebindBound, PrebindStopped, TakenForStopped, TypeOK
<1>8. ASSUME NEW p \in Pvcs, CopyPvc(p) PROVE TypeOK'
  BY <1>8 DEF CopyPvc, TypeOK
<1>9. CASE Snapshotted
  <2>1. holds' \in [Data -> SUBSET Copies]
    BY <1>9 DEF Snapshotted, TypeOK, Copies, Data
  <2> QED BY <1>9, <2>1 DEF Snapshotted, TypeOK
<1>10. CASE Restored
  <2>1. holds' \in [Data -> SUBSET Copies]
    BY <1>10, <1>0 DEF Restored, TypeOK, Copies, Data
  <2> QED BY <1>10, <2>1 DEF Restored, TypeOK
<1>11. CASE CopyFails
  BY <1>11, LeaveRestoreType DEF CopyFails, TypeOK
<1>12. CASE Rollback
  BY <1>12, KeysType, SetOverridesType DEF Rollback, TypeOK
<1>13. CASE RolledBack \/ Copied
  BY <1>13 DEF RolledBack, Copied, TypeOK
<1>14. CASE DemoteOld
  <2>1. [ReplicasKey("0") EXCEPT !.primary = new] \in Keys
    BY <1>0 DEF ReplicasKey, NoKeys, Keys
  <2> QED BY <1>14, <2>1, SetOverridesType DEF DemoteOld, TypeOK
<1>15. CASE DbReconcile
  <2>1. /\ DbReconciles[pc].site \in Sites
        /\ DbReconciles[pc].left \subseteq Data
        /\ DbReconciles[pc].then \in {"token", "primaryWait"}
    BY <1>15, <1>0 DEF DbReconcile, DbReconciles, TypeOK, Data
  <2>2. pc \in {"demoteKs", "promoteKs"}
    BY <1>15 DEF DbReconcile, DbReconciles
  <2>3. dbspec' \in [Sites -> [Clusters -> [primary : Sites, token : BOOLEAN]]]
    BY <1>15, <2>1, ReconcileDbType DEF DbReconcile
  <2> QED BY <1>15, <2>1, <2>2, <2>3 DEF DbReconcile, TypeOK
<1>16. ASSUME NEW c \in Clusters, TokenRead(c) PROVE TypeOK'
  BY <1>16 DEF TokenRead, TypeOK
<1>17. CASE PromoteNew
  BY <1>17, <1>0, KeysType, SetOverridesType DEF PromoteNew, TypeOK
<1>18. CASE PrimarySeen \/ Switched \/ TimesOut
  BY <1>18 DEF PrimarySeen, Switched, TimesOut, TypeOK
<1>19. CASE KubectlFails \/ Crash
  BY <1>19, LeaveRestoreType DEF KubectlFails, Crash, TypeOK
<1>20. CASE Clear \/ ClearConfirmed
  BY <1>20, <1>0 DEF Clear, ClearConfirmed, TypeOK
<1>21. CASE NothingToClear
  BY <1>21, <1>0 DEF NothingToClear, NextSite, TypeOK
<1>22. CASE ClearGit
  <2>1. settings' \in [Sites -> Sites]
    BY <1>22 DEF ClearGit, TypeOK
  <2>2. pc' = "clearKeys"
    BY <1>22 DEF ClearGit
  <2>3. cur = Unset
    BY <1>22 DEF ClearGit, TypeOK
  <2> QED BY <1>22, <2>1, <2>2, <2>3 DEF ClearGit, TypeOK
<1>23. CASE ClearKeys
  BY <1>23, KeysType, SetOverridesType DEF ClearKeys, TypeOK
<1>24. CASE ClearReconcile
  <2>1. dbspec' \in [Sites -> [Clusters -> [primary : Sites, token : BOOLEAN]]]
    BY <1>24, ReconcileDbType DEF ClearReconcile, TypeOK
  <2>2. desired' \in [Sites -> {"0", "1"}]
    BY <1>24, ReconcileAppType DEF ClearReconcile, TypeOK
  <2> QED BY <1>24, <2>1, <2>2, <1>0 DEF ClearReconcile, NextSite, TypeOK
<1> QED
  BY <1>1, <1>2, <1>3, <1>4, <1>5, <1>6, <1>7, <1>8, <1>9, <1>10, <1>11, <1>12, <1>13,
     <1>14, <1>15, <1>16, <1>17, <1>18, <1>19, <1>20, <1>21, <1>22, <1>23, <1>24
  DEF ToolNext

\* Every state of the failover has its type: no step of Flux, of a workload, of an
\* operator or of the tool, and no fault, leaves the tool with a PVC in hand
\* outside the copy, or with a site, a key or a token of another kind.
THEOREM TypeCorrect == Spec => []TypeOK
<1>1. TypeOK /\ UNCHANGED vars => TypeOK'
  BY DEF TypeOK, vars
<1>2. TypeOK /\ [Next]_vars => TypeOK'
  BY <1>1, TypeEnv, TypeTool DEF Next
<1> QED BY TypeInit, <1>2, PTL DEF Spec

-----------------------------------------------------------------------------
(* Why one site at a time: what a site may still do, whatever Flux does next *)

\* The app runs at s, and nobody has taken it for stopped.
runs(s) == live(s) /\ s \notin strays

\* The app may run at s, now or once Flux has applied what it is told.  One that was
\* taken for stopped on a failed read only ends.
MayRun(s) ==
  \/ runs(s) \/ desired[s] = "1" \/ ov[s].replicas = "1"
  \/ ov[s].replicas = Unset /\ s \in {settings[s], gitHome}

\* Likewise for a cluster that is a primary at s, or may be promoted there.
MayLead(s, c) ==
  \/ ~InRecovery(s, c) \/ dbspec[s][c].primary = s \/ ov[s].primary = s
  \/ ov[s].primary = Unset /\ s \in {settings[s], gitHome}

\* Where a switchover has not told the new site anything yet.
BeforePromotion == {"confirm", "stopKs", "stopWait", "copy", "snapshot", "restore",
  "rollback", "rollbackKs", "rollbackWait", "demote", "demoteKs", "token", "promote", "prebind"}

\* A prebind comes to its end: the tool doesn't die in it.
PrebindEnds == Prebind => Faults \cap {"crash", "kubectl"} = {}

\* Where the new site is off.  One where a prebind was cut short may still run the
\* app, until the next prebind there has ended.
NewOff == BeforePromotion \ (IF PrebindEnds THEN {} ELSE {"confirm", "stopKs", "stopWait", "prebind"})

Exclusive ==
  /\ ~(MayRun(Wsl1) /\ MayRun(Wsl2))
  /\ \A s \in Sites, c \in Clusters :
       MayLead(s, c) => ~MayRun(Other(s)) /\ ~MayLead(Other(s), c)

NewSiteOff ==
  pc \in NewOff => ~MayRun(new) /\ \A c \in Clusters : ~MayLead(new, c)

OldSiteStopped ==
  /\ pc \in (BeforePromotion \ {"confirm", "rollbackKs", "rollbackWait"}) \cup PrebindSteps =>
       ov[src].replicas = "0"
  /\ pc \in {"copy", "snapshot", "restore", "rollback", "demote", "demoteKs",
             "token", "promote", "prebind"} \cup PrebindSteps =>
       desired[src] = "0" /\ ~runs(src)
  /\ pc = "stopWait" => desired[src] = "0"

OldSiteDemoted ==
  /\ \A s \in Sites : \A c \in tokenOut[s] : InRecovery(s, c)
  /\ (pc \in {"demoteKs", "token", "promote"} /\ Clusters # {}) => ov[src].primary = new
  /\ pc \in {"token", "promote"} => \A c \in Clusters : dbspec[src][c].primary = new
  /\ pc = "token" => \A c \in Clusters \ left : InRecovery(src, c)
  /\ pc = "promote" => \A c \in Clusters : InRecovery(src, c)

ClearInPlace ==
  /\ pc \in ClearSteps => \A s \in Sites :
       /\ EffReplicas(s) = (IF s = gitHome THEN "1" ELSE "0")
       /\ Clusters # {} => EffPrimary(s) = gitHome
  /\ pc = "clearKeys" => settings[src] = gitHome

PrebindPlace ==
  /\ pc \in PrebindSteps \cup {"prebind"} => Prebind
  /\ pc = "prebindOffWait" => desired[new] = "0"

\* The site the tool last moved the app to, or would, may run it only where it is told
\* to; at the end of a prebind it is told to stop.
Told(s) == ov[s].replicas = "1" \/ (ov[s].replicas = Unset /\ gitHome = s)
AfterPromotion == {"promoteKs", "primaryWait", "startKs", "readyWait"}
PrebindEnding == {"prebindOffKs", "prebindOffWait"}
RunsAsTold ==
  /\ PrebindEnds /\ pc \notin PrebindEnding => (MayRun(new) \/ pc \in AfterPromotion => Told(new))
  /\ pc \in PrebindEnding => ov[new].replicas = "0"

IInv == /\ TypeOK /\ Exclusive /\ NewSiteOff /\ OldSiteStopped /\ OldSiteDemoted
        /\ ClearInPlace /\ PrebindPlace /\ RunsAsTold

\* What may go wrong: the tool dies anywhere, kubectl fails, a workload can't be read and
\* is taken for stopped, an operator starts a switchover the wrong way or clears early, an
\* abandoned Restore goes on.  Only of an
\* app with a Postgres cluster does preflight see which site has it; of the others the
\* operator knows.  No prebound app has a cluster (site-failover-apps.json).
Planned ==
  /\ Faults \subseteq {"crash", "kubectl", "wrongWay", "earlyClear", "lateRestore", "unread"}
  /\ Clusters # {} => ~Prebind
  /\ Clusters = {} => "wrongWay" \notin Faults

LEMMA SetOverridesIs ==
  ASSUME Planned, NEW s, NEW keys, SetOverrides(s, keys)
  PROVE  ov' = [ov EXCEPT ![s] = keys]
  BY DEF SetOverrides, Planned

LEMMA SitesTwo ==
  /\ Wsl1 \in Sites /\ Wsl2 \in Sites
  /\ \A s \in Sites : Other(s) \in Sites /\ Other(s) # s /\ Other(Other(s)) = s
  /\ \A s \in Sites, t \in Sites : t = s \/ t = Other(s)
  /\ Unset \notin Sites /\ Unset # "0" /\ Unset # "1"
  BY SitesAssumption, SentinelAssumption DEF Sites, Other

\* What the environment leaves alone: the keys and the tool, other Restores than the
\* one that ends, and git and settings but for a pull request and Flux.
LEMMA EnvKeeps ==
  ASSUME EnvNext
  PROVE  /\ UNCHANGED <<ov, pc, src>> /\ orphans' \subseteq orphans /\ spoilt \subseteq spoilt'
         /\ gitHome' = gitHome \/ \E s \in Sites : MakePermanent(s)
         /\ \/ UNCHANGED settings
            \/ \E s \in Sites : settings' = [settings EXCEPT ![s] = gitHome]
<1>0. PICK s \in Sites :
        \/ FluxSettings(s) \/ FluxApp(s) \/ PodStart(s) \/ PodStop(s) \/ PodGone(s)
        \/ MakePermanent(s)
        \/ \E c \in Clusters : FluxDb(s, c) \/ WriteDb(s, c) \/ Replay(s, c)
                               \/ Demote(s, c) \/ Promote(s, c)
        \/ \E p \in Pvcs : WritePvc(s, p) \/ OrphanEnds(s, p)
  BY DEF EnvNext
<1>1. CASE FluxSettings(s)
  BY <1>1 DEF FluxSettings
<1>2. CASE FluxApp(s)
  BY <1>2 DEF FluxApp
<1>3. CASE PodStart(s) \/ PodStop(s) \/ PodGone(s)
  BY <1>3 DEF PodStart, PodStop, PodGone, SetPod
<1>4. CASE MakePermanent(s)
  BY <1>4 DEF MakePermanent
<1>5. ASSUME NEW c \in Clusters, FluxDb(s, c) \/ Demote(s, c) \/ Promote(s, c)
      PROVE  UNCHANGED <<ov, pc, src, orphans, spoilt, gitHome, settings>>
  BY <1>5 DEF FluxDb, Demote, Promote
<1>6. ASSUME NEW c \in Clusters, WriteDb(s, c) \/ Replay(s, c)
      PROVE  UNCHANGED <<ov, pc, src, orphans, spoilt, gitHome, settings>>
  BY <1>6 DEF WriteDb, Replay, SetHolds
<1>7. ASSUME NEW p \in Pvcs, WritePvc(s, p)
      PROVE  UNCHANGED <<ov, pc, src, orphans, gitHome, settings>> /\ spoilt \subseteq spoilt'
  BY <1>7 DEF WritePvc, SetHolds
<1>8. ASSUME NEW p \in Pvcs, OrphanEnds(s, p)
      PROVE  UNCHANGED <<ov, pc, src, spoilt, gitHome, settings>> /\ orphans' \subseteq orphans
  BY <1>8 DEF OrphanEnds
<1> QED BY <1>0, <1>1, <1>2, <1>3, <1>4, <1>5, <1>6, <1>7, <1>8

LEMMA EffMeansMay ==
  ASSUME TypeOK, NEW s \in Sites
  PROVE  /\ EffReplicas(s) = "1" => MayRun(s)
         /\ \A c \in Clusters : EffPrimary(s) = s => MayLead(s, c)
  BY SitesTwo DEF EffReplicas, EffPrimary, MayRun, MayLead, TypeOK, Keys

\* What a site may do only shrinks, except where a step says otherwise.
Shrinks ==
  /\ \A s \in Sites : MayRun(s)' => MayRun(s)
  /\ \A s \in Sites, c \in Clusters : MayLead(s, c)' => MayLead(s, c)

LEMMA ShrinkKeeps ==
  ASSUME TypeOK, Exclusive, NewSiteOff, Shrinks
  PROVE  /\ Exclusive'
         /\ src' = src /\ (pc' \in NewOff => pc \in NewOff)
              => NewSiteOff'
<1>1. Exclusive'
  BY SitesTwo DEF Exclusive, Shrinks
<1>2. ASSUME src' = src, pc' \in NewOff => pc \in NewOff
      PROVE  NewSiteOff'
  BY <1>2, SitesTwo DEF NewSiteOff, Shrinks, new, TypeOK
<1> QED BY <1>1, <1>2

\* Whoever did what it was told still does, and before the promotion the new site does nothing.
LEMMA ToldKeeps ==
  ASSUME TypeOK, RunsAsTold, Shrinks, src' = src, Told(new) => Told(new)',
         pc' \in AfterPromotion => pc \in AfterPromotion,
         PrebindEnds /\ pc' \notin PrebindEnding => pc \notin PrebindEnding,
         pc' \in PrebindEnding => pc \in PrebindEnding /\ ov' = ov
  PROVE  RunsAsTold'
<1>1. new \in Sites /\ new' = new
  BY SitesTwo DEF new, TypeOK
<1> QED BY <1>1 DEF RunsAsTold, Shrinks

LEMMA ToldBefore ==
  ASSUME NewSiteOff', pc' \in BeforePromotion
  PROVE  RunsAsTold'
BY DEF NewSiteOff, NewOff, RunsAsTold, AfterPromotion, BeforePromotion, PrebindEnding

\* While the keys say what git says the other site may not run the app.
LEMMA ToldAsGitSays ==
  ASSUME TypeOK, Exclusive,
         \A s \in Sites : EffReplicas(s) = (IF s = gitHome THEN "1" ELSE "0")
  PROVE  \A s \in Sites : MayRun(s) => s = gitHome
<1>1. gitHome \in Sites /\ MayRun(gitHome)
  BY EffMeansMay DEF TypeOK
<1> QED BY <1>1, SitesTwo DEF Exclusive, Sites

LEMMA ToldInClear ==
  ASSUME TypeOK', \A s \in Sites : MayRun(s)' => Told(s)',
         pc' \notin AfterPromotion \cup PrebindEnding
  PROVE  RunsAsTold'
<1>1. new' \in Sites
  BY SitesTwo DEF new, TypeOK
<1> QED BY <1>1 DEF RunsAsTold

\* Flux, the workloads, CloudNativePG, kopiur and the pull request.
LEMMA EnvShrinks == ASSUME Planned, IInv, EnvNext PROVE Shrinks
<1> USE DEF IInv
<1>1. PICK s \in Sites :
        \/ FluxSettings(s) \/ FluxApp(s) \/ PodStart(s) \/ PodStop(s) \/ PodGone(s)
        \/ MakePermanent(s)
        \/ \E c \in Clusters : FluxDb(s, c) \/ WriteDb(s, c) \/ Replay(s, c)
                               \/ Demote(s, c) \/ Promote(s, c)
        \/ \E p \in Pvcs : WritePvc(s, p) \/ OrphanEnds(s, p)
  BY DEF EnvNext
<1> USE DEF Shrinks, MayRun, MayLead, runs, live, InRecovery
<1>2. CASE FluxSettings(s)
  <2>1. settings'[s] = gitHome /\ \A t \in Sites \ {s} : settings'[t] = settings[t]
    BY <1>2 DEF FluxSettings, TypeOK
  <2> QED BY <1>2, <2>1 DEF FluxSettings
<1>3. CASE FluxApp(s)
  <2>1. desired'[s] = EffReplicas(s) /\ \A t \in Sites \ {s} : desired'[t] = desired[t]
    BY <1>3 DEF FluxApp, TypeOK
  <2> QED BY <1>3, <2>1, EffMeansMay DEF FluxApp
<1>4. CASE PodStart(s) \/ PodStop(s) \/ PodGone(s)
  <2>1. UNCHANGED <<gitHome, settings, ov, desired, dbspec, role>>
    BY <1>4 DEF PodStart, PodStop, PodGone, SetPod
  <2>2. \A t \in Sites \ {s} : pod'[t] = pod[t] /\ (t \in strays' <=> t \in strays)
    BY <1>4 DEF PodStart, PodStop, PodGone, SetPod, TypeOK
  <2>3. runs(s)' => runs(s) \/ desired[s] = "1"
    BY <1>4 DEF PodStart, PodStop, PodGone, SetPod, TypeOK
  <2> QED BY <2>1, <2>2, <2>3
<1>5. CASE MakePermanent(s)
  <2>1. EffReplicas(s) = "1" /\ \A c \in Clusters : EffPrimary(s) = s
    BY <1>5 DEF MakePermanent, RunsOnlyAt, Planned
  <2> QED BY <1>5, <2>1, EffMeansMay DEF MakePermanent
<1>6. ASSUME NEW c \in Clusters, FluxDb(s, c) PROVE Shrinks
  <2>1. /\ dbspec'[s][c].primary = EffPrimary(s)
        /\ \A t \in Sites, d \in Clusters : t # s \/ d # c => dbspec'[t][d] = dbspec[t][d]
    BY <1>6 DEF FluxDb, Applied, TypeOK
  <2> QED BY <1>6, <2>1, EffMeansMay DEF FluxDb
<1>7. ASSUME \/ \E c \in Clusters : WriteDb(s, c) \/ Replay(s, c)
             \/ \E p \in Pvcs : WritePvc(s, p) \/ OrphanEnds(s, p)
      PROVE  Shrinks
  BY <1>7 DEF WriteDb, Replay, WritePvc, OrphanEnds, SetHolds
<1>8. ASSUME NEW c \in Clusters, Demote(s, c) PROVE Shrinks
  <2>1. /\ \A t \in Sites, d \in Clusters : t # s \/ d # c => role'[t][d] = role[t][d]
        /\ role'[s][c] = "replica"
    BY <1>8 DEF Demote, TypeOK
  <2> QED BY <1>8, <2>1 DEF Demote
<1>9. ASSUME NEW c \in Clusters, Promote(s, c) PROVE Shrinks
  <2>1. \A t \in Sites, d \in Clusters : t # s \/ d # c => role'[t][d] = role[t][d]
    BY <1>9 DEF Promote, TypeOK
  <2> QED BY <1>9, <2>1 DEF Promote
<1> QED BY <1>1, <1>2, <1>3, <1>4, <1>5, <1>6, <1>7, <1>8, <1>9

LEMMA InvEnv == ASSUME Planned, IInv, EnvNext PROVE IInv'
<1> USE DEF IInv
<1>1. TypeOK' /\ Shrinks
  BY TypeEnv, EnvShrinks
<1>2. PICK s \in Sites :
        \/ FluxSettings(s) \/ FluxApp(s) \/ PodStart(s) \/ PodStop(s) \/ PodGone(s)
        \/ MakePermanent(s)
        \/ \E c \in Clusters : FluxDb(s, c) \/ WriteDb(s, c) \/ Replay(s, c)
                               \/ Demote(s, c) \/ Promote(s, c)
        \/ \E p \in Pvcs : WritePvc(s, p) \/ OrphanEnds(s, p)
  BY DEF EnvNext
<1>a. PrebindPlace'
  <2>1. UNCHANGED <<pc, src>>
    BY <1>2 DEF FluxSettings, FluxApp, PodStart, PodStop, PodGone, SetPod, MakePermanent, FluxDb,
         WriteDb, Replay, Demote, Promote, WritePvc, OrphanEnds, SetHolds
  <2>2. CASE FluxApp(s)
    <3>1. pc = "prebindOffWait" => EffReplicas(new) = "0"
      BY SitesTwo DEF RunsAsTold, PrebindEnding, EffReplicas
    <3>2. \A t \in Sites : desired'[t] \in {desired[t], EffReplicas(t)}
      BY <2>2 DEF FluxApp, TypeOK
    <3>3. new \in Sites
      BY SitesTwo DEF new, TypeOK
    <3>4. desired'[new] \in {desired[new], EffReplicas(new)}
      BY <3>2, <3>3
    <3> QED BY <2>1, <3>1, <3>4 DEF PrebindPlace, new
  <2>3. CASE UNCHANGED desired
    BY <2>1, <2>3 DEF PrebindPlace, new
  <2> QED
    BY <1>2, <2>2, <2>3 DEF FluxSettings, PodStart, PodStop, PodGone, SetPod, MakePermanent,
         FluxDb, WriteDb, Replay, Demote, Promote, WritePvc, OrphanEnds, SetHolds
<1>b. Exclusive' /\ NewSiteOff' /\ RunsAsTold'
  <2>1. UNCHANGED <<pc, src, ov>>
    BY <1>2 DEF FluxSettings, FluxApp, PodStart, PodStop, PodGone, SetPod, MakePermanent, FluxDb,
         WriteDb, Replay, Demote, Promote, WritePvc, OrphanEnds, SetHolds
  <2>2. Exclusive' /\ NewSiteOff'
    BY <1>1, <2>1, ShrinkKeeps
  <2>3. CASE UNCHANGED gitHome
    <3>1. Told(new) => Told(new)'
      BY <2>1, <2>3 DEF Told, new
    <3> QED BY <1>1, <2>1, <2>2, <3>1, ToldKeeps
  <2>4. CASE MakePermanent(s)
    <3>1. EffReplicas(s) = "1" /\ gitHome' = s /\ pc \notin AfterPromotion \cup PrebindEnding
      BY <2>4 DEF MakePermanent, RunsOnlyAt, AfterPromotion, PrebindEnding
    <3>2. MayRun(s)
      BY <3>1, EffMeansMay
    <3>3. \A t \in Sites : MayRun(t)' => t = s
      BY <1>1, <3>2, SitesTwo DEF Exclusive, Shrinks, Sites
    <3>4. Told(s)'
      BY <2>1, <3>1 DEF Told, EffReplicas
    <3>5. \A t \in Sites : MayRun(t)' => Told(t)'
      BY <3>3, <3>4
    <3> QED BY <1>1, <2>1, <2>2, <3>1, <3>5, ToldInClear
  <2> QED
    BY <1>2, <2>2, <2>3, <2>4 DEF FluxSettings, FluxApp, PodStart, PodStop, PodGone, SetPod, FluxDb,
         WriteDb, Replay, Demote, Promote, WritePvc, OrphanEnds, SetHolds
<1>3. CASE FluxSettings(s)
  <2> USE <1>3 DEF FluxSettings
  <2>1. settings' \in [Sites -> Sites] /\ \A t \in Sites \ {s} : settings'[t] = settings[t]
    BY DEF TypeOK
  <2>2. settings'[s] = gitHome
    BY DEF TypeOK
  <2>3. OldSiteStopped' /\ OldSiteDemoted'
    BY DEF OldSiteStopped, runs, live, OldSiteDemoted, InRecovery, new
  <2>4. ClearInPlace'
    BY <2>1, <2>2, SitesTwo DEF ClearInPlace, EffReplicas, EffPrimary, TypeOK
  <2> QED BY <1>1, <1>a, <1>b, <2>3, <2>4
<1>4. CASE FluxApp(s)
  <2> USE <1>4 DEF FluxApp
  <2>1. /\ \A t \in Sites \ {s} : desired'[t] = desired[t]
        /\ desired'[s] = EffReplicas(s)
    BY DEF TypeOK
  <2>2. OldSiteStopped'
    BY <2>1, SitesTwo DEF OldSiteStopped, runs, live, EffReplicas, TypeOK, BeforePromotion
  <2>3. OldSiteDemoted' /\ ClearInPlace'
    BY DEF OldSiteDemoted, ClearInPlace, EffReplicas, EffPrimary, InRecovery, new
  <2> QED BY <1>1, <1>a, <1>b, <2>2, <2>3
<1>5. CASE PodStart(s) \/ PodStop(s) \/ PodGone(s)
  <2> USE <1>5 DEF PodStart, PodStop, PodGone, SetPod
  <2>1. \A t \in Sites \ {s} : pod'[t] = pod[t] /\ (t \in strays' <=> t \in strays)
    BY DEF TypeOK
  <2>2. runs(s)' => runs(s) \/ desired[s] = "1"
    BY DEF runs, live, TypeOK
  <2>3. \A t \in Sites \ {s} : runs(t)' <=> runs(t)
    BY <2>1 DEF runs, live
  <2>5. OldSiteStopped'
    BY <2>2, <2>3 DEF OldSiteStopped, TypeOK
  <2>4. OldSiteDemoted' /\ ClearInPlace'
    BY DEF OldSiteDemoted, ClearInPlace, EffReplicas, EffPrimary, InRecovery, new
  <2> QED BY <1>1, <1>a, <1>b, <2>4, <2>5
<1>6. CASE MakePermanent(s)
  <2> USE <1>6 DEF MakePermanent
  <2>1. OldSiteStopped' /\ OldSiteDemoted' /\ ClearInPlace'
    BY DEF OldSiteStopped, runs, live, OldSiteDemoted, ClearInPlace, ClearSteps, InRecovery, new,
         BeforePromotion
  <2> QED BY <1>1, <1>a, <1>b, <2>1
<1>7. ASSUME NEW c \in Clusters, FluxDb(s, c) PROVE IInv'
  <2> USE <1>7 DEF FluxDb
  <2>1. \A t \in Sites, d \in Clusters : t # s \/ d # c => dbspec'[t][d] = dbspec[t][d]
    BY DEF TypeOK
  <2>2. dbspec'[s][c].primary = EffPrimary(s)
    BY DEF TypeOK, Applied
  <2>3. src \in Sites /\ new # Unset
    BY SitesTwo DEF TypeOK, new
  <2>4. pc \in {"token", "promote"} /\ s = src => EffPrimary(s) = new
    BY <2>3 DEF OldSiteDemoted, EffPrimary
  <2>5. OldSiteDemoted'
    BY <2>1, <2>2, <2>3, <2>4 DEF OldSiteDemoted, InRecovery, new
  <2>6. OldSiteStopped' /\ ClearInPlace'
    BY DEF OldSiteStopped, runs, live, ClearInPlace, EffReplicas, EffPrimary
  <2> QED BY <1>1, <1>a, <1>b, <2>5, <2>6
<1>8. ASSUME \/ \E c \in Clusters : WriteDb(s, c) \/ Replay(s, c)
             \/ \E p \in Pvcs : WritePvc(s, p) \/ OrphanEnds(s, p)
      PROVE  IInv'
  <2>1. /\ UNCHANGED <<gitHome, settings, ov, desired, pod, strays, dbspec, role, tokenOut>>
        /\ UNCHANGED <<pc, src, left>>
    BY <1>8 DEF WriteDb, Replay, WritePvc, OrphanEnds, SetHolds
  <2>2. OldSiteStopped' /\ OldSiteDemoted' /\ ClearInPlace'
    BY <2>1 DEF OldSiteStopped, runs, live, OldSiteDemoted, ClearInPlace, EffReplicas, EffPrimary,
         InRecovery, new
  <2> QED BY <1>1, <1>a, <1>b, <2>2
<1>9. ASSUME NEW c \in Clusters, Demote(s, c) PROVE IInv'
  <2> USE <1>9 DEF Demote
  <2>1. /\ \A t \in Sites, d \in Clusters : t # s \/ d # c => role'[t][d] = role[t][d]
        /\ role'[s][c] = "replica"
        /\ \A t \in Sites \ {s} : tokenOut'[t] = tokenOut[t]
        /\ tokenOut'[s] = tokenOut[s] \cup {c}
    BY DEF TypeOK
  <2>2. OldSiteDemoted'
    <3>1. \A t \in Sites, d \in Clusters : InRecovery(t, d) => InRecovery(t, d)'
      BY <2>1 DEF InRecovery
    <3>2. \A t \in Sites : \A d \in tokenOut'[t] : InRecovery(t, d)'
      BY <2>1, <3>1 DEF OldSiteDemoted, InRecovery, TypeOK
    <3>3. UNCHANGED <<ov, dbspec, pc, src, left>>
      OBVIOUS
    <3> QED BY <3>1, <3>2, <3>3 DEF OldSiteDemoted, new, TypeOK
  <2>3. OldSiteStopped' /\ ClearInPlace'
    BY DEF OldSiteStopped, runs, live, ClearInPlace, EffReplicas, EffPrimary
  <2> QED BY <1>1, <1>a, <1>b, <2>2, <2>3
<1>10. ASSUME NEW c \in Clusters, Promote(s, c) PROVE IInv'
  <2> USE <1>10 DEF Promote
  <2>1. /\ \A t \in Sites, d \in Clusters : t # s \/ d # c => role'[t][d] = role[t][d]
        /\ \A t \in Sites \ {s} : tokenOut'[t] = tokenOut[t]
        /\ tokenOut'[s] = tokenOut[s] \ {c}
    BY DEF TypeOK
  <2>2. pc \in {"token", "promote"} => s # src
    BY SitesTwo DEF OldSiteDemoted, TypeOK, new
  <2>3. OldSiteDemoted'
    BY <2>1, <2>2 DEF OldSiteDemoted, InRecovery, new, TypeOK
  <2>4. OldSiteStopped' /\ ClearInPlace'
    BY DEF OldSiteStopped, runs, live, ClearInPlace, EffReplicas, EffPrimary
  <2> QED BY <1>1, <1>a, <1>b, <2>3, <2>4
<1> QED BY <1>2, <1>3, <1>4, <1>5, <1>6, <1>7, <1>8, <1>9, <1>10

\* Most steps of the tool change nothing that says what a site may do.
SitesKept ==
  /\ UNCHANGED <<gitHome, settings, ov, desired, pod, dbspec, role, tokenOut>>
  /\ strays \subseteq strays'

LEMMA KeptShrinks == ASSUME SitesKept PROVE Shrinks
  BY DEF SitesKept, Shrinks, MayRun, MayLead, runs, live, InRecovery

LEMMA InvSwitchKept ==
  ASSUME Planned, IInv, SitesKept, TypeOK',
         \/ Aborted \/ Stopped \/ Snapshotted \/ Restored \/ CopyFails \/ RolledBack
         \/ Copied \/ PrimarySeen \/ Switched \/ TimesOut \/ KubectlFails \/ Crash
         \/ \E p \in Pvcs : CopyPvc(p)
  PROVE  IInv'
<1> USE DEF IInv
<1>0. src' = src /\ pc' \notin ClearSteps
  BY DEF Aborted, Stopped, Snapshotted, Restored, CopyFails, RolledBack, Copied,
       PrimarySeen, Switched, TimesOut, KubectlFails, Crash, CopyPvc, ClearSteps
<1>1. \/ pc' \in {"idle", "startKs"}
      \/ Stopped /\ pc' = (IF Prebind THEN "prebind" ELSE "copy")
      \/ /\ pc \in {"copy", "snapshot", "restore"}
         /\ pc' \in {"copy", "snapshot", "restore", "rollback", "demote"}
              \cup (IF Clusters = {} THEN {"promote"} ELSE {})
  BY DEF Aborted, Stopped, Snapshotted, Restored, CopyFails, RolledBack, Copied, Planned,
       PrimarySeen, Switched, TimesOut, KubectlFails, Crash, CopyPvc, PrebindSteps
<1>2. Exclusive' /\ NewSiteOff'
  <2>1. pc' \in NewOff => pc \in NewOff
    BY <1>1 DEF NewOff, BeforePromotion, PrebindEnds, Stopped
  <2> QED BY <1>0, <2>1, KeptShrinks, ShrinkKeeps
<1>3. Stopped => desired[src] = "0" /\ ~runs(src)'
  <2>1. SeenStopped(src) => pod[src] = "none"
    BY DEF SeenStopped, Planned, TypeOK
  <2> QED BY <2>1 DEF Stopped, TakenForStopped, OldSiteStopped, runs, live
<1>4. OldSiteStopped'
  <2>1. runs(src)' => runs(src)
    BY <1>0 DEF SitesKept, runs, live
  <2>2. ov'[src'] = ov[src] /\ desired'[src'] = desired[src]
    BY <1>0 DEF SitesKept
  <2>3. CASE Stopped
    <3>1. pc = "stopWait" /\ pc' \in {"prebind", "copy"}
      BY <2>3 DEF Stopped
    <3> QED
      BY <1>0, <1>3, <2>2, <2>3, <3>1 DEF OldSiteStopped, BeforePromotion, PrebindSteps
  <2>4. CASE ~Stopped
    BY <1>0, <1>1, <2>1, <2>2, <2>4 DEF OldSiteStopped, BeforePromotion, PrebindSteps
  <2> QED BY <2>3, <2>4
<1>5. OldSiteDemoted'
  BY <1>0, <1>1 DEF OldSiteDemoted, SitesKept, InRecovery
<1>6. ClearInPlace' /\ PrebindPlace'
  BY <1>0, <1>1 DEF ClearInPlace, PrebindPlace, PrebindSteps, ClearSteps
<1>7. RunsAsTold'
  <2>1. Told(new) => Told(new)'
    BY <1>0 DEF SitesKept, Told, new
  <2>2. CASE pc' \in BeforePromotion
    BY <1>2, <2>2, ToldBefore
  <2>3. CASE pc' \notin BeforePromotion
    <3>1. pc' \in {"idle", "startKs"}
      BY <1>1, <2>3 DEF BeforePromotion
    <3>2. pc' \in AfterPromotion => pc \in AfterPromotion
      BY <3>1 DEF Aborted, Stopped, Snapshotted, Restored, CopyFails, RolledBack, Copied, PrimarySeen,
         Switched, TimesOut, KubectlFails, Crash, CopyPvc, AfterPromotion
    <3>3. PrebindEnds => pc \notin PrebindEnding
      BY <3>1 DEF Aborted, Stopped, Snapshotted, Restored, CopyFails, RolledBack, Copied, PrimarySeen,
         Switched, TimesOut, KubectlFails, Crash, CopyPvc, PrebindEnds, PrebindEnding, PrebindPlace,
         PrebindSteps, Planned
    <3>4. pc' \notin PrebindEnding
      BY <3>1 DEF PrebindEnding
    <3> QED BY <1>0, <2>1, <3>2, <3>3, <3>4, KeptShrinks, ToldKeeps
  <2> QED BY <2>2, <2>3
<1> QED BY <1>2, <1>4, <1>5, <1>6, <1>7

LEMMA InvPreflight ==
  ASSUME Planned, IInv, TypeOK', NEW s \in Sites, Preflight(s)
  PROVE  IInv'
<1> USE DEF IInv, Preflight
<1>1. SitesKept /\ pc' = "confirm" /\ src' = s
  BY DEF SitesKept
<1>2. Exclusive'
  BY <1>1, KeptShrinks, ShrinkKeeps
<1>4. \A d \in Clusters : MayLead(s, d)
  BY DEF Planned, NotInRecoverySeen, MayLead
<1>3. PrebindEnds => ~MayRun(Other(s))
  <2>1. CASE Clusters # {}
    BY <1>4, <2>1 DEF Exclusive
  <2>2. CASE EffReplicas(s) = "1"
    BY <2>2, EffMeansMay, SitesTwo DEF Exclusive, Sites
  <2>3. CASE s = src /\ EffReplicas(new) = "0"
    <3>1. new \in Sites /\ settings[new] = gitHome /\ pc \notin PrebindEnding
      BY SitesTwo DEF OperatorStarts, Planned, TypeOK, new, PrebindEnding
    <3>2. ~Told(new)
      BY <2>3, <3>1, SitesTwo DEF Told, EffReplicas
    <3> QED BY <2>3, <3>1, <3>2 DEF RunsAsTold, new
  <2> QED BY <2>1, <2>2, <2>3 DEF Planned, OperatorStarts, new
<1>5. PrebindEnds => ~MayRun(Other(s)) /\ \A d \in Clusters : ~MayLead(Other(s), d)
  BY <1>3, <1>4 DEF Exclusive
<1>6. NewSiteOff'
  BY <1>1, <1>5 DEF NewSiteOff, NewOff, SitesKept, MayRun, MayLead, runs, live, InRecovery, new
<1>7. OldSiteStopped' /\ OldSiteDemoted' /\ ClearInPlace' /\ PrebindPlace'
  BY <1>1 DEF OldSiteStopped, runs, live, OldSiteDemoted, ClearInPlace, PrebindPlace, SitesKept,
       InRecovery, ClearSteps, PrebindSteps
<1>8. RunsAsTold'
  BY <1>1, <1>6, ToldBefore DEF BeforePromotion
<1> QED BY <1>2, <1>6, <1>7, <1>8

LEMMA InvTokenRead ==
  ASSUME Planned, IInv, TypeOK', NEW c \in Clusters, TokenRead(c)
  PROVE  IInv'
<1> USE DEF IInv, TokenRead
<1>1. SitesKept /\ src' = src /\ left' = left \ {c} /\ pc = "token"
  BY DEF SitesKept
<1>2. pc' = (IF left' = {} THEN "promote" ELSE "token")
  OBVIOUS
<1>3. Exclusive' /\ NewSiteOff'
  BY <1>1, <1>2, KeptShrinks, ShrinkKeeps DEF NewOff, BeforePromotion
<1>4. InRecovery(src, c) /\ \A d \in Clusters \ left : InRecovery(src, d)
  BY <1>1 DEF OldSiteDemoted, TypeOK
<1>5. OldSiteDemoted'
  BY <1>1, <1>2, <1>4 DEF OldSiteDemoted, SitesKept, InRecovery, new
<1>6. OldSiteStopped' /\ ClearInPlace' /\ PrebindPlace'
  BY <1>1, <1>2 DEF OldSiteStopped, runs, live, ClearInPlace, PrebindPlace, SitesKept, BeforePromotion,
       ClearSteps, PrebindSteps
<1>7. RunsAsTold'
  BY <1>2, <1>3, ToldBefore DEF BeforePromotion
<1> QED BY <1>3, <1>5, <1>6, <1>7

\* The old site's keys: stopped, back to git's values (rollback), demoted.
LEMMA InvOldKeys ==
  ASSUME Planned, IInv, TypeOK', StopOld \/ Rollback \/ DemoteOld
  PROVE  IInv'
<1> USE DEF IInv
<1>0. PICK o \in Sites, n \in Sites :
        o = src /\ n = new /\ n = Other(o) /\ o = Other(n) /\ n # o
  BY SitesTwo DEF TypeOK, new
<1>a. PICK keys : ov' = [ov EXCEPT ![o] = keys]
  <2>1. CASE StopOld
    BY <1>0, <2>1, SetOverridesIs DEF StopOld
  <2>2. CASE Rollback
    BY <1>0, <2>2, SetOverridesIs DEF Rollback
  <2>3. CASE DemoteOld
    <3>1. SetOverrides(o, [ReplicasKey("0") EXCEPT !.primary = n])
      BY <1>0, <2>3 DEF DemoteOld
    <3> QED BY <3>1, SetOverridesIs
  <2> QED BY <2>1, <2>2, <2>3
<1>1. /\ UNCHANGED <<gitHome, settings, desired, pod, strays, dbspec, role, tokenOut, src>>
      /\ ov'[n] = ov[n]
  BY <1>0, <1>a DEF StopOld, Rollback, DemoteOld, TypeOK
<1>2. \/ pc = "confirm" /\ pc' = "stopKs" /\ ov'[o].replicas = "0"
      \/ pc = "rollback" /\ pc' = "rollbackKs"
      \/ /\ pc = "demote" /\ pc' = "demoteKs"
         /\ ov'[o].replicas = "0" /\ ov'[o].primary = n
  <2>0. ov \in [Sites -> Keys]
    BY DEF TypeOK
  <2>1. /\ ReplicasKey("0").replicas = "0"
        /\ [ReplicasKey("0") EXCEPT !.primary = n].replicas = "0"
        /\ [ReplicasKey("0") EXCEPT !.primary = n].primary = n
    BY DEF ReplicasKey, NoKeys
  <2>2. CASE StopOld
    <3>1. ov' = [ov EXCEPT ![o] = ReplicasKey("0")]
      BY <2>2, <1>0, SetOverridesIs DEF StopOld
    <3>2. ov'[o] = ReplicasKey("0")
      BY <2>0, <3>1
    <3> QED BY <2>1, <2>2, <3>2 DEF StopOld
  <2>3. CASE Rollback
    BY <2>3 DEF Rollback
  <2>4. CASE DemoteOld
    <3>1. ov' = [ov EXCEPT ![o] = [ReplicasKey("0") EXCEPT !.primary = n]]
      BY <2>4, <1>0, SetOverridesIs DEF DemoteOld
    <3>2. ov'[o] = [ReplicasKey("0") EXCEPT !.primary = n]
      BY <2>0, <3>1
    <3> QED BY <2>1, <2>4, <3>2 DEF DemoteOld
  <2> QED BY <2>2, <2>3, <2>4
<1>3. pc \in NewOff => ~MayRun(n) /\ \A c \in Clusters : ~MayLead(n, c)
  BY <1>0 DEF NewSiteOff
<1>4. pc \in NewOff => ~MayRun(n)' /\ \A c \in Clusters : ~MayLead(n, c)'
  BY <1>1, <1>3 DEF MayRun, MayLead, runs, live, InRecovery
<1>5. Exclusive'
  <2>1. CASE pc \in NewOff
    BY <1>0, <1>4, <2>1, SitesTwo DEF Exclusive, Sites
  <2>2. CASE pc \notin NewOff
    <3>1. pc = "confirm" /\ Clusters = {}
      BY <1>2, <2>2 DEF NewOff, BeforePromotion, PrebindEnds, Planned
    <3>2. \A s \in Sites : MayRun(s)' => MayRun(s)
      <4>1. MayRun(n)' => MayRun(n)
        BY <1>1 DEF MayRun, runs, live
      <4>2. MayRun(o)' => MayRun(o)
        <5>1. ov'[o].replicas = "0"
          BY <1>2, <3>1
        <5>2. ov'[o].replicas # "1" /\ ov'[o].replicas # Unset
          BY <5>1, SitesTwo
        <5>3. pod' = pod /\ desired' = desired /\ strays' = strays
          BY <1>1
        <5> QED BY <5>2, <5>3 DEF MayRun, runs, live
      <4>3. \A s \in Sites : s = o \/ s = n
        BY <1>0, SitesTwo
      <4> QED BY <4>1, <4>2, <4>3
    <3> QED BY <3>1, <3>2, SitesTwo DEF Exclusive
  <2> QED BY <2>1, <2>2
<1>6. NewSiteOff'
  <2>1. pc' \in NewOff => pc \in NewOff
    BY <1>2 DEF NewOff, BeforePromotion
  <2> QED BY <1>0, <1>1, <1>4, <2>1 DEF NewSiteOff, new
<1>7. OldSiteStopped'
  BY <1>0, <1>1, <1>2 DEF OldSiteStopped, runs, live, BeforePromotion, PrebindSteps
<1>8. OldSiteDemoted' /\ ClearInPlace' /\ PrebindPlace'
  BY <1>0, <1>1, <1>2 DEF OldSiteDemoted, ClearInPlace, PrebindPlace, InRecovery, ClearSteps,
       PrebindSteps, new
<1>9. RunsAsTold'
  BY <1>2, <1>6, ToldBefore DEF BeforePromotion
<1> QED BY <1>5, <1>6, <1>7, <1>8, <1>9

LEMMA InvPromoteNew ==
  ASSUME Planned, IInv, TypeOK', PromoteNew
  PROVE  IInv'
<1> USE DEF IInv, PromoteNew
<1>0. PICK o \in Sites, n \in Sites :
        o = src /\ n = new /\ n = Other(o) /\ o = Other(n) /\ n # o
  BY SitesTwo DEF TypeOK, new
<1>a. PICK keys : keys.replicas = "1" /\ ov' = [ov EXCEPT ![n] = keys]
  <2>1. ReplicasKey("1").replicas = "1"
    BY DEF ReplicasKey, NoKeys
  <2>2. PICK keys : keys.replicas = "1" /\ SetOverrides(n, keys)
    BY <1>0, <2>1
  <2> QED BY <2>2, SetOverridesIs
<1>1. /\ UNCHANGED <<gitHome, settings, desired, pod, strays, dbspec, role, tokenOut>>
      /\ ov'[o] = ov[o]
      /\ pc = "promote" /\ pc' \in {"promoteKs", "startKs"} /\ src' = src
  BY <1>0, <1>a DEF TypeOK
<1>2. /\ ov[o].replicas = "0" /\ desired[o] = "0" /\ ~runs(o)
      /\ \A c \in Clusters : /\ dbspec[o][c].primary = n /\ InRecovery(o, c)
                              /\ ov[o].primary = n
  BY <1>0, <1>1 DEF OldSiteStopped, runs, live, OldSiteDemoted, BeforePromotion
<1>3. ~MayRun(o)' /\ \A c \in Clusters : ~MayLead(o, c)'
  <2>1. ov'[o] = ov[o] /\ desired'[o] = desired[o] /\ pod'[o] = pod[o] /\ strays' = strays
    BY <1>1
  <2>2. ~MayRun(o)'
    BY <1>2, <2>1, SitesTwo DEF MayRun, runs, live
  <2>3. ASSUME NEW c \in Clusters PROVE ~MayLead(o, c)'
    <3>1. role'[o][c] = role[o][c] /\ dbspec'[o][c] = dbspec[o][c]
      BY <1>1
    <3>2. InRecovery(o, c) /\ dbspec[o][c].primary # o /\ ov[o].primary \notin {o, Unset}
      BY <1>0, <1>2, SitesTwo
    <3> QED BY <2>1, <3>1, <3>2 DEF MayLead, InRecovery
  <2> QED BY <2>2, <2>3
<1>4. Exclusive'
  BY <1>0, <1>3, SitesTwo DEF Exclusive, Sites
<1>5. NewSiteOff' /\ OldSiteStopped' /\ OldSiteDemoted' /\ ClearInPlace' /\ PrebindPlace'
  BY <1>1 DEF NewSiteOff, NewOff, OldSiteStopped, runs, live, OldSiteDemoted, ClearInPlace, PrebindPlace,
       InRecovery, ClearSteps, PrebindSteps, BeforePromotion
<1>6. RunsAsTold'
  <2>1. ov'[n].replicas = "1"
    BY <1>0, <1>a DEF TypeOK
  <2> QED BY <1>0, <1>1, <2>1 DEF RunsAsTold, Told, PrebindEnding, new
<1> QED BY <1>4, <1>5, <1>6

LEMMA InvAppReconcile ==
  ASSUME Planned, IInv, TypeOK', AppReconcile
  PROVE  IInv' /\ Shrinks
<1> USE DEF IInv, AppReconcile
<1>1. PICK s \in Sites :
        /\ s = AppReconciles[pc].site
        /\ \/ pc = "stopKs" /\ pc' = "stopWait" /\ s = src
           \/ pc = "rollbackKs" /\ pc' = "rollbackWait" /\ s = src
           \/ pc = "startKs" /\ pc' = "readyWait" /\ s = new
           \/ pc = "prebindKs" /\ pc' = "prebindWait" /\ s = new
           \/ pc = "prebindOffKs" /\ pc' = "prebindOffWait" /\ s = new
  BY SitesTwo DEF AppReconciles, TypeOK, new
<1>2. /\ desired'[s] = EffReplicas(s)
      /\ \A t \in Sites \ {s} : desired'[t] = desired[t]
  BY <1>1 DEF ReconcileApp, Planned, TypeOK
<1>3. Shrinks
  BY <1>2, EffMeansMay DEF Shrinks, MayRun, MayLead, runs, live, InRecovery
<1>4. Exclusive' /\ NewSiteOff'
  <2>1. pc' \in NewOff => pc \in NewOff
    BY <1>1 DEF NewOff, BeforePromotion
  <2> QED BY <1>3, <2>1, ShrinkKeeps
<1>5. OldSiteStopped'
  <2>1. src \in Sites /\ new # src
    BY SitesTwo DEF TypeOK, new
  <2>2. s = new => desired'[src] = desired[src]
    BY <1>2, <2>1
  <2>3. pc = "stopKs" => ov[src].replicas = "0" /\ EffReplicas(src) = "0"
    BY SitesTwo DEF OldSiteStopped, BeforePromotion, EffReplicas
  <2>4. pc' = "stopWait" => desired'[src] = "0"
    BY <1>1, <1>2, <2>3
  <2>5. /\ ov' = ov /\ src' = src /\ (runs(src)' <=> runs(src))
        /\ pc' # "stopWait" => pc' \in {"rollbackWait", "readyWait"} \cup PrebindSteps
        /\ pc' \in PrebindSteps => pc \in PrebindSteps /\ s = new
    BY <1>1 DEF runs, live, PrebindSteps
  <2> QED BY <1>1, <2>2, <2>3, <2>4, <2>5 DEF OldSiteStopped, runs, live, BeforePromotion, PrebindSteps
<1>6. OldSiteDemoted' /\ ClearInPlace' /\ PrebindPlace'
  <2>1. pc = "prebindOffKs" => EffReplicas(new) = "0"
    BY SitesTwo DEF RunsAsTold, PrebindEnding, EffReplicas
  <2>2. pc' = "prebindOffWait" => desired'[new] = "0"
    BY <1>1, <1>2, <2>1
  <2> QED
    BY <1>1, <2>2 DEF OldSiteDemoted, ClearInPlace, PrebindPlace, InRecovery, ClearSteps,
         PrebindSteps, new
<1>7. RunsAsTold'
  <2>1. Told(new) => Told(new)'
    BY DEF Told, new
  <2> QED BY <1>1, <1>3, <2>1, ToldKeeps DEF AfterPromotion, PrebindEnding
<1> QED BY <1>3, <1>4, <1>5, <1>6, <1>7

LEMMA InvDbReconcile ==
  ASSUME Planned, IInv, TypeOK', DbReconcile
  PROVE  IInv' /\ Shrinks
<1> USE DEF IInv, DbReconcile
<1>1. PICK s \in Sites :
        /\ s = DbReconciles[pc].site
        /\ \/ pc = "demoteKs" /\ pc' = "token" /\ s = src /\ left' = Clusters
           \/ pc = "promoteKs" /\ pc' = "primaryWait" /\ s = new
  BY SitesTwo DEF DbReconciles, TypeOK, new
<1>2. /\ \A c \in Clusters : dbspec'[s][c].primary = EffPrimary(s)
      /\ \A t \in Sites \ {s} : dbspec'[t] = dbspec[t]
  <2>1. dbspec' = [dbspec EXCEPT ![s] = [c \in Clusters |-> Applied(s, c)]]
    BY <1>1 DEF ReconcileDb, Planned
  <2>2. dbspec'[s] = [c \in Clusters |-> Applied(s, c)]
    BY <2>1 DEF TypeOK
  <2>3. \A t \in Sites \ {s} : dbspec'[t] = dbspec[t]
    BY <2>1 DEF TypeOK
  <2> QED BY <2>2, <2>3 DEF Applied
<1>3. Shrinks
  <2>1. \A t \in Sites : MayRun(t)' => MayRun(t)
    BY DEF MayRun, runs, live
  <2>2. \A c \in Clusters : MayLead(s, c)' => MayLead(s, c)
    BY <1>2, EffMeansMay DEF MayLead, InRecovery
  <2>3. \A t \in Sites \ {s}, c \in Clusters : MayLead(t, c)' => MayLead(t, c)
    BY <1>2 DEF MayLead, InRecovery
  <2> QED BY <2>1, <2>2, <2>3 DEF Shrinks
<1>4. Exclusive' /\ NewSiteOff'
  BY <1>1, <1>3, ShrinkKeeps DEF NewOff, BeforePromotion
<1>5. pc = "demoteKs" /\ Clusters # {} => EffPrimary(src) = new
  <2>1. pc = "demoteKs" /\ Clusters # {} => ov[src].primary = new
    BY DEF OldSiteDemoted
  <2>2. new # Unset
    BY SitesTwo DEF TypeOK, new
  <2> QED BY <2>1, <2>2, Zenon DEF EffPrimary
<1>6. OldSiteDemoted'
  BY <1>1, <1>2, <1>5 DEF OldSiteDemoted, InRecovery, new
<1>7. OldSiteStopped' /\ ClearInPlace' /\ PrebindPlace'
  BY <1>1 DEF OldSiteStopped, runs, live, ClearInPlace, PrebindPlace, ClearSteps, PrebindSteps,
       BeforePromotion
<1>8. RunsAsTold'
  <2>1. Told(new) => Told(new)'
    BY DEF Told, new
  <2> QED BY <1>1, <1>3, <2>1, ToldKeeps DEF AfterPromotion, PrebindEnding
<1> QED BY <1>3, <1>4, <1>6, <1>7, <1>8

LEMMA InvClear ==
  ASSUME Planned, IInv, TypeOK', Clear
  PROVE  IInv'
<1> USE DEF IInv, Clear
<1>1. SitesKept /\ pc' = "clear"
  BY DEF SitesKept
<1>2. Exclusive' /\ NewSiteOff'
  BY <1>1, KeptShrinks, ShrinkKeeps DEF NewSiteOff, NewOff, BeforePromotion
<1>3. \A s \in Sites : /\ EffReplicas(s) = (IF s = gitHome THEN "1" ELSE "0")
                       /\ Clusters # {} => EffPrimary(s) = gitHome
  BY SitesTwo DEF RunsOnlyAt, Planned, TypeOK
<1>4. ClearInPlace'
  BY <1>1, <1>3 DEF ClearInPlace, SitesKept, EffReplicas, EffPrimary
<1>5. OldSiteStopped' /\ OldSiteDemoted' /\ PrebindPlace'
  BY <1>1 DEF OldSiteStopped, runs, live, OldSiteDemoted, PrebindPlace, SitesKept, InRecovery,
       PrebindSteps, BeforePromotion
<1>6. RunsAsTold'
  <2>1. \A s \in Sites : MayRun(s)' => s = gitHome
    BY <1>1, <1>3, KeptShrinks, ToldAsGitSays DEF Shrinks
  <2>2. Told(gitHome)'
    BY <1>1, <1>3 DEF SitesKept, Told, EffReplicas, TypeOK
  <2>3. gitHome' = gitHome
    BY <1>1 DEF SitesKept
  <2>4. \A s \in Sites : MayRun(s)' => Told(s)'
    BY <2>1, <2>2, <2>3
  <2> QED BY <1>1, <2>4, ToldInClear DEF AfterPromotion, PrebindEnding
<1> QED BY <1>2, <1>4, <1>5, <1>6

\* Nothing to clear here; the operator confirms; git's cluster-settings applied.
LEMMA InvClearSteps ==
  ASSUME Planned, IInv, TypeOK', NothingToClear \/ ClearConfirmed \/ ClearGit
  PROVE  IInv' /\ Shrinks
<1> USE DEF IInv
<1>1. /\ UNCHANGED <<gitHome, ov, desired, pod, strays, dbspec, role, tokenOut>>
      /\ pc \in ClearSteps /\ pc' \in {"idle", "clear", "clearGit", "clearKeys"}
  BY DEF NothingToClear, ClearConfirmed, ClearGit, NextSite, ClearSteps
<1>2. /\ \A s \in Sites : settings'[s] = settings[s] \/ settings'[s] = gitHome
      /\ pc' = "clearKeys" => settings'[src'] = gitHome
  BY DEF NothingToClear, ClearConfirmed, ClearGit, NextSite, Planned, TypeOK
<1>3. Shrinks
  BY <1>1, <1>2 DEF Shrinks, MayRun, MayLead, runs, live, InRecovery
<1>4. Exclusive' /\ NewSiteOff'
  BY <1>1, <1>3, ShrinkKeeps DEF NewSiteOff, NewOff, BeforePromotion
<1>5. ClearInPlace'
  BY <1>1, <1>2, SitesTwo DEF ClearInPlace, EffReplicas, EffPrimary, TypeOK
<1>6. OldSiteStopped' /\ OldSiteDemoted' /\ PrebindPlace'
  BY <1>1 DEF OldSiteStopped, runs, live, OldSiteDemoted, PrebindPlace, InRecovery, PrebindSteps,
       BeforePromotion
<1>7. RunsAsTold'
  <2>1. \A s \in Sites : EffReplicas(s) = (IF s = gitHome THEN "1" ELSE "0")
    BY <1>1 DEF ClearInPlace, ClearSteps
  <2>2. \A s \in Sites : MayRun(s)' => s = gitHome
    BY <1>3, <2>1, ToldAsGitSays DEF Shrinks
  <2>3. ov'[gitHome].replicas = ov[gitHome].replicas \/ ov'[gitHome].replicas = Unset
    BY <1>1 DEF TypeOK
  <2>4. Told(gitHome)' /\ gitHome' = gitHome
    BY <1>1, <2>1, <2>3 DEF Told, EffReplicas, TypeOK
  <2>5. \A s \in Sites : MayRun(s)' => Told(s)'
    BY <2>2, <2>4
  <2> QED BY <1>1, <2>5, ToldInClear DEF AfterPromotion, PrebindEnding
<1> QED BY <1>3, <1>4, <1>5, <1>6, <1>7

\* The override goes and git says the same: nothing changes for Flux.
LEMMA InvClearKeys ==
  ASSUME Planned, IInv, TypeOK', ClearKeys
  PROVE  IInv' /\ Shrinks
<1> USE DEF IInv, ClearKeys
<1>1. /\ UNCHANGED <<gitHome, settings, desired, pod, strays, dbspec, role, tokenOut, src>>
      /\ pc = "clearKeys" /\ pc' = "clearKs" /\ src \in Sites
      /\ \A s \in Sites \ {src} : ov'[s] = ov[s]
      /\ ov'[src].replicas = Unset /\ ov'[src].primary = Unset
  BY SetOverridesIs DEF TypeOK, NoKeys
<1>2. settings[src] = gitHome
  BY <1>1 DEF ClearInPlace
<1>3. \A s \in Sites : /\ EffReplicas(s)' = EffReplicas(s)
                       /\ Clusters # {} => EffPrimary(s)' = EffPrimary(s)
  <2>1. \A s \in Sites \ {src} :
          EffReplicas(s)' = EffReplicas(s) /\ EffPrimary(s)' = EffPrimary(s)
    BY <1>1 DEF EffReplicas, EffPrimary
  <2>2. PICK o \in Sites : o = src
    BY <1>1
  <2>3. EffReplicas(o)' = (IF o = gitHome THEN "1" ELSE "0") /\ EffPrimary(o)' = gitHome
    BY <1>1, <1>2, <2>2 DEF EffReplicas, EffPrimary
  <2>4. /\ EffReplicas(o) = (IF o = gitHome THEN "1" ELSE "0")
        /\ Clusters # {} => EffPrimary(o) = gitHome
    BY <1>1, <2>2 DEF ClearInPlace, ClearSteps
  <2> QED BY <2>1, <2>2, <2>3, <2>4
<1>4. ClearInPlace'
  BY <1>1, <1>3 DEF ClearInPlace, ClearSteps
<1>5. Shrinks
  <2>1. PICK o \in Sites : o = src
    BY <1>1
  <2>2. o = gitHome => MayRun(o) /\ \A c \in Clusters : MayLead(o, c)
    BY <1>1, <2>1, EffMeansMay DEF ClearInPlace, ClearSteps
  <2>3. MayRun(o)' => MayRun(o)
    BY <1>1, <1>2, <2>1, <2>2, SitesTwo DEF MayRun, runs, live
  <2>4. \A c \in Clusters : MayLead(o, c)' => MayLead(o, c)
    BY <1>1, <1>2, <2>1, <2>2, SitesTwo DEF MayLead, InRecovery
  <2>5. \A s \in Sites \ {o} : /\ MayRun(s)' => MayRun(s)
                               /\ \A c \in Clusters : MayLead(s, c)' => MayLead(s, c)
    BY <1>1, <2>1 DEF MayRun, MayLead, runs, live, InRecovery
  <2> QED BY <2>3, <2>4, <2>5 DEF Shrinks
<1>6. Exclusive' /\ NewSiteOff'
  BY <1>1, <1>5, ShrinkKeeps DEF NewSiteOff, NewOff, BeforePromotion
<1>7. OldSiteStopped' /\ OldSiteDemoted' /\ PrebindPlace'
  BY <1>1 DEF OldSiteStopped, runs, live, OldSiteDemoted, PrebindPlace, InRecovery, PrebindSteps,
       BeforePromotion
<1>8. RunsAsTold'
  <2>1. \A s \in Sites : EffReplicas(s) = (IF s = gitHome THEN "1" ELSE "0")
    BY <1>1 DEF ClearInPlace, ClearSteps
  <2>2. \A s \in Sites : MayRun(s)' => s = gitHome
    BY <1>5, <2>1, ToldAsGitSays DEF Shrinks
  <2>3. ov'[gitHome].replicas = ov[gitHome].replicas \/ ov'[gitHome].replicas = Unset
    BY <1>1 DEF TypeOK
  <2>4. Told(gitHome)' /\ gitHome' = gitHome
    BY <1>1, <2>1, <2>3 DEF Told, EffReplicas, TypeOK
  <2>5. \A s \in Sites : MayRun(s)' => Told(s)'
    BY <2>2, <2>4
  <2> QED BY <1>1, <2>5, ToldInClear DEF AfterPromotion, PrebindEnding
<1> QED BY <1>4, <1>5, <1>6, <1>7, <1>8

LEMMA InvClearReconcile ==
  ASSUME Planned, IInv, TypeOK', ClearReconcile
  PROVE  IInv' /\ Shrinks
<1> USE DEF IInv, ClearReconcile
<1>1. PICK s \in Sites : s = src
  BY DEF TypeOK
<1>2. /\ UNCHANGED <<gitHome, settings, ov, pod, strays, role, tokenOut>>
      /\ pc = "clearKs" /\ pc' \in {"idle", "clear"}
  BY DEF NextSite
<1>3. desired'[s] = EffReplicas(s) /\ \A t \in Sites \ {s} : desired'[t] = desired[t]
  BY <1>1 DEF ReconcileApp, Planned, TypeOK
<1>4. /\ \A c \in Clusters : dbspec'[s][c].primary = EffPrimary(s)
      /\ \A t \in Sites \ {s} : dbspec'[t] = dbspec[t]
  <2>1. dbspec' = [dbspec EXCEPT ![s] = [c \in Clusters |-> Applied(s, c)]]
    BY <1>1 DEF ReconcileDb, Planned
  <2>2. dbspec'[s] = [c \in Clusters |-> Applied(s, c)]
    BY <2>1 DEF TypeOK
  <2>3. \A t \in Sites \ {s} : dbspec'[t] = dbspec[t]
    BY <2>1 DEF TypeOK
  <2> QED BY <2>2, <2>3 DEF Applied
<1>5. Shrinks
  <2>1. MayRun(s)' => MayRun(s)
    BY <1>2, <1>3, EffMeansMay DEF MayRun, runs, live
  <2>2. \A c \in Clusters : MayLead(s, c)' => MayLead(s, c)
    BY <1>2, <1>4, EffMeansMay DEF MayLead, InRecovery
  <2>3. \A t \in Sites \ {s} : /\ MayRun(t)' => MayRun(t)
                               /\ \A c \in Clusters : MayLead(t, c)' => MayLead(t, c)
    BY <1>2, <1>3, <1>4 DEF MayRun, MayLead, runs, live, InRecovery
  <2> QED BY <2>1, <2>2, <2>3 DEF Shrinks
<1>6. Exclusive' /\ NewSiteOff'
  BY <1>2, <1>5, ShrinkKeeps DEF NewSiteOff, NewOff, BeforePromotion
<1>7. ClearInPlace'
  BY <1>2 DEF ClearInPlace, ClearSteps, EffReplicas, EffPrimary
<1>8. OldSiteStopped' /\ OldSiteDemoted' /\ PrebindPlace'
  BY <1>2 DEF OldSiteStopped, runs, live, OldSiteDemoted, PrebindPlace, InRecovery, PrebindSteps,
       BeforePromotion
<1>9. RunsAsTold'
  <2>1. \A t \in Sites : EffReplicas(t) = (IF t = gitHome THEN "1" ELSE "0")
    BY <1>2 DEF ClearInPlace, ClearSteps
  <2>2. \A t \in Sites : MayRun(t)' => t = gitHome
    BY <1>5, <2>1, ToldAsGitSays DEF Shrinks
  <2>3. ov'[gitHome].replicas = ov[gitHome].replicas \/ ov'[gitHome].replicas = Unset
    BY <1>2 DEF TypeOK
  <2>4. Told(gitHome)' /\ gitHome' = gitHome
    BY <1>2, <2>1, <2>3 DEF Told, EffReplicas, TypeOK
  <2>5. \A t \in Sites : MayRun(t)' => Told(t)'
    BY <2>2, <2>4
  <2> QED BY <1>2, <2>5, ToldInClear DEF AfterPromotion, PrebindEnding
<1> QED BY <1>5, <1>6, <1>7, <1>8, <1>9

\* The prebind: the new site may run the app, the old one may not.
LEMMA InvPrebind ==
  ASSUME Planned, IInv, TypeOK', PrebindOn \/ PrebindBound \/ PrebindOff \/ PrebindStopped
  PROVE  IInv'
<1> USE DEF IInv
<1>0. PICK o \in Sites, n \in Sites :
        o = src /\ n = new /\ n = Other(o) /\ o = Other(n) /\ n # o
  BY SitesTwo DEF TypeOK, new
<1>a. \E keys : ov' = [ov EXCEPT ![n] = keys] \/ ov' = ov
  <2>1. CASE PrebindOn
    BY <1>0, <2>1, SetOverridesIs DEF PrebindOn
  <2>2. CASE PrebindOff
    BY <1>0, <2>2, SetOverridesIs DEF PrebindOff
  <2>3. CASE PrebindBound \/ PrebindStopped
    BY <2>3 DEF PrebindBound, PrebindStopped
  <2> QED BY <2>1, <2>2, <2>3
<1>b. UNCHANGED <<gitHome, settings, desired, pod, dbspec, role, tokenOut, src>>
  BY DEF PrebindOn, PrebindBound, PrebindOff, PrebindStopped, TakenForStopped
<1>c. strays \subseteq strays'
  BY DEF PrebindOn, PrebindBound, PrebindOff, PrebindStopped, TakenForStopped
<1>1. /\ UNCHANGED <<gitHome, settings, desired, pod, dbspec, role, tokenOut, src>>
      /\ strays \subseteq strays' /\ ov'[o] = ov[o]
  BY <1>0, <1>a, <1>b, <1>c DEF TypeOK
<1>2. \/ pc = "prebind" /\ pc' = "prebindKs" /\ ov'[n].replicas = "1"
      \/ pc = "prebindWait" /\ pc' = "prebindOff" /\ ov' = ov
      \/ pc = "prebindOff" /\ pc' = "prebindOffKs" /\ ov'[n].replicas = "0"
      \/ pc = "prebindOffWait" /\ pc' = "copy" /\ ov' = ov /\ TakenForStopped(n)
  <2>1. ov \in [Sites -> Keys] /\ ReplicasKey("0").replicas = "0" /\ ReplicasKey("1").replicas = "1"
    BY DEF TypeOK, ReplicasKey, NoKeys
  <2>2. CASE PrebindOn
    BY <1>0, <2>1, <2>2, SetOverridesIs DEF PrebindOn
  <2>3. CASE PrebindOff
    BY <1>0, <2>1, <2>3, SetOverridesIs DEF PrebindOff
  <2>4. CASE PrebindBound
    BY <2>4 DEF PrebindBound
  <2>5. CASE PrebindStopped
    BY <1>0, <2>5 DEF PrebindStopped
  <2> QED BY <2>2, <2>3, <2>4, <2>5
<1>3. Prebind /\ Clusters = {} /\ ov[o].replicas = "0" /\ desired[o] = "0" /\ ~runs(o)
  BY <1>0, <1>2 DEF Planned, PrebindPlace, OldSiteStopped, runs, live, PrebindSteps, BeforePromotion
<1>4. ~MayRun(o)'
  BY <1>1, <1>3, SitesTwo DEF MayRun, runs, live
<1>5. Exclusive'
  BY <1>0, <1>3, <1>4, SitesTwo DEF Exclusive, Sites
<1>6. NewSiteOff'
  <2>1. pc' = "copy" => ~MayRun(n)'
    <3>1. TakenForStopped(n) => ~runs(n)'
      <4>1. SeenStopped(n) => pod[n] = "none"
        BY DEF SeenStopped, Planned, TypeOK
      <4> QED BY <4>1 DEF TakenForStopped, runs, live
    <3>3. pc = "prebindOffWait" => desired[n] = "0"
      BY <1>0 DEF PrebindPlace
    <3>2. pc = "prebindOffWait" => ov[n].replicas = "0"
      BY <1>0 DEF RunsAsTold, PrebindEnding
    <3> QED BY <1>1, <1>2, <3>1, <3>2, <3>3, SitesTwo DEF MayRun
  <2>2. pc' \in NewOff => pc' = "copy"
    BY <1>2 DEF NewOff, BeforePromotion
  <2> QED BY <1>0, <1>1, <1>3, <2>1, <2>2 DEF NewSiteOff, new
<1>7. OldSiteStopped' /\ PrebindPlace'
  BY <1>0, <1>1, <1>2, <1>3 DEF OldSiteStopped, runs, live, PrebindPlace
<1>8. OldSiteDemoted' /\ ClearInPlace'
  BY <1>1, <1>2 DEF OldSiteDemoted, ClearInPlace, InRecovery, ClearSteps
<1>9. RunsAsTold'
  <2>1. new' = n
    BY <1>0, <1>1 DEF new
  <2>2. CASE pc' = "prebindKs"
    BY <1>2, <2>1, <2>2 DEF RunsAsTold, PrebindEnding, Told
  <2>3. CASE pc' = "prebindOff"
    BY <1>0, <1>1, <1>2, <2>1, <2>3
    DEF RunsAsTold, PrebindEnding, AfterPromotion, Told, MayRun, runs, live
  <2>4. CASE pc' = "prebindOffKs"
    BY <1>2, <2>1, <2>4 DEF RunsAsTold, PrebindEnding
  <2>5. CASE pc' = "copy"
    BY <1>6, <2>5, ToldBefore DEF BeforePromotion
  <2> QED BY <1>2, <2>2, <2>3, <2>4, <2>5
<1> QED BY <1>5, <1>6, <1>7, <1>8, <1>9

LEMMA InvTool == ASSUME Planned, IInv, ToolNext PROVE IInv'
<1>1. TypeOK'
  BY TypeTool DEF IInv
<1>2. \/ Aborted \/ Stopped \/ Snapshotted \/ Restored \/ CopyFails \/ RolledBack
      \/ Copied \/ PrimarySeen \/ Switched \/ TimesOut \/ KubectlFails \/ Crash
      \/ \E p \in Pvcs : CopyPvc(p)
      => SitesKept
  BY DEF SitesKept, Aborted, Stopped, Snapshotted, Restored, CopyFails, RolledBack, Copied,
       PrimarySeen, Switched, TimesOut, KubectlFails, Crash, CopyPvc, LeaveRestore,
       TakenForStopped
<1> QED
  BY <1>1, <1>2, InvPreflight, InvSwitchKept, InvOldKeys, InvAppReconcile, InvPrebind,
     InvDbReconcile, InvTokenRead, InvPromoteNew, InvClear, InvClearSteps, InvClearKeys,
     InvClearReconcile
  DEF ToolNext

LEMMA InvInit == ASSUME Planned, Init PROVE IInv
<1>1. TypeOK
  BY TypeInit
<1>2. PICK home \in Sites : Init!(home)
  BY DEF Init
<1>3. \A s \in Sites \ {home} : ~MayRun(s) /\ \A c \in Clusters : ~MayLead(s, c)
  BY <1>2, SitesTwo DEF MayRun, MayLead, runs, live, InRecovery, NoKeys
<1>4. Exclusive
  BY <1>3, SitesTwo DEF Exclusive, Sites
<1>5. RunsAsTold
  <2>1. new \in Sites \ {home} /\ pc = "idle"
    BY <1>2, SitesTwo DEF new
  <2> QED BY <1>3, <2>1 DEF RunsAsTold, AfterPromotion, PrebindEnding
<1> QED
  BY <1>1, <1>2, <1>4, <1>5
  DEF IInv, NewSiteOff, NewOff, OldSiteStopped, runs, live, OldSiteDemoted, ClearInPlace, PrebindPlace,
      BeforePromotion, ClearSteps, PrebindSteps

LEMMA InvNext == ASSUME Planned, IInv, [Next]_vars PROVE IInv'
<1>1. ASSUME UNCHANGED vars PROVE IInv'
  BY <1>1 DEF IInv, vars, TypeOK, Exclusive, NewSiteOff, OldSiteStopped, runs, live, OldSiteDemoted,
       ClearInPlace, PrebindPlace, RunsAsTold, Told, MayRun, MayLead, runs, live, InRecovery, EffReplicas,
       EffPrimary, new
<1> QED BY <1>1, InvEnv, InvTool DEF Next

LEMMA InvImplies ==
  ASSUME IInv
  PROVE  OneRunner /\ OnePrimary
<1>1. OneRunner
  <2>1. ASSUME live(Wsl1), live(Wsl2) PROVE \E s \in strays : desired[s] = "0"
    <3>1. PICK s \in Sites : ~MayRun(s)
      BY SitesTwo DEF IInv, Exclusive
    <3>2. live(s) /\ desired[s] = "0"
      BY <2>1, <3>1 DEF Sites, MayRun, IInv, TypeOK
    <3> QED BY <3>1, <3>2 DEF MayRun, runs
  <2> QED BY <2>1 DEF OneRunner
<1>2. OnePrimary
  BY SitesTwo DEF IInv, Exclusive, MayLead, OnePrimary, Other
<1> QED BY <1>1, <1>2

\* The app's workloads never run at both sites, but for one that a failed read took
\* for stopped and that is told to stop: for any number of PVCs and of Postgres
\* clusters (none included), whenever the tool dies, whatever Flux applies in between,
\* and even when a switchover is started the wrong way or `clear` is run before a
\* promotion has finished.
THEOREM OneRunnerCorrect == ASSUME Planned PROVE Spec => []OneRunner
<1>1. Init => IInv
  BY InvInit
<1>2. IInv /\ [Next]_vars => IInv'
  BY InvNext
<1>3. IInv => OneRunner
  BY InvImplies
<1> QED BY <1>1, <1>2, <1>3, PTL DEF Spec

\* Under the same assumptions a planned switchover never splits a database: none
\* of the app's Postgres clusters is a primary at both sites.
THEOREM OnePrimaryCorrect == ASSUME Planned PROVE Spec => []OnePrimary
<1>1. Init => IInv
  BY InvInit
<1>2. IInv /\ [Next]_vars => IInv'
  BY InvNext
<1>3. IInv => OnePrimary
  BY InvImplies
<1> QED BY <1>1, <1>2, <1>3, PTL DEF Spec

\* While `clear` is at work git and the overrides agree, before and after the step.
LEMMA ClearStep ==
  ASSUME IInv, IInv', Next, Planned, pc \in ClearSteps
  PROVE  PlacementKept
<1> USE DEF ClearSteps
<1>1. UNCHANGED gitHome /\ (pc' \in ClearSteps \/ UNCHANGED <<ov, settings>>)
  <2>1. CASE EnvNext
    <3>1. pc' = pc
      BY <2>1, EnvKeeps
    <3>2. gitHome' = gitHome
      BY <2>1, EnvKeeps DEF MakePermanent, ClearSteps
    <3> QED BY <3>1, <3>2
  <2>2. CASE ToolNext
    <3>1. \/ NothingToClear \/ ClearConfirmed \/ ClearGit \/ ClearKeys \/ ClearReconcile \/ Crash
      BY <2>2
      DEF ToolNext, Preflight, Aborted, StopOld, AppReconcile, AppReconciles, Stopped, PrebindOn,
          PrebindBound, PrebindOff, PrebindStopped, CopyPvc, Snapshotted, Restored, CopyFails,
          PrebindSteps, Rollback, RolledBack, Copied, DemoteOld, DbReconcile, DbReconciles,
          TokenRead, PromoteNew, PrimarySeen, Switched, TimesOut, KubectlFails, CopySteps, Clear
    <3> QED
      BY <3>1 DEF NothingToClear, ClearConfirmed, ClearGit, ClearKeys, ClearReconcile, Crash,
           NextSite
  <2> QED BY <2>1, <2>2 DEF Next
<1>2. CASE pc' \in ClearSteps
  BY <1>1, <1>2 DEF IInv, ClearInPlace, PlacementKept
<1>3. CASE UNCHANGED <<ov, settings>>
  BY <1>3 DEF PlacementKept, EffReplicas, EffPrimary
<1> QED BY <1>1, <1>2, <1>3

\* `clear` never moves an app, wherever it or the tool stops: each of its
\* steps leaves what each site's Flux is told as it was.
THEOREM ClearKeepsPlacementCorrect == ASSUME Planned PROVE Spec => ClearKeepsPlacement
<1>1. Init => IInv
  BY InvInit
<1>2. IInv /\ [Next]_vars => IInv'
  BY InvNext
<1>3. IInv /\ IInv' /\ [Next]_vars => [(pc \in ClearSteps) => PlacementKept]_vars
  BY ClearStep
<1> QED BY <1>1, <1>2, <1>3, PTL DEF Spec, ClearKeepsPlacement

-----------------------------------------------------------------------------
(* Where every read of a workload is answered, nothing is exempt            *)

StraysRead == "unread" \notin Faults => strays = {} /\ spoilt = {}

LEMMA StraysInit == Init => StraysRead
  BY DEF Init, StraysRead

LEMMA StraysEnv == ASSUME StraysRead, EnvNext PROVE StraysRead'
<1>1. PICK s \in Sites :
        \/ FluxSettings(s) \/ FluxApp(s) \/ PodStart(s) \/ PodStop(s) \/ PodGone(s)
        \/ MakePermanent(s)
        \/ \E c \in Clusters : FluxDb(s, c) \/ WriteDb(s, c) \/ Replay(s, c)
                               \/ Demote(s, c) \/ Promote(s, c)
        \/ \E p \in Pvcs : WritePvc(s, p) \/ OrphanEnds(s, p)
  BY DEF EnvNext
<1> QED
  BY <1>1 DEF StraysRead, FluxSettings, FluxApp, PodStart, PodStop, PodGone, SetPod,
     MakePermanent, FluxDb, WriteDb, Replay, Demote, Promote, WritePvc, OrphanEnds, SetHolds

LEMMA StraysTool == ASSUME StraysRead, ToolNext PROVE StraysRead'
<1>1. CASE Stopped \/ PrebindStopped
  BY <1>1 DEF Stopped, PrebindStopped, TakenForStopped, DeploymentsStopped, StraysRead
<1>2. CASE ~(Stopped \/ PrebindStopped)
  <2>1. UNCHANGED <<strays, spoilt>>
    BY <1>2 DEF ToolNext, Preflight, Aborted, StopOld, AppReconcile, PrebindOn, PrebindBound,
       PrebindOff, CopyPvc, Snapshotted, Restored, CopyFails, Rollback, RolledBack, Copied,
       DemoteOld, DbReconcile, TokenRead, PromoteNew, PrimarySeen, Switched, TimesOut,
       KubectlFails, Crash, Clear, NothingToClear, ClearConfirmed, ClearGit, ClearKeys,
       ClearReconcile
  <2> QED BY <2>1 DEF StraysRead
<1> QED BY <1>1, <1>2

LEMMA StraysNext == ASSUME StraysRead, [Next]_vars PROVE StraysRead'
<1>1. CASE UNCHANGED vars
  BY <1>1 DEF vars, StraysRead
<1> QED BY <1>1, StraysEnv, StraysTool DEF Next

\* Where every read of a workload is answered no app is taken for stopped while it runs
\* and none writes a PVC after that: OneRunner, NoLostWrite, RunsOnCurrentData and
\* ImplementsSingleWriter then hold without their exceptions.
THEOREM StraysReadCorrect == Spec => []StraysRead
  BY StraysInit, StraysNext, PTL DEF Spec

=============================================================================
