----------------------- MODULE SiteFailoverDataProofs -----------------------
(* Theorems about the data SiteFailover moves: no acknowledged write is lost, *)
(* and a planned move implements SingleWriter.                                *)
EXTENDS SiteFailoverProofs

USE DEF Goto, KeepEnv, envVars, toolVars

\* The copy of d at s (or in transit) has every acknowledged write.  Of a PVC that an
\* app taken for stopped has written nothing is said.
Complete(s, d) == d \in spoilt \/ s \in holds[d]

USE DEF Complete

\* An operator who does as multi-site.md says: `clear` waits for the promotion, and a
\* switchover for the Restore an earlier one gave up on.  What is left of the faults:
\* the tool dies, kubectl fails, a failed read passes a running app for stopped, and a
\* switchover starts the wrong way; the tool that moves
\* a prebound app comes to its end, by the switchover or by its rollback.
Careful == Planned /\ PrebindEnds /\ "earlyClear" \notin Faults /\ "lateRestore" \notin Faults

-----------------------------------------------------------------------------
(* Why every store has a complete copy, and the site that may write has one *)

\* Whoever may run the app, or lead one of its clusters, has all PVCs complete: all but
\* the site of a prebind, whose writes are not kept.
MayMeansCurrent ==
  \A s \in Sites :
    (MayRun(s) /\ ~Scratch(s)) \/ (\E c \in Clusters : MayLead(s, c)) => \A p \in Pvcs : Complete(s, p)

PrimaryCurrent == \A s \in Sites, c \in Clusters : ~InRecovery(s, c) => s \in holds[c]

\* A cluster that is a primary nowhere was demoted: its token covers every write.
TokenCovers ==
  \A c \in Clusters : (\A s \in Sites : InRecovery(s, c)) => InTransit \in holds[c]

\* Nothing Flux may yet apply promotes the cluster at s without its token.
TokenNeeded(s, c) ==
  /\ dbspec[s][c].primary = s => dbspec[s][c].token
  /\ ov[s].primary = s => c \in ov[s].tokens
  /\ ov[s].primary = Unset => s \notin {settings[s], gitHome}

NoBarePromotion ==
  \A s \in Sites, c \in Clusters :
    InRecovery(s, c) => s \in holds[c] \/ TokenNeeded(s, c)

\* Up to the promotion the old site's copies are complete; those of the new site
\* become so one PVC after the other.
OldSiteCurrent == pc \in BeforePromotion \cup PrebindSteps => \A d \in Data : Complete(src, d)

NewSiteFilled ==
  /\ pc \in {"prebind"} \cup PrebindSteps => left = Pvcs
  /\ pc \in {"copy", "snapshot", "restore"} => \A p \in Pvcs \ left : Complete(new, p)
  /\ pc = "restore" => Complete(InTransit, cur)
  /\ pc \in {"demote", "demoteKs", "token", "promote"} => \A p \in Pvcs : Complete(new, p)

\* A Restore that nobody waits for goes to a site where nothing may run, and to the
\* new one if a switchover is rolled back; none goes on during the copy.
OrphansEnded ==
  /\ pc \in BeforePromotion => \A p \in Pvcs : <<src, p>> \notin orphans
  /\ pc \in (BeforePromotion \ {"rollback", "rollbackKs", "rollbackWait"}) \cup PrebindSteps =>
       orphans = {}

OrphansHarmless ==
  \A s \in Sites, p \in Pvcs : <<s, p>> \in orphans =>
    /\ ~MayRun(s) /\ \A c \in Clusters : ~MayLead(s, c)
    /\ Complete(Other(s), p) /\ <<Other(s), p>> \notin orphans

\* Where the new site isn't told to run the app, the old one can take it back.
OldSiteKept == ~Told(new) => \A p \in Pvcs : Complete(src, p) /\ <<src, p>> \notin orphans

ClearKeepsCurrent == pc \in ClearSteps => \A c \in Clusters : gitHome \in holds[c]

DInv ==
  /\ IInv /\ NoLostWrite
  /\ MayMeansCurrent /\ PrimaryCurrent /\ TokenCovers /\ NoBarePromotion
  /\ OldSiteCurrent /\ NewSiteFilled
  /\ OrphansEnded /\ OrphansHarmless /\ ClearKeepsCurrent /\ OldSiteKept

LEMMA AppliedFields ==
  ASSUME NEW s, NEW c
  PROVE  Applied(s, c).primary = EffPrimary(s) /\ (Applied(s, c).token <=> c \in ov[s].tokens)
<1>1. Applied(s, c).primary = EffPrimary(s)
  BY DEF Applied
<1>2. Applied(s, c).token <=> c \in ov[s].tokens
  BY Zenon DEF Applied
<1> QED BY <1>1, <1>2

LEMMA AppliedNeedsToken ==
  ASSUME NEW s \in Sites, NEW c \in Clusters, TokenNeeded(s, c),
         dbspec'[s][c] = Applied(s, c), UNCHANGED <<ov, settings, gitHome>>
  PROVE  TokenNeeded(s, c)'
<1>1. EffPrimary(s) = s => c \in ov[s].tokens
  BY DEF TokenNeeded, EffPrimary
<1>2. dbspec'[s][c].primary = EffPrimary(s) /\ (dbspec'[s][c].token <=> c \in ov[s].tokens)
  BY AppliedFields
<1>3. dbspec'[s][c].primary = s => dbspec'[s][c].token
  BY <1>1, <1>2, Zenon
<1>4. UNCHANGED <<ov, settings, gitHome>>
  OBVIOUS
<1> QED BY <1>3, <1>4, Zenon DEF TokenNeeded

\* Steps after which no site may do more, on the data there was.
DataKept == UNCHANGED <<role, holds, orphans, spoilt>>

\* Nor does a prebind end with the step.
ScratchKept == pc \in PrebindSteps => pc' \in PrebindSteps /\ src' = src

LEMMA DataKeptShrinks ==
  ASSUME DInv, Shrinks, DataKept, ScratchKept
  PROVE  /\ NoLostWrite' /\ MayMeansCurrent' /\ PrimaryCurrent' /\ TokenCovers'
         /\ OrphansHarmless'
<1> USE DEF DInv, DataKept
<1>1. NoLostWrite' /\ PrimaryCurrent' /\ TokenCovers'
  BY DEF NoLostWrite, PrimaryCurrent, TokenCovers, InRecovery
<1>2. MayMeansCurrent' /\ OrphansHarmless'
  BY DEF MayMeansCurrent, OrphansHarmless, Shrinks, ScratchKept, Scratch
<1> QED BY <1>1, <1>2

\* What the tool's place says, when it stays where it is and the data too.
LEMMA PlaceKept ==
  ASSUME DInv, DataKept, UNCHANGED <<pc, src, left, cur>>,
         pc \in ClearSteps => UNCHANGED gitHome
  PROVE  OldSiteCurrent' /\ NewSiteFilled' /\ OrphansEnded' /\ ClearKeepsCurrent'
  BY DEF DInv, DataKept, OldSiteCurrent, NewSiteFilled, OrphansEnded, ClearKeepsCurrent, new

\* The old site can take the app back as long as its copies and the keys stay.
LEMMA OldKeptPlain ==
  ASSUME OldSiteKept, UNCHANGED <<src, gitHome>>, ov'[new] = ov[new],
         \A p \in Pvcs : Complete(src, p) => p \in spoilt' \/ src \in holds'[p],
         \A p \in Pvcs : <<src, p>> \in orphans' => <<src, p>> \in orphans
  PROVE  OldSiteKept'
<1>1. (Told(new)' <=> Told(new)) /\ src' = src
  BY DEF Told, new
<1> QED BY <1>1 DEF OldSiteKept

LEMMA OldKeptBefore ==
  ASSUME OldSiteCurrent', OrphansEnded', pc' \in BeforePromotion
  PROVE  OldSiteKept'
BY DEF OldSiteCurrent, OrphansEnded, OldSiteKept, Data

\* Where the app may run, no Restore goes on.
LEMMA MayRunKept ==
  ASSUME DInv, NEW s \in Sites, MayRun(s), ~Scratch(s)
  PROVE  \A p \in Pvcs : Complete(s, p) /\ <<s, p>> \notin orphans
BY DEF DInv, MayMeansCurrent, OrphansHarmless

\* Flux, the workloads and the pull request move no data.
LEMMA DataFlux ==
  ASSUME Careful, DInv, NEW s \in Sites,
         \/ FluxSettings(s) \/ FluxApp(s) \/ PodStart(s) \/ PodStop(s) \/ PodGone(s)
         \/ MakePermanent(s) \/ \E c \in Clusters : FluxDb(s, c)
  PROVE  DInv'
<1> USE DEF DInv
<1>1. EnvNext /\ Next
  BY DEF EnvNext, Next
<1>2. IInv' /\ Shrinks
  BY <1>1, InvEnv, EnvShrinks DEF Careful
<1>3. DataKept /\ UNCHANGED <<pc, src, left, cur>>
  BY DEF FluxSettings, FluxApp, PodStart, PodStop, PodGone, SetPod, MakePermanent, FluxDb,
       DataKept
<1>b. ScratchKept
  BY <1>3 DEF ScratchKept
<1>a. pc \in ClearSteps => UNCHANGED gitHome
  BY DEF FluxSettings, FluxApp, PodStart, PodStop, PodGone, SetPod, MakePermanent, FluxDb,
       ClearSteps
<1>4. NoBarePromotion'
  <2>1. CASE FluxSettings(s)
    <3>1. settings'[s] = gitHome /\ \A t \in Sites \ {s} : settings'[t] = settings[t]
      BY <2>1 DEF FluxSettings, TypeOK, IInv
    <3> QED BY <2>1, <3>1 DEF FluxSettings, NoBarePromotion, TokenNeeded, InRecovery
  <2>2. CASE FluxApp(s) \/ PodStart(s) \/ PodStop(s) \/ PodGone(s)
    BY <2>2 DEF FluxApp, PodStart, PodStop, PodGone, SetPod, NoBarePromotion, TokenNeeded,
         InRecovery
  <2>3. CASE MakePermanent(s)
    <3>1. Clusters # {} => EffPrimary(s) = s
      BY <2>3 DEF MakePermanent, RunsOnlyAt
    <3>2. Clusters # {} /\ ov[s].primary = Unset => settings[s] = s
      BY <3>1 DEF EffPrimary
    <3> QED
      BY <2>3, <3>2 DEF MakePermanent, NoBarePromotion, TokenNeeded, InRecovery
  <2>4. ASSUME NEW c \in Clusters, FluxDb(s, c) PROVE NoBarePromotion'
    <3>1. /\ dbspec'[s][c] = Applied(s, c)
          /\ \A t \in Sites, d \in Clusters : t # s \/ d # c => dbspec'[t][d] = dbspec[t][d]
          /\ UNCHANGED <<ov, settings, gitHome, role, holds>>
      BY <2>4 DEF FluxDb, TypeOK, IInv
    <3>2. TokenNeeded(s, c) => TokenNeeded(s, c)'
      BY <3>1, AppliedNeedsToken
    <3>3. \A t \in Sites, d \in Clusters :
            (t # s \/ d # c) /\ TokenNeeded(t, d) => TokenNeeded(t, d)'
      BY <3>1 DEF TokenNeeded
    <3> QED BY <3>1, <3>2, <3>3 DEF NoBarePromotion, InRecovery
  <2> QED BY <2>1, <2>2, <2>3, <2>4
<1>5. OldSiteKept'
  <2>1. CASE UNCHANGED <<gitHome, ov>>
    BY <1>3, <2>1, OldKeptPlain DEF DataKept
  <2>2. CASE MakePermanent(s)
    <3>1. gitHome' = s /\ UNCHANGED ov /\ EffReplicas(s) = "1"
      BY <2>2 DEF MakePermanent, RunsOnlyAt
    <3>2. Told(s)' /\ MayRun(s) /\ ~Scratch(s)
      BY <2>2, <3>1, EffMeansMay DEF Told, EffReplicas, IInv, MakePermanent, Scratch, PrebindSteps
    <3>3. s = src \/ s = new'
      BY <1>3, SitesTwo DEF new, IInv, TypeOK
    <3>4. \A p \in Pvcs : Complete(s, p)' /\ <<s, p>> \notin orphans'
      BY <1>3, <3>2, MayRunKept DEF DataKept
    <3> QED BY <1>3, <3>2, <3>3, <3>4 DEF OldSiteKept
  <2> QED
    BY <2>1, <2>2 DEF FluxSettings, FluxApp, PodStart, PodStop, PodGone, SetPod, FluxDb
<1> QED BY <1>2, <1>3, <1>a, <1>b, <1>4, <1>5, DataKeptShrinks, PlaceKept

\* A write of the app's: it runs nowhere else, and no switchover is copying.
LEMMA DataWritePvc ==
  ASSUME Careful, DInv, NEW s \in Sites, NEW p \in Pvcs, WritePvc(s, p), ~Scratch(s),
         p \notin spoilt'
  PROVE  DInv'
<1> USE DEF DInv
<1>1. EnvNext /\ Next
  BY DEF EnvNext, Next
<1>2. IInv' /\ Shrinks
  BY <1>1, InvEnv, EnvShrinks DEF Careful
<1>3. PICK o \in Sites : o = Other(s) /\ s = Other(o) /\ o # s /\ \A t \in Sites : t \in {s, o}
  BY SitesTwo
<1>0. spoilt' = spoilt /\ runs(s)
  BY DEF WritePvc, runs
<1>4. MayRun(s) /\ s \in holds[p] /\ ~Scratch(s) /\ p \in Data /\ p \notin Clusters
  BY <1>0, DataAssumption DEF MayRun, MayMeansCurrent, Data
<1>5. ~MayRun(o) /\ \A c \in Clusters : ~MayLead(o, c)
  BY <1>3, <1>4, SitesTwo DEF IInv, Exclusive, Sites, Other
<1>6. /\ holds'[p] = {s}
      /\ \A d \in Data \ {p} : holds'[d] = holds[d]
      /\ UNCHANGED <<gitHome, settings, ov, dbspec, role, orphans, spoilt, pc, src, left, cur>>
  BY <1>0, <1>4 DEF WritePvc, WrittenAt, SetHolds, IInv, TypeOK
<1>7. \A c \in Clusters : holds'[c] = holds[c]
  BY <1>4, <1>6 DEF Data
<1>8. NoLostWrite'
  BY <1>6 DEF NoLostWrite
<1>9. PrimaryCurrent' /\ TokenCovers' /\ NoBarePromotion' /\ ClearKeepsCurrent'
  BY <1>6, <1>7 DEF PrimaryCurrent, TokenCovers, NoBarePromotion, TokenNeeded, InRecovery,
       ClearKeepsCurrent
<1>10. MayMeansCurrent'
  <2> SUFFICES ASSUME NEW t \in Sites, MayRun(t)' \/ \E c \in Clusters : MayLead(t, c)',
                      NEW q \in Pvcs
               PROVE  Complete(t, q)'
    BY DEF MayMeansCurrent
  <2>1. t # o
    BY <1>2, <1>5 DEF Shrinks
  <2>3. t = s /\ Complete(t, q)
    BY <1>3, <1>4, <2>1 DEF MayMeansCurrent
  <2> QED BY <1>6, <2>3 DEF Data
<1>11. OldSiteCurrent' /\ NewSiteFilled'
  <2>1. pc \in BeforePromotion \cup PrebindSteps => s = src
    <3>1. pc \in BeforePromotion => s # new
      BY <1>4 DEF IInv, NewSiteOff, NewOff, Careful
    <3>2. pc \in PrebindSteps => s # new
      BY <1>4 DEF Scratch, new
    <3> QED BY <3>1, <3>2, SitesTwo DEF new, IInv, TypeOK
  <2>2. pc \notin {"copy", "snapshot", "restore", "demote", "demoteKs", "token", "promote"}
    BY <1>0, <2>1 DEF IInv, OldSiteStopped, BeforePromotion
  <2> QED BY <1>6, <2>1, <2>2 DEF OldSiteCurrent, NewSiteFilled
<1>12. OrphansEnded' /\ OrphansHarmless'
  <2>1. OrphansEnded'
    BY <1>6 DEF OrphansEnded
  <2> SUFFICES ASSUME NEW t \in Sites, NEW q \in Pvcs, <<t, q>> \in orphans
               PROVE  /\ ~MayRun(t)' /\ \A c \in Clusters : ~MayLead(t, c)'
                      /\ Complete(Other(t), q)'
    BY <1>6, <2>1 DEF OrphansHarmless
  <2>2. ~MayRun(t) /\ (\A c \in Clusters : ~MayLead(t, c)) /\ Complete(Other(t), q)
    BY DEF OrphansHarmless
  <2>3. Other(t) = s
    BY <1>3, <1>4, <2>2
  <2> QED BY <1>2, <1>6, <2>2, <2>3 DEF Shrinks, Data
<1>13. OldSiteKept'
  <2>1. CASE s = new
    <3>1. pc \notin PrebindEnding
      BY <1>4, <2>1 DEF Scratch, PrebindSteps, PrebindEnding, new
    <3>2. Told(new)
      BY <1>4, <2>1, <3>1 DEF IInv, RunsAsTold, Careful
    <3> QED BY <1>6, <3>2 DEF OldSiteKept, Told, new
  <2>2. CASE s # new
    <3>1. s = src
      BY <2>2, SitesTwo DEF IInv, TypeOK, new
    <3>2. \A q \in Pvcs : Complete(src, q) => Complete(src, q)'
      BY <1>6, <3>1 DEF Data
    <3> QED BY <1>6, <3>2, OldKeptPlain
  <2> QED BY <2>1, <2>2
<1> QED BY <1>2, <1>8, <1>9, <1>10, <1>11, <1>12, <1>13

\* A write of the app's in a prebind spoils a copy that is going to be overwritten.
LEMMA DataWriteScratch ==
  ASSUME Careful, DInv, NEW s \in Sites, NEW p \in Pvcs, WritePvc(s, p), Scratch(s),
         p \notin spoilt'
  PROVE  DInv'
<1> USE DEF DInv
<1>1. EnvNext /\ Next
  BY DEF EnvNext, Next
<1>2. IInv' /\ Shrinks
  BY <1>1, InvEnv, EnvShrinks DEF Careful
<1>3. /\ pc \in PrebindSteps /\ s = new /\ src \in Sites /\ src # s /\ p \in Data /\ p \notin Clusters
      /\ pc \notin BeforePromotion
  BY DataAssumption, SitesTwo
  DEF Scratch, new, Data, IInv, TypeOK, BeforePromotion, PrebindSteps
<1>4. /\ holds'[p] = holds[p] \ {s}
      /\ \A d \in Data \ {p} : holds'[d] = holds[d]
      /\ UNCHANGED <<gitHome, settings, ov, dbspec, role, orphans, spoilt, pc, src, left, cur>>
  BY <1>3 DEF WritePvc, WrittenAt, SetHolds, IInv, TypeOK, Scratch
<1>5. \A d \in Data : Complete(src, d)'
  BY <1>3, <1>4 DEF OldSiteCurrent
<1>6. \A c \in Clusters : holds'[c] = holds[c]
  BY <1>3, <1>4 DEF Data
<1>7. NoLostWrite' /\ OldSiteCurrent'
  BY <1>3, <1>4, <1>5 DEF NoLostWrite, OldSiteCurrent
<1>8. PrimaryCurrent' /\ TokenCovers' /\ NoBarePromotion' /\ ClearKeepsCurrent'
  BY <1>4, <1>6 DEF PrimaryCurrent, TokenCovers, NoBarePromotion, TokenNeeded, InRecovery,
       ClearKeepsCurrent
<1>9. MayMeansCurrent'
  <2>1. \A t \in Sites : ~Scratch(t)' => t = src
    BY <1>3, <1>4, SitesTwo DEF Scratch, new
  <2>2. Clusters = {}
    BY <1>3 DEF IInv, PrebindPlace, Careful, Planned
  <2>3. src' = src /\ spoilt' = spoilt /\ \A q \in Pvcs : Complete(src, q)'
    BY <1>4, <1>5 DEF Data
  <2> QED BY <2>1, <2>2, <2>3 DEF MayMeansCurrent
<1>10. NewSiteFilled' /\ OrphansEnded'
  BY <1>3, <1>4 DEF NewSiteFilled, OrphansEnded, PrebindSteps
<1>11. OrphansHarmless'
  BY <1>3, <1>4 DEF OrphansEnded, OrphansHarmless
<1>12. OldSiteKept'
  BY <1>4, <1>5, OldKeptPlain DEF Data
<1> QED BY <1>2, <1>7, <1>8, <1>9, <1>10, <1>11, <1>12

\* A write of an app that was taken for stopped, or to a PVC that one has written.
LEMMA DataWriteSpoilt ==
  ASSUME Careful, DInv, NEW s \in Sites, NEW p \in Pvcs, WritePvc(s, p), p \in spoilt'
  PROVE  DInv'
<1> USE DEF DInv
<1>1. EnvNext /\ Next
  BY DEF EnvNext, Next
<1>2. IInv' /\ Shrinks
  BY <1>1, InvEnv, EnvShrinks DEF Careful
<1>3. p \notin Clusters /\ p \in Data
  BY DataAssumption DEF Data
<1>4. /\ \A d \in Data \ {p} : holds'[d] = holds[d]
      /\ UNCHANGED <<gitHome, settings, ov, dbspec, role, orphans, pc, src, left, cur>>
      /\ spoilt \subseteq spoilt'
  BY <1>3 DEF WritePvc, SetHolds, IInv, TypeOK
<1>5. \A x, d \in Data : Complete(x, d) => d \in spoilt' \/ x \in holds'[d]
  BY <1>4
<1>6. \A c \in Clusters : holds'[c] = holds[c]
  BY <1>3, <1>4 DEF Data
<1>7. NoLostWrite' /\ OldSiteCurrent'
  BY <1>4, <1>5 DEF NoLostWrite, OldSiteCurrent
<1>8. PrimaryCurrent' /\ TokenCovers' /\ NoBarePromotion' /\ ClearKeepsCurrent'
  BY <1>4, <1>6 DEF PrimaryCurrent, TokenCovers, NoBarePromotion, TokenNeeded, InRecovery,
       ClearKeepsCurrent
<1>9. MayMeansCurrent' /\ OrphansHarmless'
  BY <1>2, <1>4, <1>5 DEF MayMeansCurrent, OrphansHarmless, Shrinks, Scratch, Data
<1>10. NewSiteFilled' /\ OrphansEnded'
  <2>1. pc = "restore" => cur \in Data
    BY DEF IInv, TypeOK, Data
  <2> QED BY <1>4, <1>5, <2>1 DEF NewSiteFilled, OrphansEnded, new, Data
<1>11. OldSiteKept'
  BY <1>4, <1>5, OldKeptPlain DEF Data
<1> QED BY <1>2, <1>7, <1>8, <1>9, <1>10, <1>11

\* Likewise of a primary's: the other cluster is a replica nothing may promote.
LEMMA DataWriteDb ==
  ASSUME Careful, DInv, NEW s \in Sites, NEW c \in Clusters, WriteDb(s, c)
  PROVE  DInv'
<1> USE DEF DInv
<1>1. EnvNext /\ Next
  BY DEF EnvNext, Next
<1>2. IInv' /\ Shrinks
  BY <1>1, InvEnv, EnvShrinks DEF Careful
<1>3. PICK o \in Sites : o = Other(s) /\ s = Other(o) /\ o # s /\ \A t \in Sites : t \in {s, o}
  BY SitesTwo
<1>4. MayLead(s, c) /\ s \in holds[c] /\ ~Scratch(s) /\ c \in Data /\ c \notin Pvcs
  BY DataAssumption
  DEF WriteDb, MayLead, PrimaryCurrent, Scratch, IInv, PrebindPlace, Data, Careful, Planned
<1>5. ~MayLead(o, c)
  BY <1>3, <1>4 DEF IInv, Exclusive
<1>6. /\ holds'[c] = {s}
      /\ \A d \in Data \ {c} : holds'[d] = holds[d]
      /\ UNCHANGED <<gitHome, settings, ov, dbspec, role, orphans, spoilt, pc, src, left, cur>>
  BY <1>4 DEF WriteDb, WrittenAt, SetHolds, IInv, TypeOK
<1>7. \A p \in Pvcs : holds'[p] = holds[p]
  BY <1>4, <1>6 DEF Data
<1>8. NoLostWrite'
  BY <1>6 DEF NoLostWrite
<1>9. MayMeansCurrent' /\ NewSiteFilled' /\ OrphansEnded' /\ OrphansHarmless'
  <2>1. cur' = cur /\ (pc = "restore" => cur \in Pvcs)
    BY <1>6 DEF IInv, TypeOK
  <2>2. NewSiteFilled' /\ OrphansEnded'
    BY <1>6, <1>7, <2>1 DEF NewSiteFilled, OrphansEnded, new
  <2>3. MayMeansCurrent' /\ OrphansHarmless'
    BY <1>2, <1>6, <1>7 DEF MayMeansCurrent, OrphansHarmless, Shrinks, Scratch
  <2> QED BY <2>2, <2>3
<1>10. PrimaryCurrent' /\ TokenCovers' /\ NoBarePromotion'
  <2>1. InRecovery(o, c) /\ TokenNeeded(o, c) /\ ~InRecovery(s, c)
    BY <1>3, <1>5, SitesTwo DEF MayLead, TokenNeeded, WriteDb
  <2>2. \A t \in Sites, d \in Clusters :
          /\ InRecovery(t, d)' <=> InRecovery(t, d)
          /\ TokenNeeded(t, d)' <=> TokenNeeded(t, d)
    BY <1>6 DEF InRecovery, TokenNeeded
  <2>3. \A d \in Clusters \ {c} : holds'[d] = holds[d]
    BY <1>6 DEF Data
  <2> QED
    BY <1>3, <1>6, <2>1, <2>2, <2>3 DEF PrimaryCurrent, TokenCovers, NoBarePromotion
<1>11. OldSiteCurrent' /\ ClearKeepsCurrent'
  <2>1. pc \in BeforePromotion \cup PrebindSteps => s = src
    <3>1. pc \in BeforePromotion => s # new
      BY <1>4 DEF IInv, NewSiteOff, NewOff, Careful
    <3>2. pc \notin PrebindSteps
      BY DEF IInv, PrebindPlace, Careful, Planned
    <3> QED BY <3>1, <3>2, SitesTwo DEF new, IInv, TypeOK
  <2>2. pc \in ClearSteps => s = gitHome
    <3>1. pc \in ClearSteps => MayLead(gitHome, c)
      BY EffMeansMay DEF IInv, ClearInPlace, TypeOK
    <3> QED BY <1>3, <1>5, <3>1 DEF IInv, TypeOK
  <2> QED BY <1>6, <2>1, <2>2 DEF OldSiteCurrent, ClearKeepsCurrent, Data
<1>12. OldSiteKept'
  BY <1>6, <1>7, OldKeptPlain
<1> QED BY <1>2, <1>8, <1>9, <1>10, <1>11, <1>12

\* A copy that catches up, and one that is demoted, loses nothing.
LEMMA DataReplay ==
  ASSUME Careful, DInv, NEW s \in Sites, NEW c \in Clusters, Replay(s, c)
  PROVE  DInv'
<1> USE DEF DInv
<1>1. EnvNext /\ Next
  BY DEF EnvNext, Next
<1>2. IInv' /\ Shrinks
  BY <1>1, InvEnv, EnvShrinks DEF Careful
<1>3. c \in Data /\ c \notin Pvcs
  BY DataAssumption DEF Data
<1>4. /\ holds'[c] = holds[c] \cup {s}
      /\ \A d \in Data \ {c} : holds'[d] = holds[d]
      /\ UNCHANGED <<gitHome, settings, ov, dbspec, role, orphans, spoilt, pc, src, left, cur>>
  BY <1>3 DEF Replay, SetHolds, IInv, TypeOK
<1>5. \A d \in Data : holds[d] \subseteq holds'[d]
  BY <1>4
<1>6. \A p \in Pvcs : holds'[p] = holds[p]
  BY <1>3, <1>4 DEF Data
<1>7. NoLostWrite' /\ MayMeansCurrent' /\ OrphansHarmless'
  BY <1>2, <1>4, <1>5, <1>6 DEF NoLostWrite, MayMeansCurrent, OrphansHarmless, Shrinks, Scratch
<1>8. PrimaryCurrent' /\ TokenCovers' /\ NoBarePromotion' /\ ClearKeepsCurrent'
  BY <1>4, <1>5 DEF PrimaryCurrent, TokenCovers, NoBarePromotion, TokenNeeded, InRecovery,
       ClearKeepsCurrent, Data
<1>9. OldSiteCurrent' /\ OrphansEnded'
  BY <1>4, <1>5 DEF OldSiteCurrent, OrphansEnded
<1>10. NewSiteFilled'
  BY <1>4, <1>6 DEF NewSiteFilled, new, IInv, TypeOK
<1>11. OldSiteKept'
  BY <1>4, <1>6, OldKeptPlain
<1> QED BY <1>2, <1>7, <1>8, <1>9, <1>10, <1>11

LEMMA DataDemote ==
  ASSUME Careful, DInv, NEW s \in Sites, NEW c \in Clusters, Demote(s, c)
  PROVE  DInv'
<1> USE DEF DInv
<1>1. EnvNext /\ Next
  BY DEF EnvNext, Next
<1>2. IInv' /\ Shrinks
  BY <1>1, InvEnv, EnvShrinks DEF Careful
<1>3. c \in Data /\ c \notin Pvcs /\ s \in holds[c]
  BY DataAssumption DEF Data, Demote, PrimaryCurrent
<1>4. /\ holds'[c] = holds[c] \cup {InTransit}
      /\ \A d \in Data \ {c} : holds'[d] = holds[d]
      /\ role'[s][c] = "replica"
      /\ \A t \in Sites, d \in Clusters : t # s \/ d # c => role'[t][d] = role[t][d]
      /\ UNCHANGED <<gitHome, settings, ov, dbspec, orphans, spoilt, pc, src, left, cur>>
  BY <1>3 DEF Demote, IInv, TypeOK
<1>5. \A d \in Data : holds[d] \subseteq holds'[d]
  BY <1>4
<1>6. \A p \in Pvcs : holds'[p] = holds[p]
  BY <1>3, <1>4 DEF Data
<1>7. NoLostWrite' /\ MayMeansCurrent' /\ OrphansHarmless'
  BY <1>2, <1>4, <1>5, <1>6 DEF NoLostWrite, MayMeansCurrent, OrphansHarmless, Shrinks, Scratch
<1>8. PrimaryCurrent' /\ TokenCovers' /\ NoBarePromotion' /\ ClearKeepsCurrent'
  <2>1. \A t \in Sites, d \in Clusters :
          InRecovery(t, d)' <=> InRecovery(t, d) \/ (t = s /\ d = c)
    BY <1>4 DEF InRecovery
  <2>2. \A t \in Sites, d \in Clusters : TokenNeeded(t, d)' <=> TokenNeeded(t, d)
    BY <1>4 DEF TokenNeeded
  <2>3. \A d \in Clusters : holds[d] \subseteq holds'[d] /\ (d # c => holds'[d] = holds[d])
    BY <1>4, <1>5 DEF Data
  <2>4. PrimaryCurrent' /\ ClearKeepsCurrent'
    BY <1>4, <2>1, <2>3 DEF PrimaryCurrent, ClearKeepsCurrent
  <2>5. TokenCovers'
    BY <1>4, <2>1, <2>3 DEF TokenCovers
  <2>6. NoBarePromotion'
    BY <1>3, <2>1, <2>2, <2>3 DEF NoBarePromotion
  <2> QED BY <2>4, <2>5, <2>6
<1>9. OldSiteCurrent' /\ OrphansEnded'
  BY <1>4, <1>5 DEF OldSiteCurrent, OrphansEnded
<1>10. NewSiteFilled'
  BY <1>4, <1>6 DEF NewSiteFilled, new, IInv, TypeOK
<1>11. OldSiteKept'
  BY <1>4, <1>6, OldKeptPlain
<1> QED BY <1>2, <1>7, <1>8, <1>9, <1>10, <1>11

\* A promotion with its token waits for the last write; without one it finds a
\* copy that has them all.
LEMMA PromoteCurrent ==
  ASSUME Careful, DInv, NEW s \in Sites, NEW c \in Clusters, Promote(s, c)
  PROVE  s \in holds[c]
<1>1. PICK o \in Sites : o = Other(s) /\ \A t \in Sites : t \in {s, o}
  BY SitesTwo
<1>2. InRecovery(s, c) /\ InRecovery(o, c)
  BY <1>1 DEF Promote, MayLead, DInv, IInv, Exclusive
<1>3. InTransit \in holds[c]
  BY <1>1, <1>2 DEF DInv, TokenCovers
<1>4. s \in holds[c] \/ dbspec[s][c].token
  BY <1>2 DEF DInv, NoBarePromotion, TokenNeeded, Promote
<1> QED BY <1>3, <1>4 DEF Promote

LEMMA DataPromote ==
  ASSUME Careful, DInv, NEW s \in Sites, NEW c \in Clusters, Promote(s, c)
  PROVE  DInv'
<1> USE DEF DInv
<1>1. EnvNext /\ Next
  BY DEF EnvNext, Next
<1>2. IInv' /\ Shrinks
  BY <1>1, InvEnv, EnvShrinks DEF Careful
<1>3. s \in holds[c]
  BY PromoteCurrent
<1>4. /\ role'[s][c] = "primary"
      /\ \A t \in Sites, d \in Clusters : t # s \/ d # c => role'[t][d] = role[t][d]
      /\ UNCHANGED <<gitHome, settings, ov, dbspec, holds, orphans, spoilt, pc, src, left, cur>>
  BY DEF Promote, IInv, TypeOK
<1>5. NoLostWrite' /\ MayMeansCurrent' /\ OrphansHarmless'
  BY <1>2, <1>4 DEF NoLostWrite, MayMeansCurrent, OrphansHarmless, Shrinks, Scratch
<1>6. PrimaryCurrent' /\ TokenCovers' /\ NoBarePromotion'
  <2>1. \A t \in Sites, d \in Clusters :
          InRecovery(t, d)' <=> InRecovery(t, d) /\ ~(t = s /\ d = c)
    BY <1>4 DEF InRecovery
  <2>2. \A t \in Sites, d \in Clusters : TokenNeeded(t, d)' <=> TokenNeeded(t, d)
    BY <1>4 DEF TokenNeeded
  <2> QED
    BY <1>3, <1>4, <2>1, <2>2 DEF PrimaryCurrent, TokenCovers, NoBarePromotion
<1>7. OldSiteCurrent' /\ OrphansEnded' /\ NewSiteFilled' /\ ClearKeepsCurrent'
  BY <1>4 DEF OldSiteCurrent, OrphansEnded, NewSiteFilled, new, ClearKeepsCurrent
<1>8. OldSiteKept'
  BY <1>4, OldKeptPlain
<1> QED BY <1>2, <1>5, <1>6, <1>7, <1>8

\* A Restore left running spoils a copy that no one may use.
LEMMA DataOrphan ==
  ASSUME Careful, DInv, NEW s \in Sites, NEW p \in Pvcs, OrphanEnds(s, p)
  PROVE  DInv'
<1> USE DEF DInv
<1>1. EnvNext /\ Next
  BY DEF EnvNext, Next
<1>2. IInv' /\ Shrinks
  BY <1>1, InvEnv, EnvShrinks DEF Careful
<1>3. PICK o \in Sites : o = Other(s) /\ s = Other(o) /\ o # s /\ \A t \in Sites : t \in {s, o}
  BY SitesTwo
<1>4. p \in Data /\ p \notin Clusters
  BY DataAssumption DEF Data
<1>5. /\ holds'[p] = holds[p] \ {s}
      /\ \A d \in Data \ {p} : holds'[d] = holds[d]
      /\ UNCHANGED <<gitHome, settings, ov, dbspec, role, spoilt, pc, src, left, cur>>
      /\ orphans' \subseteq orphans /\ <<s, p>> \in orphans /\ <<s, p>> \notin orphans'
  BY <1>4 DEF OrphanEnds, IInv, TypeOK
<1>6. ~MayRun(s) /\ (\A c \in Clusters : ~MayLead(s, c)) /\ Complete(o, p)
  BY <1>3, <1>5 DEF OrphansHarmless
<1>7. NoLostWrite'
  BY <1>3, <1>5, <1>6 DEF NoLostWrite
<1>8. \A c \in Clusters : holds'[c] = holds[c]
  BY <1>4, <1>5 DEF Data
<1>9. PrimaryCurrent' /\ TokenCovers' /\ NoBarePromotion' /\ ClearKeepsCurrent'
  BY <1>5, <1>8 DEF PrimaryCurrent, TokenCovers, NoBarePromotion, TokenNeeded, InRecovery,
       ClearKeepsCurrent
<1>10. MayMeansCurrent'
  BY <1>2, <1>5, <1>6 DEF MayMeansCurrent, Shrinks, Scratch, Data
<1>11. pc \notin (BeforePromotion \ {"rollback", "rollbackKs", "rollbackWait"}) \cup PrebindSteps
  BY <1>5 DEF OrphansEnded
<1>12. OrphansEnded' /\ NewSiteFilled'
  BY <1>5, <1>11 DEF OrphansEnded, NewSiteFilled, BeforePromotion
<1>13. OldSiteCurrent'
  <2>1. pc \in BeforePromotion \cup PrebindSteps => s # src
    BY <1>5, <1>11 DEF OrphansEnded
  <2> QED BY <1>5, <2>1 DEF OldSiteCurrent
<1>14. OrphansHarmless'
  <2> SUFFICES ASSUME NEW t \in Sites, NEW q \in Pvcs, <<t, q>> \in orphans'
               PROVE  /\ ~MayRun(t)' /\ \A c \in Clusters : ~MayLead(t, c)'
                      /\ Complete(Other(t), q)' /\ <<Other(t), q>> \notin orphans'
    BY DEF OrphansHarmless
  <2>1. /\ ~MayRun(t) /\ \A c \in Clusters : ~MayLead(t, c)
        /\ Complete(Other(t), q) /\ <<Other(t), q>> \notin orphans
    BY <1>5 DEF OrphansHarmless
  <2>2. q # p
    BY <1>3, <1>5, <2>1
  <2> QED BY <1>2, <1>5, <2>1, <2>2 DEF Shrinks, Data
<1>15. OldSiteKept'
  <2>1. CASE Told(new)
    BY <1>5, <2>1 DEF OldSiteKept, Told, new
  <2>2. CASE ~Told(new)
    <3>1. <<src, p>> \notin orphans
      BY <2>2 DEF OldSiteKept
    <3>2. s # src
      BY <1>5, <3>1
    <3>3. \A q \in Pvcs : Complete(src, q) => Complete(src, q)'
      BY <1>5, <3>2 DEF Data
    <3> QED BY <1>5, <3>3, OldKeptPlain
  <2> QED BY <2>1, <2>2
<1> QED BY <1>2, <1>7, <1>9, <1>10, <1>12, <1>13, <1>14, <1>15


LEMMA DataEnv == ASSUME Careful, DInv, EnvNext PROVE DInv'
  BY DataFlux, DataWritePvc, DataWriteScratch, DataWriteSpoilt, DataWriteDb, DataReplay, DataDemote, DataPromote, DataOrphan
  DEF EnvNext

\* Steps of the tool that move no data and tell Flux nothing.
LEMMA SitesKeptBare == ASSUME DInv, DataKept, SitesKept PROVE NoBarePromotion'
  BY DEF DInv, DataKept, SitesKept, NoBarePromotion, TokenNeeded, InRecovery

LEMMA DataSwitchKept ==
  ASSUME Careful, DInv, Next,
         \/ Aborted \/ Stopped \/ RolledBack \/ Copied \/ PrimarySeen \/ Switched
         \/ TimesOut \/ (\E p \in Pvcs : CopyPvc(p)) \/ \E c \in Clusters : TokenRead(c)
  PROVE  DInv'
<1> USE DEF DInv
<1>1. IInv' /\ SitesKept /\ DataKept /\ src' = src
  <2>1. ToolNext
    BY DEF ToolNext
  <2>2. SitesKept /\ DataKept /\ src' = src
    BY DEF SitesKept, DataKept, Aborted, Stopped, RolledBack, Copied, PrimarySeen,
         Switched, TimesOut, CopyPvc, TokenRead, TakenForStopped
  <2> QED BY <2>1, <2>2, InvTool DEF Careful
<1>2. \/ pc' \in {"idle", "startKs"}
      \/ pc = "stopWait" /\ pc' \in {"copy", "prebind"} /\ left' = Pvcs
      \/ pc = "copy" /\ pc' = "snapshot" /\ left' = left
      \/ pc = "copy" /\ pc' \in {"demote", "promote"} /\ left = {}
      \/ pc = "token" /\ pc' \in {"token", "promote"}
  BY DEF Aborted, Stopped, RolledBack, Copied, PrimarySeen, Switched, TimesOut, CopyPvc,
       TokenRead
<1>5. ScratchKept
  BY DEF ScratchKept, PrebindSteps, Aborted, Stopped, RolledBack, Copied, PrimarySeen,
       Switched, TimesOut, CopyPvc, TokenRead
<1>3. OldSiteCurrent' /\ NewSiteFilled' /\ OrphansEnded' /\ ClearKeepsCurrent'
  BY <1>1, <1>2 DEF DataKept, OldSiteCurrent, NewSiteFilled, OrphansEnded,
       ClearKeepsCurrent, BeforePromotion, PrebindSteps, ClearSteps, new
<1>4. OldSiteKept'
  BY <1>1, OldKeptPlain DEF DataKept, SitesKept
<1> QED BY <1>1, <1>3, <1>4, <1>5, KeptShrinks, DataKeptShrinks, SitesKeptBare

LEMMA DataPreflight ==
  ASSUME Careful, DInv, NEW s \in Sites, Preflight(s)
  PROVE  DInv'
<1> USE DEF DInv
<1>1. ToolNext
  BY DEF ToolNext
<1>2. IInv' /\ SitesKept /\ DataKept /\ src' = s /\ pc' = "confirm" /\ orphans = {}
  BY <1>1, InvTool DEF Careful, Planned, Preflight, OperatorStarts, SitesKept, DataKept
<1>3. \A c \in Clusters : ~InRecovery(s, c) /\ MayLead(s, c)
  BY DEF Careful, Planned, Preflight, NotInRecoverySeen, MayLead
<1>b. pc = "idle" /\ ~Scratch(s) /\ ScratchKept
  BY DEF Preflight, Scratch, PrebindSteps, ScratchKept
<1>a. \A p \in Pvcs : Complete(s, p)
  <2>1. CASE Clusters # {}
    BY <1>3, <2>1 DEF MayMeansCurrent
  <2>2. CASE EffReplicas(s) = "1"
    BY <1>b, <2>2, EffMeansMay, MayRunKept DEF IInv
  <2>3. CASE s = src /\ EffReplicas(new) = "0" /\ settings[new] = gitHome
    <3>1. ~Told(new)
      BY <2>3, SitesTwo DEF Told, EffReplicas
    <3> QED BY <2>3, <3>1 DEF OldSiteKept
  <2>4. Clusters # {} \/ EffReplicas(s) = "1"
        \/ (s = src /\ EffReplicas(new) = "0" /\ settings[new] = gitHome)
    BY SitesTwo DEF Preflight, OperatorStarts, Careful, Planned, new
  <2> QED BY <2>1, <2>2, <2>3, <2>4
<1>4. \A d \in Data : Complete(s, d)
  BY <1>3, <1>a DEF PrimaryCurrent, Data
<1>5. OldSiteCurrent' /\ NewSiteFilled' /\ OrphansEnded' /\ ClearKeepsCurrent'
  BY <1>2, <1>4 DEF DataKept, OldSiteCurrent, NewSiteFilled, OrphansEnded,
       ClearKeepsCurrent, ClearSteps, PrebindSteps
<1>6. OldSiteKept'
  BY <1>2, <1>5, OldKeptBefore DEF BeforePromotion
<1> QED BY <1>2, <1>b, <1>5, <1>6, KeptShrinks, DataKeptShrinks, SitesKeptBare

\* A spec that Flux applies to a cluster asks for the token its override names.
LEMMA ReconcileDbBare ==
  ASSUME Careful, DInv, NEW s \in Sites, ReconcileDb(s), DataKept,
         UNCHANGED <<gitHome, settings, ov>>
  PROVE  NoBarePromotion'
<1>1. /\ \A c \in Clusters : dbspec'[s][c] = Applied(s, c)
      /\ \A t \in Sites \ {s} : dbspec'[t] = dbspec[t]
  <2>1. dbspec' = [dbspec EXCEPT ![s] = [c \in Clusters |-> Applied(s, c)]]
    BY DEF ReconcileDb, Careful, Planned
  <2>2. dbspec'[s] = [c \in Clusters |-> Applied(s, c)]
    BY <2>1 DEF DInv, IInv, TypeOK
  <2>3. \A t \in Sites \ {s} : dbspec'[t] = dbspec[t]
    BY <2>1 DEF DInv, IInv, TypeOK
  <2> QED BY <2>2, <2>3
<1>2. ASSUME NEW c \in Clusters, TokenNeeded(s, c) PROVE TokenNeeded(s, c)'
  BY <1>1, <1>2, AppliedNeedsToken
<1>3. \A t \in Sites \ {s}, c \in Clusters : TokenNeeded(t, c) => TokenNeeded(t, c)'
  BY <1>1 DEF TokenNeeded
<1> QED BY <1>2, <1>3 DEF DInv, NoBarePromotion, InRecovery, DataKept

LEMMA DataReconcile ==
  ASSUME Careful, DInv, AppReconcile \/ DbReconcile
  PROVE  DInv'
<1> USE DEF DInv
<1>1. IInv' /\ Shrinks
  <2>1. ToolNext
    BY DEF ToolNext
  <2> QED BY <2>1, InvTool, InvAppReconcile, InvDbReconcile DEF Careful, IInv
<1>2. DataKept /\ src' = src /\ UNCHANGED <<gitHome, settings, ov>>
  BY DEF AppReconcile, DbReconcile, DataKept
<1>3. \/ pc' \in {"stopWait", "rollbackWait"} /\ pc \in {"stopKs", "rollbackKs"}
         /\ (pc = "rollbackKs" <=> pc' = "rollbackWait")
      \/ pc = "demoteKs" /\ pc' = "token"
      \/ pc \in PrebindSteps /\ pc' \in PrebindSteps /\ UNCHANGED left
      \/ pc \in {"startKs", "promoteKs"} /\ pc' \in {"readyWait", "primaryWait"}
  BY DEF AppReconcile, DbReconcile, AppReconciles, DbReconciles, PrebindSteps
<1>a. ScratchKept
  BY <1>2, <1>3 DEF ScratchKept, PrebindSteps
<1>4. OldSiteCurrent' /\ NewSiteFilled' /\ OrphansEnded' /\ ClearKeepsCurrent'
  BY <1>2, <1>3 DEF DataKept, OldSiteCurrent, NewSiteFilled, OrphansEnded,
       ClearKeepsCurrent, ClearSteps, BeforePromotion, PrebindSteps, new
<1>5. NoBarePromotion'
  <2>1. CASE AppReconcile
    BY <1>2, <2>1 DEF AppReconcile, NoBarePromotion, TokenNeeded, InRecovery, DataKept
  <2>2. CASE DbReconcile
    <3>1. PICK s \in Sites : ReconcileDb(s)
      BY <2>2, SitesTwo DEF DbReconcile, DbReconciles, IInv, TypeOK, new
    <3> QED BY <1>2, <3>1, ReconcileDbBare
  <2> QED BY <2>1, <2>2
<1>6. OldSiteKept'
  BY <1>2, OldKeptPlain DEF DataKept
<1> QED BY <1>1, <1>2, <1>a, <1>4, <1>5, <1>6, DataKeptShrinks


\* Snapshot and Restore: the old site's copy is complete, the new site has none
\* that anyone uses.
LEMMA DataSnapshotted ==
  ASSUME Careful, DInv, Snapshotted
  PROVE  DInv'
<1> USE DEF DInv
<1>1. ToolNext
  BY DEF ToolNext
<1>2. IInv' /\ SitesKept /\ UNCHANGED <<role, orphans, spoilt, src, left, cur>> /\ pc' = "restore"
  BY <1>1, InvTool DEF Careful, Snapshotted, SitesKept
<1>3. pc = "snapshot" /\ cur \in Pvcs /\ cur \in Data /\ cur \notin Clusters
  BY DataAssumption DEF Snapshotted, IInv, TypeOK, Data
<1>4. Complete(src, cur) /\ orphans = {}
  BY <1>3 DEF OldSiteCurrent, OrphansEnded, BeforePromotion
<1>5. /\ holds'[cur] \in {holds[cur] \cup {InTransit}, holds[cur] \ {InTransit}}
      /\ \A d \in Data \ {cur} : holds'[d] = holds[d]
      /\ cur \in spoilt \/ InTransit \in holds'[cur]
  BY <1>3, <1>4 DEF Snapshotted, IInv, TypeOK
<1>6. \A s \in Sites, d \in Data : s \in holds[d] <=> s \in holds'[d]
  BY <1>5, SentinelAssumption
<1>a. src \in Sites /\ new \in Sites /\ \A s \in Sites : Other(s) \in Sites
  BY SitesTwo DEF new, IInv, TypeOK
<1>7. \A c \in Clusters : holds'[c] = holds[c]
  BY <1>3, <1>5 DEF Data
<1>8. NoLostWrite' /\ MayMeansCurrent' /\ OrphansHarmless' /\ OrphansEnded'
  BY <1>2, <1>3, <1>4, <1>6, <1>a, KeptShrinks
  DEF NoLostWrite, MayMeansCurrent, Shrinks, OrphansHarmless, OrphansEnded, Data, Scratch,
      PrebindSteps
<1>9. PrimaryCurrent' /\ TokenCovers' /\ NoBarePromotion' /\ ClearKeepsCurrent'
  BY <1>2, <1>7 DEF SitesKept, PrimaryCurrent, TokenCovers, NoBarePromotion, TokenNeeded,
       InRecovery, ClearKeepsCurrent, ClearSteps
<1>10. OldSiteCurrent' /\ NewSiteFilled'
  BY <1>2, <1>3, <1>5, <1>6, <1>a DEF OldSiteCurrent, NewSiteFilled, BeforePromotion,
       PrebindSteps, new, Data
<1>11. OldSiteKept'
  BY <1>2, <1>8, <1>10, OldKeptBefore DEF BeforePromotion
<1> QED BY <1>2, <1>8, <1>9, <1>10, <1>11

\* Nobody may use the new site's copy of a PVC before the promotion.
LEMMA NewCopyUnused ==
  ASSUME Careful, DInv, SitesKept, UNCHANGED <<spoilt, src>>, pc \in BeforePromotion, NEW p \in Pvcs,
         orphans = {}, orphans' \subseteq {<<new, p>>},
         holds'[p] \in {holds[p] \ {new}, holds[p] \cup {new}},
         \A d \in Data \ {p} : holds'[d] = holds[d]
  PROVE  /\ NoLostWrite' /\ MayMeansCurrent' /\ PrimaryCurrent' /\ TokenCovers'
         /\ NoBarePromotion' /\ OrphansHarmless'
         /\ \A d \in Data : Complete(src, d)'
<1> USE DEF DInv
<1>1. PICK n \in Sites, o \in Sites : o = src /\ n = new /\ o # n /\ o = Other(n) /\ n = Other(o)
  BY SitesTwo DEF IInv, TypeOK, new
<1>2. p \in Data /\ p \notin Clusters
  BY DataAssumption DEF Data
<1>3. ~MayRun(n) /\ \A c \in Clusters : ~MayLead(n, c)
  BY <1>1 DEF IInv, NewSiteOff, NewOff, Careful
<1>4. Shrinks
  BY KeptShrinks
<1>5. \A d \in Data : Complete(o, d) /\ Complete(o, d)'
  BY <1>1, <1>2 DEF OldSiteCurrent
<1>6. \A c \in Clusters : holds'[c] = holds[c]
  BY <1>2 DEF Data
<1>7. NoLostWrite'
  BY <1>5 DEF NoLostWrite
<1>8. PrimaryCurrent' /\ TokenCovers' /\ NoBarePromotion'
  BY <1>6 DEF SitesKept, PrimaryCurrent, TokenCovers, NoBarePromotion, TokenNeeded, InRecovery
<1>9. MayMeansCurrent'
  <2> SUFFICES ASSUME NEW t \in Sites, MayRun(t)' \/ \E c \in Clusters : MayLead(t, c)',
                      NEW q \in Pvcs
               PROVE  Complete(t, q)'
    BY DEF MayMeansCurrent
  <2>1. t # n
    BY <1>3, <1>4 DEF Shrinks
  <2>2. t = o /\ q \in Data
    BY <1>1, <2>1, SitesTwo DEF Data
  <2> QED BY <1>5, <2>2
<1>10. OrphansHarmless'
  <2> SUFFICES ASSUME NEW t \in Sites, NEW q \in Pvcs, <<t, q>> \in orphans'
               PROVE  /\ ~MayRun(t)' /\ \A c \in Clusters : ~MayLead(t, c)'
                      /\ Complete(Other(t), q)' /\ <<Other(t), q>> \notin orphans'
    BY DEF OrphansHarmless
  <2>1. t = n /\ q = p
    BY <1>1
  <2>2. <<o, p>> \notin orphans'
    BY <1>1
  <2> QED BY <1>1, <1>2, <1>3, <1>4, <1>5, <2>1, <2>2 DEF Shrinks
<1> QED BY <1>1, <1>5, <1>7, <1>8, <1>9, <1>10

LEMMA DataRestored ==
  ASSUME Careful, DInv, Restored
  PROVE  DInv'
<1> USE DEF DInv
<1>1. ToolNext
  BY DEF ToolNext
<1>2. /\ IInv' /\ SitesKept /\ UNCHANGED <<orphans, spoilt, src>> /\ left' = left \ {cur}
      /\ pc = "restore" /\ pc' = "copy"
  BY <1>1, InvTool DEF Careful, Restored, SitesKept
<1>3. PICK p \in Pvcs : p = cur /\ p \in Data
  BY <1>2 DEF IInv, TypeOK, Data
<1>4. Complete(InTransit, p) /\ orphans = {}
  BY <1>2, <1>3 DEF NewSiteFilled, OrphansEnded, BeforePromotion
<1>5. /\ holds'[p] \in {holds[p] \ {new}, holds[p] \cup {new}}
      /\ p \in spoilt \/ new \in holds'[p]
      /\ \A d \in Data \ {p} : holds'[d] = holds[d]
  BY <1>3, <1>4 DEF Restored, IInv, TypeOK
<1>6. /\ NoLostWrite' /\ MayMeansCurrent' /\ PrimaryCurrent' /\ TokenCovers'
      /\ NoBarePromotion' /\ OrphansHarmless' /\ \A d \in Data : Complete(src, d)'
  BY <1>2, <1>4, <1>5, NewCopyUnused DEF BeforePromotion
<1>7. OldSiteCurrent' /\ NewSiteFilled' /\ OrphansEnded' /\ ClearKeepsCurrent'
  BY <1>2, <1>3, <1>4, <1>5, <1>6 DEF OldSiteCurrent, NewSiteFilled, OrphansEnded,
       ClearKeepsCurrent, ClearSteps, PrebindSteps, new, Data
<1>8. OldSiteKept'
  BY <1>2, <1>7, OldKeptBefore DEF BeforePromotion
<1> QED BY <1>2, <1>6, <1>7, <1>8

\* A copy that fails, and a tool that dies, in the middle of a Restore or not.
LEMMA DataLeave ==
  ASSUME Careful, DInv, CopyFails \/ KubectlFails \/ Crash
  PROVE  DInv'
<1> USE DEF DInv
<1>1. ToolNext
  BY DEF ToolNext
<1>2. /\ IInv' /\ SitesKept /\ UNCHANGED <<spoilt, src>> /\ LeaveRestore
      /\ pc' = "idle" \/ (pc' = "rollback" /\ pc \in {"snapshot", "restore"})
  BY <1>1, InvTool DEF Careful, Planned, CopyFails, KubectlFails, Crash, SitesKept, PrebindSteps
<1>5. pc \notin PrebindSteps
  BY DEF Careful, Planned, PrebindEnds, CopyFails, KubectlFails, Crash, IInv, PrebindPlace, PrebindSteps
<1>3. CASE pc # "restore"
  <2>1. DataKept
    BY <1>2, <1>3 DEF SitesKept, LeaveRestore, DataKept
  <2>2. pc' = "rollback" => pc = "snapshot"
    BY <1>2, <1>3
  <2>3. OldSiteCurrent' /\ NewSiteFilled' /\ OrphansEnded' /\ ClearKeepsCurrent'
    BY <1>2, <2>1, <2>2 DEF DataKept, OldSiteCurrent, NewSiteFilled, OrphansEnded,
         ClearKeepsCurrent, ClearSteps, BeforePromotion, PrebindSteps
  <2>4. OldSiteKept'
    BY <1>2, <2>1, OldKeptPlain DEF DataKept, SitesKept
  <2> QED BY <1>2, <1>5, <2>1, <2>3, <2>4, KeptShrinks, DataKeptShrinks, SitesKeptBare DEF ScratchKept
<1>4. CASE pc = "restore"
  <2>1. PICK p \in Pvcs : p = cur /\ p \in Data
    BY <1>4 DEF IInv, TypeOK, Data
  <2>2. orphans = {} /\ orphans' \subseteq {<<new, p>>}
    BY <1>2, <1>4, <2>1 DEF OrphansEnded, BeforePromotion, LeaveRestore
  <2>3. /\ holds'[p] = holds[p] \ {new}
        /\ \A d \in Data \ {p} : holds'[d] = holds[d]
    BY <1>2, <1>4, <2>1 DEF LeaveRestore, IInv, TypeOK
  <2>4. /\ NoLostWrite' /\ MayMeansCurrent' /\ PrimaryCurrent' /\ TokenCovers'
        /\ NoBarePromotion' /\ OrphansHarmless' /\ \A d \in Data : Complete(src, d)'
    BY <1>2, <1>4, <2>2, <2>3, NewCopyUnused DEF BeforePromotion
  <2>5. new # src
    BY SitesTwo DEF IInv, TypeOK, new
  <2>6. OldSiteCurrent' /\ NewSiteFilled' /\ OrphansEnded' /\ ClearKeepsCurrent'
    BY <1>2, <2>2, <2>4, <2>5 DEF OldSiteCurrent, NewSiteFilled, OrphansEnded,
         ClearKeepsCurrent, ClearSteps, BeforePromotion, PrebindSteps
  <2>7. OldSiteKept'
    BY <1>2, <2>2, <2>4, <2>5 DEF OldSiteKept, Data
  <2> QED BY <1>2, <2>4, <2>6, <2>7
<1> QED BY <1>3, <1>4


\* The old site's keys: whatever they make of it, it has the data.
LEMMA DataOldKeys ==
  ASSUME Careful, DInv, StopOld \/ Rollback \/ DemoteOld
  PROVE  DInv'
<1> USE DEF DInv
<1>1. ToolNext
  BY DEF ToolNext
<1>2. PICK n \in Sites, o \in Sites : o = src /\ n = new /\ o # n /\ o = Other(n) /\ n = Other(o)
  BY SitesTwo DEF IInv, TypeOK, new
<1>a. PICK keys : ov' = [ov EXCEPT ![o] = keys]
  <2>1. PICK keys : SetOverrides(o, keys)
    BY <1>2 DEF StopOld, Rollback, DemoteOld
  <2> QED BY <2>1, SetOverridesIs DEF Careful
<1>3. /\ IInv' /\ DataKept
      /\ UNCHANGED <<gitHome, settings, desired, pod, dbspec, src, left, cur>> /\ ov'[n] = ov[n]
  BY <1>1, <1>2, <1>a, InvTool
  DEF Careful, StopOld, Rollback, DemoteOld, DataKept, IInv, TypeOK
<1>4. \/ pc = "confirm" /\ pc' = "stopKs"
      \/ pc = "rollback" /\ pc' = "rollbackKs"
      \/ pc = "demote" /\ pc' = "demoteKs"
  BY DEF StopOld, Rollback, DemoteOld
<1>5. \A d \in Data : Complete(o, d)
  BY <1>2, <1>4 DEF OldSiteCurrent, BeforePromotion
<1>6. ~MayRun(n)' /\ \A c \in Clusters : ~MayLead(n, c)'
  BY <1>2, <1>3, <1>4 DEF IInv, NewSiteOff, NewOff, BeforePromotion, new, Careful
<1>7. \A t \in Sites : t = o \/ t = n
  BY <1>2, SitesTwo
<1>8. NoLostWrite' /\ PrimaryCurrent' /\ TokenCovers'
  BY <1>3 DEF DataKept, NoLostWrite, PrimaryCurrent, TokenCovers, InRecovery
<1>9. MayMeansCurrent'
  BY <1>3, <1>5, <1>6, <1>7 DEF MayMeansCurrent, DataKept, Data
<1>10. NoBarePromotion'
  <2>1. \A c \in Clusters : c \notin spoilt
    BY DataAssumption DEF IInv, TypeOK
  <2> QED
    BY <1>3, <1>5, <1>7, <2>1 DEF NoBarePromotion, TokenNeeded, InRecovery, DataKept, Data
<1>11. OldSiteCurrent' /\ NewSiteFilled' /\ OrphansEnded' /\ ClearKeepsCurrent'
  BY <1>3, <1>4 DEF DataKept, OldSiteCurrent, NewSiteFilled, OrphansEnded,
       ClearKeepsCurrent, ClearSteps, BeforePromotion, PrebindSteps, new
<1>12. OrphansHarmless'
  <2> SUFFICES ASSUME NEW t \in Sites, NEW q \in Pvcs, <<t, q>> \in orphans
               PROVE  ~MayRun(t)' /\ \A c \in Clusters : ~MayLead(t, c)'
    BY <1>3 DEF OrphansHarmless, DataKept
  <2>1. t # o
    BY <1>2, <1>4 DEF OrphansEnded, BeforePromotion
  <2> QED BY <1>6, <1>7, <2>1
<1>13. OldSiteKept'
  BY <1>4, <1>11, OldKeptBefore DEF BeforePromotion
<1> QED BY <1>3, <1>8, <1>9, <1>10, <1>11, <1>12, <1>13

\* The promotion: the new site's PVCs are filled, and its clusters get the tokens.
LEMMA DataPromoteNew ==
  ASSUME Careful, DInv, PromoteNew
  PROVE  DInv'
<1> USE DEF DInv
<1>1. ToolNext
  BY DEF ToolNext
<1>2. PICK n \in Sites, o \in Sites : o = src /\ n = new /\ o # n /\ o = Other(n) /\ n = Other(o)
  BY SitesTwo DEF IInv, TypeOK, new
<1>3. \A t \in Sites : t = o \/ t = n
  BY <1>2, SitesTwo
<1>4. /\ IInv' /\ DataKept /\ UNCHANGED <<gitHome, settings, desired, pod, dbspec>>
      /\ ov'[o] = ov[o] /\ UNCHANGED src /\ pc = "promote" /\ pc' \in {"promoteKs", "startKs"}
      /\ ov'[n].replicas = "1"
      /\ Clusters # {} => ov'[n].primary = n /\ ov'[n].tokens = Clusters
  <2>1. IInv' /\ ov \in [Sites -> Keys]
    BY <1>1, InvTool DEF Careful, IInv, TypeOK
  <2>2. /\ UNCHANGED <<gitHome, settings, desired, pod, dbspec, src>> /\ DataKept
        /\ pc = "promote" /\ pc' \in {"promoteKs", "startKs"}
    BY DEF PromoteNew, DataKept
  <2>3. ov' = [ov EXCEPT ![n] = IF Clusters = {} THEN ReplicasKey("1")
                 ELSE [replicas |-> "1", primary |-> n, tokens |-> Clusters]]
    <3>1. SetOverrides(n, IF Clusters = {} THEN ReplicasKey("1")
                          ELSE [replicas |-> "1", primary |-> n, tokens |-> Clusters])
      BY <1>2 DEF PromoteNew
    <3> QED BY <3>1, SetOverridesIs, Zenon DEF Careful
  <2>4. /\ ov'[o] = ov[o]
        /\ ov'[n] = IF Clusters = {} THEN ReplicasKey("1")
                    ELSE [replicas |-> "1", primary |-> n, tokens |-> Clusters]
    BY <1>2, <2>1, <2>3
  <2> QED BY <2>1, <2>2, <2>4 DEF ReplicasKey, NoKeys
<1>5. \A p \in Pvcs : Complete(n, p)
  BY <1>2, <1>4 DEF NewSiteFilled
<1>6. orphans = {}
  BY <1>4 DEF OrphansEnded, BeforePromotion
<1>7. /\ ~MayRun(o)' /\ \A c \in Clusters : ~MayLead(o, c)'
  <2>1. MayRun(n)'
    BY <1>4 DEF MayRun
  <2>2. \A c \in Clusters : MayLead(n, c)'
    BY <1>4 DEF MayLead
  <2>3. Exclusive'
    BY <1>4 DEF IInv
  <2> QED BY <1>2, <2>1, <2>2, <2>3, SitesTwo DEF Exclusive, Sites, Careful, Planned
<1>8. \A c \in Clusters : ~MayLead(n, c)
  BY <1>2, <1>4 DEF IInv, NewSiteOff, NewOff, BeforePromotion
<1>9. NoLostWrite' /\ PrimaryCurrent' /\ TokenCovers' /\ OrphansHarmless'
  BY <1>4, <1>6 DEF DataKept, NoLostWrite, PrimaryCurrent, TokenCovers, InRecovery,
       OrphansHarmless
<1>10. MayMeansCurrent'
  BY <1>3, <1>4, <1>5, <1>7 DEF MayMeansCurrent, DataKept
<1>11. NoBarePromotion'
  <2>1. \A c \in Clusters : TokenNeeded(n, c)'
    BY <1>4, <1>8, SitesTwo DEF MayLead, TokenNeeded
  <2>2. \A c \in Clusters : TokenNeeded(o, c) => TokenNeeded(o, c)'
    BY <1>4 DEF TokenNeeded
  <2> QED BY <1>3, <1>4, <2>1, <2>2 DEF NoBarePromotion, InRecovery, DataKept
<1>12. OldSiteCurrent' /\ NewSiteFilled' /\ OrphansEnded' /\ ClearKeepsCurrent'
  BY <1>4 DEF OldSiteCurrent, NewSiteFilled, OrphansEnded, ClearKeepsCurrent, ClearSteps,
       BeforePromotion, PrebindSteps
<1>13. OldSiteKept'
  BY <1>2, <1>4 DEF OldSiteKept, Told, new
<1> QED BY <1>4, <1>9, <1>10, <1>11, <1>12, <1>13

\* The prebind: what the new site writes isn't kept, and it is off again at the end.
LEMMA DataPrebind ==
  ASSUME Careful, DInv, PrebindOn \/ PrebindBound \/ PrebindOff \/ PrebindStopped
  PROVE  DInv'
<1> USE DEF DInv
<1>1. ToolNext
  BY DEF ToolNext
<1>2. PICK n \in Sites, o \in Sites : o = src /\ n = new /\ o # n /\ \A t \in Sites : t \in {o, n}
  BY SitesTwo DEF IInv, TypeOK, new
<1>3. /\ IInv' /\ DataKept /\ UNCHANGED <<gitHome, settings, desired, pod, dbspec, src, left, cur>>
      /\ pc \in PrebindSteps \cup {"prebind"} /\ pc' \in PrebindSteps \cup {"copy"}
  BY <1>1, InvTool
  DEF Careful, PrebindOn, PrebindBound, PrebindOff, PrebindStopped, TakenForStopped, DataKept,
      PrebindSteps
<1>4. Clusters = {}
  BY <1>3 DEF IInv, PrebindPlace, Careful, Planned
<1>5. /\ \A d \in Data : Complete(o, d)
      /\ orphans = {}
  BY <1>2, <1>3 DEF OldSiteCurrent, OrphansEnded, BeforePromotion
<1>6. \A t \in Sites : MayRun(t)' /\ ~Scratch(t)' => t = o
  <2>1. pc' = "copy" => ~MayRun(n)'
    BY <1>2, <1>3 DEF IInv, NewSiteOff, NewOff, BeforePromotion, Careful, new
  <2>2. pc' \in PrebindSteps => Scratch(n)'
    BY <1>2, <1>3 DEF Scratch, new
  <2> QED BY <1>2, <1>3, <2>1, <2>2
<1>7. MayMeansCurrent' /\ NoLostWrite'
  BY <1>3, <1>4, <1>5, <1>6 DEF MayMeansCurrent, NoLostWrite, DataKept, Data
<1>8. PrimaryCurrent' /\ TokenCovers' /\ NoBarePromotion' /\ ClearKeepsCurrent'
  BY <1>4 DEF PrimaryCurrent, TokenCovers, NoBarePromotion, ClearKeepsCurrent
<1>9. OldSiteCurrent' /\ OrphansEnded' /\ OrphansHarmless' /\ OldSiteKept'
  BY <1>2, <1>3, <1>5 DEF OldSiteCurrent, OrphansEnded, OrphansHarmless, OldSiteKept, DataKept, Data
<1>10. NewSiteFilled'
  <2>1. left = Pvcs \/ pc' # "copy"
    BY <1>3 DEF NewSiteFilled
  <2> QED BY <1>3, <2>1 DEF NewSiteFilled, PrebindSteps
<1> QED BY <1>3, <1>7, <1>8, <1>9, <1>10

\* `clear`: the app's home leads with all the data, whatever keys are dropped.
LEMMA DataClear ==
  ASSUME Careful, DInv,
         Clear \/ NothingToClear \/ ClearConfirmed \/ ClearGit \/ ClearKeys \/ ClearReconcile
  PROVE  DInv'
<1> USE DEF DInv
<1>1. ToolNext
  BY DEF ToolNext
<1>2. IInv'
  BY <1>1, InvTool DEF Careful
<1>3. Shrinks
  <2>1. Clear => SitesKept
    BY DEF Clear, SitesKept
  <2> QED
    BY <1>2, <2>1, KeptShrinks, InvClearSteps, InvClearKeys, InvClearReconcile
    DEF Careful, IInv
<1>4. DataKept /\ UNCHANGED gitHome /\ pc' \in ClearSteps \cup {"idle"}
  BY DEF Clear, NothingToClear, ClearConfirmed, ClearGit, ClearKeys, ClearReconcile,
       NextSite, DataKept, ClearSteps
<1>a. pc \notin PrebindSteps
  BY DEF Clear, NothingToClear, ClearConfirmed, ClearGit, ClearKeys, ClearReconcile, PrebindSteps
<1>5. ClearKeepsCurrent'
  <2>1. CASE Clear
    BY <1>4, <2>1 DEF Clear, ClearKeepsCurrent, PrimaryCurrent, DataKept, Careful, IInv, TypeOK
  <2>2. CASE pc \in ClearSteps
    BY <1>4, <2>2 DEF ClearKeepsCurrent, DataKept
  <2> QED
    BY <2>1, <2>2 DEF NothingToClear, ClearConfirmed, ClearGit, ClearKeys, ClearReconcile,
       ClearSteps
<1>6. OldSiteCurrent' /\ NewSiteFilled' /\ OrphansEnded'
  BY <1>4 DEF OldSiteCurrent, NewSiteFilled, OrphansEnded, ClearSteps, BeforePromotion, PrebindSteps
<1>7. NoBarePromotion'
  <2>1. CASE Clear \/ NothingToClear \/ ClearConfirmed
    BY <2>1 DEF Clear, NothingToClear, ClearConfirmed, NoBarePromotion, TokenNeeded, InRecovery
  <2>2. CASE ClearGit
    <3>1. \A t \in Sites : settings'[t] = settings[t] \/ settings'[t] = gitHome
      BY <2>2 DEF ClearGit, IInv, TypeOK
    <3> QED BY <2>2, <3>1 DEF ClearGit, NoBarePromotion, TokenNeeded, InRecovery
  <2>3. CASE ClearKeys
    <3>1. PICK s \in Sites : s = src
      BY DEF IInv, TypeOK
    <3>a. ov' = [ov EXCEPT ![s] = NoKeys]
      BY <2>3, <3>1, SetOverridesIs DEF ClearKeys, Careful
    <3>2. /\ ov'[s].primary = Unset /\ \A t \in Sites \ {s} : ov'[t] = ov[t]
          /\ settings[s] = gitHome /\ UNCHANGED <<gitHome, settings, dbspec>>
      BY <2>3, <3>1, <3>a DEF ClearKeys, NoKeys, IInv, TypeOK, ClearInPlace
    <3>3. \A t \in Sites \ {s}, c \in Clusters : TokenNeeded(t, c) => TokenNeeded(t, c)'
      BY <3>2 DEF TokenNeeded
    <3>4. CASE s = gitHome
      <4>1. \A c \in Clusters : s \in holds[c]
        BY <2>3, <3>4 DEF ClearKeys, ClearKeepsCurrent, ClearSteps
      <4> QED BY <1>4, <3>3, <4>1 DEF NoBarePromotion, InRecovery, DataKept
    <3>5. CASE s # gitHome
      <4>1. \A c \in Clusters : TokenNeeded(s, c) => TokenNeeded(s, c)'
        BY <3>2, <3>5, SitesTwo DEF TokenNeeded
      <4> QED BY <1>4, <3>3, <4>1 DEF NoBarePromotion, InRecovery, DataKept
    <3> QED BY <3>4, <3>5
  <2>4. CASE ClearReconcile
    BY <1>4, <2>4, ReconcileDbBare DEF ClearReconcile, IInv, TypeOK
  <2> QED BY <2>1, <2>2, <2>3, <2>4
<1>8. OldSiteKept'
  <2>1. EffReplicas(gitHome) = "1" /\ gitHome \in Sites
    BY DEF Clear, RunsOnlyAt, NothingToClear, ClearConfirmed, ClearGit, ClearKeys, ClearReconcile,
         ClearSteps, IInv, ClearInPlace, TypeOK
  <2>2. \A p \in Pvcs : Complete(gitHome, p)' /\ <<gitHome, p>> \notin orphans'
    <3>1. \A p \in Pvcs : Complete(gitHome, p) /\ <<gitHome, p>> \notin orphans
      BY <1>a, <2>1, EffMeansMay, MayRunKept DEF IInv, Scratch
    <3> QED BY <1>4, <3>1 DEF DataKept
  <2>3. ov'[gitHome].replicas \in {ov[gitHome].replicas, Unset}
    <3>1. CASE ClearKeys
      <4>1. ov' = [ov EXCEPT ![src] = NoKeys] /\ NoKeys.replicas = Unset
        BY <3>1, SetOverridesIs DEF ClearKeys, NoKeys, Careful
      <4>2. ov \in [Sites -> Keys]
        BY DEF IInv, TypeOK
      <4> QED BY <2>1, <4>1, <4>2
    <3>2. CASE UNCHANGED ov
      BY <3>2
    <3> QED BY <3>1, <3>2 DEF Clear, NothingToClear, ClearConfirmed, ClearGit, ClearReconcile
  <2>4. Told(gitHome)'
    BY <1>4, <2>1, <2>3 DEF Told, EffReplicas
  <2>5. gitHome = src' \/ gitHome = new'
    BY <1>2, <2>1, SitesTwo DEF new, IInv, TypeOK
  <2> QED BY <1>4, <2>2, <2>4, <2>5 DEF OldSiteKept
<1> QED BY <1>2, <1>3, <1>4, <1>a, <1>5, <1>6, <1>7, <1>8, DataKeptShrinks DEF ScratchKept


-----------------------------------------------------------------------------
(* The data theorems                                                        *)

LEMMA DataTool == ASSUME Careful, DInv, ToolNext PROVE DInv'
<1>1. Next
  BY DEF Next
<1> QED
  BY <1>1, DataPrebind, DataSwitchKept, DataPreflight, DataReconcile, DataSnapshotted,
     DataRestored, DataLeave, DataOldKeys, DataPromoteNew, DataClear
  DEF ToolNext

LEMMA DataInit == ASSUME Careful, Init PROVE DInv
<1>1. IInv
  BY InvInit DEF Careful
<1>2. PICK home \in Sites : Init!(home)
  BY DEF Init
<1>3. \A s \in Sites \ {home} : ~MayRun(s) /\ \A c \in Clusters : ~MayLead(s, c)
  BY <1>2, SitesTwo DEF MayRun, MayLead, runs, live, InRecovery, NoKeys
<1>4. \A d \in Data : home \in holds[d]
  BY <1>2
<1>5. NoLostWrite /\ MayMeansCurrent
  BY <1>3, <1>4 DEF NoLostWrite, MayMeansCurrent, Data
<1>6. PrimaryCurrent /\ TokenCovers /\ NoBarePromotion
  BY <1>2, <1>4, SitesTwo
  DEF PrimaryCurrent, TokenCovers, NoBarePromotion, TokenNeeded, InRecovery, NoKeys, Data
<1>7. OldSiteCurrent /\ NewSiteFilled /\ OrphansEnded /\ OrphansHarmless /\ ClearKeepsCurrent
  BY <1>2 DEF OldSiteCurrent, NewSiteFilled, OrphansEnded, OrphansHarmless,
       ClearKeepsCurrent, BeforePromotion, PrebindSteps, ClearSteps
<1>8. OldSiteKept
  BY <1>2, <1>4 DEF OldSiteKept, Data
<1> QED BY <1>1, <1>5, <1>6, <1>7, <1>8 DEF DInv

LEMMA DataNext == ASSUME Careful, DInv, [Next]_vars PROVE DInv'
<1>1. ASSUME UNCHANGED vars PROVE DInv'
  <2>1. IInv'
    BY <1>1, InvNext DEF Careful, DInv
  <2>2. UNCHANGED <<gitHome, settings, ov, dbspec, role, holds, orphans, spoilt, pc, src, left, cur>>
    BY <1>1 DEF vars
  <2>3. SitesKept /\ DataKept
    BY <1>1 DEF vars, SitesKept, DataKept
  <2>4. OldSiteKept'
    BY <2>2, OldKeptPlain DEF DInv
  <2>5. ScratchKept
    BY <2>2 DEF ScratchKept
  <2> QED
    BY <2>1, <2>2, <2>3, <2>4, <2>5, KeptShrinks, DataKeptShrinks, SitesKeptBare, PlaceKept
    DEF DInv
<1> QED BY <1>1, DataEnv, DataTool DEF Next

\* RPO 0 of a planned move: some site has every acknowledged write of every PVC
\* and every Postgres cluster, however often the app is moved, whenever the tool
\* dies (but for a prebound app's), with pods and databases writing until they are
\* stopped.  A PVC is out of it once an app has written it that a failed read took for
\* stopped; a database never is.
THEOREM NoLostWriteCorrect == ASSUME Careful PROVE Spec => []NoLostWrite
<1>1. Init => DInv
  BY DataInit
<1>2. DInv /\ [Next]_vars => DInv'
  BY DataNext
<1>3. DInv => NoLostWrite
  BY DEF DInv
<1> QED BY <1>1, <1>2, <1>3, PTL DEF Spec

LEMMA DInvCurrent == ASSUME DInv PROVE RunsOnCurrentData
<1>1. \A s \in Sites : live(s) /\ ~Scratch(s) /\ s \notin strays =>
                         \A p \in Pvcs \ spoilt : s \in holds[p]
  BY DEF DInv, MayMeansCurrent, MayRun, runs
<1> QED BY <1>1 DEF DInv, PrimaryCurrent, RunsOnCurrentData

\* The app never runs on an old copy: where its workloads are, the PVCs have every
\* acknowledged write, and a Postgres primary has replayed all of them.  Workloads that
\* a failed read took for stopped, and the PVCs they wrote then, are the exception.
THEOREM RunsOnCurrentDataCorrect == ASSUME Careful PROVE Spec => []RunsOnCurrentData
<1>1. Init => DInv
  BY DataInit
<1>2. DInv /\ [Next]_vars => DInv'
  BY DataNext
<1>3. DInv => RunsOnCurrentData
  BY DInvCurrent
<1> QED BY <1>1, <1>2, <1>3, PTL DEF Spec


-----------------------------------------------------------------------------
(* A planned move implements a single-writer store                          *)

\* The writer of a store is the site that runs the app to keep what it writes, or leads
\* the cluster.
WriterKnown ==
  \A d \in Data :
    /\ WriterOf(d) \in Sites \cup {Unset}
    /\ \A s \in Sites : WriterOf(d) = s <=> Writes(s, d)

LEMMA WriterIsKnown == ASSUME IInv PROVE WriterKnown
<1> SUFFICES ASSUME NEW d \in Data
             PROVE  /\ WriterOf(d) \in Sites \cup {Unset}
                    /\ \A s \in Sites : WriterOf(d) = s <=> Writes(s, d)
  BY DEF WriterKnown
<1>2. \A s \in Sites : Writes(s, d) => ~Writes(Other(s), d)
  <2>1. \A s \in Sites : runs(s) => ~runs(Other(s))
    BY DEF IInv, Exclusive, MayRun, Sites, Other
  <2>2. d \in Clusters => \A s \in Sites : ~InRecovery(s, d) => InRecovery(Other(s), d)
    BY DEF IInv, Exclusive, MayLead
  <2> QED BY <2>1, <2>2, SitesTwo DEF Writes, runs
<1>3. ~\A s \in Sites : Writes(s, d)
  BY <1>2, SitesTwo
<1>4. CASE \E s \in Sites : Writes(s, d)
  <2>1. WriterOf(d) = CHOOSE s \in Sites : Writes(s, d)
    BY <1>3, <1>4 DEF WriterOf
  <2>2. WriterOf(d) \in Sites /\ Writes(WriterOf(d), d)
    BY <1>4, <2>1
  <2>3. \A s \in Sites : Writes(s, d) => s = WriterOf(d)
    BY <1>2, <2>2, SitesTwo
  <2> QED BY <2>2, <2>3
<1>5. CASE ~\E s \in Sites : Writes(s, d)
  <2>1. WriterOf(d) = Unset
    BY <1>3, <1>5 DEF WriterOf
  <2> QED BY <1>5, <2>1, SitesTwo
<1> QED BY <1>4, <1>5

\* What the abstract steps are, in terms of this module.
LEMMA StoreSteps ==
  ASSUME NEW d \in Data
  PROVE  /\ Stores!Keep(d) <=>
              /\ WriterOf(d)' = WriterOf(d) /\ holds'[d] \cap Sites = holds[d] \cap Sites
         /\ Stores!Acquire(d) <=>
              /\ WriterOf(d) = Unset /\ WriterOf(d)' \in holds[d] \cap Sites
              /\ holds'[d] \cap Sites = holds[d] \cap Sites
         /\ Stores!Release(d) <=>
              /\ WriterOf(d) # Unset /\ WriterOf(d)' = Unset
              /\ holds'[d] \cap Sites = holds[d] \cap Sites
         /\ Stores!Write(d) <=>
              /\ WriterOf(d) # Unset /\ holds'[d] \cap Sites = {WriterOf(d)}
              /\ WriterOf(d)' = WriterOf(d)
         /\ Stores!Sync(d) <=>
              /\ holds[d] \cap Sites # {}
              /\ \E s \in Sites : holds'[d] \cap Sites = (holds[d] \cap Sites) \cup {s}
              /\ WriterOf(d)' = WriterOf(d)
         /\ Stores!Spoil(d) <=>
              /\ \E s \in Sites \ {WriterOf(d)} :
                   holds'[d] \cap Sites = (holds[d] \cap Sites) \ {s}
              /\ holds'[d] \cap Sites # {}
              /\ WriterOf(d)' = WriterOf(d)
  BY DEF Stores!Keep, Stores!Acquire, Stores!Release, Stores!Write, Stores!Sync, Stores!Spoil

\* Who may write what stays.
WritersKept == \A s \in Sites, d \in Data : Writes(s, d)' <=> Writes(s, d)

LEMMA WritersKeptPlain ==
  ASSUME UNCHANGED <<role, pod, strays>>,
         \A s \in Sites : runs(s) => (Scratch(s)' <=> Scratch(s))
  PROVE  WritersKept
<1>1. \A s \in Sites : (live(s)' <=> live(s)) /\ \A c \in Clusters : InRecovery(s, c)' <=> InRecovery(s, c)
  BY DEF live, InRecovery
<1> QED BY <1>1 DEF WritersKept, Writes, runs

\* The tool takes no store from a site and gives it none, but where a failed read ends
\* its wait for the old one: it begins a prebind, and ends it, while the new site is off.
LEMMA WritersTool ==
  ASSUME Careful, DInv, DInv', ToolNext, ~Stopped
  PROVE  WritersKept
<1> USE DEF DInv, IInv
<1>1. PICK n \in Sites, o \in Sites : o = src /\ n = new /\ o # n /\ \A t \in Sites : t \in {o, n}
  BY SitesTwo DEF TypeOK, new
<1>2. UNCHANGED <<role, pod>> /\ (~PrebindStopped => UNCHANGED strays)
  BY DEF ToolNext, Preflight, Aborted, StopOld, AppReconcile, PrebindOn,
     PrebindBound, PrebindOff, PrebindStopped, TakenForStopped, CopyPvc, Snapshotted,
     Restored, CopyFails, Rollback, RolledBack, Copied, DemoteOld, DbReconcile, TokenRead,
     PromoteNew, PrimarySeen, Switched, TimesOut, KubectlFails, Crash, Clear,
     NothingToClear, ClearConfirmed, ClearGit, ClearKeys, ClearReconcile
<1>3. CASE PrebindOn
  <2>1. ~runs(n) /\ pc \notin PrebindSteps /\ src' = src /\ ~PrebindStopped
    BY <1>1, <1>3
    DEF PrebindOn, PrebindStopped, NewSiteOff, NewOff, BeforePromotion, PrebindSteps, MayRun, Careful
  <2>2. \A s \in Sites : runs(s) => s = o
    BY <1>1, <2>1
  <2> QED BY <1>1, <1>2, <2>1, <2>2, WritersKeptPlain DEF Scratch, new
<1>4. CASE PrebindStopped
  <2>1. pc \in PrebindSteps /\ pc' \notin PrebindSteps /\ pc' \in NewOff' /\ src' = src
    BY <1>4 DEF PrebindStopped, NewOff, BeforePromotion, PrebindSteps, Careful
  <2>2. ~runs(n)'
    BY <1>1, <2>1 DEF NewSiteOff, MayRun, new
  <2>3. Scratch(n) /\ Clusters = {}
    BY <1>1, <2>1 DEF Scratch, new, PrebindPlace, Careful, Planned
  <2>4. ~Scratch(o) /\ ~Scratch(o)' /\ (o \in strays' <=> o \in strays)
    BY <1>1, <1>4, <2>1 DEF Scratch, new, PrebindStopped, TakenForStopped
  <2>5. (live(o)' <=> live(o)) /\ ~(live(n)' /\ n \notin strays')
    BY <1>2, <2>2 DEF live, runs
  <2>6. \A d \in Data : ~Writes(n, d) /\ ~Writes(n, d)' /\ (Writes(o, d)' <=> Writes(o, d))
    BY <2>3, <2>4, <2>5 DEF Writes
  <2> QED BY <1>1, <2>6 DEF WritersKept
<1>5. CASE ~(PrebindOn \/ PrebindStopped)
  <2>1. pc \in PrebindSteps => pc' \in PrebindSteps /\ src' = src
    <3>1. pc \in PrebindSteps => ~CopyFails /\ ~KubectlFails /\ ~Crash
      BY DEF PrebindPlace, Careful, Planned, PrebindEnds, CopyFails, KubectlFails, Crash
    <3>2. pc \in PrebindSteps => AppReconcile \/ PrebindBound \/ PrebindOff
      BY <1>5, <3>1
      DEF ToolNext, Preflight, Aborted, StopOld, Stopped, CopyPvc, Snapshotted, Restored,
          Rollback, RolledBack, Copied, DemoteOld, DbReconcile, DbReconciles, TokenRead,
          PromoteNew, PrimarySeen, Switched, TimesOut, Clear, NothingToClear,
          ClearConfirmed, ClearGit, ClearKeys, ClearReconcile, PrebindSteps
    <3> QED
      BY <3>2 DEF AppReconcile, AppReconciles, PrebindBound, PrebindOff, PrebindSteps
  <2>2. pc' \in PrebindSteps => pc \in PrebindSteps
    <3>1. CASE AppReconcile \/ PrebindBound \/ PrebindOff
      BY <3>1 DEF AppReconcile, AppReconciles, PrebindBound, PrebindOff, PrebindSteps
    <3>2. CASE ~(AppReconcile \/ PrebindBound \/ PrebindOff)
      BY <1>5, <3>2
      DEF ToolNext, Preflight, Aborted, StopOld, Stopped, CopyPvc, Snapshotted, Restored,
          CopyFails, Rollback, RolledBack, Copied, DemoteOld, DbReconcile, DbReconciles,
          TokenRead, PromoteNew, PrimarySeen, Switched, TimesOut, KubectlFails, Crash,
          Clear, NothingToClear, ClearConfirmed, ClearGit, ClearKeys, ClearReconcile,
          NextSite, PrebindSteps
    <3> QED BY <3>1, <3>2
  <2> QED BY <1>2, <1>5, <2>1, <2>2, WritersKeptPlain DEF Scratch
<1> QED BY <1>3, <1>4, <1>5

\* The step concerns no store, or this one only.
LEMMA StoreKept ==
  ASSUME WriterKnown, WriterKnown', NEW d \in Data,
         \A s \in Sites : Writes(s, d)' <=> Writes(s, d)
  PROVE  /\ WriterOf(d)' = WriterOf(d)
         /\ holds'[d] \cap Sites = holds[d] \cap Sites => Stores!Keep(d)
<1>1. \A s \in Sites : WriterOf(d) = s <=> WriterOf(d)' = s
  BY DEF WriterKnown
<1>2. WriterOf(d) \in Sites \cup {Unset} /\ WriterOf(d)' \in Sites \cup {Unset}
  BY DEF WriterKnown
<1> QED BY <1>1, <1>2, StoreSteps

\* What a step does to the stores that no app taken for stopped has written.
StoresMove ==
  \A d \in Data \ spoilt' :
    \/ Stores!Keep(d) \/ Stores!Acquire(d) \/ Stores!Release(d)
    \/ Stores!Write(d) \/ Stores!Sync(d) \/ Stores!Spoil(d)

LEMMA NothingMoves ==
  ASSUME WriterKnown, WriterKnown', WritersKept,
         \A d \in Data : holds'[d] \cap Sites = holds[d] \cap Sites
  PROVE  StoresMove
  BY StoreKept DEF StoresMove, WritersKept

\* One store moves, by one of the abstract steps; the others are kept.
LEMMA OneMoves ==
  ASSUME WriterKnown, WriterKnown', WritersKept, NEW d \in Data,
         \A e \in Data \ {d} : holds'[e] = holds[e],
         \/ Stores!Keep(d) \/ Stores!Write(d) \/ Stores!Sync(d) \/ Stores!Spoil(d)
         \/ d \in spoilt'
  PROVE  StoresMove
<1>1. \A e \in Data \ {d} : Stores!Keep(e)
  BY StoreKept DEF WritersKept
<1> QED BY <1>1 DEF StoresMove

\* Where a failed read ends the wait for the old site's stop, an app that still runs
\* there lets go of the PVCs: what it writes from then on spoils them.
LEMMA StoreStopped ==
  ASSUME Careful, DInv, DInv', WriterKnown, WriterKnown', Stopped
  PROVE  StoresMove
<1> USE DEF DInv, IInv
<1>1. /\ pc = "stopWait" /\ pc' \in {"prebind", "copy"} /\ src \in Sites
      /\ UNCHANGED <<pod, role, holds, src>>
      /\ strays' = strays \/ strays' = strays \cup {src}
  BY DEF Stopped, TakenForStopped, TypeOK
<1>2. ~runs(src)'
  BY <1>1 DEF OldSiteStopped
<1>3. \A s \in Sites : ~Scratch(s) /\ ~Scratch(s)' /\ (live(s)' <=> live(s))
  BY <1>1 DEF Scratch, PrebindSteps, live
<1> SUFFICES ASSUME NEW d \in Data
             PROVE  Stores!Keep(d) \/ Stores!Release(d)
  BY DEF StoresMove
<1>4. WriterOf(d) \in Sites \cup {Unset} /\ WriterOf(d)' \in Sites \cup {Unset}
  BY DEF WriterKnown
<1>5. CASE d \in Clusters \/ strays' = strays \/ ~runs(src)
  <2>1. d \in Clusters \/ \A s \in Sites : runs(s)' <=> runs(s)
    BY <1>1, <1>2, <1>3, <1>5 DEF runs
  <2>2. \A s \in Sites : Writes(s, d)' <=> Writes(s, d)
    BY <1>1, <1>3, <1>5, <2>1 DEF Writes, InRecovery, runs
  <2> QED BY <1>1, <2>2, StoreKept
<1>6. CASE d \notin Clusters /\ runs(src)
  <2>1. ~runs(Other(src))
    BY <1>1, <1>6 DEF Exclusive, MayRun, Sites, Other
  <2>2. \A s \in Sites : ~runs(s)'
    BY <1>1, <1>2, <1>3, <2>1, SitesTwo DEF runs
  <2>3. WriterOf(d) = src /\ WriterOf(d)' = Unset
    BY <1>1, <1>3, <1>4, <1>6, <2>2 DEF WriterKnown, Writes, runs
  <2> QED BY <1>1, <2>3, SitesTwo, StoreSteps
<1> QED BY <1>5, <1>6

\* Pods that start write to PVCs that are complete; pods that are gone let go of them.
\* Those of a prebind take no store, and those taken for stopped have none.
LEMMA StorePods ==
  ASSUME DInv, WriterKnown, WriterKnown', NEW s \in Sites,
         PodStart(s) \/ PodStop(s) \/ PodGone(s)
  PROVE  StoresMove
<1>1. /\ UNCHANGED <<role, holds, spoilt>>
      /\ \A t \in Sites \ {s} : (live(t)' <=> live(t)) /\ (t \in strays' <=> t \in strays)
      /\ \A t \in Sites : Scratch(t)' <=> Scratch(t)
  BY DEF PodStart, PodStop, PodGone, SetPod, live, Scratch, DInv, IInv, TypeOK
<1>a. \A t \in Sites \ {s} : runs(t)' <=> runs(t)
  BY <1>1 DEF runs
<1> SUFFICES ASSUME NEW d \in Data \ spoilt'
             PROVE  Stores!Keep(d) \/ Stores!Acquire(d) \/ Stores!Release(d)
  BY DEF StoresMove
<1>2. WriterOf(d) \in Sites \cup {Unset} /\ WriterOf(d)' \in Sites \cup {Unset}
  BY DEF WriterKnown
<1>3. CASE d \in Clusters \/ Scratch(s) \/ (runs(s)' <=> runs(s))
  <2>1. \A t \in Sites : Writes(t, d)' <=> Writes(t, d)
    BY <1>1, <1>a, <1>3 DEF Writes, InRecovery, runs
  <2> QED BY <1>1, <2>1, StoreKept
<1>4. ASSUME d \notin Clusters, ~Scratch(s), PodStart(s), ~(runs(s)' <=> runs(s))
      PROVE  Stores!Acquire(d)
  <2>1. d \in Pvcs /\ runs(s)' /\ ~runs(s) /\ MayRun(s)
    BY <1>4 DEF Data, PodStart, SetPod, live, runs, MayRun, DInv, IInv, TypeOK
  <2>2. s \in holds[d] /\ ~runs(Other(s))
    BY <1>1, <1>4, <2>1 DEF DInv, IInv, MayMeansCurrent, Exclusive, MayRun, Sites, Other
  <2>3. WriterOf(d)' = s
    BY <1>1, <1>4, <2>1 DEF WriterKnown, Writes, runs
  <2>4. \A t \in Sites : ~runs(t)
    BY <2>1, <2>2, SitesTwo
  <2>5. WriterOf(d) = Unset
    BY <1>2, <1>4, <2>4 DEF WriterKnown, Writes, runs
  <2> QED BY <1>1, <2>2, <2>3, <2>5, StoreSteps
<1>5. ASSUME PodStop(s) PROVE runs(s)' <=> runs(s)
  BY <1>5 DEF PodStop, SetPod, live, runs, DInv, IInv, TypeOK
<1>6. ASSUME d \notin Clusters, ~Scratch(s), PodGone(s), ~(runs(s)' <=> runs(s))
      PROVE  Stores!Release(d)
  <2>1. ~runs(s)' /\ runs(s)
    BY <1>6 DEF PodGone, SetPod, live, runs, DInv, IInv, TypeOK
  <2>2. ~runs(Other(s))
    BY <2>1 DEF DInv, IInv, Exclusive, MayRun, Sites, Other
  <2>3. \A t \in Sites : ~runs(t)'
    BY <1>a, <2>1, <2>2, SitesTwo
  <2>4. WriterOf(d) = s /\ WriterOf(d)' = Unset
    BY <1>2, <1>6, <2>1, <2>3 DEF WriterKnown, Writes, runs
  <2> QED BY <1>1, <2>4, SitesTwo, StoreSteps
<1> QED BY <1>3, <1>4, <1>5, <1>6

\* A demotion lets go of one database, a promotion takes hold of a complete one.
LEMMA StoreRoles ==
  ASSUME Careful, DInv, WriterKnown, WriterKnown', NEW s \in Sites, NEW c \in Clusters,
         Demote(s, c) \/ Promote(s, c)
  PROVE  StoresMove
<1>1. UNCHANGED <<pod, strays, pc, src>> /\ \A t \in Sites, e \in Clusters : t # s \/ e # c => role'[t][e] = role[t][e]
  <2>1. CASE Demote(s, c)
    BY <2>1 DEF Demote, DInv, IInv, TypeOK
  <2>2. CASE Promote(s, c)
    BY <2>2 DEF Promote, DInv, IInv, TypeOK
  <2> QED BY <2>1, <2>2
<1>2. \A d \in Data : holds'[d] \cap Sites = holds[d] \cap Sites
  <2>1. CASE Demote(s, c)
    <3>1. s \in holds[c] /\ c \in Data
      BY <2>1 DEF Demote, DInv, PrimaryCurrent, Data
    <3>2. holds'[c] = holds[c] \cup {InTransit} /\ \A d \in Data \ {c} : holds'[d] = holds[d]
      BY <2>1, <3>1 DEF Demote, DInv, IInv, TypeOK
    <3> QED BY <3>2, SentinelAssumption
  <2>2. CASE Promote(s, c)
    BY <2>2 DEF Promote
  <2> QED BY <2>1, <2>2
<1> SUFFICES ASSUME NEW d \in Data
             PROVE  Stores!Keep(d) \/ Stores!Acquire(d) \/ Stores!Release(d)
  BY DEF StoresMove
<1>3. WriterOf(d) \in Sites \cup {Unset} /\ WriterOf(d)' \in Sites \cup {Unset}
  BY DEF WriterKnown
<1>4. CASE d # c
  <2>1. \A t \in Sites : Writes(t, d)' <=> Writes(t, d)
    BY <1>1, <1>4 DEF Writes, InRecovery, live, Scratch
  <2> QED BY <1>2, <2>1, StoreKept
<1>5. ASSUME d = c, Demote(s, c) PROVE Stores!Release(d)
  <2>1. InRecovery(s, c)' /\ ~InRecovery(s, c) /\ InRecovery(Other(s), c)
    BY <1>5 DEF Demote, InRecovery, DInv, IInv, TypeOK, Exclusive, MayLead
  <2>2. \A t \in Sites : InRecovery(t, c)'
    BY <1>1, <2>1, SitesTwo DEF InRecovery
  <2>3. WriterOf(d) = s /\ WriterOf(d)' = Unset
    BY <1>3, <1>5, <2>1, <2>2 DEF WriterKnown, Writes
  <2> QED BY <1>2, <2>3, SitesTwo, StoreSteps
<1>6. ASSUME d = c, Promote(s, c) PROVE Stores!Acquire(d)
  <2>1. ~InRecovery(s, c)' /\ InRecovery(s, c) /\ InRecovery(Other(s), c)
    BY <1>6 DEF Promote, InRecovery, DInv, IInv, TypeOK, Exclusive, MayLead
  <2>2. \A t \in Sites : InRecovery(t, c)
    BY <2>1, SitesTwo
  <2>3. WriterOf(d) = Unset /\ WriterOf(d)' = s
    BY <1>3, <1>6, <2>1, <2>2 DEF WriterKnown, Writes
  <2>4. s \in holds[d]
    BY <1>6, PromoteCurrent
  <2> QED BY <1>2, <2>3, <2>4, StoreSteps
<1> QED BY <1>4, <1>5, <1>6


LEMMA StoreData ==
  ASSUME Careful, DInv, WriterKnown, WriterKnown', NEW s \in Sites,
         \/ \E c \in Clusters : WriteDb(s, c) \/ Replay(s, c)
         \/ \E p \in Pvcs : WritePvc(s, p) \/ OrphanEnds(s, p)
  PROVE  StoresMove
<1>1. WritersKept
  <2>1. UNCHANGED <<role, pod, strays, pc, src>>
    BY DEF WriteDb, Replay, WritePvc, OrphanEnds, SetHolds
  <2> QED BY <2>1, WritersKeptPlain DEF Scratch
<1>2. Clusters # {} => ~Scratch(s)
  BY DEF DInv, IInv, PrebindPlace, Scratch, Careful, Planned
<1>3. ASSUME NEW c \in Clusters, WriteDb(s, c) PROVE StoresMove
  <2>1. c \in Data /\ s \in holds[c] /\ WriterOf(c) = s
    BY <1>3 DEF WriteDb, DInv, PrimaryCurrent, WriterKnown, Writes, Data
  <2>2. holds'[c] = {s} /\ \A d \in Data \ {c} : holds'[d] = holds[d]
    BY <1>2, <1>3, <2>1 DEF WriteDb, WrittenAt, SetHolds, DInv, IInv, TypeOK
  <2>3. Stores!Write(c)
    BY <1>1, <2>1, <2>2, SitesTwo, StoreKept, StoreSteps DEF WritersKept
  <2> QED BY <1>1, <2>1, <2>2, <2>3, OneMoves
<1>b. ASSUME NEW p \in Pvcs, WritePvc(s, p) \/ OrphanEnds(s, p), p \in spoilt'
      PROVE  StoresMove
  <2>1. p \in Data /\ \A d \in Data \ {p} : holds'[d] = holds[d]
    BY <1>b DEF WritePvc, OrphanEnds, SetHolds, Data, DInv, IInv, TypeOK
  <2> QED BY <1>1, <1>b, <2>1, OneMoves
<1>a. ASSUME NEW p \in Pvcs, WritePvc(s, p), Scratch(s), p \notin spoilt' PROVE StoresMove
  <2>1. p \in Data /\ p \notin Clusters
    BY DataAssumption DEF Data
  <2>2. src \in holds[p] /\ src \in Sites /\ src # s
    BY <1>a, <2>1, SitesTwo DEF WritePvc, Scratch, DInv, IInv, TypeOK, OldSiteCurrent
  <2>3. holds'[p] = holds[p] \ {s} /\ \A d \in Data \ {p} : holds'[d] = holds[d]
    BY <1>a, <2>1 DEF WritePvc, WrittenAt, SetHolds, DInv, IInv, TypeOK
  <2>4. s # WriterOf(p)
    BY <1>a, <2>1 DEF WriterKnown, Writes
  <2>5. holds'[p] \cap Sites = (holds[p] \cap Sites) \ {s} /\ holds'[p] \cap Sites # {}
    BY <2>2, <2>3
  <2>6. Stores!Spoil(p)
    BY <1>1, <2>1, <2>4, <2>5, StoreKept, StoreSteps DEF WritersKept
  <2> QED BY <1>1, <2>1, <2>3, <2>6, OneMoves
<1>4. ASSUME NEW p \in Pvcs, WritePvc(s, p), ~Scratch(s), p \notin spoilt' PROVE StoresMove
  <2>1. p \in Data /\ p \notin Clusters /\ runs(s) /\ p \notin spoilt
    BY <1>4, DataAssumption DEF WritePvc, Data, runs
  <2>2. s \in holds[p] /\ WriterOf(p) = s
    BY <1>4, <2>1 DEF DInv, MayMeansCurrent, MayRun, WriterKnown, Writes, runs
  <2>3. holds'[p] = {s} /\ \A d \in Data \ {p} : holds'[d] = holds[d]
    BY <1>4, <2>1, <2>2 DEF WritePvc, WrittenAt, SetHolds, DInv, IInv, TypeOK
  <2>4. Stores!Write(p)
    BY <1>1, <2>1, <2>2, <2>3, SitesTwo, StoreKept, StoreSteps DEF WritersKept
  <2> QED BY <1>1, <2>1, <2>3, <2>4, OneMoves
<1>5. ASSUME NEW c \in Clusters, Replay(s, c) PROVE StoresMove
  <2>1. c \in Data /\ Other(s) \in holds[c] \cap Sites
    BY <1>5, SitesTwo DEF Replay, Data
  <2>2. holds'[c] = holds[c] \cup {s} /\ \A d \in Data \ {c} : holds'[d] = holds[d]
    BY <1>5, <2>1 DEF Replay, SetHolds, DInv, IInv, TypeOK
  <2>3. holds'[c] \cap Sites = (holds[c] \cap Sites) \cup {s}
    BY <2>2
  <2>4. Stores!Sync(c)
    BY <1>1, <2>1, <2>3, StoreKept, StoreSteps DEF WritersKept
  <2> QED BY <1>1, <2>1, <2>2, <2>4, OneMoves
<1>6. ASSUME NEW p \in Pvcs, OrphanEnds(s, p), p \notin spoilt' PROVE StoresMove
  <2>1. p \in Data /\ p \notin Clusters
    BY DataAssumption DEF Data
  <2>2. ~runs(s) /\ Other(s) \in holds[p]
    BY <1>6 DEF OrphanEnds, DInv, OrphansHarmless, MayRun
  <2>3. holds'[p] = holds[p] \ {s} /\ \A d \in Data \ {p} : holds'[d] = holds[d]
    BY <1>6, <2>1 DEF OrphanEnds, DInv, IInv, TypeOK
  <2>4. s # WriterOf(p)
    BY <2>1, <2>2 DEF WriterKnown, Writes, runs
  <2>5. holds'[p] \cap Sites = (holds[p] \cap Sites) \ {s} /\ holds'[p] \cap Sites # {}
    BY <2>2, <2>3, SitesTwo
  <2>6. Stores!Spoil(p)
    BY <1>1, <2>1, <2>4, <2>5, StoreKept, StoreSteps DEF WritersKept
  <2> QED BY <1>1, <2>1, <2>3, <2>6, OneMoves
<1> QED BY <1>3, <1>a, <1>b, <1>4, <1>5, <1>6

\* A Restore fills the new site's copy, or spoils it if it is left half done.
LEMMA StoreRestore ==
  ASSUME Careful, DInv, WriterKnown, WriterKnown',
         Restored \/ CopyFails \/ KubectlFails \/ Crash, pc = "restore"
  PROVE  StoresMove
<1>1. WritersKept
  <2>1. UNCHANGED <<role, pod, strays>> /\ pc' \notin PrebindSteps /\ pc \notin PrebindSteps
    BY DEF Restored, CopyFails, KubectlFails, Crash, PrebindSteps
  <2> QED BY <2>1, WritersKeptPlain DEF Scratch
<1>2. PICK p \in Pvcs : p = cur /\ p \in Data /\ p \notin Clusters
  BY DataAssumption DEF DInv, IInv, TypeOK, Data
<1>3. PICK n \in Sites, o \in Sites : o = src /\ n = new /\ o # n
  BY SitesTwo DEF DInv, IInv, TypeOK, new
<1>a. UNCHANGED spoilt /\ \A d \in Data \ {p} : holds'[d] = holds[d]
  BY <1>2 DEF Restored, CopyFails, KubectlFails, Crash, LeaveRestore, DInv, IInv, TypeOK
<1>b. CASE p \in spoilt
  BY <1>1, <1>2, <1>a, <1>b, OneMoves
<1> SUFFICES ASSUME p \notin spoilt PROVE StoresMove
  BY <1>b
<1>4. o \in holds[p] /\ InTransit \in holds[p] /\ ~runs(n)
  BY <1>2, <1>3
  DEF DInv, IInv, OldSiteCurrent, NewSiteFilled, NewSiteOff, NewOff, BeforePromotion, MayRun, Careful
<1>5. n # WriterOf(p)
  BY <1>2, <1>4 DEF WriterKnown, Writes, runs
<1>6. CASE Restored
  <2>1. holds'[p] = holds[p] \cup {n} /\ \A d \in Data \ {p} : holds'[d] = holds[d]
    BY <1>2, <1>3, <1>4, <1>6 DEF Restored, DInv, IInv, TypeOK
  <2>2. holds[p] \cap Sites # {} /\ holds'[p] \cap Sites = (holds[p] \cap Sites) \cup {n}
    BY <1>4, <2>1
  <2>3. Stores!Sync(p)
    BY <1>1, <1>2, <2>2, StoreKept, StoreSteps DEF WritersKept
  <2> QED BY <1>1, <1>2, <2>1, <2>3, OneMoves
<1>7. CASE CopyFails \/ KubectlFails \/ Crash
  <2>1. LeaveRestore
    BY <1>7 DEF CopyFails, KubectlFails, Crash
  <2>2. holds'[p] = holds[p] \ {n} /\ \A d \in Data \ {p} : holds'[d] = holds[d]
    BY <1>2, <1>3, <2>1 DEF LeaveRestore, DInv, IInv, TypeOK
  <2>3. holds'[p] \cap Sites # {} /\ holds'[p] \cap Sites = (holds[p] \cap Sites) \ {n}
    BY <1>3, <1>4, <2>2
  <2>4. Stores!Spoil(p)
    BY <1>1, <1>2, <1>5, <2>3, StoreKept, StoreSteps DEF WritersKept
  <2> QED BY <1>1, <1>2, <2>2, <2>4, OneMoves
<1> QED BY <1>6, <1>7

LEMMA StoreSnapshot ==
  ASSUME DInv, WriterKnown, WriterKnown', Snapshotted
  PROVE  StoresMove
<1>1. WritersKept
  <2>1. UNCHANGED <<role, pod, strays>> /\ pc' \notin PrebindSteps /\ pc \notin PrebindSteps
    BY DEF Snapshotted, PrebindSteps
  <2> QED BY <2>1, WritersKeptPlain DEF Scratch
<1>2. PICK p \in Pvcs : p = cur /\ p \in Data
  BY DEF Snapshotted, DInv, IInv, TypeOK, Data
<1>3. /\ holds'[p] \in {holds[p] \cup {InTransit}, holds[p] \ {InTransit}}
      /\ \A d \in Data \ {p} : holds'[d] = holds[d]
  BY <1>2 DEF Snapshotted, DInv, IInv, TypeOK
<1>4. \A d \in Data : holds'[d] \cap Sites = holds[d] \cap Sites
  BY <1>3, SentinelAssumption
<1> QED BY <1>1, <1>4, NothingMoves

LEMMA StoreNext ==
  ASSUME Careful, DInv, DInv', WriterKnown, WriterKnown', Next
  PROVE  StoresMove
<1>1. CASE EnvNext
  <2>1. PICK s \in Sites :
          \/ FluxSettings(s) \/ FluxApp(s) \/ PodStart(s) \/ PodStop(s) \/ PodGone(s)
          \/ MakePermanent(s)
          \/ \E c \in Clusters : FluxDb(s, c) \/ WriteDb(s, c) \/ Replay(s, c)
                                 \/ Demote(s, c) \/ Promote(s, c)
          \/ \E p \in Pvcs : WritePvc(s, p) \/ OrphanEnds(s, p)
    BY <1>1 DEF EnvNext
  <2>2. CASE FluxSettings(s) \/ FluxApp(s) \/ MakePermanent(s) \/ \E c \in Clusters : FluxDb(s, c)
    <3>1. UNCHANGED <<role, pod, strays, holds, pc, src>>
      BY <2>2 DEF FluxSettings, FluxApp, MakePermanent, FluxDb
    <3>2. WritersKept
      BY <3>1, WritersKeptPlain DEF Scratch
    <3> QED BY <3>1, <3>2, NothingMoves
  <2> QED BY <2>1, <2>2, StorePods, StoreRoles, StoreData
<1>2. CASE ToolNext
  <2>a. CASE Stopped
    BY <2>a, StoreStopped
  <2> SUFFICES ASSUME ~Stopped PROVE StoresMove
    BY <2>a
  <2>0. WritersKept
    BY <1>2, WritersTool
  <2>1. CASE Restored \/ ((CopyFails \/ KubectlFails \/ Crash) /\ pc = "restore")
    BY <2>1, StoreRestore DEF Restored
  <2>2. CASE (CopyFails \/ KubectlFails \/ Crash) /\ pc # "restore"
    <3>1. UNCHANGED holds
      BY <2>2 DEF CopyFails, KubectlFails, Crash, LeaveRestore
    <3> QED BY <2>0, <3>1, NothingMoves
  <2>3. CASE Snapshotted
    BY <2>3, StoreSnapshot
  <2>4. CASE ~(Restored \/ CopyFails \/ KubectlFails \/ Crash \/ Snapshotted)
    <3>1. UNCHANGED holds
      BY <1>2, <2>4
      DEF ToolNext, Preflight, Aborted, StopOld, AppReconcile, PrebindOn,
          PrebindBound, PrebindOff, PrebindStopped, TakenForStopped, CopyPvc, Rollback, RolledBack, Copied,
          DemoteOld, DbReconcile, TokenRead, PromoteNew, PrimarySeen, Switched, TimesOut,
          Clear, NothingToClear, ClearConfirmed, ClearGit, ClearKeys, ClearReconcile
    <3> QED BY <2>0, <3>1, NothingMoves
  <2> QED BY <2>1, <2>2, <2>3, <2>4
<1> QED BY <1>1, <1>2 DEF Next

\* A PVC that an app taken for stopped has written stays one.
LEMMA SpoiltGrows == ASSUME [Next]_vars PROVE spoilt \subseteq spoilt'
<1>1. CASE UNCHANGED vars
  BY <1>1 DEF vars
<1>2. CASE EnvNext
  BY <1>2, EnvKeeps
<1>3. CASE ToolNext
  BY <1>3
  DEF ToolNext, Preflight, Aborted, StopOld, AppReconcile, Stopped, PrebindOn,
      PrebindBound, PrebindOff, PrebindStopped, TakenForStopped, CopyPvc, Snapshotted,
      Restored, CopyFails, Rollback, RolledBack, Copied, DemoteOld, DbReconcile, TokenRead,
      PromoteNew, PrimarySeen, Switched, TimesOut, KubectlFails, Crash, Clear,
      NothingToClear, ClearConfirmed, ClearGit, ClearKeys, ClearReconcile
<1> QED BY <1>1, <1>2, <1>3 DEF Next

LEMMA StoreInit == ASSUME Careful, Init PROVE Stores!Init
<1>1. PICK home \in Sites : Init!(home)
  BY DEF Init
<1>2. WriterKnown
  BY DataInit, WriterIsKnown DEF DInv
<1>3. \A d \in Data : WriterOf(d) = home
  BY <1>1, <1>2 DEF WriterKnown, Writes, InRecovery, live, Scratch, PrebindSteps
<1>4. spoilt = {} /\ \A d \in Data : holds[d] \cap Sites = {home}
  BY <1>1
<1> QED BY <1>3, <1>4 DEF Stores!Init

\* A planned move, with everything that may happen between its steps, implements
\* the single-writer store for all of the app's PVCs and Postgres clusters: a site
\* lets go of a store before the other takes hold of it, and takes hold of it only
\* where its copy is complete.  Where a failed read ends the wait for a stop, this holds
\* of the databases all the same, and of each PVC until the app left running writes it.
THEOREM ImplementsSingleWriterCorrect == ASSUME Careful PROVE Spec => ImplementsSingleWriter
<1>1. Init => DInv /\ StraysRead /\ Stores!Init
  BY DataInit, StraysInit, StoreInit
<1>2. DInv /\ StraysRead /\ [Next]_vars => DInv' /\ StraysRead'
  BY DataNext, StraysNext
<1>3. DInv => WriterKnown
  BY WriterIsKnown DEF DInv
<1>4. ASSUME DInv, DInv', StraysRead', WriterKnown, WriterKnown', [Next]_vars
      PROVE  [Stores!Next]_<<[d \in Data |-> WriterOf(d)], [d \in Data |-> holds[d] \cap Sites], spoilt>>
  <2>1. ASSUME UNCHANGED vars PROVE StoresMove
    <3>1. UNCHANGED <<role, pod, strays, holds, pc, src>>
      BY <2>1 DEF vars
    <3>2. WritersKept
      BY <3>1, WritersKeptPlain DEF Scratch
    <3> QED BY <1>4, <3>1, <3>2, NothingMoves
  <2>2. StoresMove
    BY <1>4, <2>1, StoreNext
  <2>3. spoilt \subseteq spoilt' /\ spoilt' \subseteq IF "unread" \in Faults THEN Pvcs ELSE {}
    BY <1>4, SpoiltGrows DEF StraysRead, DInv, IInv, TypeOK
  <2> QED BY <2>2, <2>3 DEF StoresMove, Stores!Next
<1> QED BY <1>1, <1>2, <1>3, <1>4, PTL DEF Spec, ImplementsSingleWriter, Stores!Spec


=============================================================================
