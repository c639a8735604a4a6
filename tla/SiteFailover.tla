---------------------------- MODULE SiteFailover ----------------------------
(***************************************************************************)
(* bin/site-failover: the planned move of one app between the two sites,   *)
(* its rollback, and `clear`, together with what the tool drives and does  *)
(* not control: Flux (which applies the overrides when the tool asks and   *)
(* also on its own interval), the app's pods, CloudNativePG and kopiur.    *)
(*                                                                         *)
(* The tool is one process that moves through the labels of `pc`; every    *)
(* other action may interleave between any two of its steps, and it may    *)
(* die at any of them.  No counter bounds the model: data is represented   *)
(* by who holds all of it, so the number of runs, writes, pull requests    *)
(* and crashes is unlimited and the state space is finite all the same.    *)
(***************************************************************************)

CONSTANTS
  Wsl1, Wsl2,    \* the two sites, in the order of SITES
  Clusters,      \* the app's Postgres clusters (pg_list); empty: no database
  Pvcs,          \* the PVCs a switchover copies (app["pvcs"])
  Prebind,       \* the app's "prebind" flag
  Faults,        \* which of FaultKinds the environment may show
  Unset,         \* an override key that is not there; no PVC in hand
  InTransit      \* the copy travelling between the sites (see holds)

Sites == {Wsl1, Wsl2}
Other(s) == IF s = Wsl1 THEN Wsl2 ELSE Wsl1
Data == Clusters \cup Pvcs

(***************************************************************************)
(* crash        the tool's process ends between two steps                  *)
(* kubectl      a kubectl call of the copy fails: Site.run calls die()     *)
(* reconcile    a `flux reconcile` doesn't finish cleanly, and the tool     *)
(*              carries on                                                 *)
(* psql         kubectl exec psql fails: Site.psql returns None            *)
(* linger       something still writes once `status.replicas` is 0: a      *)
(*              terminating pod, a Job of a suspended CronJob              *)
(* settingsLag  cluster-settings of an older commit are still applied      *)
(* lateRestore  a Restore the tool gave up on outlives the operator's wait *)
(* wrongWay     a switchover starts from a site that doesn't have the app: *)
(*              a finished one is run again, a failed one is run backwards *)
(* prebind      a wait of the prebind times out: PVCs not bound, or the    *)
(*              app not stopped again                                      *)
(* earlyClear   `clear` is run before the last promotion has finished      *)
(* unread       a `kubectl get` fails and Site.get returns None:           *)
(*              deployments_stopped takes the workload for stopped, clear  *)
(*              finds nothing to clear                                     *)
(* wiped        set_overrides reads the ConfigMap back after its apply, and *)
(*              the read fails: taken for empty, it is deleted             *)
(***************************************************************************)
FaultKinds == {"crash", "kubectl", "reconcile", "psql", "linger", "settingsLag",
  "lateRestore", "wrongWay", "prebind", "earlyClear", "unread", "wiped"}

ASSUME SitesAssumption == Wsl1 # Wsl2
ASSUME DataAssumption == Clusters \cap Pvcs = {}
ASSUME FlagsAssumption == Prebind \in BOOLEAN /\ Faults \subseteq FaultKinds
ASSUME SentinelAssumption ==
  /\ Unset \notin Sites \cup Pvcs \cup {"0", "1"}
  /\ InTransit \notin Sites

VARIABLES
  gitHome,     \* the site both cluster-settings name on the main branch
  settings,    \* settings[s]: the site that s's applied cluster-settings name
  ov,          \* ov[s]: this app's keys in s's site-overrides ConfigMap
  desired,     \* desired[s]: spec.replicas as Flux last applied it at s
  pod,         \* pod[s]: what the app's workloads do at s
  dbspec,      \* dbspec[s][c]: spec.replica as Flux last applied it
  role,        \* role[s][c]: what the Postgres cluster is
  tokenOut,    \* tokenOut[s]: clusters that show a demotion token in status
  holds,       \* holds[d]: the copies of d with every acknowledged write
  orphans,     \* Restores still running that no tool waits for
  pc,          \* where the tool is
  src,         \* `old` of a switchover, the site in hand of a clear
  left,        \* PVCs still to copy, then clusters whose token is awaited
  cur,         \* the PVC whose Snapshot or Restore is under way
  fixForward   \* --no-rollback

\* Auxiliary: what the properties remember of failed reads.  No action reads them.
VARIABLES
  strays,      \* sites whose app was taken for stopped and hasn't ended since
  spoilt       \* PVCs such an app has written

envVars == <<gitHome, settings, desired, pod, dbspec, role, tokenOut, holds, orphans,
             strays, spoilt>>
toolVars == <<pc, src, left, cur, fixForward>>
vars == <<gitHome, settings, ov, desired, pod, dbspec, role, tokenOut, holds,
          orphans, strays, spoilt, pc, src, left, cur, fixForward>>

Copies == Sites \cup {InTransit}
Keys == [replicas : {"0", "1", Unset}, primary : Sites \cup {Unset},
         tokens : SUBSET Clusters]
NoKeys == [replicas |-> Unset, primary |-> Unset, tokens |-> {}]

SwitchSteps == {"confirm", "stopKs", "stopWait", "prebind", "prebindKs",
  "prebindWait", "prebindOff", "prebindOffKs", "prebindOffWait", "copy",
  "snapshot", "restore", "rollback", "rollbackKs", "rollbackWait", "demote",
  "demoteKs", "token", "promote", "promoteKs", "primaryWait", "startKs",
  "readyWait"}
ClearSteps == {"clear", "clearGit", "clearKeys", "clearKs"}
PrebindSteps == {"prebindKs", "prebindWait", "prebindOff", "prebindOffKs",
  "prebindOffWait"}
\* the body of cmd_switchover's try block
CopySteps == {"prebind", "copy", "snapshot", "restore"} \cup PrebindSteps

TypeOK ==
  /\ gitHome \in Sites
  /\ settings \in [Sites -> Sites]
  /\ ov \in [Sites -> Keys]
  /\ desired \in [Sites -> {"0", "1"}]
  /\ pod \in [Sites -> {"none", "running", "lingering"}]
  /\ dbspec \in [Sites -> [Clusters -> [primary : Sites, token : BOOLEAN]]]
  /\ role \in [Sites -> [Clusters -> {"primary", "replica"}]]
  /\ tokenOut \in [Sites -> SUBSET Clusters]
  /\ holds \in [Data -> SUBSET Copies]
  /\ orphans \subseteq Sites \X Pvcs
  /\ strays \subseteq Sites /\ spoilt \subseteq Pvcs
  /\ pc \in {"idle"} \cup SwitchSteps \cup ClearSteps
  /\ src \in Sites
  /\ left \subseteq Data
  /\ cur \in IF pc \in {"snapshot", "restore"} THEN Pvcs ELSE {Unset}
  /\ fixForward \in BOOLEAN

-----------------------------------------------------------------------------
(* What a site's Flux substitutes: the override where it exists (the last   *)
(* substituteFrom source), cluster-settings otherwise.                      *)

EffReplicas(s) ==
  IF ov[s].replicas # Unset THEN ov[s].replicas
  ELSE IF settings[s] = s THEN "1" ELSE "0"

EffPrimary(s) == IF ov[s].primary # Unset THEN ov[s].primary ELSE settings[s]

\* Server-side apply with the app's own field manager: the keys written are
\* all the app has afterwards, unless the ConfigMap is taken for empty and goes.
SetOverrides(s, keys) ==
  \E written \in {keys} \cup (IF "wiped" \in Faults THEN {NoKeys} ELSE {}) :
    ov' = [ov EXCEPT ![s] = written]

\* set_overrides(app, {REPLICAS: r}), with the toggles that go with it
ReplicasKey(r) == [NoKeys EXCEPT !.replicas = r]

live(s) == pod[s] # "none"

\* What the app writes during a prebind is not kept: "their exact mirror
\* replaces whatever the app wrote meanwhile".
Scratch(s) == pc \in PrebindSteps /\ s = Other(src)

\* A write at s reaches no other copy, and made on a copy that had missed
\* writes it leaves no complete copy at all.
WrittenAt(s, d) ==
  IF Scratch(s) THEN holds[d] \ {s} ELSE IF s \in holds[d] THEN {s} ELSE {}

\* Mutant: status.replicas isn't looked at.
StoppedBySpec(s) == desired[s] = "0"

SeenStopped(s) ==
  /\ desired[s] = "0"
  /\ pod[s] # "running"
  /\ pod[s] = "lingering" => "linger" \in Faults

\* get(check=False): a workload that can't be read is skipped, so a failed read
\* counts as stopped.
DeploymentsStopped(s) == SeenStopped(s) \/ "unread" \in Faults

\* The wait for a stop ends.
TakenForStopped(s) ==
  /\ DeploymentsStopped(s)
  /\ strays' = IF SeenStopped(s) THEN strays ELSE strays \cup {s}
  /\ UNCHANGED <<gitHome, settings, desired, pod, dbspec, role, tokenOut, holds,
                 orphans, spoilt>>

DeploymentsReady(s) == desired[s] = "1" /\ pod[s] = "running"

\* in_recovery is (psql output = "t"): an unreadable answer counts as "not in
\* recovery", so only a readable one shows a replica.
InRecovery(s, c) == role[s][c] = "replica"
NotInRecoverySeen(s, c) == ~InRecovery(s, c) \/ "psql" \in Faults

\* Site.reconcile: Flux applies the Kustomization now, or it doesn't finish
\* cleanly and the tool carries on.
ReconcileApp(s) ==
  \/ desired' = [desired EXCEPT ![s] = EffReplicas(s)]
  \/ "reconcile" \in Faults /\ UNCHANGED desired

Applied(s, c) == [primary |-> EffPrimary(s), token |-> c \in ov[s].tokens]

ReconcileDb(s) ==
  \E done \in IF "reconcile" \in Faults THEN SUBSET Clusters ELSE {Clusters} :
    dbspec' = [dbspec EXCEPT ![s] =
                 [c \in Clusters |-> IF c \in done THEN Applied(s, c) ELSE @[c]]]

-----------------------------------------------------------------------------
(* Flux on its own interval, the workloads, the app's writes                *)

FluxSettings(s) ==
  /\ settings' = [settings EXCEPT ![s] = gitHome]
  /\ UNCHANGED <<gitHome, ov, desired, pod, dbspec, role, tokenOut, holds, orphans, strays, spoilt>>
  /\ UNCHANGED toolVars

\* Mutant: the app's Kustomization isn't wired to the override.
FluxAppUnwired(s) ==
  /\ desired' = [desired EXCEPT ![s] = IF settings[s] = s THEN "1" ELSE "0"]
  /\ UNCHANGED <<gitHome, settings, ov, pod, dbspec, role, tokenOut, holds, orphans, strays, spoilt>>
  /\ UNCHANGED toolVars

\* An app's Kustomization waits for its database's to be Ready (dependsOn), which
\* delays this step as its interval does; a replica cluster is Ready too.
FluxApp(s) ==
  /\ desired' = [desired EXCEPT ![s] = EffReplicas(s)]
  /\ UNCHANGED <<gitHome, settings, ov, pod, dbspec, role, tokenOut, holds, orphans, strays, spoilt>>
  /\ UNCHANGED toolVars

FluxDb(s, c) ==
  /\ dbspec' = [dbspec EXCEPT ![s][c] = Applied(s, c)]
  /\ UNCHANGED <<gitHome, settings, ov, desired, pod, role, tokenOut, holds, orphans, strays, spoilt>>
  /\ UNCHANGED toolVars

SetPod(s, from, to) ==
  /\ pod[s] = from
  /\ pod' = [pod EXCEPT ![s] = to]
  /\ strays' = IF to = "none" THEN strays \ {s} ELSE strays
  /\ UNCHANGED <<gitHome, settings, ov, desired, dbspec, role, tokenOut, holds, orphans, spoilt>>
  /\ UNCHANGED toolVars

PodStart(s) == desired[s] = "1" /\ SetPod(s, "none", "running")
PodStop(s) == desired[s] = "0" /\ SetPod(s, "running", "lingering")
PodGone(s) == SetPod(s, "lingering", "none")

SetHolds(d, copies) ==
  /\ holds' = [holds EXCEPT ![d] = copies]
  /\ UNCHANGED <<gitHome, settings, ov, desired, pod, dbspec, role, tokenOut, orphans, strays>>
  /\ UNCHANGED toolVars

WritePvc(s, p) ==
  /\ live(s)
  /\ SetHolds(p, WrittenAt(s, p))
  /\ spoilt' = IF s \in strays THEN spoilt \cup {p} ELSE spoilt

WriteDb(s, c) ==
  /\ live(s) /\ ~InRecovery(s, c)
  /\ SetHolds(c, WrittenAt(s, c))
  /\ UNCHANGED spoilt

-----------------------------------------------------------------------------
(* CloudNativePG's distributed topology and kopiur, as the tool relies on   *)
(* them                                                                     *)

\* The standby replays the other site's archive.
Replay(s, c) ==
  /\ InRecovery(s, c)
  /\ Other(s) \in holds[c]
  /\ SetHolds(c, holds[c] \cup {s})
  /\ UNCHANGED spoilt

\* spec.replica.primary names the other site: shut down, publish the token.
\* InTransit \in holds[c] from here on: the token's LSN covers every write.
Demote(s, c) ==
  /\ dbspec[s][c].primary = Other(s)
  /\ ~InRecovery(s, c)
  /\ role' = [role EXCEPT ![s][c] = "replica"]
  /\ tokenOut' = [tokenOut EXCEPT ![s] = @ \cup {c}]
  /\ holds' = [holds EXCEPT ![c] =
                 IF s \in @ THEN @ \cup {InTransit} ELSE @ \ {InTransit}]
  /\ UNCHANGED <<gitHome, settings, ov, desired, pod, dbspec, orphans, strays, spoilt>>
  /\ UNCHANGED toolVars

\* With a token, not before the token's LSN is replayed; without one, at once.
Promote(s, c) ==
  /\ dbspec[s][c].primary = s
  /\ InRecovery(s, c)
  /\ dbspec[s][c].token /\ InTransit \in holds[c] => s \in holds[c]
  /\ role' = [role EXCEPT ![s][c] = "primary"]
  /\ tokenOut' = [tokenOut EXCEPT ![s] = @ \ {c}]
  /\ UNCHANGED <<gitHome, settings, ov, desired, pod, dbspec, holds, orphans, strays, spoilt>>
  /\ UNCHANGED toolVars

\* A Restore nobody waits for ends: it mirrors the snapshot it was made from,
\* which misses whatever was written since.
OrphanEnds(s, p) ==
  /\ <<s, p>> \in orphans
  /\ orphans' = orphans \ {<<s, p>>}
  /\ holds' = [holds EXCEPT ![p] = @ \ {s}]
  /\ UNCHANGED <<gitHome, settings, ov, desired, pod, dbspec, role, tokenOut, strays, spoilt>>
  /\ UNCHANGED toolVars

-----------------------------------------------------------------------------
(* cmd_switchover                                                           *)

new == Other(src)

\* A tool step that changes the tool's own variables only, apart from what the
\* action says.
Goto(step) == pc' = step
KeepEnv == UNCHANGED envVars

\* What the operator sees to before starting a switchover, except for the named
\* faults: the cluster-settings of the last merge are applied, no Restore is left
\* running, and `old` runs the app or was stopped by a switchover that failed
\* and is now run again.
OperatorStarts(old) ==
  /\ "settingsLag" \in Faults \/ \A s \in Sites : settings[s] = gitHome
  /\ "lateRestore" \in Faults \/ orphans = {}
  /\ \/ "wrongWay" \in Faults
     \/ EffReplicas(old) = "1"
     \/ old = src /\ EffReplicas(Other(old)) = "0"

\* The lease doesn't fence the app (check_lease), each Postgres cluster is a
\* primary on `old` and a replica on `new`; then the operator types the name.
Preflight(old) ==
  /\ pc = "idle"
  /\ \A c \in Clusters : NotInRecoverySeen(old, c) /\ InRecovery(Other(old), c)
  /\ OperatorStarts(old)
  /\ src' = old
  /\ fixForward' \in BOOLEAN
  /\ Goto("confirm")
  /\ KeepEnv /\ UNCHANGED <<ov, left, cur>>

Aborted == pc = "confirm" /\ Goto("idle") /\ KeepEnv
           /\ UNCHANGED <<ov, src, left, cur, fixForward>>

StopOld ==
  /\ pc = "confirm"
  /\ SetOverrides(src, ReplicasKey("0"))
  /\ Goto("stopKs")
  /\ KeepEnv /\ UNCHANGED <<src, left, cur, fixForward>>

\* Every reconcile of an app Kustomization: where, and the step after it.
AppReconciles ==
  [stopKs       |-> [site |-> src, then |-> "stopWait"],
   prebindKs    |-> [site |-> new, then |-> "prebindWait"],
   prebindOffKs |-> [site |-> new, then |-> "prebindOffWait"],
   rollbackKs   |-> [site |-> src, then |-> "rollbackWait"],
   startKs      |-> [site |-> new, then |-> "readyWait"]]

AppReconcile ==
  /\ pc \in DOMAIN AppReconciles
  /\ ReconcileApp(AppReconciles[pc].site)
  /\ Goto(AppReconciles[pc].then)
  /\ UNCHANGED <<gitHome, settings, ov, pod, dbspec, role, tokenOut, holds, orphans, strays, spoilt>>
  /\ UNCHANGED <<src, left, cur, fixForward>>

\* Mutant: the copy doesn't wait for the stop.
StoppedUnseen ==
  /\ pc = "stopWait"
  /\ left' = Pvcs
  /\ Goto(IF Prebind THEN "prebind" ELSE "copy")
  /\ KeepEnv /\ UNCHANGED <<ov, src, cur, fixForward>>

Stopped ==
  /\ pc = "stopWait"
  /\ TakenForStopped(src)
  /\ left' = Pvcs
  /\ Goto(IF Prebind THEN "prebind" ELSE "copy")
  /\ UNCHANGED <<ov, src, cur, fixForward>>

PrebindOn ==
  /\ pc = "prebind"
  /\ SetOverrides(new, ReplicasKey("1"))
  /\ Goto("prebindKs")
  /\ KeepEnv /\ UNCHANGED <<src, left, cur, fixForward>>

\* PVCs are bound once the pods that use them are scheduled; those of an earlier
\* run may be Bound before any pod is.
PrebindBound ==
  /\ pc = "prebindWait"
  /\ Goto("prebindOff")
  /\ KeepEnv /\ UNCHANGED <<ov, src, left, cur, fixForward>>

PrebindOff ==
  /\ pc = "prebindOff"
  /\ SetOverrides(new, ReplicasKey("0"))
  /\ Goto("prebindOffKs")
  /\ KeepEnv /\ UNCHANGED <<src, left, cur, fixForward>>

PrebindStopped ==
  /\ pc = "prebindOffWait"
  /\ TakenForStopped(new)
  /\ Goto("copy")
  /\ UNCHANGED <<ov, src, left, cur, fixForward>>

CopyPvc(p) ==
  /\ pc = "copy"
  /\ p \in left
  /\ cur' = p
  /\ Goto("snapshot")
  /\ KeepEnv /\ UNCHANGED <<ov, src, left, fixForward>>

Snapshotted ==
  /\ pc = "snapshot"
  /\ holds' = [holds EXCEPT ![cur] =
                 IF src \in @ THEN @ \cup {InTransit} ELSE @ \ {InTransit}]
  /\ Goto("restore")
  /\ UNCHANGED <<gitHome, settings, ov, desired, pod, dbspec, role, tokenOut, orphans, strays, spoilt>>
  /\ UNCHANGED <<src, left, cur, fixForward>>

\* An exact mirror of the snapshot: what the PVC held before is gone.
Restored ==
  /\ pc = "restore"
  /\ holds' = [holds EXCEPT ![cur] =
                 IF InTransit \in @ THEN @ \cup {new} ELSE @ \ {new}]
  /\ left' = left \ {cur}
  /\ cur' = Unset
  /\ Goto("copy")
  /\ UNCHANGED <<gitHome, settings, ov, desired, pod, dbspec, role, tokenOut, orphans, strays, spoilt>>
  /\ UNCHANGED <<src, fixForward>>

\* A Restore in hand is left half done, and still running where its wait
\* timed out or the tool died.
LeaveRestore ==
  /\ holds' = IF pc = "restore" THEN [holds EXCEPT ![cur] = @ \ {new}] ELSE holds
  /\ orphans' \in {orphans} \cup
       (IF pc = "restore" THEN {orphans \cup {<<new, cur>>}} ELSE {})
  /\ cur' = Unset

\* RuntimeError inside the try block: a wait timed out, a Snapshot or a
\* Restore failed.
CopyFails ==
  /\ pc \in {"prebindWait", "prebindOffWait", "snapshot", "restore"}
  /\ pc \in PrebindSteps => "prebind" \in Faults
  /\ LeaveRestore
  /\ Goto(IF fixForward THEN "idle" ELSE "rollback")
  /\ UNCHANGED <<gitHome, settings, ov, desired, pod, dbspec, role, tokenOut, strays, spoilt>>
  /\ UNCHANGED <<src, left, fixForward>>

Rollback ==
  /\ pc = "rollback"
  /\ SetOverrides(src, NoKeys)
  /\ Goto("rollbackKs")
  /\ KeepEnv /\ UNCHANGED <<src, left, cur, fixForward>>

RolledBack ==
  /\ pc = "rollbackWait"
  /\ DeploymentsReady(src)
  /\ Goto("idle")
  /\ KeepEnv /\ UNCHANGED <<ov, src, left, cur, fixForward>>

\* Mutant: the loop ends after any PVC.
CopiedEarly ==
  /\ pc = "copy"
  /\ Goto(IF Clusters = {} THEN "promote" ELSE "demote")
  /\ KeepEnv /\ UNCHANGED <<ov, src, left, cur, fixForward>>

Copied ==
  /\ pc = "copy"
  /\ left = {}
  /\ Goto(IF Clusters = {} THEN "promote" ELSE "demote")
  /\ KeepEnv /\ UNCHANGED <<ov, src, left, cur, fixForward>>

DemoteOld ==
  /\ pc = "demote"
  /\ SetOverrides(src, [ReplicasKey("0") EXCEPT !.primary = new])
  /\ Goto("demoteKs")
  /\ KeepEnv /\ UNCHANGED <<src, left, cur, fixForward>>

\* Every reconcile of the database Kustomizations.
DbReconciles ==
  [demoteKs  |-> [site |-> src, then |-> "token", left |-> Clusters],
   promoteKs |-> [site |-> new, then |-> "primaryWait", left |-> {}]]

DbReconcile ==
  /\ pc \in DOMAIN DbReconciles
  /\ ReconcileDb(DbReconciles[pc].site)
  /\ left' = DbReconciles[pc].left
  /\ Goto(DbReconciles[pc].then)
  /\ UNCHANGED <<gitHome, settings, ov, desired, pod, role, tokenOut, holds, orphans, strays, spoilt>>
  /\ UNCHANGED <<src, cur, fixForward>>

\* Mutant: the demotion is not waited for.
TokenUnread(c) ==
  /\ pc = "token"
  /\ c \in left
  /\ left' = left \ {c}
  /\ Goto(IF left' = {} THEN "promote" ELSE "token")
  /\ KeepEnv /\ UNCHANGED <<ov, src, cur, fixForward>>

TokenRead(c) ==
  /\ pc = "token"
  /\ c \in left
  /\ c \in tokenOut[src]
  /\ left' = left \ {c}
  /\ Goto(IF left' = {} THEN "promote" ELSE "token")
  /\ KeepEnv /\ UNCHANGED <<ov, src, cur, fixForward>>

\* Mutant: the promotion without its tokens.
PromoteNoToken ==
  /\ pc = "promote"
  /\ SetOverrides(new,
       IF Clusters = {} THEN ReplicasKey("1")
       ELSE [replicas |-> "1", primary |-> new, tokens |-> {}])
  /\ Goto(IF Clusters = {} THEN "startKs" ELSE "promoteKs")
  /\ KeepEnv /\ UNCHANGED <<src, left, cur, fixForward>>

PromoteNew ==
  /\ pc = "promote"
  /\ SetOverrides(new,
       IF Clusters = {} THEN ReplicasKey("1")
       ELSE [replicas |-> "1", primary |-> new, tokens |-> Clusters])
  /\ Goto(IF Clusters = {} THEN "startKs" ELSE "promoteKs")
  /\ KeepEnv /\ UNCHANGED <<src, left, cur, fixForward>>

PrimarySeen ==
  /\ pc = "primaryWait"
  /\ \A c \in Clusters : NotInRecoverySeen(new, c)
  /\ Goto("startKs")
  /\ KeepEnv /\ UNCHANGED <<ov, src, left, cur, fixForward>>

\* Ready, and the app answers its check.
Switched ==
  /\ pc = "readyWait"
  /\ DeploymentsReady(new)
  /\ Goto("idle")
  /\ KeepEnv /\ UNCHANGED <<ov, src, left, cur, fixForward>>

\* A wait outside the try block times out: main() prints the error and exits.
\* So does the one after a rollback.
TimesOut ==
  /\ pc \in {"stopWait", "token", "primaryWait", "readyWait", "rollbackWait"}
  /\ Goto("idle")
  /\ KeepEnv /\ UNCHANGED <<ov, src, left, cur, fixForward>>

\* Site.run's die() is SystemExit: no handler of the copy catches it.
KubectlFails ==
  /\ "kubectl" \in Faults
  /\ pc \in CopySteps
  /\ LeaveRestore
  /\ Goto("idle")
  /\ UNCHANGED <<gitHome, settings, ov, desired, pod, dbspec, role, tokenOut, strays, spoilt>>
  /\ UNCHANGED <<src, left, fixForward>>

Crash ==
  /\ "crash" \in Faults
  /\ pc # "idle"
  /\ LeaveRestore
  /\ Goto("idle")
  /\ UNCHANGED <<gitHome, settings, ov, desired, pod, dbspec, role, tokenOut, strays, spoilt>>
  /\ UNCHANGED <<src, left, fixForward>>

-----------------------------------------------------------------------------
(* Making a move permanent: the pull request, then cmd_clear                *)

RunsOnlyAt(s) ==
  /\ EffReplicas(s) = "1" /\ EffReplicas(Other(s)) = "0"
  /\ Clusters = {} \/ \A t \in Sites : EffPrimary(t) = s

\* The pull request to both cluster-settings says what the overrides say.
MakePermanent(s) ==
  /\ pc = "idle"
  /\ RunsOnlyAt(s)
  /\ gitHome' = s
  /\ UNCHANGED <<settings, ov, desired, pod, dbspec, role, tokenOut, holds, orphans, strays, spoilt>>
  /\ UNCHANGED toolVars

\* "run it only after git says the same thing"
Clear ==
  /\ pc = "idle"
  /\ RunsOnlyAt(gitHome)
  /\ "earlyClear" \in Faults \/ \A c \in Clusters : ~InRecovery(gitHome, c)
  /\ src' = Wsl1
  /\ Goto("clear")
  /\ KeepEnv /\ UNCHANGED <<ov, left, cur, fixForward>>

\* cmd_clear's loop over SITES
NextSite ==
  IF src = Wsl1 THEN Goto("clear") /\ src' = Wsl2 ELSE Goto("idle") /\ src' = src

\* An overrides() whose get fails reads as {}, and the site is passed over.
NothingToClear ==
  /\ pc = "clear"
  /\ ov[src] = NoKeys \/ "unread" \in Faults
  /\ NextSite
  /\ KeepEnv /\ UNCHANGED <<ov, left, cur, fixForward>>

ClearConfirmed ==
  /\ pc = "clear"
  /\ ov[src] # NoKeys
  /\ Goto("clearGit")
  /\ KeepEnv /\ UNCHANGED <<ov, src, left, cur, fixForward>>

\* Mutant: git's cluster-settings are not applied first.
ClearNoGit ==
  /\ pc = "clearGit"
  /\ Goto("clearKeys")
  /\ KeepEnv /\ UNCHANGED <<ov, src, left, cur, fixForward>>

\* git's cluster-settings first; check=False, so a failure carries on too.
ClearGit ==
  /\ pc = "clearGit"
  /\ \/ settings' = [settings EXCEPT ![src] = gitHome]
     \/ "settingsLag" \in Faults /\ UNCHANGED settings
  /\ Goto("clearKeys")
  /\ UNCHANGED <<gitHome, ov, desired, pod, dbspec, role, tokenOut, holds, orphans, strays, spoilt>>
  /\ UNCHANGED <<src, left, cur, fixForward>>

ClearKeys ==
  /\ pc = "clearKeys"
  /\ SetOverrides(src, NoKeys)
  /\ Goto("clearKs")
  /\ KeepEnv /\ UNCHANGED <<src, left, cur, fixForward>>

ClearReconcile ==
  /\ pc = "clearKs"
  /\ ReconcileDb(src)
  /\ ReconcileApp(src)
  /\ NextSite
  /\ UNCHANGED <<gitHome, settings, ov, pod, role, tokenOut, holds, orphans, strays, spoilt>>
  /\ UNCHANGED <<left, cur, fixForward>>

-----------------------------------------------------------------------------
\* The app runs at its home, as git says, with nothing overridden.
Init ==
  \E home \in Sites :
    /\ gitHome = home
    /\ settings = [s \in Sites |-> home]
    /\ ov = [s \in Sites |-> NoKeys]
    /\ desired = [s \in Sites |-> IF s = home THEN "1" ELSE "0"]
    /\ pod = [s \in Sites |-> IF s = home THEN "running" ELSE "none"]
    /\ dbspec = [s \in Sites |-> [c \in Clusters |-> [primary |-> home, token |-> FALSE]]]
    /\ role = [s \in Sites |-> [c \in Clusters |->
                 IF s = home THEN "primary" ELSE "replica"]]
    /\ tokenOut = [s \in Sites |-> {}]
    /\ holds = [d \in Data |-> {home}]
    /\ orphans = {}
    /\ strays = {} /\ spoilt = {}
    /\ pc = "idle"
    /\ src = home
    /\ left = {}
    /\ cur = Unset
    /\ fixForward = FALSE

EnvNext ==
  \E s \in Sites :
    \/ FluxSettings(s) \/ FluxApp(s) \/ PodStart(s) \/ PodStop(s) \/ PodGone(s)
    \/ MakePermanent(s)
    \/ \E c \in Clusters : FluxDb(s, c) \/ WriteDb(s, c) \/ Replay(s, c)
                           \/ Demote(s, c) \/ Promote(s, c)
    \/ \E p \in Pvcs : WritePvc(s, p) \/ OrphanEnds(s, p)

ToolNext ==
  \/ \E s \in Sites : Preflight(s)
  \/ Aborted \/ StopOld \/ AppReconcile \/ Stopped
  \/ PrebindOn \/ PrebindBound \/ PrebindOff \/ PrebindStopped
  \/ \E p \in Pvcs : CopyPvc(p)
  \/ Snapshotted \/ Restored \/ CopyFails \/ Rollback \/ RolledBack
  \/ Copied \/ DemoteOld \/ DbReconcile
  \/ \E c \in Clusters : TokenRead(c)
  \/ PromoteNew \/ PrimarySeen \/ Switched \/ TimesOut
  \/ KubectlFails \/ Crash
  \/ Clear \/ NothingToClear \/ ClearConfirmed \/ ClearGit \/ ClearKeys
  \/ ClearReconcile

Next == EnvNext \/ ToolNext

Spec == Init /\ [][Next]_vars

-----------------------------------------------------------------------------
(* Safety                                                                   *)

\* One site runs the app at a time: whatever Flux, the operator and a dying
\* tool do, its workloads never write at both sites (multi-site.md, "only one
\* site runs a given app").  Where a failed read ended the wait for a stop, both
\* run for as long as that one, told to stop, takes to end.
OneRunner ==
  live(Wsl1) /\ live(Wsl2) => \E s \in strays : desired[s] = "0"

\* "A planned switchover can't split": no Postgres cluster of the app is ever a
\* primary at both sites, through demotion, token, promotion and failback.
OnePrimary == \A c \in Clusters : InRecovery(Wsl1, c) \/ InRecovery(Wsl2, c)

\* RPO 0: some site holds every acknowledged write of every store, so neither
\* a restore over newer data nor a write on an old copy ever happens; a failed
\* read may cost a PVC its newest writes, and a database never.
NoLostWrite == \A d \in Data \ spoilt : holds[d] \cap Sites # {}

\* Workloads that can write run on PVCs with every acknowledged write, and a
\* Postgres primary has replayed all of them.  An app that outlives the copy,
\* taken for stopped on a failed read, is all that may spoil a PVC.
RunsOnCurrentData ==
  \A s \in Sites :
    /\ live(s) /\ ~Scratch(s) /\ s \notin strays =>
         \A p \in Pvcs \ spoilt : s \in holds[p]
    /\ \A c \in Clusters : ~InRecovery(s, c) => s \in holds[c]

\* `clear` never moves an app: each of its steps, git's cluster-settings applied
\* and the override dropped, leaves what each site's Flux is told as it was.
PlacementKept ==
  \A s \in Sites :
    /\ EffReplicas(s)' = EffReplicas(s)
    /\ Clusters # {} => EffPrimary(s)' = EffPrimary(s)
ClearKeepsPlacement == [][(pc \in ClearSteps) => PlacementKept]_vars

\* The site that may write a store: a PVC where the app's workloads are, other
\* than those taken for stopped, a database where its cluster is the primary.
Writes(s, d) ==
  IF d \in Clusters THEN ~InRecovery(s, d)
  ELSE live(s) /\ ~Scratch(s) /\ s \notin strays
WriterOf(d) ==
  IF \A s \in Sites : Writes(s, d) THEN Sites
  ELSE IF \E s \in Sites : Writes(s, d) THEN CHOOSE s \in Sites : Writes(s, d)
  ELSE Unset

Stores == INSTANCE SingleWriter
  WITH Stores <- Data, Nobody <- Unset,
       Fragile <- IF "unread" \in Faults THEN Pvcs ELSE {},
       writer <- [d \in Data |-> WriterOf(d)],
       current <- [d \in Data |-> holds[d] \cap Sites],
       intruded <- spoilt

\* The planned move implements a single-writer store for all of the app's PVCs
\* and Postgres clusters (two writers map to a value no writer has).  A database
\* is one whatever cannot be read; a PVC is one until an app that a failed read
\* took for stopped writes it.
ImplementsSingleWriter == Stores!Spec

-----------------------------------------------------------------------------
(* Liveness                                                                 *)

\* Flux reconciles on its interval, the kubelet and the Deployment controller
\* start and end pods, CloudNativePG acts on its spec and replays the archive.
\* Nothing is assumed of the tool or of the operator.
EnvFairness ==
  \A s \in Sites :
    /\ WF_vars(FluxSettings(s)) /\ WF_vars(FluxApp(s))
    /\ WF_vars(PodStart(s)) /\ WF_vars(PodStop(s)) /\ WF_vars(PodGone(s))
    /\ \A c \in Clusters : /\ WF_vars(FluxDb(s, c)) /\ WF_vars(Replay(s, c))
                            /\ WF_vars(Demote(s, c)) /\ WF_vars(Promote(s, c))

FairSpec == Spec /\ EnvFairness

InPlace(s) ==
  /\ pod[s] = "running" /\ pod[Other(s)] = "none"
  /\ \A c \in Clusters : ~InRecovery(s, c) /\ InRecovery(Other(s), c)

\* Once overrides and git together name one site, the app ends up running there
\* alone, on primary databases, even if the tool died right after writing them;
\* unless a later step of the tool names another placement first.
PlacementTakesEffect ==
  \A s \in Sites : RunsOnlyAt(s) ~> (InPlace(s) \/ ~RunsOnlyAt(s))

=============================================================================
