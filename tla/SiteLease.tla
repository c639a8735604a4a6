----------------------------- MODULE SiteLease -----------------------------
(***************************************************************************)
(* One warm app's site lease and the unplanned failover it guards: the     *)
(* router's TXT record, the app gate (an initContainer at each site), the  *)
(* database fence (fence.py, a CronJob at each site) and `site-failover    *)
(* --promote`.  A site loses its power and comes back with the state its   *)
(* etcd had.  Both sites play both parts, one failover after the other, so *)
(* nothing is counted and the state space is finite.                       *)
(***************************************************************************)

CONSTANTS
  Wsl1, Wsl2,
  Clusters,    \* the app's Postgres clusters
  Faults,      \* which of LeaseFaults may happen
  None         \* the lease of an app no site is fenced from

Sites == {Wsl1, Wsl2}
Other(s) == IF s = Wsl1 THEN Wsl2 ELSE Wsl1

(***************************************************************************)
(* alive     the operator takes a site for dead that runs, or comes back   *)
(*           before its lease is set                                       *)
(* apiError  a request of fence.py fails                                   *)
(***************************************************************************)
LeaseFaults == {"alive", "apiError"}

ASSUME LeaseAssumption ==
  /\ Wsl1 # Wsl2
  /\ Clusters # {}
  /\ None \notin Sites
  /\ Faults \subseteq LeaseFaults

VARIABLES
  lease,      \* the TXT record: the site fenced from writing, or None
  up,         \* the sites that have power
  home,       \* home[s]: the site s's Flux is told to run the app and its primaries
  want,       \* want[s]: spec.replicas > 0 as applied at s
  claims,     \* claims[s][c]: spec.replica.primary as applied at s
  fenced,     \* fenced[s]: clusters with cnpg.io/fencedInstances
  pod,        \* pod[s]: none, waiting at the gate, running
  pg,         \* pg[s][c]: off, primary, replica
  job,        \* job[s]: the fence Job of the minute
  attested,   \* the sites whose entry in site-lease-fence-status says that the lease
              \* names them and that nothing there can write, while it counts: a
              \* lease changes by a pull request, and the entries from before it are
              \* older by then than the 300 s the collector takes
  pc,         \* where site-failover --promote is
  target      \* the site it promotes

siteVars == <<up, home, want, claims, fenced, pod, pg>>
jobVars == <<job, attested>>
toolVars == <<pc, target>>
vars == <<lease, up, home, want, claims, fenced, pod, pg, job, attested, pc, target>>

\* The clusters a Job still has to look at.
NoJob == [step |-> "idle", todo |-> {}]

TypeOK ==
  /\ lease \in Sites \cup {None}
  /\ up \subseteq Sites
  /\ home \in [Sites -> Sites]
  /\ want \in [Sites -> BOOLEAN]
  /\ claims \in [Sites -> [Clusters -> Sites]]
  /\ fenced \in [Sites -> SUBSET Clusters]
  /\ pod \in [Sites -> {"none", "gate", "running"}]
  /\ pg \in [Sites -> [Clusters -> {"off", "primary", "replica"}]]
  /\ \A s \in Sites :
       /\ job[s] \in [step : {"idle", "fence"}, todo : SUBSET Clusters]
       /\ job[s].step = "idle" => job[s] = NoJob
       /\ s \notin up => job[s] = NoJob /\ pod[s] = "none"
  /\ attested \subseteq Sites
  /\ pc \in {"idle", "confirm", "db", "app"}
  /\ target \in Sites

-----------------------------------------------------------------------------
(* The sites: power, Flux, the app's pods, CloudNativePG                    *)

\* Running state is lost; what etcd holds stays.
Die(s) ==
  /\ s \in up
  /\ up' = up \ {s}
  /\ pod' = [pod EXCEPT ![s] = "none"]
  /\ pg' = [pg EXCEPT ![s] = [c \in Clusters |-> "off"]]
  /\ job' = [job EXCEPT ![s] = NoJob]
  /\ UNCHANGED <<lease, home, want, claims, fenced, attested>> /\ UNCHANGED toolVars

Return(s) ==
  /\ s \notin up
  /\ up' = up \cup {s}
  /\ UNCHANGED <<lease, home, want, claims, fenced, pod, pg>>
  /\ UNCHANGED jobVars /\ UNCHANGED toolVars

\* That it waits for the database's to be Ready (dependsOn) delays this step only:
\* where a fenced database isn't, no property asks for it.
FluxApp(s) ==
  /\ s \in up
  /\ want' = [want EXCEPT ![s] = (home[s] = s)]
  /\ UNCHANGED <<lease, up, home, claims, fenced, pod, pg>>
  /\ UNCHANGED jobVars /\ UNCHANGED toolVars

FluxDb(s) ==
  /\ s \in up
  /\ claims' = [claims EXCEPT ![s] = [c \in Clusters |-> home[s]]]
  /\ UNCHANGED <<lease, up, home, want, fenced, pod, pg>>
  /\ UNCHANGED jobVars /\ UNCHANGED toolVars

\* A TXT answer that names s.  Where the record can't be read, the Job, the gate and
\* the tool change nothing: the step is not taken.
LeaseNames(s) == lease = s

SetPod(s, from, to) ==
  /\ s \in up
  /\ pod[s] = from
  /\ pod' = [pod EXCEPT ![s] = to]
  /\ UNCHANGED <<lease, up, home, want, claims, fenced, pg>>
  /\ UNCHANGED jobVars /\ UNCHANGED toolVars

PodCreate(s) == want[s] /\ SetPod(s, "none", "gate")
PodDelete(s) == ~want[s] /\ (SetPod(s, "gate", "none") \/ SetPod(s, "running", "none"))

\* Mutant: the gate lets an unreadable or a changed lease pass.
GateOpen(s) == SetPod(s, "gate", "running")

\* The initContainer: it waits while the lease is its own site or unreadable (then
\* this step isn't taken), and nothing looks again once the app runs.
GatePass(s) == ~LeaseNames(s) /\ SetPod(s, "gate", "running")

SetPg(s, c, from, to) ==
  /\ s \in up
  /\ pg[s][c] = from
  /\ pg' = [pg EXCEPT ![s][c] = to]
  /\ UNCHANGED <<lease, up, home, want, claims, fenced, pod>>
  /\ UNCHANGED jobVars /\ UNCHANGED toolVars

\* An instance starts as what its data directory says, and follows the spec.
PgStart(s, c) ==
  c \notin fenced[s] /\ SetPg(s, c, "off", IF claims[s][c] = s THEN "primary" ELSE "replica")
PgPromote(s, c) == claims[s][c] = s /\ SetPg(s, c, "replica", "primary")
PgFenced(s, c) == c \in fenced[s] /\ \E r \in {"primary", "replica"} : SetPg(s, c, r, "off")

-----------------------------------------------------------------------------
(* fence.py, every minute (concurrencyPolicy: Forbid)                       *)

JobGoes(s, j) == job' = [job EXCEPT ![s] = j]

\* The lease is read.  It names another site or none: attested as clear.
JobClear(s) ==
  /\ s \in up
  /\ job[s].step = "idle"
  /\ ~LeaseNames(s)
  /\ attested' = attested \ {s}
  /\ UNCHANGED job /\ UNCHANGED lease /\ UNCHANGED siteVars /\ UNCHANGED toolVars

\* It names this site: each of the app's clusters is looked at.
JobFence(s) ==
  /\ s \in up
  /\ job[s].step = "idle"
  /\ LeaseNames(s)
  /\ JobGoes(s, [step |-> "fence", todo |-> Clusters])
  /\ UNCHANGED attested /\ UNCHANGED lease /\ UNCHANGED siteVars /\ UNCHANGED toolVars

\* Mutant: only the first of the app's clusters is fenced.
FenceFirst(s, c) ==
  /\ c \in job[s].todo
  /\ JobGoes(s, [job[s] EXCEPT !.todo = @ \ {c}])
  /\ fenced' = IF claims[s][c] = s /\ fenced[s] = {} THEN [fenced EXCEPT ![s] = {c}] ELSE fenced
  /\ UNCHANGED attested /\ UNCHANGED <<lease, up, home, want, claims, pod, pg>>
  /\ UNCHANGED toolVars

\* Mutant: replica.primary is compared with the site the wrong way round.
FenceReplica(s, c) ==
  /\ c \in job[s].todo
  /\ JobGoes(s, [job[s] EXCEPT !.todo = @ \ {c}])
  /\ fenced' = IF claims[s][c] # s THEN [fenced EXCEPT ![s] = @ \cup {c}] ELSE fenced
  /\ UNCHANGED attested /\ UNCHANGED <<lease, up, home, want, claims, pod, pg>>
  /\ UNCHANGED toolVars

\* A cluster that follows the other site is left alone, one that claims primary is
\* fenced unless it already is.
Fence(s, c) ==
  /\ c \in job[s].todo
  /\ JobGoes(s, [job[s] EXCEPT !.todo = @ \ {c}])
  /\ fenced' = IF claims[s][c] = s THEN [fenced EXCEPT ![s] = @ \cup {c}] ELSE fenced
  /\ UNCHANGED attested /\ UNCHANGED <<lease, up, home, want, claims, pod, pg>>
  /\ UNCHANGED toolVars

JobAttest(s) ==
  /\ job[s].step = "fence"
  /\ job[s].todo = {}
  /\ attested' = attested \cup {s}
  /\ JobGoes(s, NoJob)
  /\ UNCHANGED lease /\ UNCHANGED siteVars /\ UNCHANGED toolVars

\* A failed GET or PATCH: the clusters before it stay fenced, and the app isn't
\* attested; neither is it when the ConfigMap's PATCH fails.
JobFails(s) ==
  /\ "apiError" \in Faults
  /\ job[s].step # "idle"
  /\ JobGoes(s, NoJob)
  /\ UNCHANGED attested /\ UNCHANGED lease /\ UNCHANGED siteVars /\ UNCHANGED toolVars

-----------------------------------------------------------------------------
(* site-failover --promote; it never contacts the old site                  *)

ToolGoes(from, to) == pc = from /\ target \in up /\ pc' = to
SitesKeep == UNCHANGED siteVars /\ UNCHANGED jobVars /\ UNCHANGED lease

Replicas(t) == t \in up /\ \A c \in Clusters : pg[t][c] = "replica"
Primaries(t) == t \in up /\ \A c \in Clusters : pg[t][c] = "primary"

\* check_lease: the lease fences the old site.
CheckLease(t) == LeaseNames(Other(t))

\* Then each cluster is looked at, the operator is asked, and the PVCs are restored
\* from the old site's snapshots.
PromoteChecks(t) ==
  /\ pc = "idle"
  /\ CheckLease(t)
  /\ Replicas(t)
  /\ pc' = "confirm" /\ target' = t
  /\ SitesKeep

\* Mutant: the promotion's override has no <P>_REPLICAS and no <P>_PG_PRIMARY.
PromoteNoKeys ==
  /\ ToolGoes("confirm", "db")
  /\ SitesKeep /\ UNCHANGED target

PromoteKeys ==
  /\ ToolGoes("confirm", "db")
  /\ home' = [home EXCEPT ![target] = target]
  /\ UNCHANGED <<lease, up, want, claims, fenced, pod, pg>>
  /\ UNCHANGED jobVars /\ UNCHANGED target

\* The Clusters' Kustomization is applied, and waited for.
PromoteDb ==
  /\ ToolGoes("db", "app")
  /\ claims' = [claims EXCEPT ![target] = [c \in Clusters |-> home[target]]]
  /\ UNCHANGED <<lease, up, home, want, fenced, pod, pg>>
  /\ UNCHANGED jobVars /\ UNCHANGED target

\* Then the app's; that it gets ready is waited for and changes nothing.
PromoteApp ==
  /\ ToolGoes("app", "idle")
  /\ Primaries(target)
  /\ want' = [want EXCEPT ![target] = (home[target] = target)]
  /\ UNCHANGED <<lease, up, home, claims, fenced, pod, pg>>
  /\ UNCHANGED jobVars /\ UNCHANGED target

\* The operator aborts, a wait times out, kubectl fails, the tool dies.
PromoteEnds == pc # "idle" /\ pc' = "idle" /\ SitesKeep /\ UNCHANGED target

-----------------------------------------------------------------------------
(* The operator: the lease's pull requests, the rebuild                     *)

\* It takes minutes until the router says so, and a Job has 50 s (its
\* activeDeadlineSeconds): none that read the old lease is still at it.
SetLease(l) ==
  /\ pc = "idle"
  /\ \A s \in Sites : job[s] = NoJob
  /\ lease' = l
  /\ attested' = {}

\* The app's site is dead: fence it.
FenceSite(s) ==
  /\ lease = None
  /\ home[s] = s
  /\ s \in up => "alive" \in Faults
  /\ SetLease(s)
  /\ UNCHANGED job /\ UNCHANGED siteVars /\ UNCHANGED toolVars

\* It came back before the other site was promoted: nothing moves.
CallOff ==
  /\ lease \in up
  /\ home[Other(lease)] = lease
  /\ SetLease(None)
  /\ fenced' = [fenced EXCEPT ![lease] = {}]
  /\ UNCHANGED job /\ UNCHANGED <<up, home, want, claims, pod, pg>> /\ UNCHANGED toolVars

\* "Rebuild it as a replica" of the promoted site: the Clusters are deleted with
\* their PVCs (and their annotations), and the app's home is the other site.
Rebuild ==
  /\ lease \in up
  /\ Primaries(Other(lease))
  /\ home' = [home EXCEPT ![lease] = Other(lease)]
  /\ claims' = [claims EXCEPT ![lease] = [c \in Clusters |-> Other(lease)]]
  /\ fenced' = [fenced EXCEPT ![lease] = {}]
  /\ pg' = [pg EXCEPT ![lease] = [c \in Clusters |-> "replica"]]
  /\ UNCHANGED <<lease, up, want, pod>> /\ UNCHANGED jobVars /\ UNCHANGED toolVars

\* Only after the rebuild: the lease goes back to "none".
Unfence ==
  /\ lease \in up
  /\ home[lease] = Other(lease) /\ Replicas(lease)
  /\ ~want[lease] /\ pod[lease] = "none"
  /\ SetLease(None)
  /\ UNCHANGED job /\ UNCHANGED siteVars /\ UNCHANGED toolVars

-----------------------------------------------------------------------------
Init ==
  \E h \in Sites :
    /\ lease = None
    /\ up = Sites
    /\ home = [s \in Sites |-> h]
    /\ want = [s \in Sites |-> s = h]
    /\ claims = [s \in Sites |-> [c \in Clusters |-> h]]
    /\ fenced = [s \in Sites |-> {}]
    /\ pod = [s \in Sites |-> IF s = h THEN "running" ELSE "none"]
    /\ pg = [s \in Sites |-> [c \in Clusters |-> IF s = h THEN "primary" ELSE "replica"]]
    /\ job = [s \in Sites |-> NoJob]
    /\ attested = {}
    /\ pc = "idle"
    /\ target = h

SiteNext(s) ==
  \/ Die(s) \/ Return(s) \/ FluxApp(s) \/ FluxDb(s)
  \/ PodCreate(s) \/ PodDelete(s) \/ GatePass(s)
  \/ \E c \in Clusters : PgStart(s, c) \/ PgPromote(s, c) \/ PgFenced(s, c) \/ Fence(s, c)
  \/ JobClear(s) \/ JobFence(s) \/ JobAttest(s) \/ JobFails(s)
  \/ PromoteChecks(s) \/ FenceSite(s)

ToolNext == PromoteKeys \/ PromoteDb \/ PromoteApp \/ PromoteEnds

Next == (\E s \in Sites : SiteNext(s)) \/ ToolNext \/ CallOff \/ Rebuild \/ Unfence

Spec == Init /\ [][Next]_vars

\* Flux, the kubelet, CloudNativePG and the CronJob's schedule go on at a site that
\* has power; a request of fence.py doesn't fail for ever.  Nothing is assumed of
\* the power, the tool or the operator.
SiteFairness(s) ==
  /\ WF_vars(FluxApp(s)) /\ WF_vars(FluxDb(s))
  /\ WF_vars(PodCreate(s)) /\ WF_vars(PodDelete(s)) /\ WF_vars(GatePass(s))
  /\ WF_vars(JobFence(s)) /\ SF_vars(JobAttest(s))
  /\ \A c \in Clusters : /\ WF_vars(PgStart(s, c)) /\ WF_vars(PgPromote(s, c))
                         /\ WF_vars(PgFenced(s, c)) /\ SF_vars(Fence(s, c))

FairSpec == Spec /\ \A s \in Sites : SiteFairness(s)

-----------------------------------------------------------------------------
(* Properties                                                               *)

\* An app that runs with a database it can write.
AppWrites(s) == pod[s] = "running" /\ \E c \in Clusters : pg[s][c] = "primary"

\* "Fencing: one writer per app": the app never writes at both sites, through an
\* unplanned promotion, the dead site's return at any moment of it, its rebuild
\* and the next failover the other way.
OneWriter == ~(AppWrites(Wsl1) /\ AppWrites(Wsl2))

\* What fence.py attests under a lease that names its site is so: each of the app's
\* clusters there follows the other site or is fenced, all of them and not only
\* the one seen last, for as long as the attestation counts.
AttestedCannotWrite ==
  \A s \in Sites :
    lease = s /\ s \in attested => \A c \in Clusters : claims[s][c] # s \/ c \in fenced[s]

\* The fence takes hold: while the lease names a site that has power, every cluster
\* there ends up unable to write, whatever fence.py's failures and the returns.
FenceTakesHold ==
  \A s \in Sites : \A c \in Clusters :
    (lease = s /\ s \in up) ~> (pg[s][c] # "primary" \/ lease # s \/ s \notin up)

\* A promotion takes effect once its keys are written, even if the tool dies right
\* after: the app ends up running on primaries there, unless that site loses power
\* too or the lease is changed.
PromotionTakesEffect ==
  \A s \in Sites :
    (pc = "db" /\ target = s) ~>
      ((pod[s] = "running" /\ Primaries(s)) \/ s \notin up \/ lease # Other(s))

=============================================================================
