--------------------------- MODULE EvidenceRules ---------------------------
(***************************************************************************)
(* The recording rules of observability/rules.py as one site's Prometheus  *)
(* evaluates them, for one app: what a dashboard may call healthy (1),     *)
(* degraded (2), failed (3), a standby (4) or unknown (0), from samples    *)
(* that can be old, missing in part, or of a section that failed; with the *)
(* collector's section that decides the recovery prerequisites, and the    *)
(* proxy that shows a household its domains.                               *)
(*                                                                         *)
(* A behaviour is about one family of rules.  The site changes, a scrape   *)
(* copies what it finds, minutes pass without one while Prometheus is      *)
(* down; a rule can be evaluated at any time, so what it shows is an       *)
(* operator of the samples.  A backup's age is within the objective or     *)
(* past it; one without a time, or with a time to come, is "none".         *)
(***************************************************************************)
EXTENDS Naturals, FiniteSets, Functions

CONSTANTS
    Workloads, Paths,      \* the app's workloads; mqtt, archive, internet
    ServiceProbe,          \* its content probe
    Clusters,              \* the app's Postgres clusters at this site
    Pvcs, Databases,       \* what is backed up
    Sites, Preferred,      \* the two sites; the one a shared VIP prefers
    Nodes,                 \* the site's nodes
    MaxReplicas,
    FreshFor,              \* 180 s, in minutes: how old a fresh sample may be
    Lookback,              \* 5 minutes: how long Prometheus returns a sample
    MaxSiteChanges,        \* bound: changes of the site
    Missing, NoSample      \* a workload that doesn't exist; a series without a sample

ASSUME RulesAssumption ==
    /\ Cardinality(Sites) = 2 /\ Preferred \in Sites
    /\ FreshFor \in Nat \ {0} /\ Lookback \in Nat /\ FreshFor <= Lookback
    /\ MaxSiteChanges \in Nat 
    /\ NoSample \notin 0 .. 6 \cup {Missing} \cup [desired : 0 .. 1, ready : 0 .. MaxReplicas]

VARIABLES
    family,   \* the rules this behaviour is about
    site,     \* site[x]: what a scrape of series x finds now
    samples,  \* samples[x]: the sample Prometheus returns, or NoSample
    age,      \* age[j]: minutes since job j was scraped
    last,     \* last[f]: history, minutes since the fact f was so
    siteChanges

rulesVars == <<family, site, samples, age, last, siteChanges>>

Replicas == {"replicas"} \X Workloads
Probes == {"probe"} \X (Paths \cup {ServiceProbe})
Prerequisites == {"database", "backup", "restore", "fence"}
Met == {"met"} \X Prerequisites
Evidence == ({"cluster", "base"} \X Clusters) \cup ({"drill"} \X Pvcs) \cup {<<"fence", "peer">>}
Scheduled == {"scheduled"} \X Pvcs
InRecovery == {"inRecovery"} \X Databases
Backup == {"backup"} \X (Pvcs \cup Databases)
Session == {"session"} \X Sites
RouterUp == <<"router", "up">>
Stateful == <<"stateful", "set">>
Handshake == <<"handshake", "tunnel">>
NodeBgp == {"node"} \X Nodes
Mesh == {"mesh"} \X {"agent", "kvstoremesh"}
Domains == {"domain"} \X Sites

Families == {"workload", "recovery", "objective", "network", "hops", "engine", "household"}
Series == CASE family = "workload" -> Replicas \cup Probes
            [] family = "recovery" -> Met
            [] family = "objective" -> Scheduled \cup InRecovery \cup Backup
            [] family = "network" -> Session \cup {RouterUp}
            [] family = "hops" -> {Handshake} \cup NodeBgp \cup Mesh
            [] family = "engine" -> {Stateful}
            [] family = "household" -> Domains
\* What the series are made from: themselves, but for a recovery's.
Sources == IF family = "recovery" THEN Evidence ELSE Series
Jobs == {"collector", "exporters", "router"}
JobOf(x) == CASE x[1] \in {"replicas", "probe", "met", "scheduled"} -> "collector"
              [] x[1] \in {"backup", "inRecovery", "node", "mesh", "stateful", "domain"} ->
                   "exporters"
              [] x[1] \in {"session", "router", "handshake"} -> "router"

\* RouterOS lists a session while it lives.
Values(x) == CASE x[1] = "replicas" -> {Missing} \cup [desired : 0 .. 1, ready : 0 .. MaxReplicas]
               [] x[1] = "met" -> {1, 3}
               [] x[1] = "base" -> {"none", "within", "outside"}
               [] x[1] = "drill" -> {"none", "done", "failed"}
               [] x[1] = "fence" -> {"blocks", "attested", "unknown"}
               [] x[1] = "backup" -> {"none", "within", "past"}
               [] x[1] = "session" -> {TRUE, FALSE, NoSample}
               [] x[1] = "router" -> {TRUE}
               [] x[1] = "stateful" -> [desired : 0 .. 1, ready : 0 .. MaxReplicas] \cup {NoSample}
               [] x[1] = "domain" -> 0 .. 6
               [] OTHER -> BOOLEAN

\* What fails together: a section of the collector, or the scrape.
Sections(j) ==
    LET of == {x \in Series : JobOf(x) = j}
    IN CASE j = "router" -> {of}
         [] family = "workload" -> {Replicas \cap of, Probes \cap of}
         [] family \in {"objective", "recovery"} /\ j = "collector" -> {of}
         [] OTHER -> {{x} : x \in of}

\* What a reader takes from a 1 or a 4.
Facts == CASE family = "workload" -> {<<"running", "all">>, <<"standby", "all">>}
                                     \cup ({"answers"} \X (Paths \cup {ServiceProbe}))
           [] family = "recovery" -> Met
           [] family = "objective" -> {"backedUp"} \X (Pvcs \cup Databases)
           [] family = "network" -> Session
           [] family = "hops" -> Series
           [] family = "engine" -> {"serving", "parked"} \X {Stateful}
           [] family = "household" -> Domains

\* The samples cover exactly the series of the family at hand.
RulesTypeOK ==
    /\ family \in Families
    /\ DOMAIN site = Sources /\ \A x \in Sources : site[x] \in Values(x)
    /\ DOMAIN samples = Series /\ \A x \in Series : samples[x] \in Values(x) \cup {NoSample}
    /\ age \in [Jobs -> 0 .. Lookback] /\ last \in [Facts -> 0 .. Lookback]
    /\ siteChanges \in 0 .. MaxSiteChanges

Desired(s, W) == SumFunction([x \in W |-> s[x].desired])
Ready(s, W) == SumFunction([x \in W |-> s[x].ready])

-----------------------------------------------------------------------------
(* The collector's recovery section                                        *)

\* A cluster is healthy (or it isn't, or is missing), its newest base backup within
\* 30 h, each PVC's newest drill done within 8 days; a backup or a drill that was
\* never made is no evidence.
AllOf(kind, best) == \A x \in Evidence : x[1] = kind => site[x] = best
NoEvidence(kind) == \E x \in Evidence : x[1] = kind /\ site[x] = "none"
PrerequisiteState(prerequisite) ==
    CASE prerequisite = "database" -> IF AllOf("cluster", TRUE) THEN 1 ELSE 3
      [] prerequisite = "backup" /\ ~NoEvidence("base") -> IF AllOf("base", "within") THEN 1 ELSE 3
      [] prerequisite = "restore" /\ ~NoEvidence("drill") -> IF AllOf("drill", "done") THEN 1 ELSE 3
      [] prerequisite = "fence" /\ site[<<"fence", "peer">>] = "blocks" -> 3
      [] prerequisite = "fence" /\ site[<<"fence", "peer">>] = "attested" -> 1
      [] OTHER -> NoSample

Shown(x) == IF x[1] = "met" THEN PrerequisiteState(x[2]) ELSE site[x]

\* Whether a fact is so: what its kind says of the site.
Holds(s, f) ==
    /\ f[1] = "running" => /\ \A x \in Replicas : s[x] # Missing
                           /\ Desired(s, Replicas) > 0
                           /\ Ready(s, Replicas) >= Desired(s, Replicas)
    /\ f[1] = "standby" => /\ \A x \in Replicas : s[x] # Missing
                           /\ Desired(s, Replicas) = 0
    /\ f[1] = "answers" => s[<<"probe", f[2]>>] = TRUE
    /\ f = <<"met", "database">> => \A c \in Clusters : s[<<"cluster", c>>] = TRUE
    /\ f = <<"met", "backup">> => \A c \in Clusters : s[<<"base", c>>] = "within"
    /\ f = <<"met", "restore">> => \A v \in Pvcs : s[<<"drill", v>>] = "done"
    /\ f = <<"met", "fence">> => s[<<"fence", "peer">>] = "attested"
    /\ f[1] = "backedUp" => s[<<"backup", f[2]>>] = "within"
    /\ f[1] \in {"session", "handshake", "node", "mesh"} => s[f] = TRUE
    /\ f[1] = "serving" => /\ s[Stateful] # NoSample /\ s[Stateful].desired > 0
                           /\ s[Stateful].ready >= s[Stateful].desired
    /\ f[1] = "parked" => s[Stateful] # NoSample /\ s[Stateful].desired = 0
    /\ f[1] = "domain" => s[f] \in {1, 4, 5}

Join(f, g) == [x \in (DOMAIN f) \cup (DOMAIN g) |-> IF x \in DOMAIN f THEN f[x] ELSE g[x]]
Joins(F, G) == {Join(f, g) : f \in F, g \in G}
AnySite ==
    CASE family = "workload" -> Joins([Replicas -> Values(<<"replicas", 0>>)], [Probes -> BOOLEAN])
      [] family = "recovery" ->
           Joins(Joins([{"cluster"} \X Clusters -> BOOLEAN],
                       [{"base"} \X Clusters -> {"none", "within", "outside"}]),
                 Joins([{"drill"} \X Pvcs -> {"none", "done", "failed"}],
                       [{<<"fence", "peer">>} -> {"blocks", "attested", "unknown"}]))
      [] family = "objective" -> Joins([Scheduled \cup InRecovery -> BOOLEAN],
                                       [Backup -> Values(<<"backup", 0>>)])
      [] family = "network" -> Joins([Session -> {TRUE, FALSE, NoSample}], [{RouterUp} -> {TRUE}])
      [] family = "hops" -> [Series -> BOOLEAN]
      [] family = "engine" -> [Series -> Values(Stateful)]
      [] family = "household" -> [Series -> 0 .. 6]

RulesInit ==
    /\ family \in Families /\ siteChanges = 0
    /\ site \in AnySite
    /\ samples = [x \in Series |-> NoSample] /\ age = [j \in Jobs |-> 0]
    /\ last = [f \in Facts |-> IF Holds(site, f) THEN 0 ELSE Lookback]

SiteChanges ==
    /\ siteChanges < MaxSiteChanges /\ siteChanges' = siteChanges + 1
    /\ \E x \in Sources : \E v \in Values(x) \ {site[x]} : site' = [site EXCEPT ![x] = v]
    /\ last' = [f \in Facts |-> IF Holds(site, f) \/ Holds(site', f) THEN 0 ELSE last[f]]
    /\ UNCHANGED <<family, samples, age>>

\* A series that a scrape does not return ends there.
Scrape(j) ==
    /\ \E failed \in SUBSET Sections(j) :
         samples' = [x \in Series |-> IF JobOf(x) # j THEN samples[x]
                                   ELSE IF x \in UNION failed THEN NoSample ELSE Shown(x)]
    /\ age' = [age EXCEPT ![j] = 0]
    /\ UNCHANGED <<family, site, last, siteChanges>>

Later(n) == IF n = Lookback THEN Lookback ELSE n + 1
Minute ==
    /\ age' = [j \in Jobs |-> IF \E x \in Series : JobOf(x) = j THEN Later(age[j]) ELSE 0]
    /\ samples' = [x \in Series |-> IF age'[JobOf(x)] = Lookback THEN NoSample ELSE samples[x]]
    /\ last' = [f \in Facts |-> IF Holds(site, f) THEN 0 ELSE Later(last[f])]
    /\ UNCHANGED <<family, site, siteChanges>>

RulesNext == SiteChanges \/ Minute \/ \E j \in {JobOf(x) : x \in Series} : Scrape(j)
RulesSpec == RulesInit /\ [][RulesNext]_rulesVars

-----------------------------------------------------------------------------
(* The rules                                                               *)

\* Every rule but the missing workload's, the backups' and the router's asks for this.
Fresh(x) == samples[x] # NoSample /\ age[JobOf(x)] < FreshFor
FreshReplicas == {x \in Replicas : Fresh(x) /\ samples[x] # Missing}

\* Mutant: a workload that does not exist is one less to be ready.
WorkloadStateOfPresent ==
    LET W == FreshReplicas
    IN CASE W = {} -> 0
         [] W # {} /\ Desired(samples, W) = 0 -> 4
         [] W # {} /\ Desired(samples, W) > 0 /\ Ready(samples, W) >= Desired(samples, W) -> 1
         [] W # {} /\ 0 < Ready(samples, W) /\ Ready(samples, W) < Desired(samples, W) -> 2
         [] W # {} /\ 0 = Ready(samples, W) /\ 0 < Desired(samples, W) -> 3

\* homelab:workload_state
WorkloadState ==
    LET W == FreshReplicas
        known == W # {} /\ \A x \in Replicas : samples[x] # Missing
    IN CASE ~known -> 0
         [] known /\ Desired(samples, W) = 0 -> 4
         [] known /\ Desired(samples, W) > 0 /\ Ready(samples, W) >= Desired(samples, W) -> 1
         [] known /\ 0 < Ready(samples, W) /\ Ready(samples, W) < Desired(samples, W) -> 2
         [] OTHER -> 3

\* homelab:mqtt_state, archive_state, internet_state
PathState(p) == IF Fresh(<<"probe", p>>) THEN IF samples[<<"probe", p>>] THEN 1 ELSE 3 ELSE 0
\* homelab:service_state
ServiceState ==
    CASE Fresh(<<"probe", ServiceProbe>>) -> PathState(ServiceProbe)
      [] ~Fresh(<<"probe", ServiceProbe>>) /\ WorkloadState = 4 -> 4
      [] OTHER -> 0

\* homelab:recovery_state
RecoveryState ==
    LET fresh == {x \in Met : Fresh(x)}
    IN CASE \E x \in fresh : samples[x] = 3 -> 3
         [] Cardinality({x \in fresh : samples[x] = 1}) = 4 -> 1
         [] OTHER -> 0

\* The pieces whose backup counts: what a running schedule backs up, and primaries.
Pieces == {p \in Pvcs : Fresh(<<"scheduled", p>>) /\ samples[<<"scheduled", p>>]}
          \cup {d \in Databases : samples[<<"inRecovery", d>>] = FALSE}
BackupOf(p) == samples[<<"backup", p>>]
\* One without a backup, or one from the future.
Gap == \E p \in Pieces : BackupOf(p) \in {"none", NoSample}
\* homelab:app_rpo_state, 4 here where it has no row
RpoState == CASE Pieces = {} -> 4
              [] Gap -> 0
              [] Pieces # {} /\ ~Gap /\ \A p \in Pieces : BackupOf(p) = "within" -> 1
              [] OTHER -> 3

\* homelab:network_path_state of the hop router-bgp
PathOf(s) == CASE samples[<<"session", s>>] # NoSample -> IF samples[<<"session", s>>] THEN 1 ELSE 3
               [] samples[<<"session", s>>] = NoSample /\ samples[RouterUp] # NoSample -> 3
               [] OTHER -> 0
\* homelab:shared_vip_route: its preferred site, or the other while that is known down.
Routed(s) == PathOf(s) = 1 /\ (s = Preferred \/ PathOf(Preferred) = 3)

\* The other hops: healthy if every one that is known is up.
HopState(series) ==
    LET known == {x \in series : samples[x] # NoSample}
        Some(up) == \E x \in known : samples[x] = up
    IN CASE known = {} -> 0
         [] known # {} /\ \A x \in known : samples[x] = TRUE -> 1
         [] series = NodeBgp /\ Some(TRUE) /\ Some(FALSE) -> 2
         [] OTHER -> 3

\* homelab:other_database_state
EngineState ==
    LET sample == samples[Stateful]
    IN CASE sample = NoSample -> 0
         [] sample # NoSample /\ sample.desired = 0 -> 4
         [] sample # NoSample /\ sample.desired > 0 /\ sample.ready >= sample.desired -> 1
         [] OTHER -> 3

\* What the household sees of a domain (kiosk_proxy.py): the worst of its observers.
Household ==
    LET states == {samples[x] : x \in Domains} \ {NoSample}
        order == <<3, 2, 0, 6, 1, 4, 5>>
    IN IF states = {} THEN NoSample
       ELSE order[CHOOSE i \in DOMAIN order :
                    /\ order[i] \in states
                    /\ \A j \in 1 .. i - 1 : order[j] \notin states]

-----------------------------------------------------------------------------
\* What the rules now claim of the site.
Claims ==
    CASE family = "workload" ->
           {<<"running", "all">> : x \in {WorkloadState} \cap {1}}
           \cup {<<"standby", "all">> : x \in {WorkloadState, ServiceState} \cap {4}}
           \cup {<<"answers", p>> : p \in {q \in Paths : PathState(q) = 1}}
           \cup {<<"answers", ServiceProbe>> : x \in {ServiceState} \cap {1}}
      [] family = "recovery" -> IF RecoveryState = 1 THEN Met ELSE {}
      [] family = "objective" -> IF RpoState = 1 THEN {"backedUp"} \X Pieces ELSE {}
      [] family = "network" -> {<<"session", s>> : s \in {t \in Sites : Routed(t)}}
      [] family = "hops" ->
           UNION {{x \in hop : samples[x] # NoSample} :
                     hop \in {h \in {{Handshake}, NodeBgp, Mesh} : HopState(h) = 1}}
      [] family = "engine" -> {<<"serving", Stateful>> : x \in {EngineState} \cap {1}}
                              \cup {<<"parked", Stateful>> : x \in {EngineState} \cap {4}}
      [] family = "household" ->
           {x \in Domains : samples[x] # NoSample /\ Household \in {1, 4, 5}}

(* Nothing is shown healthy, ready to take over, backed up, routed or on standby that
   was not so within the last 180 s (5 minutes where a rule asks for no more than a
   sample), whatever sections failed and however long nothing was scraped: of an app
   every workload counts, of a recovery every cluster and PVC, of a backup, a hop or a
   household domain every part that is known ("a fresh backup of one piece can't stand
   in for another", rules.py:99; "never let a later healthy sample mask failure or
   unknown evidence from another observer", kiosk_proxy.py:35). *)
ShownWasSo ==
    \A f \in Claims : last[f] < IF family \in {"workload", "recovery"} THEN FreshFor ELSE Lookback
=============================================================================
