----------------------------- MODULE RulesProofs -----------------------------
(***************************************************************************)
(* Theorems about what the household facade shows (EvidenceRules), for any *)
(* sources, locations, prerequisites and limits: what a rule claims was so *)
(* at some moment no longer ago than its samples may be old.               *)
(***************************************************************************)
EXTENDS EvidenceRules, FiniteSetTheorems, TLAPS

Standings == {<<"running", "all">>, <<"standby", "all">>}

\* The series a fact is read from, all of one job.
Basis(f) ==
  CASE f[1] \in {"running", "standby"} -> Replicas
    [] f[1] = "answers" -> {<<"probe", f[2]>>}
    [] f[1] = "backedUp" -> {<<"backup", f[2]>>}
    [] f[1] \in {"serving", "parked"} -> {Stateful}
    [] OTHER -> {f}

\* The samples say that a fact is so.
Says(s, f) ==
  /\ \A x \in Basis(f) : s[x] # NoSample
  /\ IF family = "recovery" THEN s[f] = 1 ELSE Holds(s, f)

\* The replicas are one section: all of them fresh, or none.
OneSection ==
  \A x, y \in Replicas : family = "workload" /\ samples[x] # NoSample => samples[y] # NoSample

\* What holds was so just now; what the samples say was so when they were taken; and
\* no sample outlives the lookback.
RulesInv ==
  /\ RulesTypeOK /\ OneSection
  /\ \A f \in Facts : Holds(site, f) => last[f] = 0
  /\ \A f \in Facts : Says(samples, f) => \A x \in Basis(f) : last[f] <= age[JobOf(x)]
  /\ \A x \in Series : samples[x] # NoSample => age[JobOf(x)] < Lookback

LEMMA FactsByFamily ==
  /\ family = "workload" => Facts = Standings \cup ({"answers"} \X (Paths \cup {ServiceProbe}))
  /\ family = "recovery" => Facts = Met
  /\ family = "objective" => Facts = {"backedUp"} \X (Pvcs \cup Databases)
  /\ family = "network" => Facts = Session
  /\ family = "hops" => Facts = Series
  /\ family = "engine" => Facts = {"serving", "parked"} \X {Stateful}
  /\ family = "household" => Facts = Domains
BY DEF Facts, Standings

LEMMA SeriesByFamily ==
  /\ family = "workload" => Series = Replicas \cup Probes
  /\ family = "recovery" => Series = Met
  /\ family = "objective" => Series = (Scheduled \cup InRecovery) \cup Backup
  /\ family = "network" => Series = Session \cup {RouterUp}
  /\ family = "hops" => Series = ({Handshake} \cup NodeBgp) \cup Mesh
  /\ family = "engine" => Series = {Stateful}
  /\ family = "household" => Series = Domains
BY DEF Series

\* The job of a series is that of its kind.
LEMMA JobByKind ==
  ASSUME NEW x
  PROVE  /\ x \in Replicas \cup Probes \cup Met \cup Scheduled => JobOf(x) = "collector"
         /\ x \in Backup \cup InRecovery \cup NodeBgp \cup Mesh \cup Domains \cup {Stateful} =>
              JobOf(x) = "exporters"
         /\ x \in Session \cup {RouterUp, Handshake} => JobOf(x) = "router"
<1>1. ASSUME x \in ((Replicas \cup Probes) \cup Met) \cup Scheduled PROVE JobOf(x) = "collector"
  <2>1. x[1] \in {"replicas", "probe", "met", "scheduled"}
    BY <1>1 DEF Replicas, Probes, Met, Scheduled
  <2> QED BY <2>1 DEF JobOf
<1>2. ASSUME x \in ((((Backup \cup InRecovery) \cup NodeBgp) \cup Mesh) \cup Domains) \cup {Stateful}
      PROVE JobOf(x) = "exporters"
  <2>1. x[1] \in {"backup", "inRecovery", "node", "mesh", "stateful", "domain"}
    BY <1>2 DEF Backup, InRecovery, NodeBgp, Mesh, Domains, Stateful
  <2> QED BY <2>1 DEF JobOf
<1>3. ASSUME x \in Session \cup {RouterUp, Handshake} PROVE JobOf(x) = "router"
  <2>1. x[1] \in {"session", "router", "handshake"}
    BY <1>3 DEF Session, RouterUp, Handshake
  <2> QED BY <2>1 DEF JobOf
<1> QED BY <1>1, <1>2, <1>3

LEMMA BasisByFamily ==
  ASSUME NEW f \in Facts
  PROVE  /\ family = "workload" => \/ f \in Standings /\ Basis(f) = Replicas
                                   \/ f[1] = "answers" /\ Basis(f) = {<<"probe", f[2]>>}
                                      /\ <<"probe", f[2]>> \in Probes
         /\ family = "objective" => f[1] = "backedUp" /\ Basis(f) = {<<"backup", f[2]>>}
                                    /\ <<"backup", f[2]>> \in Backup
         /\ family = "engine" => Basis(f) = {Stateful}
         /\ family \in {"recovery", "network", "hops", "household"} => Basis(f) = {f}
<1> USE FactsByFamily
<1>1. CASE family = "workload"
  <2>1. CASE f \in Standings
    BY <1>1, <2>1 DEF Basis, Standings
  <2>2. CASE f \in {"answers"} \X (Paths \cup {ServiceProbe})
    BY <1>1, <2>2 DEF Basis, Probes
  <2> QED BY <1>1, <2>1, <2>2
<1>2. CASE family = "objective"
  BY <1>2 DEF Basis, Backup
<1>3. CASE family = "engine"
  BY <1>3 DEF Basis
<1>4. CASE family \in {"recovery", "network", "hops", "household"}
  <2>1. f[1] \in {"met", "session", "handshake", "node", "mesh", "domain"}
    BY <1>4, SeriesByFamily
    DEF Met, Session, Handshake, NodeBgp, Mesh, Domains
  <2> QED BY <1>4, <2>1 DEF Basis
<1> QED BY <1>1, <1>2, <1>3, <1>4

\* A fact is read from series of the family, all of one job.
LEMMA BasisOfOneJob ==
  ASSUME family \in Families, NEW f \in Facts
  PROVE  /\ Basis(f) \subseteq Series
         /\ \A x, y \in Basis(f) : JobOf(x) = JobOf(y) /\ JobOf(x) \in Jobs
<1> USE FactsByFamily, SeriesByFamily, BasisByFamily, JobByKind DEF Jobs
<1>1. CASE family = "workload"
  <2>1. Series = Replicas \cup Probes BY <1>1
  <2>2. ASSUME NEW x \in Replicas \cup Probes PROVE JobOf(x) = "collector"
    <3> HIDE FactsByFamily, SeriesByFamily, BasisByFamily
    <3>1. x \in Replicas \cup Probes \cup Met \cup Scheduled OBVIOUS
    <3> QED BY <3>1
  <2>3. \/ Basis(f) = Replicas
        \/ Basis(f) = {<<"probe", f[2]>>} /\ <<"probe", f[2]>> \in Probes
    <3> HIDE FactsByFamily, SeriesByFamily, JobByKind
    <3> QED BY <1>1
  <2> QED BY <2>1, <2>2, <2>3
<1>2. CASE family = "objective"
  <2>1. Basis(f) = {<<"backup", f[2]>>} /\ <<"backup", f[2]>> \in Backup
    BY <1>2
  <2>2. JobOf(<<"backup", f[2]>>) = "exporters"
    BY <2>1
  <2> QED BY <1>2, <2>1, <2>2
<1>3. CASE family = "engine"
  BY <1>3
<1>4. CASE family = "recovery"
  BY <1>4
<1>7. CASE family = "network"
  BY <1>7
<1>5. CASE family = "hops"
  BY <1>5
<1>6. CASE family = "household"
  BY <1>6
<1> QED BY <1>1, <1>2, <1>3, <1>4, <1>5, <1>6, <1>7 DEF Families

\* The totals are those of the samples they are taken of.
LEMMA SameTotals ==
  ASSUME NEW s, NEW t, NEW W, \A x \in W : s[x] = t[x]
  PROVE  Desired(s, W) = Desired(t, W) /\ Ready(s, W) = Ready(t, W)
<1>1. [x \in W |-> s[x].desired] = [x \in W |-> t[x].desired]
  OBVIOUS
<1>2. [x \in W |-> s[x].ready] = [x \in W |-> t[x].ready]
  OBVIOUS
<1> QED BY <1>1, <1>2 DEF Desired, Ready

\* Whether a fact is so depends on what it is read from.
LEMMA HoldsOfBasis ==
  ASSUME family \in Families, family # "recovery", NEW f \in Facts,
         NEW s, NEW t, \A x \in Basis(f) : s[x] = t[x], Holds(s, f)
  PROVE  Holds(t, f)
<1> USE FactsByFamily, BasisByFamily
<1>1. CASE family = "workload"
  <2>1. CASE f \in Standings /\ Basis(f) = Replicas
    <3>1. Desired(s, Replicas) = Desired(t, Replicas) /\ Ready(s, Replicas) = Ready(t, Replicas)
      BY <2>1, SameTotals
    <3>2. CASE f[1] = "running" BY <2>1, <3>1, <3>2 DEF Holds
    <3>3. CASE f[1] = "standby" BY <2>1, <3>1, <3>3 DEF Holds
    <3> QED BY <2>1, <3>2, <3>3 DEF Standings
  <2>2. CASE f[1] = "answers" /\ Basis(f) = {<<"probe", f[2]>>}
    BY <2>2 DEF Holds
  <2> QED BY <1>1, <2>1, <2>2
<1>2. CASE family = "objective"
  BY <1>2 DEF Holds
<1>3. CASE family = "engine"
  <2>1. CASE f[1] = "serving" BY <1>3, <2>1 DEF Holds
  <2>2. CASE f[1] = "parked" BY <1>3, <2>2 DEF Holds
  <2> QED BY <1>3, <2>1, <2>2
<1>4. CASE family = "network"
  <2>1. f[1] = "session" BY <1>4 DEF Session
  <2> QED BY <1>4, <2>1 DEF Holds
<1>5. CASE family = "hops"
  <2>1. f[1] \in {"handshake", "node", "mesh"}
    BY <1>5, SeriesByFamily DEF Handshake, NodeBgp, Mesh
  <2> QED BY <1>5, <2>1 DEF Holds
<1>6. CASE family = "household"
  <2>1. f[1] = "domain" BY <1>6 DEF Domains
  <2> QED BY <1>6, <2>1 DEF Holds
<1> QED BY <1>1, <1>2, <1>3, <1>4, <1>5, <1>6 DEF Families

-----------------------------------------------------------------------------
(* The invariant                                                               *)

LEMMA AgesTyped ==
  ASSUME RulesTypeOK
  PROVE  /\ \A j \in Jobs : age[j] \in 0 .. Lookback
         /\ \A f \in Facts : last[f] \in 0 .. Lookback
BY DEF RulesTypeOK

\* A standing of the site at a scrape, said later by nobody else, keeps its age.
LEMMA SaysOfBasis ==
  ASSUME family \in Families, NEW f \in Facts, NEW s, NEW t,
         \A x \in Basis(f) : s[x] = t[x], Says(s, f)
  PROVE  Says(t, f)
<1>1. CASE family = "recovery"
  BY <1>1, BasisByFamily DEF Says
<1>2. CASE family # "recovery"
  BY <1>2, HoldsOfBasis DEF Says
<1> QED BY <1>1, <1>2

\* What the collector makes of a prerequisite is so.
LEMMA MetHolds ==
  ASSUME NEW f \in Met, PrerequisiteState(f[2]) = 1
  PROVE  Holds(site, f)
<1> USE RulesAssumption
<1>1. f = <<"met", f[2]>> /\ f[2] \in Prerequisites /\ f[1] = "met"
  BY DEF Met
<1>2. CASE f[2] = "database"
  <2>1. \A x \in Evidence : x[1] = "cluster" => site[x] = TRUE
    BY <1>2 DEF PrerequisiteState, AllOf
  <2>2. \A c \in Clusters : <<"cluster", c>> \in Evidence BY DEF Evidence
  <2> QED BY <1>1, <1>2, <2>1, <2>2 DEF Holds, AllOf
<1>3. CASE f[2] = "backup"
  <2>1. AllOf("base", "within") BY <1>3 DEF PrerequisiteState
  <2>2. \A c \in Clusters : <<"base", c>> \in Evidence BY DEF Evidence
  <2> QED BY <1>1, <1>3, <2>1, <2>2 DEF Holds, AllOf
<1>4. CASE f[2] = "restore"
  <2>1. AllOf("drill", "done") BY <1>4 DEF PrerequisiteState
  <2>2. \A v \in Pvcs : <<"drill", v>> \in Evidence BY DEF Evidence
  <2> QED BY <1>1, <1>4, <2>1, <2>2 DEF Holds, AllOf
<1>5. CASE f[2] = "fence"
  <2>1. site[<<"fence", "peer">>] = "attested" BY <1>5 DEF PrerequisiteState
  <2> QED BY <1>1, <1>5, <2>1 DEF Holds
<1> QED BY <1>1, <1>2, <1>3, <1>4, <1>5 DEF Prerequisites

LEMMA JobsOfSeries ==
  ASSUME family \in Families, NEW x \in Series PROVE JobOf(x) \in Jobs
<1>1. x \in ((Replicas \cup Probes) \cup Met) \cup Scheduled
      \/ x \in ((((Backup \cup InRecovery) \cup NodeBgp) \cup Mesh) \cup Domains) \cup {Stateful}
      \/ x \in Session \cup {RouterUp, Handshake}
  BY SeriesByFamily DEF Families
<1> QED BY <1>1, JobByKind DEF Jobs

\* Only a recovery's series are made from others.
LEMMA NotMet ==
  ASSUME family \in Families, family # "recovery", NEW x \in Series PROVE x[1] # "met"
BY SeriesByFamily
DEF Families, Replicas, Probes, Scheduled, InRecovery, Backup, Session, RouterUp, Handshake,
    NodeBgp, Mesh, Stateful, Domains

LEMMA ShownTyped ==
  ASSUME RulesTypeOK, NEW x \in Series PROVE Shown(x) \in Values(x) \cup {NoSample}
<1>1. CASE family = "recovery"
  <2>1. x[1] = "met" BY <1>1, SeriesByFamily DEF Met
  <2>2. PrerequisiteState(x[2]) \in {1, 3, NoSample} BY DEF PrerequisiteState
  <2> QED BY <2>1, <2>2 DEF Shown, Values
<1>2. CASE family # "recovery"
  BY <1>2, NotMet DEF Shown, RulesTypeOK, Sources
<1> QED BY <1>1, <1>2

\* What holds one of the replicas holds them all.
LEMMA ReplicasTogether ==
  ASSUME family = "workload", NEW S \in Sections("collector"), NEW x \in Replicas, NEW y \in Replicas,
         y \in S
  PROVE  x \in S
<1> DEFINE of == {z \in Series : JobOf(z) = "collector"}
<1>1. S \in {Replicas \cap of, Probes \cap of}
  BY DEF Sections
<1>2. y \notin Probes BY DEF Replicas, Probes
<1>3. x \in of
  BY SeriesByFamily, JobByKind
<1> QED BY <1>1, <1>2, <1>3

LEMMA RulesInvSiteChanges ==
  ASSUME RulesInv, SiteChanges PROVE RulesInv'
<1>1. family \in Families /\ UNCHANGED <<family, samples, age>>
  BY DEF RulesInv, RulesTypeOK, SiteChanges
<1>2. RulesTypeOK'
  <2>1. PICK x \in Sources : \E v \in Values(x) : site' = [site EXCEPT ![x] = v]
    BY DEF SiteChanges
  <2>2. PICK v \in Values(x) : site' = [site EXCEPT ![x] = v]
    BY <2>1
  <2>3. DOMAIN site' = Sources /\ \A y \in Sources : site'[y] \in Values(y)
    BY <2>2 DEF RulesInv, RulesTypeOK
  <2>4. Facts' = Facts /\ Sources' = Sources /\ Series' = Series
    BY <1>1 DEF Facts, Sources, Series
  <2>5. last' \in [Facts -> 0 .. Lookback]
    BY RulesAssumption DEF RulesInv, RulesTypeOK, SiteChanges
  <2>6. siteChanges' \in 0 .. MaxSiteChanges
    BY RulesAssumption DEF RulesInv, RulesTypeOK, SiteChanges
  <2> QED BY <1>1, <2>3, <2>4, <2>5, <2>6 DEF RulesInv, RulesTypeOK
<1>3. Facts' = Facts /\ Series' = Series /\ \A f \in Facts : Basis(f)' = Basis(f)
  BY <1>1 DEF Facts, Series, Basis
<1>4. \A f \in Facts : Holds(site', f) => last'[f] = 0
  BY DEF SiteChanges
<1>5. ASSUME NEW f \in Facts, Says(samples, f)', NEW x \in Basis(f)
      PROVE  last'[f] <= age'[JobOf(x)]
  <2>1. Says(samples, f) BY <1>1, <1>5 DEF Says, Holds
  <2>2. last'[f] = 0 \/ last'[f] = last[f] BY DEF SiteChanges
  <2>3. last[f] <= age[JobOf(x)] /\ age[JobOf(x)] \in 0 .. Lookback
    BY <1>1, <1>5, <2>1, BasisOfOneJob, AgesTyped DEF RulesInv
  <2> QED BY <1>1, <2>2, <2>3, RulesAssumption
<1>6. OneSection' BY <1>1 DEF RulesInv, OneSection
<1> QED BY <1>1, <1>2, <1>3, <1>4, <1>5, <1>6 DEF RulesInv

LEMMA RulesInvScrape ==
  ASSUME RulesInv, NEW j \in Jobs, Scrape(j) PROVE RulesInv'
<1>1. family \in Families /\ UNCHANGED <<family, site, last, siteChanges>>
  BY DEF RulesInv, RulesTypeOK, Scrape
<1>2. /\ Facts' = Facts /\ Sources' = Sources /\ Series' = Series
      /\ \A f \in Facts : Basis(f)' = Basis(f)
  BY <1>1 DEF Facts, Sources, Series, Basis
<1>3. /\ DOMAIN samples' = Series
      /\ \A x \in Series : IF JobOf(x) # j THEN samples'[x] = samples[x]
                           ELSE samples'[x] = NoSample \/ samples'[x] = Shown(x)
  BY DEF Scrape
<1>4. /\ age' \in [Jobs -> 0 .. Lookback]
      /\ \A k \in Jobs : age'[k] = IF k = j THEN 0 ELSE age[k]
  BY RulesAssumption DEF RulesInv, RulesTypeOK, Scrape
<1>5. RulesTypeOK'
  <2>1. \A x \in Series : Shown(x) \in Values(x) \cup {NoSample}
    BY ShownTyped DEF RulesInv
  <2> QED BY <1>1, <1>2, <1>3, <1>4, <2>1 DEF RulesInv, RulesTypeOK
<1>6. ASSUME NEW f \in Facts, Says(samples, f)', NEW x \in Basis(f)
      PROVE  last'[f] <= age'[JobOf(x)]
  <2>1. /\ Basis(f) \subseteq Series /\ JobOf(x) \in Jobs
        /\ \A y \in Basis(f) : JobOf(y) = JobOf(x)
    BY <1>1, <1>6, BasisOfOneJob
  <2>2. Says(samples', f)
    BY <1>1, <1>6 DEF Says, Holds, Basis
  <2>3. CASE JobOf(x) # j
    <3>1. Says(samples, f)
      BY <1>1, <1>3, <2>1, <2>2, <2>3, SaysOfBasis
    <3> QED BY <1>1, <1>4, <1>6, <2>1, <2>3, <3>1 DEF RulesInv
  <2>4. CASE JobOf(x) = j
    <3>1. \A y \in Basis(f) : samples'[y] = Shown(y)
      BY <1>3, <2>1, <2>2, <2>4 DEF Says
    <3>2. CASE family = "recovery"
      <4>1. f \in Met /\ Basis(f) = {f} /\ f[1] = "met"
        BY <3>2, FactsByFamily, BasisByFamily DEF Met
      <4>2. PrerequisiteState(f[2]) = 1
        BY <2>2, <3>1, <3>2, <4>1 DEF Says, Shown
      <4>3. Holds(site, f)
        BY <4>1, <4>2, MetHolds
      <4> QED BY <1>1, <1>4, <2>1, <2>4, <4>3 DEF RulesInv
    <3>3. CASE family # "recovery"
      <4>1. \A y \in Basis(f) : samples'[y] = site[y]
        BY <1>1, <2>1, <3>1, <3>3, NotMet DEF Shown
      <4>2. Holds(samples', f) BY <2>2, <3>3 DEF Says
      <4>3. Holds(site, f)
        BY <1>1, <3>3, <4>1, <4>2, HoldsOfBasis
      <4> QED BY <1>1, <1>4, <2>1, <2>4, <4>3 DEF RulesInv
    <3> QED BY <3>2, <3>3
  <2> QED BY <2>3, <2>4
<1>7. \A x \in Series : samples'[x] # NoSample => age'[JobOf(x)] < Lookback
  BY <1>1, <1>3, <1>4, JobsOfSeries, RulesAssumption DEF RulesInv
<1>8. OneSection'
  <2> SUFFICES ASSUME NEW x \in Replicas, NEW y \in Replicas, family = "workload",
                      samples'[x] # NoSample
               PROVE  samples'[y] # NoSample
    BY <1>1 DEF OneSection
  <2>1. x \in Series /\ y \in Series /\ JobOf(x) = "collector" /\ JobOf(y) = "collector"
    BY SeriesByFamily, JobByKind
  <2>2. CASE j # "collector"
    BY <1>3, <2>1, <2>2 DEF RulesInv, OneSection
  <2>3. CASE j = "collector"
    <3>1. PICK failed \in SUBSET Sections(j) :
            samples' = [z \in Series |-> IF JobOf(z) # j THEN samples[z]
                          ELSE IF z \in UNION failed THEN NoSample ELSE Shown(z)]
      BY DEF Scrape
    <3>2. x \notin UNION failed
      BY <2>1, <2>3, <3>1
    <3>3. y \notin UNION failed
      BY <2>1, <2>3, <3>1, <3>2, ReplicasTogether
    <3>4. samples'[y] = site[y]
      BY <2>1, <2>3, <3>1, <3>3, NotMet, <1>1 DEF Shown
    <3>5. site[y] \in {Missing} \cup [desired : 0 .. 1, ready : 0 .. MaxReplicas]
      BY SeriesByFamily DEF RulesInv, RulesTypeOK, Sources, Values, Replicas
    <3> QED BY <3>4, <3>5, RulesAssumption
  <2> QED BY <2>2, <2>3
<1> QED BY <1>1, <1>2, <1>5, <1>6, <1>7, <1>8 DEF RulesInv

LEMMA RulesInvMinute ==
  ASSUME RulesInv, Minute PROVE RulesInv'
<1>1. family \in Families /\ UNCHANGED <<family, site, siteChanges>>
  BY DEF RulesInv, RulesTypeOK, Minute
<1>2. /\ Facts' = Facts /\ Sources' = Sources /\ Series' = Series
      /\ \A f \in Facts : Basis(f)' = Basis(f)
  BY <1>1 DEF Facts, Sources, Series, Basis
<1>3. /\ age' \in [Jobs -> 0 .. Lookback] /\ last' \in [Facts -> 0 .. Lookback]
      /\ \A x \in Series : age'[JobOf(x)] = Later(age[JobOf(x)])
      /\ \A f \in Facts : last'[f] = IF Holds(site, f) THEN 0 ELSE Later(last[f])
  <2>1. \A n \in 0 .. Lookback : Later(n) \in 0 .. Lookback
    BY RulesAssumption DEF Later
  <2>2. \A k \in Jobs : age'[k] \in {0, Later(age[k])}
    BY DEF Minute
  <2>3. age' \in [Jobs -> 0 .. Lookback]
    BY <2>1, <2>2, AgesTyped, RulesAssumption DEF Minute, RulesInv
  <2>4. last' \in [Facts -> 0 .. Lookback]
    BY <2>1, AgesTyped, RulesAssumption DEF Minute, RulesInv
  <2>5. \A x \in Series : age'[JobOf(x)] = Later(age[JobOf(x)])
    BY <1>1, JobsOfSeries DEF Minute
  <2> QED BY <2>3, <2>4, <2>5 DEF Minute
<1>4. /\ DOMAIN samples' = Series
      /\ \A x \in Series : samples'[x] =
           IF age'[JobOf(x)] = Lookback THEN NoSample ELSE samples[x]
  BY DEF Minute
<1>5. RulesTypeOK'
  BY <1>1, <1>2, <1>3, <1>4 DEF RulesInv, RulesTypeOK
<1>6. \A f \in Facts : Holds(site, f) => last'[f] = 0
  BY <1>3
<1>7. ASSUME NEW f \in Facts, Says(samples, f)', NEW x \in Basis(f)
      PROVE  last'[f] <= age'[JobOf(x)]
  <2>1. Basis(f) \subseteq Series /\ JobOf(x) \in Jobs
    BY <1>1, <1>7, BasisOfOneJob
  <2>2. Says(samples', f)
    BY <1>1, <1>7 DEF Says, Holds, Basis
  <2>3. \A y \in Basis(f) : samples'[y] = samples[y]
    BY <1>4, <2>1, <2>2 DEF Says
  <2>4. Says(samples, f)
    BY <1>1, <2>2, <2>3, SaysOfBasis
  <2>5. /\ last[f] <= age[JobOf(x)] /\ last[f] \in 0 .. Lookback
        /\ age[JobOf(x)] \in 0 .. Lookback
    BY <1>7, <2>1, <2>4, AgesTyped DEF RulesInv
  <2>6. Later(last[f]) <= Later(age[JobOf(x)]) /\ 0 <= Later(age[JobOf(x)])
    BY <2>5, RulesAssumption DEF Later
  <2> QED BY <1>3, <1>7, <2>1, <2>6
<1>8. \A x \in Series : samples'[x] # NoSample => age'[JobOf(x)] < Lookback
  <2> SUFFICES ASSUME NEW x \in Series, samples'[x] # NoSample PROVE age'[JobOf(x)] < Lookback
    OBVIOUS
  <2>1. age'[JobOf(x)] \in 0 .. Lookback /\ age'[JobOf(x)] # Lookback
    BY <1>1, <1>3, <1>4, JobsOfSeries
  <2> QED BY <2>1, RulesAssumption
<1>9. OneSection'
  <2> SUFFICES ASSUME NEW x \in Replicas, NEW y \in Replicas, family = "workload",
                      samples'[x] # NoSample
               PROVE  samples'[y] # NoSample
    BY <1>1 DEF OneSection
  <2>1. x \in Series /\ y \in Series /\ JobOf(x) = JobOf(y)
    BY SeriesByFamily, JobByKind
  <2> QED BY <1>4, <2>1 DEF RulesInv, OneSection
<1> QED BY <1>1, <1>2, <1>5, <1>6, <1>7, <1>8, <1>9 DEF RulesInv

\* A function from two sets of functions has the values of each on its domain.
LEMMA JoinsTyped ==
  ASSUME NEW S, NEW T, NEW V, NEW W, NEW s, s \in Joins([S -> V], [T -> W])
  PROVE  /\ DOMAIN s = S \cup T
         /\ \A x \in S : s[x] \in V
         /\ \A x \in T \ S : s[x] \in W
<1>1. PICK f \in [S -> V], g \in [T -> W] : s = Join(f, g)
  BY DEF Joins
<1>2. /\ DOMAIN f = S /\ \A x \in S : f[x] \in V
      /\ DOMAIN g = T /\ \A x \in T : g[x] \in W
  OBVIOUS
<1> QED BY <1>1, <1>2 DEF Join

LEMMA SiteTyped ==
  ASSUME family \in Families, site \in AnySite
  PROVE  DOMAIN site = Sources /\ \A x \in Sources : site[x] \in Values(x)
<1>1. CASE family = "workload"
  <2> DEFINE Flag == BOOLEAN
             Any == Values(<<"replicas", 0>>)
  <2>1. site \in Joins([Replicas -> Any], [Probes -> Flag])
    BY <1>1 DEF AnySite
  <2> HIDE DEF Flag, Any
  <2>2. /\ DOMAIN site = Replicas \cup Probes
        /\ \A x \in Replicas : site[x] \in Any
        /\ \A x \in Probes \ Replicas : site[x] \in Flag
    BY <2>1, JoinsTyped, Zenon
  <2>3. \A x \in Replicas : Values(x) = Any
    BY DEF Replicas, Values, Any
  <2>4. \A x \in Probes : Values(x) = Flag
    BY DEF Probes, Values, Flag
  <2>5. Sources = Replicas \cup Probes
    BY <1>1 DEF Sources, Series
  <2> QED BY <2>2, <2>3, <2>4, <2>5
<1>2. CASE family = "objective"
  <2> DEFINE Flags == Scheduled \cup InRecovery
             Flag == BOOLEAN
             Any == Values(<<"backup", 0>>)
  <2>1. site \in Joins([Flags -> Flag], [Backup -> Any])
    BY <1>2 DEF AnySite
  <2> HIDE DEF Flags, Flag, Any
  <2>2. /\ DOMAIN site = Flags \cup Backup
        /\ \A x \in Flags : site[x] \in Flag
        /\ \A x \in Backup \ Flags : site[x] \in Any
    BY <2>1, JoinsTyped, Zenon
  <2>3. \A x \in Backup : Values(x) = Any
    BY DEF Backup, Values, Any
  <2>4. \A x \in Flags : Values(x) = Flag
    BY DEF Flags, Scheduled, InRecovery, Values, Flag
  <2>5. Sources = Flags \cup Backup
    BY <1>2 DEF Sources, Series, Flags
  <2> QED BY <2>2, <2>3, <2>4, <2>5
<1>3. CASE family = "network"
  <2> DEFINE States == {TRUE, FALSE, NoSample}
             Up == {TRUE}
             R == {RouterUp}
  <2>1. site \in Joins([Session -> States], [R -> Up])
    BY <1>3 DEF AnySite
  <2> HIDE DEF States, Up, R
  <2>2. /\ DOMAIN site = Session \cup R
        /\ \A x \in Session : site[x] \in States
        /\ \A x \in R \ Session : site[x] \in Up
    BY <2>1, JoinsTyped, Zenon
  <2>3. \A x \in Session : Values(x) = States
    BY DEF Session, Values, States
  <2>4. Values(RouterUp) = Up /\ RouterUp \notin Session /\ R = {RouterUp}
    BY DEF RouterUp, Session, Values, Up, R
  <2>5. Sources = Session \cup {RouterUp}
    BY <1>3 DEF Sources, Series
  <2> QED BY <2>2, <2>3, <2>4, <2>5
<1>4. CASE family \in {"hops", "engine", "household"}
  <2>1. \A x \in (NodeBgp \cup Mesh) \cup {Handshake} : Values(x) = BOOLEAN
    BY DEF NodeBgp, Mesh, Handshake, Values
  <2>2. \A x \in Domains : Values(x) = 0 .. 6
    BY DEF Domains, Values
  <2> QED BY <1>4, <2>1, <2>2, SeriesByFamily DEF AnySite, Sources
<1>5. CASE family = "recovery"
  <2> DEFINE Flag == BOOLEAN
             C == {"cluster"} \X Clusters
             B == {"base"} \X Clusters
             D == {"drill"} \X Pvcs
             F == {<<"fence", "peer">>}
             BaseAges == {"none", "within", "outside"}
             Drills == {"none", "done", "failed"}
             Fences == {"blocks", "attested", "unknown"}
  <2>1. site \in Joins(Joins([C -> Flag], [B -> BaseAges]), Joins([D -> Drills], [F -> Fences]))
    BY <1>5 DEF AnySite
  <2>2. \A x \in C : Values(x) = Flag
    BY DEF Values
  <2>3. \A x \in B : Values(x) = BaseAges
    BY DEF Values
  <2>4. \A x \in D : Values(x) = Drills
    BY DEF Values
  <2>5. Values(<<"fence", "peer">>) = Fences
    BY DEF Values
  <2>6. Sources = (C \cup B) \cup (D \cup F)
    BY <1>5 DEF Sources, Evidence
  <2>7. /\ \A x \in C : x \notin B /\ x \notin D /\ x \notin F
        /\ \A x \in B : x \notin D /\ x \notin F
        /\ \A x \in D : x \notin F
    OBVIOUS
  <2>14. \A x \in F : x = <<"fence", "peer">>
    OBVIOUS
  <2>15. \A x \in F : Values(x) = Fences
    BY <2>5, <2>14
  <2> HIDE DEF Flag, C, B, D, F, BaseAges, Drills, Fences
  <2>8. PICK s \in Joins([C -> Flag], [B -> BaseAges]), t \in Joins([D -> Drills], [F -> Fences]) :
          site = Join(s, t)
    BY <2>1 DEF Joins
  <2>9. /\ DOMAIN s = C \cup B
        /\ \A x \in C : s[x] \in Flag
        /\ \A x \in B \ C : s[x] \in BaseAges
    BY <2>8, JoinsTyped, Zenon
  <2>10. /\ DOMAIN t = D \cup F
         /\ \A x \in D : t[x] \in Drills
         /\ \A x \in F \ D : t[x] \in Fences
    BY <2>8, JoinsTyped, Zenon
  <2>11. DOMAIN site = Sources
    BY <2>6, <2>8, <2>9, <2>10 DEF Join
  <2>12. ASSUME NEW x \in C \cup B PROVE site[x] = s[x]
    BY <2>8, <2>9, <2>10, <2>12 DEF Join
  <2>13. ASSUME NEW x \in D \cup F PROVE site[x] = t[x]
    BY <2>7, <2>8, <2>9, <2>10, <2>13 DEF Join
  <2> QED BY <2>2, <2>3, <2>4, <2>15, <2>6, <2>7, <2>9, <2>10, <2>11, <2>12, <2>13
<1> QED BY <1>1, <1>2, <1>3, <1>4, <1>5 DEF Families

LEMMA RulesInvInit == RulesInit => RulesInv
<1> SUFFICES ASSUME RulesInit PROVE RulesInv
  OBVIOUS
<1>1. family \in Families BY DEF RulesInit
<1>2. DOMAIN site = Sources /\ \A x \in Sources : site[x] \in Values(x)
  BY <1>1, SiteTyped DEF RulesInit
<1>3. RulesTypeOK
  BY <1>1, <1>2, RulesAssumption DEF RulesInit, RulesTypeOK
<1>4. \A f \in Facts : Holds(site, f) => last[f] = 0
  BY DEF RulesInit
<1>5. ASSUME NEW f \in Facts, Says(samples, f), NEW x \in Basis(f) PROVE FALSE
  <2>1. x \in Series BY <1>1, <1>5, BasisOfOneJob
  <2> QED BY <1>5, <2>1 DEF RulesInit, Says
<1>6. \A x \in Series : samples[x] = NoSample
  BY DEF RulesInit
<1>7. OneSection
  BY <1>6, SeriesByFamily DEF OneSection
<1> QED BY <1>3, <1>4, <1>5, <1>6, <1>7 DEF RulesInv

LEMMA RulesInvNext ==
  ASSUME RulesInv, [RulesNext]_rulesVars
  PROVE  RulesInv'
<1>1. CASE SiteChanges BY <1>1, RulesInvSiteChanges
<1>2. CASE Minute BY <1>2, RulesInvMinute
<1>3. CASE \E j \in {JobOf(x) : x \in Series} : Scrape(j)
  <2>1. {JobOf(x) : x \in Series} \subseteq Jobs
    BY JobsOfSeries DEF RulesInv, RulesTypeOK
  <2> QED BY <1>3, <2>1, RulesInvScrape
<1>4. CASE UNCHANGED rulesVars
  <2>1. RulesTypeOK' = RulesTypeOK /\ Facts' = Facts /\ Series' = Series
    BY <1>4 DEF rulesVars, RulesTypeOK, Facts, Series, Sources
  <2>2. OneSection' = OneSection
    BY <1>4 DEF rulesVars, OneSection
  <2>3. \A f \in Facts : Says(samples, f)' = Says(samples, f)
    BY <1>4 DEF rulesVars, Says, Holds, Basis
  <2>4. \A f \in Facts : Holds(site', f) = Holds(site, f) /\ Basis(f)' = Basis(f)
    BY <1>4 DEF rulesVars, Basis
  <2> QED BY <1>4, <2>1, <2>2, <2>3, <2>4 DEF rulesVars, RulesInv
<1> QED BY <1>1, <1>2, <1>3, <1>4 DEF RulesNext

LEMMA RulesInvCorrect == RulesSpec => []RulesInv
  BY RulesInvInit, RulesInvNext, PTL DEF RulesSpec

-----------------------------------------------------------------------------
(* What the rules claim                                                        *)

\* A claim rests on samples that say so, fresh where the rule asks for it.
Rests(f) ==
  /\ f \in Facts /\ Basis(f) # {} /\ Says(samples, f)
  /\ family \in {"workload", "recovery"} => \A x \in Basis(f) : Fresh(x)

LEMMA RestsWasSo ==
  ASSUME RulesInv, NEW f, Rests(f)
  PROVE  last[f] < IF family \in {"workload", "recovery"} THEN FreshFor ELSE Lookback
<1>1. PICK x \in Basis(f) : TRUE
  BY DEF Rests
<1>2. family \in Families /\ f \in Facts
  BY DEF RulesInv, RulesTypeOK, Rests
<1>3. x \in Series /\ JobOf(x) \in Jobs
  BY <1>1, <1>2, BasisOfOneJob
<1>4. /\ last[f] <= age[JobOf(x)] /\ last[f] \in 0 .. Lookback
      /\ age[JobOf(x)] \in 0 .. Lookback /\ age[JobOf(x)] < Lookback
  BY <1>1, <1>2, <1>3, AgesTyped DEF RulesInv, Rests, Says
<1>5. family \in {"workload", "recovery"} => age[JobOf(x)] < FreshFor
  BY <1>1 DEF Rests, Fresh
<1> QED BY <1>4, <1>5, RulesAssumption

LEMMA WorkloadRests ==
  ASSUME RulesInv, family = "workload", NEW f \in Claims
  PROVE  Rests(f)
<1>1. WorkloadState \in {1, 4} => /\ FreshReplicas # {} /\ FreshReplicas = Replicas
                                  /\ \A x \in Replicas : samples[x] # Missing
  <2> SUFFICES ASSUME WorkloadState \in {1, 4}
               PROVE  /\ FreshReplicas # {} /\ FreshReplicas = Replicas
                      /\ \A x \in Replicas : samples[x] # Missing
    OBVIOUS
  <2>1. FreshReplicas # {} /\ \A x \in Replicas : samples[x] # Missing
    BY DEF WorkloadState
  <2>2. PICK x \in Replicas : Fresh(x)
    BY <2>1 DEF FreshReplicas
  <2>3. \A y \in Replicas : JobOf(y) = JobOf(x)
    BY <2>2, JobByKind
  <2>4. \A y \in Replicas : Fresh(y)
    BY <2>2, <2>3 DEF Fresh, RulesInv, OneSection
  <2> QED BY <2>1, <2>4 DEF FreshReplicas
<1>2. WorkloadState = 1 => /\ Desired(samples, FreshReplicas) > 0
                           /\ Ready(samples, FreshReplicas) >= Desired(samples, FreshReplicas)
  BY DEF WorkloadState
<1>3. WorkloadState = 4 => Desired(samples, FreshReplicas) = 0
  BY DEF WorkloadState
<1>4. ServiceState = 4 => WorkloadState = 4
  BY DEF ServiceState, PathState
<1>5. \A p \in Paths \cup {ServiceProbe} : PathState(p) = 1 =>
        Fresh(<<"probe", p>>) /\ samples[<<"probe", p>>] = TRUE
  BY RulesAssumption DEF PathState
<1>6. ServiceState = 1 => PathState(ServiceProbe) = 1
  BY DEF ServiceState
<1>7. \/ f = <<"running", "all">> /\ WorkloadState = 1
      \/ f = <<"standby", "all">> /\ WorkloadState = 4
      \/ \E p \in Paths \cup {ServiceProbe} : f = <<"answers", p>> /\ PathState(p) = 1
  BY <1>4, <1>6 DEF Claims
<1>8. CASE f \in Standings
  <2>1. Basis(f) = Replicas /\ f \in Facts
    BY <1>8, FactsByFamily DEF Basis, Standings
  <2>2. Holds(samples, f)
    BY <1>1, <1>2, <1>3, <1>7, <1>8 DEF Holds, Standings
  <2>3. \A x \in Replicas : Fresh(x)
    BY <1>1, <1>7, <1>8 DEF Standings, FreshReplicas
  <2> QED BY <1>1, <1>7, <1>8, <2>1, <2>2, <2>3 DEF Rests, Says, Fresh, Standings
<1>9. CASE f \notin Standings
  <2>1. PICK p \in Paths \cup {ServiceProbe} : f = <<"answers", p>> /\ PathState(p) = 1
    BY <1>7, <1>9 DEF Standings
  <2>2. Basis(f) = {<<"probe", p>>} /\ f \in Facts
    BY <2>1, FactsByFamily DEF Basis
  <2>3. Holds(samples, f)
    BY <1>5, <2>1 DEF Holds
  <2> QED BY <1>5, <2>1, <2>2, <2>3 DEF Rests, Says, Fresh
<1> QED BY <1>8, <1>9

LEMMA FourPrerequisites == IsFiniteSet(Met) /\ Cardinality(Met) = 4
<1> DEFINE D == {<<"met", "database">>}
           B == D \cup {<<"met", "backup">>}
           R == B \cup {<<"met", "restore">>}
           F == R \cup {<<"met", "fence">>}
<1>1. IsFiniteSet(D) /\ Cardinality(D) = 1
  BY FS_Singleton
<1>2. IsFiniteSet(B) /\ Cardinality(B) = 2
  <2>1. <<"met", "backup">> \notin D OBVIOUS
  <2> HIDE DEF D
  <2> QED BY <1>1, <2>1, FS_AddElement
<1>3. IsFiniteSet(R) /\ Cardinality(R) = 3
  <2>1. <<"met", "restore">> \notin B OBVIOUS
  <2> HIDE DEF B
  <2> QED BY <1>2, <2>1, FS_AddElement
<1>4. IsFiniteSet(F) /\ Cardinality(F) = 4
  <2>1. <<"met", "fence">> \notin R OBVIOUS
  <2> HIDE DEF R
  <2> QED BY <1>3, <2>1, FS_AddElement
<1>5. Met = F
  BY DEF Met, Prerequisites
<1> QED BY <1>4, <1>5

LEMMA RecoveryRests ==
  ASSUME RulesInv, family = "recovery", NEW f \in Claims
  PROVE  Rests(f)
<1> DEFINE fresh == {x \in Met : Fresh(x)}
           met == {x \in fresh : samples[x] = 1}
<1>1. RecoveryState = 1 /\ f \in Met
  BY DEF Claims
<1>2. Cardinality(met) = 4
  BY <1>1 DEF RecoveryState
<1>3. met = Met
  BY <1>2, FourPrerequisites, FS_Subset, met \subseteq Met
<1>4. Fresh(f) /\ samples[f] = 1
  BY <1>1, <1>3
<1>5. Basis(f) = {f} /\ f \in Facts
  BY <1>1, FactsByFamily, BasisByFamily
<1> QED BY <1>4, <1>5 DEF Rests, Says, Fresh

LEMMA ObjectiveRests ==
  ASSUME RulesInv, family = "objective", NEW f \in Claims
  PROVE  Rests(f)
<1>1. RpoState = 1 /\ f \in {"backedUp"} \X Pieces
  BY DEF Claims
<1>2. (\A p \in Pieces : BackupOf(p) = "within") /\ ~Gap
  BY <1>1 DEF RpoState
<1>3. f[2] \in Pieces /\ f = <<"backedUp", f[2]>> /\ f[2] \in Pvcs \cup Databases
  BY <1>1 DEF Pieces
<1>4. samples[<<"backup", f[2]>>] = "within" /\ samples[<<"backup", f[2]>>] # NoSample
  BY <1>2, <1>3 DEF BackupOf, Gap
<1>5. f \in Facts /\ Basis(f) = {<<"backup", f[2]>>} /\ Holds(samples, f)
  BY <1>3, <1>4, FactsByFamily DEF Basis, Holds
<1> QED BY <1>4, <1>5 DEF Rests, Says

LEMMA NetworkRests ==
  ASSUME RulesInv, family = "network", NEW f \in Claims
  PROVE  Rests(f)
<1>1. PICK s \in Sites : f = <<"session", s>> /\ PathOf(s) = 1
  BY DEF Claims, Routed
<1>2. samples[f] # NoSample /\ samples[f] = TRUE
  BY <1>1, RulesAssumption DEF PathOf
<1>3. f \in Facts /\ Basis(f) = {f} /\ f[1] = "session"
  BY <1>1, FactsByFamily, BasisByFamily DEF Session
<1>4. Holds(samples, f)
  BY <1>2, <1>3 DEF Holds
<1> QED BY <1>2, <1>3, <1>4 DEF Rests, Says

LEMMA HopsRests ==
  ASSUME RulesInv, family = "hops", NEW f \in Claims
  PROVE  Rests(f)
<1>1. PICK hop \in {{Handshake}, NodeBgp, Mesh} :
        HopState(hop) = 1 /\ f \in hop /\ samples[f] # NoSample
  BY DEF Claims
<1>2. \A x \in {y \in hop : samples[y] # NoSample} : samples[x] = TRUE
  BY <1>1 DEF HopState
<1>3. samples[f] = TRUE
  BY <1>1, <1>2
<1>4. f \in Facts /\ Basis(f) = {f} /\ f[1] \in {"handshake", "node", "mesh"}
  BY <1>1, FactsByFamily, BasisByFamily, SeriesByFamily DEF Handshake, NodeBgp, Mesh
<1>5. Holds(samples, f)
  BY <1>3, <1>4 DEF Holds
<1> QED BY <1>1, <1>4, <1>5 DEF Rests, Says

LEMMA EngineRests ==
  ASSUME RulesInv, family = "engine", NEW f \in Claims
  PROVE  Rests(f)
<1>1. \/ f = <<"serving", Stateful>> /\ EngineState = 1
      \/ f = <<"parked", Stateful>> /\ EngineState = 4
  BY DEF Claims
<1>2. /\ samples[Stateful] # NoSample
      /\ EngineState = 1 => /\ samples[Stateful].desired > 0
                            /\ samples[Stateful].ready >= samples[Stateful].desired
      /\ EngineState = 4 => samples[Stateful].desired = 0
  BY <1>1 DEF EngineState
<1>3. f \in Facts /\ Basis(f) = {Stateful}
  BY <1>1, FactsByFamily, BasisByFamily
<1>4. Holds(samples, f)
  BY <1>1, <1>2 DEF Holds
<1> QED BY <1>2, <1>3, <1>4 DEF Rests, Says

LEMMA HouseholdRests ==
  ASSUME RulesInv, family = "household", NEW f \in Claims
  PROVE  Rests(f)
<1> DEFINE states == {samples[x] : x \in Domains} \ {NoSample}
           order == <<3, 2, 0, 6, 1, 4, 5>>
           First(i) == order[i] \in states /\ \A j \in 1 .. i - 1 : order[j] \notin states
<1>1. f \in Domains /\ samples[f] # NoSample /\ Household \in {1, 4, 5}
  BY DEF Claims
<1>2. states # {} /\ samples[f] \in states
  BY <1>1
<1>3. Household = order[CHOOSE i \in DOMAIN order : First(i)]
  BY <1>2 DEF Household
<1>4. DOMAIN order = 1 .. 7
  OBVIOUS
<1>5. states \subseteq 0 .. 6
  <2>1. \A x \in Domains : samples[x] \in Values(x) \cup {NoSample}
    BY SeriesByFamily DEF RulesInv, RulesTypeOK
  <2>2. \A x \in Domains : Values(x) = 0 .. 6
    BY DEF Domains, Values
  <2> QED BY <2>1, <2>2
<1>6. \E i \in 1 .. 7 : First(i)
  <2>1. \E v \in 0 .. 6 : v \in states BY <1>2, <1>5
  <2>2. \/ 3 \in states
        \/ 3 \notin states /\ 2 \in states
        \/ 3 \notin states /\ 2 \notin states /\ 0 \in states
        \/ 3 \notin states /\ 2 \notin states /\ 0 \notin states /\ 6 \in states
        \/ 3 \notin states /\ 2 \notin states /\ 0 \notin states /\ 6 \notin states /\ 1 \in states
        \/ 3 \notin states /\ 2 \notin states /\ 0 \notin states /\ 6 \notin states
           /\ 1 \notin states /\ 4 \in states
        \/ 3 \notin states /\ 2 \notin states /\ 0 \notin states /\ 6 \notin states
           /\ 1 \notin states /\ 4 \notin states /\ 5 \in states
    <3> HIDE DEF states
    <3> QED BY <2>1
  <2> HIDE DEF states
  <2>3. First(1) \/ First(2) \/ First(3) \/ First(4) \/ First(5) \/ First(6) \/ First(7)
    BY <2>2
  <2> QED BY <2>3
<1> HIDE DEF states
<1>7. PICK i \in 1 .. 7 : First(i) /\ Household = order[i]
  <2> DEFINE i == CHOOSE k \in DOMAIN order : First(k)
  <2>1. i \in 1 .. 7 /\ First(i)
    <3> HIDE DEF First, order
    <3> QED BY <1>4, <1>6
  <2> QED BY <1>3, <2>1
<1>8. i \in {5, 6, 7}
  BY <1>1, <1>7
<1>9. 3 \notin states /\ 2 \notin states /\ 0 \notin states /\ 6 \notin states
  BY <1>7, <1>8
<1>10. samples[f] \in {1, 4, 5}
  <2>1. samples[f] \in 0 .. 6 BY <1>2, <1>5
  <2>2. samples[f] \notin {3, 2, 0, 6} BY <1>2, <1>9
  <2> HIDE DEF order, First
  <2> QED BY <2>1, <2>2
<1>11. f \in Facts /\ Basis(f) = {f} /\ f[1] = "domain"
  BY <1>1, FactsByFamily, BasisByFamily DEF Domains
<1>12. Holds(samples, f)
  BY <1>10, <1>11 DEF Holds
<1> QED BY <1>1, <1>11, <1>12 DEF Rests, Says


(* What is shown healthy, ready to take over, backed up, routed or on standby was so
   within the time its rule asks for, of any app, site and objective: the evidence
   behind every claim is in samples of one scrape, and the scrape was true when it
   was made (rules.py, kiosk_proxy.py). *)
THEOREM ShownWasSoCorrect == RulesSpec => []ShownWasSo
<1>1. ASSUME RulesInv PROVE ShownWasSo
  <2>1. ASSUME NEW f \in Claims PROVE Rests(f)
    BY <1>1, <2>1, WorkloadRests, RecoveryRests, ObjectiveRests, NetworkRests, HopsRests,
       EngineRests, HouseholdRests
    DEF RulesInv, RulesTypeOK, Families
  <2> QED BY <1>1, <2>1, RestsWasSo DEF ShownWasSo
<1> QED BY <1>1, RulesInvCorrect, PTL

==============================================================================
