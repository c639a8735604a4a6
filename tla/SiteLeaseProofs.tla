-------------------------- MODULE SiteLeaseProofs --------------------------
(* Theorems about SiteLease, for every set of Postgres clusters. *)
EXTENDS SiteLease, TLAPS

USE DEF siteVars, jobVars, toolVars

LEMMA SitesTwo ==
  /\ Wsl1 \in Sites /\ Wsl2 \in Sites
  /\ \A s \in Sites : Other(s) \in Sites /\ Other(s) # s /\ Other(Other(s)) = s
  /\ \A s \in Sites, t \in Sites : t = s \/ t = Other(s)
  /\ None \notin Sites
  BY LeaseAssumption DEF Sites, Other

Jobs == [step : {"idle", "fence"}, todo : SUBSET Clusters]
JobType == job \in [Sites -> Jobs]

\* What TypeOK says of the Jobs.
JobSound ==
  \A s \in Sites :
    /\ job[s] \in Jobs
    /\ job[s].step = "idle" => job[s] = NoJob
    /\ s \notin up => job[s] = NoJob /\ pod[s] = "none"

RestOK ==
  /\ lease \in Sites \cup {None} /\ up \subseteq Sites /\ home \in [Sites -> Sites]
  /\ want \in [Sites -> BOOLEAN] /\ claims \in [Sites -> [Clusters -> Sites]]
  /\ fenced \in [Sites -> SUBSET Clusters] /\ pod \in [Sites -> {"none", "gate", "running"}]
  /\ pg \in [Sites -> [Clusters -> {"off", "primary", "replica"}]]
  /\ attested \subseteq Sites /\ pc \in {"idle", "confirm", "db", "app"} /\ target \in Sites

LEMMA TypeSplit == (TypeOK <=> RestOK /\ JobSound) /\ (TypeOK' <=> RestOK' /\ JobSound')
  BY DEF TypeOK, RestOK, JobSound, Jobs

LEMMA NoJobType ==
  NoJob \in Jobs /\ NoJob.step = "idle" /\ NoJob.todo = {}
  BY DEF NoJob, Jobs

LEMMA TypeInit == Init => TypeOK /\ JobType
<1> SUFFICES ASSUME Init PROVE TypeOK /\ JobType
  OBVIOUS
<1>1. PICK h \in Sites : Init!(h)
  BY DEF Init
<1>2. JobType /\ \A s \in Sites : job[s] = NoJob
  BY <1>1, NoJobType DEF JobType
<1>3. /\ lease \in Sites \cup {None} /\ up = Sites /\ home \in [Sites -> Sites]
      /\ want \in [Sites -> BOOLEAN] /\ fenced \in [Sites -> SUBSET Clusters]
      /\ pod \in [Sites -> {"none", "gate", "running"}]
      /\ attested \subseteq Sites /\ pc = "idle" /\ target \in Sites
  BY <1>1
<1>4. /\ claims \in [Sites -> [Clusters -> Sites]]
      /\ pg \in [Sites -> [Clusters -> {"off", "primary", "replica"}]]
  BY <1>1
<1> QED BY <1>2, <1>3, <1>4, NoJobType, TypeSplit DEF RestOK, JobSound

\* One site's Job goes on.
LEMMA JobsType ==
  ASSUME TypeOK, JobType, NEW s \in Sites, NEW j \in Jobs, JobGoes(s, j),
         j.step = "idle" => j = NoJob, s \in up \/ j = NoJob, UNCHANGED <<up, pod>>
  PROVE  /\ JobType' /\ JobSound'
         /\ job'[s] = j /\ \A t \in Sites \ {s} : job'[t] = job[t]
<1>1. job'[s] = j /\ \A t \in Sites \ {s} : job'[t] = job[t]
  BY DEF JobGoes, JobType
<1>2. JobType'
  BY DEF JobGoes, JobType
<1>3. JobSound
  BY DEF TypeOK, JobSound, Jobs
<1>4. JobSound'
  BY <1>1, <1>2, <1>3 DEF JobSound, JobType
<1> QED BY <1>1, <1>2, <1>4

LEMMA TypeSite ==
  ASSUME TypeOK, JobType, NEW s \in Sites,
         \/ Die(s) \/ Return(s) \/ FluxApp(s) \/ FluxDb(s)
         \/ PodCreate(s) \/ PodDelete(s) \/ GatePass(s)
         \/ \E c \in Clusters : PgStart(s, c) \/ PgPromote(s, c) \/ PgFenced(s, c)
  PROVE  TypeOK' /\ JobType'
<1>1. CASE Die(s)
  <2>1. /\ \A t \in Sites : job'[t] = (IF t = s THEN NoJob ELSE job[t])
        /\ \A t \in Sites : pod'[t] = (IF t = s THEN "none" ELSE pod[t])
        /\ up' = up \ {s} /\ JobType'
    BY <1>1, NoJobType DEF Die, TypeOK, JobType
  <2>2. pg' \in [Sites -> [Clusters -> {"off", "primary", "replica"}]]
    BY <1>1 DEF Die, TypeOK
  <2>3. pod' \in [Sites -> {"none", "gate", "running"}]
    BY <1>1 DEF Die, TypeOK
  <2>4. JobSound'
    BY <2>1, NoJobType DEF TypeOK, JobSound, Jobs
  <2> QED BY <1>1, <2>1, <2>2, <2>3, <2>4 DEF Die, TypeOK, JobSound, Jobs
<1>2. CASE Return(s)
  BY <1>2 DEF Return, TypeOK, JobType
<1>3. CASE FluxApp(s)
  BY <1>3 DEF FluxApp, TypeOK, JobType
<1>4. CASE FluxDb(s)
  <2>1. claims' \in [Sites -> [Clusters -> Sites]]
    BY <1>4 DEF FluxDb, TypeOK
  <2> QED BY <1>4, <2>1 DEF FluxDb, TypeOK, JobType
<1>5. CASE PodCreate(s) \/ PodDelete(s) \/ GatePass(s)
  <2>1. PICK from, to \in {"none", "gate", "running"} : SetPod(s, from, to)
    BY <1>5 DEF PodCreate, PodDelete, GatePass
  <2>2. pod' \in [Sites -> {"none", "gate", "running"}] /\ \A t \in Sites \ {s} : pod'[t] = pod[t]
    BY <2>1 DEF SetPod, TypeOK
  <2> QED BY <2>1, <2>2 DEF SetPod, TypeOK, JobType
<1>6. ASSUME NEW c \in Clusters, PgStart(s, c) \/ PgPromote(s, c) \/ PgFenced(s, c)
      PROVE  TypeOK' /\ JobType'
  <2>1. PICK from, to \in {"off", "primary", "replica"} : SetPg(s, c, from, to)
    BY <1>6 DEF PgStart, PgPromote, PgFenced
  <2>2. pg' \in [Sites -> [Clusters -> {"off", "primary", "replica"}]]
    BY <2>1 DEF SetPg, TypeOK
  <2> QED BY <2>1, <2>2 DEF SetPg, TypeOK, JobType
<1> QED BY <1>1, <1>2, <1>3, <1>4, <1>5, <1>6

LEMMA TypeFence ==
  ASSUME TypeOK, JobType, NEW s \in Sites,
         \/ JobClear(s) \/ JobFence(s) \/ JobAttest(s) \/ JobFails(s)
         \/ \E c \in Clusters : Fence(s, c)
  PROVE  TypeOK' /\ JobType'
<1> RestOK /\ JobSound
  BY TypeSplit
<1>1. CASE JobClear(s)
  BY <1>1 DEF JobClear, TypeOK, JobType
<1>2. CASE JobFence(s)
  <2>1. /\ [step |-> "fence", todo |-> Clusters] \in Jobs
        /\ [step |-> "fence", todo |-> Clusters].step = "fence"
    BY DEF Jobs
  <2>2. JobType' /\ JobSound'
    BY <1>2, <2>1, JobsType DEF JobFence
  <2>3. RestOK'
    BY <1>2 DEF JobFence, RestOK
  <2> QED BY <2>2, <2>3, TypeSplit
<1>3. CASE JobAttest(s) \/ JobFails(s)
  <2>1. JobGoes(s, NoJob) /\ UNCHANGED <<up, pod>>
    BY <1>3 DEF JobAttest, JobFails
  <2>2. JobType' /\ JobSound'
    BY <2>1, JobsType, NoJobType
  <2>3. RestOK'
    BY <1>3 DEF JobAttest, JobFails, RestOK
  <2> QED BY <2>2, <2>3, TypeSplit
<1>4. ASSUME NEW c \in Clusters, Fence(s, c) PROVE TypeOK' /\ JobType'
  <2>1. s \in up /\ job[s] \in Jobs /\ job[s].step = "fence"
    <3>1. job[s] # NoJob /\ job[s] \in Jobs
      BY <1>4, NoJobType DEF Fence, JobType
    <3> QED BY <3>1 DEF JobSound, Jobs
  <2> DEFINE left == [job[s] EXCEPT !.todo = @ \ {c}]
  <2>2. left \in Jobs /\ left.step = "fence"
    BY <2>1 DEF Jobs
  <2>3. JobGoes(s, left) /\ UNCHANGED <<up, pod>>
    BY <1>4 DEF Fence
  <2> HIDE DEF left
  <2>4. JobType' /\ JobSound'
    BY <2>1, <2>2, <2>3, JobsType
  <2>5. RestOK'
    BY <1>4 DEF Fence, RestOK
  <2> QED BY <2>4, <2>5, TypeSplit
<1> QED BY <1>1, <1>2, <1>3, <1>4

LEMMA TypeTool ==
  ASSUME TypeOK, JobType,
         ToolNext \/ CallOff \/ Rebuild \/ Unfence
         \/ \E s \in Sites : PromoteChecks(s) \/ FenceSite(s)
  PROVE  TypeOK' /\ JobType'
<1>1. JobType'
  BY DEF ToolNext, PromoteKeys, PromoteDb, PromoteApp, PromoteEnds, CallOff, Rebuild, Unfence,
       PromoteChecks, FenceSite, SitesKeep, JobType
<1> RestOK /\ JobSound
  BY TypeSplit
<1>2. JobSound'
  BY DEF ToolNext, PromoteKeys, PromoteDb, PromoteApp, PromoteEnds, CallOff, Rebuild, Unfence,
       PromoteChecks, FenceSite, SitesKeep, JobSound
<1> SUFFICES RestOK'
  BY <1>1, <1>2, TypeSplit
<1>3. CASE ToolNext
  <2>1. CASE PromoteKeys
    BY <2>1 DEF PromoteKeys, ToolGoes, RestOK
  <2>3. CASE PromoteEnds
    BY <2>3 DEF PromoteEnds, SitesKeep, RestOK
  <2>4. CASE PromoteApp
    BY <2>4 DEF PromoteApp, ToolGoes, RestOK
  <2>2. CASE PromoteDb
    <3>1. claims' \in [Sites -> [Clusters -> Sites]]
      BY <2>2 DEF PromoteDb, RestOK
    <3> QED BY <2>2, <3>1 DEF PromoteDb, ToolGoes, RestOK
  <2> QED BY <1>3, <2>1, <2>2, <2>3, <2>4 DEF ToolNext
<1>4. CASE CallOff \/ Unfence
  BY <1>4 DEF CallOff, Unfence, SetLease, RestOK
<1>5. CASE Rebuild
  <2>1. lease \in Sites /\ Other(lease) \in Sites
    BY <1>5, SitesTwo DEF Rebuild, RestOK
  <2>2. /\ claims' \in [Sites -> [Clusters -> Sites]] /\ home' \in [Sites -> Sites]
        /\ fenced' \in [Sites -> SUBSET Clusters]
        /\ pg' \in [Sites -> [Clusters -> {"off", "primary", "replica"}]]
    BY <1>5, <2>1 DEF Rebuild, RestOK
  <2> QED BY <1>5, <2>2 DEF Rebuild, RestOK
<1>6. ASSUME NEW s \in Sites, PromoteChecks(s) \/ FenceSite(s) PROVE RestOK'
  BY <1>6 DEF PromoteChecks, FenceSite, SetLease, SitesKeep, RestOK
<1> QED BY <1>3, <1>4, <1>5, <1>6

LEMMA TypeNext == ASSUME TypeOK, JobType, [Next]_vars PROVE TypeOK' /\ JobType'
<1>1. CASE UNCHANGED vars
  BY <1>1 DEF vars, TypeOK, JobType
<1> QED BY <1>1, TypeSite, TypeFence, TypeTool DEF Next, SiteNext

-----------------------------------------------------------------------------
(* Why an attested site cannot write                                        *)

\* Only the site whose keys say so claims its clusters; one that is told to and
\* does not yet is being promoted, under the other site's lease.
ClaimsFollow ==
  \A s \in Sites, c \in Clusters :
    /\ claims[s][c] = s => home[s] = s
    /\ home[s] = s /\ claims[s][c] # s => lease = Other(s)

PrimariesClaim == \A s \in Sites, c \in Clusters : pg[s][c] = "primary" => claims[s][c] = s

\* A promotion goes on under the lease it checked.
ToolTarget == pc # "idle" => lease = Other(target)

\* A fenced site that follows the other one was rebuilt: the other leads all clusters.
Rebuilt ==
  \A s \in Sites : lease = s /\ home[s] = Other(s) =>
    \A c \in Clusters : claims[Other(s)][c] = Other(s)

LeaseFreeAgrees == lease = None => home[Wsl1] = home[Wsl2]

\* What the Job under way has looked at, it has left unable to write.
FencedSoFar ==
  \A s \in Sites : lease = s /\ job[s].step = "fence" =>
    \A c \in Clusters \ job[s].todo : claims[s][c] # s \/ c \in fenced[s]

Agreed == /\ ClaimsFollow /\ PrimariesClaim /\ ToolTarget /\ Rebuilt /\ LeaseFreeAgrees
          /\ FencedSoFar /\ AttestedCannotWrite

IInv == TypeOK /\ JobType /\ Agreed

LEMMA InvInit == Init => IInv
<1> SUFFICES ASSUME Init PROVE Agreed
  BY TypeInit DEF IInv
<1>1. PICK h \in Sites : Init!(h)
  BY DEF Init
<1> QED
  BY <1>1, SitesTwo, NoJobType DEF Agreed, ClaimsFollow, PrimariesClaim, ToolTarget, Rebuilt,
     LeaseFreeAgrees, FencedSoFar, AttestedCannotWrite

\* Steps that leave the lease, the keys and the claims alone, and no cluster less fenced.
LEMMA KeepsAgreed ==
  ASSUME IInv, UNCHANGED <<lease, home, claims>>, ToolTarget', PrimariesClaim', FencedSoFar',
         \A s \in Sites : fenced[s] \subseteq fenced'[s],
         \A s \in attested' \ attested : lease = s =>
            \A c \in Clusters : claims[s][c] # s \/ c \in fenced[s]
  PROVE  Agreed'
<1>1. ClaimsFollow' /\ Rebuilt' /\ LeaseFreeAgrees'
  BY DEF IInv, Agreed, ClaimsFollow, Rebuilt, LeaseFreeAgrees
<1>2. AttestedCannotWrite'
  BY DEF IInv, Agreed, AttestedCannotWrite
<1> QED BY <1>1, <1>2 DEF Agreed

LEMMA InvPower ==
  ASSUME IInv, NEW s \in Sites,
         \/ Die(s) \/ Return(s) \/ FluxApp(s) \/ PodCreate(s) \/ PodDelete(s) \/ GatePass(s)
         \/ \E c \in Clusters : PgStart(s, c) \/ PgPromote(s, c) \/ PgFenced(s, c)
  PROVE  Agreed'
<1> USE DEF IInv, Agreed
<1>1. /\ UNCHANGED <<lease, home, claims, fenced, attested, pc, target>>
      /\ \A t \in Sites : job'[t] = job[t] \/ job'[t] = NoJob
  BY NoJobType DEF Die, Return, FluxApp, PodCreate, PodDelete, GatePass, SetPod, SetPg, PgStart, PgPromote,
       PgFenced, JobType
<1>2. ToolTarget'
  BY <1>1 DEF ToolTarget
<1>3. FencedSoFar'
  BY <1>1, NoJobType DEF FencedSoFar
<1>4. PrimariesClaim'
  <2> DEFINE Follows == \A t \in Sites, d \in Clusters :
                          pg'[t][d] = "primary" => pg[t][d] = "primary" \/ claims[t][d] = t
  <2>1. CASE Die(s)
    <3>1. Follows
      BY <2>1 DEF Die, TypeOK
    <3> QED BY <1>1, <3>1 DEF PrimariesClaim
  <2>2. CASE UNCHANGED pg
    BY <1>1, <2>2 DEF PrimariesClaim
  <2>3. ASSUME NEW c \in Clusters, NEW r, NEW q, SetPg(s, c, q, r), r = "primary" => claims[s][c] = s
        PROVE  PrimariesClaim'
    <3>1. Follows
      BY <2>3 DEF SetPg, TypeOK
    <3> QED BY <1>1, <3>1 DEF PrimariesClaim
  <2>4. ASSUME NEW c \in Clusters, PgStart(s, c) \/ PgPromote(s, c) \/ PgFenced(s, c)
        PROVE  PrimariesClaim'
    BY <2>3, <2>4 DEF PgStart, PgPromote, PgFenced
  <2> QED BY <2>1, <2>2, <2>4 DEF Return, FluxApp, PodCreate, PodDelete, GatePass, SetPod
<1> QED BY <1>1, <1>2, <1>3, <1>4, KeepsAgreed

\* Under the lease that names s, Flux tells it what it already does, or to follow.
LEMMA InvFluxDb == ASSUME IInv, NEW s \in Sites, FluxDb(s) PROVE Agreed'
<1> USE DEF IInv, Agreed
<1>1. /\ \A t \in Sites \ {s} : claims'[t] = claims[t]
      /\ \A c \in Clusters : claims'[s][c] = home[s]
      /\ UNCHANGED <<lease, home, fenced, pg, job, attested, pc, target>>
  BY DEF FluxDb, TypeOK
<1>2. \A c \in Clusters : claims[s][c] = s => claims'[s][c] = s
  BY <1>1 DEF ClaimsFollow
<1>3. ASSUME lease = s, NEW c \in Clusters PROVE claims'[s][c] = s => claims[s][c] = s
  BY <1>1, <1>3, SitesTwo DEF ClaimsFollow
<1>4. ClaimsFollow' /\ PrimariesClaim' /\ ToolTarget' /\ LeaseFreeAgrees'
  BY <1>1, <1>2 DEF ClaimsFollow, PrimariesClaim, ToolTarget, LeaseFreeAgrees
<1>5. Rebuilt'
  BY <1>1, <1>2, SitesTwo DEF Rebuilt
<1>6. FencedSoFar' /\ AttestedCannotWrite'
  BY <1>1, <1>3 DEF FencedSoFar, AttestedCannotWrite
<1> QED BY <1>4, <1>5, <1>6

LEMMA InvFence ==
  ASSUME IInv, NEW s \in Sites,
         \/ JobClear(s) \/ JobFence(s) \/ JobAttest(s) \/ JobFails(s)
         \/ \E c \in Clusters : Fence(s, c)
  PROVE  Agreed'
<1> USE DEF IInv, Agreed
<1>1. UNCHANGED <<lease, home, claims, pg, pc, target>>
  BY DEF JobClear, JobFence, JobAttest, JobFails, Fence
<1>2. ToolTarget' /\ PrimariesClaim'
  BY <1>1 DEF ToolTarget, PrimariesClaim
<1>3. CASE JobClear(s)
  BY <1>1, <1>2, <1>3, KeepsAgreed DEF JobClear, FencedSoFar
<1>4. CASE JobFence(s)
  <2>1. /\ job'[s].todo = Clusters /\ \A t \in Sites \ {s} : job'[t] = job[t]
        /\ UNCHANGED <<fenced, attested>>
    BY <1>4 DEF JobFence, JobGoes, JobType
  <2> QED BY <1>1, <1>2, <2>1, KeepsAgreed DEF FencedSoFar
<1>5. CASE JobAttest(s) \/ JobFails(s)
  <2>1. /\ job'[s] = NoJob /\ \A t \in Sites \ {s} : job'[t] = job[t]
        /\ UNCHANGED fenced
    BY <1>5 DEF JobAttest, JobFails, JobGoes, JobType
  <2>2. FencedSoFar'
    BY <1>1, <2>1, NoJobType DEF FencedSoFar
  <2>3. \A t \in attested' \ attested : t = s /\ job[s].step = "fence" /\ job[s].todo = {}
    BY <1>5 DEF JobAttest, JobFails
  <2>4. \A t \in attested' \ attested : lease = t =>
          \A c \in Clusters : claims[t][c] # t \/ c \in fenced[t]
    BY <2>3 DEF FencedSoFar
  <2> QED BY <1>1, <1>2, <2>1, <2>2, <2>4, KeepsAgreed
<1>6. ASSUME NEW c \in Clusters, Fence(s, c) PROVE Agreed'
  <2>1. job[s] \in Jobs
    BY DEF JobType
  <2>2. /\ job'[s].step = job[s].step /\ job'[s].todo = job[s].todo \ {c}
        /\ \A t \in Sites \ {s} : job'[t] = job[t]
        /\ attested' = attested
    BY <1>6, <2>1 DEF Fence, JobGoes, JobType, Jobs
  <2>3. /\ \A t \in Sites : fenced[t] \subseteq fenced'[t]
        /\ claims[s][c] = s => c \in fenced'[s]
    BY <1>6 DEF Fence, TypeOK
  <2>4. FencedSoFar'
    BY <1>1, <2>2, <2>3 DEF FencedSoFar
  <2> QED BY <1>1, <1>2, <2>2, <2>3, <2>4, KeepsAgreed
<1> QED BY <1>3, <1>4, <1>5, <1>6

LEMMA InvTool == ASSUME IInv, ToolNext \/ \E s \in Sites : PromoteChecks(s) PROVE Agreed'
<1> USE DEF IInv, Agreed
<1>1. CASE PromoteEnds \/ PromoteApp \/ \E s \in Sites : PromoteChecks(s)
  <2>1. UNCHANGED <<lease, home, claims, fenced, pg, job, attested>>
    BY <1>1 DEF PromoteEnds, PromoteApp, PromoteChecks, SitesKeep
  <2>2. ToolTarget'
    BY <1>1, <2>1, SitesTwo DEF ToolTarget, PromoteEnds, PromoteApp, ToolGoes, PromoteChecks,
         CheckLease, LeaseNames
  <2> QED BY <2>1, <2>2, KeepsAgreed DEF PrimariesClaim, FencedSoFar
<1>2. CASE PromoteKeys
  <2>1. /\ lease = Other(target) /\ target \in Sites /\ lease \in Sites /\ lease # target
        /\ home'[target] = target /\ \A t \in Sites \ {target} : home'[t] = home[t]
        /\ UNCHANGED <<lease, claims, fenced, pg, job, attested, target>>
    BY <1>2, SitesTwo DEF PromoteKeys, ToolGoes, ToolTarget, TypeOK
  <2>2. ClaimsFollow' /\ ToolTarget' /\ LeaseFreeAgrees'
    BY <2>1, SitesTwo DEF ClaimsFollow, ToolTarget, LeaseFreeAgrees
  <2>3. Rebuilt'
    BY <2>1, SitesTwo DEF Rebuilt
  <2> QED BY <2>1, <2>2, <2>3 DEF PrimariesClaim, FencedSoFar, AttestedCannotWrite
<1>3. CASE PromoteDb
  <2>1. /\ lease = Other(target) /\ target \in Sites /\ lease \in Sites /\ lease # target
        /\ \A c \in Clusters : claims'[target][c] = home[target]
        /\ \A t \in Sites \ {target} : claims'[t] = claims[t]
        /\ UNCHANGED <<lease, home, fenced, pg, job, attested, target>>
    BY <1>3, SitesTwo DEF PromoteDb, ToolGoes, ToolTarget, TypeOK
  <2>2. \A c \in Clusters : claims[target][c] = target => claims'[target][c] = target
    BY <2>1 DEF ClaimsFollow
  <2>3. ClaimsFollow' /\ ToolTarget' /\ LeaseFreeAgrees' /\ PrimariesClaim'
    BY <2>1, <2>2, SitesTwo DEF ClaimsFollow, ToolTarget, LeaseFreeAgrees, PrimariesClaim
  <2>4. Rebuilt'
    BY <2>1, <2>2, SitesTwo DEF Rebuilt
  <2> QED BY <2>1, <2>3, <2>4 DEF FencedSoFar, AttestedCannotWrite
<1> QED BY <1>1, <1>2, <1>3 DEF ToolNext

LEMMA InvFenceSite == ASSUME IInv, NEW s \in Sites, FenceSite(s) PROVE Agreed'
<1> USE DEF IInv, Agreed
<1>1. /\ lease = None /\ lease' = s /\ home[s] = s /\ pc = "idle" /\ attested' = {}
      /\ \A t \in Sites : job[t] = NoJob
      /\ UNCHANGED <<home, claims, fenced, pg, job, pc, target>>
  BY DEF FenceSite, SetLease
<1>2. ClaimsFollow' /\ PrimariesClaim' /\ ToolTarget'
  BY <1>1, SitesTwo DEF ClaimsFollow, PrimariesClaim, ToolTarget
<1>3. Rebuilt' /\ LeaseFreeAgrees'
  BY <1>1, SitesTwo DEF Rebuilt, LeaseFreeAgrees
<1>4. FencedSoFar' /\ AttestedCannotWrite'
  BY <1>1, NoJobType DEF FencedSoFar, AttestedCannotWrite
<1> QED BY <1>2, <1>3, <1>4

\* A lease is lifted where the sites agree again.
LEMMA InvLift == ASSUME IInv, CallOff \/ Unfence PROVE Agreed'
<1> USE DEF IInv, Agreed
<1>1. PICK h \in Sites : h = lease
  BY DEF CallOff, Unfence, TypeOK
<1>2. /\ lease' = None /\ pc = "idle" /\ attested' = {} /\ \A t \in Sites : job[t] = NoJob
      /\ UNCHANGED <<home, claims, pg, job, pc, target>>
  BY DEF CallOff, Unfence, SetLease
<1>3. Other(h) \in Sites /\ Other(h) # h /\ (\A s \in Sites : s = h \/ s = Other(h)) /\ h # None
  BY SitesTwo
<1>4. home[h] \in Sites /\ home[Other(h)] \in Sites
  BY <1>3 DEF TypeOK
<1>5. home[h] = Other(h) => home[Other(h)] = Other(h)
      /\ \A c \in Clusters : claims[Other(h)][c] = Other(h)
  BY <1>1, <1>3, LeaseAssumption DEF Rebuilt, ClaimsFollow
<1>6. home[h] = home[Other(h)]
  BY <1>1, <1>3, <1>4, <1>5 DEF CallOff, Unfence
<1>7. \A s \in Sites, c \in Clusters : ~(home[s] = s /\ claims[s][c] # s)
  BY <1>1, <1>3, <1>4, <1>5, <1>6, SitesTwo DEF ClaimsFollow
<1>8. ClaimsFollow' /\ PrimariesClaim' /\ ToolTarget'
  BY <1>2, <1>7 DEF ClaimsFollow, PrimariesClaim, ToolTarget
<1>9. Rebuilt' /\ LeaseFreeAgrees'
  BY <1>2, <1>3, <1>6, SitesTwo DEF Rebuilt, LeaseFreeAgrees
<1>10. FencedSoFar' /\ AttestedCannotWrite'
  BY <1>2, NoJobType DEF FencedSoFar, AttestedCannotWrite
<1> QED BY <1>8, <1>9, <1>10

LEMMA InvRebuild == ASSUME IInv, Rebuild PROVE Agreed'
<1> USE DEF IInv, Agreed
<1>1. PICK h \in Sites : h = lease
  BY DEF Rebuild, TypeOK
<1>2. Other(h) \in Sites /\ Other(h) # h /\ (\A s \in Sites : s = h \/ s = Other(h)) /\ h # None
  BY SitesTwo
<1>3. /\ home'[h] = Other(h) /\ home'[Other(h)] = home[Other(h)]
      /\ claims'[Other(h)] = claims[Other(h)] /\ pg'[Other(h)] = pg[Other(h)]
      /\ fenced'[Other(h)] = fenced[Other(h)]
      /\ \A c \in Clusters : claims'[h][c] = Other(h) /\ pg'[h][c] = "replica"
      /\ UNCHANGED <<lease, job, attested, pc, target>>
  BY <1>1, <1>2 DEF Rebuild, TypeOK
<1>4. \A c \in Clusters : claims[Other(h)][c] = Other(h)
  BY <1>1, <1>2 DEF Rebuild, Primaries, PrimariesClaim
<1>5. ClaimsFollow' /\ PrimariesClaim' /\ ToolTarget'
  BY <1>1, <1>2, <1>3, <1>4 DEF ClaimsFollow, PrimariesClaim, ToolTarget
<1>6. Rebuilt' /\ LeaseFreeAgrees'
  BY <1>1, <1>2, <1>3, <1>4, SitesTwo DEF Rebuilt, LeaseFreeAgrees
<1>7. FencedSoFar' /\ AttestedCannotWrite'
  BY <1>1, <1>2, <1>3 DEF FencedSoFar, AttestedCannotWrite
<1> QED BY <1>5, <1>6, <1>7

LEMMA InvNext == ASSUME IInv, [Next]_vars PROVE IInv'
<1>1. TypeOK' /\ JobType'
  BY TypeNext DEF IInv
<1> SUFFICES Agreed'
  BY <1>1 DEF IInv
<1>2. CASE UNCHANGED vars
  BY <1>2 DEF vars, IInv, Agreed, ClaimsFollow, PrimariesClaim, ToolTarget, Rebuilt,
       LeaseFreeAgrees, FencedSoFar, AttestedCannotWrite
<1>3. ASSUME NEW s \in Sites, SiteNext(s) PROVE Agreed'
  BY <1>3, InvPower, InvFluxDb, InvFence, InvTool, InvFenceSite DEF SiteNext
<1> QED BY <1>2, <1>3, InvTool, InvLift, InvRebuild DEF Next

\* The model stays within its types, whatever the sites, the fence and the operator do.
THEOREM LeaseTypeCorrect == Spec => []TypeOK
<1>1. Init => TypeOK /\ JobType
  BY TypeInit
<1>2. TypeOK /\ JobType /\ [Next]_vars => (TypeOK /\ JobType)'
  BY TypeNext
<1> QED BY <1>1, <1>2, PTL DEF Spec

\* fence.py's attestation holds for as long as it counts, whichever of LeaseFaults
\* happen: a site that is attested under a lease that names it has no cluster that
\* both claims to be primary there and is not fenced.  Flux can't undo it, for a
\* claim under that lease is one the Job saw; only a promotion makes new ones, and
\* only at the other site.
THEOREM AttestedCannotWriteCorrect == Spec => []AttestedCannotWrite
<1>1. IInv => AttestedCannotWrite
  BY DEF IInv, Agreed
<1> QED BY <1>1, InvInit, InvNext, PTL DEF Spec

-----------------------------------------------------------------------------
(* One writer, through a promotion and the dead site's return               *)

\* The gate holds back every pod of a fenced site, and none ran when it was fenced:
\* it had no power.
FencedSiteOff == \A s \in Sites : lease = s => pod[s] # "running"

WInv == IInv /\ FencedSiteOff

\* A site that is fenced was without power, or is up only by "alive".
LEMMA OffNext ==
  ASSUME "alive" \notin Faults, WInv, [Next]_vars
  PROVE  FencedSiteOff'
<1> USE DEF WInv, FencedSiteOff
<1>1. CASE UNCHANGED vars
  BY <1>1 DEF vars
<1>2. ASSUME NEW s \in Sites, Die(s) \/ SetPod(s, "none", "gate") \/ GatePass(s)
                              \/ SetPod(s, "gate", "none") \/ SetPod(s, "running", "none")
      PROVE  FencedSiteOff'
  BY <1>2 DEF Die, SetPod, GatePass, LeaseNames, IInv, TypeOK
<1>3. ASSUME NEW s \in Sites, FenceSite(s) PROVE FencedSiteOff'
  <2>1. pod[s] = "none" /\ lease' = s /\ pod' = pod
    BY <1>3 DEF FenceSite, SetLease, IInv, TypeOK
  <2> QED BY <2>1
<1>4. CASE CallOff \/ Unfence
  <2>1. lease' = None
    BY <1>4 DEF CallOff, Unfence, SetLease
  <2> QED BY <2>1, SitesTwo
<1>5. CASE UNCHANGED <<lease, pod>>
  BY <1>5
<1>6. CASE ToolNext \/ Rebuild
  BY <1>5, <1>6 DEF ToolNext, PromoteKeys, PromoteDb, PromoteApp, PromoteEnds, SitesKeep, Rebuild
<1>7. ASSUME NEW s \in Sites, SiteNext(s) PROVE FencedSiteOff'
  BY <1>2, <1>3, <1>5, <1>7 DEF SiteNext, Return, FluxApp, FluxDb, PodCreate, PodDelete,
     SetPg, PgStart, PgPromote, PgFenced, Fence, JobClear, JobFence, JobAttest, JobFails,
     PromoteChecks, SitesKeep
<1> QED BY <1>1, <1>4, <1>6, <1>7 DEF Next

LEMMA OffInit == Init => FencedSiteOff
  BY SitesTwo DEF Init, FencedSiteOff

\* Either the lease names one of the sites, and nothing runs there; or the keys
\* agree, and only one site has primaries.
LEMMA OneWriterHolds == WInv => OneWriter
<1> SUFFICES ASSUME WInv, AppWrites(Wsl1), AppWrites(Wsl2) PROVE FALSE
  BY DEF OneWriter
<1>1. lease = None
  BY SitesTwo DEF WInv, FencedSiteOff, AppWrites, IInv, TypeOK, Sites
<1>2. \A s \in Sites : AppWrites(s) => home[s] = s
  BY DEF AppWrites, WInv, IInv, Agreed, PrimariesClaim, ClaimsFollow
<1>3. home[Wsl1] = Wsl1 /\ home[Wsl2] = Wsl2
  BY <1>2, SitesTwo
<1> QED BY <1>1, <1>3, LeaseAssumption DEF WInv, IInv, Agreed, LeaseFreeAgrees

\* "Fencing: one writer per app": where the operator fences only a site that is dead,
\* the app never writes at both, whatever fails and in whichever order the sites
\* return, Flux and the fence catch up, and the promotions go on or are given up.
THEOREM OneWriterCorrect == ASSUME "alive" \notin Faults PROVE Spec => []OneWriter
<1>1. Init => WInv
  BY InvInit, OffInit DEF WInv
<1>2. WInv /\ [Next]_vars => WInv'
  BY InvNext, OffNext DEF WInv
<1> QED BY <1>1, <1>2, OneWriterHolds, PTL DEF Spec

=============================================================================
