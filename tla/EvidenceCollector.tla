------------------------- MODULE EvidenceCollector -------------------------
(***************************************************************************)
(* The observability evidence collector (collector.py) of one site: every  *)
(* scrape makes a pass over the sections under one lock and one deadline,  *)
(* and a section that fails takes only its own rows away.  Modelled are    *)
(* workloads, services, which probes what workloads found, and, of         *)
(* recovery, the fence prerequisite of one warm app; flux, overrides,      *)
(* databases and backups read the API and keep nothing.                    *)
(*                                                                         *)
(* The fence prerequisite rests on the other site: its fence Job looks at  *)
(* the app every minute and writes when it did to a ConfigMap, its         *)
(* collector publishes that, its Prometheus keeps it, and this collector   *)
(* asks for it.  Each hop can fail or be late.  Time is in ticks.          *)
(***************************************************************************)
EXTENDS Naturals, FiniteSets

CONSTANTS
    Scrapes,      \* scrapes at the same time
    Apps,         \* the apps of the inventory that have a workload here and a probe
    Here, There, NoSite, \* lease values
    Window,       \* 300 s: how old an attestation may be
    MaxMoves,     \* bound: apps moved, leases changed
    MaxApiFaults, \* bound: requests that fail
    NoScrape, NoLease

ASSUME EvidenceAssumption ==
    /\ IsFiniteSet(Apps) /\ Here # There /\ NoSite \notin {Here, There}
    /\ NoLease \notin {Here, There, NoSite}
    /\ Window \in Nat /\ MaxMoves \in Nat /\ MaxApiFaults \in Nat
    /\ NoScrape \notin Scrapes

VARIABLES
    runs,          \* the apps with replicas here
    siteLease,     \* the app's TXT record: the site that must not write
    passLock, pass,  \* the scrape that collects; pass[s]: where it is
    desired,       \* Collector.desired: the apps found with replicas
    toRead,        \* the apps the workloads section has yet to read
    rows,          \* rows[s]: what its workloads section shows, and whether it succeeded
    probed,        \* probed[s]: the apps its services section probed
    fence,         \* fence[s]: its fence prerequisite
    checked, served,  \* age of the other site's attestation: in the ConfigMap, in Prometheus
    looked,        \* history: age of the fence Job's last look at the app
    moves, apiFaults

world == <<runs, siteLease, moves>>
attesting == <<checked, served, looked>>
passing == <<passLock, pass, desired, toRead, rows, probed, fence>>
evidenceVars == <<world, attesting, passing, apiFaults>>

Never == Window + 1
Leases == {Here, There, NoSite}
NoRows == [ok |-> FALSE, running |-> {}]

EvidenceTypeOK ==
    /\ runs \subseteq Apps /\ siteLease \in Leases
    /\ passLock \in Scrapes \cup {NoScrape}
    /\ pass \in [Scrapes -> {"idle", "workloads", "services", "recovery", "answered"}]
    /\ desired \subseteq Apps /\ toRead \subseteq Apps
    /\ rows \in [Scrapes -> [ok : BOOLEAN, running : SUBSET Apps]]
    /\ probed \in [Scrapes -> SUBSET Apps]
    /\ fence \in [Scrapes -> {"unknown", "met", "notMet"}]
    /\ {checked, served, looked} \subseteq 0 .. Never
    /\ moves \in 0 .. MaxMoves /\ apiFaults \in 0 .. MaxApiFaults

EvidenceInit ==
    /\ runs = {} /\ siteLease = NoSite /\ moves = 0
    /\ passLock = NoScrape /\ pass = [s \in Scrapes |-> "idle"]
    /\ desired = {} /\ toRead = {}
    /\ rows = [s \in Scrapes |-> NoRows] /\ probed = [s \in Scrapes |-> {}]
    /\ fence = [s \in Scrapes |-> "unknown"]
    /\ checked = Never /\ served = Never /\ looked = Never /\ apiFaults = 0

ApiFault == apiFaults < MaxApiFaults /\ apiFaults' = apiFaults + 1
At(s, where) == pass' = [pass EXCEPT ![s] = where]

-----------------------------------------------------------------------------
(* Around the collector                                                    *)

Move ==
    /\ moves < MaxMoves /\ moves' = moves + 1
    /\ \/ \E a \in Apps : runs' = (runs \ {a}) \cup ({a} \ runs)
          /\ UNCHANGED siteLease
       \/ siteLease' \in Leases \ {siteLease} /\ UNCHANGED runs
    /\ UNCHANGED <<attesting, passing, apiFaults>>

Older(age) == IF age = Never THEN Never ELSE age + 1
Minute ==
    /\ looked # Never \/ served # Never
    /\ checked' = Older(checked) /\ served' = Older(served) /\ looked' = Older(looked)
    /\ UNCHANGED <<world, passing, apiFaults>>

\* The other site's fence Job (fence.py): it has read the lease and seen to its
\* Clusters.  Writing the attestation may fail; not looking is not taking the step.
FenceJob ==
    /\ looked' = 0
    /\ \/ checked' = 0 /\ UNCHANGED apiFaults
       \/ ApiFault /\ UNCHANGED checked
    /\ UNCHANGED <<world, served, passing>>

\* Mutant: the time of the scrape for the time of the check.
PublishNow ==
    /\ checked # Never /\ served' = 0
    /\ UNCHANGED <<world, checked, looked, passing, apiFaults>>

\* Its collector publishes when the app was checked, and its Prometheus scrapes it.
Publish ==
    /\ checked # Never /\ served' = checked
    /\ UNCHANGED <<world, checked, looked, passing, apiFaults>>

-----------------------------------------------------------------------------
(* The pass                                                                *)

\* Mutant: scrapes are not kept apart.
CollectUnlocked(s) ==
    /\ pass[s] = "idle" /\ passLock' = s
    /\ desired' = {} /\ toRead' = Apps /\ At(s, "workloads")
    /\ rows' = [rows EXCEPT ![s] = NoRows] /\ probed' = [probed EXCEPT ![s] = {}]
    /\ fence' = [fence EXCEPT ![s] = "unknown"]
    /\ UNCHANGED <<world, attesting, apiFaults>>

\* collect, and workloads forgets what it knew.
Collect(s) ==
    /\ pass[s] = "idle" /\ passLock = NoScrape /\ passLock' = s
    /\ desired' = {} /\ toRead' = Apps /\ At(s, "workloads")
    /\ rows' = [rows EXCEPT ![s] = NoRows] /\ probed' = [probed EXCEPT ![s] = {}]
    /\ fence' = [fence EXCEPT ![s] = "unknown"]
    /\ UNCHANGED <<world, attesting, apiFaults>>

ReadWorkload(s) ==
    /\ pass[s] = "workloads"
    /\ \E a \in toRead :
         /\ toRead' = toRead \ {a}
         /\ desired' = IF a \in runs THEN desired \cup {a} ELSE desired
         /\ rows' = [rows EXCEPT ![s].running = IF a \in runs THEN @ \cup {a} ELSE @]
    /\ UNCHANGED <<world, attesting, passLock, pass, probed, fence, apiFaults>>

WorkloadsDone(s) ==
    /\ pass[s] = "workloads" /\ toRead = {}
    /\ rows' = [rows EXCEPT ![s].ok = TRUE] /\ At(s, "services")
    /\ UNCHANGED <<world, attesting, passLock, desired, toRead, probed, fence, apiFaults>>

\* The section's rows are dropped; what it put into desired stays.
WorkloadsFail(s) ==
    /\ pass[s] = "workloads" /\ toRead # {} /\ ApiFault
    /\ rows' = [rows EXCEPT ![s] = NoRows] /\ At(s, "services")
    /\ UNCHANGED <<world, attesting, passLock, desired, toRead, probed, fence>>

Services(s) ==
    /\ pass[s] = "services"
    /\ probed' = [probed EXCEPT ![s] = desired] /\ At(s, "recovery")
    /\ UNCHANGED <<world, attesting, passLock, desired, toRead, rows, fence, apiFaults>>

\* lease_txt: the first TXT string, or nothing for whatever goes wrong.
LeaseAnswers == {siteLease, NoLease}
\* peer_attestations: when the other site checked the app, or nothing.
PeerAnswers == {served, Never}

\* A lease that names this site; an attestation of the other site that is fresh;
\* otherwise there is no evidence.
FenceState(lease, attested) ==
    CASE lease = Here -> "notMet"
      [] lease \in {There, NoSite} /\ attested <= Window -> "met"
      [] OTHER -> "unknown"

\* The pass ends; its rows are Prometheus's.
Recovery(s) ==
    /\ pass[s] = "recovery"
    /\ \E lease \in LeaseAnswers, attested \in PeerAnswers :
         /\ fence' = [fence EXCEPT ![s] = FenceState(lease, attested)]
         /\ IF lease = siteLease /\ attested = served THEN UNCHANGED apiFaults ELSE ApiFault
    /\ At(s, "answered") /\ passLock' = NoScrape
    /\ UNCHANGED <<world, attesting, desired, toRead, rows, probed>>

\* The answer is read.
Answered(s) ==
    /\ pass[s] = "answered" /\ At(s, "idle")
    /\ rows' = [rows EXCEPT ![s] = NoRows] /\ probed' = [probed EXCEPT ![s] = {}]
    /\ fence' = [fence EXCEPT ![s] = "unknown"]
    /\ UNCHANGED <<world, attesting, passLock, desired, toRead, apiFaults>>

EvidenceNext ==
    \/ Move \/ Minute \/ FenceJob \/ Publish
    \/ \E s \in Scrapes :
         \/ Collect(s) \/ ReadWorkload(s) \/ WorkloadsDone(s) \/ WorkloadsFail(s)
         \/ Services(s) \/ Recovery(s) \/ Answered(s)

EvidenceSpec == EvidenceInit /\ [][EvidenceNext]_evidenceVars

-----------------------------------------------------------------------------
(* An answer agrees with itself: where it shows the workloads, it has probed exactly
   the apps they show running here, whatever other scrape ran and whatever moved in
   between ("Content probes, only for the apps this site runs", collector.py:225). *)
ProbesWhatItShows ==
    \A s \in Scrapes : pass[s] = "answered" /\ rows[s].ok => probed[s] = rows[s].running

(* "its fence prerequisite is met only by a fresh attestation from the other site's
   fence: that it read this app's lease within 5 minutes" (collector.py:245): as the
   pass ends, that Job has looked no longer ago than that, however late or lost the
   ConfigMap, the scrape or the query. *)
MetMeansLooked ==
    [][\A s \in Scrapes : pass[s] = "recovery" /\ fence'[s] = "met" => looked <= Window]_evidenceVars
=============================================================================
