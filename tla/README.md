# TLA+ for the homelab's programs

The repository runs one house's services on two Kubernetes sites
(`homelab-wsl`, `homelab-wsl-02`).  Most of it is configuration.  The programs
in it that can lose data are the ones that decide *where an app runs and which
site writes its data*: `bin/site-failover`, the database fence, the app gate and
the weekly standby restore.  They share no lock, the tool may die at any step,
and Flux, CloudNativePG (CNPG) and kopiur act between its steps.  They are
modelled and proved about first.  The other programs with a logic of
their own (jobs, long-running services, and the generators whose output is a firewall, a
DNS zone or what a dashboard may call healthy) have a module each.

- [Inventory](#inventory)
- [Modules and how they correspond to the code](#modules-and-how-they-correspond-to-the-code)
- [Runs](#runs), [bounds](#bounds), [fairness](#fairness)
- [What is proved](#what-is-proved), [what is only model-checked](#what-is-only-model-checked)
- [Where code and docs disagree](#where-code-and-docs-disagree)
- [What is not modelled](#what-is-not-modelled), [plan](#plan)

To run: `tlc -config FailoverWarm.cfg MCSiteFailover`, `tlapm SiteFailoverProofs.tla`;
the table of runs names the module of each cfg.  `PROJECT.json` maps every
definition to the lines it models and lists the hazards with the properties
that cover them.

## Inventory

### The two-site system

| component | state it keeps | operations | interacts with |
|---|---|---|---|
| `bin/site-failover` switchover, rollback, `clear` | none of its own between runs; it writes the `site-overrides` ConfigMap of each site | lease check, preflight, stop, prebind, copy each PVC, demote, read tokens, promote, start; on a failed copy roll back; `clear` | Flux (reconcile), kopiur (Snapshot, Restore), CNPG (status, psql), the operator |
| `bin/site-failover --promote` | same | lease check, preflight, PVC restore from the newest snapshots, overrides without a token, waits | the lease (a DNS TXT record), the new site only |
| `fence.py` (CronJob, each site, each minute) | `site-lease-fence-status` ConfigMap; the annotation `cnpg.io/fencedInstances` | read the lease, fence every cluster that claims primary, attest | the router's DNS, CNPG, the evidence collector that reads the attestation |
| app gate (initContainer) | none | wait while the lease names this site or can't be read | the router's DNS; the pod's start |
| `restore_drill.py` (CronJob, each site, Sundays) | none; the Restore objects it posts | GET Deployment, GET overrides, POST Restore, wait | the same Deployment, ConfigMap and PVCs as `site-failover` |
| Flux wiring | `cluster-settings` per site (git), `site-overrides` | substitute, override over cluster-settings, on an interval and on request | all of the above |

Hard here: two controllers and one dying script interleave at every step; a
partial move must neither run the app at two sites nor strand the only current
copy; a token read too early is a token of an earlier demotion; what the tool
reads (`status.replicas`, psql, another site's overrides, the TXT record) is stale
when it acts; a Restore outlives the process that waits for it; a dead site
returns with its old state at any moment of a promotion.

What makes it correct: one site runs the app; no cluster is primary at two
sites; some site always holds every acknowledged write, and what runs, runs on
such a copy; `clear` moves nothing; what the keys say comes about without the
tool; a fenced site can't write, an attestation is true, the fence takes hold.

### The other programs

None of these shares state with another, nor with the two-site system, except that
the evidence collector reads what the fence attests.

| component | state | interacts with | what is hard | what makes it correct |
|---|---|---|---|---|
| Immich album mirror (`sync.py`) | none: Immich's albums and a metadata entry per asset | the list in Home Assistant, Google's pages, Immich | a run may end after any call, the next starts from what it left; what may go after a partial read | what a listed album holds stays shown; other people's photos are untouched; the library converges |
| Coral detectors (`server.py`, `edgetpu.py`) | delegate, model, errors, gauges of each process | libedgetpu's list, USB, Frigate, the service manager | the list changes while another service flashes its Coral, or one comes back; a watchdog sees only inferences | the right Coral; no service is blind unseen |
| flow collector | templates, counters under a lock, the ASN table | exporters over UDP, Prometheus | three threads; lost, late, bad packets; templates of several exporters under one key; a table swapped under a lookup | an exporter with its own key is read with its own layout; expiry loses nothing; the receiver never stops |
| kitchen screensaver backend | photos, image cache, overlay, a lock each | Immich, Home Assistant, the displays | a thread per request; the album changes between pages; every request can fail | the caches agree with themselves and converge |
| evidence collector (`collector.py`) | `desired`, one lock | Kubernetes, the other site's Prometheus, the fence's ConfigMap | overlapping scrapes; evidence that passes four hops, each late or failing | an answer agrees with itself; "met" rests on a fresh look |
| rules and household facade (`rules.py`, `kiosk_proxy.py`) | the samples Prometheus keeps | the collector and exporters | old, missing, partly failed evidence | nothing is shown healthy that was not so |
| EdgeOS push (`edgeos-sync.py`) | the router's configuration, saved configuration, rollback file and job | the router, over the link it may cut | the tool, the link and the power fail at any step; a rerun meets an old job | a cut-off router comes back; what boots is reachable |
| RouterOS generator (`vyos-to-locals.py`) | what main's passes hand on | `firewall.tf`, which renders it | rulesets that join one pair, port splits, retirements that prune what others name | it forwards, answers, resolves and routes as before, less what is retired |
| monitoring volume (`observability-volume.py`, `Mount-TnwksObservability.ps1`) | `volume.json`, the VHDX, the mountpoint | WSL, the worker's pods | two runs; a stop between mkfs, mount and record; pods before the mount | nothing is formatted twice; the volume returns |
| LiteLLM key sidecar (`ensure_keys.py`) | none: LiteLLM's keys | LiteLLM, the keys Secret | failing calls, restarts, a restored database, an entry that is always refused | the keys come to be the file's |
| backup credential refresher, site routing, Windows host agents, repository tooling | – | – | short and sequential, or reconcilers of state outside the repository | idempotence |
| dashboards, inventory, rehearsals, Home Assistant cards, Terraform, Ansible, manifests, CI | – | – | data and configuration | – |

`PROJECT.json` has every one of them under `components`, with its files, and under `hazards`
those that a property is about, each at its line; those that none reaches are under
"Hazards that no property covers" below.

## Modules and how they correspond to the code

| module | models | extends |
|---|---|---|
| `SingleWriter` | the abstract promise for an app's stores: one writer at a time, writing starts on a complete copy, the last complete copy is never spoiled | – |
| `SiteFailover` | `cmd_switchover`, its rollback and `cmd_clear`, with Flux, the pods, CNPG and kopiur | – |
| `MCSiteFailover` | the symmetry for TLC, and the doc claim put to the test | `SiteFailoverDataProofs` |
| `SiteFailoverProofs` | its placement: types, one runner, one primary, `clear` | `SiteFailover` |
| `SiteFailoverDataProofs` | its data: RPO 0, and the refinement | `SiteFailoverProofs` |
| `StandbyRestore` | `restore_drill.py` at both sites, composed with the switchover | `SiteFailover` |
| `SiteLease` | the lease, the gate, `fence.py`, `promote()`, sites that lose power and return | – |
| `ImmichSync` | a run of `sync.py` call by call, Immich, Google and the list around it | – |
| `CoralDetector` | the detector processes, libedgetpu's list, USB, Frigate's handshake | – |
| `FlowCollector` | the receiving thread, the counters, the HTTP threads | – |
| `AsnTable` | the asn thread and the lookups | – |
| `KitchenPhotos`, `KitchenInfo` | `/api/photos` with `/img`, and `/api/info` | – |
| `EvidenceCollector` | the passes of overlapping scrapes, and the way of an attestation | – |
| `EvidenceRules` | the recording rules, the recovery prerequisites, the household facade | – |
| `EdgeosSync` | `apply`, the router's rollback job and its power | – |
| `ZonePolicies` | rulesets to zone-pair policies, input rules and the rendered chain | – |
| `RouterRecords` | the other passes of the generator | – |
| `MonitoringVolume` | two runs of the Windows script with its WSL helper | – |
| `LitellmKeys` | the sidecar's loop | – |
| `MCServices`, `MCJobs` | the modules that share nothing, side by side | the modules they name |
| `StandbyRestoreProofs`, `SiteLeaseProofs` | theorems about the module they are named for | that module |
| `RouterProofs` | theorems about what configures the routers | `EdgeosSync`, `ZonePolicies`, `RouterRecords` |
| `RulesProofs` | theorems about what the facade shows | `EvidenceRules` |
| `JobsProofs` | theorems about the mirror and the volume, and the types of all the jobs | `MCJobs`, `RouterProofs`, `RulesProofs` |
| `ServicesProofs` | theorems about the six services, and the types of all of them | `MCServices` |

`MCServices` and `MCJobs` are sums: `active` is chosen in the initial state, the component
it names runs and the others stay as they start.  What a component can do and what
is checked of it are the same as in a run of its own; a liveness property
is `active = "..." /\ fairness => property`.

Definitions whose comment begins with `Mutant:` are plausible bugs of the
definition that follows them. They are used by no specification; substituted for
it they make the named property fail, which shows that the property depends on
that line of the code.

### SiteFailover

One app, one process of the tool, both directions.  `pc` is where the tool is;
each label is a point between two calls it makes, and every environment action
may happen there.

| variable | in the system |
|---|---|
| `gitHome`, `settings` | the site that `cluster-settings` name on the main branch, and in what each site's Flux has applied |
| `ov` | the app's keys in each site's `site-overrides`: `<P>_REPLICAS`, `<P>_PG_PRIMARY`, `<P>_PG_TOKEN*` |
| `desired`, `pod` | the Deployments' `spec.replicas` as applied, and what the workloads do (`lingering`: terminating) |
| `dbspec`, `role`, `tokenOut` | `spec.replica` of each Cluster as applied, what the cluster is, whether its status shows a `demotionToken` |
| `holds` | per store, which copies have every acknowledged write; `InTransit` is the Snapshot on its way, or the archive up to the token's LSN |
| `orphans` | Restores that go on without a tool waiting for them |
| `strays`, `spoilt` | auxiliary: the sites whose app was taken for stopped on a failed read and hasn't ended since, and the PVCs such an app has written |
| `pc`, `src`, `left`, `cur`, `fixForward` | the tool's place, `old`, the loop's rest, the PVC in hand, `--no-rollback` |

`holds` makes the model finite without counters: a write makes the writing copy
the only complete one, a restore makes the target as complete as its snapshot, a
replay as complete as the archive.  How many writes there were doesn't matter to any
property.  The number of switchovers, crashes, pull requests and writes is not
bounded.

A failing call goes where the code sends it: `RuntimeError` in the try block to the
rollback (`CopyFails`), or out with `--no-rollback`; a timeout outside it, out
(`TimesOut`); `Site.run`'s `die()` is `SystemExit`, which no handler catches
(`KubectlFails`).  Waits may be left by timing out at any time.

A failing *read* is another matter.  `Site.get(check=False)` (`:102-108`) answers `None` for any kubectl or ssh
call that fails, and `deployments_stopped` (`:252-258`) passes over a workload it can't read: a failed read
counts as stopped, and ends the wait before the copy (`:505`) or after the prebind (`:400`) while the app runs.
`DeploymentsStopped` says so, with the fault `unread`.  What that may cost is in the properties, not left out of
the model: the site becomes one of `strays` until its workloads have ended, a PVC written there
meanwhile is `spoilt`, and everything else is promised all the same.  `strays` and `spoilt` are read by no action.
An `overrides()` whose read fails is `{}`, and `clear` passes over the site (`:657`); `set_overrides` that reads nothing
back after its apply deletes the ConfigMap it just wrote (`:141-143`, the fault `wiped`).

`OperatorStarts` is what the operator sees to and the code doesn't check.  Each
of its parts is dropped by a member of `Faults`:

| fault | meaning | in the passing runs |
|---|---|---|
| `crash` | the tool dies between two steps | yes |
| `kubectl` | a kubectl call of the copy fails | yes |
| `wrongWay` | a switchover is started from a site that doesn't have the app (a finished one again, a failed one backwards) | yes, for apps with a database |
| `prebind` | a wait of the prebind times out | no: `prebind_rollback` |
| `unread` | a `kubectl get` fails: a workload is taken for stopped, a site has nothing to clear | yes, in the switchover's two |
| `lateRestore` | a Restore given up on outlives the operator's patience | no (breaks RPO 0); in the placement theorems |
| `earlyClear` | `clear` before the last promotion is finished | no (breaks RPO 0); in the placement theorems |
| `settingsLag` | `cluster-settings` of an older commit are still applied | no |
| `reconcile`, `psql`, `linger` | a reconcile that doesn't finish, an unreadable psql, a pod or Job that still writes at `status.replicas` 0 | no |
| `wiped` | a failed read makes `set_overrides` delete what it just wrote: the keys of a stop, or of a promotion with its tokens | no |

`settingsLag` and the last four are hazards of the code that break properties when admitted
("Hazards that no property covers").  Their passing runs would have to leave out what makes them
interesting, so they stay out rather than be made to pass.

### StandbyRestore

The drill's three calls are three actions with the tool and Flux in between.  The
Restore it posts is an element of `orphans`: kopiur works on it and it mirrors
its snapshot when it ends, whoever waits.  `Quiet` keeps the drill and the tool apart
(neither starts before the other is over and Flux has applied its result), which
is what Sunday 05:15 amounts to; `Quiet = FALSE` lets them meet.

### SiteLease

Both sites play both parts.  `home[s]` is what site `s`'s Flux is told (override over
settings), kept in its etcd over a power loss; `want` and `claims` are what it
has applied.  `Die` drops running state only, which is what makes the
return dangerous.  The Job of `fence.py` takes one step per cluster, so a
failed request or a power cut comes between two of them, and the attestation
is its last step.  `attested` lasts as long as the lease: `SetLease` empties it
because an entry made under the old lease is older than the 300 s for which the
collector counts it, by the time a pull request has reached the router.  For the same
reason no Job that read the old lease is still at work
(`activeDeadlineSeconds: 50`).

`FenceSite`, `CallOff`, `Rebuild` and `Unfence` are the operator following
multi-site.md: the lease is set for a dead site, taken back if it returned
before anything moved, and set to `none` only after the rebuild.  The fault
`alive` lifts the one condition the tool can't check, that the site is dead.

### ImmichSync

`at` walks through `run()`; `toRead`, `todo`, `want`, `wanted` are what a run holds,
`listed`, `google`, `library`, `recorded`, `made`, `holds`, `handmade` are the
world.  An asset stands for bytes: two items with the same bytes are one asset, as
Immich's checksum check makes them.  Every call that changes Immich is an action;
`Abort` may come between any two (an exception, the Job's deadline, the pod
killed), `ReadFails` for an album, `Skip` for a photo that fails or is left to the next run.
`known`, `handmadeBefore` are history: what a run found, what was in somebody's
own album as it began.

### CoralDetector

`at[s]` is where a process is, from the service manager's start to its exit; the gauges are
set where the code sets them.  `Visible` is libedgetpu's list: a Coral that is being
flashed isn't in it, and `usb:<n>` is the n-th of what is left.  A load and an inference can hang;
the watchdog ends the process only in an inference.  `client` is Frigate's side
of the handshake.  A Coral may be pulled and come back at any moment, between the two looks of `open` at the list
too (`edgetpu.py:91-104`).  With two Corals that is enough for the list to change and change back: service 1 lists
both, its Coral 1 drops out, `usb:0` opens Coral 2 and flashes it, both are back before the second look.
`disturbed` (auxiliary) holds the services whose own Coral came back while a service was between its looks,
until they list the Corals again with no other service between its two looks; of those `RightCoral` says nothing.

### FlowCollector and AsnTable

`net` is a set: packets arrive in any order, are lost, and are read again while they stay.
`templates` is keyed as in the code, by version, observation domain and template id (`Domain` stands for the
first two): the sender's address is dropped on receipt (`flow_collector.py:528`), so that two exporters with one key
overwrite each other's template (`:343`).  `layout` is what an exporter uses now; `Redefine` changes it
behind the same id.  A data set carries the layout it was written with: read with that one it
gives its records, with another a member of `Garbled`, with none it is dropped.  `series` follows one series (series
don't interact),
as absent, counted and not scraped, or scraped.  In `AsnTable` a lookup takes the
three arrays in three steps, without the lock, exactly where the code reads the
dict; `torn` counts the lookups that went wrong since the last swap.

### KitchenPhotos and KitchenInfo

A thread per request, the locks as in the code.  A load reads the album page by
page while `gallery` changes, then the faces, then sets the list and the ids, in
two steps, because `known()` takes no lock.  `GetPart` is one of the requests `_build` makes;
`PartFails` is what `guard` catches, `BuildDies` what it doesn't.

### EvidenceCollector and EvidenceRules

`pass[s]` is where scrape `s` is; `desired` is the attribute two passes share.  The
attestation goes `FenceJob` → `Publish` → `PeerAnswers` → `FenceState`, each with its own
age; `looked` is history.  In `EvidenceRules` a behaviour is about one `family`
of rules; `site` is what a scrape would find, `samples` what Prometheus
returns; a rule is an operator of the samples because it may be evaluated at any time.
`last[f]` remembers how long ago a fact was so.  `PrerequisiteState` is the
collector's decision, from the clusters, backups, drills and the fence.

### EdgeosSync

`running`, `saved`, `rollback`, `atq`, `confirmJob` are the router's; each line of the two
sessions that changes one is an action.  `ApplyDies` drops the tool at any
point; a configuration in `Cut` can't be reached.  CI's concurrency group keeps
one process of the tool at a time.

### ZonePolicies and RouterRecords

`ZonePolicies` takes the rulesets in any order and chooses each as it comes, so that
the run covers every combination the bounds allow; `Translated` is one ruleset's
way through `build_zone_policies`, `Chain` is what `firewall.tf` makes of the result.
`Meant` says what VyOS forwarded, from the rulesets.  `RouterRecords` chooses up to
`MaxLines` lines of the old configuration and takes them through `main`'s passes
in the order of the code.  Assumed, and true of the configuration it
is used on: rules name groups, a pair has one ruleset and a ruleset one
pair, the rules of the containers' rulesets accept and those with the containers as
source name no other; keys are injective, rule numbers have three digits,
a NAT rule's source and destination are exemptions, a wildcard and its
apex have one address.

### MonitoringVolume and LitellmKeys

`at[r]` for the scheduled task (without `-Initialize`) and an operator's run (with it);
any command may fail, WSL may restart under both, pods with a claim write as soon as the
node is up, into the volume or into the bare mountpoint.  In `LitellmKeys` the
first entry of the file is one LiteLLM always refuses.

## Runs

| run | module, cfg | question | result |
|---|---|---|---|
| `failover_warm` | MCSiteFailover, FailoverWarm | a warm app with a cluster and a PVC, moved back and forth without end, crashes, kubectl failures, failed reads, wrong-way starts: one runner, one primary, RPO 0, current data, `clear` harmless, refinement of SingleWriter | holds; 633,298 states |
| `failover_cold` | MCSiteFailover, FailoverCold | an app without database, two PVCs, prebind, failed reads: it runs on current data | holds; 262,206 states |
| `drill_quiet` | StandbyRestore, DrillQuiet | drill and failing, crashing moves, kept apart: never a Restore under a running app; a placement once named comes about | holds; 82,169 states |
| `lease_fence` | SiteLease, LeaseFence | unplanned failovers in both directions, two clusters, power lost and back at any step, failing requests: one writer, true attestations | holds; 123,868 states |
| `lease_live` | SiteLease, LeaseLive | the fence takes hold; a promotion whose keys are written comes about | holds; 14,540 states |
| `jobs` | MCJobs, Jobs | seven jobs and generators: the properties listed under them below | holds; 391,153 states |
| `services` | MCServices, Services | six services: likewise | holds; 412,761 states |
| `failback_rollback` | MCSiteFailover, FailbackRollback | the rollback starts the app on the old site | violated |
| `prebind_rollback` | MCSiteFailover, PrebindRollback | a failed prebind leaves one runner | violated |
| `drill_during_switchover` | StandbyRestore, DrillDuringSwitchover | the drill skips an app that is being moved | violated |
| `drill_after_rollback` | StandbyRestore, DrillAfterRollback | the drill keeps the standby current (and nothing else) | violated |
| `lease_alive` | SiteLease, LeaseAlive | the fence is in place before the promotion | violated |

### Properties

Two-site system:

- `OneRunner`: workloads live at both sites only where a failed read took one for stopped, and that one has been
  told to stop. Breaking it takes the tool's stop, Flux's interval and a pod's termination.
- `OnePrimary`: demotion is seen (the token) before the other side's promotion is written.
- `NoLostWrite`: some site has every acknowledged write of each store; a restore over
  the only complete copy, or a write on an incomplete one, breaks it. A PVC that an app taken for stopped has written
  (`spoilt`) is not promised; a database always is, since its demotion is seen by its token and not by that read.
- `RunsOnCurrentData`: what can write has all the writes, the same app and PVCs apart.
- `ClearKeepsPlacement`: no step inside `clear`, the environment's included, changes what
  either Flux is told.
- `ImplementsSingleWriter`: the above as one refinement: what writes a PVC (the
  workloads, except during a prebind, whose writes are thrown away) and a database
  (its primary) maps to `writer`, the complete copies at the sites to `current`; what an app
  taken for stopped writes to `intruded`, which only a `Fragile` store (a PVC, where reads may fail) can be.
- `PlacementTakesEffect`: once the keys name one site and keep doing so, the
  app gets there, though the tool may be dead.
- `DrillSparesRunningApp`: no drill's Restore at work under running workloads.
- `OneWriter`: never a running app on a primary at both sites.
- `AttestedCannotWrite`: an attestation that counts covers every cluster of the app.
- `FenceTakesHold`, `PromotionTakesEffect`: liveness of the fence and of a promotion.

`jobs`:

- `MirrorKeepsListed`: a photo that a listed album still holds leaves neither the combined
  album nor the library: not by a failed read, a failed download, the time
  budget, or a run that stopped in the middle. `OthersUntouched`: nothing of
  anybody else's is trashed. `ImmichConverges`: once all is quiet the library is the list.
- `RouterComesBack`, `BootsReachable`: a router that is cut off comes back by itself, and
  nothing that would cut it off is ever saved or kept to roll back to.
- `ForwardsAlike`: the rendered chain forwards a packet exactly if VyOS did, between
  the zones that are left. `AnswersInside`: DNS is answered where it was, and never on the WAN.
  `KeepsWhatIsLeft`: nothing written depends on what is retired, no other name, redirect
  or route is lost.
- `ShownWasSo`: whatever is shown healthy, ready to take over, backed up, routed or on standby
  was so within the freshness the rule asks for.
- `VolumeKeepsData`, `VolumeReturns`: what pods wrote is never formatted away; an initialized
  volume comes back, whether pods or the mount come first.
- `KeysReturn`: every acceptable key comes to be what the file says.

`services`:

- `RightCoral`: a service works on the Coral it is configured for, one whose own came back while services opened
  theirs apart. `CoralNeverBlind`: each infers for ever, or ends with its ready gauge at 0 for the alert: without
  a model, in a load that hangs, or opening a Coral that another service holds by mistake.
- `FlowLayoutsSettle`, `ExpiryLosesNothing`, `FlowKeepsCounting`: an exporter with a key of its own comes to be read
  with its own layout for good, whatever was stale, lost, duplicated, redefined or forgotten and whoever collides beside it;
  no bytes are dropped before a scrape has seen them, nothing stops the receiver.
  `SwapTearsOneLookup`: a swap of the table costs at most one lookup; `AsnTableReturns`: a
  table comes back after any failed download.
- `CacheCounts`, `ListedIsKnown`, `PhotosConverge`, `OverlayRecovers`: the image cache counts
  what it holds; a listed photo is never a 404; photos and overlay recover
  from every failure.
- `ProbesWhatItShows`, `MetMeansLooked`: an answer probes what it shows; "met" means the
  other site's fence looked within its 5 minutes.

`JobsTypeOK` and `ServicesTypeOK` are the type invariants of the sums; they also say which
variables are set where.

`CHECK_DEADLOCK FALSE` in the failover and drill cfgs: an app at rest with no database
and nothing overridden may really stop.  The others check deadlock.

### Bounds

Two-site system: the only bounds are the constants.  Two sites is what there is.  Two clusters
are the most any app has (firefly's), and the least with which one can be demoted,
promoted or fenced while the other is not; two PVCs are the least with which a copy
can fail half way.  `lease_fence` has the two clusters and `failover_cold` the two PVCs.  `failover_warm` has one
of each: with failed reads more takes too long to be kept as a run.  Without them a warm app with two clusters
and two PVCs was checked once (2,282,042 states, no error), and the theorems are about any number.
`lease_live` has one cluster, because liveness over
two takes too long; the clusters don't interact, and the safety runs have two.
The permutations of clusters and PVCs are a symmetry: nothing names one of them.
No liveness property is checked under symmetry.

The others bound how often their environment fails or changes, each with a constant named
`Max...`; nothing bounds what the program itself does.

| module | instance | why enough |
|---|---|---|
| `ImmichSync` | 2 albums that share bytes, 3 items, 2 assets, one of them by hand too; 3 changes, 2 faults | the shortest harm needs a run that stops, a change, and the run after it |
| `EdgeosSync` | 3 configurations, one of them cuts off; 3 applies, 1 power cut | an apply, its rerun, and one after the old job |
| `ZonePolicies` | 4 VLANs, 7 bindable pairs, 2 rulesets of 1 rule, port lists of 1, 2 and 4 with 2 to a rule | every pair the code treats in its own way, and the two rulesets that meet in one policy |
| `RouterRecords` | 3 lines of a configuration with one VLAN kept and one retired, each kind of line | three suffice for a record, what it points to, and what retires it |
| `EvidenceRules` | 2 workloads, clusters, nodes and sites; every state of the site to start with, 1 change; fresh for 1 minute, kept for 2 | two parts for "all of"; one change between two scrapes is what makes a sample old |
| `MonitoringVolume` | 2 runs, 3 faults | a fault in each run and one after |
| `LitellmKeys` | 3 entries, 2 faults, 1 edit | a refused entry before, and one after, the one that matters |
| `CoralDetector` | 2 services, 2 Corals, 2 errors in a row, 2 mishaps | one Coral is flashed, or pulled and back, while another is resolved; two are enough for the list to change and change back |
| `FlowCollector` | 3 exporters with one template id: one on its own with two layouts, two that share its key and not its layout; an sFlow and a v5 packet, 1 fault, 1 packet on its way besides those of the first (2 faults, and data of all three, were checked once: 214,592 states) | a template lost, stale or redefined, beside others that collide, and every format |
| `AsnTable` | 3 dumps, 2 addresses to a packet, 2 faults | a swap between two different tables, and a cut-off file |
| `KitchenPhotos` | 2 photos on 2 pages, 2 threads, a cache for 2, 1 edit, 1 outage; every album to start with was checked once (1.2 million states) | an item can move across the page in hand |
| `KitchenInfo` | 2 displays, 2 days, 1 fault | a failure, and the day's end, while another display waits |
| `EvidenceCollector` | 2 scrapes, 2 apps, 1 move, 1 API fault, a window of 1 tick | two scrapes are all that overlap under one lock |

### Fairness

`EnvFairness` is weak fairness of Flux's interval, of pods starting and ending,
and of CNPG following its spec and replaying the archive: controllers that retry
for ever (an app's Kustomization waits for its database's, `dependsOn`; a Cluster is Ready
as a replica too, so it doesn't wait for ever).  Nothing is assumed of the tool or of the operator, so the liveness
properties hold for a tool that has died.

`SiteFairness` adds weak fairness of a CronJob's schedule (`JobFence`), and strong
fairness of one cluster's PATCH and of the attestation: a Job that fails is
run again next minute, and not every one fails.  Power is not assumed: the
properties let go when the site is down.

Of the others:

- `SyncFair`, `KeysFair`: the CronJob's and the loop's next step; LiteLLM comes up again.
- `EdgeosFair`: the router's `atd` runs the job it has; nothing of the tool, the link or anybody.
- `VolumeFair`: the scheduled task's steps only; an operator's run may stop anywhere.
- `CoralFair`: a process runs, the service manager restarts it, its address check comes round, a Coral that was
  pulled and an address that went come back, Frigate restarts now and then.  Nothing is
  assumed of a load that hangs.
- `FlowFair`: the receiving thread runs, and exporters with a key of their own send their template and their flows;
  `Delivers` adds that what they send again and again is received again and again.  Nothing is assumed of the
  exporters that share a key.
- `AsnFair`, `GalleryFair`, `InfoFair`: the threads run and time passes; `DisplaysAsk` adds that displays go on asking.

## What is proved

By TLAPS, in eight modules, for every value of the constants that their named assumptions
allow: any set of clusters, PVCs, albums, photos, exporters, tables, threads and scrapes, and any
bound on how often something fails or changes.

| theorem | statement | assumes |
|---|---|---|
| `SiteFailoverProofs` | | |
| `TypeCorrect` | `Spec => []TypeOK` | every fault admitted |
| `OneRunnerCorrect` | `Spec => []OneRunner` | `Planned` |
| `OnePrimaryCorrect` | `Spec => []OnePrimary` | `Planned` |
| `ClearKeepsPlacementCorrect` | `Spec => ClearKeepsPlacement` | `Planned` |
| `StraysReadCorrect` | without `unread` nothing is ever in `strays` or `spoilt`, so the properties hold without exception | every other fault admitted |
| `SiteFailoverDataProofs` | | |
| `NoLostWriteCorrect` | `Spec => []NoLostWrite` | `Careful` |
| `RunsOnCurrentDataCorrect` | `Spec => []RunsOnCurrentData` | `Careful` |
| `ImplementsSingleWriterCorrect` | `Spec => ImplementsSingleWriter`, the refinement | `Careful` |
| `StandbyRestoreProofs` | | |
| `DrillKeepsPlacementCorrect` | `DrilledSpec => [](OneRunner /\ OnePrimary)` | `Planned`; quiet or not |
| `DrillSparesRunningAppCorrect` | `DrilledSpec => []DrillSparesRunningApp` | `Calm` |
| `SiteLeaseProofs` | | |
| `LeaseTypeCorrect` | `Spec => []TypeOK` | every fault admitted |
| `AttestedCannotWriteCorrect` | `Spec => []AttestedCannotWrite` | every fault admitted |
| `OneWriterCorrect` | `Spec => []OneWriter` | the fault `alive` isn't admitted |
| `JobsProofs` | | |
| `MirrorKeepsListedCorrect` | `SyncSpec => MirrorKeepsListed` | – |
| `OthersUntouchedCorrect` | `SyncSpec => OthersUntouched` | – |
| `VolumeKeepsDataCorrect` | `VolumeSpec => VolumeKeepsData` | – |
| `JobsTypeCorrect` | `JobsSpec => []JobsTypeOK` | – |
| `RouterProofs` | | |
| `BootsReachableCorrect` | `EdgeosSpec => []BootsReachable` | – |
| `CutOffIsRolledBack` | cut off, the router has a rollback queued that can be reached | – |
| `ForwardsAlikeCorrect` | `ZonesSpec => []ForwardsAlike` | `TablesAssumption`, `VyosAssumption` |
| `AnswersInsideCorrect` | `ZonesSpec => []AnswersInside` | the same |
| `RecordsTypeCorrect` | `RecordsSpec => []RecordsTypeOK` | – |
| `KeepsWhatIsLeftCorrect` | `RecordsSpec => []KeepsWhatIsLeft` | – |
| `RulesProofs` | | |
| `ShownWasSoCorrect` | `RulesSpec => []ShownWasSo` | – |
| `ServicesProofs` | | |
| `RightCoralCorrect` | `CoralSpec => []RightCoral`, which leaves out the services in `disturbed` | `OwnCorals` |
| `ProbesWhatItShowsCorrect`, `MetMeansLookedCorrect` | `EvidenceSpec => ...` | – |
| `ExpiryLosesNothingCorrect` | `FlowSpec => ExpiryLosesNothing` | – |
| `SwapTearsOneLookupCorrect` | `AsnSpec => []SwapTearsOneLookup` | – |
| `ListedIsKnownCorrect`, `CacheCountsCorrect` | `GallerySpec => ...` | – |
| `ServicesTypeCorrect` | `ServicesSpec => []ServicesTypeOK` | – |

The hypotheses, and why the properties need them:

- `Planned`: the faults are among `crash`, `kubectl`, `wrongWay`, `earlyClear`, `lateRestore`, `unread`;
  `wrongWay` only if the app has a cluster, `Prebind` only if it has none.  Preflight's look at the
  clusters is what keeps a switchover from starting at the wrong site; without a database
  that is the operator's part: the old site runs the app, or it runs the move again that failed.  None
  of the three prebound apps of `site-failover-apps.json` has a database.
- `Careful`: `Planned` without `earlyClear` and `lateRestore`, which break RPO 0, and for a prebound app
  without `crash` and `kubectl` (`PrebindEnds`): dying in the prebind the tool leaves the app
  running at the new site on its old copy.  `Faults` doesn't tell where the tool dies, so the hypothesis
  takes its death from such a switchover altogether; its copy may still fail and be rolled back.
- `Calm`: `Planned`, `Quiet`, without `lateRestore`: a Restore somebody gave up on may outlive the
  drill's hour, quiet or not; and without `unread`, with which the app may go on running where the drill restores.  It
  admits `earlyClear`, which the run does not.  The app isn't prebound: none of
  the drill's list (`standby-restore/app/cronjob.yaml`) is.
- `TablesAssumption`, `VyosAssumption` (constants of `ZonePolicies`, evaluated in `jobs`): the zones the
  tables name are left, retired groups are named by no table, a rule for ports is for a protocol that
  has ports, no service of the router is on DNS's ports, and the rules of a container's ruleset name
  that container or nobody ("VyOS only ever allowed the container itself").
- The assumptions of the other modules (constants of a type, bounds that are numbers) say what their configuration
  files hold: two sites (`RulesAssumption`), a key file that names each entry once (`KeysAssumption`), sources of
  the overlay that aren't called like its two fixed requests (`KitchenInfoAssumption`).
- `OwnCorals`: every service is configured with a Coral of its own, and there are two at
  most, as in the house.  That is not all: also with two the list can change and change back between the
  two looks, when a service's own Coral comes back then, and it keeps the other's.  Nothing in the code or USB
  prevents that, so it is neither assumed away nor claimed: such a service is in `disturbed`, and the theorem
  says that there is no other way to the wrong Coral.  With three Corals there is.

### The inductive invariants

None of the properties is inductive.  TLC checked each of these invariants, on the instance of the
run named (or that component of it alone), before its proof.

| invariant | run, states | why the property holds |
|---|---|---|
| `SiteFailoverProofs!IInv` | `failover_warm` with all six faults, 7,779,976; without a cluster, 367,560; prebound, 893,880 | *may*: see below |
| `DInv` | `failover_warm`, 633,298; without a cluster, 369,228; prebound, 262,206 | where a complete copy is, at each place of the tool |
| `QInv` | `drill_quiet`, 152,850 with `earlyClear` | what the drill has looked at stays so |
| `SiteLeaseProofs!IInv`, `WInv` | `lease_fence`, 158,572 with `alive`, 123,868 | claims follow the keys; what a Job has passed stays fenced |
| `SInv` | `jobs`, 120,611 | what a run knows, wants and has opened agree |
| `RouterProofs!EInv` | `jobs`, 1,752 | what is cut off has its rollback queued |
| `GeneratorInv` | `jobs`, 9,408 | policies and input rules are those of the rulesets and tables so far |
| `VInv` | `jobs`, 1,005 | past the format the disk holds our filesystem |
| `CInv` | `services`, 528,773 with 3 mishaps | a wrong Coral shows at the second look, or the own one came back |
| `ServicesProofs!EInv` | `services`, 115,700 with 2 moves and 2 faults | one pass at a time owns the shared dict |
| `FInv` | `services`, 66,304 | unscraped means counted since the last scrape |
| `AInv` | `services`, 29,070 | only the lookup under way can be torn |
| `GInv`, `CacheInv` | `services`, 141,424 | between list and ids nobody has been answered; a key is in the cache once |
| `RecordsInv` | `jobs`, 129,227 | what each pass leaves, name by name and rule by rule |
| `RulesInv` | `jobs`, 114,433 | what a sample says was so when it was scraped |
| `KeysInv` | `jobs`, 15,560 | what a run has left is the end of the file |

`IInv` (switchover).  `OneRunner` says nothing of a pod that Flux is about
to start, and `OnePrimary` nothing of a spec that says primary where the
cluster isn't yet.  `MayRun(s)` holds when the workloads live at `s` (one taken for stopped apart: told to stop, it
only ends), or what was applied, or what
the keys or settings say, would start them; `MayLead(s, c)` likewise for a primary.
`Exclusive`: at most one site may run the app, and one may lead each cluster.  `NewSiteOff`:
until the promotion the new site may do neither, but for a prebind and, where one was cut
short, until the next has ended (`NewOff`).  `OldSiteStopped`: after the wait
for the stop the old site's key and spec say 0, whatever Flux applies, in the prebind too, and nothing runs there but what
a failed read took for stopped.  `OldSiteDemoted`: a
cluster whose token has been read may not lead at the old site.  `ClearInPlace`: during
`clear` git and the overrides say the same.  `PrebindPlace`: only a prebound app is prebound, and at its last wait the
new site's spec says 0.
`RunsAsTold`: a site the tool has moved the app to, or would, may run it only where its keys or git say so;
that is why a move that is run again, without a cluster to look at, finds its new site off.  At the end of a
prebind that site's keys say 0.

`DInv` (its data).  Of a PVC in `spoilt` nothing is said (`Complete`).  `MayMeansCurrent`, `PrimaryCurrent`: who may
run or lead has complete
copies, the scratch copy of a prebind apart.  `TokenCovers`: a cluster that leads nowhere has its last write before
the token.
`NoBarePromotion`: nothing Flux may yet apply promotes an incomplete replica without its token.
`OldSiteCurrent`, `NewSiteFilled`: until the promotion the old site's copies are complete, and
the new site's become so one PVC after the other.  `OrphansEnded`, `OrphansHarmless`: a Restore
that nobody waits for works where nothing may run and the other copy is complete.
`ClearKeepsCurrent`: git names a complete site while `clear` is under way.  `OldSiteKept`: where the new
site isn't told to run the app, the old one's copies are complete and no Restore goes on there.  The refinement adds
that `WriterOf` is the site that runs (to keep what it writes) or leads, that the tool begins and ends a
prebind while the new site is off, and maps each action to a step of `SingleWriter`
(begin, end, write, copy, spoil, intrude) or to a stutter, for all stores at once.

`QInv` (the drill).  Nothing is taken for stopped on a failed read.  No cluster-settings change in a switchover; a
site without overrides does
what git says; a Restore goes on only where the app may not run; a drill past its looks is at a site
that neither key nor git names, and the tool is idle.

`IInv`, `WInv` (the lease).  A cluster is claimed only where the keys name the site; a promotion
goes on under the lease it checked; a fenced site that follows was rebuilt; what the Job under way has
passed, it has left unable to write.  `WInv` adds that nothing runs at a fenced site.

`GeneratorInv` (the firewall generator).  Joining a pair adds what is joined to what its one policy lets
through and changes no other pair's; the variants of a rule match together what the rule matched, since
splitting its ports loses none.  So what the policies let through is at every step what has been meant
so far: each ruleset's part, whichever of the four ways the code takes with it, the switch's pair, and
the tables already added.  The input rules are the DNS rules of the containers' rulesets, each for its own
interface.

`SInv` (the mirror).  An asset's recorded keys have its bytes; a run's knowledge is live until
its own last step; a known asset that a listed album holds is wanted, or its album is still
to be opened; what is in the bin list is the job's, live, and in no own album.

`ServicesProofs`.  `CInv`: what a service missed on the list was in flash mode or has been
since, or came back; a wrong Coral was not on its list or its own was unplugged, so that the second look differs,
unless its own came back meanwhile (`disturbed`).
`EInv`: who is in a section holds the lock.  `FInv`: unscraped means counted since the last
scrape.  `AInv`: once a lookup has gone wrong, the next reads one table until the swap, and
there bisect's index, the end and the number belong together.  `GInv`: the ids are those of the
list, or a load is between its two assignments and no answer has left since the first.  `CacheInv`: no
key is in the cache twice, so the bytes added and subtracted are those of the keys that came and went.

`RecordsInv` (the rest of the generator).  After each pass the table of records has exactly the names that
it should have by then, with the answers VyOS gave or the home a retired one gets, and exactly the
drops left.  The NAT pass is the concatenation of what each rule becomes: the first entry that
takes a packet comes from the first rule that stays and takes it.

`RulesInv` (the rules).  What holds at a source now was so now; what the samples of a fact say was so no longer
ago than the youngest of them is old; the replicas of all workloads are scraped together or not at all; no
sample outlives the lookback.  Each claim of each family of rules then rests on facts its samples say, fresh
where the rule asks for it, and "all of" is the sum or the count the rule takes.

`JobsTypeOK` and `ServicesTypeOK` are proved component by component: a step of the sum is a step or a stutter
of each, so each component's invariant is kept by its own proof.  They say more than types: where a request, a
thread or a run is agrees with what it holds.

Data that is summed or concatenated needs an induction, and the library's induction theorems take an operator
as a parameter, which no installed prover can instantiate.  The proofs argue by a least counterexample instead:
`WFMin` gives every non-empty set of numbers a least one (`LeastNat`), and every non-empty set of finite sets one
of which no other is a part (`LeastSet`), and a fact that fails nowhere smaller doesn't fail there.  So
`BytesIn` is shown to be a sum (adding a photo adds its bytes), and `FlattenSeq` a concatenation.

### What is only model-checked

- Liveness under fairness, and ENABLED: `PlacementTakesEffect`, `FenceTakesHold`,
  `PromotionTakesEffect`, `RouterComesBack` (its safe half is proved), `ImmichConverges`, `VolumeReturns`,
  `KeysReturn`, and the liveness properties of `services`.
- The data of a prebound app whose tool dies: neither proved nor checked, it isn't kept (see the hazards).
  Likewise of an app without a database whose switchover is started from the wrong site.

Every invariant and every action property of a passing run is stated by a theorem; what is left is liveness.

## Where code and docs disagree

Each is the counterexample of one run; `PROJECT.json` quotes the lines.

1. **A failed failback starts the app nowhere** (`failback_rollback`,
   `bin/site-failover:526`).  The rollback drops all the old site's keys; in a failback the
   key it drops is the one that made the app run there, and git says 0.
2. **A failed prebind starts the app at both sites** (`prebind_rollback`,
   `:526`).  The rollback doesn't touch the new site's `REPLICAS=1`.
3. **The drill doesn't see a switchover under way** (`drill_during_switchover`,
   `restore_drill.py:60`).  It looks for overrides at its own site, which a first
   switchover to it writes last.
4. **The drill can overwrite the only current copy** (`drill_after_rollback`,
   `restore_drill.py:57`).  After 1. the app is off at both sites without
   overrides; the drill takes "off here" for "standby here".
5. **`--promote` doesn't wait for the fence** (`lease_alive`,
   `bin/site-failover:310`).  It checks the record; the gate doesn't stop what runs already
   and the fence acts a minute later.

Met while modelling, without a run: one failed read of a workload at the stop (`site-failover:255`) puts an app at both
sites for a while and may cost its PVCs their newest writes, against "only one site runs a given app" and the
planned move's RPO 0 (the properties of `failover_warm` name just that exception); the header of `sync.py` (:16) says
that a run that
couldn't read every album removes nothing, while the loop (:439) takes photos out of the albums it
could read (the combined album, which is what is shown, keeps them); `edgeos-sync.py`
(:157) says "No changes" while a rollback is pending.

## What is not modelled

- In `bin/site-failover`: `status` (reads only), `--skip-pvcs` (the operator's word
  that the copy is current), the keys that suspend backups, the transport over ssh;
  two processes of the tool at once, and two apps in one ConfigMap.
- The gate's escape hatch `<P>_LEASE_GATE=off`.
- In `fence.py`: the wire format of DNS, more than one app in a Job.
- Data: formats, wording, timing other than the orders it allows.
- CNPG, Flux, kopiur, the kubelet and the router are not in the repository.  They are modelled
  by what the code relies on, and marked external in the map.
- In `sync.py`: the title written back to the list, the cover, `--dry-run`; a
  second run beside the first; requests that fail and had an effect; an album read
  while its pages shift.
- In the Coral services: uploaded models, more than two Corals, a bad tensor.
- In the flow collector: `classify()`, which names a series; which of its records a set read with another layout gives.
- In the attestation: the 60 s by which the two sites' clocks may differ.
- In `collector.py`: flux, overrides, databases, and the reachability probes, which read and keep nothing.  In
  `rules.py`: archive ages, certificates, restore times, alerts: arithmetic on one series.
- In `vyos-to-locals.py`: system settings, NTP, SSH keys, the output's format; and what the
  assumptions above leave out.
- The backup credential refresher, site routing, the Windows host agents, the
  repository tooling: short sequential scripts whose properties would restate them, or reconcilers of state
  that is outside the repository.  Dashboards, the inventory, the rehearsals, Home Assistant cards,
  Terraform, Ansible, manifests and CI are data and configuration.

## Hazards that no property covers

The code is exposed to these, and the models leave them out or admit them where
no property of a passing run speaks of them.

| where | what |
|---|---|
| `site-failover:255` | `status.replicas` drops before the last pod is gone; a Job of a suspended CronJob is no replica (`linger`). The failed read of the same line is covered: what it may cost is the exception the properties state |
| `site-failover:667` | git's cluster-settings are asked for with `check=False`: if they aren't applied, `clear` moves the app (`settingsLag`) |
| `site-failover:118`, `:241` | a reconcile that fails and is carried on from; a psql that can't be run counts as "not in recovery" (`reconcile`, `psql`) |
| `site-failover:389` | the tool dies in a prebind: the app is left running at the new site on its old copy, and what it writes there is lost to the next move (`crash`, `kubectl`).  It still runs at one site only, which is proved |
| `site-failover:317` | an app without a database: a finished switchover can be started again from the site it left (`wrongWay`) |
| `site-failover:141`, `:469` | two tools at once; two apps' tools on one ConfigMap, deleted between the read and the delete of the other; a failed read after the apply, taken for empty, deletes the keys just written (`wiped`) |
| `fence.py:72` | a malformed DNS answer raises what nothing catches; the Job fails and the next minute's runs |
| `sync.py:78` | a POST that makes an album is retried after a lost answer: two albums, one marker |
| `sync.py:350` | a Job started by hand beside the CronJob's |
| `sync.py:439` | photos leave the albums that could be read although another couldn't |
| `sync.py:513` | a photo uploaded by hand with the same bytes is adopted, and trashed with Google's copy |
| `gphotos.py:245` | a photo deleted between two pages shifts another out of sight; the next run puts it back |
| `edgetpu.py:96` | a service's own Coral comes back between two looks at the list, which has changed and changed back: it keeps another's (`disturbed`); with three Corals in more ways |
| `flow_collector.py:349` | exporters with one version, domain and template id: their data is read with the template of whichever sent last, for as long as both send |
| `collector.py:174`, `:193` | an exception outside the caught ones ends the scrape; services probes what workloads found before it failed |
| `collector.py:336`, `:362` | "met" on a `clear` from before the lease went away and came back; two policies on one PVC, the last counts |
| `edgeos-sync.py:157`, `:179` | "No changes" while a rollback is pending; a second apply leaves the first one's job queued |
| `vyos-to-locals.py:542`, `:684` | a ruleset bound to two pairs keeps the last; two equal next hops share a key |
| `vyos-to-locals.py:1105`, `:1138` | source groups of DNS rules are dropped; drops in the containers' rulesets are passed over |
| `vyos-to-locals.py:1529` | a NAT rule's positive match on a retired host goes, and the rule applies to everyone |
| `rules.py:22`, `:159` | surplus replicas make up for another workload's; an agent without metrics is not among "all" |
| `refresh.py:98` | one namespace whose patch fails leaves the later ones unrefreshed |
| `observability-volume.py:92` | a file written between "empty" and `chattr +i`; the pods' claim waits for the marker |

Files: `bin/site-failover`, `kubernetes/apps/monitoring/flow-collector/app/config/flow_collector.py`,
 `kubernetes/apps/databases/site-lease-fence/app/scripts/fence.py`,
`kubernetes/apps/selfhosted/immich/sync/scripts/{sync,gphotos}.py`, the Coral detector's
`backends/edgetpu.py`, `observability/{collector,rules}.py`, `infrastructure/edgeos/tools/edgeos-sync.py`,
`infrastructure/mikrotik/tools/vyos-to-locals.py`, the credential refresher's `refresh.py`, and the Windows
host's `observability-volume.py`.

## Plan

Done: every module of the table, checked; every safety property of the passing runs, proved.

What would come next, in this order:

1. **Faults of the switchover**: `reconcile`, `psql`, `linger` and `wiped`, each with what it breaks; two
   apps' tools on one ConfigMap.
2. **The parts that are listed as partly modelled**: the probes of the evidence collector, the rules that do
   arithmetic on one series, `--skip-pvcs`.
