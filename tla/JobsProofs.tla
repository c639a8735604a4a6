----------------------------- MODULE JobsProofs -----------------------------
(***************************************************************************)
(* Theorems about the jobs that share nothing with each other: the Immich  *)
(* mirror (ImmichSync), for any albums, photos, lists and bounds, the      *)
(* monitoring volume (MonitoringVolume), for any number of failing         *)
(* commands and restarts of WSL, the types of the key sidecar              *)
(* (LitellmKeys), and those of all the jobs.  What is particular to the    *)
(* routers and the rules has modules of its own.                           *)
(***************************************************************************)
EXTENDS MCJobs, RouterProofs, RulesProofs, SequenceTheorems

-----------------------------------------------------------------------------
(* The Immich mirror                                                           *)

\* Before a run has looked at Immich it knows and wants nothing.
Nothing == known = {} /\ mine = {} /\ byKey = {} /\ toSync = {} /\ album = None /\ left = {}
           /\ want = {} /\ desired = {}
Resting == pc \in {"idle", "read"} => Nothing

\* A key stands on the asset with its bytes; an album of the list holds only our assets.
RecordedRight == \A a \in Assets : Marked(a) => \A k \in recorded[a] : Bytes[k] = a
AlbumsOurs == \A g \in Albums : \A a \in holds[g] : Marked(a)

\* What a run saw stays live while it goes on: only its own last step trashes.
SeenLive ==
  /\ \A a \in known : library[a] = "live" /\ (Marked(a) => a \in mine /\ recorded[a] \subseteq byKey)
  /\ \A a \in mine : library[a] = "live" /\ Marked(a)
  /\ \A k \in byKey : Bytes[k] \in mine

\* Where a run is in its plan.
Planned ==
  /\ want \subseteq mine /\ desired \subseteq mine
  /\ album = None => left = {} /\ want = {}
  /\ album # None => album \in made
  /\ pc = "prune" => album # None /\ left = {}
  /\ pc \notin {"idle", "read"} => toRead = {} /\ Combined \in made
  /\ pc \in {"combined", "finish", "check", "trash"} => album = None /\ toSync = {}
  /\ pc \in {"finish", "check", "trash"} => ~broken

\* A known asset whose key an album holds is wanted, once that album has been opened.
Covered ==
  \A g \in Albums : \A a \in known :
    Marked(a) /\ recorded[a] \cap scraped[g] # {} => g \in toSync \/ a \in want \cup desired

OrphansOurs ==
  /\ pc \notin {"check", "trash"} => orphans = {}
  /\ \A a \in orphans : library[a] = "live" /\ Marked(a) /\ a \notin desired

\* What was in somebody's album when the run began, and no longer is, went through the
\* emptied trash, and is back only because the list wants it.
HandmadeSafe ==
  /\ \A a \in handmadeBefore \ handmade : library[a] = "absent" \/ a \in want \cup desired
  /\ pc = "check" => orphans \cap handmadeBefore \subseteq handmade
  /\ pc = "trash" => orphans \cap handmadeBefore = {}

SInv == /\ SyncTypeOK /\ Resting /\ RecordedRight /\ AlbumsOurs /\ SeenLive /\ Planned
        /\ Covered /\ OrphansOurs /\ HandmadeSafe

USE DEF immich, world, scan, seen, plan, runVars, Markers, Steps, Change, Marked, CreateAlbum,
        AddToAlbum, RemoveFromAlbum, Idle

LEMMA SyncInvInit == SyncInit => SInv
<1> SUFFICES ASSUME SyncInit PROVE SInv
  OBVIOUS
<1> USE SyncAssumption DEF SyncInit
<1>1. changes \in 0 .. MaxChanges /\ faults \in 0 .. MaxFaults
  OBVIOUS
<1>2. SyncTypeOK
  BY <1>1 DEF SyncTypeOK
<1> QED
  BY <1>2 DEF SInv, Resting, Nothing, RecordedRight, AlbumsOurs, SeenLive, Planned, Covered,
     OrphansOurs, HandmadeSafe

\* Every step but the six below changes one or two things the invariant speaks of.
LEMMA SmallStepKeeps ==
  ASSUME SInv,
         \/ StartRun \/ AddPhotos \/ RemovePhotos \/ AddToCombined \/ PruneCombined
         \/ StopIncomplete \/ SpareHandmade \/ Trash \/ EditList
         \/ \E g \in Albums : ReadAlbum(g) \/ ReadFails(g) \/ DropAlbum(g) \/ EditGoogle(g)
         \/ \E k \in Keys : Skip(k)
         \/ \E a \in Assets : MakeAlbum(a) \/ EmptyTrash(a)
  PROVE  SInv'
<1> USE SyncAssumption DEF SInv, SyncTypeOK, Resting, Nothing, RecordedRight, AlbumsOurs, SeenLive,
        Planned, Covered, OrphansOurs, HandmadeSafe
<1>1. CASE StartRun
  BY <1>1 DEF StartRun
<1>2. CASE AddPhotos
  BY <1>2 DEF AddPhotos
<1>3. CASE RemovePhotos
  BY <1>3 DEF RemovePhotos, ToRemove
<1>4. CASE AddToCombined
  BY <1>4 DEF AddToCombined
<1>5. CASE PruneCombined
  BY <1>5 DEF PruneCombined, ToRemove
<1>6. CASE StopIncomplete
  BY <1>6 DEF StopIncomplete
<1>7. CASE SpareHandmade
  BY <1>7 DEF SpareHandmade
<1>8. CASE Trash
  BY <1>8 DEF Trash
<1>9. CASE EditList
  BY <1>9 DEF EditList
<1>10. ASSUME NEW g \in Albums, ReadAlbum(g) PROVE SInv'
  BY <1>10 DEF ReadAlbum
<1>11. ASSUME NEW g \in Albums, ReadFails(g) PROVE SInv'
  BY <1>11 DEF ReadFails
<1>12. ASSUME NEW g \in Albums, DropAlbum(g) PROVE SInv'
  BY <1>12 DEF DropAlbum
<1>13. ASSUME NEW g \in Albums, EditGoogle(g) PROVE SInv'
  BY <1>13 DEF EditGoogle
<1>14. ASSUME NEW k \in Keys, Skip(k) PROVE SInv'
  BY <1>14 DEF Skip
<1>15. ASSUME NEW a \in Assets, MakeAlbum(a) PROVE SInv'
  BY <1>15 DEF MakeAlbum
<1>16. ASSUME NEW a \in Assets, EmptyTrash(a) PROVE SInv'
  BY <1>16 DEF EmptyTrash
<1> QED BY <1>1, <1>2, <1>3, <1>4, <1>5, <1>6, <1>7, <1>8, <1>9, <1>10, <1>11, <1>12, <1>13, <1>14, <1>15, <1>16

LEMMA AbortKeeps ==
  ASSUME SInv, Abort
  PROVE  SInv'
<1> USE SyncAssumption DEF SInv, Abort
<1>1. faults' \in 0 .. MaxFaults
  BY DEF SyncTypeOK
<1>2. SyncTypeOK'
  BY <1>1 DEF SyncTypeOK
<1> QED
  BY <1>2 DEF SyncTypeOK, Resting, Nothing, RecordedRight, AlbumsOurs, SeenLive, Planned, Covered,
     OrphansOurs, HandmadeSafe

\* What is in a marked album is live, and its keys are what the run then knows.
LEMMA LookKeeps ==
  ASSUME SInv, Look
  PROVE  SInv'
<1> USE SyncAssumption DEF SInv, Look
<1>1. known' \subseteq Assets /\ mine' \subseteq known' /\ \A a \in known' : library[a] = "live"
  BY DEF InMarkedAlbums, SyncTypeOK
<1>2. \A a \in mine' : recorded[a] \subseteq Keys /\ recorded[a] \subseteq byKey'
  BY <1>1 DEF SyncTypeOK
<1>3. \A k \in byKey' : k \in Keys /\ Bytes[k] \in mine'
  BY <1>1, <1>2 DEF RecordedRight
<1>4. SyncTypeOK'
  BY <1>1, <1>3 DEF SyncTypeOK
<1>5. SeenLive'
  BY <1>1, <1>2, <1>3 DEF SeenLive
<1>6. Covered'
  BY <1>1, <1>2 DEF Covered, SyncTypeOK
<1>7. Resting' /\ RecordedRight' /\ AlbumsOurs'
  BY DEF Resting, RecordedRight, AlbumsOurs
<1>8. Planned'
  BY DEF Planned, Resting, Nothing
<1>9. OrphansOurs' /\ HandmadeSafe'
  BY DEF OrphansOurs, HandmadeSafe
<1> QED BY <1>4, <1>5, <1>6, <1>7, <1>8, <1>9

\* A known asset with a key of the album is wanted: its keys are all known.
LEMMA OpenAlbumKeeps ==
  ASSUME SInv, NEW g \in Albums, OpenAlbum(g)
  PROVE  SInv'
<1> USE SyncAssumption DEF SInv, OpenAlbum
<1>1. want' \subseteq mine /\ want = {}
  BY DEF BytesOf, SeenLive, Planned
<1>2. ASSUME NEW a \in known, Marked(a), NEW k \in recorded[a] \cap scraped[g]
      PROVE  a \in want'
  <2>1. k \in byKey /\ Bytes[k] = a
    BY <1>2 DEF SyncTypeOK, SeenLive, RecordedRight
  <2> QED BY <2>1 DEF BytesOf
<1>3. SyncTypeOK'
  BY <1>1 DEF SyncTypeOK
<1>4. Resting' /\ RecordedRight' /\ AlbumsOurs' /\ SeenLive'
  BY DEF Resting, RecordedRight, AlbumsOurs, SeenLive
<1>5. Planned'
  BY <1>1 DEF Planned
<1>6. Covered'
  BY <1>1, <1>2 DEF Covered
<1>7. OrphansOurs' /\ HandmadeSafe'
  BY <1>1 DEF OrphansOurs, HandmadeSafe
<1> QED BY <1>3, <1>4, <1>5, <1>6, <1>7

LEMMA RestoreKeeps ==
  ASSUME SInv, NEW k \in Keys, Restore(k)
  PROVE  SInv'
<1> USE SyncAssumption DEF SInv, Restore
<1>1. SyncTypeOK'
  BY DEF SyncTypeOK
<1>2. Resting' /\ RecordedRight' /\ AlbumsOurs' /\ SeenLive' /\ Planned' /\ Covered' /\ OrphansOurs'
  BY DEF SyncTypeOK, Resting, Nothing, RecordedRight, AlbumsOurs, SeenLive, Planned, Covered, OrphansOurs
<1>3. HandmadeSafe'
  BY DEF HandmadeSafe, SyncTypeOK
<1> QED BY <1>1, <1>2, <1>3

LEMMA ImportKeeps ==
  ASSUME SInv, NEW k \in Keys, Import(k)
  PROVE  SInv'
<1> DEFINE a == Bytes[k]
<1> USE SyncAssumption DEF SInv, Import
<1>1. a \in Assets /\ Noted(a, k) \in SUBSET Keys
  BY DEF Noted, SyncTypeOK
<1>2. \A j \in Noted(a, k) : Bytes[j] = a
  BY <1>1 DEF Noted, RecordedRight
<1>3. recorded'[a] = Noted(a, k) /\ \A b \in Assets \ {a} : recorded'[b] = recorded[b]
  BY <1>1 DEF SyncTypeOK
<1>4. library'[a] = "live" /\ \A b \in Assets \ {a} : library'[b] = library[b]
  BY <1>1 DEF SyncTypeOK
<1>5. SyncTypeOK'
  BY <1>1 DEF SyncTypeOK
<1>6. RecordedRight' /\ AlbumsOurs'
  BY <1>1, <1>2, <1>3 DEF RecordedRight, AlbumsOurs, SyncTypeOK
<1>7. SeenLive'
  BY <1>1, <1>3, <1>4 DEF SeenLive, Noted, SyncTypeOK
<1>8. Resting' /\ Planned'
  BY DEF Resting, Nothing, Planned
<1>9. Covered'
  BY <1>1, <1>3 DEF Covered, SyncTypeOK
<1>10. OrphansOurs' /\ HandmadeSafe'
  BY <1>1, <1>3, <1>4 DEF OrphansOurs, HandmadeSafe, SyncTypeOK
<1> QED BY <1>5, <1>6, <1>7, <1>8, <1>9, <1>10

LEMMA SweepKeeps ==
  ASSUME SInv, Sweep
  PROVE  SInv'
<1> USE SyncAssumption DEF SInv, Sweep
<1>1. \A a \in orphans' : a \in Assets /\ library[a] = "live" /\ Marked(a) /\ a \notin desired
  BY DEF Orphans, Unalbumed, SeenLive, SyncTypeOK
<1>2. orphans' \cap handmadeBefore \subseteq handmade
  BY <1>1 DEF HandmadeSafe, Planned
<1>3. SyncTypeOK'
  BY <1>1 DEF SyncTypeOK
<1>4. OrphansOurs' /\ HandmadeSafe'
  BY <1>1, <1>2 DEF OrphansOurs, HandmadeSafe
<1> QED
  BY <1>3, <1>4 DEF Resting, Nothing, RecordedRight, AlbumsOurs, SeenLive, Planned, Covered

LEMMA SyncInvNext ==
  ASSUME SInv, [SyncNext]_syncVars
  PROVE  SInv'
<1>1. CASE UNCHANGED syncVars
  BY <1>1 DEF syncVars, SInv, SyncTypeOK, Resting, Nothing, RecordedRight, AlbumsOurs, SeenLive,
     Planned, Covered, OrphansOurs, HandmadeSafe
<1> QED
  BY <1>1, SmallStepKeeps, AbortKeeps, LookKeeps, OpenAlbumKeeps, RestoreKeeps, ImportKeeps,
     SweepKeeps DEF SyncNext

\* What leaves the combined album, or the library, leaves after every listed album was
\* read, is ours, and is not wanted.
LEMMA OnlyUnwantedLeaves ==
  ASSUME SInv, SyncNext, NEW a \in Assets,
         \/ a \in holds[Combined] \ holds'[Combined]
         \/ library[a] = "live" /\ library'[a] = "trashed"
  PROVE  /\ ~broken /\ toRead = {} /\ toSync = {} /\ want = {} /\ a \notin desired
         /\ Marked(a) /\ (library'[a] = "trashed" => a \notin handmadeBefore)
<1> USE SyncAssumption DEF SInv, Planned
<1>1. CASE PruneCombined
  BY <1>1 DEF PruneCombined, ToRemove, SeenLive, SyncTypeOK
<1>2. CASE Trash
  BY <1>2 DEF Trash, OrphansOurs, HandmadeSafe, SyncTypeOK
<1>3. ASSUME ~PruneCombined, ~Trash PROVE FALSE
  <2>1. ASSUME NEW g \in Albums, DropAlbum(g) PROVE UNCHANGED <<holds[Combined], library>>
    BY <2>1 DEF DropAlbum, SyncTypeOK
  <2>2. ASSUME NEW k \in Keys, Restore(k) \/ Import(k)
        PROVE  holds' = holds /\ (library[a] = "live" => library'[a] = "live")
    BY <2>2 DEF Restore, Import, SyncTypeOK
  <2>3. CASE AddPhotos \/ RemovePhotos \/ AddToCombined
    BY <2>3 DEF AddPhotos, RemovePhotos, AddToCombined, SyncTypeOK
  <2>4. ASSUME NEW b \in Assets, EmptyTrash(b)
        PROVE  holds' = holds /\ (library[a] = "live" => library'[a] = "live")
    BY <2>4 DEF EmptyTrash, SyncTypeOK
  <2>5. ASSUME ~(AddPhotos \/ RemovePhotos \/ AddToCombined), ~\E g \in Albums : DropAlbum(g),
               ~\E k \in Keys : Restore(k) \/ Import(k), ~\E b \in Assets : EmptyTrash(b)
        PROVE  UNCHANGED <<holds, library>>
    BY <1>3, <2>5 DEF SyncNext, StartRun, ReadAlbum, ReadFails, Look, OpenAlbum, Skip,
       StopIncomplete, Sweep, SpareHandmade, Abort, EditList, EditGoogle, MakeAlbum
  <2> QED BY <2>1, <2>2, <2>3, <2>4, <2>5
<1> QED BY <1>1, <1>2, <1>3

LEMMA ForeignStays ==
  ASSUME SInv, SyncNext, NEW a \in Assets, ~Marked(a), NEW m \in Markers, a \in holds[m]
  PROVE  a \in holds'[m]
<1> USE SyncAssumption DEF SInv, SyncTypeOK
<1>1. ASSUME NEW g \in Albums, DropAlbum(g) PROVE a \in holds'[m]
  BY <1>1 DEF DropAlbum, AlbumsOurs
<1>2. CASE RemovePhotos \/ PruneCombined
  BY <1>2 DEF RemovePhotos, PruneCombined, ToRemove, SeenLive
<1>3. CASE Trash
  BY <1>3 DEF Trash, OrphansOurs
<1>4. CASE AddPhotos \/ AddToCombined
  BY <1>4 DEF AddPhotos, AddToCombined
<1>5. ASSUME ~(RemovePhotos \/ PruneCombined \/ Trash \/ AddPhotos \/ AddToCombined),
             ~\E g \in Albums : DropAlbum(g)
      PROVE  holds' = holds
  BY <1>5 DEF SyncNext, StartRun, ReadAlbum, ReadFails, Look, OpenAlbum, Restore, Import, Skip,
     StopIncomplete, Sweep, SpareHandmade, Abort, EditList, EditGoogle, MakeAlbum, EmptyTrash
<1> QED BY <1>1, <1>2, <1>3, <1>4, <1>5

LEMMA SyncSpecInv == SyncSpec => []SInv
BY SyncInvInit, SyncInvNext, PTL DEF SyncSpec

\* A photo that a run found in the synced albums leaves the screen or the library only
\* when every listed album was read and none holds an item recorded on it: whatever
\* failed, was skipped or changed meanwhile, and wherever earlier runs stopped
\* (sync.py:447, :462).
THEOREM MirrorKeepsListedCorrect == SyncSpec => MirrorKeepsListed
<1> DEFINE Lost(a) == \/ a \in holds[Combined] \ holds'[Combined]
                      \/ library[a] = "live" /\ library'[a] = "trashed"
           Keeps == \A a \in known : Lost(a) =>
                      ~broken /\ toRead = {} /\ recorded[a] \cap Scraped = {}
<1>1. ASSUME SInv, SyncNext, NEW a \in known, Lost(a)
      PROVE  ~broken /\ toRead = {} /\ recorded[a] \cap Scraped = {}
  <2>1. a \in Assets
    BY <1>1 DEF SInv, SyncTypeOK
  <2>2. /\ ~broken /\ toRead = {} /\ toSync = {} /\ want = {} /\ a \notin desired /\ Marked(a)
    BY <1>1, <2>1, OnlyUnwantedLeaves
  <2> QED BY <1>1, <2>1, <2>2 DEF SInv, Covered, Scraped
<1>2. SInv /\ [SyncNext]_syncVars => [Keeps]_syncVars
  BY <1>1
<1>3. [][Keeps]_syncVars => MirrorKeepsListed
  BY DEF MirrorKeepsListed
<1> QED BY <1>2, <1>3, SyncSpecInv, PTL DEF SyncSpec

\* The job touches nothing of other people's, at any point of any run: what has not its
\* metadata stays in every album and out of the trash, as does what somebody had in an
\* album of their own before the run began (sync.py:466-475).
THEOREM OthersUntouchedCorrect == SyncSpec => OthersUntouched
<1> DEFINE Lost(a) == library[a] = "live" /\ library'[a] = "trashed"
           Keeps == \A a \in Assets :
                      /\ ~Marked(a) => ~Lost(a) /\ \A m \in Markers : a \in holds[m] => a \in holds'[m]
                      /\ a \in handmadeBefore => ~Lost(a)
<1>1. SInv /\ [SyncNext]_syncVars => [Keeps]_syncVars
  BY OnlyUnwantedLeaves, ForeignStays
<1>2. [][Keeps]_syncVars => OthersUntouched
  BY DEF OthersUntouched
<1> QED BY <1>1, <1>2, SyncSpecInv, PTL DEF SyncSpec

-----------------------------------------------------------------------------
(* The monitoring volume                                                       *)

HIDE DEF immich, world, scan, seen, plan, runVars, Markers, Steps, Change, Marked, CreateAlbum,
        AddToAlbum, RemoveFromAlbum, Idle

USE DEF disk, point, Goto, VolumeFault

VolumeSteps == {"idle", "create", "unmount", "bareNew", "initialize", "check", "bare", "attach",
          "protect", "mount", "record"}
TaskSteps == {"idle", "check", "bare", "attach", "protect", "mount"}

\* Where a run is past the format, the disk holds our filesystem; only the operator's
\* run is before it, and alone while there is no VHDX.
Formatted == \A r \in Runs : at[r] \in {"protect", "mount", "record"} => content = "ours"
CreatesOnce == at[Operator] = "create" => content = "noFile"
WrittenIsOurs == data => content = "ours"
InitializedIsOurs == volumePhase = "initialized" => content = "ours"
TaskAfter == volumePhase # "initialized" => at[Task] = "idle"

VInv == /\ VolumeTypeOK /\ Formatted /\ CreatesOnce /\ WrittenIsOurs /\ InitializedIsOurs
        /\ TaskAfter

LEMMA VolumeInvInit == VolumeInit => VInv
<1> SUFFICES ASSUME VolumeInit PROVE VInv
  OBVIOUS
<1> USE DEF VolumeInit
<1>1. {data, attached, mounted, immutable, stray, claimed} \subseteq BOOLEAN
  OBVIOUS
<1>2. /\ Task \in Runs /\ volumeFaults \in 0 .. MaxVolumeFaults
      /\ \A r \in Runs : at[r] = "idle"
      /\ at \in [Runs -> VolumeSteps]
  BY VolumeAssumption DEF Runs, VolumeSteps
<1>3. VolumeTypeOK
  BY <1>1, <1>2 DEF VolumeTypeOK, VolumeSteps
<1>4. Operator \in Runs
  BY DEF Runs
<1> QED BY <1>2, <1>3, <1>4 DEF VInv, Formatted, CreatesOnce, WrittenIsOurs, InitializedIsOurs, TaskAfter

\* Where run r goes, and what becomes of the disk when it does.
Goes(r) ==
  /\ at' \in [Runs -> VolumeSteps] /\ \A q \in Runs \ {r} : at'[q] = at[q]
  /\ r = Task => at'[r] \in TaskSteps /\ (at'[r] # "idle" => volumePhase' = "initialized")
  /\ at'[r] \in {"protect", "mount", "record"} => content' = "ours"
  /\ at'[r] = "create" => content' = "noFile"
PhaseGoes ==
  /\ volumePhase' \in {"none", "pending", "initialized"}
  /\ volumePhase = "initialized" => volumePhase' = "initialized"
  /\ volumePhase' = "initialized" => volumePhase = "initialized" \/ content' = "ours"
ContentGoes(r) ==
  /\ content' \in {"noFile", "blank", "ours"} /\ (content = "ours" => content' = "ours")
  /\ content' # content => r = Operator /\ at'[r] # "create"
FlagsGo ==
  /\ {data', attached', mounted', immutable', stray', claimed'} \subseteq BOOLEAN
  /\ data' <=> data
  /\ mounted' => attached' /\ content' = "ours"
  /\ volumeFaults' \in 0 .. MaxVolumeFaults

LEMMA RunGoes ==
  ASSUME VInv, NEW r \in Runs, Goes(r), PhaseGoes, ContentGoes(r), FlagsGo
  PROVE  VInv' /\ (data => data')
<1> USE DEF VInv
<1>1. Task \in Runs /\ Operator \in Runs /\ Task # Operator /\ (r = Task \/ r = Operator)
  BY VolumeAssumption DEF Runs
<1>2. at'[Task] \in TaskSteps
  BY <1>1 DEF VolumeTypeOK, TaskSteps, Goes
<1>3. VolumeTypeOK'
  BY <1>2 DEF VolumeTypeOK, VolumeSteps, TaskSteps, Goes, PhaseGoes, ContentGoes, FlagsGo
<1>4. Formatted'
  BY DEF Formatted, Goes, ContentGoes
<1>5. CreatesOnce'
  BY <1>1 DEF CreatesOnce, Goes, ContentGoes
<1>6. WrittenIsOurs' /\ (data => data')
  BY DEF WrittenIsOurs, ContentGoes, FlagsGo
<1>7. InitializedIsOurs'
  BY DEF InitializedIsOurs, ContentGoes, PhaseGoes
<1>8. TaskAfter'
  BY <1>1 DEF TaskAfter, Goes, PhaseGoes
<1> QED BY <1>3, <1>4, <1>5, <1>6, <1>7, <1>8

LEMMA GoesTo ==
  ASSUME VInv, NEW r \in Runs, NEW go \in VolumeSteps, at' = [at EXCEPT ![r] = go],
         r = Task => go \in TaskSteps /\ (go # "idle" => volumePhase' = "initialized"),
         go \in {"protect", "mount", "record"} => content' = "ours",
         go = "create" => content' = "noFile"
  PROVE  Goes(r) /\ at'[r] = go
  BY DEF Goes, VInv, VolumeTypeOK, VolumeSteps

\* A run's own go is taken where it is; the task only takes what an initialized
\* volume needs.
LEMMA RunPlace ==
  ASSUME VInv, NEW r \in Runs
  PROVE  /\ r = Operator \/ r = Task
         /\ r = Task => at[r] \in TaskSteps /\ (at[r] # "idle" => volumePhase = "initialized")
         /\ at[r] \in {"create", "unmount", "bareNew", "initialize", "record"} => r = Operator
         /\ at[r] \in {"protect", "mount", "record"} => content = "ours"
         /\ Task # Operator
  BY VolumeAssumption DEF VInv, VolumeTypeOK, TaskSteps, TaskAfter, Formatted, Runs

LEMMA FlagsKept ==
  ASSUME VInv, UNCHANGED <<data, immutable, stray, claimed>>, attached' \in BOOLEAN,
         mounted' \in BOOLEAN, mounted' => attached' /\ content' = "ours",
         volumeFaults' \in 0 .. MaxVolumeFaults
  PROVE  FlagsGo
  BY DEF FlagsGo, VInv, VolumeTypeOK

LEMMA RunStepKeeps ==
  ASSUME VInv, NEW r \in Runs, RunStepOf(r) \/ CommandFails(r)
  PROVE  VInv' /\ (data => data')
<1>0. /\ attached \in BOOLEAN /\ mounted \in BOOLEAN /\ immutable \in BOOLEAN
      /\ stray \in BOOLEAN /\ claimed \in BOOLEAN /\ data \in BOOLEAN
      /\ mounted => attached /\ content = "ours"
      /\ volumeFaults \in 0 .. MaxVolumeFaults
      /\ content \in {"noFile", "blank", "ours"}
      /\ volumePhase \in {"none", "pending", "initialized"}
  BY DEF VInv, VolumeTypeOK
<1>1. ASSUME UNCHANGED volumePhase PROVE PhaseGoes
  BY <1>0, <1>1 DEF PhaseGoes
<1>2. ASSUME UNCHANGED content PROVE ContentGoes(r)
  BY <1>0, <1>2 DEF ContentGoes
<1>4. CASE StartVolume(r)
  <2>1. PICK go \in {"create", "unmount", "check"} :
          /\ at' = [at EXCEPT ![r] = go]
          /\ go = "create" => content = "noFile"
          /\ \/ r = Operator /\ volumePhase # "initialized" /\ volumePhase' = "pending"
             \/ volumePhase = "initialized" /\ volumePhase' = volumePhase /\ go = "check"
    BY <1>4 DEF StartVolume
  <2>2. UNCHANGED <<content, data, attached, mounted, immutable, stray, claimed, volumeFaults>>
    BY <1>4 DEF StartVolume
  <2>3. Goes(r)
    BY <2>1, <2>2, RunPlace, GoesTo DEF VolumeSteps, TaskSteps
  <2>4. PhaseGoes
    BY <2>1 DEF PhaseGoes
  <2> QED BY <1>0, <1>2, <2>2, <2>3, <2>4, RunGoes, FlagsKept
<1>5. CASE CreateVhdx(r)
  <2>1. /\ r = Operator /\ content = "noFile" /\ content' = "blank"
        /\ UNCHANGED <<volumePhase, data, attached, mounted, immutable, stray, claimed, volumeFaults>>
    BY <1>5, RunPlace DEF CreateVhdx, VInv, CreatesOnce
  <2>2. Goes(r) /\ at'[r] = "unmount"
    BY <1>5, <2>1, RunPlace, GoesTo DEF CreateVhdx, VolumeSteps
  <2>3. ContentGoes(r)
    BY <2>1, <2>2 DEF ContentGoes
  <2> QED BY <1>0, <1>1, <2>1, <2>2, <2>3, RunGoes, FlagsKept
<1>6. CASE UnmountVhdx(r)
  <2>1. /\ r = Operator /\ UNCHANGED <<volumePhase, content, data, immutable, stray, claimed, volumeFaults>>
        /\ attached' \in BOOLEAN /\ mounted' \in BOOLEAN /\ (mounted' => attached' /\ content = "ours")
    <3>1. UNCHANGED <<volumePhase, content, data, immutable, stray, claimed, volumeFaults>>
      BY <1>6 DEF UnmountVhdx
    <3>2. (attached' = FALSE /\ mounted' = FALSE) \/ (attached' = attached /\ mounted' = mounted)
      BY <1>6 DEF UnmountVhdx
    <3>3. r = Operator
      BY <1>6, RunPlace DEF UnmountVhdx
    <3>4. CASE attached' = FALSE /\ mounted' = FALSE
      BY <3>1, <3>3, <3>4
    <3>5. CASE attached' = attached /\ mounted' = mounted
      BY <1>0, <3>1, <3>3, <3>5, Zenon
    <3> QED BY <3>2, <3>4, <3>5
  <2>2. Goes(r)
    BY <1>6, <2>1, RunPlace, GoesTo DEF UnmountVhdx, VolumeSteps
  <2> QED BY <1>0, <1>1, <1>2, <2>1, <2>2, RunGoes, FlagsKept
<1>7. CASE AttachBare(r)
  <2>1. /\ UNCHANGED <<volumePhase, content, data, mounted, immutable, stray, claimed, volumeFaults>>
        /\ attached' \in BOOLEAN /\ (attached => attached')
    BY <1>0, <1>7 DEF AttachBare
  <2>2. PICK go \in {"idle", "initialize", "attach"} :
          /\ at' = [at EXCEPT ![r] = go] /\ (go = "initialize" => at[r] = "bareNew")
          /\ at[r] # "idle"
    BY <1>7 DEF AttachBare
  <2>3. Goes(r)
    BY <2>1, <2>2, RunPlace, GoesTo DEF VolumeSteps, TaskSteps
  <2> QED BY <1>0, <1>1, <1>2, <2>1, <2>3, RunGoes, FlagsKept
<1>8. CASE CheckVolume(r)
  <2>1. UNCHANGED <<volumePhase, content, data, attached, mounted, immutable, stray, claimed, volumeFaults>>
    BY <1>8 DEF CheckVolume
  <2>2. PICK go \in {"idle", "bare", "attach"} : at' = [at EXCEPT ![r] = go] /\ at[r] # "idle"
    BY <1>8 DEF CheckVolume
  <2>3. Goes(r)
    BY <2>1, <2>2, RunPlace, GoesTo DEF VolumeSteps, TaskSteps
  <2> QED BY <1>0, <1>1, <1>2, <2>1, <2>3, RunGoes, FlagsKept
<1>9. CASE RecordPhase(r)
  <2>1. /\ UNCHANGED <<content, data, attached, mounted, immutable, stray, claimed, volumeFaults>>
        /\ volumePhase' = "initialized" /\ content = "ours"
    BY <1>9, RunPlace DEF RecordPhase
  <2>2. Goes(r)
    BY <1>9, <2>1, GoesTo DEF RecordPhase, VolumeSteps, TaskSteps
  <2>3. PhaseGoes
    BY <2>1 DEF PhaseGoes
  <2> QED BY <1>0, <1>2, <2>1, <2>2, <2>3, RunGoes, FlagsKept
<1>10. CASE Initialize(r)
  <2>1. /\ r = Operator
        /\ UNCHANGED <<volumePhase, attached, mounted, immutable, stray, claimed, volumeFaults>>
    BY <1>10, RunPlace DEF Initialize
  <2>2. PICK go \in {"idle", "attach"} : at' = [at EXCEPT ![r] = go]
    BY <1>10 DEF Initialize
  <2>3. Goes(r) /\ at'[r] = go
    BY <2>1, <2>2, RunPlace, GoesTo DEF VolumeSteps, TaskSteps
  <2>4. content' = content \/ content' = "ours"
    BY <1>10 DEF Initialize
  <2>5. data' \in BOOLEAN /\ (data' <=> data)
    BY <1>0, <1>10 DEF Initialize, VInv, WrittenIsOurs
  <2>6. ContentGoes(r)
    BY <1>0, <2>1, <2>3, <2>4 DEF ContentGoes
  <2>7. FlagsGo
    BY <1>0, <2>1, <2>4, <2>5 DEF FlagsGo
  <2> QED BY <1>1, <2>1, <2>3, <2>6, <2>7, RunGoes
<1>11. CASE Attach(r)
  <2>1. UNCHANGED <<volumePhase, content, data, attached, mounted, immutable, stray, claimed, volumeFaults>>
    BY <1>11 DEF Attach
  <2>2. PICK go \in {"idle", "record", "protect"} :
          /\ at' = [at EXCEPT ![r] = go] /\ at[r] # "idle"
          /\ go # "idle" => content = "ours"
          /\ go = "record" => volumePhase = "pending"
    BY <1>11 DEF Attach, AfterMount
  <2>3. Goes(r)
    BY <2>1, <2>2, RunPlace, GoesTo DEF VolumeSteps, TaskSteps
  <2> QED BY <1>0, <1>1, <1>2, <2>1, <2>3, RunGoes, FlagsKept
<1>12. CASE Protect(r)
  <2>1. /\ UNCHANGED <<volumePhase, content, data, attached, mounted, stray, claimed, volumeFaults>>
        /\ content = "ours" /\ immutable' \in BOOLEAN
    BY <1>0, <1>12, RunPlace DEF Protect
  <2>2. Goes(r)
    BY <1>12, <2>1, RunPlace, GoesTo DEF Protect, VolumeSteps, TaskSteps
  <2>3. FlagsGo
    BY <1>0, <2>1 DEF FlagsGo
  <2> QED BY <1>1, <1>2, <2>1, <2>2, <2>3, RunGoes
<1>13. CASE MountVolume(r)
  <2>1. /\ UNCHANGED <<volumePhase, content, data, attached, immutable, stray, claimed, volumeFaults>>
        /\ content = "ours" /\ mounted' \in BOOLEAN /\ (mounted' => attached)
    BY <1>0, <1>13, RunPlace DEF MountVolume
  <2>2. PICK go \in {"idle", "record"} :
          /\ at' = [at EXCEPT ![r] = go] /\ (go = "record" => volumePhase = "pending")
          /\ at[r] # "idle"
    BY <1>13 DEF MountVolume, AfterMount
  <2>3. Goes(r)
    BY <2>1, <2>2, RunPlace, GoesTo DEF VolumeSteps, TaskSteps
  <2> QED BY <1>0, <1>1, <1>2, <2>1, <2>3, RunGoes, FlagsKept
<1>14. CASE CommandFails(r)
  <2>1. /\ UNCHANGED <<volumePhase, content, data, attached, mounted, immutable, stray, claimed>>
        /\ volumeFaults' \in 0 .. MaxVolumeFaults
    BY <1>0, <1>14, VolumeAssumption DEF CommandFails
  <2>2. Goes(r)
    BY <1>14, <2>1, GoesTo DEF CommandFails, VolumeSteps, TaskSteps
  <2> QED BY <1>0, <1>1, <1>2, <2>1, <2>2, RunGoes, FlagsKept
<1> QED
  BY <1>4, <1>5, <1>6, <1>7, <1>8, <1>9, <1>10, <1>11, <1>12, <1>13, <1>14 DEF RunStepOf

LEMMA AroundKeeps ==
  ASSUME VInv, Claim \/ PodWrites \/ WslRestarts
  PROVE  VInv' /\ (data => data')
<1> USE DEF VInv, Formatted, CreatesOnce, WrittenIsOurs, InitializedIsOurs, TaskAfter
<1>0. Task \in Runs /\ Operator \in Runs
  BY DEF Runs
<1>1. CASE Claim
  BY <1>1 DEF Claim, VolumeTypeOK
<1>2. CASE PodWrites
  <2>0. data \in BOOLEAN /\ stray \in BOOLEAN
    BY DEF VolumeTypeOK
  <2>1. (mounted /\ data' = TRUE /\ stray' = stray) \/ (stray' = TRUE /\ data' = data)
    BY <1>2 DEF PodWrites
  <2>2. data' \in BOOLEAN /\ stray' \in BOOLEAN /\ (data' => data \/ mounted) /\ (data => data')
    <3>1. CASE mounted /\ data' = TRUE /\ stray' = stray
      BY <2>0, <3>1, Zenon
    <3>2. CASE stray' = TRUE /\ data' = data
      BY <2>0, <3>2, Zenon
    <3> QED BY <2>1, <3>1, <3>2
  <2>3. UNCHANGED <<volumePhase, content, attached, mounted, immutable, claimed, at, volumeFaults>>
    BY <1>2 DEF PodWrites
  <2>4. VolumeTypeOK'
    BY <2>2, <2>3 DEF VolumeTypeOK
  <2> QED BY <2>2, <2>3, <2>4 DEF VolumeTypeOK
<1>3. CASE WslRestarts
  <2>1. /\ at' \in [Runs -> {"idle"}] /\ \A r \in Runs : at'[r] = "idle"
        /\ volumeFaults' \in 0 .. MaxVolumeFaults
    BY <1>3, VolumeAssumption DEF WslRestarts, VolumeTypeOK
  <2>2. VolumeTypeOK'
    BY <1>0, <1>3, <2>1 DEF WslRestarts, VolumeTypeOK
  <2> QED BY <1>0, <1>3, <2>1, <2>2 DEF WslRestarts
<1> QED BY <1>1, <1>2, <1>3

LEMMA VolumeInvNext ==
  ASSUME VInv, [VolumeNext]_volumeVars
  PROVE  VInv' /\ (data => data')
<1>1. CASE UNCHANGED volumeVars
  BY <1>1 DEF volumeVars, VInv, VolumeTypeOK, Formatted, CreatesOnce, WrittenIsOurs,
     InitializedIsOurs, TaskAfter
<1> QED BY <1>1, RunStepKeeps, AroundKeeps DEF VolumeNext

\* "Normal startup [...] never formats", and -Initialize only what is blank: what the
\* pods wrote stays, wherever the two runs stop, at whatever they were at, and however
\* often WSL restarts under them; what Windows calls initialized has the filesystem.
THEOREM VolumeKeepsDataCorrect == VolumeSpec => VolumeKeepsData
<1>1. VInv /\ [VolumeNext]_volumeVars =>
        [/\ data => data'
         /\ volumePhase' = "initialized" => content' = "ours"]_volumeVars
  BY VolumeInvNext DEF VInv, InitializedIsOurs
<1>2. VInv /\ [VolumeNext]_volumeVars => VInv'
  BY VolumeInvNext
<1> QED BY <1>1, <1>2, VolumeInvInit, PTL DEF VolumeSpec, VolumeKeepsData

-----------------------------------------------------------------------------
(* The LiteLLM keys                                                            *)

LEMMA ReverseAt ==
  ASSUME NEW S, NEW s \in Seq(S)
  PROVE  Reverse(s) \in Seq(S) /\ Len(Reverse(s)) = Len(s)
         /\ \A i \in 1 .. Len(s) : Reverse(s)[i] = s[Len(s) - i + 1]
<1>1. \A i \in 1 .. Len(s) : Len(s) - i + 1 \in 1 .. Len(s) /\ s[Len(s) - i + 1] \in S
  OBVIOUS
<1> QED BY <1>1 DEF Reverse

\* A suffix agrees with the sequence from the last element back.
LEMMA SuffixAt ==
  ASSUME NEW S, NEW s \in Seq(S), NEW t \in Seq(S)
  PROVE  IsSuffix(s, t) <=>
           /\ Len(s) <= Len(t)
           /\ \A i \in 1 .. Len(s) : s[Len(s) - i + 1] = t[Len(t) - i + 1]
<1> DEFINE u == Reverse(s)
           v == Reverse(t)
<1>1. /\ u \in Seq(S) /\ Len(u) = Len(s) /\ \A i \in 1 .. Len(s) : u[i] = s[Len(s) - i + 1]
      /\ v \in Seq(S) /\ Len(v) = Len(t) /\ \A i \in 1 .. Len(t) : v[i] = t[Len(t) - i + 1]
  BY ReverseAt
<1>2. IsSuffix(s, t) <=> Len(u) <= Len(v) /\ SubSeq(u, 1, Len(u)) = SubSeq(v, 1, Len(u))
  BY DEF IsSuffix, IsPrefix
<1> HIDE DEF u, v
<1>3. CASE Len(s) <= Len(t)
  <2>1. SubSeq(u, 1, Len(u)) = u
    <3>1. Len(u) \in Nat /\ Len(u) = Len(u) - 1 + 1
      BY <1>1
    <3>2. /\ SubSeq(u, 1, Len(u)) \in Seq(S) /\ Len(SubSeq(u, 1, Len(u))) = Len(u)
          /\ \A i \in 1 .. Len(u) : SubSeq(u, 1, Len(u))[i] = u[i]
      BY <1>1, <3>1
    <3> QED BY <1>1, <3>2, SeqEqual
  <2>2. /\ SubSeq(v, 1, Len(u)) \in Seq(S) /\ Len(SubSeq(v, 1, Len(u))) = Len(u)
        /\ \A i \in 1 .. Len(u) : SubSeq(v, 1, Len(u))[i] = v[i]
    <3>1. Len(u) \in Nat /\ \A i \in 1 .. Len(u) : v[i] \in S
      BY <1>1, <1>3
    <3>2. /\ SubSeq(v, 1, Len(u)) \in Seq(S)
          /\ Len(SubSeq(v, 1, Len(u))) = IF 1 <= Len(u) THEN Len(u) - 1 + 1 ELSE 0
          /\ \A i \in 1 .. Len(u) - 1 + 1 : SubSeq(v, 1, Len(u))[i] = v[1 + i - 1]
      BY <3>1, SubSeqProperties
    <3>3. Len(u) - 1 + 1 = Len(u) /\ \A i \in 1 .. Len(u) : 1 + i - 1 = i
      BY <3>1
    <3> QED BY <3>1, <3>2, <3>3
  <2>3. u = SubSeq(v, 1, Len(u)) <=> \A i \in 1 .. Len(u) : u[i] = v[i]
    <3> DEFINE w == SubSeq(v, 1, Len(u))
    <3>1. w \in Seq(S) /\ Len(w) = Len(u) /\ \A i \in 1 .. Len(u) : w[i] = v[i]
      BY <2>2
    <3> HIDE DEF w
    <3>2. u = w <=> \A i \in 1 .. Len(u) : u[i] = w[i]
      BY <1>1, <3>1, SeqEqual
    <3> QED BY <3>1, <3>2 DEF w
  <2>4. IsSuffix(s, t) <=> \A i \in 1 .. Len(u) : u[i] = v[i]
    <3>1. Len(u) <= Len(v)
      BY <1>1, <1>3
    <3> QED BY <1>2, <2>1, <2>3, <3>1, Zenon
  <2>5. (\A i \in 1 .. Len(u) : u[i] = v[i]) <=>
          \A i \in 1 .. Len(s) : s[Len(s) - i + 1] = t[Len(t) - i + 1]
    <3>1. \A i \in 1 .. Len(s) : i \in 1 .. Len(t)
      BY <1>3
    <3>2. \A i \in 1 .. Len(s) : u[i] = s[Len(s) - i + 1] /\ v[i] = t[Len(t) - i + 1]
      BY <1>1, <3>1, Zenon
    <3>3. Len(u) = Len(s)
      BY <1>1
    <3>4. (\A i \in 1 .. Len(u) : u[i] = v[i]) <=> \A i \in 1 .. Len(s) : u[i] = v[i]
      BY <3>3
    <3> QED BY <3>2, <3>4
  <2> QED BY <1>3, <2>4, <2>5, Zenon
<1>4. CASE ~(Len(s) <= Len(t))
  BY <1>1, <1>2, <1>4
<1> QED BY <1>3, <1>4

LEMMA RestIsSuffix ==
  ASSUME NEW S, NEW s \in Seq(S), NEW t \in Seq(S), IsSuffix(s, t), s # <<>>
  PROVE  IsSuffix(Tail(s), t) /\ Tail(s) \in Seq(S)
<1> DEFINE rest == Tail(s)
<1>1. /\ rest \in Seq(S) /\ Len(s) \in Nat /\ Len(rest) = Len(s) - 1 /\ Len(rest) \in Nat
      /\ \A i \in 1 .. Len(rest) : rest[i] = s[i + 1]
  BY HeadTailProperties
<1>2. Len(s) <= Len(t) /\ \A i \in 1 .. Len(s) : s[Len(s) - i + 1] = t[Len(t) - i + 1]
  BY SuffixAt
<1> HIDE DEF rest
<1>3. Len(rest) <= Len(t)
  BY <1>1, <1>2
<1>4. ASSUME NEW i \in 1 .. Len(rest)
      PROVE  rest[Len(rest) - i + 1] = t[Len(t) - i + 1]
  <2>1. Len(rest) - i + 1 \in 1 .. Len(rest) /\ i \in 1 .. Len(s)
        /\ Len(rest) - i + 1 + 1 = Len(s) - i + 1
    BY <1>1
  <2>2. rest[Len(rest) - i + 1] = s[Len(s) - i + 1]
    BY <1>1, <2>1
  <2> QED BY <1>2, <2>1, <2>2, Zenon
<1>5. IsSuffix(rest, t)
  BY <1>1, <1>3, <1>4, SuffixAt
<1> QED BY <1>1, <1>5 DEF rest

KeysInv == KeysTypeOK /\ entries \in Seq(Range(KeysFile))

LEMMA NothingLeft ==
  IsSuffix(<<>>, KeysFile) /\ <<>> \in Seq(Range(KeysFile)) /\ IsSuffix(KeysFile, KeysFile)
<1> DEFINE F == Range(KeysFile)
<1>1. KeysFile \in Seq(F) /\ <<>> \in Seq(F)
  BY KeysAssumption
<1> HIDE DEF F
<1>2. IsSuffix(KeysFile, KeysFile)
  BY <1>1, SuffixAt
<1>3. IsSuffix(<<>>, KeysFile)
  <2>1. Len(<<>>) = 0 /\ 0 <= Len(KeysFile) /\ 1 .. 0 = {}
    BY <1>1
  <2> QED BY <1>1, <2>1, SuffixAt
<1> QED BY <1>1, <1>2, <1>3 DEF F

LEMMA KeysInvInit == ASSUME KeysInit PROVE KeysInv
<1>1. stored \in [Range(KeysFile) -> KeySpecs \cup {NoKey}]
  BY DEF KeysInit
<1> QED BY <1>1, NothingLeft, KeysAssumption DEF KeysInit, KeysInv, KeysTypeOK

LEMMA KeysInvNext ==
  ASSUME KeysInv, [KeysNext]_keyVars
  PROVE  KeysInv'
<1> DEFINE F == Range(KeysFile)
           Stored == KeySpecs \cup {NoKey}
           Counted == keyFaults \in 0 .. MaxKeyFaults /\ keyEdits \in 0 .. MaxKeyEdits
           Place == /\ IsSuffix(entries, KeysFile) /\ (sidecar = "storing" => entries # <<>>)
                    /\ entries \in Seq(F)
                    /\ sidecar \in {"waiting", "looking", "storing", "sleeping"}
           Stay == UNCHANGED <<sidecar, entries>>
<1>1. secret \in [F -> KeySpecs] /\ stored \in [F -> Stored] /\ up \in BOOLEAN
      /\ verb \in {"update", "generate"} /\ Counted /\ Place
  BY DEF KeysInv, KeysTypeOK
<1>2. UNCHANGED keyFaults \/ KeyFault => keyFaults' \in 0 .. MaxKeyFaults
  BY <1>1, KeysAssumption DEF KeyFault
<1>3. UNCHANGED keyEdits \/ (keyEdits < MaxKeyEdits /\ keyEdits' = keyEdits + 1) =>
        keyEdits' \in 0 .. MaxKeyEdits
  BY <1>1, KeysAssumption
<1>4. KeysFile \in Seq(F)
  BY KeysAssumption
<1>5. entries # <<>> => Entry \in F
  BY <1>1 DEF Entry
<1>6. Stay => Place'
  BY <1>1
<1>7. ASSUME NEW ok, NextEntry(ok), entries # <<>> PROVE Place'
  <2>1. IsSuffix(Tail(entries), KeysFile) /\ Tail(entries) \in Seq(F)
    <3> HIDE DEF F
    <3> QED BY <1>1, <1>4, <1>7, RestIsSuffix
  <2> QED BY <1>7, <2>1 DEF NextEntry
<1>8. entries # <<>> => [stored EXCEPT ![Entry] = secret[Entry]] \in [F -> Stored]
  BY <1>1, <1>5
<1>9. CASE KeysReady
  BY <1>1, <1>2, <1>3, <1>4, <1>9, NothingLeft DEF KeysReady, KeysInv, KeysTypeOK
<1>10. CASE LookUpKey
  BY <1>1, <1>2, <1>3, <1>10 DEF LookUpKey, KeysInv, KeysTypeOK
<1>11. CASE StoreKey
  <2>1. entries # <<>>
    BY <1>1, <1>11 DEF StoreKey
  <2>2. Place'
    BY <1>7, <1>11, <2>1 DEF StoreKey
  <2> QED BY <1>1, <1>2, <1>3, <1>8, <1>11, <2>1, <2>2 DEF StoreKey, KeysInv, KeysTypeOK
<1>12. CASE CallFails
  <2>1. Place'
    BY <1>7, <1>12 DEF CallFails
  <2>2. stored' \in [F -> Stored]
    BY <1>1, <1>8, <1>12 DEF CallFails
  <2> QED BY <1>1, <1>2, <1>3, <1>12, <2>1, <2>2 DEF CallFails, KeysInv, KeysTypeOK
<1>13. CASE KeysSleep \/ KeysWake
  BY <1>1, <1>2, <1>3, <1>13 DEF KeysSleep, KeysWake, KeysInv, KeysTypeOK
<1>14. CASE EditSecret
  <2>1. secret' \in [F -> KeySpecs]
    BY <1>1, <1>14 DEF EditSecret
  <2>2. Place'
    BY <1>14, NothingLeft DEF EditSecret, SidecarRestarts
  <2> QED BY <1>1, <1>2, <1>3, <1>14, <2>1, <2>2 DEF EditSecret, SidecarRestarts, KeysInv, KeysTypeOK
<1>15. CASE LitellmStops \/ LitellmStarts
  BY <1>1, <1>2, <1>3, <1>15 DEF LitellmStops, LitellmStarts, KeysInv, KeysTypeOK
<1>16. CASE DatabaseRestored
  <2>1. stored' \in [F -> Stored]
    BY <1>1, <1>16 DEF DatabaseRestored
  <2> QED BY <1>1, <1>2, <1>3, <1>6, <1>16, <2>1 DEF DatabaseRestored, KeysInv, KeysTypeOK
<1>17. CASE UNCHANGED keyVars
  BY <1>1, <1>17 DEF keyVars, KeysInv, KeysTypeOK
<1> QED
  BY <1>9, <1>10, <1>11, <1>12, <1>13, <1>14, <1>15, <1>16, <1>17 DEF KeysNext, KeyStep

-----------------------------------------------------------------------------
(* All the jobs side by side                                                   *)

AllTypes ==
  /\ active \in JobNames /\ SInv /\ EInv /\ GeneratorInv /\ RecordsInv /\ RulesInv
  /\ VInv /\ KeysInv

(* Every job's variables have their types, and what a run holds agrees with where it is:
   one proof per job, since they share nothing. *)
THEOREM JobsTypeCorrect == JobsSpec => []JobsTypeOK
<1>1. JobsInit => AllTypes
  BY SyncInvInit, EdgeosInvInit, GeneratorInit, RecordsInvInit, RouterRecordsAssumption,
     RulesInvInit, VolumeInvInit, KeysInvInit DEF JobsInit, AllTypes
<1>2. AllTypes /\ [JobsNext]_<<jobsVars, active>> => AllTypes'
  <2> SUFFICES ASSUME AllTypes, [JobsNext]_<<jobsVars, active>> PROVE AllTypes'
    OBVIOUS
  <2>1. /\ [SyncNext]_syncVars /\ [EdgeosNext]_edgeVars /\ [ZonesNext]_zoneVars
        /\ [RecordsNext]_recordVars /\ [RulesNext]_rulesVars /\ [VolumeNext]_volumeVars
        /\ [KeysNext]_keyVars /\ UNCHANGED active
    <3>1. CASE UNCHANGED <<jobsVars, active>>
      BY <3>1 DEF jobsVars
    <3>2. CASE JobsNext
      BY <3>2 DEF JobsNext
    <3> QED BY <3>1, <3>2
  <2>2. SInv' /\ EInv' /\ GeneratorInv'
    BY <2>1, SyncInvNext, EdgeosInvNext, GeneratorNext DEF AllTypes
  <2>3. RecordsInv' /\ RulesInv' /\ VInv' /\ KeysInv'
    BY <2>1, RecordsInvNext, RulesInvNext, VolumeInvNext, KeysInvNext DEF AllTypes
  <2> QED BY <2>1, <2>2, <2>3 DEF AllTypes
<1>3. AllTypes => JobsTypeOK
  <2> SUFFICES ASSUME AllTypes PROVE JobsTypeOK
    OBVIOUS
  <2>1. ZonesTypeOK
    BY DEF AllTypes, GeneratorInv, Progress, PoliciesTyped, OnePerPair, RulesetsKnown, Known, ZonesTypeOK
  <2>2. SyncTypeOK /\ EdgeosTypeOK /\ RecordsTypeOK /\ RulesTypeOK /\ VolumeTypeOK /\ KeysTypeOK
    BY DEF AllTypes, SInv, EInv, RecordsInv, RulesInv, VInv, KeysInv
  <2> QED BY <2>1, <2>2 DEF AllTypes, JobsTypeOK
<1> QED BY <1>1, <1>2, <1>3, PTL DEF JobsSpec

=============================================================================
