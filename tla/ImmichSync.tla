----------------------------- MODULE ImmichSync -----------------------------
(***************************************************************************)
(* The hourly job that mirrors the Google Photos albums on a Home          *)
(* Assistant list into Immich (immich/sync/scripts/sync.py, gphotos.py).   *)
(* It keeps no state of its own: every run reads the list, the albums and  *)
(* what Immich holds, adds what is missing and takes away what is gone.    *)
(*                                                                         *)
(* A run may stop between any two of its calls (Immich or Home Assistant   *)
(* unreachable, the Job's deadline, the pod killed); an album may be       *)
(* unreadable, a photo may fail to download or be left for the next run.   *)
(* The list, Google's albums and what people do in Immich change at any    *)
(* time. An asset stands for the bytes of a photo: two items with the same *)
(* bytes are one asset (Immich's checksum check).                          *)
(***************************************************************************)
EXTENDS Naturals, FiniteSets

CONSTANTS
    Albums,      \* the Google albums that may be on the list
    Combined,    \* the album the screensaver shows
    Keys,        \* Google's media keys
    Assets,      \* distinct photo contents
    KeysOf,      \* [Albums -> SUBSET Keys]: the items an album may ever hold
    Bytes,       \* [Keys -> Assets]: what downloading an item gives
    ByHand,      \* assets a person uploaded to the same account
    None,        \* no album
    NotOurs,     \* an asset without the job's metadata
    MaxChanges,  \* bound: changes people make to the list, Google or Immich
    MaxFaults    \* bound: failed reads, failed or deferred photos, dead runs

ASSUME SyncAssumption ==
    /\ Combined \notin Albums /\ None \notin Albums
    /\ KeysOf \in [Albums -> SUBSET Keys]
    /\ Bytes \in [Keys -> Assets]
    /\ ByHand \subseteq Assets
    /\ \A ks \in SUBSET Keys : NotOurs # ks
    /\ MaxChanges \in Nat /\ MaxFaults \in Nat

VARIABLES
    listed,     \* albums whose list item is open (needs_action)
    google,     \* google[g]: the photos of album g, by media key
    library,    \* library[a]: "absent", "live" or "trashed"
    recorded,   \* recorded[a]: NotOurs, or the media keys noted on the asset
    made,       \* marked albums that exist in Immich
    holds,      \* holds[m]: the live assets in marked album m
    handmade,   \* assets in an album without a marker
    changes, faults

immich == <<library, recorded, made, holds>>
world == <<listed, google, handmade, changes>>

\* The job's own variables; they mean nothing while pc = "idle".
VARIABLES
    pc, toRead, scraped, broken, known, mine, byKey, toSync, album, left,
    want, desired, orphans, handmadeBefore

scan == <<toRead, scraped, broken>>
seen == <<known, mine, byKey>>
plan == <<toSync, album, left, want, desired>>
runVars == <<pc, scan, seen, plan, orphans, handmadeBefore>>
syncVars == <<immich, world, faults, runVars>>

Markers == Albums \cup {Combined}
Steps == {"idle", "read", "albums", "prune", "combined", "finish", "check", "trash"}

SyncTypeOK ==
    /\ listed \subseteq Albums /\ google \in [Albums -> SUBSET Keys]
    /\ library \in [Assets -> {"absent", "live", "trashed"}]
    /\ recorded \in [Assets -> {NotOurs} \cup SUBSET Keys]
    /\ made \subseteq Markers /\ holds \in [Markers -> SUBSET Assets]
    /\ \A m \in Markers : holds[m] # {} => m \in made
    /\ \A m \in Markers : \A a \in holds[m] : library[a] = "live"
    /\ handmade \subseteq Assets /\ handmadeBefore \subseteq Assets
    /\ changes \in 0 .. MaxChanges /\ faults \in 0 .. MaxFaults
    /\ pc \in Steps /\ toRead \subseteq Albums /\ toSync \subseteq Albums
    /\ scraped \in [Albums -> SUBSET Keys] /\ broken \in BOOLEAN
    /\ known \subseteq Assets /\ mine \subseteq Assets /\ byKey \subseteq Keys
    /\ album \in Albums \cup {None} /\ left \subseteq Keys
    /\ want \subseteq Assets /\ desired \subseteq Assets /\ orphans \subseteq Assets

BytesOf(ks) == {Bytes[k] : k \in ks}

-----------------------------------------------------------------------------
(* What Immich is asked, and told                                          *)

\* media_keys: the asset carries the job's metadata.
Marked(a) == recorded[a] # NotOurs

\* What a search by album, and one for assets in no album, gives.
InMarkedAlbums == UNION {holds[m] : m \in Markers}
Unalbumed == {a \in Assets : library[a] = "live" /\ a \notin handmade \cup InMarkedAlbums}

\* upload and set_media_keys: an upload carries the key; a known asset has it added.
Noted(a, k) == IF library[a] = "absent" \/ ~Marked(a) THEN {k} ELSE recorded[a] \cup {k}

CreateAlbum(m) == made' = made \cup {m}
AddToAlbum(m, as) == holds' = [holds EXCEPT ![m] = @ \cup as]
RemoveFromAlbum(m, as) == holds' = [holds EXCEPT ![m] = @ \ as]

-----------------------------------------------------------------------------
(* What a run decides                                                      *)

\* Mutant: whatever is not wanted leaves, whoever put it there.
ToRemoveAny(wanted, current) == current \ wanted

\* plan_album: what leaves an album. Only assets the job marked ever do.
ToRemove(wanted, current) == (current \cap mine) \ wanted

\* Mutant: what a run that died left in no album is not looked for.
OrphansSeenOnly == mine \ desired

\* The orphans of a complete run: marked assets it saw that no album wants,
\* and marked assets in no album at all that it had not seen (an earlier run
\* stopped between its calls).
Orphans ==
    (mine \ desired)
        \cup {a \in Unalbumed : Marked(a) /\ a \notin desired \cup known}

\* The process is gone, and what it knew with it.
Idle(p) ==
    /\ pc' = p /\ toRead' = {} /\ scraped' = [g \in Albums |-> {}] /\ broken' = FALSE
    /\ known' = {} /\ mine' = {} /\ byKey' = {}
    /\ toSync' = {} /\ album' = None /\ left' = {} /\ want' = {} /\ desired' = {}
    /\ orphans' = {} /\ handmadeBefore' = {}

\* Somebody may have put photos of their own in the combined album.
SyncInit ==
    /\ listed = {} /\ google = KeysOf
    /\ library = [a \in Assets |-> IF a \in ByHand THEN "live" ELSE "absent"]
    /\ recorded = [a \in Assets |-> NotOurs]
    /\ \E own \in SUBSET ByHand :
         /\ made = IF own = {} THEN {} ELSE {Combined}
         /\ holds = [m \in Markers |-> IF m = Combined THEN own ELSE {}]
    /\ handmade = {} /\ handmadeBefore = {} /\ changes = 0 /\ faults = 0
    /\ pc = "idle" /\ toRead = {} /\ scraped = [g \in Albums |-> {}] /\ broken = FALSE
    /\ known = {} /\ mine = {} /\ byKey = {}
    /\ toSync = {} /\ album = None /\ left = {} /\ want = {} /\ desired = {}
    /\ orphans = {}

-----------------------------------------------------------------------------
(* The run                                                                 *)

\* The list is read once, at the start.
StartRun ==
    /\ pc = "idle"
    /\ pc' = "read" /\ toRead' = listed /\ handmadeBefore' = handmade
    /\ UNCHANGED <<immich, world, faults, scraped, broken, seen, plan, orphans>>

\* fetch_album gives the whole album or raises: a missing page, an item that
\* doesn't parse and an album without photos are all errors.
Whole(g) == google[g] # {}

ReadAlbum(g) ==
    /\ pc = "read" /\ g \in toRead /\ Whole(g)
    /\ scraped' = [scraped EXCEPT ![g] = google[g]]
    /\ toRead' = toRead \ {g}
    /\ UNCHANGED <<immich, world, faults, pc, broken, seen, plan, orphans, handmadeBefore>>

ReadFails(g) ==
    /\ pc = "read" /\ g \in toRead
    /\ \/ ~Whole(g) /\ UNCHANGED faults
       \/ Whole(g) /\ faults < MaxFaults /\ faults' = faults + 1
    /\ broken' = TRUE /\ toRead' = toRead \ {g}
    /\ UNCHANGED <<immich, world, pc, scraped, seen, plan, orphans, handmadeBefore>>

\* What Immich holds now; the combined album is created if it isn't there.
Look ==
    /\ pc = "read" /\ toRead = {}
    /\ pc' = "albums" /\ CreateAlbum(Combined)
    /\ known' = InMarkedAlbums
    /\ mine' = {a \in known' : Marked(a)}
    /\ byKey' = UNION {recorded[a] : a \in mine'}
    /\ toSync' = {g \in Albums : scraped[g] # {}}
    /\ UNCHANGED <<library, recorded, holds, world, faults, scan, album, left, want, desired,
                   orphans, handmadeBefore>>

\* Mutant: the album's id is used without creating the album.
OpenAlbumUncreated(g) ==
    /\ pc = "albums" /\ album = None /\ g \in toSync
    /\ album' = g /\ toSync' = toSync \ {g}
    /\ want' = BytesOf(scraped[g] \cap byKey)
    /\ left' = scraped[g] \ byKey
    /\ UNCHANGED <<library, recorded, made, holds, world, faults, pc, scan, seen, desired, orphans,
                   handmadeBefore>>

\* The next scraped album, created or renamed if need be; photos whose key is
\* on a known asset are not downloaded again.
OpenAlbum(g) ==
    /\ pc = "albums" /\ album = None /\ g \in toSync
    /\ album' = g /\ toSync' = toSync \ {g} /\ CreateAlbum(g)
    /\ want' = BytesOf(scraped[g] \cap byKey)
    /\ left' = scraped[g] \ byKey
    /\ UNCHANGED <<library, recorded, holds, world, faults, pc, scan, seen, desired, orphans,
                   handmadeBefore>>

\* import_photo, first call of adopt: the photo is in the trash.
Restore(k) ==
    /\ pc = "albums" /\ k \in left /\ library[Bytes[k]] = "trashed"
    /\ library' = [library EXCEPT ![Bytes[k]] = "live"]
    /\ UNCHANGED <<recorded, made, holds, world, faults, runVars>>

\* import_photo: an upload that carries the key, or the key added to those of
\* the asset with the same bytes.
Import(k) ==
    LET a == Bytes[k] IN
    /\ pc = "albums" /\ k \in left /\ library[a] # "trashed"
    /\ library' = [library EXCEPT ![a] = "live"]
    /\ recorded' = [recorded EXCEPT ![a] = Noted(a, k)]
    /\ left' = left \ {k} /\ want' = want \cup {a}
    /\ byKey' = byKey \cup {k} /\ mine' = mine \cup {a}
    /\ UNCHANGED <<made, holds, world, faults, pc, scan, known, toSync, album, desired, orphans,
                   handmadeBefore>>

\* A photo that fails, or comes after MAX_RUNTIME, is left for the next run.
Skip(k) ==
    /\ pc = "albums" /\ k \in left /\ faults < MaxFaults
    /\ faults' = faults + 1 /\ left' = left \ {k}
    /\ UNCHANGED <<immich, world, pc, scan, seen, toSync, album, want, desired, orphans,
                   handmadeBefore>>

\* apply_album, its two calls.
AddPhotos ==
    /\ pc = "albums" /\ album # None /\ left = {}
    /\ AddToAlbum(album, want)
    /\ pc' = "prune"
    /\ UNCHANGED <<library, recorded, made, world, faults, scan, seen, plan, orphans, handmadeBefore>>

RemovePhotos ==
    /\ pc = "prune"
    /\ RemoveFromAlbum(album, ToRemove(want, holds[album]))
    /\ desired' = desired \cup want
    /\ pc' = "albums" /\ album' = None /\ want' = {}
    /\ UNCHANGED <<library, recorded, made, world, faults, scan, seen, toSync, left, orphans,
                   handmadeBefore>>

AddToCombined ==
    /\ pc = "albums" /\ album = None /\ toSync = {}
    /\ AddToAlbum(Combined, desired)
    /\ pc' = "combined"
    /\ UNCHANGED <<library, recorded, made, world, faults, scan, seen, plan, orphans, handmadeBefore>>

\* Mutant: the combined album is pruned after an incomplete run as well.
PruneCombinedAlways ==
    /\ pc = "combined"
    /\ RemoveFromAlbum(Combined, ToRemove(desired, holds[Combined]))
    /\ pc' = "finish"
    /\ UNCHANGED <<library, recorded, made, world, faults, scan, seen, plan, orphans, handmadeBefore>>

\* The combined album keeps what it has when an album couldn't be read.
PruneCombined ==
    /\ pc = "combined" /\ ~broken
    /\ RemoveFromAlbum(Combined, ToRemove(desired, holds[Combined]))
    /\ pc' = "finish"
    /\ UNCHANGED <<library, recorded, made, world, faults, scan, seen, plan, orphans, handmadeBefore>>

\* An incomplete run stops here, with exit code 1.
StopIncomplete ==
    /\ pc = "combined" /\ broken
    /\ Idle("idle") /\ UNCHANGED <<immich, world, faults>>

DropAlbum(g) ==
    /\ pc = "finish" /\ g \in made /\ scraped[g] = {}
    /\ made' = made \ {g} /\ holds' = [holds EXCEPT ![g] = {}]
    /\ UNCHANGED <<library, recorded, world, faults, runVars>>

Sweep ==
    /\ pc = "finish" /\ \A g \in Albums \cap made : scraped[g] # {}
    /\ orphans' = Orphans
    /\ pc' = "check"
    /\ UNCHANGED <<immich, world, faults, scan, seen, plan, handmadeBefore>>

\* Assets someone put in an album of their own are kept.
SpareHandmade ==
    /\ pc = "check"
    /\ orphans' = orphans \ handmade
    /\ pc' = "trash"
    /\ UNCHANGED <<immich, world, faults, scan, seen, plan, handmadeBefore>>

Trash ==
    /\ pc = "trash"
    /\ library' = [a \in Assets |-> IF a \in orphans THEN "trashed" ELSE library[a]]
    /\ holds' = [m \in Markers |-> holds[m] \ orphans]
    /\ Idle("idle") /\ UNCHANGED <<recorded, made, world, faults>>

\* Any other exception ends the run (exit code 2), as does losing the pod.
Abort ==
    /\ pc # "idle" /\ faults < MaxFaults /\ faults' = faults + 1
    /\ Idle("idle") /\ UNCHANGED <<immich, world>>

-----------------------------------------------------------------------------
(* People, Google and Immich                                               *)

Change == changes < MaxChanges /\ changes' = changes + 1

EditList ==
    /\ Change /\ \E g \in Albums : listed' = (listed \ {g}) \cup ({g} \ listed)
    /\ UNCHANGED <<immich, google, handmade, faults, runVars>>

EditGoogle(g) ==
    /\ Change /\ \E ks \in SUBSET KeysOf[g] : google' = [google EXCEPT ![g] = ks]
    /\ UNCHANGED <<immich, listed, handmade, faults, runVars>>

MakeAlbum(a) ==
    /\ Change /\ library[a] = "live" /\ handmade' = handmade \cup {a}
    /\ UNCHANGED <<immich, listed, google, faults, runVars>>

\* Immich empties its trash (30 days).
EmptyTrash(a) ==
    /\ library[a] = "trashed"
    /\ library' = [library EXCEPT ![a] = "absent"]
    /\ recorded' = [recorded EXCEPT ![a] = NotOurs]
    /\ handmade' = handmade \ {a}
    /\ UNCHANGED <<made, holds, listed, google, changes, faults, runVars>>

RunStep ==
    \/ StartRun \/ Look \/ AddPhotos \/ RemovePhotos \/ AddToCombined \/ PruneCombined
    \/ StopIncomplete \/ Sweep \/ SpareHandmade \/ Trash
    \/ \E g \in Albums : ReadAlbum(g) \/ OpenAlbum(g) \/ DropAlbum(g)
    \/ \E g \in Albums : ~Whole(g) /\ ReadFails(g)
    \/ \E k \in Keys : Restore(k) \/ Import(k)

SyncNext ==
    \/ StartRun \/ Look \/ AddPhotos \/ RemovePhotos \/ AddToCombined \/ PruneCombined
    \/ StopIncomplete \/ Sweep \/ SpareHandmade \/ Trash \/ Abort \/ EditList
    \/ \E g \in Albums : ReadAlbum(g) \/ ReadFails(g) \/ OpenAlbum(g) \/ DropAlbum(g) \/ EditGoogle(g)
    \/ \E k \in Keys : Restore(k) \/ Import(k) \/ Skip(k)
    \/ \E a \in Assets : MakeAlbum(a) \/ EmptyTrash(a)

\* The CronJob starts a run every hour and a run goes on unless it fails.
SyncFair == WF_syncVars(RunStep)

SyncSpec == SyncInit /\ [][SyncNext]_syncVars /\ SyncFair

-----------------------------------------------------------------------------
(* Properties                                                              *)

Scraped == UNION {scraped[g] : g \in Albums}

\* What a listed album still holds stays on the screen. An asset that the run
\* found in the synced albums leaves the combined album, or the library, only
\* in a run that read every listed album, and none of them holds an item
\* recorded on it: neither a failed read, nor a photo that fails to download,
\* nor the time budget takes a picture off the display (sync.py:447, :462).
MirrorKeepsListed ==
    [][\A a \in known : LET gone == \/ a \in holds[Combined] \ holds'[Combined]
                                    \/ library[a] = "live" /\ library'[a] = "trashed"
                        IN gone => ~broken /\ toRead = {} /\ recorded[a] \cap Scraped = {}]_syncVars

\* The job touches nothing of other people's: a photo without its metadata is
\* never trashed and never leaves an album, and one that was in somebody's own
\* album before the run began is never trashed (sync.py:466-475).
OthersUntouched ==
    [][\A a \in Assets :
         LET trashed == library[a] = "live" /\ library'[a] = "trashed" IN
         /\ ~Marked(a) => ~trashed /\ \A m \in Markers : a \in holds[m] => a \in holds'[m]
         /\ a \in handmadeBefore => ~trashed]_syncVars

\* Whatever runs that stopped half way left behind (photos uploaded into no
\* album, albums deleted before their photos), once the list, Google and the
\* network are quiet the library comes to hold exactly what is listed, apart
\* from photos people put in their own albums or uploaded.
Mirrored ==
    LET shown == UNION {BytesOf(google[g]) : g \in listed}
        foreign == {a \in Assets : ~Marked(a)}
    IN
    /\ made = listed \cup {Combined}
    /\ \A g \in listed : holds[g] = BytesOf(google[g])
    /\ holds[Combined] \ foreign = shown
    /\ \A a \in Assets : library[a] = "live" /\ Marked(a) => a \in shown \cup handmade

MirrorConverges == <>[](Mirrored \/ \E g \in listed : ~Whole(g))

=============================================================================
