--------------------------- MODULE KitchenPhotos ---------------------------
(***************************************************************************)
(* The photos of the kitchen screensaver (server.py): /api/photos and      *)
(* /img/<id>, one thread per request, over PhotoService (a lock) and       *)
(* ImageCache (another).  Immich's album changes under it, page by page,   *)
(* and Immich may fail at any request.                                     *)
(***************************************************************************)
EXTENDS Naturals, Sequences, FiniteSets, SequencesExt

CONSTANTS
    Threads,    \* requests at the same time
    Photos,     \* numbers, in the order Immich lists them
    FirstAlbum, \* the photos in it at first
    PageSize,   \* of the album search
    Bytes,      \* [Photos -> Nat]: size of an image
    MaxBytes,   \* IMAGE_CACHE_MB
    MaxEdits, MaxOutages, \* bounds: changes in Immich, failed requests
    Nobody, NoPhoto

ASSUME KitchenPhotosAssumption ==
    /\ Photos \subseteq Nat /\ FirstAlbum \subseteq Photos /\ PageSize \in Nat \ {0}
    /\ Bytes \in [Photos -> Nat \ {0}] /\ MaxBytes \in Nat
    /\ MaxEdits \in Nat /\ MaxOutages \in Nat
    /\ Nobody \notin Threads /\ NoPhoto \notin Photos

VARIABLES
    gallery, faceOf,   \* Immich: the album, and the photos whose faces it has found
    lock, loaded,    \* PhotoService: its lock, and "never", "fresh", "retry" or "due"
    list, ids,       \* photos (id and whether it has faces), ids
    faces,           \* per photo: "unknown", "none", "old" (asked an hour ago), "boxes"
    items, size,     \* ImageCache: the keys, oldest first, and the bytes it counts
    thread,          \* thread[t]: the request: where it is, the photo it wants
    page, scan,      \* the load under the lock: the page to read, photos read
    current,         \* the threads whose last /api/photos answered the list in hand
    edits, outages

immichVars == <<gallery, faceOf, edits>>
service == <<lock, loaded, list, ids, faces, page, scan>>
imageCache == <<items, size>>
galleryVars == <<immichVars, service, imageCache, thread, current, outages>>

Entry(p) == [id : {p}, faces : BOOLEAN]
Lists == SUBSET [id : Photos, faces : BOOLEAN]
Ids(l) == {e.id : e \in l}
BytesIn(keys) == MapThenSumSet(LAMBDA p : Bytes[p], keys)
Keys(s) == {s[i] : i \in DOMAIN s}

GalleryTypeOK ==
    /\ gallery \subseteq Photos /\ faceOf \subseteq Photos
    /\ lock \in Threads \cup {Nobody} /\ loaded \in {"never", "fresh", "retry", "due"}
    /\ list \in Lists /\ ids \subseteq Photos
    /\ faces \in [Photos -> {"unknown", "none", "old", "boxes"}]
    /\ items \in Seq(Photos) /\ size \in Nat
    /\ \A t \in Threads :
         /\ thread[t].at \in {"idle", "wait", "pages", "faces", "publish", "known", "fetch", "put"}
         /\ thread[t].at \in {"pages", "faces", "publish"} <=> lock = t
         /\ thread[t].photo \in Photos \cup {NoPhoto}
    /\ current \subseteq Threads
    /\ page \in Nat /\ scan \subseteq Photos
    /\ edits \in 0 .. MaxEdits /\ outages \in 0 .. MaxOutages

GalleryInit ==
    /\ gallery = FirstAlbum /\ faceOf = {} /\ edits = 0
    /\ lock = Nobody /\ loaded = "never" /\ list = {} /\ ids = {}
    /\ faces = [p \in Photos |-> "unknown"] /\ page = 0 /\ scan = {}
    /\ items = <<>> /\ size = 0 /\ outages = 0
    /\ thread = [t \in Threads |-> [at |-> "idle", photo |-> NoPhoto]]
    /\ current = {}

GoTo(t, where) == thread' = [thread EXCEPT ![t].at = where]
Done(t) == thread' = [thread EXCEPT ![t] = [at |-> "idle", photo |-> NoPhoto]]
Outage == outages < MaxOutages /\ outages' = outages + 1

\* The photos on page n of the album search now, and whether there are more.
OnPage(n) ==
    {p \in gallery : LET before == Cardinality({q \in gallery : q < p}) IN
                     before >= (n - 1) * PageSize /\ before < n * PageSize}
MoreAfter(n) == Cardinality(gallery) > n * PageSize

-----------------------------------------------------------------------------
(* /api/photos: PhotoService.get                                           *)

AskPhotos(t) ==
    /\ thread[t].at = "idle" /\ GoTo(t, "wait")
    /\ UNCHANGED <<immichVars, service, imageCache, current, outages>>

\* What get() leads to: the list, or the check of known().
Answer(t) ==
    IF thread[t].photo = NoPhoto
    THEN Done(t) /\ current' = current \cup {t}
    ELSE GoTo(t, "known") /\ UNCHANGED current

\* Mutant: the list in hand is answered without the lock, whatever its age.
GetUnlocked(t) ==
    /\ thread[t].at = "wait" /\ loaded # "never"
    /\ Answer(t)
    /\ UNCHANGED <<immichVars, lock, loaded, list, ids, faces, page, scan, imageCache, outages>>

GetFromMemory(t) ==
    /\ thread[t].at = "wait" /\ lock = Nobody /\ loaded \in {"fresh", "retry"}
    /\ Answer(t)
    /\ UNCHANGED <<immichVars, lock, loaded, list, ids, faces, page, scan, imageCache, outages>>

LoadStarts(t) ==
    /\ thread[t].at = "wait" /\ lock = Nobody /\ loaded \in {"never", "due"}
    /\ lock' = t /\ page' = 1 /\ scan' = {} /\ GoTo(t, "pages")
    /\ UNCHANGED <<immichVars, loaded, list, ids, faces, imageCache, current, outages>>

LoadPage(t) ==
    /\ thread[t].at = "pages"
    /\ scan' = scan \cup OnPage(page)
    /\ IF MoreAfter(page) THEN page' = page + 1 /\ UNCHANGED thread
       ELSE page' = 0 /\ GoTo(t, "faces")
    /\ UNCHANGED <<immichVars, lock, loaded, list, ids, faces, imageCache, current, outages>>

\* What Immich says of a photo: boxes, or none (yet).
FaceBoxes(p) == IF p \in faceOf THEN "boxes" ELSE "none"
Lacking(p) == faces[p] \in {"unknown", "old"}

\* In the order of the list: the faces of a photo without any, never asked for or
\* an hour ago. A request that fails leaves what was known, for another hour.
LoadFaces(t, p) ==
    /\ thread[t].at = "faces" /\ p \in scan /\ Lacking(p)
    /\ \A q \in scan : q < p => ~Lacking(q)
    /\ \/ faces' = [faces EXCEPT ![p] = FaceBoxes(p)] /\ UNCHANGED outages
       \/ faces' = [faces EXCEPT ![p] = "none"] /\ Outage
    /\ UNCHANGED <<immichVars, lock, loaded, list, ids, page, scan, imageCache, thread, current>>

\* self.photos first, then the rest: known() takes no lock and may come between.
SetPhotos(t) ==
    /\ thread[t].at = "faces" /\ \A p \in scan : ~Lacking(p)
    /\ list' = {[id |-> p, faces |-> faces[p] = "boxes"] : p \in scan}
    /\ current' = {} /\ GoTo(t, "publish")
    /\ UNCHANGED <<immichVars, lock, loaded, ids, faces, page, scan, imageCache, outages>>

LoadDone(t) ==
    /\ thread[t].at = "publish"
    /\ ids' = Ids(list) /\ loaded' = "fresh"
    /\ faces' = [p \in Photos |-> IF p \in ids' THEN faces[p] ELSE "unknown"]
    /\ lock' = Nobody /\ scan' = {} /\ Answer(t)
    /\ UNCHANGED <<immichVars, list, page, imageCache, outages>>

\* No album, or no page: keep what we had, retry in a minute.
LoadFails(t) ==
    /\ thread[t].at = "pages" /\ Outage
    /\ loaded' = "retry" /\ lock' = Nobody /\ page' = 0 /\ scan' = {}
    /\ Answer(t)
    /\ UNCHANGED <<immichVars, list, ids, faces, imageCache>>

\* A cut-off reply is an HTTPException, which nothing catches before the handler:
\* the request gets a 500, and the next one loads again.
LoadRaises(t) ==
    /\ thread[t].at \in {"pages", "faces"} /\ Outage
    /\ Done(t) /\ lock' = Nobody /\ page' = 0 /\ scan' = {}
    /\ UNCHANGED <<immichVars, loaded, list, ids, faces, imageCache, current>>

-----------------------------------------------------------------------------
(* /img/<id>                                                               *)

\* known() loads the album only if nothing was ever loaded.
AskImage(t, p) ==
    /\ thread[t].at = "idle"
    /\ thread' = [thread EXCEPT ![t] = [at |-> IF loaded = "never" THEN "wait" ELSE "known",
                                        photo |-> p]]
    /\ UNCHANGED <<immichVars, service, imageCache, current, outages>>

\* A key that is there goes to the end.
MovedToEnd(s, p) == Append(RemoveAt(s, CHOOSE i \in DOMAIN s : s[i] = p), p)

\* known() and ImageCache.get: 404, a hit, or a fetch.
CacheGet(t) ==
    LET p == thread[t].photo IN
    /\ thread[t].at = "known"
    /\ IF p \notin ids THEN Done(t) /\ UNCHANGED items
       ELSE IF p \in Keys(items) THEN items' = MovedToEnd(items, p) /\ Done(t)
       ELSE GoTo(t, "fetch") /\ UNCHANGED items
    /\ UNCHANGED <<immichVars, service, size, current, outages>>

Fetch(t) ==
    /\ thread[t].at = "fetch"
    /\ \/ GoTo(t, "put") /\ UNCHANGED outages
       \/ Done(t) /\ Outage
    /\ UNCHANGED <<immichVars, service, imageCache, current>>

\* The oldest images go until the rest fits.
Evicted(s, total) ==
    LET fits == {n \in 0 .. Len(s) : total - BytesIn(Keys(SubSeq(s, 1, n))) <= MaxBytes}
    IN  Min(fits)

PutInto(t, s, total) ==
    LET n == Evicted(s, total) IN
    /\ items' = SubSeq(s, n + 1, Len(s))
    /\ size' = total - BytesIn(Keys(SubSeq(s, 1, n)))

\* Mutant: an image another thread has put meanwhile is counted again.
CachePutTwice(t) ==
    LET p == thread[t].photo IN
    /\ thread[t].at = "put" /\ Done(t)
    /\ IF Bytes[p] > MaxBytes THEN UNCHANGED imageCache
       ELSE PutInto(t, IF p \in Keys(items) THEN items ELSE Append(items, p), size + Bytes[p])
    /\ UNCHANGED <<immichVars, service, current, outages>>

CachePut(t) ==
    LET p == thread[t].photo IN
    /\ thread[t].at = "put" /\ Done(t)
    /\ IF Bytes[p] > MaxBytes \/ p \in Keys(items) THEN UNCHANGED imageCache
       ELSE PutInto(t, Append(items, p), size + Bytes[p])
    /\ UNCHANGED <<immichVars, service, current, outages>>

-----------------------------------------------------------------------------
(* Time and Immich                                                         *)

\* Mutant: faces are asked for once.
AlbumDueOnly(anHour) ==
    /\ loaded \in {"fresh", "retry"} /\ loaded' = "due"
    /\ UNCHANGED <<immichVars, lock, list, ids, faces, page, scan, imageCache, thread, current, outages>>

\* ALBUM_TTL, or a minute after a failure; meanwhile it may be an hour since
\* faces were asked for.
AlbumDue(anHour) ==
    /\ loaded \in {"fresh", "retry"} /\ loaded' = "due"
    /\ faces' = IF anHour THEN [p \in Photos |-> IF faces[p] = "none" THEN "old" ELSE faces[p]]
                ELSE faces
    /\ UNCHANGED <<immichVars, lock, list, ids, page, scan, imageCache, thread, current, outages>>

EditAlbum(p) ==
    /\ edits < MaxEdits /\ edits' = edits + 1
    /\ \/ gallery' = (gallery \ {p}) \cup ({p} \ gallery) /\ UNCHANGED faceOf
       \/ p \in gallery \ faceOf /\ faceOf' = faceOf \cup {p} /\ UNCHANGED gallery
    /\ UNCHANGED <<service, imageCache, thread, current, outages>>

RequestRuns(t) ==
    \/ GetFromMemory(t) \/ LoadStarts(t) \/ LoadPage(t) \/ SetPhotos(t) \/ LoadDone(t)
    \/ CacheGet(t) \/ Fetch(t) \/ CachePut(t)
    \/ \E p \in Photos : LoadFaces(t, p)

GalleryNext ==
    \/ \E t \in Threads : \/ AskPhotos(t) \/ GetFromMemory(t) \/ LoadStarts(t) \/ LoadPage(t)
                          \/ SetPhotos(t) \/ LoadDone(t) \/ LoadFails(t) \/ LoadRaises(t)
                          \/ CacheGet(t) \/ Fetch(t) \/ CachePut(t)
                          \/ \E p \in Photos : LoadFaces(t, p) \/ AskImage(t, p)
    \/ \E anHour \in BOOLEAN : AlbumDue(anHour)
    \/ \E p \in Photos : EditAlbum(p)

\* Threads run.
GalleryFair == \A t \in Threads : WF_galleryVars(RequestRuns(t))

\* Some display asks for the list every so often, and hours pass.
DisplaysAsk ==
    SF_galleryVars(\E t \in Threads : AskPhotos(t)) /\ SF_galleryVars(AlbumDue(TRUE))

GallerySpec == GalleryInit /\ [][GalleryNext]_galleryVars /\ GalleryFair

-----------------------------------------------------------------------------
(* Properties                                                              *)

\* The image cache counts the bytes it holds and stays within its limit, though
\* two threads may fetch and put the same image (server.py:482, :636).
CacheCounts == size = BytesIn(Keys(items)) /\ size <= MaxBytes

\* A display that has the current list gets no 404 for a photo on it: known()
\* reads the ids without the lock, and the load sets them after the list
\* (server.py:432, :457).
ListedIsKnown == current # {} => Ids(list) \subseteq ids

\* Whatever failed, was added, removed or moved between pages while the album
\* was read, the service ends up with Immich's album, and with the faces Immich
\* has found, while displays ask: a failed read is made again, and none keeps the
\* lock.
GalleryConverges ==
    DisplaysAsk => <>[](list = {[id |-> p, faces |-> p \in faceOf] : p \in gallery})

=============================================================================
