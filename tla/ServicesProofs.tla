--------------------------- MODULE ServicesProofs ---------------------------
(* Theorems about the services that run side by side and share nothing.        *)
EXTENDS MCServices, FiniteSetTheorems, WellFoundedInduction, TLAPS

-----------------------------------------------------------------------------
(* The Coral detectors                                                         *)

\* What the services are configured with: Corals of their own, one or two of them. With
\* a third, or two services on one path, the list can change and change back between the
\* two looks of a service though no Coral came back, and it keeps another's.
OwnCorals ==
  /\ \A s, t \in Servers : Selected[s] = Selected[t] => s = t
  /\ \A c, d, e \in Corals : c = d \/ d = e \/ c = e

CoralSpots ==
  /\ plugged \subseteq Corals /\ flashing \subseteq plugged /\ disturbed \subseteq Servers
  /\ at \in [Servers -> {"down", "address", "load", "bind"} \cup Opening \cup Bound]
  /\ listed \in [Servers -> SUBSET Corals]
  /\ delegate \in [Servers -> Corals \cup {NoCoral, Gone}]

\* A Coral that a process holds is attached, and re-enumerates while that one flashes it.
Held ==
  /\ \A s, t \in Servers : delegate[s] \in Corals /\ delegate[s] = delegate[t] => s = t
  /\ \A s \in Servers : delegate[s] \in Corals =>
       delegate[s] \in plugged /\ (delegate[s] \in flashing <=> at[s] = "flash")
  /\ \A d \in flashing : \E s \in Servers : delegate[s] = d
  /\ \A s \in Servers : at[s] \in {"flash", "check"} => delegate[s] # NoCoral

\* The Coral came back while a service was between its two looks.
CameBack(c) == \A s \in Servers : Selected[s] = c => s \in disturbed

\* What a service did not see when it read the list was being flashed, or has been
\* since, or came back since.
Missed ==
  \A s \in Servers : at[s] \in Looked =>
    /\ Selected[s] \in listed[s]
    /\ at[s] = "open" =>
         \A c \in plugged \ listed[s] : c \in flashing \/ c \notin dfu \/ CameBack(c)

\* The wrong Coral has either not been on the service's list, or its own was unplugged
\* since, and maybe came back; only one behind its own, or one that came back, can be
\* flashed by mistake.
WrongShows ==
  \A s \in Servers : at[s] \in {"flash", "check"} /\ delegate[s] \in Corals \ {Selected[s]} =>
    /\ delegate[s] \notin listed[s] \/ Selected[s] \notin plugged \/ s \in disturbed
    /\ at[s] = "flash" => delegate[s] > Selected[s] \/ CameBack(delegate[s])

CInv == CoralSpots /\ Held /\ Missed /\ WrongShows /\ RightCoral

LEMMA CoralInvInit == CoralInit => CInv
BY CoralAssumption DEF CoralInit, CInv, CoralSpots, Held, Missed, WrongShows, RightCoral, Opening, Bound, Looked

\* A Coral's index is that of no other Coral, and 0 of the first.
LEMMA IndexIsItsOwn ==
  ASSUME NEW S \in SUBSET Corals, NEW c \in S, NEW d \in S
  PROVE  /\ Index(c, S) = Index(d, S) => c = d
         /\ Index(c, S) = 0 <=> \A e \in S : ~(e < c)
<1> DEFINE Below(x) == {e \in S : e < x}
<1> USE CoralAssumption
<1>1. /\ IsFiniteSet(S) /\ Corals \subseteq Nat
      /\ c \in Nat /\ d \in Nat /\ \A e \in S : e \in Nat
  BY FS_Subset
<1>2. IsFiniteSet(Below(c)) /\ IsFiniteSet(Below(d))
  BY <1>1, FS_Subset, Below(c) \in SUBSET S, Below(d) \in SUBSET S
<1>3. ASSUME NEW x \in {c, d}, NEW y \in {c, d}, x < y
      PROVE  Cardinality(Below(x)) # Cardinality(Below(y))
  <2>1. x \in Below(y) /\ x \notin Below(x) /\ \A e \in S : e < x => e < y
    BY <1>1, <1>3
  <2> QED BY <1>2, <2>1, FS_Subset, Below(x) \in SUBSET Below(y)
<1>4. Index(c, S) = Index(d, S) => c = d
  BY <1>1, <1>3 DEF Index
<1>5. Index(c, S) = 0 <=> Below(c) = {}
  BY <1>2, FS_EmptySet DEF Index
<1> QED BY <1>4, <1>5

\* A service goes elsewhere and leaves the bus, what it listed and what it holds alone.
LEMMA WalkKeeps ==
  ASSUME CInv, NEW s \in Servers, UNCHANGED <<plugged, flashing, dfu, disturbed, listed, delegate>>,
         NEW where \in {"down", "address", "load", "bind", "list"} \cup Bound,
         at' = [at EXCEPT ![s] = where], at[s] \notin {"flash", "open"},
         at[s] \in {"down", "address"} => where \in {"down", "address", "list"},
         at[s] = "list" => where = "list",
         at[s] = "check" /\ where # "list" => delegate[s] \in {Selected[s], Gone} \/ s \in disturbed
  PROVE  CInv'
<1> USE CoralAssumption DEF CInv, CoralSpots, Opening, Bound, Looked
<1>1. CoralSpots' /\ at'[s] = where /\ \A t \in Servers \ {s} : at'[t] = at[t]
  OBVIOUS
<1>2. Held'
  BY <1>1 DEF Held
<1>3. Missed' /\ WrongShows'
  BY <1>1 DEF Missed, WrongShows, CameBack
<1>4. RightCoral'
  BY <1>1 DEF RightCoral
<1> QED BY <1>1, <1>2, <1>3, <1>4

LEMMA EndsKeeps ==
  ASSUME CInv, NEW s \in Servers, UNCHANGED usb, Ends(s), at[s] # "flash"
  PROVE  CInv'
<1> USE CoralAssumption DEF CInv, CoralSpots, Opening, Bound, Looked, Ends, Goes, Set, usb
<1>1. /\ CoralSpots' /\ at'[s] = "down" /\ delegate'[s] = NoCoral
      /\ \A t \in Servers \ {s} : at'[t] = at[t] /\ delegate'[t] = delegate[t] /\ listed'[t] = listed[t]
  OBVIOUS
<1>2. Held'
  BY <1>1 DEF Held
<1>3. Missed' /\ WrongShows' /\ RightCoral'
  BY <1>1 DEF Missed, WrongShows, RightCoral, CameBack
<1> QED BY <1>1, <1>2, <1>3

LEMMA ResolveKeeps ==
  ASSUME CInv, NEW s \in Servers, Resolve(s)
  PROVE  CInv'
<1> USE CoralAssumption DEF CInv, CoralSpots, Opening, Bound, Looked, Resolve, Goes, Set, Visible
<1>1. /\ CoralSpots' /\ at'[s] = "open" /\ listed'[s] = plugged \ flashing
      /\ \A t \in Servers \ {s} : at'[t] = at[t] /\ listed'[t] = listed[t]
      /\ UNCHANGED <<plugged, dfu, flashing, delegate>>
  OBVIOUS
<1>a. /\ disturbed \ {s} \subseteq disturbed'
      /\ \A t \in Servers \ {s} : at[t] \in Looked => disturbed' = disturbed
  OBVIOUS
<1>2. Held'
  BY <1>1 DEF Held
<1>3. Missed' /\ WrongShows' /\ RightCoral'
  BY <1>1, <1>a DEF Missed, WrongShows, RightCoral, CameBack
<1> QED BY <1>1, <1>2, <1>3

\* Whatever a service takes, the wrong one shows or its own came back; what it has to
\* flash came back, or it saw it, and it is behind its own, which is then not attached.
LEMMA TakenShows ==
  ASSUME CInv, OwnCorals, NEW s \in Servers, at[s] = "open", NEW d \in Visible,
         IsNth(d, Index(Selected[s], listed[s]), Visible), Free(d), d # Selected[s]
  PROVE  /\ d \notin listed[s] \/ Selected[s] \notin plugged \/ s \in disturbed
         /\ d \in dfu => d > Selected[s] \/ CameBack(d)
<1> USE CoralAssumption DEF CInv, CoralSpots, Looked
<1> DEFINE own == Selected[s]
<1>1. /\ own \in Corals /\ d \in Corals /\ own \in listed[s] /\ listed[s] \subseteq Corals
      /\ Visible \subseteq Corals /\ d \in Nat /\ own \in Nat /\ Corals \subseteq Nat
  BY DEF Missed, Visible
<1>2. Index(d, Visible) = Index(own, listed[s])
  BY DEF IsNth
<1>3. \A e \in Corals : e = own \/ e = d
  BY <1>1 DEF OwnCorals
<1>4. CASE d \in listed[s]
  <2>1. listed[s] = {own, d} /\ own \notin Visible
    <3>1. listed[s] = {own, d}
      BY <1>1, <1>3, <1>4
    <3>2. own \in Visible => Visible = listed[s]
      <4>1. own \in Visible => \A e : e \in Visible <=> e \in listed[s]
        BY <1>1, <1>3, <3>1
      <4> QED BY <4>1, Zenon
    <3> QED BY <1>1, <1>2, <3>1, <3>2, IndexIsItsOwn
  <2>2. Visible = {d}
    <3>1. \A e : e \in Visible <=> e \in {d}
      BY <1>1, <1>3, <2>1
    <3> QED BY <3>1, Zenon
  <2>3. own < d
    <3>1. Index(d, Visible) = 0
      BY <1>1, <2>2, IndexIsItsOwn
    <3>2. ~(d < own)
      BY <1>1, <1>2, <1>4, <3>1, IndexIsItsOwn
    <3> QED BY <1>1, <3>2
  <2>4. own \notin plugged \/ s \in disturbed
    <3>1. SUFFICES ASSUME own \in flashing PROVE s \in disturbed
      BY <2>1 DEF Visible
    <3>2. PICK t \in Servers : delegate[t] = own /\ at[t] = "flash"
      BY <1>1, <3>1 DEF Held
    <3>3. Selected[t] # own /\ Selected[t] \in Corals /\ t # s
      BY <3>2 DEF OwnCorals
    <3>4. Selected[t] = d /\ (own > Selected[t] \/ CameBack(own))
      BY <1>1, <3>2, <3>3 DEF OwnCorals, WrongShows
    <3> QED BY <1>1, <2>3, <3>4 DEF CameBack
  <2> QED BY <2>3, <2>4
<1>5. CASE d \notin listed[s]
  BY <1>5 DEF Missed, Visible
<1> QED BY <1>4, <1>5

LEMMA LoadDelegateKeeps ==
  ASSUME CInv, OwnCorals, NEW s \in Servers, LoadDelegate(s)
  PROVE  CInv'
<1> USE CoralAssumption DEF CInv, CoralSpots, Opening, Bound, Looked
<1>1. CASE UNCHANGED <<flashing, delegate>> /\ Goes(s, "list")
  <2>1. /\ at' = [at EXCEPT ![s] = "list"] /\ at[s] = "open"
        /\ UNCHANGED <<plugged, flashing, dfu, disturbed, listed, delegate>>
    BY <1>1 DEF LoadDelegate, Goes
  <2>2. CoralSpots' /\ at'[s] = "list" /\ \A t \in Servers \ {s} : at'[t] = at[t]
    BY <2>1
  <2> QED BY <2>1, <2>2 DEF Held, Missed, WrongShows, RightCoral, CameBack
<1>2. ASSUME NEW d \in Visible, IsNth(d, Index(Selected[s], listed[s]), Visible), Free(d),
             delegate' = Set(delegate, s, d),
             IF d \in dfu THEN flashing' = flashing \cup {d} /\ Goes(s, "flash")
                          ELSE UNCHANGED flashing /\ Goes(s, "check")
      PROVE  CInv'
  <2>1. at[s] = "open" /\ UNCHANGED <<plugged, dfu, disturbed, listed>> /\ d \in Corals /\ d \in plugged \ flashing
    BY <1>2 DEF LoadDelegate, Visible
  <2>2. /\ CoralSpots' /\ delegate'[s] = d
        /\ \A t \in Servers \ {s} : at'[t] = at[t] /\ delegate'[t] = delegate[t]
    BY <1>2, <2>1 DEF Goes, Set
  <2>3. \/ d \in dfu /\ flashing' = flashing \cup {d} /\ at'[s] = "flash"
        \/ d \notin dfu /\ flashing' = flashing /\ at'[s] = "check"
    BY <1>2, <2>1 DEF Goes
  <2>4. Held'
    BY <1>2, <2>1, <2>2, <2>3 DEF Held, Free
  <2>5. Missed'
    BY <2>1, <2>2, <2>3 DEF Missed, CameBack
  <2>6. WrongShows'
    BY <1>2, <2>1, <2>2, <2>3, TakenShows DEF WrongShows, CameBack
  <2>7. RightCoral'
    BY <2>1, <2>2, <2>3 DEF RightCoral
  <2> QED BY <2>2, <2>4, <2>5, <2>6, <2>7
<1> QED BY <1>1, <1>2 DEF LoadDelegate

LEMMA FlashedKeeps ==
  ASSUME CInv, NEW s \in Servers, Flashed(s)
  PROVE  CInv'
<1> USE CoralAssumption DEF CInv, CoralSpots, Opening, Bound, Looked
<1>1. at[s] = "flash" /\ UNCHANGED <<plugged, disturbed, listed>>
  BY DEF Flashed
<1>2. CASE delegate[s] = Gone
  <2>1. /\ CoralSpots' /\ at'[s] = "list" /\ delegate'[s] = NoCoral /\ UNCHANGED <<dfu, flashing>>
        /\ \A t \in Servers \ {s} : at'[t] = at[t] /\ delegate'[t] = delegate[t]
    BY <1>1, <1>2 DEF Flashed, Goes, Set
  <2>2. Held'
    BY <1>1, <1>2, <2>1 DEF Held
  <2> QED BY <1>1, <2>1, <2>2 DEF Missed, WrongShows, RightCoral, CameBack
<1>3. CASE delegate[s] # Gone
  <2>1. /\ CoralSpots' /\ at'[s] = "check" /\ UNCHANGED delegate
        /\ flashing' = flashing \ {delegate[s]} /\ dfu' = dfu \ {delegate[s]}
        /\ \A t \in Servers \ {s} : at'[t] = at[t]
    BY <1>1, <1>3 DEF Flashed, Goes
  <2>2. Held'
    BY <1>1, <1>3, <2>1 DEF Held
  <2>3. Missed' /\ WrongShows' /\ RightCoral'
    BY <1>1, <2>1 DEF Missed, WrongShows, RightCoral, CameBack
  <2> QED BY <2>1, <2>2, <2>3
<1> QED BY <1>2, <1>3

\* The list is as it was: the Coral it holds was on it, and so is its own, which may
\* have come back.
LEMMA CheckListKeeps ==
  ASSUME CInv, NEW s \in Servers, CheckList(s)
  PROVE  CInv'
<1> USE CoralAssumption DEF CInv, CoralSpots, Opening, Bound, Looked
<1>1. at[s] = "check" /\ UNCHANGED <<plugged, dfu, flashing, disturbed, listed>>
  BY DEF CheckList, usb
<1>2. CASE Visible = listed[s]
  <2>1. Goes(s, "load") /\ UNCHANGED delegate
    BY <1>2 DEF CheckList
  <2>2. delegate[s] \in {Selected[s], Gone} \/ s \in disturbed
    BY <1>1, <1>2 DEF Held, Missed, WrongShows, Visible, CheckList
  <2> QED BY <1>1, <2>1, <2>2, WalkKeeps DEF Goes
<1>3. CASE Visible # listed[s]
  <2>1. /\ CoralSpots' /\ at'[s] = "list" /\ delegate'[s] = NoCoral
        /\ \A t \in Servers \ {s} : at'[t] = at[t] /\ delegate'[t] = delegate[t]
    BY <1>1, <1>3 DEF CheckList, Goes, Set
  <2>2. Held'
    BY <1>1, <2>1 DEF Held
  <2> QED BY <1>1, <2>1, <2>2 DEF Missed, WrongShows, RightCoral, CameBack
<1> QED BY <1>2, <1>3

LEMMA UnplugKeeps ==
  ASSUME CInv, NEW d \in Corals, Unplug(d)
  PROVE  CInv'
<1> USE CoralAssumption DEF CInv, CoralSpots, Opening, Bound, Looked
<1>1. /\ CoralSpots' /\ plugged' = plugged \ {d} /\ flashing' = flashing \ {d}
      /\ UNCHANGED <<dfu, disturbed, at, listed>>
      /\ \A s \in Servers : delegate'[s] = IF delegate[s] = d THEN Gone ELSE delegate[s]
  BY DEF Unplug
<1>2. Held'
  BY <1>1 DEF Held
<1>3. Missed' /\ WrongShows' /\ RightCoral'
  BY <1>1 DEF Missed, WrongShows, RightCoral, CameBack
<1> QED BY <1>1, <1>2, <1>3

LEMMA PlugKeeps ==
  ASSUME CInv, NEW d \in Corals, Plug(d)
  PROVE  CInv'
<1> USE CoralAssumption DEF CInv, CoralSpots, Opening, Bound, Looked
<1>1. /\ CoralSpots' /\ plugged' = plugged \cup {d} /\ d \notin plugged /\ dfu' = dfu \cup {d}
      /\ UNCHANGED <<flashing, at, listed, delegate>>
  BY DEF Plug, process
<1>2. disturbed \subseteq disturbed' /\ \A c \in Corals : CameBack(c) => CameBack(c)'
  BY DEF Plug, CameBack
<1>3. (\E s \in Servers : at[s] \in Looked) => CameBack(d)'
  BY DEF Plug, CameBack
<1>4. Held' /\ RightCoral'
  BY <1>1, <1>2 DEF Held, RightCoral
<1>5. Missed'
  BY <1>1, <1>2, <1>3 DEF Missed
<1>6. WrongShows'
  <2> SUFFICES ASSUME NEW s \in Servers, at[s] \in {"flash", "check"},
                      delegate[s] \in Corals \ {Selected[s]}
               PROVE  /\ delegate[s] \notin listed[s] \/ Selected[s] \notin plugged' \/ s \in disturbed'
                      /\ at[s] = "flash" => delegate[s] > Selected[s] \/ CameBack(delegate[s])'
    BY <1>1 DEF WrongShows
  <2>1. Selected[s] = d => s \in disturbed'
    BY <1>3 DEF CameBack
  <2>2. CameBack(delegate[s]) => CameBack(delegate[s])'
    BY <1>1, <1>2 DEF CameBack
  <2> QED BY <1>1, <1>2, <2>1, <2>2 DEF WrongShows
<1> QED BY <1>1, <1>4, <1>5, <1>6

LEMMA ServerStepKeeps ==
  ASSUME CInv, OwnCorals, NEW s \in Servers, ServerStep(s)
  PROVE  CInv'
<1> USE DEF usb, process, Goes
<1>1. CASE ServiceStart(s) \/ WaitForAddress(s) \/ LoadHangs(s) \/ StartupLoad(s)
  BY <1>1, WalkKeeps DEF ServiceStart, WaitForAddress, LoadHangs, StartupLoad, Bound
<1>2. CASE Detect(s) \/ Inferred(s) \/ InferenceHangs(s)
  BY <1>2, WalkKeeps DEF Detect, Inferred, InferenceHangs, Bound
<1>3. CASE BindSocket(s)
  <2>1. CASE address
    BY <1>3, <2>1, WalkKeeps DEF BindSocket, Bound
  <2>2. CASE ~address
    BY <1>3, <2>2, EndsKeeps DEF BindSocket
  <2> QED BY <2>1, <2>2
<1>4. CASE InferenceFails(s)
  <2>1. CASE errors[s] + 1 = MaxErrors
    BY <1>4, <2>1, EndsKeeps DEF InferenceFails
  <2>2. CASE errors[s] + 1 # MaxErrors
    BY <1>4, <2>2, WalkKeeps DEF InferenceFails, Bound
  <2> QED BY <2>1, <2>2
<1>5. CASE WatchdogExit(s) \/ Stopped(s) \/ AddressCheck(s)
  BY <1>5, EndsKeeps DEF WatchdogExit, Stopped, AddressCheck
<1>6. CASE ModelRequest(s) \/ DetectWithoutModel(s)
  <2>1. UNCHANGED <<plugged, dfu, flashing, disturbed, at, listed, delegate>>
    BY <1>6 DEF ModelRequest, DetectWithoutModel
  <2> QED
    BY <2>1 DEF CInv, CoralSpots, Held, Missed, WrongShows, RightCoral, CameBack, Looked
<1> QED
  BY <1>1, <1>2, <1>3, <1>4, <1>5, <1>6, ResolveKeeps, LoadDelegateKeeps, FlashedKeeps,
     CheckListKeeps DEF ServerStep

LEMMA CoralInvNext ==
  ASSUME CInv, OwnCorals, [CoralNext]_coralVars
  PROVE  CInv'
<1>1. CASE \/ UNCHANGED coralVars \/ AddressChanges
           \/ \E s \in Servers : HandshakeFails(s) \/ FrigateRestarts(s)
  BY <1>1 DEF coralVars, AddressChanges, HandshakeFails, FrigateRestarts, usb, process,
     CInv, CoralSpots, Held, Missed, WrongShows, RightCoral, CameBack, Looked
<1> QED BY <1>1, ServerStepKeeps, UnplugKeeps, PlugKeeps DEF CoralNext

\* A service configured with a path works on the Coral there, whatever other services
\* flash, people unplug and plug in, and processes end and start again meanwhile: with
\* two Corals, the second look at the list is enough (edgetpu.py:96) for all but one
\* whose own Coral came back while services opened theirs.
THEOREM RightCoralCorrect ==
  ASSUME OwnCorals
  PROVE  CoralSpec => []RightCoral
<1>1. CInv => RightCoral
  BY DEF CInv
<1>2. CInv /\ [CoralNext]_coralVars => CInv'
  BY CoralInvNext
<1> QED BY <1>1, <1>2, CoralInvInit, PTL DEF CoralSpec

-----------------------------------------------------------------------------
(* The evidence collector                                                      *)

Sections == {"workloads", "services", "recovery"}

EvidenceParts ==
  /\ pass \in [Scrapes -> {"idle", "answered"} \cup Sections]
  /\ rows \in [Scrapes -> [ok : BOOLEAN, running : SUBSET Apps]]
  /\ probed \in [Scrapes -> SUBSET Apps] /\ fence \in [Scrapes -> {"unknown", "met", "notMet"}]
  /\ runs \subseteq Apps /\ desired \subseteq Apps /\ toRead \subseteq Apps
  /\ {checked, served, looked} \subseteq 0 .. Never

\* One scrape at a time is under way.
OnePass == \A s \in Scrapes : pass[s] \in Sections => passLock = s

\* A pass shows what it found until a section fails, and probes that.
PassAgrees ==
  \A s \in Scrapes :
    /\ pass[s] = "workloads" => rows[s].running = desired
    /\ pass[s] = "services" /\ rows[s].ok => rows[s].running = desired
    /\ pass[s] \in {"recovery", "answered"} /\ rows[s].ok => probed[s] = rows[s].running
    /\ pass[s] # "answered" => fence[s] = "unknown"

\* No attestation is younger than the look it is of.
AttestedLater == looked <= checked /\ looked <= served

EInv == EvidenceParts /\ OnePass /\ PassAgrees /\ AttestedLater

LEMMA EvidenceInvInit == EvidenceInit => EInv
BY EvidenceAssumption
   DEF EvidenceInit, EInv, EvidenceParts, OnePass, PassAgrees, AttestedLater, Sections, Never, NoRows

\* What happens around the passes.
LEMMA AroundPassKeeps ==
  ASSUME EInv, Move \/ Minute \/ FenceJob \/ Publish
  PROVE  EInv'
<1> USE EvidenceAssumption DEF EInv, AttestedLater, passing, attesting, world
<1>1. CASE Move
  BY <1>1 DEF Move, EvidenceParts, OnePass, PassAgrees
<1>2. ASSUME UNCHANGED <<passing, runs>>, AttestedLater', {checked', served', looked'} \subseteq 0 .. Never
      PROVE  EInv'
  BY <1>2 DEF EvidenceParts, OnePass, PassAgrees
<1>3. CASE Minute
  <2>1. {checked', served', looked'} \subseteq 0 .. Never /\ AttestedLater'
    <3>1. /\ \A x \in 0 .. Never : Older(x) \in 0 .. Never
          /\ \A x, y \in 0 .. Never : x <= y => Older(x) <= Older(y)
      BY DEF Older, Never
    <3>2. checked \in 0 .. Never /\ served \in 0 .. Never /\ looked \in 0 .. Never
      BY DEF EvidenceParts
    <3>3. checked' = Older(checked) /\ served' = Older(served) /\ looked' = Older(looked)
      BY <1>3 DEF Minute
    <3> QED BY <3>1, <3>2, <3>3
  <2>2. UNCHANGED <<passing, runs>>
    BY <1>3 DEF Minute
  <2> QED BY <1>2, <2>1, <2>2
<1>4. CASE FenceJob \/ Publish
  BY <1>2, <1>4 DEF FenceJob, Publish, EvidenceParts, Never
<1> QED BY <1>1, <1>3, <1>4

LEMMA PassKeeps ==
  ASSUME EInv, NEW s \in Scrapes,
         \/ Collect(s) \/ ReadWorkload(s) \/ WorkloadsDone(s) \/ WorkloadsFail(s)
         \/ Services(s) \/ Recovery(s) \/ Answered(s)
  PROVE  EInv'
<1> USE EvidenceAssumption DEF EInv, EvidenceParts, OnePass, PassAgrees, AttestedLater, Sections, At,
        NoRows, attesting, world
<1>1. CASE Collect(s)
  BY <1>1 DEF Collect
<1>2. CASE ReadWorkload(s)
  <2>1. PICK a \in toRead :
          /\ desired' = IF a \in runs THEN desired \cup {a} ELSE desired
          /\ rows' = [rows EXCEPT ![s].running = IF a \in runs THEN @ \cup {a} ELSE @]
    BY <1>2 DEF ReadWorkload
  <2>2. /\ rows'[s].running = IF a \in runs THEN rows[s].running \cup {a} ELSE rows[s].running
        /\ \A t \in Scrapes \ {s} : rows'[t] = rows[t]
    BY <2>1
  <2>3. rows' \in [Scrapes -> [ok : BOOLEAN, running : SUBSET Apps]]
    BY <2>1
  <2>4. pass[s] = "workloads" /\ UNCHANGED <<attesting, passLock, pass, probed, fence, runs>>
        /\ desired' \subseteq Apps /\ toRead' \subseteq Apps
    BY <1>2, <2>1 DEF ReadWorkload
  <2>5. rows'[s].running = desired'
    BY <2>1, <2>2, <2>4
  <2>6. \A t \in Scrapes \ {s} : pass[t] \notin Sections
    BY <2>4
  <2>7. PassAgrees'
    BY <2>2, <2>4, <2>5, <2>6
  <2> QED BY <2>3, <2>4, <2>7
<1>3. CASE WorkloadsDone(s)
  <2>1. rows' = [rows EXCEPT ![s].ok = TRUE]
    BY <1>3 DEF WorkloadsDone
  <2>2. rows'[s].running = rows[s].running /\ \A t \in Scrapes \ {s} : rows'[t] = rows[t]
    BY <2>1
  <2>3. rows' \in [Scrapes -> [ok : BOOLEAN, running : SUBSET Apps]]
    <3>1. rows[s] \in [ok : BOOLEAN, running : SUBSET Apps]
      OBVIOUS
    <3>2. [rows[s] EXCEPT !.ok = TRUE] \in [ok : BOOLEAN, running : SUBSET Apps]
      BY <3>1, Zenon
    <3> QED BY <2>1, <3>2
  <2> QED BY <1>3, <2>2, <2>3 DEF WorkloadsDone
<1>4. CASE WorkloadsFail(s)
  BY <1>4 DEF WorkloadsFail
<1>5. CASE Services(s)
  <2>1. /\ probed'[s] = desired /\ pass'[s] = "recovery" /\ pass[s] = "services"
        /\ \A t \in Scrapes \ {s} : probed'[t] = probed[t] /\ pass'[t] = pass[t]
    BY <1>5 DEF Services
  <2>2. probed' \in [Scrapes -> SUBSET Apps]
    BY <1>5 DEF Services
  <2> QED BY <1>5, <2>1, <2>2 DEF Services
<1>6. CASE Recovery(s)
  BY <1>6 DEF Recovery, FenceState
<1>7. CASE Answered(s)
  BY <1>7 DEF Answered
<1> QED BY <1>1, <1>2, <1>3, <1>4, <1>5, <1>6, <1>7

LEMMA EvidenceInvNext ==
  ASSUME EInv, [EvidenceNext]_evidenceVars
  PROVE  EInv'
<1>1. CASE UNCHANGED evidenceVars
  BY <1>1 DEF evidenceVars, world, attesting, passing, EInv, EvidenceParts, OnePass, PassAgrees,
     AttestedLater
<1> QED BY <1>1, AroundPassKeeps, PassKeeps DEF EvidenceNext

\* An answer that shows the workloads has probed exactly the apps they show running here:
\* for any number of scrapes at a time, apps, moves and failing sections.
THEOREM ProbesWhatItShowsCorrect == EvidenceSpec => []ProbesWhatItShows
<1>1. EInv => ProbesWhatItShows
  BY DEF EInv, PassAgrees, ProbesWhatItShows
<1> QED BY <1>1, EvidenceInvInit, EvidenceInvNext, PTL DEF EvidenceSpec

\* A met fence prerequisite means that the other site's fence Job looked at the app
\* within the window, whichever of the hops its attestation took was late or failed.
THEOREM MetMeansLookedCorrect == EvidenceSpec => MetMeansLooked
<1> DEFINE Met == \A s \in Scrapes : pass[s] = "recovery" /\ fence'[s] = "met" => looked <= Window
<1>1. ASSUME EInv, EvidenceNext, NEW s \in Scrapes, pass[s] = "recovery", fence'[s] = "met"
      PROVE  looked <= Window
  <2>1. CASE Recovery(s)
    <3>1. PICK lease \in LeaseAnswers, attested \in PeerAnswers : fence'[s] = FenceState(lease, attested)
      BY <1>1, <2>1 DEF Recovery, EInv, EvidenceParts
    <3>2. attested <= Window
      BY <1>1, <3>1 DEF FenceState
    <3> QED
      BY <1>1, <3>1, <3>2, EvidenceAssumption
         DEF PeerAnswers, Never, EInv, EvidenceParts, AttestedLater
  <2>2. CASE ~Recovery(s)
    <3>1. fence[s] = "unknown"
      BY <1>1 DEF EInv, PassAgrees
    <3>2. fence'[s] = fence[s]
      BY <1>1, <2>2 DEF EvidenceNext, EInv, EvidenceParts, passing, Move, Minute, FenceJob, Publish,
         Collect, ReadWorkload, WorkloadsDone, WorkloadsFail, Services, Recovery, Answered
    <3> QED BY <1>1, <3>1, <3>2
  <2> QED BY <2>1, <2>2
<1>2. EInv /\ [EvidenceNext]_evidenceVars => [Met]_evidenceVars
  BY <1>1
<1>3. [][Met]_evidenceVars => MetMeansLooked
  BY DEF MetMeansLooked
<1> QED BY <1>2, <1>3, EvidenceInvInit, EvidenceInvNext, PTL DEF EvidenceSpec

-----------------------------------------------------------------------------
(* The flow collector                                                          *)

FlowParts ==
  /\ series \in {Absent, Unscraped, Scraped} /\ seen \in 0 .. Ttl + 1
  /\ sinceScrape \in 0 .. Gap /\ flowFaults \in 0 .. MaxFlowFaults

\* What Prometheus has not seen was counted after its last scrape.
UnscrapedIsYoung == series = Unscraped => seen <= sinceScrape

FInv == FlowParts /\ UnscrapedIsYoung

LEMMA FlowInvInit == FlowInit => FInv
BY FlowAssumption DEF FlowInit, FInv, FlowParts, UnscrapedIsYoung

LEMMA FlowInvNext ==
  ASSUME FInv, [FlowNext]_flowVars
  PROVE  FInv' /\ (series' = Absent => series # Unscraped \/ flowFaults' # flowFaults \/ UNCHANGED flowVars)
<1> DEFINE Forgets == series' = Absent /\ series = Unscraped /\ flowFaults' = flowFaults
<1> USE FlowAssumption DEF FInv, FlowParts, UnscrapedIsYoung, FlowFault
<1>1. ASSUME NEW p \in Packets, \/ ReceiveTemplate(p) \/ ReceiveData(p) \/ ReceiveSflow(p)
                               \/ ReceiveNetflow5(p) \/ Send(p) \/ Lose(p)
      PROVE  FInv' /\ ~Forgets
  <2>1. UNCHANGED <<series, seen, sinceScrape>> /\ flowFaults' \in 0 .. MaxFlowFaults
    BY <1>1 DEF ReceiveTemplate, ReceiveData, ReceiveSflow, ReceiveNetflow5, Arrives, Send, Lose
  <2> QED BY <2>1
<1>2. CASE CountRecord
  <2>1. UNCHANGED <<sinceScrape, flowFaults>>
        /\ ((series' = Unscraped /\ seen' = 0) \/ UNCHANGED <<series, seen>>)
    BY <1>2 DEF CountRecord, Count
  <2> QED BY <2>1
<1>3. ASSUME SetDone \/ DecodeError \/ \E e \in Exporters : Redefine(e)
      PROVE  FInv' /\ ~Forgets
  <2>1. UNCHANGED <<series, seen, sinceScrape>> /\ flowFaults' \in 0 .. MaxFlowFaults
    BY <1>3 DEF SetDone, DecodeError, Redefine
  <2> QED BY <2>1
<1>4. ASSUME NEW prometheus \in BOOLEAN, Render(prometheus) PROVE FInv' /\ ~Forgets
  <2>1. UNCHANGED flowFaults
    BY <1>4 DEF Render
  <2>2. series = Unscraped => ~Expire
    BY DEF Expire
  <2>3. FlowParts' /\ UnscrapedIsYoung' /\ ~Forgets
    BY <1>4, <2>1, <2>2 DEF Render
  <2> QED BY <2>3
<1>5. CASE FlowTick
  BY <1>5 DEF FlowTick
<1>6. CASE FlowRestart
  BY <1>6 DEF FlowRestart
<1>7. CASE UNCHANGED flowVars
  BY <1>7 DEF flowVars
<1> QED BY <1>1, <1>2, <1>3, <1>4, <1>5, <1>6, <1>7 DEF FlowNext

\* Whatever Prometheus has not scraped yet is not forgotten, for every TTL longer than
\* the time between two of its scrapes (flow_collector.py:547).
THEOREM ExpiryLosesNothingCorrect == FlowSpec => ExpiryLosesNothing
<1>1. FInv /\ [FlowNext]_flowVars =>
        [series' = Absent => series # Unscraped \/ flowFaults' # flowFaults]_flowVars
  BY FlowInvNext
<1>2. FInv /\ [FlowNext]_flowVars => FInv'
  BY FlowInvNext
<1> QED BY <1>1, <1>2, FlowInvInit, PTL DEF FlowSpec, ExpiryLosesNothing

-----------------------------------------------------------------------------
(* The table of networks                                                       *)

AsnParts ==
  /\ asnTable \in Tables /\ parsed \in Tables /\ file \in Dumps \cup {NoFile, Truncated}
  /\ loop = "load" => file # NoFile
  /\ packet \in Seq(Ips)
  /\ look \in [step : {"starts", "ends", "asns"}, i : Nat, read : SUBSET Tables]
  /\ look.step # "starts" => packet # <<>>

\* A lookup that has only read the table in use, whose network it is about to give.
InOneTable ==
  /\ look.i = Position(asnTable.starts, Head(packet))
  /\ look.step = "asns" => look.i > 0 /\ ~(Head(packet) > asnTable.ends[look.i])

\* The swap can only have overtaken the one lookup under way: once that has gone wrong,
\* the next ones read one table.
OneOvertaken == torn = 0 \/ (torn = 1 /\ (look.step # "starts" => InOneTable))

AInv == AsnParts /\ OneOvertaken

\* The arrays are parallel, and a position is in them.
LEMMA TableShape ==
  ASSUME NEW t \in Tables, NEW ip \in Ips
  PROVE  /\ Len(t.starts) = Len(t.ends) /\ Len(t.ends) = Len(t.asns) /\ Len(t.ends) \in Nat
         /\ \A j \in 1 .. Len(t.ends) : t.ends[j] \in Nat
         /\ Position(t.starts, ip) \in 0 .. Len(t.ends)
<1>1. PICK d \in Seq([lo : Nat, hi : Nat, asn : Nat]) : t = Arrays(d)
  BY AsnAssumption, <<>> \in Seq([lo : Nat, hi : Nat, asn : Nat]) DEF Tables, Empty
<1>2. Len(d) \in Nat /\ \A j \in 1 .. Len(d) : d[j].lo \in Nat /\ d[j].hi \in Nat /\ d[j].asn \in Nat
  <2> DEFINE R == [lo : Nat, hi : Nat, asn : Nat]
  <2>1. d \in Seq(R)
    BY <1>1
  <2> HIDE DEF R
  <2>2. Len(d) \in Nat /\ \A j \in 1 .. Len(d) : d[j] \in R
    BY <2>1
  <2> QED BY <2>2 DEF R
<1>3. /\ t.starts = [j \in 1 .. Len(d) |-> d[j].lo] /\ t.ends = [j \in 1 .. Len(d) |-> d[j].hi]
      /\ t.asns = [j \in 1 .. Len(d) |-> d[j].asn]
  <2>1. DOMAIN d = 1 .. Len(d)
    OBVIOUS
  <2> QED BY <1>1, <2>1, Zenon DEF Arrays
<1>4. Len(t.starts) = Len(d) /\ Len(t.ends) = Len(d) /\ Len(t.asns) = Len(d)
  BY <1>2, <1>3
<1>5. \A j \in 1 .. Len(d) : t.ends[j] \in Nat
  BY <1>2, <1>3
<1> DEFINE before == {j \in 1 .. Len(d) : t.starts[j] <= ip}
<1>6. DOMAIN t.starts = 1 .. Len(d)
  BY <1>3
<1>7. Cardinality(before) \in 0 .. Len(d)
  <2>1. IsFiniteSet(1 .. Len(d)) /\ Cardinality(1 .. Len(d)) = Len(d)
    <3>1. 1 \in Int /\ Len(d) \in Int
      BY <1>2
    <3>2. /\ IsFiniteSet(1 .. Len(d))
          /\ Cardinality(1 .. Len(d)) = IF 1 > Len(d) THEN 0 ELSE Len(d) - 1 + 1
      BY <3>1, FS_Interval, Zenon
    <3> QED BY <1>2, <3>2
  <2>2. before \subseteq 1 .. Len(d)
    OBVIOUS
  <2>3. IsFiniteSet(before) /\ Cardinality(before) <= Len(d)
    BY <2>1, <2>2, FS_Subset
  <2>4. Cardinality(before) \in Nat
    BY <2>3, FS_CardinalityType
  <2> QED BY <1>2, <2>3, <2>4
<1>8. Position(t.starts, ip) = Cardinality(before)
  BY <1>6, Zenon DEF Position
<1> QED BY <1>2, <1>4, <1>5, <1>7, <1>8

LEMMA AsnInvInit == AsnInit => AInv
BY DEF AsnInit, AInv, AsnParts, OneOvertaken, Tables, NoLookup

LEMMA AsnLoopKeeps ==
  ASSUME AInv, AsnLoop \/ FileAges \/ AsnRestart
  PROVE  AInv'
<1>1. CASE CheckFile \/ Download \/ DownloadFails \/ Load \/ Wake \/ FileAges
  <2>1. UNCHANGED <<asnTable, packet, look, torn>>
    BY <1>1 DEF CheckFile, Download, DownloadFails, Load, Wake, FileAges
  <2>2. OneOvertaken'
    BY <2>1 DEF AInv, OneOvertaken, InOneTable
  <2>3. file' \in Dumps \cup {NoFile, Truncated} /\ (loop' = "load" => file' # NoFile)
    BY <1>1, AsnAssumption DEF AInv, AsnParts, CheckFile, Download, DownloadFails, Load, Wake, FileAges
  <2>4. parsed' \in Tables
    <3>1. CASE Load
      <4>1. CASE file = Truncated
        BY <3>1, <4>1 DEF Load, AInv, AsnParts
      <4>2. CASE file # Truncated
        <5>1. file \in Dumps /\ parsed' = Arrays(file)
          BY <3>1, <4>2 DEF Load, AInv, AsnParts
        <5> QED BY <5>1, Zenon DEF Tables
      <4> QED BY <4>1, <4>2
    <3> QED BY <1>1, <3>1 DEF AInv, AsnParts, CheckFile, Download, DownloadFails, Wake, FileAges
  <2>5. AsnParts'
    BY <2>1, <2>3, <2>4 DEF AInv, AsnParts
  <2> QED BY <2>2, <2>5 DEF AInv
<1>2. CASE Swap
  <2>1. /\ asnTable' = parsed /\ torn' = 0 /\ parsed' = Empty /\ loop' = "sleep"
        /\ UNCHANGED <<file, packet, look>>
    BY <1>2 DEF Swap
  <2>2. Empty \in Tables
    BY Zenon DEF Tables
  <2>3. AsnParts'
    BY <2>1, <2>2 DEF AInv, AsnParts
  <2> QED BY <2>1, <2>3 DEF AInv, OneOvertaken
<1>3. CASE AsnRestart
  <2>1. /\ asnTable' = Empty /\ torn' = 0 /\ parsed' = Empty /\ loop' = "check"
        /\ packet' = <<>> /\ look' = [step |-> "starts", i |-> 0, read |-> {}] /\ UNCHANGED file
    BY <1>3 DEF AsnRestart, NoLookup
  <2>2. Empty \in Tables
    BY Zenon DEF Tables
  <2>3. AsnParts'
    BY <2>1, <2>2 DEF AInv, AsnParts
  <2> QED BY <2>1, <2>3 DEF AInv, OneOvertaken
<1> QED BY <1>1, <1>2, <1>3 DEF AsnLoop

LEMMA LookupKeeps ==
  ASSUME AInv, TakePacket \/ LookupStarts \/ LookupEnds \/ LookupAsns
  PROVE  AInv'
<1>0. /\ asnTable \in Tables /\ packet \in Seq(Ips) /\ Ips \subseteq Nat
      /\ look \in [step : {"starts", "ends", "asns"}, i : Nat, read : SUBSET Tables]
  BY AsnAssumption DEF AInv, AsnParts
<1> DEFINE ip == Head(packet)
<1>1. ASSUME packet # <<>>
      PROVE  ip \in Ips /\ ip \in Nat /\ Tail(packet) \in Seq(Ips)
  <2>1. packet \in Seq(Ips) /\ packet # <<>>
    BY <1>0, <1>1
  <2>2. ip \in Ips /\ Tail(packet) \in Seq(Ips)
    BY <2>1
  <2> QED BY <1>0, <2>2
<1>2. ASSUME torn' \in {torn, torn + 1}, torn' = torn + 1 => torn = 0, look' = NoLookup,
             packet' \in {Tail(packet), <<>>}, packet # <<>>, UNCHANGED <<asnTable, file, loop, parsed>>
      PROVE  AInv'
  <2>1. look' = [step |-> "starts", i |-> 0, read |-> {}]
    BY <1>2 DEF NoLookup
  <2>2. /\ look' \in [step : {"starts", "ends", "asns"}, i : Nat, read : SUBSET Tables]
        /\ look'.step = "starts"
    BY <2>1
  <2>3. packet' \in Seq(Ips)
    <3>1. CASE packet' = Tail(packet)
      BY <1>1, <1>2, <3>1, Zenon
    <3>2. CASE packet' = <<>>
      BY <3>2
    <3> QED BY <1>2, <3>1, <3>2
  <2>4. AsnParts'
    BY <1>2, <2>2, <2>3 DEF AInv, AsnParts
  <2>5. OneOvertaken'
    BY <1>2, <2>2 DEF AInv, OneOvertaken
  <2> QED BY <2>4, <2>5 DEF AInv
<1>7. ASSUME NEW asn, Attribute(asn), look.step # "starts", packet # <<>>,
             InOneTable => Owner(asnTable, ip) = asn, UNCHANGED <<asnTable, file, loop, parsed>>
      PROVE  AInv'
  <2>1. look' = NoLookup /\ packet' = Tail(packet)
    BY <1>7 DEF Attribute
  <2>2. torn' \in {torn, torn + 1}
    BY <1>7 DEF Attribute
  <2>3. torn' = torn + 1 => torn = 0
    <3>1. torn = 0 \/ (torn = 1 /\ InOneTable)
      BY <1>7 DEF AInv, OneOvertaken
    <3>2. InOneTable => torn' = torn
      BY <1>7 DEF Attribute
    <3> QED BY <3>1, <3>2
  <2> QED BY <1>2, <1>7, <2>1, <2>2, <2>3
<1>8. ASSUME PacketLost, look.step # "starts", packet # <<>>, ~InOneTable,
             UNCHANGED <<asnTable, file, loop, parsed>>
      PROVE  AInv'
  <2>1. torn = 0
    BY <1>8 DEF AInv, OneOvertaken
  <2>2. look' = NoLookup /\ packet' = <<>> /\ torn' = torn + 1
    BY <1>8 DEF PacketLost
  <2> QED BY <1>2, <1>8, <2>1, <2>2
<1>3. CASE TakePacket
  <2>1. packet = <<>> /\ UNCHANGED <<asnTable, file, loop, parsed, look, torn>>
    BY <1>3 DEF TakePacket
  <2>2. look.step = "starts"
    BY <2>1 DEF AInv, AsnParts
  <2>3. PICK n \in 1 .. MaxRecords : packet' \in [1 .. n -> Ips]
    BY <1>3 DEF TakePacket
  <2>4. n \in Nat
    BY AsnAssumption
  <2>5. packet' \in Seq(Ips)
    BY <2>3, <2>4
  <2>6. AsnParts'
    BY <2>1, <2>2, <2>5 DEF AInv, AsnParts
  <2> QED BY <2>1, <2>2, <2>6 DEF AInv, OneOvertaken
<1>4. CASE LookupStarts
  <2> DEFINE pos == Position(asnTable.starts, ip)
  <2>1. /\ packet # <<>> /\ UNCHANGED <<asnTable, file, loop, parsed, packet, torn>>
        /\ look' = [step |-> "ends", i |-> pos, read |-> {asnTable}]
    BY <1>4 DEF LookupStarts
  <2>2. pos \in 0 .. Len(asnTable.ends) /\ Len(asnTable.ends) \in Nat
    BY <1>0, <1>1, <2>1, TableShape
  <2> HIDE DEF pos
  <2>3. /\ look' \in [step : {"starts", "ends", "asns"}, i : Nat, read : SUBSET Tables]
        /\ look'.step = "ends" /\ look'.i = pos
    BY <1>0, <2>1, <2>2
  <2>4. AsnParts'
    BY <2>1, <2>3 DEF AInv, AsnParts
  <2>5. OneOvertaken'
    BY <2>1, <2>3 DEF AInv, OneOvertaken, InOneTable, pos
  <2> QED BY <2>4, <2>5 DEF AInv
<1>5. CASE LookupEnds
  <2> DEFINE n == Len(asnTable.ends)
             pos == Position(asnTable.starts, ip)
  <2>1. /\ packet # <<>> /\ look.step = "ends" /\ UNCHANGED <<asnTable, file, loop, parsed>>
    BY <1>5 DEF LookupEnds, AInv, AsnParts
  <2>2. pos \in 0 .. n /\ n \in Nat /\ look.i \in Nat
    BY <1>0, <1>1, <2>1, TableShape
  <2>3. InOneTable => look.i = pos
    BY DEF InOneTable
  <2>4. CASE look.i = 0
    <3>1. Attribute(0)
      BY <1>5, <2>4 DEF LookupEnds
    <3>2. InOneTable => Owner(asnTable, ip) = 0
      BY <2>3, <2>4 DEF Owner
    <3> QED BY <1>7, <2>1, <3>1, <3>2
  <2>5. CASE look.i # 0 /\ look.i > n
    <3>1. PacketLost
      BY <1>5, <2>5 DEF LookupEnds
    <3>2. ~InOneTable
      BY <2>2, <2>3, <2>5
    <3> QED BY <1>8, <2>1, <3>1, <3>2
  <2>6. CASE look.i # 0 /\ ~(look.i > n) /\ ip > asnTable.ends[look.i]
    <3>1. Attribute(0)
      BY <1>5, <2>6 DEF LookupEnds
    <3>2. asnTable.ends[look.i] \in Nat /\ ip \in Nat
      BY <1>0, <1>1, <2>1, <2>2, <2>6, TableShape
    <3>3. ~(ip <= asnTable.ends[look.i])
      BY <2>6, <3>2
    <3>4. InOneTable => Owner(asnTable, ip) = 0
      BY <2>3, <3>3 DEF Owner
    <3> QED BY <1>7, <2>1, <3>1, <3>4
  <2>7. CASE look.i # 0 /\ ~(look.i > n) /\ ~(ip > asnTable.ends[look.i])
    <3>1. /\ look' = [look EXCEPT !.step = "asns", !.read = @ \cup {asnTable}]
          /\ UNCHANGED <<packet, torn>>
      BY <1>5, <2>7 DEF LookupEnds
    <3>2. /\ look' \in [step : {"starts", "ends", "asns"}, i : Nat, read : SUBSET Tables]
          /\ look'.step = "asns" /\ look'.i = look.i
      BY <1>0, <3>1
    <3>3. AsnParts'
      BY <2>1, <3>1, <3>2 DEF AInv, AsnParts
    <3>4. InOneTable => InOneTable'
      BY <2>1, <2>2, <2>7, <3>1, <3>2 DEF InOneTable
    <3>5. OneOvertaken'
      BY <2>1, <3>1, <3>4 DEF AInv, OneOvertaken
    <3> QED BY <3>3, <3>5 DEF AInv
  <2> QED BY <2>4, <2>5, <2>6, <2>7
<1>6. CASE LookupAsns
  <2> DEFINE n == Len(asnTable.asns)
             pos == Position(asnTable.starts, ip)
  <2>1. /\ packet # <<>> /\ look.step = "asns" /\ UNCHANGED <<asnTable, file, loop, parsed>>
    BY <1>6 DEF LookupAsns, AInv, AsnParts
  <2>2. pos \in 0 .. n /\ n \in Nat /\ n = Len(asnTable.ends) /\ look.i \in Nat
    BY <1>0, <1>1, <2>1, TableShape
  <2>3. InOneTable => look.i = pos /\ look.i > 0 /\ ~(ip > asnTable.ends[look.i])
    BY <2>1 DEF InOneTable
  <2>4. CASE look.i > n
    <3>1. PacketLost
      BY <1>6, <2>4 DEF LookupAsns
    <3>2. ~InOneTable
      BY <2>2, <2>3, <2>4
    <3> QED BY <1>8, <2>1, <3>1, <3>2
  <2>5. CASE ~(look.i > n)
    <3>1. Attribute(asnTable.asns[look.i])
      BY <1>6, <2>5 DEF LookupAsns
    <3>2. ASSUME InOneTable PROVE Owner(asnTable, ip) = asnTable.asns[look.i]
      <4>1. asnTable.ends[look.i] \in Nat /\ ip \in Nat
        BY <1>0, <1>1, <2>1, <2>2, <2>3, <2>5, <3>2, TableShape
      <4>2. ip <= asnTable.ends[look.i]
        BY <2>3, <3>2, <4>1
      <4> QED BY <2>3, <3>2, <4>2 DEF Owner
    <3> QED BY <1>7, <2>1, <3>1, <3>2
  <2> QED BY <2>4, <2>5
<1> QED BY <1>3, <1>4, <1>5, <1>6

LEMMA AsnInvNext ==
  ASSUME AInv, [AsnNext]_asnVars
  PROVE  AInv'
<1>1. CASE UNCHANGED asnVars
  BY <1>1 DEF asnVars, AInv, AsnParts, OneOvertaken, InOneTable
<1> QED BY <1>1, AsnLoopKeeps, LookupKeeps DEF AsnNext, AsnLoop

\* Between two swaps at most one lookup goes wrong, for any tables, packets and failures:
\* it is the one the swap has overtaken (flow_collector.py:148-152).
THEOREM SwapTearsOneLookupCorrect == AsnSpec => []SwapTearsOneLookup
<1>1. AInv => SwapTearsOneLookup
  BY DEF AInv, OneOvertaken, SwapTearsOneLookup
<1> QED BY <1>1, AsnInvInit, AsnInvNext, PTL DEF AsnSpec

-----------------------------------------------------------------------------
(* The photos                                                                  *)

Spots == {"idle", "wait", "pages", "faces", "publish", "known", "fetch", "put"}
PhotoRequests == [at : Spots, photo : Photos \cup {NoPhoto}]

\* One load at a time: the request that holds the lock is the one that loads.
OneLoads ==
  /\ thread \in [Threads -> PhotoRequests] /\ Nobody \notin Threads
  /\ \A t \in Threads : thread[t].at \in {"pages", "faces", "publish"} <=> lock = t

\* The ids are those of the list, except between its two assignments, and then no
\* request has been answered the new list.
IdsFollow ==
  \/ Ids(list) = ids
  \/ current = {} /\ \E t \in Threads : thread[t].at = "publish"

GInv == OneLoads /\ IdsFollow

\* A request that goes from one place to another, neither of them in the load, or
\* within it.
LEMMA OneMoves ==
  ASSUME OneLoads, NEW t \in Threads, NEW where \in Spots, NEW photo \in Photos \cup {NoPhoto},
         thread' = [thread EXCEPT ![t] = [at |-> where, photo |-> photo]],
         where \in {"pages", "faces", "publish"} <=> lock' = t,
         \A u \in Threads \ {t} : lock' = u <=> lock = u
  PROVE  /\ OneLoads' /\ thread'[t].at = where
         /\ \A u \in Threads \ {t} : thread'[u] = thread[u]
<1> DEFINE r == [at |-> where, photo |-> photo]
<1>1. r \in PhotoRequests /\ r.at = where
  BY DEF PhotoRequests
<1> HIDE DEF r
<1>2. thread \in [Threads -> PhotoRequests] /\ thread' = [thread EXCEPT ![t] = r]
  BY DEF OneLoads, r
<1>3. thread' \in [Threads -> PhotoRequests] /\ thread'[t] = r /\ \A u \in Threads \ {t} : thread'[u] = thread[u]
  BY <1>1, <1>2
<1>4. \A u \in Threads : thread'[u].at \in {"pages", "faces", "publish"} <=> lock' = u
  <2>1. ASSUME NEW u \in Threads
        PROVE  thread'[u].at \in {"pages", "faces", "publish"} <=> lock' = u
    <3>1. CASE u = t
      BY <1>1, <1>3, <3>1
    <3>2. CASE u # t
      BY <1>3, <3>2 DEF OneLoads
    <3> QED BY <3>1, <3>2
  <2> QED BY <2>1
<1> QED BY <1>1, <1>3, <1>4 DEF OneLoads

LEMMA GoesTo ==
  ASSUME OneLoads, NEW t \in Threads, NEW where, GoTo(t, where)
  PROVE  /\ thread[t].photo \in Photos \cup {NoPhoto}
         /\ thread' = [thread EXCEPT ![t] = [at |-> where, photo |-> thread[t].photo]]
<1>1. thread \in [Threads -> PhotoRequests] /\ thread[t] \in [at : Spots, photo : Photos \cup {NoPhoto}]
  BY DEF OneLoads, PhotoRequests
<1>2. thread' = [thread EXCEPT ![t] = [thread[t] EXCEPT !.at = where]]
  BY <1>1 DEF GoTo
<1>3. [thread[t] EXCEPT !.at = where] = [at |-> where, photo |-> thread[t].photo]
  BY <1>1
<1> QED BY <1>1, <1>2, <1>3

LEMMA GalleryInvInit == GalleryInit => GInv
<1> SUFFICES ASSUME GalleryInit PROVE GInv
  OBVIOUS
<1>1. list = {} /\ ids = {} /\ lock = Nobody /\ Nobody \notin Threads
  BY KitchenPhotosAssumption DEF GalleryInit
<1>2. thread = [t \in Threads |-> [at |-> "idle", photo |-> NoPhoto]]
  BY DEF GalleryInit
<1>3. OneLoads
  BY <1>1, <1>2 DEF OneLoads, PhotoRequests, Spots
<1>4. \A p : p \in Ids(list) <=> p \in ids
  BY <1>1 DEF Ids
<1>5. Ids(list) = ids
  BY <1>4, Zenon
<1> QED BY <1>3, <1>5 DEF GInv, IdsFollow

\* A request outside the load moves on; the list, the ids and the lock stay.
LEMMA Outside ==
  ASSUME GInv, NEW t \in Threads, ~(thread[t].at \in {"pages", "faces", "publish"}),
         NEW where \in Spots \ {"pages", "faces", "publish"}, NEW photo \in Photos \cup {NoPhoto},
         thread' = [thread EXCEPT ![t] = [at |-> where, photo |-> photo]],
         UNCHANGED <<list, ids, lock>>, current' = current \/ lock = Nobody
  PROVE  GInv'
<1>1. lock # t
  BY DEF GInv, OneLoads
<1>2. /\ OneLoads' /\ thread'[t].at = where /\ \A u \in Threads \ {t} : thread'[u] = thread[u]
  BY <1>1, OneMoves DEF GInv
<1>3. lock = Nobody => ~\E u \in Threads : thread[u].at = "publish"
  BY DEF GInv, OneLoads
<1>4. IdsFollow'
  BY <1>2, <1>3 DEF GInv, IdsFollow
<1> QED BY <1>2, <1>4 DEF GInv

\* What a request does outside the load.
OutsideStep(t) ==
  \/ AskPhotos(t) \/ GetFromMemory(t) \/ CacheGet(t) \/ Fetch(t) \/ CachePut(t)
  \/ \E p \in Photos : AskImage(t, p)

LEMMA OutsideKeeps ==
  ASSUME GInv, NEW t \in Threads, OutsideStep(t)
  PROVE  GInv'
<1>1. thread[t].at \in {"idle", "wait", "known", "fetch", "put"}
  BY DEF OutsideStep, AskPhotos, GetFromMemory, CacheGet, Fetch, CachePut, AskImage
<1>2. UNCHANGED <<list, ids, lock>>
  BY DEF OutsideStep, AskPhotos, GetFromMemory, CacheGet, Fetch, CachePut, AskImage, service
<1>3. current' = current \/ lock = Nobody
  BY DEF OutsideStep, AskPhotos, GetFromMemory, CacheGet, Fetch, CachePut, AskImage
<1>4. ASSUME NEW where \in Spots \ {"pages", "faces", "publish"}, GoTo(t, where)
      PROVE  GInv'
  BY <1>1, <1>2, <1>3, <1>4, GoesTo, Outside DEF GInv
<1>5. ASSUME NEW photo \in Photos \cup {NoPhoto}, NEW where \in Spots \ {"pages", "faces", "publish"},
             thread' = [thread EXCEPT ![t] = [at |-> where, photo |-> photo]]
      PROVE  GInv'
  BY <1>1, <1>2, <1>3, <1>5, Outside
<1>6. CASE AskPhotos(t) \/ GetFromMemory(t) \/ CacheGet(t) \/ Fetch(t) \/ CachePut(t)
  <2>1. Done(t) \/ GoTo(t, "wait") \/ GoTo(t, "known") \/ GoTo(t, "fetch") \/ GoTo(t, "put")
    BY <1>6 DEF AskPhotos, GetFromMemory, CacheGet, Fetch, CachePut, Answer
  <2>2. CASE Done(t)
    BY <1>5, <2>2 DEF Done, Spots
  <2> QED BY <1>4, <2>1, <2>2 DEF Spots
<1>7. CASE \E p \in Photos : AskImage(t, p)
  <2>1. PICK p \in Photos : AskImage(t, p)
    BY <1>7
  <2>2. CASE loaded = "never"
    BY <1>5, <2>1, <2>2 DEF AskImage, Spots
  <2>3. CASE loaded # "never"
    BY <1>5, <2>1, <2>3 DEF AskImage, Spots
  <2> QED BY <2>2, <2>3
<1> QED BY <1>6, <1>7 DEF OutsideStep

\* The request that loads: it takes the lock, reads, and gives it back.
LoadStep(t) ==
  \/ LoadStarts(t) \/ LoadPage(t) \/ SetPhotos(t) \/ LoadDone(t) \/ LoadFails(t) \/ LoadRaises(t)
  \/ \E p \in Photos : LoadFaces(t, p)

LEMMA LoadKeeps ==
  ASSUME GInv, NEW t \in Threads, LoadStep(t)
  PROVE  GInv'
<1> DEFINE Loading == {"pages", "faces", "publish"}
<1>1. OneLoads /\ IdsFollow /\ Nobody \notin Threads
  BY DEF GInv, OneLoads
<1>2. lock = t \/ lock = Nobody
  BY <1>1 DEF LoadStep, LoadStarts, LoadPage, SetPhotos, LoadDone, LoadFails, LoadRaises, LoadFaces, OneLoads
<1>3. \A u \in Threads \ {t} : thread[u].at # "publish"
  BY <1>1, <1>2 DEF OneLoads
<1>4. ASSUME NEW where \in Spots, GoTo(t, where) \/ (where = "idle" /\ Done(t)),
             lock' \in {t, Nobody}, where \in Loading <=> lock' = t
      PROVE  OneLoads' /\ thread'[t].at = where
  <2>1. \A u \in Threads \ {t} : lock' = u <=> lock = u
    BY <1>1, <1>2, <1>4
  <2>2. PICK photo \in Photos \cup {NoPhoto} :
          thread' = [thread EXCEPT ![t] = [at |-> where, photo |-> photo]]
    <3>1. CASE GoTo(t, where)
      BY <1>1, <3>1, GoesTo
    <3>2. CASE where = "idle" /\ Done(t)
      BY <3>2 DEF Done
    <3> QED BY <1>4, <3>1, <3>2
  <2> QED BY <1>1, <1>4, <2>1, <2>2, OneMoves
<1>5. ASSUME Answer(t), lock' = Nobody
      PROVE  OneLoads'
  <2>1. Done(t) \/ GoTo(t, "known")
    BY <1>5 DEF Answer
  <2> QED BY <1>1, <1>4, <1>5, <2>1 DEF Spots
<1>6. ASSUME thread[t].at # "publish", UNCHANGED <<list, ids>>
      PROVE  IdsFollow'
  BY <1>1, <1>3, <1>6 DEF IdsFollow, Ids
<1>7. CASE LoadStarts(t)
  BY <1>4, <1>6, <1>7 DEF LoadStarts, GInv, Spots
<1>8. CASE LoadPage(t)
  BY <1>1, <1>4, <1>6, <1>8 DEF LoadPage, GInv, Spots, OneLoads
<1>9. CASE SetPhotos(t)
  BY <1>1, <1>4, <1>9 DEF SetPhotos, GInv, Spots, OneLoads, IdsFollow
<1>10. CASE LoadDone(t)
  BY <1>5, <1>10 DEF LoadDone, GInv, IdsFollow, Ids
<1>11. CASE LoadFails(t)
  BY <1>5, <1>6, <1>11 DEF LoadFails, GInv
<1>12. CASE LoadRaises(t)
  BY <1>1, <1>4, <1>6, <1>12 DEF LoadRaises, GInv, Spots
<1>13. CASE \E p \in Photos : LoadFaces(t, p)
  BY <1>1, <1>6, <1>13 DEF LoadFaces, GInv, OneLoads
<1> QED BY <1>7, <1>8, <1>9, <1>10, <1>11, <1>12, <1>13 DEF LoadStep

LEMMA GalleryInvNext ==
  ASSUME GInv, [GalleryNext]_galleryVars
  PROVE  GInv'
<1>1. CASE UNCHANGED <<list, ids, lock, thread, current>>
  BY <1>1 DEF GInv, OneLoads, IdsFollow, Ids
<1>2. (\E t \in Threads : OutsideStep(t) \/ LoadStep(t)) \/ UNCHANGED <<list, ids, lock, thread, current>>
  BY DEF GalleryNext, galleryVars, service, imageCache, OutsideStep, LoadStep, AlbumDue, EditAlbum
<1> QED BY <1>1, <1>2, OutsideKeeps, LoadKeeps

\* A display that holds the current list gets no 404 for a photo on it, for any number
\* of requests and photos, whatever Immich's album and its outages (server.py:432, :457).
THEOREM ListedIsKnownCorrect == GallerySpec => []ListedIsKnown
<1>1. GInv => ListedIsKnown
  BY DEF GInv, IdsFollow, ListedIsKnown
<1> QED BY <1>1, GalleryInvInit, GalleryInvNext, PTL DEF GallerySpec

-----------------------------------------------------------------------------
(* What the image cache counts                                                 *)

\* A set of subsets of a finite set has one that includes no other of them: what a proof
\* by induction over a finite set starts from.
LEMMA LeastSet ==
  ASSUME NEW K, IsFiniteSet(K), NEW Bad \in SUBSET (SUBSET K), Bad # {}
  PROVE  \E S \in Bad : \A T \in Bad : T \subseteq S => T = S
<1> DEFINE R == StrictSubsetOrdering(K)
           F == FiniteSubsetsOf(K)
<1>1. IsWellFoundedOn(R, F)
  BY FS_StrictSubsetOrderingWellFounded
<1>2. F = SUBSET K
  BY FS_FiniteSubsetsOfFinite
<1>3. Bad \subseteq F
  BY <1>2
<1>4. \A S, T \in SUBSET K : T \subseteq S /\ T # S => <<T, S>> \in R
  BY DEF StrictSubsetOrdering
<1> HIDE DEF R, F
<1>5. \E S \in Bad : \A T \in Bad : ~(<<T, S>> \in R)
  BY <1>1, <1>3, WFMin
<1>6. PICK S \in Bad : \A T \in Bad : ~(<<T, S>> \in R)
  BY <1>5
<1>7. ASSUME NEW T \in Bad, T \subseteq S PROVE T = S
  <2>1. T \in SUBSET K /\ S \in SUBSET K OBVIOUS
  <2> QED BY <1>4, <1>6, <1>7, <2>1
<1> QED BY <1>6, <1>7

\* g is the function BytesIn is defined by, for the subsets of K.
One(s) == CHOOSE x \in s : TRUE
Weighs(g, K) == g = [s \in SUBSET K |-> IF s = {} THEN 0 ELSE Bytes[One(s)] + g[s \ {One(s)}]]

LEMMA BytesInIsIts ==
  ASSUME NEW K
  PROVE  BytesIn(K) = (CHOOSE g : Weighs(g, K))[K]
BY DEF BytesIn, MapThenSumSet, MapThenFoldSet, Weighs, One

LEMMA OneIsIn == ASSUME NEW s, s # {} PROVE One(s) \in s
BY DEF One

LEMMA WeighsAt ==
  ASSUME NEW g, NEW K, Weighs(g, K), NEW s \in SUBSET K
  PROVE  g[s] = IF s = {} THEN 0 ELSE Bytes[One(s)] + g[s \ {One(s)}]
BY DEF Weighs

\* There is one such function,
LEMMA WeighsOnce ==
  ASSUME NEW K, IsFiniteSet(K), NEW g, NEW L, Weighs(g, L), NEW h, NEW M, Weighs(h, M),
         K \subseteq L, K \subseteq M
  PROVE  g[K] = h[K]
<1> DEFINE Bad == {s \in SUBSET K : g[s] # h[s]}
<1> SUFFICES ASSUME Bad # {} PROVE FALSE
  OBVIOUS
<1>1. PICK s \in Bad : \A t \in Bad : t \subseteq s => t = s
  <2>1. Bad \in SUBSET (SUBSET K) OBVIOUS
  <2> HIDE DEF Bad
  <2> QED BY <2>1, LeastSet
<1>2. s \in SUBSET K /\ s \in SUBSET L /\ s \in SUBSET M /\ g[s] # h[s]
  BY <1>1
<1>3. /\ g[s] = IF s = {} THEN 0 ELSE Bytes[One(s)] + g[s \ {One(s)}]
      /\ h[s] = IF s = {} THEN 0 ELSE Bytes[One(s)] + h[s \ {One(s)}]
  BY <1>2, WeighsAt
<1>4. s # {}
  BY <1>2, <1>3
<1>5. s \ {One(s)} \in SUBSET K /\ s \ {One(s)} \subseteq s /\ s \ {One(s)} # s
  BY <1>2, <1>4, OneIsIn
<1>6. g[s \ {One(s)}] = h[s \ {One(s)}]
  BY <1>1, <1>5
<1> QED BY <1>2, <1>3, <1>4, <1>6

\* and it exists.
LEMMA WeighsExists ==
  ASSUME NEW K, IsFiniteSet(K)
  PROVE  \E g : Weighs(g, K)
<1> DEFINE Bad == {s \in SUBSET K : ~\E g : Weighs(g, s)}
<1> SUFFICES ASSUME Bad # {} PROVE FALSE
  OBVIOUS
<1>1. PICK s \in Bad : \A t \in Bad : t \subseteq s => t = s
  <2>1. Bad \in SUBSET (SUBSET K) OBVIOUS
  <2> HIDE DEF Bad
  <2> QED BY <2>1, LeastSet
<1> DEFINE Now(t) == CHOOSE g : Weighs(g, t)
           h == [t \in SUBSET s |-> IF t = s THEN IF s = {} THEN 0 ELSE Bytes[One(s)] + Now(s \ {One(s)})[s \ {One(s)}]
                                    ELSE Now(t)[t]]
<1>2. \A t \in SUBSET s : t # s => Weighs(Now(t), t) /\ IsFiniteSet(t)
  <2> SUFFICES ASSUME NEW t \in SUBSET s, t # s PROVE Weighs(Now(t), t) /\ IsFiniteSet(t)
    OBVIOUS
  <2>1. t \in SUBSET K /\ t \notin Bad
    BY <1>1
  <2>2. \E g : Weighs(g, t)
    BY <2>1
  <2>3. IsFiniteSet(t)
    BY <2>1, FS_Subset
  <2> QED BY <2>2, <2>3
<1> HIDE DEF At
<1>3. \A t \in SUBSET s : t # s => h[t] = Now(t)[t]
  OBVIOUS
<1>4. h[s] = IF s = {} THEN 0 ELSE Bytes[One(s)] + Now(s \ {One(s)})[s \ {One(s)}]
  OBVIOUS
<1>5. DOMAIN h = SUBSET s
  OBVIOUS
<1> HIDE DEF h
<1>6. ASSUME NEW t \in SUBSET s
      PROVE  h[t] = IF t = {} THEN 0 ELSE Bytes[One(t)] + h[t \ {One(t)}]
  <2>1. t # {} => t \ {One(t)} \in SUBSET s /\ t \ {One(t)} # s /\ t \ {One(t)} \subseteq t
    BY OneIsIn
  <2>2. t # {} => h[t \ {One(t)}] = Now(t \ {One(t)})[t \ {One(t)}]
    BY <1>3, <2>1
  <2>3. CASE t = s
    BY <1>4, <2>2, <2>3
  <2>4. CASE t # s /\ t = {}
    <3>1. Now(t)[t] = 0
      BY <1>2, <2>4, WeighsAt
    <3> QED BY <1>3, <2>4, <3>1
  <2>5. CASE t # s /\ t # {}
    <3> DEFINE u == t \ {One(t)}
    <3>1. Weighs(Now(t), t) /\ Weighs(Now(u), u) /\ IsFiniteSet(u)
      BY <1>2, <2>1, <2>5
    <3>2. Now(t)[t] = Bytes[One(t)] + Now(t)[u]
      BY <2>5, <3>1, WeighsAt
    <3>3. u \subseteq t /\ u \subseteq u OBVIOUS
    <3> HIDE DEF u
    <3>4. Now(t)[u] = Now(u)[u]
      BY <3>1, <3>3, WeighsOnce
    <3>5. h[t] = Now(t)[t] /\ h[u] = Now(u)[u]
      BY <1>3, <2>2, <2>5 DEF u
    <3> QED BY <2>5, <3>2, <3>4, <3>5 DEF u
  <2> QED BY <2>3, <2>4, <2>5
<1>7. h = [t \in SUBSET s |-> h[t]]
  BY DEF h
<1>8. [t \in SUBSET s |-> h[t]] = [t \in SUBSET s |-> IF t = {} THEN 0 ELSE Bytes[One(t)] + h[t \ {One(t)}]]
  BY <1>6
<1>9. Weighs(h, s)
  BY <1>7, <1>8 DEF Weighs
<1> QED BY <1>1, <1>9

\* The bytes of the images of a set, an image at a time,
LEMMA BytesInStep ==
  ASSUME NEW K, IsFiniteSet(K)
  PROVE  /\ BytesIn({}) = 0
         /\ K # {} => BytesIn(K) = Bytes[One(K)] + BytesIn(K \ {One(K)})
<1> DEFINE Now(t) == CHOOSE g : Weighs(g, t)
<1>1. \A t : IsFiniteSet(t) => Weighs(Now(t), t) /\ BytesIn(t) = Now(t)[t]
  BY WeighsExists, BytesInIsIts
<1> HIDE DEF At
<1>2. BytesIn({}) = 0
  <2>1. IsFiniteSet({}) /\ {} \in SUBSET {} BY FS_EmptySet
  <2> QED BY <1>1, <2>1, WeighsAt
<1>3. ASSUME K # {} PROVE BytesIn(K) = Bytes[One(K)] + BytesIn(K \ {One(K)})
  <2> DEFINE L == K \ {One(K)}
  <2>1. L \subseteq K /\ L \subseteq L /\ K \in SUBSET K OBVIOUS
  <2>2. IsFiniteSet(L)
    BY <2>1, FS_Subset
  <2>3. Weighs(Now(K), K) /\ Weighs(Now(L), L) /\ BytesIn(K) = Now(K)[K] /\ BytesIn(L) = Now(L)[L]
    BY <1>1, <2>2
  <2>4. Now(K)[K] = Bytes[One(K)] + Now(K)[L]
    BY <1>3, <2>1, <2>3, WeighsAt
  <2> HIDE DEF L
  <2>5. Now(K)[L] = Now(L)[L]
    BY <2>1, <2>2, <2>3, WeighsOnce
  <2> QED BY <2>3, <2>4, <2>5 DEF L
<1> QED BY <1>2, <1>3

LEMMA BytesInNat ==
  ASSUME NEW K \in SUBSET Photos, IsFiniteSet(K)
  PROVE  BytesIn(K) \in Nat
<1> DEFINE Bad == {s \in SUBSET K : BytesIn(s) \notin Nat}
<1> SUFFICES ASSUME Bad # {} PROVE FALSE
  OBVIOUS
<1>1. PICK s \in Bad : \A t \in Bad : t \subseteq s => t = s
  <2>1. Bad \in SUBSET (SUBSET K) OBVIOUS
  <2> HIDE DEF Bad
  <2> QED BY <2>1, LeastSet
<1>2. s \in SUBSET K /\ IsFiniteSet(s) /\ BytesIn(s) \notin Nat
  BY <1>1, FS_Subset
<1>3. BytesIn({}) = 0 /\ (s # {} => BytesIn(s) = Bytes[One(s)] + BytesIn(s \ {One(s)}))
  BY <1>2, BytesInStep
<1>4. s # {}
  BY <1>2, <1>3
<1>5. One(s) \in s
  BY <1>4, OneIsIn
<1>6. s \ {One(s)} \in SUBSET K /\ s \ {One(s)} \subseteq s /\ s \ {One(s)} # s
  BY <1>2, <1>5
<1>7. BytesIn(s \ {One(s)}) \in Nat
  BY <1>1, <1>6
<1>8. Bytes[One(s)] \in Nat
  BY <1>2, <1>5, KitchenPhotosAssumption
<1> QED BY <1>2, <1>3, <1>4, <1>7, <1>8

\* and in any order,
LEMMA BytesOfOne ==
  ASSUME NEW K \in SUBSET Photos, IsFiniteSet(K), NEW x \in K
  PROVE  BytesIn(K) = Bytes[x] + BytesIn(K \ {x})
<1> DEFINE Bad == {s \in SUBSET K : \E y \in s : BytesIn(s) # Bytes[y] + BytesIn(s \ {y})}
<1>0. ASSUME Bad # {} PROVE FALSE
  <2>1. PICK s \in Bad : \A t \in Bad : t \subseteq s => t = s
    <3>1. Bad \in SUBSET (SUBSET K) OBVIOUS
    <3> HIDE DEF Bad
    <3> QED BY <1>0, <3>1, LeastSet
  <2> DEFINE c == One(s)
  <2>2. PICK y \in s : BytesIn(s) # Bytes[y] + BytesIn(s \ {y})
    BY <2>1
  <2>3. s \in SUBSET K /\ IsFiniteSet(s)
    BY <2>1, FS_Subset
  <2>4. c \in s /\ BytesIn(s) = Bytes[c] + BytesIn(s \ {c})
    BY <2>2, <2>3, OneIsIn, BytesInStep
  <2> HIDE DEF c
  <2>5. c # y
    BY <2>2, <2>4
  <2>6. /\ s \ {c} \in SUBSET K /\ y \in s \ {c} /\ s \ {c} \subseteq s /\ s \ {c} # s
        /\ s \ {y} \in SUBSET K /\ c \in s \ {y} /\ s \ {y} \subseteq s /\ s \ {y} # s
        /\ (s \ {y}) \ {c} = (s \ {c}) \ {y}
    BY <2>2, <2>3, <2>4, <2>5
  <2> DEFINE u == (s \ {c}) \ {y}
  <2>7. BytesIn(s \ {c}) = Bytes[y] + BytesIn(u)
    BY <2>1, <2>6
  <2>8. BytesIn(s \ {y}) = Bytes[c] + BytesIn(u)
    BY <2>1, <2>6
  <2>9. u \in SUBSET Photos /\ IsFiniteSet(u)
    BY <2>3, FS_Subset
  <2> HIDE DEF u
  <2>10. BytesIn(u) \in Nat /\ Bytes[c] \in Nat /\ Bytes[y] \in Nat
    BY <2>2, <2>3, <2>4, <2>9, BytesInNat, KitchenPhotosAssumption
  <2> QED BY <2>2, <2>4, <2>7, <2>8, <2>10
<1>1. K \notin Bad
  BY <1>0
<1> QED BY <1>1

\* two sets with nothing in common together.
LEMMA BytesOfBoth ==
  ASSUME NEW K \in SUBSET Photos, IsFiniteSet(K), NEW L \in SUBSET Photos, IsFiniteSet(L), K \cap L = {}
  PROVE  BytesIn(L \cup K) = BytesIn(L) + BytesIn(K)
<1> DEFINE Bad == {s \in SUBSET K : BytesIn(L \cup s) # BytesIn(L) + BytesIn(s)}
<1>0. ASSUME Bad # {} PROVE FALSE
  <2>1. PICK s \in Bad : \A t \in Bad : t \subseteq s => t = s
    <3>1. Bad \in SUBSET (SUBSET K) OBVIOUS
    <3> HIDE DEF Bad
    <3> QED BY <1>0, <3>1, LeastSet
  <2>2. s \in SUBSET K /\ IsFiniteSet(s) /\ BytesIn(L \cup s) # BytesIn(L) + BytesIn(s)
    BY <2>1, FS_Subset
  <2>3. s # {}
    <3>1. BytesIn({}) = 0 /\ BytesIn(L) \in Nat
      BY BytesInStep, BytesInNat
    <3>2. s = {} => L \cup s = L OBVIOUS
    <3> QED BY <2>2, <3>1, <3>2
  <2>4. PICK x \in s : TRUE
    BY <2>3
  <2> DEFINE t == s \ {x}
             all == L \cup s
  <2>5. t \in SUBSET K /\ t \subseteq s /\ t # s
    BY <2>2
  <2>6. BytesIn(L \cup t) = BytesIn(L) + BytesIn(t)
    BY <2>1, <2>5
  <2>7. all \in SUBSET Photos /\ IsFiniteSet(all) /\ x \in all /\ all \ {x} = L \cup t
    <3>1. IsFiniteSet(all)
      BY <2>2, FS_Union
    <3>2. x \notin L
      BY <2>2
    <3> QED BY <2>2, <3>1, <3>2
  <2>8. BytesIn(all) = Bytes[x] + BytesIn(L \cup t)
    <3> HIDE DEF all, t
    <3> QED BY <2>7, BytesOfOne
  <2>9. BytesIn(s) = Bytes[x] + BytesIn(t)
    BY <2>2, BytesOfOne
  <2>10. IsFiniteSet(t) /\ t \in SUBSET Photos
    BY <2>2, <2>5, FS_Subset
  <2> HIDE DEF t
  <2>11. BytesIn(L) \in Nat /\ BytesIn(t) \in Nat /\ Bytes[x] \in Nat
    BY <2>2, <2>10, BytesInNat, KitchenPhotosAssumption
  <2> QED BY <2>2, <2>6, <2>8, <2>9, <2>11
<1>1. K \notin Bad
  BY <1>0
<1> QED BY <1>1

-----------------------------------------------------------------------------
(* The keys of the cache                                                       *)

NoRepeats(s) == \A i, j \in DOMAIN s : s[i] = s[j] => i = j

LEMMA LeastNat == ASSUME NEW S, S \subseteq Nat, S # {} PROVE \E n \in S : \A m \in S : n <= m
<1> DEFINE R == OpToRel(<, Nat)
<1>1. IsWellFoundedOn(R, Nat)
  BY NatLessThanWellFounded
<1>2. \A x, y \in Nat : <<x, y>> \in R <=> x < y
  BY DEF OpToRel
<1> HIDE DEF R
<1>3. \E x \in S : \A y \in S : ~(<<y, x>> \in R)
  BY <1>1, WFMin
<1>4. PICK x \in S : \A y \in S : ~(<<y, x>> \in R)
  BY <1>3
<1>5. ASSUME NEW y \in S PROVE x <= y
  <2>1. x \in Nat /\ y \in Nat OBVIOUS
  <2>2. ~(y < x) BY <1>2, <1>4, <2>1
  <2> QED BY <2>1, <2>2
<1> QED BY <1>4, <1>5

LEMMA KeysFinite ==
  ASSUME NEW s \in Seq(Photos)
  PROVE  Keys(s) \in SUBSET Photos /\ IsFiniteSet(Keys(s))
<1>1. DOMAIN s = 1 .. Len(s) /\ Len(s) \in Nat /\ s \in [1 .. Len(s) -> Photos]
  OBVIOUS
<1>2. s \in Surjection(1 .. Len(s), Keys(s))
  BY <1>1 DEF Surjection, Keys
<1>3. IsFiniteSet(1 .. Len(s))
  BY <1>1, FS_Interval
<1>4. IsFiniteSet(Keys(s))
  BY <1>2, <1>3, FS_Surjection
<1> QED BY <1>1, <1>4 DEF Keys

LEMMA KeysAppended ==
  ASSUME NEW s \in Seq(Photos), NEW p \in Photos \ Keys(s), NoRepeats(s)
  PROVE  /\ Append(s, p) \in Seq(Photos) /\ NoRepeats(Append(s, p))
         /\ Keys(Append(s, p)) = Keys(s) \cup {p}
<1> DEFINE u == Append(s, p)
<1>1. /\ u \in Seq(Photos) /\ Len(u) = Len(s) + 1 /\ Len(s) \in Nat /\ u[Len(s) + 1] = p
      /\ \A i \in 1 .. Len(s) : u[i] = s[i]
      /\ DOMAIN u = 1 .. Len(s) + 1 /\ DOMAIN s = 1 .. Len(s)
  OBVIOUS
<1> HIDE DEF u
<1>2. \A i \in 1 .. Len(s) + 1 : i \in 1 .. Len(s) \/ i = Len(s) + 1
  BY <1>1
<1>3. \A i \in 1 .. Len(s) : s[i] # p
  BY <1>1 DEF Keys
<1>4. NoRepeats(u)
  BY <1>1, <1>2, <1>3 DEF NoRepeats
<1>5. \A x : x \in Keys(u) <=> x \in Keys(s) \cup {p}
  <2>1. \A x : x \in Keys(u) => x \in Keys(s) \cup {p}
    BY <1>1, <1>2 DEF Keys
  <2>2. \A x : x \in Keys(s) => x \in Keys(u)
    BY <1>1 DEF Keys
  <2>3. p \in Keys(u)
    BY <1>1 DEF Keys
  <2> QED BY <2>1, <2>2, <2>3
<1>6. Keys(u) = Keys(s) \cup {p}
  BY <1>5, Zenon
<1> QED BY <1>1, <1>4, <1>6 DEF u

LEMMA KeysMoved ==
  ASSUME NEW s \in Seq(Photos), NEW p \in Keys(s), NoRepeats(s)
  PROVE  /\ MovedToEnd(s, p) \in Seq(Photos) /\ NoRepeats(MovedToEnd(s, p))
         /\ Keys(MovedToEnd(s, p)) = Keys(s)
<1> DEFINE k == CHOOSE i \in DOMAIN s : s[i] = p
           a == SubSeq(s, 1, k - 1)
           b == SubSeq(s, k + 1, Len(s))
           r == a \o b
<1>1. k \in 1 .. Len(s) /\ s[k] = p /\ DOMAIN s = 1 .. Len(s) /\ Len(s) \in Nat
  BY DEF Keys
<1> HIDE DEF k
<1>2. /\ a \in Seq(Photos) /\ Len(a) = k - 1 /\ \A i \in 1 .. k - 1 : a[i] = s[i]
  BY <1>1
<1>3. /\ b \in Seq(Photos) /\ Len(b) = Len(s) - k /\ \A i \in 1 .. Len(s) - k : b[i] = s[k + i]
  <2>1. \A i \in 1 .. Len(s) - k : (k + 1) + i - 1 = k + i
    BY <1>1
  <2>4. k \in 1 .. Len(s) /\ Len(s) \in Nat
    BY <1>1
  <2>5. b \in Seq(Photos)
    BY <2>4
  <2>6. Len(b) = Len(s) - k
    BY <2>4
  <2>2. b \in Seq(Photos) /\ Len(b) = Len(s) - k
    BY <2>5, <2>6
  <2>3. \A i \in 1 .. Len(s) - k : b[i] = s[(k + 1) + i - 1]
    BY <1>1
  <2> QED BY <2>1, <2>2, <2>3
<1> HIDE DEF a, b
<1>4. /\ r \in Seq(Photos) /\ Len(r) = Len(s) - 1
      /\ \A i \in 1 .. Len(s) - 1 : r[i] = s[IF i < k THEN i ELSE i + 1]
  <2>1. r \in Seq(Photos) /\ Len(r) = Len(a) + Len(b)
    BY <1>2, <1>3
  <2>2. ASSUME NEW i \in 1 .. Len(s) - 1 PROVE r[i] = s[IF i < k THEN i ELSE i + 1]
    <3>1. CASE i < k
      BY <1>1, <1>2, <1>3, <3>1
    <3>2. CASE ~(i < k)
      <4>1. i - (k - 1) \in 1 .. Len(s) - k /\ k + (i - (k - 1)) = i + 1
        BY <1>1, <3>2
      <4>2. r[i] = b[i - (k - 1)]
        BY <1>1, <1>2, <1>3, <3>2
      <4> QED BY <1>3, <3>2, <4>1, <4>2
    <3> QED BY <3>1, <3>2
  <2>3. Len(r) = Len(s) - 1
    BY <1>1, <1>2, <1>3, <2>1
  <2> QED BY <2>1, <2>2, <2>3
<1>5. MovedToEnd(s, p) = Append(r, p)
  BY DEF MovedToEnd, RemoveAt, k, a, b
<1> HIDE DEF r
<1> DEFINE Now(i) == IF i < k THEN i ELSE i + 1
<1>6. DOMAIN r = 1 .. Len(s) - 1 /\ \A i \in 1 .. Len(s) - 1 : Now(i) \in 1 .. Len(s) /\ Now(i) # k /\ r[i] = s[Now(i)]
  BY <1>1, <1>4
<1>7. \A i, j \in 1 .. Len(s) - 1 : Now(i) = Now(j) => i = j
  BY <1>1
<1>8. \A j \in 1 .. Len(s) : j # k => \E i \in 1 .. Len(s) - 1 : Now(i) = j
  <2> SUFFICES ASSUME NEW j \in 1 .. Len(s), j # k PROVE \E i \in 1 .. Len(s) - 1 : Now(i) = j
    OBVIOUS
  <2>1. CASE j < k
    <3>1. j \in 1 .. Len(s) - 1 /\ Now(j) = j BY <1>1, <2>1
    <3> QED BY <3>1
  <2>2. CASE ~(j < k)
    <3>1. j - 1 \in 1 .. Len(s) - 1 /\ Now(j - 1) = j BY <1>1, <2>2
    <3> QED BY <3>1
  <2> QED BY <2>1, <2>2
<1> HIDE DEF At
<1>9. NoRepeats(r)
  BY <1>1, <1>6, <1>7 DEF NoRepeats
<1>10. p \notin Keys(r)
  BY <1>1, <1>6 DEF NoRepeats, Keys
<1>11. p \in Photos
  BY KeysFinite
<1>12. /\ Append(r, p) \in Seq(Photos) /\ NoRepeats(Append(r, p))
       /\ Keys(Append(r, p)) = Keys(r) \cup {p}
  BY <1>4, <1>9, <1>10, <1>11, KeysAppended
<1>13. \A x : x \in Keys(r) \cup {p} <=> x \in Keys(s)
  <2>1. \A x : x \in Keys(r) => x \in Keys(s)
    BY <1>1, <1>6 DEF Keys
  <2>2. ASSUME NEW x \in Keys(s), x # p PROVE x \in Keys(r)
    <3>1. PICK j \in 1 .. Len(s) : s[j] = x
      BY <1>1 DEF Keys
    <3>2. j # k
      BY <1>1, <2>2, <3>1
    <3>3. PICK i \in 1 .. Len(s) - 1 : Now(i) = j
      BY <1>8, <3>2
    <3> QED BY <1>6, <3>1, <3>3 DEF Keys
  <2> QED BY <2>1, <2>2
<1>14. Keys(r) \cup {p} = Keys(s)
  BY <1>13, Zenon
<1> QED BY <1>5, <1>12, <1>14

LEMMA KeysCut ==
  ASSUME NEW s \in Seq(Photos), NoRepeats(s), NEW n \in 0 .. Len(s)
  PROVE  LET a == SubSeq(s, 1, n)
             b == SubSeq(s, n + 1, Len(s))
         IN  /\ a \in Seq(Photos) /\ b \in Seq(Photos) /\ NoRepeats(b)
             /\ Keys(a) \cap Keys(b) = {} /\ Keys(s) = Keys(a) \cup Keys(b)
<1> DEFINE a == SubSeq(s, 1, n)
           b == SubSeq(s, n + 1, Len(s))
<1>1. Len(s) \in Nat /\ n \in Nat /\ n <= Len(s) /\ DOMAIN s = 1 .. Len(s)
  OBVIOUS
<1>2. a \in Seq(Photos) /\ DOMAIN a = 1 .. n /\ \A i \in 1 .. n : a[i] = s[i]
  BY <1>1
<1>3. b \in Seq(Photos) /\ DOMAIN b = 1 .. Len(s) - n /\ \A i \in 1 .. Len(s) - n : b[i] = s[n + i]
  BY <1>1
<1> HIDE DEF a, b
<1>4. /\ \A i \in 1 .. n : i \in 1 .. Len(s)
      /\ \A i \in 1 .. Len(s) - n : n + i \in 1 .. Len(s) /\ n + i \notin 1 .. n
      /\ \A i, j \in 1 .. Len(s) - n : n + i = n + j => i = j
      /\ \A i \in 1 .. Len(s) : i \in 1 .. n \/ (i - n \in 1 .. Len(s) - n /\ n + (i - n) = i)
  BY <1>1
<1>5. NoRepeats(b)
  BY <1>1, <1>3, <1>4 DEF NoRepeats
<1>6. Keys(a) \cap Keys(b) = {}
  BY <1>1, <1>2, <1>3, <1>4 DEF NoRepeats, Keys
<1>7. \A x : x \in Keys(s) <=> x \in Keys(a) \cup Keys(b)
  <2>1. \A x : x \in Keys(a) \cup Keys(b) => x \in Keys(s)
    <3>1. \A x : x \in Keys(a) => x \in Keys(s)
      BY <1>1, <1>2, <1>4 DEF Keys
    <3>2. \A x : x \in Keys(b) => x \in Keys(s)
      <4> SUFFICES ASSUME NEW i \in DOMAIN b PROVE b[i] \in Keys(s)
        BY DEF Keys
      <4>1. n + i \in 1 .. Len(s) /\ b[i] = s[n + i]
        BY <1>3, <1>4
      <4> QED BY <1>1, <4>1 DEF Keys
    <3> QED BY <3>1, <3>2
  <2>2. ASSUME NEW x \in Keys(s) PROVE x \in Keys(a) \cup Keys(b)
    <3>1. PICK i \in 1 .. Len(s) : s[i] = x
      BY <1>1 DEF Keys
    <3>2. CASE i \in 1 .. n
      BY <1>2, <3>1, <3>2 DEF Keys
    <3>3. CASE i \notin 1 .. n
      <4>1. i - n \in 1 .. Len(s) - n /\ n + (i - n) = i
        BY <1>4, <3>3
      <4>2. i - n \in DOMAIN b /\ b[i - n] = x
        BY <1>3, <3>1, <4>1
      <4> QED BY <4>2 DEF Keys
    <3> QED BY <3>2, <3>3
  <2> QED BY <2>1, <2>2
<1>8. Keys(s) = Keys(a) \cup Keys(b)
  BY <1>7, Zenon
<1> QED BY <1>2, <1>3, <1>5, <1>6, <1>8 DEF a, b

\* What is fetched or put is a photo.
FetchesPhotos == \A t \in Threads : thread[t].at \in {"fetch", "put"} => thread[t].photo \in Photos

\* What the rest of the state is made of.
RestOK ==
  /\ gallery \subseteq Photos /\ faceOf \subseteq Photos /\ scan \subseteq Photos
  /\ lock \in Threads \cup {Nobody} /\ loaded \in {"never", "fresh", "retry", "due"}
  /\ faces \in [Photos -> {"unknown", "none", "old", "boxes"}]
  /\ current \subseteq Threads /\ page \in Nat
  /\ edits \in 0 .. MaxEdits /\ outages \in 0 .. MaxOutages

CacheInv ==
  /\ items \in Seq(Photos) /\ NoRepeats(items) /\ CacheCounts
  /\ ids \subseteq Photos /\ list \in Lists /\ FetchesPhotos /\ RestOK

PhotosInv == GInv /\ CacheInv

LEMMA CacheInvInit == GalleryInit => CacheInv
<1> SUFFICES ASSUME GalleryInit PROVE CacheInv
  OBVIOUS
<1>1. items = <<>> /\ size = 0 /\ ids = {} /\ list = {} /\ \A t \in Threads : thread[t].at = "idle"
  BY DEF GalleryInit
<1>2. items \in Seq(Photos) /\ NoRepeats(items)
  BY <1>1 DEF NoRepeats
<1>3. Keys(items) = {}
  BY <1>1 DEF Keys
<1>4. CacheCounts
  <2>1. BytesIn({}) = 0
    BY BytesInStep, FS_EmptySet
  <2>2. BytesIn(Keys(items)) = 0
    BY <1>3, <2>1, Zenon
  <2> QED BY <1>1, <2>2, KitchenPhotosAssumption DEF CacheCounts
<1>5. RestOK
  <2>1. MaxEdits \in Nat /\ MaxOutages \in Nat /\ FirstAlbum \subseteq Photos
    BY KitchenPhotosAssumption
  <2> QED BY <2>1 DEF GalleryInit, RestOK
<1> QED BY <1>1, <1>2, <1>4, <1>5 DEF CacheInv, Lists, FetchesPhotos

\* Evicting the oldest images keeps the count.
LEMMA PutIntoKeeps ==
  ASSUME NEW s \in Seq(Photos), NoRepeats(s), NEW t, PutInto(t, s, BytesIn(Keys(s)))
  PROVE  items' \in Seq(Photos) /\ NoRepeats(items') /\ CacheCounts'
<1> DEFINE total == BytesIn(Keys(s))
           fits == {n \in 0 .. Len(s) : total - BytesIn(Keys(SubSeq(s, 1, n))) <= MaxBytes}
           n == Evicted(s, total)
           a == SubSeq(s, 1, n)
           b == SubSeq(s, n + 1, Len(s))
<1>1. Len(s) \in Nat /\ Keys(s) \in SUBSET Photos /\ IsFiniteSet(Keys(s)) /\ total \in Nat /\ MaxBytes \in Nat
  BY KeysFinite, BytesInNat, KitchenPhotosAssumption
<1>2. Len(s) \in fits
  <2>1. SubSeq(s, 1, Len(s)) = s
    OBVIOUS
  <2>2. BytesIn(Keys(SubSeq(s, 1, Len(s)))) = total
    BY <2>1
  <2> HIDE DEF total
  <2>3. total - BytesIn(Keys(SubSeq(s, 1, Len(s)))) <= MaxBytes
    BY <1>1, <2>2
  <2> QED BY <1>1, <2>3
<1>3. n \in fits
  <2>1. n = Min(fits)
    BY DEF Evicted
  <2>2. fits \subseteq Nat /\ fits # {}
    BY <1>2
  <2> HIDE DEF fits, n
  <2>3. \E x \in fits : \A y \in fits : x <= y
    BY <2>2, LeastNat
  <2>4. n = CHOOSE x \in fits : \A y \in fits : x <= y
    BY <2>1 DEF Min
  <2> QED BY <2>3, <2>4
<1>4. n \in 0 .. Len(s) /\ total - BytesIn(Keys(a)) <= MaxBytes
  BY <1>3
<1>5. items' = b /\ size' = total - BytesIn(Keys(a))
  BY DEF PutInto
<1> HIDE DEF n, total, fits
<1>6. /\ a \in Seq(Photos) /\ b \in Seq(Photos) /\ NoRepeats(b)
      /\ Keys(a) \cap Keys(b) = {} /\ Keys(s) = Keys(a) \cup Keys(b)
  <2>1. n \in 0 .. Len(s) BY <1>4
  <2> QED BY <2>1, KeysCut
<1> HIDE DEF a, b
<1>7. /\ Keys(a) \in SUBSET Photos /\ IsFiniteSet(Keys(a)) /\ Keys(b) \in SUBSET Photos /\ IsFiniteSet(Keys(b))
  BY <1>6, KeysFinite
<1>8. BytesIn(Keys(s)) = BytesIn(Keys(a)) + BytesIn(Keys(b))
  <2> DEFINE K == Keys(b)
             L == Keys(a)
  <2>1. K \in SUBSET Photos /\ IsFiniteSet(K) /\ L \in SUBSET Photos /\ IsFiniteSet(L) /\ K \cap L = {}
        /\ Keys(s) = L \cup K
    BY <1>6, <1>7
  <2> HIDE DEF K, L
  <2>2. BytesIn(L \cup K) = BytesIn(L) + BytesIn(K)
    BY <2>1, BytesOfBoth
  <2> QED BY <2>1, <2>2 DEF K, L
<1>9. BytesIn(Keys(a)) \in Nat /\ BytesIn(Keys(b)) \in Nat
  BY <1>7, BytesInNat
<1>10. size' = BytesIn(Keys(b))
  BY <1>5, <1>8, <1>9 DEF total
<1>11. size' <= MaxBytes
  BY <1>4, <1>5
<1> QED BY <1>5, <1>6, <1>10, <1>11 DEF CacheCounts

LEMMA CachePutKeeps ==
  ASSUME PhotosInv, NEW t \in Threads, CachePut(t)
  PROVE  items' \in Seq(Photos) /\ NoRepeats(items') /\ CacheCounts'
<1> DEFINE p == thread[t].photo
<1>1. p \in Photos /\ items \in Seq(Photos) /\ NoRepeats(items) /\ size = BytesIn(Keys(items)) /\ CacheCounts
  BY DEF PhotosInv, CacheInv, FetchesPhotos, CachePut, CacheCounts
<1>2. CASE UNCHANGED imageCache
  BY <1>1, <1>2 DEF imageCache, CacheCounts
<1>3. CASE p \notin Keys(items) /\ PutInto(t, Append(items, p), size + Bytes[p])
  <2> DEFINE s == Append(items, p)
             K == Keys(items) \cup {p}
  <2>1. s \in Seq(Photos) /\ NoRepeats(s) /\ Keys(s) = K
    BY <1>1, <1>3, KeysAppended
  <2>2. K \in SUBSET Photos /\ IsFiniteSet(K)
    <3> HIDE DEF K
    <3> QED BY <2>1, KeysFinite
  <2>3. BytesIn(K) = Bytes[p] + BytesIn(K \ {p})
    <3>1. p \in K OBVIOUS
    <3> HIDE DEF K
    <3> QED BY <2>2, <3>1, BytesOfOne
  <2>4. K \ {p} = Keys(items)
    BY <1>3
  <2>5. Bytes[p] \in Nat /\ BytesIn(Keys(items)) \in Nat
    BY <1>1, KeysFinite, BytesInNat, KitchenPhotosAssumption
  <2>6. size + Bytes[p] = BytesIn(Keys(s))
    <3>1. BytesIn(K \ {p}) = size
      BY <1>1, <2>4, Zenon
    <3>2. BytesIn(Keys(s)) = BytesIn(K)
      BY <2>1, Zenon
    <3>3. size \in Nat
      BY <1>1, <2>5
    <3> HIDE DEF K, s, p
    <3> QED BY <2>3, <2>5, <3>1, <3>2, <3>3
  <2> HIDE DEF s
  <2> QED BY <1>3, <2>1, <2>6, PutIntoKeeps DEF s
<1> QED BY <1>2, <1>3 DEF CachePut

LEMMA CacheGetKeeps ==
  ASSUME PhotosInv, NEW t \in Threads, CacheGet(t)
  PROVE  items' \in Seq(Photos) /\ NoRepeats(items') /\ CacheCounts'
<1> DEFINE p == thread[t].photo
<1>1. items \in Seq(Photos) /\ NoRepeats(items) /\ CacheCounts /\ size' = size
  BY DEF PhotosInv, CacheInv, CacheGet
<1>2. CASE UNCHANGED items
  BY <1>1, <1>2 DEF CacheCounts
<1>3. CASE p \in Keys(items) /\ items' = MovedToEnd(items, p)
  <2>1. items' \in Seq(Photos) /\ NoRepeats(items') /\ Keys(items') = Keys(items)
    <3> HIDE DEF p
    <3> QED BY <1>1, <1>3, KeysMoved
  <2> QED BY <1>1, <2>1 DEF CacheCounts
<1> QED BY <1>2, <1>3 DEF CacheGet

\* What the requests do to the cache.
LEMMA CacheKeeps ==
  ASSUME PhotosInv, [GalleryNext]_galleryVars
  PROVE  items' \in Seq(Photos) /\ NoRepeats(items') /\ CacheCounts'
<1>1. CASE UNCHANGED imageCache
  BY <1>1 DEF imageCache, PhotosInv, CacheInv, CacheCounts
<1>2. UNCHANGED imageCache \/ \E t \in Threads : CacheGet(t) \/ CachePut(t)
  BY DEF GalleryNext, galleryVars, AskPhotos, GetFromMemory, LoadStarts, LoadPage, SetPhotos, LoadDone,
         LoadFails, LoadRaises, Fetch, LoadFaces, AskImage, AlbumDue, EditAlbum
<1> QED BY <1>1, <1>2, CacheGetKeeps, CachePutKeeps

LEMMA FetchesKeeps ==
  ASSUME PhotosInv, [GalleryNext]_galleryVars
  PROVE  FetchesPhotos'
<1>0. thread \in [Threads -> PhotoRequests] /\ FetchesPhotos /\ ids \subseteq Photos
  BY DEF PhotosInv, GInv, OneLoads, CacheInv
<1>1. ASSUME NEW t \in Threads, NEW r, thread' = [thread EXCEPT ![t] = r],
             r.at \in {"fetch", "put"} => r.photo \in Photos
      PROVE  FetchesPhotos'
  BY <1>0, <1>1 DEF FetchesPhotos
<1>2. ASSUME NEW t \in Threads, NEW where, GoTo(t, where),
             where \in {"fetch", "put"} => thread[t].photo \in Photos
      PROVE  FetchesPhotos'
  <2> DEFINE r == [at |-> where, photo |-> thread[t].photo]
  <2>1. thread' = [thread EXCEPT ![t] = r]
    BY <1>2, GoesTo DEF PhotosInv, GInv
  <2>2. r.at = where /\ r.photo = thread[t].photo OBVIOUS
  <2> HIDE DEF r
  <2> QED BY <1>1, <1>2, <2>1, <2>2
<1>3. ASSUME NEW t \in Threads, Done(t) PROVE FetchesPhotos'
  <2> DEFINE r == [at |-> "idle", photo |-> NoPhoto]
  <2>1. r.at = "idle" OBVIOUS
  <2>2. thread' = [thread EXCEPT ![t] = r] BY <1>3 DEF Done
  <2> HIDE DEF r
  <2> QED BY <1>1, <2>1, <2>2
<1>4. CASE UNCHANGED thread
  BY <1>0, <1>4 DEF FetchesPhotos
<1>5. ASSUME NEW t \in Threads, NEW p \in Photos, AskImage(t, p) PROVE FetchesPhotos'
  <2> DEFINE r == [at |-> IF loaded = "never" THEN "wait" ELSE "known", photo |-> p]
  <2>1. r.photo = p OBVIOUS
  <2>2. thread' = [thread EXCEPT ![t] = r] BY <1>5 DEF AskImage
  <2> HIDE DEF r
  <2> QED BY <1>1, <2>1, <2>2
<1>6. ASSUME NEW t \in Threads, CacheGet(t) PROVE FetchesPhotos'
  BY <1>0, <1>2, <1>3, <1>6 DEF CacheGet
<1>7. ASSUME NEW t \in Threads, Fetch(t) PROVE FetchesPhotos'
  <2>1. thread[t].photo \in Photos
    BY <1>0, <1>7 DEF Fetch, FetchesPhotos
  <2> QED BY <1>2, <1>3, <1>7, <2>1 DEF Fetch
<1>8. ASSUME NEW t \in Threads, \/ AskPhotos(t) \/ GetFromMemory(t) \/ LoadStarts(t) \/ LoadPage(t)
                               \/ SetPhotos(t) \/ LoadDone(t) \/ LoadFails(t) \/ LoadRaises(t)
                               \/ CachePut(t)
      PROVE  FetchesPhotos'
  <2>1. \/ UNCHANGED thread \/ Done(t) \/ GoTo(t, "wait") \/ GoTo(t, "pages") \/ GoTo(t, "faces")
        \/ GoTo(t, "publish") \/ GoTo(t, "known")
    BY <1>8 DEF AskPhotos, GetFromMemory, LoadStarts, LoadPage, SetPhotos, LoadDone,
                LoadFails, LoadRaises, CachePut, Answer
  <2> QED BY <1>2, <1>3, <1>4, <2>1
<1>9. ASSUME NEW t \in Threads, NEW p \in Photos, LoadFaces(t, p) PROVE FetchesPhotos'
  BY <1>4, <1>9 DEF LoadFaces
<1>10. CASE UNCHANGED galleryVars \/ (\E anHour \in BOOLEAN : AlbumDue(anHour)) \/ \E p \in Photos : EditAlbum(p)
  BY <1>4, <1>10 DEF galleryVars, AlbumDue, EditAlbum
<1> QED BY <1>5, <1>6, <1>7, <1>8, <1>9, <1>10 DEF GalleryNext

LEMMA ListKeeps ==
  ASSUME PhotosInv, [GalleryNext]_galleryVars, scan \subseteq Photos
  PROVE  list' \in Lists /\ ids' \subseteq Photos
<1>0. list \in Lists /\ ids \subseteq Photos
  BY DEF PhotosInv, CacheInv
<1>1. CASE UNCHANGED <<list, ids>>
  BY <1>0, <1>1
<1>2. ASSUME NEW t \in Threads, SetPhotos(t) PROVE list' \in Lists /\ ids' \subseteq Photos
  <2>1. ids' = ids /\ list' = {[id |-> p, faces |-> faces[p] = "boxes"] : p \in scan}
    BY <1>2 DEF SetPhotos
  <2>2. ASSUME NEW p \in Photos, NEW b \in BOOLEAN
        PROVE  [id |-> p, faces |-> b] \in [id : Photos, faces : BOOLEAN]
    OBVIOUS
  <2>3. \A p \in scan : [id |-> p, faces |-> faces[p] = "boxes"] \in [id : Photos, faces : BOOLEAN]
    <3>1. \A p \in scan : (faces[p] = "boxes") \in BOOLEAN
      OBVIOUS
    <3> QED BY <2>2, <3>1, Zenon
  <2>4. {[id |-> p, faces |-> faces[p] = "boxes"] : p \in scan} \subseteq [id : Photos, faces : BOOLEAN]
    BY <2>3, Zenon
  <2> QED BY <1>0, <2>1, <2>4, Zenon DEF Lists
<1>3. ASSUME NEW t \in Threads, LoadDone(t) PROVE list' \in Lists /\ ids' \subseteq Photos
  BY <1>0, <1>3 DEF LoadDone, Lists, Ids
<1>4. UNCHANGED <<list, ids>> \/ \E t \in Threads : SetPhotos(t) \/ LoadDone(t)
  BY DEF GalleryNext, galleryVars, service, AskPhotos, GetFromMemory, LoadStarts, LoadPage,
         LoadFails, LoadRaises, CacheGet, CachePut, Fetch, LoadFaces, AskImage, AlbumDue, EditAlbum
<1> QED BY <1>1, <1>2, <1>3, <1>4

LEMMA RestKeeps ==
  ASSUME RestOK, [GalleryNext]_galleryVars
  PROVE  RestOK'
<1> USE DEF galleryVars, immichVars, service, imageCache
<1>1. MaxEdits \in Nat /\ MaxOutages \in Nat
  BY KitchenPhotosAssumption
<1>2. Outage => outages' \in 0 .. MaxOutages
  BY <1>1 DEF Outage, RestOK
<1>3. ASSUME NEW t \in Threads, Answer(t) PROVE current' \subseteq Threads
  BY <1>3 DEF Answer, RestOK
<1>4. OnPage(page) \subseteq Photos
  BY DEF OnPage, RestOK
<1>5. ASSUME NEW t \in Threads,
             AskPhotos(t) \/ GetFromMemory(t) \/ LoadStarts(t) \/ CacheGet(t) \/ CachePut(t)
      PROVE  RestOK'
  BY <1>3, <1>5 DEF AskPhotos, GetFromMemory, LoadStarts, CacheGet, CachePut, RestOK
<1>6. ASSUME NEW t \in Threads, LoadPage(t) PROVE RestOK'
  BY <1>4, <1>6 DEF LoadPage, RestOK
<1>7. ASSUME NEW t \in Threads, SetPhotos(t) PROVE RestOK'
  BY <1>7 DEF SetPhotos, RestOK
<1>8. ASSUME NEW t \in Threads, LoadDone(t) PROVE RestOK'
  BY <1>3, <1>8 DEF LoadDone, RestOK
<1>9. ASSUME NEW t \in Threads, LoadFails(t) \/ LoadRaises(t) PROVE RestOK'
  BY <1>2, <1>3, <1>9 DEF LoadFails, LoadRaises, RestOK
<1>10. ASSUME NEW t \in Threads, Fetch(t) PROVE RestOK'
  BY <1>2, <1>10 DEF Fetch, RestOK
<1>11. ASSUME NEW t \in Threads, NEW p \in Photos, LoadFaces(t, p) \/ AskImage(t, p) PROVE RestOK'
  BY <1>2, <1>11 DEF LoadFaces, AskImage, FaceBoxes, RestOK
<1>12. ASSUME NEW anHour \in BOOLEAN, AlbumDue(anHour) PROVE RestOK'
  BY <1>12 DEF AlbumDue, RestOK
<1>13. ASSUME NEW p \in Photos, EditAlbum(p) PROVE RestOK'
  BY <1>1, <1>13 DEF EditAlbum, RestOK
<1>14. CASE UNCHANGED galleryVars
  BY <1>14 DEF RestOK
<1> QED BY <1>5, <1>6, <1>7, <1>8, <1>9, <1>10, <1>11, <1>12, <1>13, <1>14 DEF GalleryNext

LEMMA PhotosInvNext ==
  ASSUME PhotosInv, [GalleryNext]_galleryVars
  PROVE  PhotosInv'
<1>1. GInv /\ RestOK /\ scan \subseteq Photos
  BY DEF PhotosInv, CacheInv, RestOK
<1>2. GInv' /\ RestOK'
  BY <1>1, GalleryInvNext, RestKeeps
<1>3. items' \in Seq(Photos) /\ NoRepeats(items)' /\ CacheCounts'
  BY CacheKeeps DEF NoRepeats
<1> QED BY <1>1, <1>2, <1>3, FetchesKeeps, ListKeeps DEF PhotosInv, CacheInv

LEMMA PhotosInvCorrect == GallerySpec => []PhotosInv
<1>1. GalleryInit => PhotosInv
  BY GalleryInvInit, CacheInvInit DEF PhotosInv
<1> QED BY <1>1, PhotosInvNext, PTL DEF GallerySpec

\* The image cache counts the bytes it holds and stays within its limit, for any
\* number of requests and photos and any sizes, though two requests may fetch and
\* put the same image (server.py:482, :636).
THEOREM CacheCountsCorrect == GallerySpec => []CacheCounts
<1>1. PhotosInv => CacheCounts
  BY DEF PhotosInv, CacheInv
<1> QED BY <1>1, PhotosInvCorrect, PTL

-----------------------------------------------------------------------------
(* The types of all of them                                                    *)

\* A Coral detector: the bus, the process, and its flags.
UsbTypes ==
  /\ plugged \subseteq Corals /\ dfu \subseteq Corals /\ flashing \subseteq plugged
  /\ disturbed \subseteq Servers
  /\ address \in BOOLEAN /\ mishaps \in 0 .. MaxMishaps

ProcessTypes ==
  /\ at \in [Servers -> {"down", "address", "load", "bind"} \cup Opening \cup Bound]
  /\ listed \in [Servers -> SUBSET Corals]
  /\ delegate \in [Servers -> Corals \cup {NoCoral, Gone}]
  /\ errors \in [Servers -> 0 .. MaxErrors - 1]
  /\ client \in [Servers -> {"new", "ready", "notReady"}]

FlagTypes ==
  /\ model \in [Servers -> BOOLEAN] /\ busy \in [Servers -> BOOLEAN]
  /\ ready \in [Servers -> BOOLEAN] /\ deviceOk \in [Servers -> BOOLEAN]

\* A process that goes on from the list holds a Coral, one that has opened none has no
\* model, and without a model the gauges are 0.
HeldFromList == \A s \in Servers : at[s] \in {"flash", "check", "load", "bind"} \cup Bound => delegate[s] # NoCoral
ModelByPlace == \A s \in Servers : at[s] \in {"down", "address", "load"} \cup Opening => ~model[s]
InfersWithModel == \A s \in Servers : at[s] = "infer" => model[s]
GaugesNeedModel == \A s \in Servers : (ready[s] \/ deviceOk[s]) => model[s] /\ at[s] \in {"bind"} \cup Bound

CoralTypes == UsbTypes /\ ProcessTypes /\ FlagTypes /\ HeldFromList /\ ModelByPlace /\ InfersWithModel /\ GaugesNeedModel

LEMMA CoralTypesInit == CoralInit => CoralTypes
BY CoralAssumption DEF CoralInit, CoralTypes, UsbTypes, ProcessTypes, FlagTypes, HeldFromList, ModelByPlace,
   InfersWithModel, GaugesNeedModel, Opening, Looked, Bound

LEMMA UsbKeeps ==
  ASSUME CoralTypes, [CoralNext]_coralVars
  PROVE  UsbTypes'
<1> USE CoralAssumption DEF CoralTypes, UsbTypes, usb, Visible
<1>1. ASSUME NEW kind, Mishap(kind) PROVE mishaps' \in 0 .. MaxMishaps
  BY <1>1 DEF Mishap
<1>2. ASSUME NEW s \in Servers, Resolve(s) \/ LoadDelegate(s) \/ Flashed(s) PROVE UsbTypes'
  BY <1>2 DEF Resolve, LoadDelegate, Flashed
<1>3. ASSUME NEW s \in Servers, ServerStep(s), ~Resolve(s), ~LoadDelegate(s), ~Flashed(s) PROVE UsbTypes'
  <2>1. UNCHANGED <<usb, address>> /\ (mishaps' = mishaps \/ \E kind : Mishap(kind))
    BY <1>3 DEF ServerStep, ServiceStart, WaitForAddress, CheckList, StartupLoad,
         BindSocket, ModelRequest, LoadHangs, DetectWithoutModel, Detect, Inferred, InferenceFails,
         InferenceHangs, WatchdogExit, Stopped, AddressCheck
  <2> QED BY <1>1, <2>1
<1>4. CASE AddressChanges
  <2>1. UNCHANGED usb /\ address' = ~address /\ (mishaps' = mishaps \/ \E kind : Mishap(kind))
    BY <1>4 DEF AddressChanges
  <2>2. address' \in BOOLEAN
    BY <2>1
  <2> QED BY <1>1, <2>1, <2>2
<1>5. ASSUME NEW d \in Corals, Unplug(d) \/ Plug(d) PROVE UsbTypes'
  BY <1>1, <1>5 DEF Unplug, Plug
<1>6. CASE UNCHANGED coralVars \/ \E s \in Servers : HandshakeFails(s) \/ FrigateRestarts(s)
  BY <1>6 DEF coralVars, HandshakeFails, FrigateRestarts
<1> QED BY <1>2, <1>3, <1>4, <1>5, <1>6 DEF CoralNext

LEMMA ProcessKeeps ==
  ASSUME CoralTypes, [CoralNext]_coralVars
  PROVE  ProcessTypes' /\ HeldFromList'
<1> USE CoralAssumption DEF CoralTypes, UsbTypes, ProcessTypes, HeldFromList, Goes, Set, Ends, Opening, Looked, Bound, process,
        gauges
<1>1. ASSUME NEW s \in Servers, ServiceStart(s) \/ WaitForAddress(s) \/ LoadHangs(s) \/ InferenceHangs(s)
      PROVE ProcessTypes' /\ HeldFromList'
  BY <1>1 DEF ServiceStart, WaitForAddress, LoadHangs, InferenceHangs
<1>2. ASSUME NEW s \in Servers, Resolve(s) PROVE ProcessTypes' /\ HeldFromList'
  BY <1>2 DEF Resolve, Visible
<1>3. ASSUME NEW s \in Servers, LoadDelegate(s) PROVE ProcessTypes' /\ HeldFromList'
  BY <1>3 DEF LoadDelegate, Visible
<1>4. ASSUME NEW s \in Servers, Flashed(s) \/ CheckList(s) PROVE ProcessTypes' /\ HeldFromList'
  BY <1>4 DEF Flashed, CheckList
<1>5. ASSUME NEW s \in Servers, StartupLoad(s) \/ BindSocket(s) PROVE ProcessTypes' /\ HeldFromList'
  BY <1>5 DEF StartupLoad, BindSocket
<1>6. ASSUME NEW s \in Servers, ModelRequest(s) \/ DetectWithoutModel(s) \/ Detect(s) \/ Inferred(s)
      PROVE ProcessTypes' /\ HeldFromList'
  BY <1>6 DEF ModelRequest, DetectWithoutModel, Detect, Inferred
<1>7. ASSUME NEW s \in Servers, InferenceFails(s) PROVE ProcessTypes' /\ HeldFromList'
  <2>1. errors[s] + 1 # MaxErrors => errors[s] + 1 \in 0 .. MaxErrors - 1
    OBVIOUS
  <2> QED BY <1>7, <2>1 DEF InferenceFails
<1>8. ASSUME NEW s \in Servers, WatchdogExit(s) \/ Stopped(s) \/ AddressCheck(s) PROVE ProcessTypes' /\ HeldFromList'
  BY <1>8 DEF WatchdogExit, Stopped, AddressCheck
<1>9. ASSUME NEW d \in Corals, Unplug(d) PROVE ProcessTypes' /\ HeldFromList'
  BY <1>9 DEF Unplug
<1>10. CASE UNCHANGED coralVars \/ AddressChanges \/ (\E d \in Corals : Plug(d))
           \/ \E s \in Servers : HandshakeFails(s) \/ FrigateRestarts(s)
  BY <1>10 DEF coralVars, AddressChanges, Plug, HandshakeFails, FrigateRestarts
<1> QED BY <1>1, <1>2, <1>3, <1>4, <1>5, <1>6, <1>7, <1>8, <1>9, <1>10 DEF CoralNext, ServerStep

\* What changes of one process.
LEMMA FlagsOfOne ==
  ASSUME CoralTypes, NEW s \in Servers, at' = at \/ \E where : at' = Set(at, s, where),
         model' \in {model, Set(model, s, TRUE), Set(model, s, FALSE)},
         busy' \in {busy, Set(busy, s, TRUE), Set(busy, s, FALSE)},
         ready' \in {ready, Set(ready, s, TRUE), Set(ready, s, FALSE)},
         deviceOk' \in {deviceOk, Set(deviceOk, s, TRUE), Set(deviceOk, s, FALSE)},
         at'[s] \in {"down", "address", "load"} \cup Opening => ~model'[s],
         at'[s] = "infer" => model'[s],
         ready'[s] \/ deviceOk'[s] => model'[s] /\ at'[s] \in {"bind"} \cup Bound
  PROVE  FlagTypes' /\ ModelByPlace' /\ InfersWithModel' /\ GaugesNeedModel'
<1> USE DEF CoralTypes, ProcessTypes, FlagTypes, Set
<1>1. FlagTypes'
  BY Zenon
<1>2. \A t \in Servers : t # s => at'[t] = at[t] /\ model'[t] = model[t] /\ ready'[t] = ready[t]
                                   /\ deviceOk'[t] = deviceOk[t]
  BY Zenon
<1>3. ModelByPlace'
  BY <1>2, Zenon DEF ModelByPlace
<1>4. GaugesNeedModel'
  BY <1>2, Zenon DEF GaugesNeedModel
<1>5. InfersWithModel'
  BY <1>2, Zenon DEF InfersWithModel
<1> QED BY <1>1, <1>3, <1>4, <1>5

LEMMA FlagsKeep ==
  ASSUME CoralTypes, [CoralNext]_coralVars
  PROVE  FlagTypes' /\ ModelByPlace' /\ InfersWithModel' /\ GaugesNeedModel'
<1> USE DEF Goes, process, gauges
<1> DEFINE Kept == FlagTypes' /\ ModelByPlace' /\ InfersWithModel' /\ GaugesNeedModel'
<1>0. /\ at \in [Servers -> {"down", "address", "load", "bind"} \cup Opening \cup Bound]
      /\ model \in [Servers -> BOOLEAN] /\ ready \in [Servers -> BOOLEAN]
      /\ deviceOk \in [Servers -> BOOLEAN] /\ busy \in [Servers -> BOOLEAN]
      /\ ModelByPlace /\ InfersWithModel /\ GaugesNeedModel
  BY DEF CoralTypes, ProcessTypes, FlagTypes
\* Without a model, up to the load; and a load that hangs.
<1>1. ASSUME NEW s \in Servers, at[s] \in {"down", "address", "load"} \cup Opening,
             NEW where \in {"down", "address", "load", "bind", "stuck"} \cup Opening, at' = Set(at, s, where),
             UNCHANGED <<model, busy, ready, deviceOk>>
      PROVE  Kept
  <2>1. at'[s] = where /\ where # "infer"
    BY <1>0, <1>1 DEF Set, Opening, Looked
  <2>2. ~ready[s] /\ ~deviceOk[s]
    BY <1>0, <1>1 DEF GaugesNeedModel, Bound, Opening, Looked
  <2>3. where \in {"down", "address", "load"} \cup Opening => ~model[s]
    BY <1>0, <1>1 DEF ModelByPlace
  <2> QED BY <1>1, <2>1, <2>2, <2>3, FlagsOfOne, Zenon
<1>2. ASSUME NEW s \in Servers, Ends(s) PROVE Kept
  <2>1. /\ model' = Set(model, s, FALSE) /\ busy' = Set(busy, s, FALSE) /\ at' = Set(at, s, "down")
        /\ ready' = Set(ready, s, FALSE) /\ deviceOk' = Set(deviceOk, s, FALSE)
    BY <1>2, Zenon DEF Ends, Set
  <2>2. ~model'[s] /\ ~ready'[s] /\ ~deviceOk'[s] /\ at'[s] = "down"
    BY <1>0, <2>1, Zenon DEF Set
  <2>3. "down" # "infer" OBVIOUS
  <2> QED BY <2>1, <2>2, <2>3, FlagsOfOne, Zenon
\* Around a bound socket, with a model or without.
<1>3. ASSUME NEW s \in Servers, at[s] \in Bound \cup {"bind"}, NEW where \in Bound, at' = Set(at, s, where) \/ at' = at,
             UNCHANGED model, where = "infer" => model[s],
             busy' \in {busy, Set(busy, s, TRUE), Set(busy, s, FALSE)},
             ready' \in {ready, Set(ready, s, FALSE), Set(ready, s, model[s])},
             deviceOk' \in {deviceOk, Set(deviceOk, s, FALSE), Set(deviceOk, s, TRUE)},
             deviceOk' = Set(deviceOk, s, TRUE) => model[s]
      PROVE  Kept
  <2>1. at'[s] \in {"bind"} \cup Bound
    BY <1>0, <1>3, Zenon DEF Set
  <2>2. ready'[s] \/ deviceOk'[s] => model'[s]
    <3>1. ready[s] \/ deviceOk[s] => model[s]
      BY <1>0, Zenon DEF GaugesNeedModel
    <3>2. ready'[s] => ready[s] \/ model[s]
      BY <1>0, <1>3, Zenon DEF Set
    <3>3. deviceOk'[s] => deviceOk[s] \/ model[s]
      BY <1>0, <1>3, Zenon DEF Set
    <3> QED BY <1>3, <3>1, <3>2, <3>3, Zenon
  <2>3. at'[s] \notin {"down", "address", "load"} \cup Opening
    BY <2>1 DEF Bound, Opening, Looked
  <2>4. at' = at \/ \E w : at' = Set(at, s, w)
    BY <1>3, Zenon
  <2>5. at'[s] = "infer" => model'[s]
    BY <1>0, <1>3, Zenon DEF Set, InfersWithModel
  <2>6. ready' \in {ready, Set(ready, s, TRUE), Set(ready, s, FALSE)}
    <3>1. CASE model[s]
      <4>1. model[s] = TRUE BY <1>0, <3>1
      <4> QED BY <1>3, <4>1, Zenon
    <3>2. CASE ~model[s]
      <4>1. model[s] = FALSE BY <1>0, <3>2
      <4> QED BY <1>3, <4>1, Zenon
    <3> QED BY <3>1, <3>2
  <2> QED BY <1>3, <2>1, <2>2, <2>3, <2>4, <2>5, <2>6, FlagsOfOne, Zenon
<1>4. ASSUME NEW s \in Servers, ServiceStart(s) \/ WaitForAddress(s) \/ Resolve(s) \/ LoadDelegate(s)
                               \/ Flashed(s) \/ CheckList(s)
      PROVE  Kept
  <2>1. PICK where \in {"address", "list", "open", "flash", "check", "load"} : at' = Set(at, s, where)
    BY <1>4 DEF ServiceStart, WaitForAddress, Resolve, LoadDelegate, Flashed, CheckList, Set
  <2>2. at[s] \in {"down", "address", "load"} \cup Opening /\ UNCHANGED <<model, busy, ready, deviceOk>>
    BY <1>4 DEF ServiceStart, WaitForAddress, Resolve, LoadDelegate, Flashed, CheckList, Opening, Looked
  <2>3. where \in {"down", "address", "load", "bind", "stuck"} \cup Opening
    BY DEF Opening, Looked
  <2> QED BY <1>1, <2>1, <2>2, <2>3
<1>5. ASSUME NEW s \in Servers, StartupLoad(s) PROVE Kept
  <2>1. at[s] = "load" /\ at' = Set(at, s, "bind") /\ UNCHANGED <<busy, ready>>
    BY <1>5 DEF StartupLoad, Set
  <2>2. CASE UNCHANGED <<model, deviceOk>>
    BY <1>1, <2>1, <2>2
  <2>3. CASE model' = Set(model, s, TRUE) /\ deviceOk' = Set(deviceOk, s, TRUE)
    <3>1. model'[s] /\ at'[s] = "bind"
      BY <1>0, <2>1, <2>3, Zenon DEF Set
    <3>2. at'[s] \notin {"down", "address", "load"} \cup Opening /\ at'[s] \in {"bind"} \cup Bound
      BY <3>1 DEF Opening, Looked
    <3> QED BY <2>1, <2>3, <3>1, <3>2, FlagsOfOne, Zenon
  <2> QED BY <1>5, <2>2, <2>3 DEF StartupLoad
<1>6. ASSUME NEW s \in Servers, BindSocket(s) PROVE Kept
  <2>1. CASE ~address
    BY <1>2, <1>6, <2>1 DEF BindSocket
  <2>2. CASE address
    <3>1. at[s] = "bind" /\ at' = Set(at, s, "serve") /\ ready' = Set(ready, s, model[s])
          /\ UNCHANGED <<model, busy, deviceOk>>
      BY <1>6, <2>2, Zenon DEF BindSocket, Set
    <3>2. deviceOk' = Set(deviceOk, s, TRUE) => model[s]
      BY <1>0, <3>1, Zenon DEF Set, GaugesNeedModel
    <3>3. "serve" \in Bound /\ "serve" # "infer" /\ at[s] \in Bound \cup {"bind"}
      BY <3>1 DEF Bound
    <3> QED BY <1>3, <3>1, <3>2, <3>3, Zenon
  <2> QED BY <2>1, <2>2
<1>7. ASSUME NEW s \in Servers, ModelRequest(s) PROVE Kept
  <2>1. at[s] = "serve" /\ UNCHANGED <<at, busy>>
    BY <1>7 DEF ModelRequest
  <2>2. CASE UNCHANGED <<model, ready, deviceOk>>
    BY <1>0, <2>1, <2>2 DEF FlagTypes, ModelByPlace, InfersWithModel, GaugesNeedModel
  <2>3. CASE model' = Set(model, s, TRUE) /\ ready' = Set(ready, s, TRUE)
             /\ deviceOk' \in {deviceOk, Set(deviceOk, s, TRUE)}
    <3>1. model'[s] /\ at'[s] = "serve"
      BY <1>0, <2>1, <2>3, Zenon DEF Set
    <3>2. at'[s] \notin {"down", "address", "load"} \cup Opening /\ at'[s] \in {"bind"} \cup Bound
      BY <3>1 DEF Opening, Looked, Bound
    <3> QED BY <2>1, <2>3, <3>1, <3>2, FlagsOfOne, Zenon
  <2> QED BY <1>7, <2>2, <2>3 DEF ModelRequest
<1>8. ASSUME NEW s \in Servers, LoadHangs(s) PROVE Kept
  <2>1. at' = Set(at, s, "stuck") /\ UNCHANGED <<model, busy, ready, deviceOk>>
    BY <1>8 DEF LoadHangs, Set
  <2>2. CASE at[s] = "load"
    BY <1>1, <2>1, <2>2
  <2>3. CASE at[s] = "serve"
    <3>1. deviceOk' = Set(deviceOk, s, TRUE) => model[s]
      BY <1>0, <2>1, Zenon DEF Set, GaugesNeedModel
    <3>2. "stuck" \in Bound /\ "stuck" # "infer" /\ at[s] \in Bound \cup {"bind"}
      BY <2>3 DEF Bound
    <3> QED BY <1>3, <2>1, <3>1, <3>2, Zenon
  <2> QED BY <1>8, <2>2, <2>3 DEF LoadHangs
<1>9. ASSUME NEW s \in Servers, DetectWithoutModel(s) \/ Detect(s) \/ Inferred(s) \/ InferenceHangs(s) PROVE Kept
  <2>1. PICK where \in Bound : (at' = at \/ at' = Set(at, s, where)) /\ (where = "infer" => model[s])
    BY <1>9 DEF DetectWithoutModel, Detect, Inferred, InferenceHangs, Set, Bound
  <2>2. /\ at[s] \in Bound \cup {"bind"} /\ UNCHANGED model
        /\ busy' \in {busy, Set(busy, s, TRUE), Set(busy, s, FALSE)}
        /\ ready' \in {ready, Set(ready, s, FALSE)} /\ deviceOk' \in {deviceOk, Set(deviceOk, s, TRUE)}
    BY <1>9 DEF DetectWithoutModel, Detect, Inferred, InferenceHangs, Bound
  <2>3. deviceOk' = Set(deviceOk, s, TRUE) => model[s]
    <3>1. CASE UNCHANGED deviceOk
      BY <1>0, <3>1, Zenon DEF Set, GaugesNeedModel
    <3>2. CASE at[s] = "infer"
      BY <1>0, <3>2 DEF InfersWithModel
    <3> QED BY <1>9, <3>1, <3>2 DEF DetectWithoutModel, Detect, Inferred, InferenceHangs
  <2> QED BY <1>3, <2>1, <2>2, <2>3, Zenon
<1>10. ASSUME NEW s \in Servers, InferenceFails(s) PROVE Kept
  <2>1. CASE Ends(s)
    BY <1>2, <2>1
  <2>2. CASE ~Ends(s)
    <3>1. /\ at[s] = "infer" /\ at' = Set(at, s, "serve") /\ busy' = Set(busy, s, FALSE)
          /\ deviceOk' = Set(deviceOk, s, FALSE) /\ UNCHANGED <<model, ready>>
      BY <1>10, <2>2, Zenon DEF InferenceFails, Set
    <3>2. "serve" \in Bound /\ "serve" # "infer" /\ at[s] \in Bound \cup {"bind"}
      BY <3>1 DEF Bound
    <3>3. model[s]
      BY <1>0, <3>1 DEF InfersWithModel
    <3> QED BY <1>3, <3>1, <3>2, <3>3, Zenon
  <2> QED BY <2>1, <2>2
<1>11. ASSUME NEW s \in Servers, WatchdogExit(s) \/ Stopped(s) \/ AddressCheck(s) PROVE Kept
  BY <1>2, <1>11 DEF WatchdogExit, Stopped, AddressCheck
<1>12. CASE \/ UNCHANGED coralVars \/ AddressChanges \/ (\E d \in Corals : Unplug(d) \/ Plug(d))
            \/ \E s \in Servers : HandshakeFails(s) \/ FrigateRestarts(s)
  <2>1. UNCHANGED <<at, model, busy, ready, deviceOk>>
    BY <1>12 DEF coralVars, AddressChanges, Unplug, Plug, HandshakeFails, FrigateRestarts
  <2> QED BY <1>0, <2>1 DEF FlagTypes, ModelByPlace, InfersWithModel, GaugesNeedModel
<1>13. ASSUME NEW s \in Servers, ServerStep(s) PROVE Kept
  BY <1>4, <1>5, <1>6, <1>7, <1>8, <1>9, <1>10, <1>11, <1>13 DEF ServerStep
<1>14. CASE CoralNext
  BY <1>12, <1>13, <1>14, Zenon DEF CoralNext
<1>15. CASE UNCHANGED coralVars
  BY <1>12, <1>15, Zenon
<1> QED BY <1>14, <1>15 DEF Kept

LEMMA CoralTypesNext ==
  ASSUME CoralTypes, [CoralNext]_coralVars
  PROVE  CoralTypes'
BY UsbKeeps, ProcessKeeps, FlagsKeep DEF CoralTypes

LEMMA CoralTypesGive == ASSUME CoralTypes PROVE CoralTypeOK
BY Zenon DEF CoralTypes, UsbTypes, ProcessTypes, FlagTypes, HeldFromList, ModelByPlace, GaugesNeedModel, CoralTypeOK

\* A template has its exporter's key and one of its layouts.
LEMMA TemplatesAreExporters ==
  ASSUME NEW p \in Packets, p.kind = "template"
  PROVE  p.from \in Exporters /\ p.layout \in AllLayouts /\ KeyOf(p.from) \in TemplateKeys
<1> DEFINE Templates(e) == {Template(e, l) : l \in Layouts[e]}
           DataSets(e) == {Data(e, l, fs) : l \in Layouts[e], fs \in Sets[e]}
<1>1. p \notin PlainPackets
  BY DEF PlainPackets, Malformed, Plain
<1>2. PICK e \in Exporters : p \in FromExporter(e)
  BY <1>1 DEF Packets
<1>3. p \notin DataSets(e)
  BY DEF Data
<1>4. PICK l \in Layouts[e] : p = Template(e, l)
  BY <1>2, <1>3 DEF FromExporter
<1> QED BY <1>4 DEF Template, AllLayouts, KeyOf, TemplateKeys

\* The flow collector's packets and layouts, and where its loop is.
FlowRest ==
  /\ net \subseteq Packets
  /\ layout \in [Exporters -> AllLayouts] /\ \A e \in Exporters : layout[e] \in Layouts[e]
  /\ templates \in [TemplateKeys -> AllLayouts \cup {Absent}]
  /\ rx \in {"recv", "count"} /\ (rx = "recv" => records = <<>>)

LEMMA FlowRestInit == ASSUME FlowInit PROVE FlowRest
  BY FlowAssumption DEF FlowInit, FlowRest, AllLayouts

LEMMA FlowRestKeeps ==
  ASSUME FlowRest, [FlowNext]_flowVars
  PROVE  FlowRest'
<1> USE DEF FlowRest
<1>1. ASSUME NEW p \in Packets, ReceiveTemplate(p) PROVE FlowRest'
  <2>1. /\ p \in net /\ net' \subseteq Packets /\ UNCHANGED <<layout, rx, records>>
        /\ templates' = [templates EXCEPT ![KeyOf(p.from)] = p.layout] /\ p.kind = "template"
    BY <1>1 DEF ReceiveTemplate, Arrives
  <2> QED BY <2>1, TemplatesAreExporters
<1>2. ASSUME NEW p \in Packets, \/ ReceiveData(p) \/ ReceiveSflow(p) \/ ReceiveNetflow5(p)
                               \/ Send(p) \/ Lose(p)
      PROVE  FlowRest'
  <2>1. net' \subseteq Packets /\ UNCHANGED <<layout, templates>>
    BY <1>2 DEF ReceiveData, ReceiveSflow, ReceiveNetflow5, Arrives, Send, Lose
  <2>2. rx' \in {"recv", "count"} /\ (rx' = "recv" => records' = <<>>)
    BY <1>2 DEF ReceiveData, ReceiveSflow, ReceiveNetflow5, Send, Lose
  <2> QED BY <2>1, <2>2
<1>3. CASE CountRecord \/ SetDone \/ DecodeError
  BY <1>3 DEF CountRecord, SetDone, DecodeError
<1>4. ASSUME NEW e \in Exporters, Redefine(e) PROVE FlowRest'
  <2>1. PICK l \in Layouts[e] : layout' = [layout EXCEPT ![e] = l]
    BY <1>4 DEF Redefine
  <2>2. l \in AllLayouts
    BY <2>1 DEF AllLayouts
  <2>3. UNCHANGED <<net, templates, rx, records>>
    BY <1>4 DEF Redefine
  <2> QED BY <2>1, <2>2, <2>3
<1>5. CASE (\E prometheus \in BOOLEAN : Render(prometheus)) \/ FlowTick \/ FlowRestart \/ UNCHANGED flowVars
  BY <1>5 DEF Render, FlowTick, FlowRestart, flowVars
<1> QED BY <1>1, <1>2, <1>3, <1>4, <1>5 DEF FlowNext

\* Where the loop over the table is, and the packet in hand.
AsnRest ==
  /\ fresh \in BOOLEAN /\ asnFaults \in 0 .. MaxAsnFaults
  /\ loop \in {"check", "download", "load", "swap", "sleep"} /\ (loop = "swap" => parsed # Empty)
  /\ Len(packet) <= MaxRecords

LEMMA AsnRestKeeps ==
  ASSUME AInv, AsnRest, [AsnNext]_asnVars
  PROVE  AsnRest'
<1>1. packet \in Seq(Ips) /\ Len(packet) \in Nat /\ MaxRecords \in Nat /\ MaxAsnFaults \in Nat
  BY AsnAssumption DEF AInv, AsnParts
<1>2. ASSUME Load, file # Truncated PROVE parsed' # Empty
  <2>1. file \in Dumps /\ parsed' = Arrays(file)
    BY <1>2 DEF Load, AInv, AsnParts
  <2>2. file # <<>> /\ file \in Seq([lo : Nat, hi : Nat, asn : Nat])
    BY <2>1, AsnAssumption
  <2>3. DOMAIN file # {}
    <3> DEFINE R == [lo : Nat, hi : Nat, asn : Nat]
    <3>1. file # <<>> /\ file \in Seq(R)
      BY <2>2
    <3> HIDE DEF R
    <3>2. Len(file) \in Nat /\ Len(file) # 0 /\ DOMAIN file = 1 .. Len(file)
      BY <3>1
    <3> QED BY <3>2
  <2>4. DOMAIN Arrays(file).starts = DOMAIN file /\ DOMAIN Empty.starts = DOMAIN <<>>
    BY Zenon DEF Arrays, Empty
  <2>5. DOMAIN <<>> = {}
    OBVIOUS
  <2> QED BY <2>1, <2>3, <2>4, <2>5
<1>3. CASE CheckFile \/ Download \/ DownloadFails \/ Load \/ Swap \/ Wake \/ FileAges
  <2>1. UNCHANGED packet /\ fresh' \in BOOLEAN /\ asnFaults' \in 0 .. MaxAsnFaults
    <3>1. UNCHANGED packet /\ fresh' \in {fresh, TRUE, FALSE} /\ (asnFaults' = asnFaults \/ AsnFault)
      BY <1>3 DEF CheckFile, Download, DownloadFails, Load, Swap, Wake, FileAges
    <3>2. asnFaults' \in 0 .. MaxAsnFaults
      BY <1>1, <3>1 DEF AsnRest, AsnFault
    <3>3. fresh' \in BOOLEAN
      BY <3>1, Zenon DEF AsnRest
    <3> QED BY <3>1, <3>2, <3>3
  <2>2. loop' \in {"check", "download", "load", "swap", "sleep"} /\ (loop' = "swap" => parsed' # Empty)
    BY <1>2, <1>3 DEF AsnRest, CheckFile, Download, DownloadFails, Load, Swap, Wake, FileAges
  <2> QED BY <2>1, <2>2 DEF AsnRest
<1>4. ASSUME UNCHANGED <<fresh, asnFaults, loop, parsed>>, Len(packet') <= MaxRecords
      PROVE  AsnRest'
  BY <1>4 DEF AsnRest
<1>5. CASE TakePacket
  <2>1. PICK n \in 1 .. MaxRecords : packet' \in [1 .. n -> Ips]
    BY <1>5 DEF TakePacket
  <2>2. Len(packet') = n
    BY <1>1, <2>1
  <2> QED BY <1>1, <1>4, <1>5, <2>2 DEF TakePacket
<1>6. CASE LookupStarts \/ LookupEnds \/ LookupAsns
  <2>1. packet' \in {packet, Tail(packet), <<>>} /\ (packet' = Tail(packet) => packet # <<>>)
    BY <1>6 DEF LookupStarts, LookupEnds, LookupAsns, Attribute, PacketLost, AInv, AsnParts
  <2>2. Len(packet') <= MaxRecords
    <3>1. packet # <<>> => Len(Tail(packet)) = Len(packet) - 1
      BY <1>1
    <3> QED BY <1>1, <2>1, <3>1 DEF AsnRest
  <2> QED BY <1>4, <1>6, <2>2 DEF LookupStarts, LookupEnds, LookupAsns
<1>7. CASE AsnRestart
  BY <1>1, <1>7 DEF AsnRestart, AsnRest, AsnFault
<1>8. CASE UNCHANGED asnVars
  BY <1>8 DEF asnVars, AsnRest
<1> QED BY <1>3, <1>5, <1>6, <1>7, <1>8 DEF AsnNext

LEMMA AsnRestInit == ASSUME AsnInit PROVE AsnRest
<1>1. MaxRecords \in Nat /\ MaxAsnFaults \in Nat /\ Len(<<>>) = 0
  BY AsnAssumption
<1>2. asnFaults \in 0 .. MaxAsnFaults /\ Len(packet) <= MaxRecords
  BY <1>1 DEF AsnInit
<1>3. fresh \in BOOLEAN /\ loop \in {"check", "download", "load", "swap", "sleep"} /\ loop # "swap"
  BY DEF AsnInit
<1> QED BY <1>2, <1>3 DEF AsnRest

\* The app's lease, the lock and the counts.
EvidenceRest ==
  /\ siteLease \in Leases /\ passLock \in Scrapes \cup {NoScrape}
  /\ moves \in 0 .. MaxMoves /\ apiFaults \in 0 .. MaxApiFaults

LEMMA EvidenceRestInit == ASSUME EvidenceInit PROVE EvidenceRest
<1>1. siteLease \in Leases /\ passLock \in Scrapes \cup {NoScrape}
  BY DEF EvidenceInit, Leases
<1>2. moves \in 0 .. MaxMoves /\ apiFaults \in 0 .. MaxApiFaults
  BY EvidenceAssumption DEF EvidenceInit
<1> QED BY <1>1, <1>2 DEF EvidenceRest

LEMMA EvidenceRestKeeps ==
  ASSUME EvidenceRest, [EvidenceNext]_evidenceVars
  PROVE  EvidenceRest'
<1> USE EvidenceAssumption DEF EvidenceRest, ApiFault, world, passing
<1>1. CASE Move \/ Minute \/ FenceJob \/ Publish \/ UNCHANGED evidenceVars
  BY <1>1 DEF Move, Minute, FenceJob, Publish, evidenceVars
<1>2. ASSUME NEW s \in Scrapes, \/ Collect(s) \/ ReadWorkload(s) \/ WorkloadsDone(s) \/ WorkloadsFail(s)
                               \/ Services(s) \/ Recovery(s) \/ Answered(s)
      PROVE  EvidenceRest'
  BY <1>2 DEF Collect, ReadWorkload, WorkloadsDone, WorkloadsFail, Services, Recovery, Answered
<1> QED BY <1>1, <1>2 DEF EvidenceNext

LEMMA EvidenceTypesGive == ASSUME EInv, EvidenceRest PROVE EvidenceTypeOK
<1>1. {"idle", "answered"} \cup Sections = {"idle", "workloads", "services", "recovery", "answered"}
  BY DEF Sections
<1> QED BY <1>1, Zenon DEF EInv, EvidenceParts, EvidenceRest, EvidenceTypeOK

LEMMA GalleryTypesGive == ASSUME PhotosInv PROVE GalleryTypeOK
<1>1. size \in Nat
  BY KeysFinite, BytesInNat DEF PhotosInv, CacheInv, CacheCounts
<1>2. ASSUME NEW t \in Threads
      PROVE  /\ thread[t].at \in Spots /\ thread[t].photo \in Photos \cup {NoPhoto}
             /\ thread[t].at \in {"pages", "faces", "publish"} <=> lock = t
  BY DEF PhotosInv, GInv, OneLoads, PhotoRequests
<1> QED BY <1>1, <1>2 DEF PhotosInv, CacheInv, RestOK, GalleryTypeOK, Spots

\* The weather is asked for first, the forecast after it, and neither again.
LEMMA RequestsAre ==
  /\ Len(Requests) \in Nat /\ Len(Requests) >= 2 /\ DOMAIN Requests = 1 .. Len(Requests)
  /\ \A i \in 1 .. Len(Requests) : Requests[i] = "weather" => i = 1
  /\ "forecast" \in Parts
<1> DEFINE S == STRING \ {"weather", "forecast"}
<1>1. Sources \in Seq(S) /\ "weather" \notin S
  BY KitchenInfoAssumption
<1> HIDE DEF S
<1>2. Len(Sources) \in Nat /\ \A i \in 1 .. Len(Sources) : Sources[i] # "weather"
  BY <1>1
<1>3. /\ Len(Requests) = 2 + Len(Sources) /\ Requests[2] = "forecast"
      /\ \A i \in 3 .. Len(Requests) : Requests[i] = Sources[i - 2]
      /\ DOMAIN Requests = 1 .. Len(Requests)
  BY <1>1 DEF Requests
<1>4. \A i \in 3 .. Len(Requests) : Requests[i] # "weather"
  <2>1. \A i \in 3 .. Len(Requests) : i - 2 \in 1 .. Len(Sources)
    BY <1>2, <1>3
  <2> QED BY <1>2, <1>3, <2>1
<1>5. 2 \in DOMAIN Requests
  BY <1>2, <1>3
<1>6. "forecast" \in Parts
  BY <1>3, <1>5 DEF Parts
<1>7. Requests[2] # "weather"
  BY <1>3
<1> QED BY <1>2, <1>3, <1>4, <1>6, <1>7

Asked == [at : {"idle", "wait", "build"}, day : 0 .. Days]

\* A request that goes elsewhere, and its window.
LEMMA AskedGoes ==
  ASSUME asked \in [Displays -> Asked], NEW t \in Displays, NEW where \in {"idle", "wait", "build"},
         NEW d \in 0 .. Days, asked' = [asked EXCEPT ![t] = [at |-> where, day |-> d]],
         \A u \in Displays : asked[u].at = "build" <=> infoLock = u,
         where = "build" <=> infoLock' = t,
         \A u \in Displays \ {t} : infoLock' = u <=> infoLock = u
  PROVE  asked' \in [Displays -> Asked] /\ \A u \in Displays : asked'[u].at = "build" <=> infoLock' = u
<1> DEFINE r == [at |-> where, day |-> d]
<1>1. r \in Asked /\ r.at = where
  BY DEF Asked
<1> HIDE DEF r
<1>2. asked' = [asked EXCEPT ![t] = r]
  BY DEF r
<1>3. asked' \in [Displays -> Asked] /\ asked'[t] = r /\ \A u \in Displays \ {t} : asked'[u] = asked[u]
  BY <1>1, <1>2
<1> QED BY <1>1, <1>3

LEMMA InfoTypeNext ==
  ASSUME InfoTypeOK, [InfoNext]_infoVars
  PROVE  InfoTypeOK'
<1> DEFINE Lock == /\ infoLock \in Displays \cup {NoDisplay} /\ asked \in [Displays -> Asked]
                   /\ \A u \in Displays : asked[u].at = "build" <=> infoLock = u
           Build == next \in 1 .. Len(Requests) + 1 /\ missing \subseteq Parts
           Forecast == forecast \in [there : BOOLEAN, due : BOOLEAN]
           Shown == infoCache \in [answer : Answers, due : BOOLEAN] /\ shown \in [Displays -> Answers]
           Counts == day \in 1 .. Days /\ infoFaults \in 0 .. MaxInfoFaults
<1>1. InfoTypeOK <=> Lock /\ Build /\ Forecast /\ Shown /\ Counts
  BY Zenon DEF InfoTypeOK, Asked
<1>2. (InfoTypeOK <=> Lock /\ Build /\ Forecast /\ Shown /\ Counts)'
  BY Zenon DEF InfoTypeOK, Asked, Answers, Parts, Requests
<1>3. Lock /\ Build /\ Forecast /\ Shown /\ Counts
  BY <1>1
<1> HIDE DEF Lock, Build, Forecast, Shown, Counts
<1>4. Counts'
  <2>1. day' = day \/ (day < Days /\ day' = day + 1)
    BY DEF InfoNext, Asking, Building, infoVars, NextDay, InfoAges, ForecastAges, AskInfo, GetCached, BuildStarts,
       KeepForecast, FetchForecast, ForecastFails, GetPart, PartFails, BuildDies, BuildEnds
  <2>2. infoFaults' = infoFaults \/ Fault
    BY DEF InfoNext, Asking, Building, infoVars, NextDay, InfoAges, ForecastAges, AskInfo, GetCached, BuildStarts,
       KeepForecast, FetchForecast, ForecastFails, GetPart, PartFails, BuildDies, BuildEnds
  <2> QED BY <1>3, <2>1, <2>2, KitchenInfoAssumption DEF Counts, Fault
<1>5. Build'
  <2>1. /\ 1 \in 1 .. Len(Requests) + 1
        /\ next <= Len(Requests) => next + 1 \in 1 .. Len(Requests) + 1
        /\ next <= Len(Requests) /\ Requests[next] = "weather" => next + 2 \in 1 .. Len(Requests) + 1
    BY <1>3, RequestsAre DEF Build
  <2>2. next' \in 1 .. Len(Requests) + 1
    BY <1>3, <2>1
       DEF Build, InfoNext, Asking, Building, infoVars, NextDay, InfoAges, ForecastAges, AskInfo, GetCached, BuildStarts,
       Asks, KeepForecast, FetchForecast, ForecastFails, GetPart, PartFails, BuildDies, BuildEnds
  <2>3. missing' \subseteq Parts
    BY <1>3, RequestsAre
       DEF Build, InfoNext, Asking, Building, infoVars, NextDay, InfoAges, ForecastAges, AskInfo, GetCached, BuildStarts,
       KeepForecast, FetchForecast, ForecastFails, GetPart, PartFails, BuildDies, BuildEnds
  <2> QED BY <2>2, <2>3 DEF Build
<1>6. Forecast'
  <2>1. \/ forecast' = forecast \/ forecast' = [forecast EXCEPT !.due = TRUE]
        \/ forecast' = [there |-> TRUE, due |-> FALSE] \/ forecast' \in [there : {forecast.there, FALSE}, due : {FALSE}]
    BY DEF InfoNext, Asking, Building, infoVars, NextDay, InfoAges, ForecastAges, AskInfo, GetCached, BuildStarts,
       KeepForecast, FetchForecast, ForecastFails, GetPart, PartFails, BuildDies, BuildEnds
  <2>2. forecast \in [there : BOOLEAN, due : BOOLEAN] /\ forecast.there \in BOOLEAN
    BY <1>3 DEF Forecast
  <2>3. [forecast EXCEPT !.due = TRUE] \in [there : BOOLEAN, due : BOOLEAN]
    BY <2>2, Zenon
  <2>4. [there |-> TRUE, due |-> FALSE] \in [there : BOOLEAN, due : BOOLEAN]
    BY Zenon
  <2>5. [there : {forecast.there, FALSE}, due : {FALSE}] \subseteq [there : BOOLEAN, due : BOOLEAN]
    BY <2>2, Zenon
  <2> QED BY <2>1, <2>2, <2>3, <2>4, <2>5, Zenon DEF Forecast
<1>7. ASSUME NEW t \in Displays, BuildEnds(t)
      PROVE  [day |-> asked[t].day, missing |-> missing] \in Answers
  BY <1>3 DEF Lock, Build, Asked, Answers
<1>8. infoCache.answer \in Answers
  BY <1>3 DEF Shown
<1>9. ASSUME NEW t \in Displays, NEW answer \in Answers, Reply(t, answer)
      PROVE  shown' \in [Displays -> Answers]
  BY <1>3, <1>9 DEF Shown, Reply
<1>10. Shown'
  <2>1. CASE UNCHANGED <<infoCache, shown>>
    BY <1>3, <2>1 DEF Shown
  <2>2. CASE InfoAges
    <3>1. [infoCache EXCEPT !.due = TRUE] \in [answer : Answers, due : BOOLEAN]
      BY <1>3, Zenon DEF Shown
    <3> QED BY <1>3, <2>2, <3>1 DEF InfoAges, Shown
  <2>3. ASSUME NEW t \in Displays, GetCached(t) PROVE Shown'
    BY <1>3, <1>8, <1>9, <2>3 DEF GetCached, Shown
  <2>4. ASSUME NEW t \in Displays, BuildEnds(t) PROVE Shown'
    <3> DEFINE answer == [day |-> asked[t].day, missing |-> missing]
    <3>1. answer \in Answers /\ infoCache' = [answer |-> answer, due |-> FALSE] /\ Reply(t, answer)
      BY <1>7, <2>4 DEF BuildEnds
    <3> HIDE DEF answer
    <3>2. infoCache' \in [answer : Answers, due : BOOLEAN]
      BY <3>1
    <3> QED BY <1>9, <3>1, <3>2 DEF Shown
  <2>5. UNCHANGED <<infoCache, shown>> \/ InfoAges \/ \E t \in Displays : GetCached(t) \/ BuildEnds(t)
    BY DEF InfoNext, Asking, Building, infoVars, NextDay, ForecastAges, AskInfo, BuildStarts,
       KeepForecast, FetchForecast, ForecastFails, GetPart, PartFails, BuildDies
  <2> QED BY <2>1, <2>2, <2>3, <2>4, <2>5
<1>11. Lock'
  <2>1. CASE UNCHANGED <<infoLock, asked>>
    BY <1>3, <2>1 DEF Lock
  <2>2. NoDisplay \notin Displays /\ Days \in Nat \ {0} /\ day \in 0 .. Days
    BY <1>3, KitchenInfoAssumption DEF Counts
  <2>3. ASSUME NEW t \in Displays, AskInfo(t) PROVE Lock'
    <3>1. asked[t].at = "idle" /\ infoLock' = infoLock /\ asked' = [asked EXCEPT ![t] = [at |-> "wait", day |-> day]]
      BY <2>3 DEF AskInfo
    <3>2. infoLock' # t
      BY <1>3, <3>1 DEF Lock
    <3> QED BY <1>3, <2>2, <3>1, <3>2, AskedGoes DEF Lock
  <2>4. ASSUME NEW t \in Displays, asked' = [asked EXCEPT ![t] = [at |-> "idle", day |-> 0]],
               infoLock' = NoDisplay, infoLock \in {t, NoDisplay}
        PROVE  Lock'
    <3>1. 0 \in 0 .. Days /\ infoLock' # t /\ \A u \in Displays \ {t} : infoLock' = u <=> infoLock = u
      BY <2>2, <2>4
    <3> QED BY <1>3, <2>4, <3>1, AskedGoes DEF Lock
  <2>5. ASSUME NEW t \in Displays, GetCached(t) PROVE Lock'
    BY <2>4, <2>5 DEF GetCached, Reply
  <2>6. ASSUME NEW t \in Displays, BuildDies(t) \/ BuildEnds(t) PROVE Lock'
    BY <2>4, <2>6 DEF BuildDies, BuildEnds, Reply
  <2>7. ASSUME NEW t \in Displays, BuildStarts(t) PROVE Lock'
    <3> DEFINE d == asked[t].day
    <3>1. /\ asked[t].at = "wait" /\ infoLock = NoDisplay /\ infoLock' = t
          /\ asked' = [asked EXCEPT ![t].at = "build"]
      BY <2>7 DEF BuildStarts
    <3>2. asked[t] \in Asked /\ asked \in [Displays -> Asked]
      BY <1>3 DEF Lock
    <3>3. asked[t] = [at |-> asked[t].at, day |-> d] /\ d \in 0 .. Days
      BY <3>2 DEF Asked
    <3>4. asked' = [asked EXCEPT ![t] = [at |-> "build", day |-> d]]
      <4>1. [asked[t] EXCEPT !.at = "build"] = [at |-> "build", day |-> d]
        BY <3>3
      <4> QED BY <3>1, <4>1, Zenon
    <3>5. \A u \in Displays \ {t} : infoLock' = u <=> infoLock = u
      BY <2>2, <3>1
    <3> HIDE DEF d
    <3> QED BY <1>3, <3>1, <3>3, <3>4, <3>5, AskedGoes DEF Lock
  <2>8. \/ UNCHANGED <<infoLock, asked>>
        \/ \E t \in Displays : AskInfo(t) \/ GetCached(t) \/ BuildDies(t) \/ BuildEnds(t) \/ BuildStarts(t)
    BY DEF InfoNext, Asking, Building, infoVars, NextDay, InfoAges, ForecastAges,
       KeepForecast, FetchForecast, ForecastFails, GetPart, PartFails
  <2> QED BY <2>1, <2>3, <2>5, <2>6, <2>7, <2>8
<1> QED BY <1>2, <1>4, <1>5, <1>6, <1>10, <1>11

LEMMA InfoTypeInit == ASSUME InfoInit PROVE InfoTypeOK
<1>1. Days \in Nat \ {0} /\ MaxInfoFaults \in Nat /\ NoDisplay \notin Displays /\ 0 \in 0 .. Days
      /\ 1 \in 1 .. Days /\ 0 \in 0 .. MaxInfoFaults /\ 1 \in 1 .. Len(Requests) + 1
  BY KitchenInfoAssumption, RequestsAre
<1>2. NoAnswer \in Answers
  BY <1>1 DEF NoAnswer, Answers
<1>3. [answer |-> NoAnswer, due |-> TRUE] \in [answer : Answers, due : BOOLEAN]
      /\ [there |-> FALSE, due |-> TRUE] \in [there : BOOLEAN, due : BOOLEAN]
  BY <1>2
<1>4. asked \in [Displays -> [at : {"idle", "wait", "build"}, day : 0 .. Days]]
      /\ \A t \in Displays : asked[t].at # "build" /\ infoLock # t
  BY <1>1 DEF InfoInit
<1>5. shown \in [Displays -> Answers]
  BY <1>2 DEF InfoInit
<1> QED BY <1>1, <1>3, <1>4, <1>5 DEF InfoInit, InfoTypeOK

AllTypes ==
  /\ active \in ServiceNames /\ CoralTypes /\ FInv /\ FlowRest /\ AInv /\ AsnRest
  /\ PhotosInv /\ InfoTypeOK /\ EInv /\ EvidenceRest

\* The types of every service, and where each of its requests, lookups and processes is
\* with what it holds: one proof per service, since they share nothing.
THEOREM ServicesTypeCorrect == ServicesSpec => []ServicesTypeOK
<1>1. ServicesInit => AllTypes
  <2> SUFFICES ASSUME ServicesInit PROVE AllTypes
    OBVIOUS
  <2>1. FlowRest /\ EvidenceRest
    BY FlowRestInit, EvidenceRestInit DEF ServicesInit
  <2>2. FInv /\ AInv /\ EInv /\ PhotosInv
    BY FlowInvInit, AsnInvInit, EvidenceInvInit, GalleryInvInit, CacheInvInit DEF ServicesInit, PhotosInv
  <2>3. CoralTypes /\ AsnRest /\ InfoTypeOK
    BY CoralTypesInit, AsnRestInit, InfoTypeInit DEF ServicesInit
  <2> QED BY <2>1, <2>2, <2>3 DEF ServicesInit, AllTypes
<1>2. AllTypes /\ [ServicesNext]_<<servicesVars, active>> => AllTypes'
  <2> SUFFICES ASSUME AllTypes, [ServicesNext]_<<servicesVars, active>> PROVE AllTypes'
    OBVIOUS
  <2>1. /\ [CoralNext]_coralVars /\ [FlowNext]_flowVars /\ [AsnNext]_asnVars
        /\ [GalleryNext]_galleryVars /\ [InfoNext]_infoVars /\ [EvidenceNext]_evidenceVars
        /\ UNCHANGED active
    <3>1. CASE UNCHANGED <<servicesVars, active>>
      BY <3>1 DEF servicesVars
    <3>2. CASE ServicesNext
      BY <3>2 DEF ServicesNext
    <3> QED BY <3>1, <3>2
  <2>2. CoralTypes' /\ FInv' /\ FlowRest' /\ AInv' /\ AsnRest'
    BY <2>1, CoralTypesNext, FlowInvNext, FlowRestKeeps, AsnInvNext, AsnRestKeeps DEF AllTypes
  <2>3. PhotosInv' /\ InfoTypeOK' /\ EInv' /\ EvidenceRest'
    BY <2>1, PhotosInvNext, InfoTypeNext, EvidenceInvNext, EvidenceRestKeeps DEF AllTypes
  <2> QED BY <2>1, <2>2, <2>3 DEF AllTypes
<1>3. AllTypes => ServicesTypeOK
  <2> SUFFICES ASSUME AllTypes PROVE ServicesTypeOK
    OBVIOUS
  <2>1. FlowTypeOK
    BY Zenon DEF AllTypes, FInv, FlowParts, FlowRest, FlowTypeOK
  <2>2. AsnTypeOK
    BY DEF AllTypes, AInv, AsnParts, OneOvertaken, AsnRest, AsnTypeOK
  <2>3. CoralTypeOK /\ EvidenceTypeOK /\ GalleryTypeOK
    BY CoralTypesGive, EvidenceTypesGive, GalleryTypesGive DEF AllTypes
  <2> QED BY <2>1, <2>2, <2>3 DEF AllTypes, ServicesTypeOK
<1> QED BY <1>1, <1>2, <1>3, PTL DEF ServicesSpec

=============================================================================
