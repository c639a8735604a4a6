---------------------------- MODULE MCServices ----------------------------
(***************************************************************************)
(* The services that share nothing with each other, checked side by side:  *)
(* a behaviour runs one of them, the others stay as they start.            *)
(***************************************************************************)
EXTENDS CoralDetector, FlowCollector, AsnTable, KitchenPhotos, KitchenInfo,
        EvidenceCollector

CONSTANTS s1, s2, e1, e2, e3, wide, narrow

VARIABLE active

ServiceNames == {"coral", "flow", "asn", "gallery", "info", "evidence"}

servicesVars == <<coralVars, flowVars, asnVars, galleryVars, infoVars, evidenceVars>>

ServicesInit ==
    /\ active \in ServiceNames
    /\ CoralInit /\ FlowInit /\ AsnInit /\ GalleryInit /\ InfoInit
    /\ EvidenceInit

ServicesNext ==
    /\ UNCHANGED active
    /\ \/ /\ active = "coral" /\ CoralNext
          /\ UNCHANGED <<flowVars, asnVars, galleryVars, infoVars, evidenceVars>>
       \/ /\ active = "flow" /\ FlowNext
          /\ UNCHANGED <<coralVars, asnVars, galleryVars, infoVars, evidenceVars>>
       \/ /\ active = "asn" /\ AsnNext
          /\ UNCHANGED <<coralVars, flowVars, galleryVars, infoVars, evidenceVars>>
       \/ /\ active = "gallery" /\ GalleryNext
          /\ UNCHANGED <<coralVars, flowVars, asnVars, infoVars, evidenceVars>>
       \/ /\ active = "info" /\ InfoNext
          /\ UNCHANGED <<coralVars, flowVars, asnVars, galleryVars, evidenceVars>>
       \/ /\ active = "evidence" /\ EvidenceNext
          /\ UNCHANGED <<coralVars, flowVars, asnVars, galleryVars, infoVars>>

ServicesSpec == ServicesInit /\ [][ServicesNext]_<<servicesVars, active>>

\* Every service's variables have their types, and where a request, a lookup or a
\* process is agrees with what it holds.
ServicesTypeOK ==
    /\ active \in ServiceNames
    /\ CoralTypeOK /\ FlowTypeOK /\ AsnTypeOK /\ GalleryTypeOK /\ InfoTypeOK
    /\ EvidenceTypeOK

(* The liveness of the service that runs, under its module's fairness.     *)

\* Whatever goes wrong, a Coral service infers again, or shows that it doesn't.
CoralNeverBlind == active = "coral" /\ CoralFair => NeverSilentlyBlind

\* Neither bad packets nor failed lookups stop the flow collector for good.
FlowKeepsCounting == active = "flow" /\ FlowFair => KeepsCounting

\* An exporter with a key of its own comes to be read with its own layout.
FlowLayoutsSettle == active = "flow" /\ FlowFair => LayoutsSettle

\* After failed downloads, a cut-off file or a restart, networks are named again.
AsnTableReturns == active = "asn" /\ AsnFair => TableReturns

\* The screensaver's photos come to be the album's, whatever failed meanwhile.
PhotosConverge == active = "gallery" /\ GalleryFair => GalleryConverges

\* The overlay gets back every part that failed, for the day it is.
OverlayRecovers == active = "info" /\ InfoFair => InfoRecovers

-----------------------------------------------------------------------------
MCSelected == [s \in {s1, s2} |-> IF s = s1 THEN 1 ELSE 2]

\* e2 and e3 share domain and id, e1 has a domain of its own.
MCTemplateId == [e \in {e1, e2, e3} |-> 256]
MCDomain == [e \in {e1, e2, e3} |-> IF e = e1 THEN 1 ELSE 2]
MCLayouts == [e \in {e1, e2, e3} |-> CASE e = e1 -> {wide, narrow} [] e = e2 -> {wide} [] e = e3 -> {narrow}]
MCFirstLayout == [e \in {e1, e2, e3} |-> IF e = e3 THEN narrow ELSE wide]
Flow(s, d, p) == [src |-> s, dst |-> d, post |-> p, bytes |-> 1]
\* A download, seen before and after NAT is undone, and what another router sends.
MCSets == [e \in {e1, e2, e3} |-> IF e = e1 THEN {<<Flow(1, 11, NoAddress), Flow(1, 20, 11)>>}
                              ELSE IF e = e2 THEN {<<Flow(11, 1, NoAddress)>>} ELSE {}]
MCGarbled == {<<>>, <<Flow(1, 11, NoAddress)>>}
\* A sampled ARP request and a sampled download; a v5 record.
MCSampled == {<<Flow(NoAddress, NoAddress, NoAddress), Flow(1, 11, NoAddress)>>}
MCFixed == {<<Flow(12, 1, NoAddress)>>}
MCWatched == [direction |-> "receive", client |-> 11, remote |-> 1]

Net(l, h, a) == [lo |-> l, hi |-> h, asn |-> a]
MCDumps == {<<Net(1, 2, 7), Net(3, 4, 8)>>, <<Net(1, 1, 9), Net(2, 2, 7), Net(4, 4, 8)>>,
            <<Net(2, 4, 8)>>}

MCBytes == [p \in {1, 2} |-> 3 - p]
MCSources == <<"calendar">>
=============================================================================
