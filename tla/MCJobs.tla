------------------------------ MODULE MCJobs ------------------------------
(***************************************************************************)
(* The jobs and generators that share nothing with each other, checked     *)
(* side by side: a behaviour runs one of them, the others stay as they     *)
(* start.                                                                  *)
(***************************************************************************)
EXTENDS ImmichSync, EdgeosSync, ZonePolicies, RouterRecords, EvidenceRules,
        MonitoringVolume, LitellmKeys

CONSTANTS
    g1, g2, k1, k2, k3, a1, a2,                             \* albums, items, photos
    vpn, mgmt, wsl, out, cont, goneZone, ctl, nvr, cams,        \* zones, address groups
    lan, oldVlan, host, gonehost, gonenet, box, app, haproxy,   \* VLANs, addresses
    dead, router1, peer, n1, n2, n3, n4                     \* next hops, a peer, names

VARIABLE active

JobNames == {"immich", "edgeos", "zones", "records", "rules", "volume", "keys"}

jobsVars == <<syncVars, edgeVars, zoneVars, recordVars, rulesVars, volumeVars, keyVars>>

JobsInit ==
    /\ active \in JobNames
    /\ SyncInit /\ EdgeosInit /\ ZonesInit /\ RecordsInit /\ RulesInit /\ VolumeInit /\ KeysInit
    \* One initial state for what does not run.
    /\ active # "immich" => made = {}
    /\ active # "zones" => ~outsideVlan
    /\ active # "records" => pools = {} /\ vpnPeers = {}
    /\ active # "rules" => family = "engine" /\ site = [x \in Series |-> NoSample]
    /\ active # "keys" => secret = [e \in Range(KeysFile) |-> "m1"]

JobsNext ==
    /\ UNCHANGED active
    /\ \/ /\ active = "immich" /\ SyncNext
          /\ UNCHANGED <<edgeVars, zoneVars, recordVars, rulesVars, volumeVars, keyVars>>
       \/ /\ active = "edgeos" /\ EdgeosNext
          /\ UNCHANGED <<syncVars, zoneVars, recordVars, rulesVars, volumeVars, keyVars>>
       \/ /\ active = "zones" /\ ZonesNext
          /\ UNCHANGED <<syncVars, edgeVars, recordVars, rulesVars, volumeVars, keyVars>>
       \/ /\ active = "records" /\ RecordsNext
          /\ UNCHANGED <<syncVars, edgeVars, zoneVars, rulesVars, volumeVars, keyVars>>
       \/ /\ active = "rules" /\ RulesNext
          /\ UNCHANGED <<syncVars, edgeVars, zoneVars, recordVars, volumeVars, keyVars>>
       \/ /\ active = "volume" /\ VolumeNext
          /\ UNCHANGED <<syncVars, edgeVars, zoneVars, recordVars, rulesVars, keyVars>>
       \/ /\ active = "keys" /\ KeysNext
          /\ UNCHANGED <<syncVars, edgeVars, zoneVars, recordVars, rulesVars, volumeVars>>

JobsSpec == JobsInit /\ [][JobsNext]_<<jobsVars, active>>

\* Every job's variables have their types, and what a run holds agrees with where it is.
JobsTypeOK ==
    /\ active \in JobNames
    /\ SyncTypeOK /\ EdgeosTypeOK /\ ZonesTypeOK /\ RecordsTypeOK /\ RulesTypeOK
    /\ VolumeTypeOK /\ KeysTypeOK

(* The liveness of the job that runs, under its module's fairness.         *)

\* Once lists, Google and the network are quiet the library is what is listed.
ImmichConverges == active = "immich" /\ SyncFair => MirrorConverges

\* A change that cuts the router off is undone on the router itself.
RouterComesBack == active = "edgeos" /\ EdgeosFair => ComesBack

\* Whatever failed, the scheduled task brings an initialized volume back.
VolumeReturns == active = "volume" /\ VolumeFair => VolumeComesBack

\* Every entry LiteLLM accepts comes to have the key the file asks for.
KeysReturn == active = "keys" /\ KeysFair => KeysConverge

-----------------------------------------------------------------------------
MCKeysOf == [g \in {g1, g2} |-> IF g = g1 THEN {k1, k2} ELSE {k3}]
MCBytes == [k \in {k1, k2, k3} |-> IF k = k2 THEN a2 ELSE a1]

\* Every pair the translation treats in a way of its own, and the ones they join.
MCBindable == {<<vpn, cont>>, <<vpn, wsl>>, <<cont, mgmt>>, <<wsl, mgmt>>, <<out, cont>>,
               <<wsl, cont>>, <<mgmt, goneZone>>}
MCSourcePairs == {<<cont, mgmt>>}
MCPortsOf == [s \in {"dns", "ctl", "web"} |->
                CASE s = "dns" -> <<1>> [] s = "ctl" -> <<2, 3>> [] s = "web" -> <<1, 2, 4, 3>>]
From(src, dst, proto, ports, action) ==
    [src |-> src, dst |-> dst, proto |-> proto, ports |-> ports, action |-> action]
ToCameras(proto, ports) == From(NoGroup, cams, proto, ports, "accept")
MCVyosRules == [p \in MCBindable |->
    IF p[2] = cont THEN {From(NoGroup, ctl, "tcp", "web", "accept"),
                         From(NoGroup, NoGroup, "tcp_udp", "ctl", "accept"),
                         From(NoGroup, NoGroup, "udp", "dns", "accept")}
    ELSE IF p[1] = cont THEN {ToCameras("tcp_udp", "web")}
    ELSE {ToCameras("tcp", "web"), From(nvr, NoGroup, "any", NoPorts, "accept"),
          From(NoGroup, NoGroup, "tcp", "web", "unknown")}]
MCExtraRules == <<[from |-> wsl, to |-> mgmt, rules |-> {ToCameras("tcp_udp", "ctl")}]>>

MCNetOf == [a \in {host, gonehost, gonenet, box, app, haproxy, dead} |->
              CASE a = gonenet -> oldVlan [] a \in {host, gonehost} -> lan [] OTHER -> NoAddress]
MCRetarget == [a \in {app, haproxy} |-> IF a = app THEN host ELSE NoAddress]
MCExtra == [n \in {n1} |-> host]
MCExtraLeases == [z \in {lan} |-> {host}]
MapTo(n, a) == [name |-> n, to |-> a]
MCMappings == {MapTo(n2, gonenet), MapTo(n2, app), MapTo(n1, haproxy)}
Bound(n, type, to) == [name |-> n, type |-> type, to |-> to]
MCBind == {Bound(n2, "A", host), Bound(n2, "A", gonenet), Bound(n3, "CNAME", n2),
           Bound(n4, "A", host)}
DstNat(z, s, d, t, p) == [zone |-> z, src |-> s, dst |-> d, to |-> t, proto |-> p]
MCNat == {DstNat(lan, gonehost, box, box, "tcp_udp"), DstNat(lan, NoAddress, host, host, "udp"),
          DstNat(lan, host, NoAddress, dead, "udp"), DstNat(oldVlan, NoAddress, box, box, "udp")}
Hop(d, g) == [dst |-> d, gateway |-> g]
MCRoutes == {Hop("net", router1), Hop("net", dead), Hop("default", router1)}

MCFile == <<"bad", "good", "more">>
=============================================================================
