----------------------------- MODULE RouterRecords -----------------------------
(***************************************************************************)
(* The rest of the router generator (vyos-to-locals.py, beside             *)
(* ZonePolicies): VLANs, DHCP, DNS records, routes, destination NAT and    *)
(* WireGuard peers of the VyOS configuration, without what is retired.     *)
(* main takes the parsed configuration through passes, in this order:      *)
(* VLANs and leases, retired zones, DNS, routes, NAT, peers.               *)
(*                                                                         *)
(* A record's key stands for its name, rule numbers sort as they count,    *)
(* the source and destination of a NAT rule are exemptions ("!address"),   *)
(* and a wildcard mapping and its apex have one address.                   *)
(***************************************************************************)
EXTENDS Naturals, Sequences, FiniteSets, SequencesExt

CONSTANTS
    VlanZones, GoneZones,     \* zones with a VLAN; RETIRED_ZONES
    VpnPeers, Rekeyed,        \* peers VyOS may have; WG_PEER_PUBLIC_KEYS
    Names, Addresses,
    NetOf,                    \* [Addresses -> the zone whose VLAN they are in, or NoAddress]
    Retarget,                 \* DNS_RECORD_RETARGET_BY_ADDRESS; NoAddress: None
    Resolvers,                \* CONTAINER_DNS_ADDRESSES
    DropNames, ExtraRecords,  \* DNS_RECORD_DROP, EXTRA_DNS_RECORDS
    DeadHops, RetiredHosts,   \* DEAD_NEXT_HOPS (and the retired upstream), hosts of RETIRED_ADDRESS_GROUPS
    ExtraLeases,              \* [a DHCP zone -> addresses of EXTRA_DHCP_LEASES]
    Mappings, BindLines,      \* lines of blocky's mapping and bind's zones
    NatLines, RouteLines,     \* VyOS's rules and routes
    MaxLines,                 \* bound: lines of the configuration
    NoAddress, Router         \* Router: the router itself

ASSUME RouterRecordsAssumption ==
    /\ GoneZones \subseteq VlanZones /\ NetOf \in [Addresses -> VlanZones \cup {NoAddress}]
    /\ DOMAIN Retarget \subseteq Addresses /\ DOMAIN ExtraRecords \subseteq Names
    /\ DropNames \subseteq Names /\ Names \cap {<<n>> : n \in Names} = {}
    /\ Resolvers \subseteq Addresses /\ NoAddress \notin Addresses /\ MaxLines \in Nat
    /\ DOMAIN ExtraLeases \subseteq VlanZones
    /\ \A m \in Mappings : m.name \in Names
    /\ \A b \in BindLines : b.name \in Names /\ b.type \in {"A", "CNAME"}
    /\ NatLines \subseteq [zone : VlanZones, src : Addresses \cup {NoAddress},
                          dst : Addresses \cup {NoAddress}, to : Addresses,
                          proto : {"tcp", "udp", "tcp_udp"}]

VARIABLES
    lines,                    \* lines read
    vlans, pools, leases,     \* VLANs, those with DHCP, their leases' addresses
    vpnPeers, live,           \* WireGuard peers; zones whose rulesets have rules
    blocky, bind, dropped,    \* DNS: mapping, zone files, DropAction names
    nat, hops,                \* NAT rules by number; route table
    svis, static, routes, dstnat, \* what is written
    pass                          \* where main is

sourceVars == <<lines, vlans, pools, leases, vpnPeers, live, blocky, bind, dropped, nat, hops>>
recordVars == <<sourceVars, svis, static, routes, dstnat, pass>>

NoTable == [k \in {} |-> NoAddress]
With(table, k, v) == [x \in (DOMAIN table) \cup {k} |-> IF x = k THEN v ELSE table[x]]
Without(table, ks) == [x \in (DOMAIN table) \ ks |-> table[x]]

A(address) == [type |-> "A", to |-> address]
AddressOf(record) == IF record.type = "A" THEN record.to ELSE NoAddress

Passes == {"read", "vlans", "zones", "retarget", "drop", "extra", "routes", "nat", "peers",
           "written", "refused"}

\* What is read and what is written have their types; nothing is written before the passes.
RecordsTypeOK ==
    /\ lines \in 0 .. MaxLines /\ pass \in Passes
    /\ vlans \subseteq VlanZones /\ pools \subseteq VlanZones /\ live \subseteq VlanZones
    /\ DOMAIN svis \subseteq vlans /\ DOMAIN routes \subseteq DOMAIN hops
    /\ DOMAIN static \subseteq Names \cup {<<n>> : n \in Names}
    /\ \A k \in DOMAIN static : static[k].type \in {"A", "CNAME", "NXDOMAIN"}
    /\ dstnat # <<>> => pass \in {"peers", "written", "refused"}

\* What the tables of the generator ask for may or may not be there.
RecordsInit ==
    /\ lines = 0 /\ vlans = {} /\ leases = {} /\ live = {}
    /\ pools \in SUBSET (DOMAIN ExtraLeases) /\ vpnPeers \in SUBSET Rekeyed
    /\ blocky = NoTable /\ bind = NoTable /\ dropped = {} /\ nat = <<>> /\ hops = NoTable
    /\ svis = NoTable /\ static = NoTable /\ routes = NoTable /\ dstnat = <<>> /\ pass = "read"

-----------------------------------------------------------------------------
(* The parsers. A later line with the same key replaces an earlier one.    *)

Line ==
    /\ pass = "read" /\ lines < MaxLines /\ lines' = lines + 1
    /\ UNCHANGED <<svis, static, routes, dstnat, pass>>

\* A VLAN, or a WireGuard peer.
ParseInterfaces ==
    /\ Line /\ \/ \E z \in VlanZones \ vlans : vlans' = vlans \cup {z} /\ UNCHANGED vpnPeers
               \/ \E p \in VpnPeers \ vpnPeers : vpnPeers' = vpnPeers \cup {p} /\ UNCHANGED vlans
    /\ UNCHANGED <<pools, leases, live, blocky, bind, dropped, nat, hops>>

\* A zone's ruleset with rules.
ParseRules ==
    /\ Line /\ \E z \in VlanZones \ live : live' = live \cup {z}
    /\ UNCHANGED <<vlans, pools, leases, vpnPeers, blocky, bind, dropped, nat, hops>>

\* A network with both ends of its pool, or a static mapping.
ParseDhcp ==
    /\ Line /\ \/ \E z \in VlanZones \ pools : pools' = pools \cup {z} /\ UNCHANGED leases
               \/ \E a \in Addresses \ leases : leases' = leases \cup {a} /\ UNCHANGED pools
    /\ UNCHANGED <<vlans, vpnPeers, live, blocky, bind, dropped, nat, hops>>

ParseNat ==
    /\ Line /\ \E r \in NatLines : nat' = Append(nat, r)
    /\ UNCHANGED <<vlans, pools, leases, vpnPeers, live, blocky, bind, dropped, hops>>

ParseRoutes ==
    /\ Line /\ \E r \in RouteLines : hops' = With(hops, r.dst, r.gateway)
    /\ UNCHANGED <<vlans, pools, leases, vpnPeers, live, blocky, bind, dropped, nat>>

\* parse_dns: blocky's mapping (a host once), bind's zones, dnsdist's drops.
ParseMapping ==
    /\ Line /\ \E m \in Mappings : m.name \notin DOMAIN blocky /\ blocky' = With(blocky, m.name, A(m.to))
    /\ UNCHANGED <<vlans, pools, leases, vpnPeers, live, bind, dropped, nat, hops>>

ParseBindZones ==
    /\ Line /\ \E b \in BindLines : bind' = With(bind, b.name, [type |-> b.type, to |-> b.to])
    /\ UNCHANGED <<vlans, pools, leases, vpnPeers, live, blocky, dropped, nat, hops>>

ParseDrops ==
    /\ Line /\ \E n \in Names \ dropped : dropped' = dropped \cup {n}
    /\ UNCHANGED <<vlans, pools, leases, vpnPeers, live, blocky, bind, nat, hops>>

\* blocky's answer goes before bind's; a drop has a key of its own.
ParseDns ==
    /\ pass = "read" /\ pass' = "vlans"
    /\ static' = [k \in (DOMAIN blocky) \cup (DOMAIN bind) \cup {<<n>> : n \in dropped} |->
                    IF k \in DOMAIN blocky THEN blocky[k]
                    ELSE IF k \in DOMAIN bind THEN bind[k]
                    ELSE [type |-> "NXDOMAIN", to |-> NoAddress]]
    /\ UNCHANGED <<sourceVars, svis, routes, dstnat>>

-----------------------------------------------------------------------------
(* The passes                                                              *)

\* An extra lease must not collide, and its zone must have DHCP.
Collides == \E z \in DOMAIN ExtraLeases : z \notin pools \/ ExtraLeases[z] \cap leases # {}

\* A VLAN with neither DHCP nor rules is written disabled.
AttachDhcp ==
    /\ pass = "vlans" /\ ~Collides /\ pass' = "zones"
    /\ svis' = [z \in vlans |-> z \in pools \cup live]
    /\ UNCHANGED <<sourceVars, static, routes, dstnat>>

RefuseLeases ==
    /\ pass = "vlans" /\ Collides /\ pass' = "refused"
    /\ UNCHANGED <<sourceVars, svis, static, routes, dstnat>>

InNetOf(record, zones) == AddressOf(record) \in Addresses /\ NetOf[record.to] \in zones

\* Mutant: the networks are taken from the VLANs that are left.
RetireZonesBlind ==
    /\ pass = "zones" /\ pass' = "retarget"
    /\ svis' = Without(svis, GoneZones)
    /\ static' = Without(static, {k \in DOMAIN static : InNetOf(static[k], (DOMAIN svis') \cap GoneZones)})
    /\ UNCHANGED <<sourceVars, routes, dstnat>>

\* Retired VLANs go, and with them the records of their networks.
RetireZones ==
    /\ pass = "zones" /\ pass' = "retarget"
    /\ svis' = Without(svis, GoneZones)
    /\ static' = Without(static, {k \in DOMAIN static : InNetOf(static[k], (DOMAIN svis) \cap GoneZones)})
    /\ UNCHANGED <<sourceVars, routes, dstnat>>

RetargetRecords ==
    /\ pass = "retarget" /\ pass' = "drop"
    /\ LET moved == {k \in DOMAIN static : AddressOf(static[k]) \in DOMAIN Retarget}
           gone == {k \in moved : Retarget[static[k].to] = NoAddress} IN
       static' = [k \in (DOMAIN static) \ gone |->
                    IF k \in moved THEN A(Retarget[static[k].to]) ELSE static[k]]
    /\ UNCHANGED <<sourceVars, svis, routes, dstnat>>

DropRecords ==
    /\ pass = "drop" /\ pass' = "extra"
    /\ static' = Without(static, DropNames \cup {<<n>> : n \in DropNames})
    /\ UNCHANGED <<sourceVars, svis, routes, dstnat>>

AddRecords ==
    /\ pass = "extra" /\ pass' = "routes"
    /\ static' = [k \in (DOMAIN static) \cup (DOMAIN ExtraRecords) |->
                    IF k \in DOMAIN ExtraRecords THEN A(ExtraRecords[k]) ELSE static[k]]
    /\ UNCHANGED <<sourceVars, svis, routes, dstnat>>

PruneRoutes ==
    /\ pass = "routes" /\ pass' = "nat"
    /\ routes' = Without(hops, {d \in DOMAIN hops : hops[d] \in DeadHops})
    /\ UNCHANGED <<sourceVars, svis, static, dstnat>>

\* expand_protocol: VyOS's tcp_udp is two entries.
Entries(r) ==
    IF r.proto = "tcp_udp" THEN <<[r EXCEPT !.proto = "tcp"], [r EXCEPT !.proto = "udp"]>> ELSE <<r>>

\* Only rules of VLANs that are left, and not to a dead host.
Stays(r) == r.zone \in DOMAIN svis /\ r.to \notin DeadHops

\* An exemption of a retired host is dropped, and one of a container once it is the
\* router that answers.
Rewritten(r) ==
    [r EXCEPT !.src = IF @ \in RetiredHosts THEN NoAddress ELSE @,
              !.dst = IF r.to \in Resolvers /\ @ \in Resolvers THEN NoAddress ELSE @,
              !.to  = IF @ \in Resolvers THEN Router ELSE @]

TranslateNat ==
    /\ pass = "nat" /\ pass' = "peers"
    /\ dstnat' = FlattenSeq([i \in 1 .. Len(nat) |->
                               IF Stays(nat[i]) THEN Entries(Rewritten(nat[i])) ELSE <<>>])
    /\ UNCHANGED <<sourceVars, svis, static, routes>>

\* A new key for a peer that VyOS doesn't have ends the generator.
RekeyPeers ==
    /\ pass = "peers" /\ pass' = IF Rekeyed \subseteq vpnPeers THEN "written" ELSE "refused"
    /\ UNCHANGED <<sourceVars, svis, static, routes, dstnat>>

RecordsDone == pass \in {"written", "refused"} /\ UNCHANGED recordVars

RecordsNext ==
    \/ ParseInterfaces \/ ParseRules \/ ParseDhcp \/ ParseNat \/ ParseRoutes
    \/ ParseMapping \/ ParseBindZones \/ ParseDrops \/ ParseDns
    \/ AttachDhcp \/ RefuseLeases \/ RetireZones \/ RetargetRecords \/ DropRecords
    \/ AddRecords \/ PruneRoutes \/ TranslateNat \/ RekeyPeers \/ RecordsDone

RecordsSpec == RecordsInit /\ [][RecordsNext]_recordVars

-----------------------------------------------------------------------------
(* What the two routers do                                                 *)

\* The answer VyOS gave for a name, and what should be left of it.
OldAnswer(n) == IF n \in DOMAIN blocky THEN blocky[n] ELSE bind[n]
Outlives(n) ==
    /\ n \in (DOMAIN blocky) \cup (DOMAIN bind) /\ n \notin DropNames
    /\ ~InNetOf(OldAnswer(n), vlans \cap GoneZones)
    /\ LET a == AddressOf(OldAnswer(n)) IN a \in DOMAIN Retarget => Retarget[a] # NoAddress
NewAnswer(n) ==
    LET a == AddressOf(OldAnswer(n)) IN IF a \in DOMAIN Retarget THEN A(Retarget[a]) ELSE OldAnswer(n)

AnswersAlike ==
    \A n \in Names :
        /\ n \in DOMAIN static <=> n \in DOMAIN ExtraRecords \/ Outlives(n)
        /\ n \in DOMAIN static =>
             static[n] = IF n \in DOMAIN ExtraRecords THEN A(ExtraRecords[n]) ELSE NewAnswer(n)
        /\ <<n>> \in DOMAIN static <=> n \in dropped \ DropNames

\* A rule takes a packet of its zone unless an end of it is exempt; the first wins.
TakesPacket(r, p) ==
    /\ r.zone = p.zone /\ r.src # p.src /\ r.dst # p.dst /\ r.proto \in {p.proto, "tcp_udp"}
Redirected(rules, dead, p) ==
    LET taking == {i \in DOMAIN rules : TakesPacket(rules[i], p) /\ rules[i].to \notin dead} IN
    IF taking = {} THEN NoAddress ELSE rules[CHOOSE i \in taking : \A j \in taking : i <= j].to

RedirectsAlike ==
    \A z \in DOMAIN svis, src \in Addresses \ RetiredHosts, dst \in Addresses \ Resolvers,
       proto \in {"tcp", "udp"} :
         LET p == [zone |-> z, src |-> src, dst |-> dst, proto |-> proto]
             old == Redirected(nat, DeadHops, p)
         IN  Redirected(dstnat, {}, p) = IF old \in Resolvers THEN Router ELSE old

RoutesAlike ==
    \A d \in DOMAIN hops : IF hops[d] \in DeadHops THEN d \notin DOMAIN routes
                           ELSE d \in DOMAIN routes /\ routes[d] = hops[d]

(* Nothing that is written depends on a retired VLAN, host, container or next hop, and
   nothing else VyOS did is lost: its names, redirects and routes are those of the new
   router, wherever two sources, two rules or two of the passes meet
   (vyos-to-locals.py: "so nothing is emitted on their behalf", "so they are not lost
   silently"). *)
KeepsWhatIsLeft ==
    pass = "written" =>
        /\ DOMAIN svis = vlans \ GoneZones /\ \A i \in DOMAIN dstnat : dstnat[i].zone \in DOMAIN svis
        /\ AnswersAlike /\ RedirectsAlike /\ RoutesAlike
=============================================================================
