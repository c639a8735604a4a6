---------------------------- MODULE ZonePolicies ----------------------------
(***************************************************************************)
(* The firewall generator (vyos-to-locals.py): the zone rulesets of the    *)
(* VyOS router become the zone-pair policies and the input rules of the    *)
(* RouterOS one.  The containers of the old router are gone: DNS is the    *)
(* router's own now, the controller lives in another zone, the rest is     *)
(* dropped; zones and hosts are retired, and tables add rules.             *)
(*                                                                         *)
(* main prunes and build_zone_policies goes through the rulesets by name;  *)
(* names say nothing of what they hold, so the model takes them in any     *)
(* order and chooses each as it comes.  A packet carries the address group *)
(* its source and its destination are in.  Rules name groups, not literal  *)
(* addresses, a pair has one ruleset and a ruleset one pair, and the rules *)
(* of the containers' rulesets accept.                                     *)
(***************************************************************************)
EXTENDS Naturals, Sequences, FiniteSets, SequencesExt

CONSTANTS
    Containers, Successor,  \* UNPORTED_ZONES; where the workloads live now
    Outside, Native, Admin, \* OUTSIDE_ZONE, NATIVE_VLAN, ADMIN_ZONE
    RetiredZones,
    Vlans,                  \* zones that are VLANs
    Dhcp,                   \* those with a DHCP server
    Bindable,               \* zone pairs with a ruleset in VyOS
    SourcePairs,            \* those of CONTAINER_SOURCE_RULESETS
    Controller,             \* the address group of the one container that moved
    RetiredGroups,          \* RETIRED_ADDRESS_GROUPS
    OtherGroups,            \* other address groups of VyOS
    NewLists,               \* NEW_ADDRESS_LISTS
    PortsOf,                \* [port groups and port lists -> their ports]
    PortGroups,             \* the port groups among them
    ControllerPorts,        \* CONTAINER_PORT_GROUP_DESTINATIONS
    DnsSpecs, DnsSpec,      \* DNS_PORT_SPECS, and the spec of dns_rule
    MaxPorts,               \* ROUTEROS_MAX_DST_PORTS
    ExtraRules,                 \* what is added at the end, in order
    Ntp, Management, WireGuard, \* ports of the router's own services
    VyosRules,              \* [Bindable -> rules its ruleset may have]
    MaxRules, MaxRulesets,  \* bounds
    NoGroup, NoPorts

Groups == {Controller} \cup RetiredGroups \cup OtherGroups
Rule == [src : {NoGroup} \cup Groups \cup NewLists, dst : {NoGroup} \cup Groups,
         proto : {"any", "tcp", "udp", "tcp_udp"}, ports : {NoPorts} \cup DOMAIN PortsOf,
         action : {"accept", "drop", "unknown"}]

ASSUME ZonePoliciesAssumption ==
    /\ VyosRules \in [Bindable -> SUBSET Rule] /\ MaxPorts \in Nat \ {0}
    /\ Controller \in NewLists /\ DnsSpec \in DnsSpecs /\ DnsSpecs \cap PortGroups = {}
    /\ MaxRules \in Nat /\ MaxRulesets \in Nat

Ports == UNION {ToSet(PortsOf[s]) : s \in DOMAIN PortsOf}
Hosts == {Controller, NoGroup} \cup OtherGroups \cup NewLists  \* NoGroup: in no group
Gone == RetiredZones \cup {Containers}

\* What the tables hold. A zone of the tables is left; a retired group has no other
\* name, and no table asks for one; a port specification names ports, and DNS's none
\* of the router's other services.
ASSUME TablesAssumption ==
    /\ Containers \notin Vlans \cup RetiredZones
    /\ {Outside, Native, Admin, Successor} \cap Gone = {} /\ Outside # Admin
    /\ RetiredGroups \cap Hosts = {} /\ NoGroup \notin Groups
    /\ NoPorts \notin DOMAIN PortsOf
    /\ \A ports \in SUBSET (Ports \cup {Ntp, Management, WireGuard}) : ports # NoPorts
    /\ \A s \in DOMAIN PortsOf : PortsOf[s] \in Seq(Nat) \ {<<>>}
    /\ DnsSpecs \subseteq DOMAIN PortsOf
    /\ ToSet(PortsOf[DnsSpec]) \cap {Ntp, Management, WireGuard} = {}
    /\ Len(ExtraRules) \in Nat /\ DOMAIN ExtraRules = 1 .. Len(ExtraRules)
    /\ \A i \in DOMAIN ExtraRules : /\ {ExtraRules[i].from, ExtraRules[i].to} \cap Gone = {}
                                 /\ ExtraRules[i].rules \subseteq Rule
                                 /\ \A r \in ExtraRules[i].rules :
                                      r.action = "accept" /\ {r.src, r.dst} \subseteq Hosts

\* What VyOS's rules are: a rule for ports is for a protocol with ports, and of the
\* containers "VyOS only ever allowed the container itself" (vyos-to-locals.py:1197).
ASSUME VyosAssumption ==
    /\ \A p \in Bindable : p = <<p[1], p[2]>>
    /\ \A p \in SourcePairs : p = <<Containers, p[2]>>
    /\ \A p \in Bindable : \A r \in VyosRules[p] : r.ports # NoPorts => r.proto # "any"
    /\ \A p \in SourcePairs \cap Bindable : \A r \in VyosRules[p] : r.src \in {NoGroup, Controller}

VARIABLES
    vyos,        \* the rulesets so far: [from, to, open, rules]
    policies,    \* zone_policies, in the order of their keys
    inputs,      \* input_rules: the interfaces, protocol and ports they accept
    outsideVlan, \* whether the outside zone's own VLAN is enabled
    table,       \* tables still to add
    phase        \* "rulesets", "tables", "written" or "refused"

zoneVars == <<vyos, policies, inputs, outsideVlan, table, phase>>

\* Rulesets, policies and input rules have their types.
ZonesTypeOK ==
    /\ \A rs \in vyos : /\ <<rs.from, rs.to>> \in Bindable /\ rs.open \in BOOLEAN
                        /\ rs.rules \subseteq VyosRules[<<rs.from, rs.to>>]
    /\ \A i, j \in DOMAIN policies :
         policies[i].from = policies[j].from /\ policies[i].to = policies[j].to => i = j
    /\ outsideVlan \in BOOLEAN /\ table \in 1 .. Len(ExtraRules) + 1
    /\ phase \in {"rulesets", "tables", "written", "refused"}

ZonesInit ==
    /\ vyos = {} /\ policies = <<>> /\ inputs = {} /\ outsideVlan \in BOOLEAN
    /\ table = 1 /\ phase = "rulesets"

-----------------------------------------------------------------------------
(* Rules                                                                   *)

\* VyOS's tcp_udp is two rules.
ExpandProtocol(p) == IF p = "tcp_udp" THEN {"tcp", "udp"} ELSE {p}

\* At most MaxPorts to a rule.
Chunks(ports) ==
    {{ports[j] : j \in {n \in DOMAIN ports : (n - 1) \div MaxPorts = i}} :
        i \in 0 .. (Len(ports) - 1) \div MaxPorts}

\* A port group that fits keeps its name, and with it all of its ports.
PortChunks(spec) ==
    IF spec = NoPorts THEN {NoPorts}
    ELSE IF spec \in PortGroups /\ Len(PortsOf[spec]) <= MaxPorts THEN {ToSet(PortsOf[spec])}
    ELSE Chunks(PortsOf[spec])

\* emit_variants.
Variants(r) ==
    [src : {r.src}, dst : {r.dst}, proto : ExpandProtocol(r.proto), ports : PortChunks(r.ports)]
EmitVariants(rs) == UNION {Variants(r) : r \in rs}

\* Mutant: a policy of its own for every ruleset.
JoinPairAnew(from, to, open, rules) ==
    policies' = Append(policies, [from |-> from, to |-> to, open |-> open, rules |-> rules])

\* get_pair: one policy per directed pair; only the ruleset bound to the pair says
\* whether it is open.
JoinPair(from, to, open, rules) ==
    LET is(p) == p.from = from /\ p.to = to
        pol == IF \E i \in DOMAIN policies : is(policies[i]) THEN policies
               ELSE Append(policies, [from |-> from, to |-> to, open |-> FALSE, rules |-> {}])
    IN  policies' = [i \in DOMAIN pol |-> IF ~is(pol[i]) THEN pol[i]
                       ELSE [pol[i] EXCEPT !.open = @ \/ open, !.rules = @ \cup rules]]

-----------------------------------------------------------------------------
(* The input chain                                                         *)

Svi(z) == <<z, "svi">>
Wan == <<Outside, "wan">>

\* The interface list of a zone. The outside zone's holds the WAN port.
ListOf(z) == IF z = Outside THEN {Wan} \cup (IF outsideVlan THEN {Svi(z)} ELSE {}) ELSE {Svi(z)}

\* Mutant: the outside zone's list like any other.
DnsInputsListed(z, r) == [on : {ListOf(z)}, proto : ExpandProtocol(r.proto), ports : PortChunks(r.ports)]

\* add_dns_input: the whole zone may ask; on the outside only its VLAN, if enabled.
DnsInputs(z, r) ==
    IF z = Outside /\ ~outsideVlan THEN {}
    ELSE [on : {IF z = Outside THEN {Svi(z)} ELSE ListOf(z)},
          proto : ExpandProtocol(r.proto), ports : PortChunks(r.ports)]

DnsRule == [src |-> NoGroup, dst |-> NoGroup, proto |-> "tcp_udp", ports |-> DnsSpec, action |-> "accept"]

-----------------------------------------------------------------------------
(* main, before the translation                                            *)

\* Rules that name a retired host go; rulesets of a retired zone are unbound.
Kept(rs) == {r \in rs.rules : r.src \notin RetiredGroups /\ r.dst \notin RetiredGroups}
Unbound(rs) == rs.from \in RetiredZones \/ rs.to \in RetiredZones

\* VLANs with neither DHCP nor a ruleset with rules are disabled; a zone then has no
\* interface list, and the policies that name it are not rendered.
Active(z) == \E rs \in vyos : rs.rules # {} /\ z \in {rs.from, rs.to}
ZoneNames ==
    {Outside, Native, Admin} \cup {z \in Vlans \ RetiredZones : z \in Dhcp \/ Active(z)}
-----------------------------------------------------------------------------
(* build_zone_policies                                                     *)

\* The rulesets VyOS may have for a pair.
Rulesets(p) ==
    [from : {p[1]}, to : {p[2]}, open : BOOLEAN,
     rules : {rules \in SUBSET VyosRules[p] : Cardinality(rules) <= MaxRules}]

\* The next of them: a pair has one.
Take(rs) ==
    /\ phase = "rulesets" /\ Cardinality(vyos) < MaxRulesets
    /\ \A other \in vyos : other.from # rs.from \/ other.to # rs.to
    /\ vyos' = vyos \cup {rs}

\* The container a rule is for: the group it names, or the one its ports imply.
TargetOf(r) == IF r.dst = NoGroup /\ r.ports \in ControllerPorts THEN Controller ELSE r.dst

\* What is translated of a ruleset of the containers, either way: rules for DNS,
\* for the controller, which needs no rule in the zone it is in now, and from it.
\* The rest was haproxy's.
Accepts(rs) == {r \in Kept(rs) : r.action # "drop"}
Dns(rs) == {r \in Accepts(rs) : r.ports \in DnsSpecs}
ForController(rs) ==
    {r \in Accepts(rs) \ Dns(rs) : TargetOf(r) = Controller /\ rs.from # Successor}
FromController(rs) ==
    IF <<rs.from, rs.to>> \in SourcePairs /\ rs.to # Successor THEN Accepts(rs) ELSE {}

Translated(rs) ==
    IF rs.to = Containers THEN Dns(rs) \cup ForController(rs)
    ELSE IF rs.from = Containers THEN FromController(rs)
    ELSE Kept(rs)

Expressible(rs) == \A r \in Translated(rs) : r.action = "accept"

Orphaned(rs) ==
    /\ Take(rs) /\ Unbound(rs)
    /\ UNCHANGED <<policies, inputs, outsideVlan, table, phase>>

\* An open ruleset to the containers was open for DNS as well.
ToContainers(rs) ==
    /\ Take(rs) /\ ~Unbound(rs) /\ rs.to = Containers /\ Expressible(rs)
    /\ inputs' = inputs \cup (UNION {DnsInputs(rs.from, r) : r \in Dns(rs)})
                        \cup (IF rs.open THEN DnsInputs(rs.from, DnsRule) ELSE {})
    /\ IF ForController(rs) = {} THEN UNCHANGED policies
       ELSE JoinPair(rs.from, Successor, FALSE,
                     EmitVariants({[r EXCEPT !.dst = Controller] : r \in ForController(rs)}))
    /\ UNCHANGED <<outsideVlan, table, phase>>

\* The source is the controller, not the whole zone it is in now.
FromContainers(rs) ==
    /\ Take(rs) /\ ~Unbound(rs) /\ rs.to # Containers /\ rs.from = Containers /\ Expressible(rs)
    /\ IF FromController(rs) = {} THEN UNCHANGED policies
       ELSE JoinPair(Successor, rs.to, FALSE,
                     EmitVariants({[r EXCEPT !.src = Controller] : r \in FromController(rs)}))
    /\ UNCHANGED <<inputs, outsideVlan, table, phase>>

\* A closed pair without rules needs no policy: the chain ends in a drop.
NormalPair(rs) ==
    /\ Take(rs) /\ ~Unbound(rs) /\ Containers \notin {rs.from, rs.to} /\ Expressible(rs)
    /\ IF Kept(rs) = {} /\ ~rs.open THEN UNCHANGED policies
       ELSE JoinPair(rs.from, rs.to, rs.open, EmitVariants(Kept(rs)))
    /\ UNCHANGED <<inputs, outsideVlan, table, phase>>

\* A rule it can't express ends the generator, and nothing is written.
Refuse(rs) ==
    /\ Take(rs) /\ ~Unbound(rs) /\ ~Expressible(rs) /\ phase' = "refused"
    /\ UNCHANGED <<policies, inputs, outsideVlan, table>>

\* NATIVE_VLAN_ACCESS, and DNS for the switch.
AddNative ==
    /\ phase = "rulesets" /\ phase' = "tables"
    /\ JoinPair(Admin, Native, TRUE, {}) /\ inputs' = inputs \cup DnsInputs(Native, DnsRule)
    /\ UNCHANGED <<vyos, outsideVlan, table>>

\* EXTRA_ZONE_RULES (with the admin peers'), CI_ZONE_RULES, MONITORING_ZONE_RULES.
AddTable ==
    /\ phase = "tables" /\ table <= Len(ExtraRules) /\ table' = table + 1
    /\ LET t == ExtraRules[table] IN JoinPair(t.from, t.to, FALSE, EmitVariants(t.rules))
    /\ UNCHANGED <<vyos, inputs, outsideVlan, phase>>

\* The router's own services: for LAN interfaces, for the admin VPN, and WireGuard.
LanList ==
    {Svi(z) : z \in ((ZoneNames \cap Vlans) \ {Outside}) \cup {Native}}
        \cup (IF outsideVlan THEN {Svi(Outside)} ELSE {})
RouterServices ==
    {[on |-> LanList, proto |-> "udp", ports |-> {Ntp, WireGuard}],
     [on |-> ListOf(Admin), proto |-> "tcp", ports |-> {Management}],
     [on |-> ListOf(Outside), proto |-> "udp", ports |-> {WireGuard}]}

Write ==
    /\ phase = "tables" /\ table > Len(ExtraRules) /\ phase' = "written"
    /\ inputs' = inputs \cup RouterServices
    /\ UNCHANGED <<vyos, policies, outsideVlan, table>>

Written == phase \in {"written", "refused"} /\ UNCHANGED zoneVars

ZonesNext ==
    \/ \E p \in Bindable : \E rs \in Rulesets(p) :
         Orphaned(rs) \/ ToContainers(rs) \/ FromContainers(rs) \/ NormalPair(rs) \/ Refuse(rs)
    \/ AddNative \/ AddTable \/ Write \/ Written

ZonesSpec == ZonesInit /\ [][ZonesNext]_zoneVars

-----------------------------------------------------------------------------
(* What the two routers do with a packet                                   *)

PacketsBetween(from, to) ==
    [from : {from}, to : {to}, src : Hosts, dst : Hosts, proto : {"tcp", "udp"}, port : Ports]

VyosMatches(r, p) ==
    /\ r.action = "accept" /\ r.src \in {NoGroup, p.src} /\ r.dst \in {NoGroup, p.dst}
    /\ r.proto \in {"any", p.proto, "tcp_udp"}
    /\ r.ports # NoPorts => p.port \in ToSet(PortsOf[r.ports])

\* The address lists that are written: the new ones, and those a rule refers to.
Referenced == UNION {UNION {{r.src, r.dst} : r \in policies[i].rules} : i \in DOMAIN policies}
WrittenLists == NewLists \cup (Referenced \cap (Groups \ RetiredGroups))

\* One chain: the rules of the first policy of the pair, then its default, which
\* ends it; the terminal drop for a pair without one. A list that isn't written has
\* no members.
Chain(from, to) ==
    LET mine == {i \in DOMAIN policies : policies[i].from = from /\ policies[i].to = to} IN
    IF mine = {} THEN [open |-> FALSE, rules |-> {}]
    ELSE LET first == policies[CHOOSE i \in mine : \A j \in mine : i <= j] IN
         [open |-> first.open,
          rules |-> {r \in first.rules : {r.src, r.dst} \subseteq WrittenLists \cup {NoGroup}}]

RouterMatches(r, p) ==
    /\ r.src \in {NoGroup, p.src} /\ r.dst \in {NoGroup, p.dst}
    /\ r.proto \in {"any", p.proto}
    /\ r.ports = NoPorts \/ p.port \in r.ports

\* What the new router is meant to forward: what VyOS did, to and from the
\* controller in its new place, and what the tables add.
Meant(p) ==
    \/ \E rs \in vyos :
         \/ rs.from = p.from /\ rs.to = p.to /\ (rs.open \/ \E r \in rs.rules : VyosMatches(r, p))
         \/ /\ rs.from = p.from /\ rs.to = Containers /\ p.to = Successor /\ p.dst = Controller
            /\ \E r \in rs.rules : /\ TargetOf(r) = Controller /\ r.ports \notin DnsSpecs
                                   /\ VyosMatches(r, p)
         \/ /\ <<rs.from, rs.to>> \in SourcePairs /\ p.from = Successor /\ p.src = Controller
            /\ rs.to = p.to /\ \E r \in rs.rules : VyosMatches(r, p)
    \/ p.from = Admin /\ p.to = Native
    \/ \E i \in DOMAIN ExtraRules : /\ ExtraRules[i].from = p.from /\ ExtraRules[i].to = p.to
                                /\ \E r \in ExtraRules[i].rules : VyosMatches(r, p)

\* The generated chain forwards exactly what VyOS forwarded between the zones that
\* are left: whatever the order of the rulesets, though several join one pair, ports
\* are split and lists are pruned, no rule is lost, none is broader, and no default
\* hides another ruleset's rules (vyos-to-locals.py:1008, :1020, "would be broader").
ForwardsAlike ==
    phase = "written" =>
        \A from, to \in ZoneNames :
            LET chain == Chain(from, to) IN
            from # to => \A p \in PacketsBetween(from, to) :
                            Meant(p) <=> chain.open \/ \E r \in chain.rules : RouterMatches(r, p)

RouterAnswers(interface, proto, port) ==
    \E r \in inputs : /\ interface \in r.on /\ proto \in {r.proto} /\ (r.ports = NoPorts \/ port \in r.ports)

\* The router answers DNS exactly in the zones where a host that is left could ask the
\* DNS containers, and nothing but WireGuard on the WAN, though the WAN port is in a
\* zone's list (vyos-to-locals.py:1092).
AnswersInside ==
    phase = "written" =>
        /\ \A q \in {"tcp", "udp"}, port \in (Ports \cup {Ntp, Management}) \ {WireGuard} :
             ~RouterAnswers(Wan, q, port)
        /\ \A z \in ZoneNames \ {Outside, Native}, q \in {"tcp", "udp"}, port \in ToSet(PortsOf[DnsSpec]) :
             RouterAnswers(Svi(z), q, port) <=>
                 \E rs \in vyos :
                   /\ rs.from = z /\ rs.to = Containers
                   /\ \/ rs.open
                      \/ \E r \in rs.rules, src, dst \in Hosts :
                           /\ r.ports \in DnsSpecs
                           /\ VyosMatches(r, [src |-> src, dst |-> dst, proto |-> q, port |-> port])
=============================================================================
