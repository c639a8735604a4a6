----------------------------- MODULE RouterProofs -----------------------------
(***************************************************************************)
(* Theorems about what configures the routers: the push to the EdgeRouter  *)
(* (EdgeosSync), for any configurations and any number of applies and      *)
(* power cuts, the firewall generator (ZonePolicies), for any rulesets in  *)
(* any order, any tables and any port groups, and the rest of the          *)
(* generator (RouterRecords), for any configuration and any tables.        *)
(***************************************************************************)
EXTENDS EdgeosSync, ZonePolicies, RouterRecords, WellFoundedInduction, TLAPS

USE DEF router, Boots

\* Every apply has a number, from its start on.
Numbered == step # "idle" => applies # 0

LEMMA EdgeosTypeInit == EdgeosInit => EdgeosTypeOK /\ Numbered
  BY EdgeosAssumption DEF EdgeosInit, EdgeosTypeOK, Numbered

LEMMA EdgeosTypeNext ==
  ASSUME EdgeosTypeOK, Numbered, [EdgeosNext]_edgeVars
  PROVE  EdgeosTypeOK' /\ Numbered'
<1> USE EdgeosAssumption DEF EdgeosTypeOK, Numbered, SessionA, SessionB
<1>1. CASE UNCHANGED edgeVars
  BY <1>1 DEF edgeVars
<1>2. CASE StartApply
  <2>1. applies' = applies + 1 /\ applies' \in 0 .. MaxApplies
    BY <1>2 DEF StartApply
  <2>2. atq' \subseteq 1 .. applies' /\ confirmJob' \in 0 .. applies'
    BY <1>2, <2>1 DEF StartApply
  <2> QED BY <1>2, <2>1, <2>2 DEF StartApply
<1>3. CASE StageChange \/ ScheduleFails \/ LoginAgain \/ SaveConfig \/ ApplyDies \/ CommitChange
  BY <1>3 DEF StageChange, ScheduleFails, LoginAgain, SaveConfig, ApplyDies, CommitChange
<1>4. CASE ScheduleRollback \/ WriteJobFile
  <2>1. applies \in 1 .. applies /\ applies \in 0 .. applies /\ applies' = applies
    BY <1>4 DEF ScheduleRollback, WriteJobFile
  <2>2. atq' \subseteq atq \cup {applies} /\ confirmJob' \in {confirmJob, applies}
    BY <1>4 DEF ScheduleRollback, WriteJobFile
  <2>3. atq' \subseteq 1 .. applies' /\ confirmJob' \in 0 .. applies'
    BY <2>1, <2>2
  <2> QED BY <1>4, <2>1, <2>3 DEF ScheduleRollback, WriteJobFile
<1>5. CASE CommitFails \/ Confirm
  <2>1. /\ atq' \subseteq atq /\ confirmJob' \in {confirmJob, 0} /\ applies' = applies
        /\ step' \in {"idle", "save"} /\ step # "idle"
        /\ UNCHANGED <<running, saved, rollback, wanted, powerCuts>>
    BY <1>5 DEF CommitFails, Confirm
  <2>2. atq' \subseteq 1 .. applies' /\ confirmJob' \in 0 .. applies'
    BY <2>1
  <2> QED BY <2>1, <2>2
<1>7. CASE RollBack \/ PowerCut
  <2>1. atq' \subseteq atq /\ step' \in {"login", "idle"} /\ (step' = "login" => step = "login")
    BY <1>7 DEF RollBack, PowerCut
  <2>2. powerCuts' \in 0 .. MaxPowerCuts
    BY <1>7 DEF RollBack, PowerCut
  <2> QED BY <1>7, <2>1, <2>2 DEF RollBack, PowerCut
<1>6. CASE EdgeosStop
  BY <1>6 DEF EdgeosStop, edgeVars
<1> QED BY <1>1, <1>2, <1>3, <1>4, <1>5, <1>6, <1>7 DEF EdgeosNext

-----------------------------------------------------------------------------
\* The steps of a login are taken while the router can be reached, and none goes on
\* after it has booted; the rollback file is a copy of the saved configuration.
LoginReaches == step \in SessionA \cup SessionB => Reachable
KeptReachable == saved \notin Cut /\ rollback \notin Cut

\* From the schedule on the apply's rollback is queued, and it stays until a login
\* has shown that the router can be reached.
CutOffHasRollback == running \in Cut => atq # {}
RollbackQueued == step \in {"jobFile", "commit"} => atq # {}

EInv == /\ EdgeosTypeOK /\ Numbered /\ LoginReaches /\ KeptReachable
        /\ CutOffHasRollback /\ RollbackQueued

LEMMA EdgeosInvInit == EdgeosInit => EInv
  BY EdgeosTypeInit, EdgeosAssumption
  DEF EdgeosInit, EInv, LoginReaches, KeptReachable, CutOffHasRollback, RollbackQueued, SessionA,
      SessionB

LEMMA EdgeosInvNext == ASSUME EInv, [EdgeosNext]_edgeVars PROVE EInv'
<1>1. EdgeosTypeOK' /\ Numbered'
  BY EdgeosTypeNext DEF EInv
<1> SUFFICES LoginReaches' /\ KeptReachable' /\ CutOffHasRollback' /\ RollbackQueued'
  BY <1>1 DEF EInv
<1> USE DEF EInv, LoginReaches, KeptReachable, CutOffHasRollback, RollbackQueued, Reachable,
            SessionA, SessionB
<1>2. CASE UNCHANGED edgeVars \/ EdgeosStop
  BY <1>2 DEF edgeVars, EdgeosStop
<1>3. CASE StartApply \/ StageChange \/ ScheduleFails \/ WriteJobFile \/ ApplyDies
  BY <1>3 DEF StartApply, StageChange, ScheduleFails, WriteJobFile, ApplyDies
<1>4. CASE ScheduleRollback
  BY <1>4 DEF ScheduleRollback
<1>5. CASE CommitChange \/ CommitFails
  BY <1>5 DEF CommitChange, CommitFails
<1>6. CASE LoginAgain \/ Confirm \/ SaveConfig
  BY <1>6 DEF LoginAgain, Confirm, SaveConfig
<1>7. CASE RollBack \/ PowerCut
  BY <1>7 DEF RollBack, PowerCut
<1> QED BY <1>2, <1>3, <1>4, <1>5, <1>6, <1>7 DEF EdgeosNext

\* What the router would boot, or load to roll back, can be reached: through any
\* number of applies and power cuts, wherever each apply is cut short.
THEOREM BootsReachableCorrect == EdgeosSpec => []BootsReachable
<1>1. EInv => BootsReachable
  BY DEF EInv, KeptReachable, BootsReachable
<1> QED BY <1>1, EdgeosInvInit, EdgeosInvNext, PTL DEF EdgeosSpec

\* The safe half of ComesBack: a router that can't be reached always has a rollback
\* in its own queue, to a configuration that can be.
THEOREM CutOffIsRolledBack ==
  EdgeosSpec => [](running \in Cut => atq # {} /\ rollback \notin Cut)
<1>1. EInv => (running \in Cut => atq # {} /\ rollback \notin Cut)
  BY DEF EInv, KeptReachable, CutOffHasRollback
<1> QED BY <1>1, EdgeosInvInit, EdgeosInvNext, PTL DEF EdgeosSpec

-----------------------------------------------------------------------------
(***************************************************************************)
(* The firewall generator                                                  *)
(***************************************************************************)

\* A rule as it is written, and a rule of VyOS that is translated: no host that is
\* retired, and what it matches is accepted.
Emitted == [src : Hosts, dst : Hosts, proto : {"any", "tcp", "udp", "tcp_udp"},
            ports : {NoPorts} \cup SUBSET Ports]
Left == {r \in Rule : r.action = "accept" /\ r.src \in Hosts /\ r.dst \in Hosts}

LEMMA ChunkOfPort ==
  ASSUME NEW m \in Nat \ {0}, NEW a \in Nat, NEW b \in Nat, a <= b
  PROVE  (a \div m) \in 0 .. (b \div m)
OBVIOUS

\* Splitting a specification loses none of its ports and adds none.
LEMMA PortsCovered ==
  ASSUME NEW spec \in DOMAIN PortsOf
  PROVE  UNION PortChunks(spec) = ToSet(PortsOf[spec])
<1> DEFINE ports == PortsOf[spec]
<1>1. ports \in Seq(Nat) /\ spec # NoPorts
  BY TablesAssumption
<1>2. UNION Chunks(ports) = ToSet(ports)
  <2>1. ASSUME NEW j \in DOMAIN ports
        PROVE  \E c \in Chunks(ports) : ports[j] \in c
    <3>1. j \in 1 .. Len(ports) /\ Len(ports) \in Nat
      BY <1>1
    <3>2. j - 1 \in Nat /\ Len(ports) - 1 \in Nat /\ j - 1 <= Len(ports) - 1
      BY <3>1
    <3>3. (j - 1) \div MaxPorts \in 0 .. (Len(ports) - 1) \div MaxPorts
      BY <3>2, ChunkOfPort, ZonePoliciesAssumption
    <3> DEFINE c == {ports[k] : k \in {n \in DOMAIN ports : (n - 1) \div MaxPorts = (j - 1) \div MaxPorts}}
    <3>4. ports[j] \in c
      OBVIOUS
    <3>5. c \in Chunks(ports)
      BY <3>3 DEF Chunks
    <3> QED BY <3>4, <3>5
  <2>2. ASSUME NEW c \in Chunks(ports)
        PROVE  c \subseteq ToSet(ports)
    BY <2>2 DEF Chunks, ToSet
  <2> QED BY <2>1, <2>2 DEF ToSet
<1>3. CASE spec \in PortGroups /\ Len(ports) <= MaxPorts
  BY <1>1, <1>3 DEF PortChunks
<1>4. CASE ~(spec \in PortGroups /\ Len(ports) <= MaxPorts)
  BY <1>1, <1>2, <1>4 DEF PortChunks
<1> QED BY <1>3, <1>4

LEMMA ChunksArePorts ==
  ASSUME NEW spec \in DOMAIN PortsOf, NEW c \in PortChunks(spec)
  PROVE  c \in SUBSET Ports /\ c # NoPorts
<1>1. c \subseteq ToSet(PortsOf[spec])
  BY PortsCovered
<1> QED BY <1>1, TablesAssumption DEF Ports

\* The variants of a rule match together what the rule matched.
LEMMA VariantsMatch ==
  ASSUME NEW r \in Left, NEW p, p.proto \in {"tcp", "udp"}
  PROVE  /\ Variants(r) \subseteq Emitted
         /\ (\E v \in Variants(r) : RouterMatches(v, p)) <=> VyosMatches(r, p)
<1> DEFINE protos == ExpandProtocol(r.proto)
           chunks == PortChunks(r.ports)
<1>1. /\ r.src \in Hosts /\ r.dst \in Hosts /\ r.action = "accept"
      /\ r.proto \in {"any", "tcp", "udp", "tcp_udp"} /\ r.ports \in {NoPorts} \cup DOMAIN PortsOf
  BY DEF Left, Rule
<1>2. /\ protos \subseteq {"any", "tcp", "udp"}
      /\ (\E q \in protos : q \in {"any", p.proto}) <=> r.proto \in {"any", p.proto, "tcp_udp"}
  BY <1>1 DEF ExpandProtocol
<1>3. /\ chunks \subseteq {NoPorts} \cup SUBSET Ports
      /\ (\E c \in chunks : c = NoPorts \/ p.port \in c)
           <=> (r.ports # NoPorts => p.port \in ToSet(PortsOf[r.ports]))
  <2>1. CASE r.ports = NoPorts
    BY <2>1 DEF PortChunks
  <2>2. CASE r.ports # NoPorts
    <3>1. r.ports \in DOMAIN PortsOf
      BY <1>1, <2>2
    <3>2. \A c \in chunks : c \in SUBSET Ports /\ c # NoPorts
      BY <3>1, ChunksArePorts
    <3>3. UNION chunks = ToSet(PortsOf[r.ports])
      BY <3>1, PortsCovered
    <3> HIDE DEF chunks
    <3> QED BY <2>2, <3>2, <3>3
  <2> QED BY <2>1, <2>2
<1> HIDE DEF protos, chunks
<1>4. Variants(r) = [src : {r.src}, dst : {r.dst}, proto : protos, ports : chunks]
  BY DEF Variants, protos, chunks
<1>5. ASSUME NEW v \in Variants(r)
      PROVE  v \in Emitted
  <2>1. v \in [src : {r.src}, dst : {r.dst}, proto : protos, ports : chunks]
    BY <1>4, <1>5
  <2>2. PICK q \in protos, c \in chunks : v = [src |-> r.src, dst |-> r.dst, proto |-> q, ports |-> c]
    BY <2>1
  <2>3. q \in {"any", "tcp", "udp", "tcp_udp"} /\ c \in {NoPorts} \cup SUBSET Ports
    BY <1>2, <1>3
  <2> QED BY <1>1, <2>2, <2>3 DEF Emitted
<1>6. ASSUME NEW v \in Variants(r), RouterMatches(v, p)
      PROVE  VyosMatches(r, p)
  BY <1>1, <1>2, <1>3, <1>4, <1>6 DEF RouterMatches, VyosMatches
<1>7. ASSUME VyosMatches(r, p)
      PROVE  \E v \in Variants(r) : RouterMatches(v, p)
  <2>1. PICK q \in protos : q \in {"any", p.proto}
    BY <1>2, <1>7 DEF VyosMatches
  <2>2. PICK c \in chunks : c = NoPorts \/ p.port \in c
    BY <1>3, <1>7 DEF VyosMatches
  <2> DEFINE v == [src |-> r.src, dst |-> r.dst, proto |-> q, ports |-> c]
  <2>3. v \in Variants(r)
    BY <1>4
  <2>4. RouterMatches(v, p)
    BY <2>1, <2>2, <1>7 DEF RouterMatches, VyosMatches
  <2> QED BY <2>3, <2>4
<1> QED BY <1>5, <1>6, <1>7

LEMMA EmittedMatch ==
  ASSUME NEW rules \in SUBSET Left, NEW p, p.proto \in {"tcp", "udp"}
  PROVE  /\ EmitVariants(rules) \subseteq Emitted
         /\ (\E v \in EmitVariants(rules) : RouterMatches(v, p)) <=> \E r \in rules : VyosMatches(r, p)
<1>1. ASSUME NEW r \in rules
      PROVE  /\ Variants(r) \subseteq Emitted
             /\ (\E v \in Variants(r) : RouterMatches(v, p)) <=> VyosMatches(r, p)
  BY VariantsMatch
<1> QED BY <1>1 DEF EmitVariants

-----------------------------------------------------------------------------
(* The policies *)

BoundPlaces == UNION {{p[1], p[2]} : p \in Bindable}
TablePlaces == UNION {{ExtraRules[i].from, ExtraRules[i].to} : i \in DOMAIN ExtraRules}
Places == BoundPlaces \cup {Successor, Admin, Native} \cup TablePlaces
Policy == [from : Places, to : Places, open : BOOLEAN, rules : SUBSET Emitted]

LEMMA FixedPlaces == Successor \in Places /\ Admin \in Places /\ Native \in Places
BY DEF Places

OnePerPair ==
    \A i, j \in DOMAIN policies :
        policies[i].from = policies[j].from /\ policies[i].to = policies[j].to => i = j

\* What a policy lets through, and what the policies of a pair do.
Lets(policy, from, to, p) ==
    /\ policy.from = from /\ policy.to = to
    /\ policy.open \/ \E r \in policy.rules : RouterMatches(r, p)
Permits(from, to, p) == \E i \in DOMAIN policies : Lets(policies[i], from, to, p)

\* Joining a pair adds what is joined to what its policy lets through, and changes no
\* other pair's.
LEMMA JoinPairAdds ==
  ASSUME NEW from \in Places, NEW to \in Places, NEW open \in BOOLEAN,
         NEW rules \in SUBSET Emitted,
         policies \in Seq(Policy), OnePerPair, JoinPair(from, to, open, rules)
  PROVE  /\ policies' \in Seq(Policy) /\ OnePerPair'
         /\ \A a, b, p : Permits(a, b, p)' <=>
              \/ Permits(a, b, p)
              \/ a = from /\ b = to /\ (open \/ \E r \in rules : RouterMatches(r, p))
<1> DEFINE is(p) == p.from = from /\ p.to = to
           fresh == [from |-> from, to |-> to, open |-> FALSE, rules |-> {}]
           pol == IF \E i \in DOMAIN policies : is(policies[i]) THEN policies
                  ELSE Append(policies, fresh)
           joined(x) == [x EXCEPT !.open = @ \/ open, !.rules = @ \cup rules]
<1>1. policies' = [i \in DOMAIN pol |-> IF ~is(pol[i]) THEN pol[i] ELSE joined(pol[i])]
  BY DEF JoinPair
<1>2. fresh \in Policy
  BY DEF Policy
<1>3. /\ pol \in Seq(Policy)
      /\ \E k \in DOMAIN pol : is(pol[k])
      /\ \A i, j \in DOMAIN pol : pol[i].from = pol[j].from /\ pol[i].to = pol[j].to => i = j
      /\ \A a, b, p : Permits(a, b, p) <=> \E i \in DOMAIN pol : Lets(pol[i], a, b, p)
  <2>1. CASE \E i \in DOMAIN policies : is(policies[i])
    <3> HIDE DEF Policy, is
    <3>1. pol = policies
      BY <2>1
    <3> HIDE DEF pol
    <3> QED BY <2>1, <3>1 DEF OnePerPair, Permits
  <2>2. CASE ~ \E i \in DOMAIN policies : is(policies[i])
    <3> HIDE DEF Policy, Permits, is, fresh
    <3> DEFINE n == Len(policies)
    <3>1. n \in Nat /\ DOMAIN policies = 1 .. n /\ \A i \in 1 .. n : policies[i] \in Policy
      OBVIOUS
    <3>2. pol = Append(policies, fresh)
      BY <2>2
    <3>3. /\ pol \in Seq(Policy) /\ DOMAIN pol = 1 .. n + 1
          /\ pol[n + 1] = fresh /\ \A i \in 1 .. n : pol[i] = policies[i]
      <4> HIDE DEF pol
      <4>1. policies \in Seq(Policy) /\ fresh \in Policy /\ n = Len(policies)
        BY <1>2
      <4>2. pol \in Seq(Policy) /\ Len(pol) = n + 1
        BY <3>2, <4>1
      <4>3. pol[n + 1] = fresh /\ \A i \in 1 .. n : pol[i] = policies[i]
        BY <3>2, <4>1
      <4> QED BY <4>2, <4>3
    <3>4. is(fresh) /\ ~fresh.open /\ fresh.rules = {} /\ fresh.from = from /\ fresh.to = to
      BY DEF is, fresh
    <3> HIDE DEF pol, n
    <3>5. n + 1 \in DOMAIN pol /\ is(pol[n + 1])
      BY <3>1, <3>3, <3>4
    <3>6. \A i \in DOMAIN pol : i \in DOMAIN policies \/ i = n + 1
      BY <3>1, <3>3
    <3>7. \A i \in DOMAIN policies : i \in DOMAIN pol /\ pol[i] = policies[i]
      BY <3>1, <3>3
    <3>8. ASSUME NEW i \in DOMAIN pol, NEW j \in DOMAIN pol,
                 pol[i].from = pol[j].from, pol[i].to = pol[j].to
          PROVE  i = j
      BY <2>2, <3>3, <3>4, <3>6, <3>7, <3>8 DEF OnePerPair, is
    <3>9. ASSUME NEW a, NEW b, NEW p
          PROVE  Permits(a, b, p) <=> \E i \in DOMAIN pol : Lets(pol[i], a, b, p)
      <4>1. ASSUME NEW i \in DOMAIN policies, Lets(policies[i], a, b, p)
            PROVE  \E j \in DOMAIN pol : Lets(pol[j], a, b, p)
        BY <3>7, <4>1
      <4>2. ASSUME NEW i \in DOMAIN pol, Lets(pol[i], a, b, p)
            PROVE  \E j \in DOMAIN policies : Lets(policies[j], a, b, p)
        <5>1. CASE i \in DOMAIN policies
          BY <3>7, <4>2, <5>1
        <5>2. CASE i = n + 1
          BY <3>3, <3>4, <4>2, <5>2 DEF Lets
        <5> QED BY <3>6, <5>1, <5>2
      <4> QED BY <4>1, <4>2 DEF Permits
    <3> QED BY <3>3, <3>5, <3>8, <3>9
  <2> QED BY <2>1, <2>2
<1> HIDE DEF pol
<1>4. \A i \in DOMAIN pol : pol[i] \in Policy
  BY <1>3
<1>5. /\ DOMAIN policies' = DOMAIN pol
      /\ \A i \in DOMAIN pol :
           /\ policies'[i] \in Policy
           /\ policies'[i].from = pol[i].from /\ policies'[i].to = pol[i].to
           /\ policies'[i].open = (pol[i].open \/ (is(pol[i]) /\ open))
           /\ policies'[i].rules = pol[i].rules \cup IF is(pol[i]) THEN rules ELSE {}
  BY <1>1, <1>4 DEF Policy
<1>6. policies' \in Seq(Policy)
  <2> HIDE DEF Policy
  <2>1. Len(pol) \in Nat /\ DOMAIN pol = 1 .. Len(pol)
    <3>1. pol \in Seq(Policy)
      BY <1>3
    <3> QED BY <3>1
  <2>2. policies' = [i \in 1 .. Len(pol) |-> policies'[i]]
    BY <1>1, <2>1
  <2>3. \A i \in 1 .. Len(pol) : policies'[i] \in Policy
    BY <1>5, <2>1
  <2> QED BY <2>1, <2>2, <2>3
<1>7. OnePerPair'
  BY <1>3, <1>5 DEF OnePerPair
<1>8. ASSUME NEW a, NEW b, NEW p
      PROVE  Permits(a, b, p)' <=>
              \/ Permits(a, b, p)
              \/ a = from /\ b = to /\ (open \/ \E r \in rules : RouterMatches(r, p))
  <2> DEFINE here == a = from /\ b = to /\ (open \/ \E r \in rules : RouterMatches(r, p))
  <2>1. Permits(a, b, p) <=> \E i \in DOMAIN pol : Lets(pol[i], a, b, p)
    BY <1>3
  <2>2. Permits(a, b, p)' <=> \E i \in DOMAIN pol : Lets(policies'[i], a, b, p)
    BY <1>5 DEF Permits
  <2>3. ASSUME NEW i \in DOMAIN pol
        PROVE  Lets(policies'[i], a, b, p) <=> Lets(pol[i], a, b, p) \/ (is(pol[i]) /\ here)
    <3>1. CASE is(pol[i])
      <4>1. pol[i].from = from /\ pol[i].to = to
        BY <3>1
      <4>2. policies'[i].open = (pol[i].open \/ open) /\ policies'[i].rules = pol[i].rules \cup rules
        BY <1>5, <3>1
      <4> QED BY <1>5, <3>1, <4>1, <4>2 DEF Lets
    <3>2. CASE ~is(pol[i])
      <4>1. policies'[i].open = pol[i].open /\ policies'[i].rules = pol[i].rules
        BY <1>5, <3>2
      <4> QED BY <1>5, <3>2, <4>1 DEF Lets
    <3> QED BY <3>1, <3>2
  <2>4. \E k \in DOMAIN pol : is(pol[k])
    BY <1>3
  <2> HIDE DEF is, here
  <2>5. Permits(a, b, p)' <=> Permits(a, b, p) \/ here
    BY <2>1, <2>2, <2>3, <2>4
  <2> QED BY <2>5 DEF here
<1> QED BY <1>6, <1>7, <1>8
-----------------------------------------------------------------------------
(* What a ruleset is meant to let through, and what its translation does *)

MeantOf(rs, p) ==
    \/ rs.from = p.from /\ rs.to = p.to /\ (rs.open \/ \E r \in rs.rules : VyosMatches(r, p))
    \/ /\ rs.from = p.from /\ rs.to = Containers /\ p.to = Successor /\ p.dst = Controller
       /\ \E r \in rs.rules : /\ TargetOf(r) = Controller /\ r.ports \notin DnsSpecs
                              /\ VyosMatches(r, p)
    \/ /\ <<rs.from, rs.to>> \in SourcePairs /\ p.from = Successor /\ p.src = Controller
       /\ rs.to = p.to /\ \E r \in rs.rules : VyosMatches(r, p)

\* Zones that are left, and what passes between two of them.
Pair(from, to) == from \notin Gone /\ to \notin Gone /\ from # to
IsPacket(p) == p.src \in Hosts /\ p.dst \in Hosts /\ p.proto \in {"tcp", "udp"}

Known(rs) ==
    /\ <<rs.from, rs.to>> \in Bindable /\ rs.open \in BOOLEAN
    /\ rs.rules \subseteq VyosRules[<<rs.from, rs.to>>]

LEMMA RulesetKnown ==
  ASSUME NEW pair \in Bindable, NEW rs \in Rulesets(pair)
  PROVE  Known(rs) /\ <<rs.from, rs.to>> = pair /\ rs.from \in Places /\ rs.to \in Places
<1>1. /\ rs.from = pair[1] /\ rs.to = pair[2] /\ rs.open \in BOOLEAN
      /\ rs.rules \subseteq VyosRules[pair]
  BY DEF Rulesets
<1>2. pair = <<rs.from, rs.to>>
  BY <1>1, VyosAssumption
<1>3. {rs.from, rs.to} \subseteq Places
  BY <1>1 DEF Places, BoundPlaces
<1>4. Known(rs)
  BY <1>1, <1>2 DEF Known
<1> QED BY <1>2, <1>3, <1>4

\* A rule that a packet of a host that is left matches is kept.
LEMMA MatchingIsKept ==
  ASSUME NEW rs, Known(rs), NEW p, IsPacket(p), NEW r \in rs.rules, VyosMatches(r, p)
  PROVE  r \in Kept(rs) /\ r \in Accepts(rs) /\ r \in Left
<1>1. r \in Rule
  BY ZonePoliciesAssumption DEF Known
<1>2. r.src \in Hosts /\ r.dst \in Hosts /\ r.action = "accept"
  BY DEF VyosMatches, IsPacket, Hosts
<1> QED BY <1>1, <1>2, TablesAssumption DEF Kept, Accepts, Left

\* The rules of a ruleset that are kept name hosts that are left.
LEMMA KeptIsLeft ==
  ASSUME NEW rs, Known(rs), NEW r \in Kept(rs), r.action = "accept"
  PROVE  r \in Left /\ r \in rs.rules
<1>1. r \in Rule /\ r \in rs.rules /\ r.src \notin RetiredGroups /\ r.dst \notin RetiredGroups
  BY ZonePoliciesAssumption DEF Known, Kept
<1>2. r.src \in {NoGroup} \cup Groups \cup NewLists /\ r.dst \in {NoGroup} \cup Groups
  BY <1>1 DEF Rule
<1> QED BY <1>1, <1>2 DEF Left, Hosts, Groups

\* For the controller.
LEMMA ControllerRules ==
  ASSUME NEW rs, Known(rs), rs.to = Containers, Expressible(rs)
  PROVE  LET rules == {[r EXCEPT !.dst = Controller] : r \in ForController(rs)} IN
         /\ rules \subseteq Left
         /\ \A p : IsPacket(p) /\ Pair(p.from, p.to) =>
              (p.from = rs.from /\ p.to = Successor /\ \E r \in rules : VyosMatches(r, p)) <=> MeantOf(rs, p)
<1> DEFINE at(r) == [r EXCEPT !.dst = Controller]
           rules == {at(r) : r \in ForController(rs)}
<1>1. ASSUME NEW r \in ForController(rs)
      PROVE  /\ r \in Left /\ r \in rs.rules /\ r.ports \notin DnsSpecs /\ TargetOf(r) = Controller
             /\ rs.from # Successor
  <2>1. r \in Kept(rs) /\ r.ports \notin DnsSpecs /\ TargetOf(r) = Controller /\ rs.from # Successor
    BY DEF ForController, Accepts, Dns
  <2>2. r.action = "accept"
    BY DEF Expressible, Translated
  <2> QED BY <2>1, <2>2, KeptIsLeft
<1>2. ASSUME NEW r \in Left
      PROVE  /\ at(r) \in Left /\ at(r).src = r.src /\ at(r).dst = Controller /\ at(r).proto = r.proto
             /\ at(r).ports = r.ports /\ at(r).action = "accept"
  BY DEF Left, Rule, Groups, Hosts
<1>3. \A r \in Left : TargetOf(r) = Controller => r.dst \in {NoGroup, Controller}
  BY DEF TargetOf
<1>4. Controller \in Groups /\ Controller # NoGroup
  BY TablesAssumption DEF Groups
<1>5. rules \subseteq Left
  BY <1>1, <1>2
<1> SUFFICES ASSUME NEW p, IsPacket(p), Pair(p.from, p.to)
             PROVE  (p.from = rs.from /\ p.to = Successor /\ \E r \in rules : VyosMatches(r, p)) <=> MeantOf(rs, p)
  BY <1>5
<1>6. p.to # Containers /\ p.from # Containers /\ p.from # p.to
  BY DEF Pair, Gone
<1>7. ASSUME p.from = rs.from, p.to = Successor, NEW r \in ForController(rs), VyosMatches(at(r), p)
      PROVE  MeantOf(rs, p)
  <2>1. VyosMatches(r, p) /\ p.dst = Controller
    BY <1>1, <1>2, <1>3, <1>4, <1>7 DEF VyosMatches
  <2> QED BY <1>1, <1>7, <2>1 DEF MeantOf
<1>8. ASSUME MeantOf(rs, p)
      PROVE  p.from = rs.from /\ p.to = Successor /\ \E r \in rules : VyosMatches(r, p)
  <2>1. /\ p.from = rs.from /\ p.to = Successor /\ p.dst = Controller
        /\ \E r \in rs.rules : TargetOf(r) = Controller /\ r.ports \notin DnsSpecs /\ VyosMatches(r, p)
    BY <1>6, <1>8 DEF MeantOf
  <2>2. PICK r \in rs.rules : TargetOf(r) = Controller /\ r.ports \notin DnsSpecs /\ VyosMatches(r, p)
    BY <2>1
  <2>3. r \in Accepts(rs) /\ r \in Left
    BY <2>2, MatchingIsKept
  <2>4. r \in ForController(rs)
    BY <1>6, <2>1, <2>2, <2>3 DEF ForController, Dns
  <2>5. VyosMatches(at(r), p)
    BY <1>2, <2>1, <2>2, <2>3 DEF VyosMatches
  <2> QED BY <2>1, <2>4, <2>5
<1> QED BY <1>7, <1>8

\* From the controller.
LEMMA FromControllerRules ==
  ASSUME NEW rs, Known(rs), rs.from = Containers, rs.to # Containers, Expressible(rs)
  PROVE  LET rules == {[r EXCEPT !.src = Controller] : r \in FromController(rs)} IN
         /\ rules \subseteq Left
         /\ \A p : IsPacket(p) /\ Pair(p.from, p.to) =>
              (p.from = Successor /\ p.to = rs.to /\ \E r \in rules : VyosMatches(r, p)) <=> MeantOf(rs, p)
<1> DEFINE at(r) == [r EXCEPT !.src = Controller]
           rules == {at(r) : r \in FromController(rs)}
<1>1. ASSUME NEW r \in FromController(rs)
      PROVE  /\ r \in Left /\ r \in rs.rules /\ <<rs.from, rs.to>> \in SourcePairs
             /\ r.src \in {NoGroup, Controller}
  <2>1. r \in Accepts(rs) /\ <<rs.from, rs.to>> \in SourcePairs
    BY DEF FromController
  <2>2. r.action = "accept"
    BY DEF Expressible, Translated
  <2>3. r \in Left /\ r \in rs.rules
    BY <2>1, <2>2, KeptIsLeft DEF Accepts
  <2> QED BY <2>1, <2>3, VyosAssumption DEF Known
<1>2. ASSUME NEW r \in Left
      PROVE  /\ at(r) \in Left /\ at(r).src = Controller /\ at(r).dst = r.dst /\ at(r).proto = r.proto
             /\ at(r).ports = r.ports /\ at(r).action = "accept"
  BY DEF Left, Rule, Groups, Hosts
<1>4. Controller \in Groups /\ Controller # NoGroup
  BY TablesAssumption DEF Groups
<1>5. rules \subseteq Left
  BY <1>1, <1>2
<1> SUFFICES ASSUME NEW p, IsPacket(p), Pair(p.from, p.to)
             PROVE  (p.from = Successor /\ p.to = rs.to /\ \E r \in rules : VyosMatches(r, p)) <=> MeantOf(rs, p)
  BY <1>5
<1>6. p.to # Containers /\ p.from # Containers /\ p.from # p.to
  BY DEF Pair, Gone
<1>7. ASSUME p.from = Successor, p.to = rs.to, NEW r \in FromController(rs), VyosMatches(at(r), p)
      PROVE  MeantOf(rs, p)
  <2>1. VyosMatches(r, p) /\ p.src = Controller
    BY <1>1, <1>2, <1>4, <1>7 DEF VyosMatches
  <2> QED BY <1>1, <1>7, <2>1 DEF MeantOf
<1>8. ASSUME MeantOf(rs, p)
      PROVE  p.from = Successor /\ p.to = rs.to /\ \E r \in rules : VyosMatches(r, p)
  <2>1. /\ p.from = Successor /\ p.to = rs.to /\ p.src = Controller /\ <<rs.from, rs.to>> \in SourcePairs
        /\ \E r \in rs.rules : VyosMatches(r, p)
    BY <1>6, <1>8 DEF MeantOf
  <2>2. PICK r \in rs.rules : VyosMatches(r, p)
    BY <2>1
  <2>3. r \in Accepts(rs) /\ r \in Left
    BY <2>2, MatchingIsKept
  <2>4. r \in FromController(rs)
    BY <1>6, <2>1, <2>3 DEF FromController
  <2>5. VyosMatches(at(r), p)
    BY <1>2, <2>1, <2>2, <2>3 DEF VyosMatches
  <2> QED BY <2>1, <2>4, <2>5
<1> QED BY <1>7, <1>8

\* Between other zones.
LEMMA NormalRules ==
  ASSUME NEW rs, Known(rs), Containers \notin {rs.from, rs.to}, Expressible(rs)
  PROVE  /\ Kept(rs) \subseteq Left
         /\ \A p : IsPacket(p) =>
              (/\ p.from = rs.from /\ p.to = rs.to
               /\ rs.open \/ \E r \in Kept(rs) : VyosMatches(r, p)) <=> MeantOf(rs, p)
<1>1. Kept(rs) \subseteq Left
  BY KeptIsLeft DEF Expressible, Translated
<1>2. <<rs.from, rs.to>> \notin SourcePairs
  BY VyosAssumption
<1>3. ASSUME NEW p, IsPacket(p)
      PROVE  (\E r \in rs.rules : VyosMatches(r, p)) <=> \E r \in Kept(rs) : VyosMatches(r, p)
  BY <1>3, MatchingIsKept DEF Kept
<1> QED BY <1>1, <1>2, <1>3 DEF MeantOf

\* Nothing is meant of what is bound to a retired zone.
LEMMA NothingOfRetired ==
  ASSUME NEW rs, Unbound(rs), NEW p, Pair(p.from, p.to)
  PROVE  ~MeantOf(rs, p)
<1>1. \A x \in SourcePairs : x = <<Containers, x[2]>>
  BY VyosAssumption
<1> QED BY <1>1, TablesAssumption DEF MeantOf, Unbound, Pair, Gone

-----------------------------------------------------------------------------
(* The invariant *)

\* What has been asked of the new router so far.
Granted(p) ==
    \/ \E rs \in vyos : MeantOf(rs, p)
    \/ phase # "rulesets" /\ p.from = Admin /\ p.to = Native
    \/ \E i \in 1 .. table - 1 :
         /\ ExtraRules[i].from = p.from /\ ExtraRules[i].to = p.to
         /\ \E r \in ExtraRules[i].rules : VyosMatches(r, p)

Packets == [from : Places \cup Vlans \cup {Outside}, to : Places \cup Vlans \cup {Outside},
            src : Hosts, dst : Hosts, proto : {"tcp", "udp"}, port : Ports]

PoliciesMean ==
    \A p \in Packets : Pair(p.from, p.to) => (Permits(p.from, p.to, p) <=> Granted(p))

\* The input rules a ruleset comes to.
FromRules(rs) == UNION {DnsInputs(rs.from, r) : r \in Dns(rs)}
FromDefault(rs) == IF rs.open THEN DnsInputs(rs.from, DnsRule) ELSE {}
AskedBy(rs) ==
    IF rs.to # Containers \/ Unbound(rs) THEN {} ELSE FromRules(rs) \cup FromDefault(rs)

Asked == UNION {AskedBy(rs) : rs \in vyos}

InputsMean ==
    inputs = Asked
               \cup (IF phase = "rulesets" THEN {} ELSE DnsInputs(Native, DnsRule))
               \cup (IF phase = "written" THEN RouterServices ELSE {})

Progress ==
    /\ phase \in {"rulesets", "tables", "written", "refused"} /\ outsideVlan \in BOOLEAN
    /\ table \in 1 .. Len(ExtraRules) + 1
    /\ phase = "rulesets" => table = 1
    /\ phase = "written" => table = Len(ExtraRules) + 1

PoliciesTyped == policies \in Seq(Policy) /\ OnePerPair
RulesetsKnown == \A rs \in vyos : Known(rs)
Translatable == \A rs \in vyos : Unbound(rs) \/ Expressible(rs)

GeneratorInv ==
    /\ Progress /\ PoliciesTyped /\ RulesetsKnown
    /\ phase # "refused" => Translatable /\ PoliciesMean /\ InputsMean

LEMMA PacketsArePackets ==
  ASSUME NEW p \in Packets
  PROVE  IsPacket(p)
BY DEF Packets, IsPacket

LEMMA GeneratorInit == ZonesInit => GeneratorInv
<1> SUFFICES ASSUME ZonesInit PROVE GeneratorInv
  OBVIOUS
<1>1. Progress
  BY TablesAssumption DEF ZonesInit, Progress
<1>2. PoliciesTyped /\ RulesetsKnown /\ Translatable
  BY DEF ZonesInit, PoliciesTyped, OnePerPair, RulesetsKnown, Translatable
<1>3. \A p : ~Permits(p.from, p.to, p) /\ ~Granted(p)
  BY DEF ZonesInit, Permits, Granted
<1>4. PoliciesMean
  BY <1>3 DEF PoliciesMean
<1>5. InputsMean
  BY DEF ZonesInit, InputsMean, Asked
<1> QED BY <1>1, <1>2, <1>4, <1>5 DEF GeneratorInv

\* What a step of the translation has to do for a ruleset.
Does(rs) ==
    /\ PoliciesTyped' /\ (Unbound(rs) \/ Expressible(rs))
    /\ \A p : IsPacket(p) /\ Pair(p.from, p.to) =>
         (Permits(p.from, p.to, p)' <=> Permits(p.from, p.to, p) \/ MeantOf(rs, p))
    /\ inputs' = inputs \cup AskedBy(rs)

\* Joining a pair with rules that are left.
LEMMA JoinLeftRules ==
  ASSUME PoliciesTyped, NEW from \in Places, NEW to \in Places, NEW open \in BOOLEAN,
         NEW rules \in SUBSET Left, JoinPair(from, to, open, EmitVariants(rules))
  PROVE  /\ PoliciesTyped'
         /\ \A p : IsPacket(p) =>
              (Permits(p.from, p.to, p)' <=>
                 \/ Permits(p.from, p.to, p)
                 \/ p.from = from /\ p.to = to /\ (open \/ \E r \in rules : VyosMatches(r, p)))
<1>1. EmitVariants(rules) \in SUBSET Emitted
  <2>1. PICK p : p.proto \in {"tcp", "udp"}
    <3>1. [proto |-> "tcp"].proto \in {"tcp", "udp"}
      OBVIOUS
    <3> QED BY <3>1
  <2> QED BY <2>1, EmittedMatch
<1>2. /\ policies' \in Seq(Policy) /\ OnePerPair'
      /\ \A a, b, p : Permits(a, b, p)' <=>
           \/ Permits(a, b, p)
           \/ a = from /\ b = to /\ (open \/ \E r \in EmitVariants(rules) : RouterMatches(r, p))
  BY <1>1, JoinPairAdds DEF PoliciesTyped
<1>3. ASSUME NEW p, IsPacket(p)
      PROVE  (\E v \in EmitVariants(rules) : RouterMatches(v, p)) <=> \E r \in rules : VyosMatches(r, p)
  BY <1>3, EmittedMatch DEF IsPacket
<1> QED BY <1>2, <1>3 DEF PoliciesTyped

LEMMA PoliciesStay ==
  ASSUME UNCHANGED policies
  PROVE  /\ PoliciesTyped' <=> PoliciesTyped
         /\ \A p : Permits(p.from, p.to, p)' <=> Permits(p.from, p.to, p)
BY DEF PoliciesTyped, OnePerPair, Permits

LEMMA OrphanedDoes ==
  ASSUME GeneratorInv, NEW rs, Orphaned(rs)
  PROVE  Does(rs)
BY PoliciesStay, NothingOfRetired DEF Orphaned, Does, AskedBy, GeneratorInv

LEMMA ToContainersDoes ==
  ASSUME GeneratorInv, NEW rs, Known(rs), rs.from \in Places, ToContainers(rs)
  PROVE  Does(rs)
<1> DEFINE rules == {[r EXCEPT !.dst = Controller] : r \in ForController(rs)}
           said(p) == p.from = rs.from /\ p.to = Successor /\ \E r \in rules : VyosMatches(r, p)
<1>1. rs.to = Containers /\ Expressible(rs) /\ ~Unbound(rs)
  BY DEF ToContainers
<1>2. inputs' = inputs \cup AskedBy(rs)
  <2>1. inputs' = inputs \cup FromRules(rs) \cup FromDefault(rs)
    BY DEF ToContainers, FromRules, FromDefault
  <2>2. AskedBy(rs) = FromRules(rs) \cup FromDefault(rs)
    BY <1>1 DEF AskedBy
  <2> QED BY <2>1, <2>2
<1>3. rules \subseteq Left
  BY <1>1, ControllerRules
<1>4. \A p : IsPacket(p) /\ Pair(p.from, p.to) => (said(p) <=> MeantOf(rs, p))
  BY <1>1, ControllerRules
<1>5. /\ PoliciesTyped'
      /\ \A p : IsPacket(p) => (Permits(p.from, p.to, p)' <=> Permits(p.from, p.to, p) \/ said(p))
  <2>1. CASE ForController(rs) = {}
    <3>1. rules = {} /\ UNCHANGED policies
      BY <2>1 DEF ToContainers
    <3> QED BY <3>1, PoliciesStay DEF GeneratorInv
  <2>2. CASE ForController(rs) # {}
    <3>1. JoinPair(rs.from, Successor, FALSE, EmitVariants(rules))
      BY <2>2 DEF ToContainers
    <3>2. Successor \in Places
      BY FixedPlaces
    <3>3. PoliciesTyped
      BY DEF GeneratorInv
    <3> HIDE DEF rules
    <3> QED BY <1>3, <3>1, <3>2, <3>3, JoinLeftRules
  <2> QED BY <2>1, <2>2
<1> HIDE DEF said
<1> QED BY <1>1, <1>2, <1>4, <1>5 DEF Does

LEMMA FromContainersDoes ==
  ASSUME GeneratorInv, NEW rs, Known(rs), rs.to \in Places, FromContainers(rs)
  PROVE  Does(rs)
<1> DEFINE rules == {[r EXCEPT !.src = Controller] : r \in FromController(rs)}
           said(p) == p.from = Successor /\ p.to = rs.to /\ \E r \in rules : VyosMatches(r, p)
<1>1. rs.from = Containers /\ rs.to # Containers /\ Expressible(rs) /\ ~Unbound(rs)
  BY DEF FromContainers
<1>2. inputs' = inputs \cup AskedBy(rs)
  BY <1>1 DEF FromContainers, AskedBy
<1>3. rules \subseteq Left
  BY <1>1, FromControllerRules
<1>4. \A p : IsPacket(p) /\ Pair(p.from, p.to) => (said(p) <=> MeantOf(rs, p))
  BY <1>1, FromControllerRules
<1>5. /\ PoliciesTyped'
      /\ \A p : IsPacket(p) => (Permits(p.from, p.to, p)' <=> Permits(p.from, p.to, p) \/ said(p))
  <2>1. CASE FromController(rs) = {}
    <3>1. rules = {} /\ UNCHANGED policies
      BY <2>1 DEF FromContainers
    <3> QED BY <3>1, PoliciesStay DEF GeneratorInv
  <2>2. CASE FromController(rs) # {}
    <3>1. JoinPair(Successor, rs.to, FALSE, EmitVariants(rules))
      BY <2>2 DEF FromContainers
    <3>2. Successor \in Places
      BY FixedPlaces
    <3>3. PoliciesTyped
      BY DEF GeneratorInv
    <3> HIDE DEF rules
    <3> QED BY <1>3, <3>1, <3>2, <3>3, JoinLeftRules
  <2> QED BY <2>1, <2>2
<1> HIDE DEF said
<1> QED BY <1>1, <1>2, <1>4, <1>5 DEF Does

LEMMA NormalPairDoes ==
  ASSUME GeneratorInv, NEW rs, Known(rs), rs.from \in Places, rs.to \in Places, NormalPair(rs)
  PROVE  Does(rs)
<1> DEFINE said(p) == /\ p.from = rs.from /\ p.to = rs.to
                      /\ rs.open \/ \E r \in Kept(rs) : VyosMatches(r, p)
<1>1. Containers \notin {rs.from, rs.to} /\ Expressible(rs) /\ ~Unbound(rs) /\ rs.open \in BOOLEAN
  BY DEF NormalPair, Known
<1>2. inputs' = inputs \cup AskedBy(rs)
  BY <1>1 DEF NormalPair, AskedBy
<1>3. Kept(rs) \subseteq Left
  BY <1>1, NormalRules
<1>4. \A p : IsPacket(p) => (said(p) <=> MeantOf(rs, p))
  BY <1>1, NormalRules
<1>5. /\ PoliciesTyped'
      /\ \A p : IsPacket(p) => (Permits(p.from, p.to, p)' <=> Permits(p.from, p.to, p) \/ said(p))
  <2>1. CASE Kept(rs) = {} /\ ~rs.open
    <3>1. UNCHANGED policies
      BY <2>1 DEF NormalPair
    <3> QED BY <2>1, <3>1, PoliciesStay DEF GeneratorInv
  <2>2. CASE ~(Kept(rs) = {} /\ ~rs.open)
    <3>1. JoinPair(rs.from, rs.to, rs.open, EmitVariants(Kept(rs)))
      BY <2>2 DEF NormalPair
    <3>2. PoliciesTyped
      BY DEF GeneratorInv
    <3> QED BY <1>1, <1>3, <3>1, <3>2, JoinLeftRules
  <2> QED BY <2>1, <2>2
<1> HIDE DEF said
<1> QED BY <1>1, <1>2, <1>4, <1>5 DEF Does

LEMMA SameInputs ==
  ASSUME UNCHANGED outsideVlan
  PROVE  /\ \A rs : AskedBy(rs)' = AskedBy(rs)
         /\ DnsInputs(Native, DnsRule)' = DnsInputs(Native, DnsRule)
         /\ UNCHANGED vyos => UNCHANGED RouterServices /\ UNCHANGED Asked
<1>1. \A z, r : DnsInputs(z, r)' = DnsInputs(z, r)
  BY DEF DnsInputs, ListOf
<1>2. \A z : ListOf(z)' = ListOf(z)
  BY DEF ListOf
<1>3. \A rs : AskedBy(rs)' = AskedBy(rs)
  BY <1>1 DEF AskedBy, FromRules, FromDefault
<1>4. ASSUME UNCHANGED vyos
      PROVE  UNCHANGED RouterServices /\ UNCHANGED Asked
  <2>1. UNCHANGED ZoneNames
    BY <1>4 DEF ZoneNames, Active
  <2>2. UNCHANGED LanList
    BY <2>1 DEF LanList
  <2>3. UNCHANGED RouterServices
    BY <1>2, <2>2 DEF RouterServices
  <2>4. UNCHANGED Asked
    BY <1>3, <1>4 DEF Asked
  <2> QED BY <2>3, <2>4
<1> QED BY <1>1, <1>3, <1>4

\* A ruleset that is translated keeps the invariant.
LEMMA RulesetKeeps ==
  ASSUME GeneratorInv, NEW rs, Known(rs), Take(rs), Does(rs),
         UNCHANGED <<outsideVlan, table, phase>>
  PROVE  GeneratorInv'
<1>1. phase = "rulesets" /\ vyos' = vyos \cup {rs} /\ phase # "refused"
  BY DEF Take
<1>2. Progress' /\ PoliciesTyped' /\ RulesetsKnown'
  BY <1>1 DEF GeneratorInv, Progress, Does, RulesetsKnown
<1>3. Translatable'
  BY <1>1 DEF GeneratorInv, Translatable, Does
<1>4. PoliciesMean'
  <2> SUFFICES ASSUME NEW p \in Packets, Pair(p.from, p.to)
               PROVE  Permits(p.from, p.to, p)' <=> Granted(p)'
    BY DEF PoliciesMean
  <2>1. Permits(p.from, p.to, p) <=> Granted(p)
    BY <1>1 DEF GeneratorInv, PoliciesMean
  <2>2. Permits(p.from, p.to, p)' <=> Permits(p.from, p.to, p) \/ MeantOf(rs, p)
    BY PacketsArePackets DEF Does
  <2>3. (\E x \in vyos' : MeantOf(x, p)) <=> (\E x \in vyos : MeantOf(x, p)) \/ MeantOf(rs, p)
    BY <1>1
  <2>4. Granted(p)' <=> Granted(p) \/ MeantOf(rs, p)
    BY <2>3 DEF Granted
  <2> QED BY <2>1, <2>2, <2>4
<1>5. InputsMean'
  <2>1. inputs = UNION {AskedBy(x) : x \in vyos}
    BY <1>1 DEF GeneratorInv, InputsMean, Asked
  <2>2. inputs' = UNION {AskedBy(x) : x \in vyos \cup {rs}}
    BY <2>1 DEF Does
  <2>3. inputs' = UNION {AskedBy(x)' : x \in vyos'}
    BY <1>1, <2>2, SameInputs
  <2>4. phase' = "rulesets"
    BY <1>1
  <2> QED BY <2>3, <2>4 DEF InputsMean, Asked
<1> QED BY <1>2, <1>3, <1>4, <1>5 DEF GeneratorInv

LEMMA AddNativeKeeps ==
  ASSUME GeneratorInv, AddNative
  PROVE  GeneratorInv'
<1>1. /\ phase = "rulesets" /\ phase' = "tables" /\ table = 1 /\ UNCHANGED <<vyos, outsideVlan, table>>
      /\ inputs' = inputs \cup DnsInputs(Native, DnsRule)
  BY DEF AddNative, GeneratorInv, Progress
<1>2. Progress' /\ RulesetsKnown' /\ Translatable'
  BY <1>1 DEF GeneratorInv, Progress, RulesetsKnown, Translatable
<1>3. /\ PoliciesTyped'
      /\ \A p : IsPacket(p) => (Permits(p.from, p.to, p)' <=>
                                  Permits(p.from, p.to, p) \/ (p.from = Admin /\ p.to = Native))
  <2>1. EmitVariants({}) = {}
    BY DEF EmitVariants
  <2>2. JoinPair(Admin, Native, TRUE, EmitVariants({})) /\ PoliciesTyped
    BY <2>1 DEF AddNative, GeneratorInv
  <2>3. /\ PoliciesTyped'
        /\ \A p : IsPacket(p) =>
             (Permits(p.from, p.to, p)' <=>
                \/ Permits(p.from, p.to, p)
                \/ p.from = Admin /\ p.to = Native /\ (TRUE \/ \E r \in {} : VyosMatches(r, p)))
    <3>1. TRUE \in BOOLEAN /\ {} \in SUBSET Left
      OBVIOUS
    <3> QED BY <2>2, <3>1, FixedPlaces, JoinLeftRules, Zenon
  <2> QED BY <2>3
<1>4. PoliciesMean'
  <2> SUFFICES ASSUME NEW p \in Packets, Pair(p.from, p.to)
               PROVE  Permits(p.from, p.to, p)' <=> Granted(p)'
    BY DEF PoliciesMean
  <2>1. Permits(p.from, p.to, p) <=> Granted(p)
    BY <1>1 DEF GeneratorInv, PoliciesMean
  <2>2. Granted(p)' <=> Granted(p) \/ (p.from = Admin /\ p.to = Native)
    BY <1>1 DEF Granted
  <2> QED BY <1>3, <2>1, <2>2, PacketsArePackets
<1>5. InputsMean'
  <2>1. inputs = Asked
    BY <1>1 DEF GeneratorInv, InputsMean
  <2>2. Asked' = Asked /\ DnsInputs(Native, DnsRule)' = DnsInputs(Native, DnsRule)
    BY <1>1, SameInputs
  <2>3. inputs' = Asked' \cup DnsInputs(Native, DnsRule)'
    BY <1>1, <2>1, <2>2
  <2> QED BY <1>1, <2>3 DEF InputsMean
<1> QED BY <1>2, <1>3, <1>4, <1>5 DEF GeneratorInv

LEMMA AddTableKeeps ==
  ASSUME GeneratorInv, AddTable
  PROVE  GeneratorInv'
<1> DEFINE t == ExtraRules[table]
           said(p) == t.from = p.from /\ t.to = p.to /\ \E r \in t.rules : VyosMatches(r, p)
<1>1. /\ phase = "tables" /\ table \in DOMAIN ExtraRules /\ table' = table + 1 /\ table \in Nat
      /\ UNCHANGED <<vyos, inputs, outsideVlan, phase>>
  BY TablesAssumption DEF AddTable, GeneratorInv, Progress
<1>2. table' \in 1 .. Len(ExtraRules) + 1
  BY <1>1, TablesAssumption
<1>3. Progress' /\ RulesetsKnown' /\ Translatable'
  BY <1>1, <1>2 DEF GeneratorInv, Progress, RulesetsKnown, Translatable
<1>4. /\ PoliciesTyped'
      /\ \A p : IsPacket(p) => (Permits(p.from, p.to, p)' <=> Permits(p.from, p.to, p) \/ said(p))
  <2>1. t.rules \subseteq Left
    BY <1>1, TablesAssumption DEF Left
  <2>2. {t.from, t.to} \subseteq TablePlaces
    BY <1>1 DEF TablePlaces
  <2>3. t.from \in Places /\ t.to \in Places
    BY <2>2 DEF Places
  <2>4. JoinPair(t.from, t.to, FALSE, EmitVariants(t.rules)) /\ PoliciesTyped
    BY DEF AddTable, GeneratorInv
  <2> HIDE DEF t
  <2>5. /\ PoliciesTyped'
        /\ \A p : IsPacket(p) =>
             (Permits(p.from, p.to, p)' <=>
                \/ Permits(p.from, p.to, p)
                \/ p.from = t.from /\ p.to = t.to /\ (FALSE \/ \E r \in t.rules : VyosMatches(r, p)))
    <3>1. FALSE \in BOOLEAN /\ t.rules \in SUBSET Left
      BY <2>1
    <3> QED BY <2>3, <2>4, <3>1, JoinLeftRules, Zenon
  <2> QED BY <2>5
<1>5. PoliciesMean'
  <2> SUFFICES ASSUME NEW p \in Packets, Pair(p.from, p.to)
               PROVE  Permits(p.from, p.to, p)' <=> Granted(p)'
    BY DEF PoliciesMean
  <2>1. Permits(p.from, p.to, p) <=> Granted(p)
    BY <1>1 DEF GeneratorInv, PoliciesMean
  <2> DEFINE adds(i) == /\ ExtraRules[i].from = p.from /\ ExtraRules[i].to = p.to
                        /\ \E r \in ExtraRules[i].rules : VyosMatches(r, p)
  <2>2. said(p) <=> adds(table)
    OBVIOUS
  <2>3. 1 .. table' - 1 = (1 .. table - 1) \cup {table}
    BY <1>1, <1>2
  <2> HIDE DEF adds
  <2>4. (\E i \in 1 .. table' - 1 : adds(i)) <=> (\E i \in 1 .. table - 1 : adds(i)) \/ adds(table)
    BY <2>3
  <2>5. Granted(p)' <=> Granted(p) \/ adds(table)
    BY <1>1, <2>4 DEF Granted, adds
  <2> HIDE DEF said
  <2> QED BY <1>4, <2>1, <2>2, <2>5, PacketsArePackets
<1>6. InputsMean'
  <2>1. Asked' = Asked /\ DnsInputs(Native, DnsRule)' = DnsInputs(Native, DnsRule)
    BY <1>1, SameInputs
  <2>2. inputs = Asked \cup DnsInputs(Native, DnsRule)
    BY <1>1 DEF GeneratorInv, InputsMean
  <2>3. inputs' = Asked' \cup DnsInputs(Native, DnsRule)'
    BY <1>1, <2>1, <2>2
  <2> QED BY <1>1, <2>3 DEF InputsMean
<1> QED BY <1>1, <1>3, <1>4, <1>5, <1>6 DEF GeneratorInv

LEMMA WriteKeeps ==
  ASSUME GeneratorInv, Write
  PROVE  GeneratorInv'
<1>1. /\ phase = "tables" /\ phase' = "written" /\ inputs' = inputs \cup RouterServices
      /\ UNCHANGED <<vyos, policies, outsideVlan, table>>
  BY DEF Write
<1>2. table = Len(ExtraRules) + 1
  BY TablesAssumption DEF Write, GeneratorInv, Progress
<1>3. Progress' /\ RulesetsKnown' /\ Translatable' /\ PoliciesTyped'
  BY <1>1, <1>2, PoliciesStay DEF GeneratorInv, Progress, RulesetsKnown, Translatable
<1>4. PoliciesMean'
  <2> SUFFICES ASSUME NEW p \in Packets, Pair(p.from, p.to)
               PROVE  Permits(p.from, p.to, p)' <=> Granted(p)'
    BY DEF PoliciesMean
  <2>1. Permits(p.from, p.to, p) <=> Granted(p)
    BY <1>1 DEF GeneratorInv, PoliciesMean
  <2>2. Granted(p)' <=> Granted(p)
    BY <1>1 DEF Granted
  <2> QED BY <1>1, <2>1, <2>2, PoliciesStay
<1>5. InputsMean'
  <2>1. /\ Asked' = Asked /\ DnsInputs(Native, DnsRule)' = DnsInputs(Native, DnsRule)
        /\ RouterServices' = RouterServices
    BY <1>1, SameInputs
  <2>2. inputs = Asked \cup DnsInputs(Native, DnsRule)
    BY <1>1 DEF GeneratorInv, InputsMean
  <2>3. inputs' = Asked' \cup DnsInputs(Native, DnsRule)' \cup RouterServices'
    BY <1>1, <2>1, <2>2
  <2> QED BY <1>1, <2>3 DEF InputsMean
<1> QED BY <1>3, <1>4, <1>5 DEF GeneratorInv

LEMMA GeneratorStays ==
  ASSUME GeneratorInv, UNCHANGED zoneVars
  PROVE  GeneratorInv'
<1>1. UNCHANGED vyos /\ UNCHANGED policies /\ UNCHANGED inputs /\ UNCHANGED outsideVlan
      /\ UNCHANGED table /\ UNCHANGED phase
  BY DEF zoneVars
<1>2. Progress' /\ RulesetsKnown' /\ PoliciesTyped' /\ (Translatable <=> Translatable')
  BY <1>1, PoliciesStay DEF GeneratorInv, Progress, RulesetsKnown, Translatable
<1>3. PoliciesMean => PoliciesMean'
  BY <1>1, PoliciesStay DEF PoliciesMean, Granted
<1>4. InputsMean => InputsMean'
  <2>1. /\ Asked' = Asked /\ DnsInputs(Native, DnsRule)' = DnsInputs(Native, DnsRule)
        /\ RouterServices' = RouterServices
    BY <1>1, SameInputs
  <2> QED BY <1>1, <2>1 DEF InputsMean
<1> QED BY <1>1, <1>2, <1>3, <1>4 DEF GeneratorInv

LEMMA GeneratorNext ==
  ASSUME GeneratorInv, [ZonesNext]_zoneVars
  PROVE  GeneratorInv'
<1>1. ASSUME NEW pair \in Bindable, NEW rs \in Rulesets(pair),
             Orphaned(rs) \/ ToContainers(rs) \/ FromContainers(rs) \/ NormalPair(rs)
      PROVE  GeneratorInv'
  <2>1. Known(rs) /\ rs.from \in Places /\ rs.to \in Places
    BY RulesetKnown
  <2>2. Does(rs)
    BY <1>1, <2>1, OrphanedDoes, ToContainersDoes, FromContainersDoes, NormalPairDoes
  <2>3. Take(rs) /\ UNCHANGED <<outsideVlan, table, phase>>
    BY <1>1 DEF Orphaned, ToContainers, FromContainers, NormalPair
  <2> QED BY <2>1, <2>2, <2>3, RulesetKeeps
<1>2. ASSUME NEW pair \in Bindable, NEW rs \in Rulesets(pair), Refuse(rs)
      PROVE  GeneratorInv'
  <2>1. Known(rs)
    BY RulesetKnown
  <2>2. phase' = "refused" /\ vyos' = vyos \cup {rs} /\ UNCHANGED policies /\ UNCHANGED <<outsideVlan, table>>
    BY <1>2 DEF Refuse, Take
  <2>3. Progress' /\ RulesetsKnown' /\ PoliciesTyped'
    BY <2>1, <2>2, PoliciesStay DEF GeneratorInv, Progress, RulesetsKnown
  <2> QED BY <2>2, <2>3 DEF GeneratorInv
<1>3. CASE AddNative \/ AddTable \/ Write
  BY <1>3, AddNativeKeeps, AddTableKeeps, WriteKeeps
<1>4. CASE UNCHANGED zoneVars \/ Written
  BY <1>4, GeneratorStays DEF Written
<1> QED BY <1>1, <1>2, <1>3, <1>4 DEF ZonesNext

LEMMA GeneratorInvariant == ZonesSpec => []GeneratorInv
  BY GeneratorInit, GeneratorNext, PTL DEF ZonesSpec

-----------------------------------------------------------------------------
(* The theorems *)

LEMMA ZonesAreLeft ==
  ASSUME NEW from \in ZoneNames, NEW to \in ZoneNames, from # to, NEW p \in PacketsBetween(from, to)
  PROVE  Pair(p.from, p.to) /\ p \in Packets /\ p.from = from /\ p.to = to
<1>1. ASSUME NEW zone \in ZoneNames
      PROVE  zone \notin Gone /\ zone \in Places \cup Vlans \cup {Outside}
  <2>1. zone \in {Outside, Native, Admin} \/ (zone \in Vlans /\ zone \notin RetiredZones)
    BY DEF ZoneNames
  <2> QED BY <2>1, TablesAssumption, FixedPlaces DEF Gone
<1>2. p.from = from /\ p.to = to /\ p \in [from : {from}, to : {to}, src : Hosts, dst : Hosts,
                                          proto : {"tcp", "udp"}, port : Ports]
  BY DEF PacketsBetween
<1>3. Pair(from, to)
  BY <1>1 DEF Pair
<1>4. p \in Packets
  BY <1>1, <1>2 DEF Packets
<1> QED BY <1>2, <1>3, <1>4

\* The chain of a pair is its policy, with every rule.
LEMMA ChainIsPolicy ==
  ASSUME PoliciesTyped, NEW from, NEW to, NEW p
  PROVE  Permits(from, to, p) <=>
           \/ Chain(from, to).open
           \/ \E r \in Chain(from, to).rules : RouterMatches(r, p)
<1> DEFINE mine == {i \in DOMAIN policies : policies[i].from = from /\ policies[i].to = to}
           here(i) == \A j \in mine : i <= j
           first == policies[CHOOSE i \in mine : here(i)]
           written(rules) == {r \in rules : {r.src, r.dst} \subseteq WrittenLists \cup {NoGroup}}
<1>1. Chain(from, to) = IF mine = {} THEN [open |-> FALSE, rules |-> {}]
                        ELSE [open |-> first.open, rules |-> written(first.rules)]
  BY DEF Chain
<1>2. CASE mine = {}
  BY <1>1, <1>2 DEF Permits, Lets
<1>3. CASE mine # {}
  <2>1. PICK k \in DOMAIN policies : policies[k].from = from /\ policies[k].to = to
    BY <1>3
  <2>2. /\ \A i \in mine : i = k
        /\ k \in mine
    BY <2>1 DEF PoliciesTyped, OnePerPair
  <2>3. k \in Nat /\ policies[k] \in Policy
    <3> HIDE DEF Policy
    <3> QED BY <2>1 DEF PoliciesTyped
  <2>4. here(k)
    BY <2>2, <2>3
  <2>5. (CHOOSE i \in mine : here(i)) = k
    <3> HIDE DEF here, mine
    <3> QED BY <2>2, <2>4
  <2>6. Chain(from, to) = [open |-> policies[k].open, rules |-> written(policies[k].rules)]
    BY <1>1, <1>3, <2>5
  <2>7. written(policies[k].rules) = policies[k].rules
    <3> SUFFICES ASSUME NEW r \in policies[k].rules
                 PROVE  {r.src, r.dst} \subseteq WrittenLists \cup {NoGroup}
      OBVIOUS
    <3>1. r.src \in Hosts /\ r.dst \in Hosts
      <4>1. r \in Emitted
        BY <2>3 DEF Policy
      <4> QED BY <4>1 DEF Emitted
    <3>2. {r.src, r.dst} \subseteq Referenced
      BY <2>1 DEF Referenced
    <3>3. \A x \in Hosts : x = NoGroup \/ x \in NewLists \/ x \in Groups \ RetiredGroups
      BY TablesAssumption, ZonePoliciesAssumption DEF Hosts, Groups
    <3> QED BY <3>1, <3>2, <3>3 DEF WrittenLists
  <2>8. Permits(from, to, p) <=> Lets(policies[k], from, to, p)
    BY <2>1, <2>2 DEF Permits, Lets
  <2>9. Lets(policies[k], from, to, p) <=> policies[k].open \/ \E r \in policies[k].rules : RouterMatches(r, p)
    BY <2>1 DEF Lets
  <2>10. Chain(from, to).open = policies[k].open /\ Chain(from, to).rules = policies[k].rules
    BY <2>6, <2>7
  <2> QED BY <2>8, <2>9, <2>10
<1> QED BY <1>2, <1>3

LEMMA MeantIsGranted ==
  ASSUME GeneratorInv, phase = "written", NEW p
  PROVE  Meant(p) <=> Granted(p)
<1>1. 1 .. table - 1 = DOMAIN ExtraRules
  BY TablesAssumption DEF GeneratorInv, Progress
<1>2. Meant(p) <=>
        \/ \E rs \in vyos : MeantOf(rs, p)
        \/ p.from = Admin /\ p.to = Native
        \/ \E i \in DOMAIN ExtraRules :
             /\ ExtraRules[i].from = p.from /\ ExtraRules[i].to = p.to
             /\ \E r \in ExtraRules[i].rules : VyosMatches(r, p)
  BY DEF Meant, MeantOf
<1> QED BY <1>1, <1>2 DEF Granted

\* For any rulesets in any order, any port groups and tables: the written chains
\* forward between the zones that are left exactly what VyOS forwarded and the tables
\* add (build_zone_policies, vyos-to-locals.py:1008, :1020).
THEOREM ForwardsAlikeCorrect == ZonesSpec => []ForwardsAlike
<1>1. GeneratorInv => ForwardsAlike
  <2> SUFFICES ASSUME GeneratorInv, phase = "written",
                      NEW from \in ZoneNames, NEW to \in ZoneNames, from # to,
                      NEW p \in PacketsBetween(from, to)
               PROVE  Meant(p) <=> \/ Chain(from, to).open
                                   \/ \E r \in Chain(from, to).rules : RouterMatches(r, p)
    BY DEF ForwardsAlike
  <2>1. Pair(p.from, p.to) /\ p \in Packets /\ p.from = from /\ p.to = to
    BY ZonesAreLeft
  <2>2. Permits(from, to, p) <=> Granted(p)
    BY <2>1 DEF GeneratorInv, PoliciesMean
  <2>3. PoliciesTyped
    BY DEF GeneratorInv
  <2> QED BY <2>2, <2>3, ChainIsPolicy, MeantIsGranted
<1> QED BY <1>1, GeneratorInvariant, PTL

\* What an input rule answers.
Answers(x, interface, proto, port) ==
    interface \in x.on /\ proto \in {x.proto} /\ (x.ports = NoPorts \/ port \in x.ports)

\* A rule for DNS answers in its own zone, never on the WAN, and what the rule was for.
LEMMA DnsInputsAnswer ==
  ASSUME NEW z, NEW r, r.ports \in DnsSpecs
  PROVE  /\ \A x \in DnsInputs(z, r) : x.on = {Svi(z)}
         /\ z # Outside =>
              \A q, port : (\E x \in DnsInputs(z, r) : Answers(x, Svi(z), q, port)) <=>
                           q \in ExpandProtocol(r.proto) /\ port \in ToSet(PortsOf[r.ports])
<1> DEFINE protos == ExpandProtocol(r.proto)
           chunks == PortChunks(r.ports)
<1>1. r.ports \in DOMAIN PortsOf
  BY TablesAssumption
<1>2. /\ \A c \in chunks : c # NoPorts
      /\ UNION chunks = ToSet(PortsOf[r.ports])
  BY <1>1, ChunksArePorts, PortsCovered
<1> HIDE DEF protos, chunks
<1>3. DnsInputs(z, r) = IF z = Outside /\ ~outsideVlan THEN {}
                        ELSE [on : {{Svi(z)}}, proto : protos, ports : chunks]
  BY DEF DnsInputs, ListOf, protos, chunks
<1>4. ASSUME NEW x \in DnsInputs(z, r)
      PROVE  x.on = {Svi(z)} /\ x.proto \in protos /\ x.ports \in chunks
  BY <1>3, <1>4
<1>5. ASSUME z # Outside, NEW q \in protos, NEW port \in ToSet(PortsOf[r.ports])
      PROVE  \E x \in DnsInputs(z, r) : Answers(x, Svi(z), q, port)
  <2>1. PICK c \in chunks : port \in c
    BY <1>2
  <2> DEFINE x == [on |-> {Svi(z)}, proto |-> q, ports |-> c]
  <2>2. x \in DnsInputs(z, r)
    BY <1>3, <1>5
  <2>3. Answers(x, Svi(z), q, port)
    BY <2>1 DEF Answers
  <2> QED BY <2>2, <2>3
<1>6. ASSUME NEW q, NEW port, NEW x \in DnsInputs(z, r), Answers(x, Svi(z), q, port)
      PROVE  q \in protos /\ port \in ToSet(PortsOf[r.ports])
  BY <1>2, <1>4, <1>6 DEF Answers
<1> QED BY <1>4, <1>5, <1>6 DEF protos

\* Two zones have two interfaces, and none is the WAN port.
LEMMA Interfaces ==
  /\ \A z : Wan # Svi(z)
  /\ \A y, z : Svi(y) = Svi(z) => y = z
BY DEF Wan, Svi

\* The router's own services: none but WireGuard on the WAN, and none is DNS.
LEMMA ServicesAnswer ==
  ASSUME NEW x \in RouterServices
  PROVE  /\ x.ports # NoPorts /\ x.ports \cap ToSet(PortsOf[DnsSpec]) = {}
         /\ Wan \in x.on => x.ports = {WireGuard}
<1>1. Wan \notin LanList /\ Wan \notin ListOf(Admin)
  BY Interfaces, TablesAssumption DEF LanList, ListOf
<1>2. x.on \in {LanList, ListOf(Admin)} \/ x.ports = {WireGuard}
  BY DEF RouterServices
<1>3. x.ports \subseteq {Ntp, Management, WireGuard}
  BY DEF RouterServices
<1>4. x.ports # NoPorts
  BY <1>3, TablesAssumption
<1> QED BY <1>1, <1>2, <1>3, <1>4, TablesAssumption

\* Every ruleset's input rules are for DNS and for the zone it is from.
LEMMA AskedForDns ==
  ASSUME NEW rs, Known(rs), NEW x \in AskedBy(rs)
  PROVE  /\ rs.to = Containers /\ ~Unbound(rs)
         /\ \/ rs.open /\ x \in DnsInputs(rs.from, DnsRule)
            \/ \E r \in Dns(rs) : x \in DnsInputs(rs.from, r)
<1>1. rs.to = Containers /\ ~Unbound(rs)
  BY DEF AskedBy
<1>2. AskedBy(rs) = FromRules(rs) \cup FromDefault(rs)
  BY <1>1 DEF AskedBy
<1>3. CASE x \in FromRules(rs)
  BY <1>1, <1>3 DEF FromRules
<1>4. CASE x \in FromDefault(rs)
  BY <1>1, <1>4 DEF FromDefault
<1> QED BY <1>2, <1>3, <1>4

LEMMA DnsRuleIsDns == DnsRule.ports \in DnsSpecs
BY ZonePoliciesAssumption DEF DnsRule

\* For any rulesets in any order: the router answers DNS exactly in the zones where a
\* host that is left could ask the containers, and on the WAN nothing but WireGuard
\* (add_dns_input, vyos-to-locals.py:1092).
THEOREM AnswersInsideCorrect == ZonesSpec => []AnswersInside
<1> SUFFICES GeneratorInv => AnswersInside
  BY GeneratorInvariant, PTL
<1> SUFFICES ASSUME GeneratorInv, phase = "written"
             PROVE  AnswersInside
  BY DEF AnswersInside
<1>1. RulesetsKnown /\ Translatable /\ inputs = Asked \cup DnsInputs(Native, DnsRule) \cup RouterServices
  BY DEF GeneratorInv, InputsMean
<1>2. ASSUME NEW x \in inputs
      PROVE  \/ \E rs \in vyos : x \in AskedBy(rs)
             \/ x \in DnsInputs(Native, DnsRule)
             \/ x \in RouterServices
  BY <1>1 DEF Asked
<1>3. ASSUME NEW rs \in vyos, NEW x \in AskedBy(rs)
      PROVE  x.on = {Svi(rs.from)}
  <2>1. Known(rs)
    BY <1>1 DEF RulesetsKnown
  <2>2. PICK r : r.ports \in DnsSpecs /\ x \in DnsInputs(rs.from, r)
    BY <1>3, <2>1, AskedForDns, DnsRuleIsDns DEF Dns
  <2> QED BY <2>2, DnsInputsAnswer
<1>4. ASSUME NEW x \in DnsInputs(Native, DnsRule)
      PROVE  x.on = {Svi(Native)}
  BY DnsInputsAnswer, DnsRuleIsDns
<1>5. ASSUME NEW q, NEW port, port # WireGuard
      PROVE  ~RouterAnswers(Wan, q, port)
  <2>1. ASSUME NEW x \in inputs, Answers(x, Wan, q, port)
        PROVE  FALSE
    <3>1. Wan \in x.on /\ (x.ports = NoPorts \/ port \in x.ports)
      BY <2>1 DEF Answers
    <3>2. x \in RouterServices
      BY <1>2, <1>3, <1>4, <3>1, Interfaces
    <3> QED BY <1>5, <3>1, <3>2, ServicesAnswer
  <2> QED BY <2>1 DEF RouterAnswers, Answers
<1>6. ASSUME NEW z \in ZoneNames \ {Outside, Native}, NEW q \in {"tcp", "udp"},
             NEW port \in ToSet(PortsOf[DnsSpec])
      PROVE  RouterAnswers(Svi(z), q, port) <=>
               \E rs \in vyos :
                 /\ rs.from = z /\ rs.to = Containers
                 /\ \/ rs.open
                    \/ \E r \in rs.rules, src, dst \in Hosts :
                         /\ r.ports \in DnsSpecs
                         /\ VyosMatches(r, [src |-> src, dst |-> dst, proto |-> q, port |-> port])
  <2> DEFINE packet(src, dst) == [src |-> src, dst |-> dst, proto |-> q, port |-> port]
             asks(rs) == /\ rs.from = z /\ rs.to = Containers
                         /\ \/ rs.open
                            \/ \E r \in rs.rules, src, dst \in Hosts :
                                 r.ports \in DnsSpecs /\ VyosMatches(r, packet(src, dst))
  <2>1. z \notin Gone
    BY TablesAssumption DEF ZoneNames, Gone
  <2>2. /\ \A r : r.ports \in DnsSpecs =>
              ((\E x \in DnsInputs(z, r) : Answers(x, Svi(z), q, port)) <=>
                 q \in ExpandProtocol(r.proto) /\ port \in ToSet(PortsOf[r.ports]))
    BY DnsInputsAnswer
  <2>3. ASSUME NEW rs \in vyos, NEW x \in AskedBy(rs), Answers(x, Svi(z), q, port)
        PROVE  asks(rs)
    <3>1. Known(rs) /\ (Unbound(rs) \/ Expressible(rs))
      BY <1>1 DEF RulesetsKnown, Translatable
    <3>2. rs.to = Containers /\ ~Unbound(rs) /\ rs.from = z
      BY <1>3, <2>3, <3>1, AskedForDns, Interfaces DEF Answers
    <3>3. CASE rs.open
      BY <3>2, <3>3
    <3>4. CASE ~rs.open
      <4>1. PICK r \in Dns(rs) : x \in DnsInputs(z, r)
        BY <2>3, <3>1, <3>2, <3>4, AskedForDns
      <4>2. r.ports \in DnsSpecs /\ r \in Kept(rs) /\ r.action = "accept"
        BY <3>1, <3>2 DEF Dns, Accepts, Expressible, Translated
      <4>3. r \in Left /\ r \in rs.rules
        BY <3>1, <4>2, KeptIsLeft
      <4>4. q \in ExpandProtocol(r.proto) /\ port \in ToSet(PortsOf[r.ports])
        BY <2>2, <2>3, <4>1, <4>2
      <4>5. r.proto \in {q, "tcp_udp"}
        BY <4>4 DEF ExpandProtocol
      <4>6. VyosMatches(r, packet(r.src, r.dst))
        BY <4>2, <4>4, <4>5 DEF VyosMatches
      <4>7. r.src \in Hosts /\ r.dst \in Hosts
        BY <4>3 DEF Left
      <4> QED BY <3>2, <4>2, <4>3, <4>6, <4>7
    <3> QED BY <3>3, <3>4
  <2>4. ASSUME RouterAnswers(Svi(z), q, port)
        PROVE  \E rs \in vyos : asks(rs)
    <3>1. PICK x \in inputs : Answers(x, Svi(z), q, port)
      BY <2>4 DEF RouterAnswers, Answers
    <3>2. x \notin RouterServices
      BY <3>1, ServicesAnswer DEF Answers
    <3>3. x \notin DnsInputs(Native, DnsRule)
      BY <1>4, <3>1, Interfaces DEF Answers
    <3>4. PICK rs \in vyos : x \in AskedBy(rs)
      BY <1>2, <3>2, <3>3
    <3>5. asks(rs)
      BY <2>3, <3>1, <3>4
    <3> HIDE DEF asks
    <3> QED BY <3>5
  <2>5. ASSUME NEW rs \in vyos, asks(rs)
        PROVE  RouterAnswers(Svi(z), q, port)
    <3>1. Known(rs) /\ rs.from = z /\ rs.to = Containers /\ ~Unbound(rs)
      BY <1>1, <2>1, <2>5, TablesAssumption DEF RulesetsKnown, Unbound, Gone
    <3>2. \A x \in AskedBy(rs) : x \in inputs
      BY <1>1 DEF Asked
    <3>3. CASE rs.open
      <4>1. /\ DnsRule.ports = DnsSpec /\ DnsRule.ports \in DnsSpecs
            /\ q \in ExpandProtocol(DnsRule.proto)
        BY DnsRuleIsDns DEF DnsRule, ExpandProtocol
      <4>2. PICK x \in DnsInputs(z, DnsRule) : Answers(x, Svi(z), q, port)
        BY <2>2, <4>1
      <4>3. x \in AskedBy(rs)
        <5>1. x \in FromDefault(rs)
          BY <3>1, <3>3, <4>2 DEF FromDefault
        <5> QED BY <3>1, <5>1 DEF AskedBy
      <4> QED BY <3>2, <4>2, <4>3 DEF RouterAnswers, Answers
    <3>4. CASE ~rs.open
      <4>1. PICK r \in rs.rules, src \in Hosts, dst \in Hosts :
              r.ports \in DnsSpecs /\ VyosMatches(r, packet(src, dst))
        BY <2>5, <3>4
      <4>2. IsPacket(packet(src, dst))
        BY DEF IsPacket
      <4>3. r \in Accepts(rs)
        BY <3>1, <4>1, <4>2, MatchingIsKept
      <4>4. r \in Dns(rs)
        BY <4>1, <4>3 DEF Dns
      <4>5. r.ports # NoPorts
        BY <4>1, TablesAssumption
      <4>6. r.proto # "any"
        BY <3>1, <4>1, <4>5, VyosAssumption DEF Known
      <4>7. r.proto \in {q, "tcp_udp"} /\ port \in ToSet(PortsOf[r.ports])
        BY <4>1, <4>5, <4>6 DEF VyosMatches
      <4>8. q \in ExpandProtocol(r.proto)
        BY <4>7 DEF ExpandProtocol
      <4>9. PICK x \in DnsInputs(z, r) : Answers(x, Svi(z), q, port)
        BY <2>2, <4>1, <4>7, <4>8
      <4>10. x \in AskedBy(rs)
        <5>1. x \in FromRules(rs)
          BY <3>1, <4>4, <4>9 DEF FromRules
        <5> QED BY <3>1, <5>1 DEF AskedBy
      <4> QED BY <3>2, <4>9, <4>10 DEF RouterAnswers, Answers
    <3> QED BY <3>3, <3>4
  <2> QED BY <2>4, <2>5
<1> QED BY <1>5, <1>6 DEF AnswersInside

-----------------------------------------------------------------------------
(* The records, routes and redirects of the generator                          *)

HIDE DEF router, Boots

\* The names VyOS answered, those whose network stays, and those with an address left.
VyosNames == {n \in Names : n \in (DOMAIN blocky) \cup (DOMAIN bind)}
LeftNames == {n \in VyosNames : ~InNetOf(OldAnswer(n), vlans \cap GoneZones)}
HomedNames == {n \in LeftNames : LET a == AddressOf(OldAnswer(n)) IN a \in DOMAIN Retarget => Retarget[a] # NoAddress}

OldAnswers == [n \in Names |-> OldAnswer(n)]
NewAnswers == [n \in Names |-> NewAnswer(n)]
Drop == [type |-> "NXDOMAIN", to |-> NoAddress]

\* The key of a dropped name.
Mark(n) == <<n>>
Marks(names) == {<<n>> : n \in names}

\* A table has these names with these answers, and these drops.
TableIs(tab, names, answers, drops) ==
  /\ \A n \in Names : n \in DOMAIN tab <=> n \in names
  /\ \A n \in names : tab[n] = answers[n]
  /\ \A n \in Names : Mark(n) \in DOMAIN tab <=> n \in drops
  /\ \A n \in drops : tab[Mark(n)] = Drop

\* What the parsers read has the form of the lines.
SourcesTyped ==
  /\ nat \in Seq(NatLines) /\ dropped \subseteq Names
  /\ DOMAIN blocky \subseteq Names /\ \A n \in DOMAIN blocky : blocky[n].type = "A"
  /\ DOMAIN bind \subseteq Names /\ \A n \in DOMAIN bind : bind[n].type \in {"A", "CNAME"}

\* After each pass: the records, the VLANs, the routes and the rules it leaves.
AfterPass ==
  /\ pass \in {"vlans", "zones"} => TableIs(static, VyosNames, OldAnswers, dropped)
  /\ pass \in {"retarget"} => TableIs(static, LeftNames, OldAnswers, dropped)
  /\ pass \in {"drop"} => TableIs(static, HomedNames, NewAnswers, dropped)
  /\ pass \in {"extra"} => TableIs(static, HomedNames \ DropNames, NewAnswers, dropped \ DropNames)
  /\ pass \in {"routes", "nat", "peers", "written"} => AnswersAlike
  /\ pass \in {"zones"} => DOMAIN svis = vlans
  /\ pass \in {"retarget", "drop", "extra", "routes", "nat", "peers", "written"} =>
       DOMAIN svis = vlans \ GoneZones
  /\ pass \in {"nat", "peers", "written"} => RoutesAlike
  /\ pass \in {"peers", "written"} =>
       RedirectsAlike /\ \A i \in DOMAIN dstnat : dstnat[i].zone \in DOMAIN svis

RecordsInv == RecordsTypeOK /\ SourcesTyped /\ AfterPass

-----------------------------------------------------------------------------
(* Sequences                                                                   *)

\* A set of numbers has a least one: what a proof by induction starts from.
LEMMA LeastNat == ASSUME NEW S, S \subseteq Nat, S # {} PROVE \E n \in S : \A m \in S : n <= m
<1> DEFINE R == OpToRel(<, Nat)
<1>1. IsWellFoundedOn(R, Nat)
  BY NatLessThanWellFounded
<1>2. \A x, y \in Nat : <<x, y>> \in R <=> x < y
  BY DEF OpToRel
<1> HIDE DEF R
<1>3. \E x \in S : \A y \in S : ~(<<y, x>> \in R)
  BY <1>1, WFMin
<1>4. PICK x \in S : \A y \in S : ~(<<y, x>> \in R)
  BY <1>3
<1>5. ASSUME NEW y \in S PROVE x <= y
  <2>1. x \in Nat /\ y \in Nat OBVIOUS
  <2>2. ~(y < x) BY <1>2, <1>4, <2>1
  <2> QED BY <2>1, <2>2
<1> QED BY <1>4, <1>5


\* g is the function FlattenSeq is defined by, of the first n sequences.
Flat(seqs, n, g) == g = [i \in 1 .. n |-> IF i = 1 THEN seqs[i] ELSE g[i-1] \o seqs[i]]

\* The recursive function that FlattenSeq is defined by exists.
LEMMA FlatExists == ASSUME NEW seqs, NEW k \in Nat PROVE \E g : Flat(seqs, k, g)
<1> DEFINE Bad == {n \in Nat : ~\E g : Flat(seqs, n, g)}
<1> SUFFICES ASSUME Bad # {} PROVE FALSE
  OBVIOUS
<1>1. PICK n \in Bad : \A m \in Bad : n <= m
  BY LeastNat
<1>2. n # 0
  <2>1. Flat(seqs, 0, [i \in 1 .. 0 |-> 0])
    BY DEF Flat
  <2> QED BY <1>1, <2>1
<1>3. n - 1 \in Nat /\ n - 1 \notin Bad
  BY <1>1, <1>2
<1>4. PICK g : Flat(seqs, n - 1, g)
  BY <1>3
<1> DEFINE h == [i \in 1 .. n |-> IF i = n THEN (IF i = 1 THEN seqs[i] ELSE g[i-1] \o seqs[i]) ELSE g[i]]
<1>5. \A i \in 1 .. n : i # n => i \in 1 .. n - 1 /\ h[i] = g[i]
  BY <1>3
<1>6. \A i \in 1 .. n - 1 : g[i] = IF i = 1 THEN seqs[i] ELSE g[i-1] \o seqs[i]
  BY <1>4 DEF Flat
<1>7. \A i \in 1 .. n : h[i] = IF i = 1 THEN seqs[i] ELSE h[i-1] \o seqs[i]
  <2> SUFFICES ASSUME NEW i \in 1 .. n PROVE h[i] = IF i = 1 THEN seqs[i] ELSE h[i-1] \o seqs[i]
    OBVIOUS
  <2>1. CASE i = 1
    BY <1>5, <1>6, <2>1
  <2>2. CASE i # 1
    <3>1. i - 1 \in 1 .. n /\ i - 1 # n /\ i \in Int /\ n \in Int
      BY <1>3, <2>2
    <3>2. h[i - 1] = g[i - 1]
      BY <1>5, <3>1
    <3>3. h[i] = g[i - 1] \o seqs[i]
      BY <1>5, <1>6, <2>2
    <3> QED BY <2>2, <3>2, <3>3
  <2> QED BY <2>1, <2>2
<1> HIDE DEF h
<1>8. DOMAIN h = 1 .. n BY DEF h
<1>9. Flat(seqs, n, h)
  BY <1>7, <1>8 DEF Flat, h
<1> QED BY <1>1, <1>9

LEMMA FlattenIsFlat ==
  ASSUME NEW seqs, Len(seqs) \in Nat \ {0}
  PROVE  \E g : Flat(seqs, Len(seqs), g) /\ FlattenSeq(seqs) = g[Len(seqs)]
<1> DEFINE g == CHOOSE h : h = [i \in 1 .. Len(seqs) |-> IF i = 1 THEN seqs[i] ELSE h[i-1] \o seqs[i]]
<1>1. FlattenSeq(seqs) = g[Len(seqs)]
  BY DEF FlattenSeq
<1>2. \E h : Flat(seqs, Len(seqs), h)
  BY FlatExists
<1>3. Flat(seqs, Len(seqs), g)
  BY <1>2, Zenon DEF Flat
<1> QED BY <1>1, <1>3

-----------------------------------------------------------------------------
(* The first rule that takes a packet                                          *)

Takes(r, dead, p) == TakesPacket(r, p) /\ r.to \notin dead
FirstTakes(s, dead, p, j) == j \in 1 .. Len(s) /\ Takes(s[j], dead, p) /\ \A i \in 1 .. j - 1 : ~Takes(s[i], dead, p)
NoneTakes(s, dead, p) == \A i \in 1 .. Len(s) : ~Takes(s[i], dead, p)

\* The rule of a redirect is the first that takes the packet.
LEMMA RedirectedIsFirst ==
  ASSUME NEW S, NEW s \in Seq(S), NEW dead, NEW p
  PROVE  /\ NoneTakes(s, dead, p) => Redirected(s, dead, p) = NoAddress
         /\ \A j : FirstTakes(s, dead, p, j) => Redirected(s, dead, p) = s[j].to
<1> DEFINE taking == {i \in DOMAIN s : TakesPacket(s[i], p) /\ s[i].to \notin dead}
<1>1. DOMAIN s = 1 .. Len(s) /\ Len(s) \in Nat
  OBVIOUS
<1>2. NoneTakes(s, dead, p) => taking = {}
  BY <1>1 DEF NoneTakes, Takes
<1>3. ASSUME NEW j, FirstTakes(s, dead, p, j) PROVE Redirected(s, dead, p) = s[j].to
  <2>1. j \in taking
    BY <1>1, <1>3 DEF FirstTakes, Takes
  <2>2. \A i \in taking : j <= i
    BY <1>1, <1>3 DEF FirstTakes, Takes
  <2>3. \A i \in taking : (\A k \in taking : i <= k) => i = j
    <3> SUFFICES ASSUME NEW i \in taking, \A k \in taking : i <= k PROVE i = j
      OBVIOUS
    <3>1. i <= j /\ j <= i /\ i \in Nat /\ j \in Nat
      BY <1>1, <2>1, <2>2
    <3> QED BY <3>1
  <2> HIDE DEF taking
  <2>4. (CHOOSE i \in taking : \A k \in taking : i <= k) = j
    BY <2>1, <2>2, <2>3
  <2>5. Redirected(s, dead, p) = IF taking = {} THEN NoAddress
                                 ELSE s[CHOOSE i \in taking : \A k \in taking : i <= k].to
    BY DEF Redirected, taking
  <2> QED BY <2>1, <2>4, <2>5
<1> QED BY <1>2, <1>3 DEF Redirected

\* The first of two lists comes before the second.
LEMMA FirstOfBoth ==
  ASSUME NEW S, NEW a \in Seq(S), NEW b \in Seq(S), NEW dead, NEW p
  PROVE  /\ \A j : FirstTakes(a, dead, p, j) => FirstTakes(a \o b, dead, p, j) /\ (a \o b)[j] = a[j]
         /\ \A j : NoneTakes(a, dead, p) /\ FirstTakes(b, dead, p, j) =>
              FirstTakes(a \o b, dead, p, Len(a) + j) /\ (a \o b)[Len(a) + j] = b[j]
         /\ NoneTakes(a, dead, p) /\ NoneTakes(b, dead, p) => NoneTakes(a \o b, dead, p)
<1>1. /\ Len(a) \in Nat /\ Len(b) \in Nat /\ Len(a \o b) = Len(a) + Len(b)
      /\ \A i \in 1 .. Len(a) : (a \o b)[i] = a[i]
      /\ \A i \in 1 .. Len(b) : (a \o b)[Len(a) + i] = b[i]
      /\ \A i \in 1 .. Len(a) + Len(b) : i <= Len(a) \/ i - Len(a) \in 1 .. Len(b)
  OBVIOUS
<1>2. ASSUME NEW j, FirstTakes(a, dead, p, j)
      PROVE  FirstTakes(a \o b, dead, p, j) /\ (a \o b)[j] = a[j]
  BY <1>1, <1>2 DEF FirstTakes
<1>3. ASSUME NEW j, NoneTakes(a, dead, p), FirstTakes(b, dead, p, j)
      PROVE  FirstTakes(a \o b, dead, p, Len(a) + j) /\ (a \o b)[Len(a) + j] = b[j]
  <2>1. ASSUME NEW i \in 1 .. Len(a) + j - 1 PROVE ~Takes((a \o b)[i], dead, p)
    <3>1. CASE i <= Len(a)
      BY <1>1, <1>3, <3>1 DEF NoneTakes
    <3>2. CASE ~(i <= Len(a))
      <4>1. i - Len(a) \in 1 .. j - 1 /\ i - Len(a) \in 1 .. Len(b) /\ Len(a) + (i - Len(a)) = i
        BY <1>1, <1>3, <3>2 DEF FirstTakes
      <4>2. (a \o b)[i] = b[i - Len(a)]
        BY <1>1, <4>1
      <4> QED BY <1>3, <4>1, <4>2 DEF FirstTakes
    <3> QED BY <3>1, <3>2
  <2>2. j \in 1 .. Len(b) /\ Takes(b[j], dead, p)
    BY <1>3 DEF FirstTakes
  <2> QED BY <1>1, <2>1, <2>2 DEF FirstTakes
<1>4. ASSUME NoneTakes(a, dead, p), NoneTakes(b, dead, p) PROVE NoneTakes(a \o b, dead, p)
  <2> SUFFICES ASSUME NEW i \in 1 .. Len(a) + Len(b) PROVE ~Takes((a \o b)[i], dead, p)
    BY <1>1 DEF NoneTakes
  <2>1. CASE i <= Len(a)
    BY <1>1, <1>4, <2>1 DEF NoneTakes
  <2>2. CASE ~(i <= Len(a))
    <3>1. i - Len(a) \in 1 .. Len(b) /\ Len(a) + (i - Len(a)) = i
      BY <1>1, <2>2
    <3> QED BY <1>1, <1>4, <3>1 DEF NoneTakes
  <2> QED BY <2>1, <2>2
<1> QED BY <1>2, <1>3, <1>4

-----------------------------------------------------------------------------
(* What the NAT pass makes of the rules                                        *)

Packet(p) ==
  /\ p.zone \in DOMAIN svis /\ p.src \in Addresses \ RetiredHosts
  /\ p.dst \in Addresses \ Resolvers /\ p.proto \in {"tcp", "udp"}

\* Where the new router sends what VyOS sent to an address.
Moved(to) == IF to \in Resolvers THEN Router ELSE to

NewRules == [zone : VlanZones, src : Addresses \cup {NoAddress}, dst : Addresses \cup {NoAddress},
             to : Addresses \cup {Router}, proto : {"tcp", "udp", "tcp_udp"}]
PartOf(r) == IF Stays(r) THEN Entries(Rewritten(r)) ELSE <<>>

LEMMA RewrittenTakes ==
  ASSUME RouterRecordsAssumption, NEW r \in NatLines
  PROVE  /\ Rewritten(r) \in NewRules /\ Rewritten(r).zone = r.zone
         /\ Rewritten(r).to = Moved(r.to) /\ Rewritten(r).proto = r.proto
         /\ \A p : Packet(p) => (TakesPacket(Rewritten(r), p) <=> TakesPacket(r, p))
<1>1. r \in [zone : VlanZones, src : Addresses \cup {NoAddress}, dst : Addresses \cup {NoAddress},
             to : Addresses, proto : {"tcp", "udp", "tcp_udp"}]
  BY DEF RouterRecordsAssumption
<1> DEFINE w == Rewritten(r)
<1>2. /\ w.zone = r.zone /\ w.proto = r.proto /\ w.to = Moved(r.to)
      /\ w.src = (IF r.src \in RetiredHosts THEN NoAddress ELSE r.src)
      /\ w.dst = (IF r.to \in Resolvers /\ r.dst \in Resolvers THEN NoAddress ELSE r.dst)
  BY <1>1 DEF Rewritten, Moved
<1>3. w \in NewRules
  BY <1>1 DEF Rewritten, NewRules
<1> HIDE DEF w
<1>4. ASSUME NEW p, Packet(p) PROVE TakesPacket(w, p) <=> TakesPacket(r, p)
  <2>1. NoAddress # p.src /\ NoAddress # p.dst
    BY <1>4 DEF Packet, RouterRecordsAssumption
  <2>2. w.src # p.src <=> r.src # p.src
    BY <1>2, <1>4, <2>1 DEF Packet
  <2>3. w.dst # p.dst <=> r.dst # p.dst
    BY <1>2, <1>4, <2>1 DEF Packet
  <2> QED BY <1>2, <2>2, <2>3 DEF TakesPacket
<1> QED BY <1>2, <1>3, <1>4 DEF w

\* The entries of a rule take the packets of the rule, for one protocol each.
LEMMA EntriesTake ==
  ASSUME NEW w \in NewRules
  PROVE  /\ Entries(w) \in Seq(NewRules)
         /\ \A i \in 1 .. Len(Entries(w)) : Entries(w)[i].zone = w.zone
         /\ \A p : Packet(p) /\ TakesPacket(w, p) =>
              \E j : FirstTakes(Entries(w), {}, p, j) /\ Entries(w)[j].to = w.to
         /\ \A p : Packet(p) /\ ~TakesPacket(w, p) => NoneTakes(Entries(w), {}, p)
<1> DEFINE a == [w EXCEPT !.proto = "tcp"]
           b == [w EXCEPT !.proto = "udp"]
<1>1. /\ a.zone = w.zone /\ a.src = w.src /\ a.dst = w.dst /\ a.to = w.to /\ a.proto = "tcp"
      /\ b.zone = w.zone /\ b.src = w.src /\ b.dst = w.dst /\ b.to = w.to /\ b.proto = "udp"
      /\ a \in NewRules /\ b \in NewRules /\ w.proto \in {"tcp", "udp", "tcp_udp"}
  BY DEF NewRules
<1> HIDE DEF a, b
<1>2. CASE w.proto = "tcp_udp"
  <2>1. Entries(w) = <<a, b>>
    BY <1>2 DEF Entries, a, b
  <2> DEFINE s == <<a, b>>
             N == NewRules
  <2>2. s \in Seq(N) /\ Len(s) = 2 /\ s[1] = a /\ s[2] = b
    <3> HIDE DEF N
    <3>1. a \in N /\ b \in N BY <1>1 DEF N
    <3> QED BY <3>1
  <2>3. \A i \in 1 .. Len(s) : i \in {1, 2}
    BY <2>2
  <2> HIDE DEF s
  <2>4. \A i \in 1 .. Len(s) : s[i].zone = w.zone
    BY <1>1, <2>2, <2>3
  <2>5. ASSUME NEW p, Packet(p), TakesPacket(w, p) PROVE \E j : FirstTakes(s, {}, p, j) /\ s[j].to = w.to
    <3>1. p.proto \in {"tcp", "udp"} BY <2>5 DEF Packet
    <3>2. CASE p.proto = "tcp"
      <4>1. FirstTakes(s, {}, p, 1)
        BY <1>1, <2>2, <2>5, <3>2 DEF FirstTakes, Takes, TakesPacket
      <4> QED BY <1>1, <2>2, <4>1
    <3>3. CASE p.proto = "udp"
      <4>1. ~Takes(a, {}, p) /\ Takes(b, {}, p)
        BY <1>1, <2>5, <3>3 DEF Takes, TakesPacket
      <4>2. FirstTakes(s, {}, p, 2)
        BY <2>2, <4>1 DEF FirstTakes
      <4> QED BY <1>1, <2>2, <4>2
    <3> QED BY <3>1, <3>2, <3>3
  <2>6. ASSUME NEW p, Packet(p), ~TakesPacket(w, p) PROVE NoneTakes(s, {}, p)
    <3>1. ~TakesPacket(a, p) /\ ~TakesPacket(b, p)
      BY <1>1, <1>2, <2>6 DEF TakesPacket, Packet
    <3> QED BY <2>2, <2>3, <3>1 DEF NoneTakes, Takes
  <2> QED BY <2>1, <2>2, <2>4, <2>5, <2>6 DEF s
<1>3. CASE w.proto # "tcp_udp"
  <2>1. Entries(w) = <<w>>
    BY <1>3 DEF Entries
  <2> DEFINE s == <<w>>
             N == NewRules
  <2>2. s \in Seq(N) /\ Len(s) = 1 /\ s[1] = w
    <3> HIDE DEF N
    <3>1. w \in N BY DEF N
    <3> QED BY <3>1
  <2>3. \A i \in 1 .. Len(s) : i = 1
    BY <2>2
  <2> HIDE DEF s
  <2>4. \A i \in 1 .. Len(s) : s[i].zone = w.zone
    BY <2>2, <2>3
  <2>5. ASSUME NEW p, Packet(p), TakesPacket(w, p) PROVE \E j : FirstTakes(s, {}, p, j) /\ s[j].to = w.to
    <3>1. FirstTakes(s, {}, p, 1)
      BY <2>2, <2>5 DEF FirstTakes, Takes
    <3> QED BY <2>2, <3>1
  <2>6. ASSUME NEW p, Packet(p), ~TakesPacket(w, p) PROVE NoneTakes(s, {}, p)
    BY <2>2, <2>3, <2>6 DEF NoneTakes, Takes
  <2> QED BY <2>1, <2>2, <2>4, <2>5, <2>6 DEF s
<1> QED BY <1>2, <1>3

\* What the pass writes for a rule takes what the rule took of the zones that are left.
LEMMA PartTakes ==
  ASSUME RouterRecordsAssumption, NEW r \in NatLines
  PROVE  /\ PartOf(r) \in Seq(NewRules)
         /\ \A i \in 1 .. Len(PartOf(r)) : PartOf(r)[i].zone \in DOMAIN svis
         /\ \A p : Packet(p) /\ Takes(r, DeadHops, p) =>
              \E j : FirstTakes(PartOf(r), {}, p, j) /\ PartOf(r)[j].to = Moved(r.to)
         /\ \A p : Packet(p) /\ ~Takes(r, DeadHops, p) => NoneTakes(PartOf(r), {}, p)
<1> DEFINE w == Rewritten(r)
<1>1. /\ w \in NewRules /\ w.zone = r.zone /\ w.to = Moved(r.to)
      /\ \A p : Packet(p) => (TakesPacket(w, p) <=> TakesPacket(r, p))
  BY RewrittenTakes
<1> HIDE DEF w
<1>2. CASE Stays(r)
  <2>1. PartOf(r) = Entries(w)
    BY <1>2 DEF PartOf, w
  <2>2. /\ Entries(w) \in Seq(NewRules)
        /\ \A i \in 1 .. Len(Entries(w)) : Entries(w)[i].zone = w.zone
        /\ \A p : Packet(p) /\ TakesPacket(w, p) =>
              \E j : FirstTakes(Entries(w), {}, p, j) /\ Entries(w)[j].to = w.to
        /\ \A p : Packet(p) /\ ~TakesPacket(w, p) => NoneTakes(Entries(w), {}, p)
    BY <1>1, EntriesTake
  <2>3. r.to \notin DeadHops /\ r.zone \in DOMAIN svis
    BY <1>2 DEF Stays
  <2>4. \A p : Packet(p) => (Takes(r, DeadHops, p) <=> TakesPacket(w, p))
    BY <1>1, <2>3 DEF Takes
  <2> QED BY <1>1, <2>1, <2>2, <2>3, <2>4
<1>3. CASE ~Stays(r)
  <2>1. PartOf(r) = <<>>
    BY <1>3 DEF PartOf
  <2>2. \A p : Packet(p) => ~Takes(r, DeadHops, p)
    BY <1>3 DEF Stays, Packet, Takes, TakesPacket
  <2>3. <<>> \in Seq(NewRules) /\ Len(<<>>) = 0 OBVIOUS
  <2>4. \A i : i \notin 1 .. Len(<<>>) BY <2>3
  <2>5. \A p : NoneTakes(<<>>, {}, p) BY <2>4 DEF NoneTakes
  <2> QED BY <2>1, <2>2, <2>3, <2>4, <2>5
<1> QED BY <1>2, <1>3

Parts == [i \in 1 .. Len(nat) |-> IF Stays(nat[i]) THEN Entries(Rewritten(nat[i])) ELSE <<>>]

\* What is written for the first n rules does what those n rules did.
AsFarAs(n, t) ==
  /\ t \in Seq(NewRules)
  /\ \A i \in 1 .. Len(t) : t[i].zone \in DOMAIN svis
  /\ \A p : Packet(p) =>
       /\ (\A i \in 1 .. n : ~Takes(nat[i], DeadHops, p)) => NoneTakes(t, {}, p)
       /\ \A i \in 1 .. n :
            Takes(nat[i], DeadHops, p) /\ (\A k \in 1 .. i - 1 : ~Takes(nat[k], DeadHops, p)) =>
              \E j : FirstTakes(t, {}, p, j) /\ t[j].to = Moved(nat[i].to)

\* One rule more.
LEMMA OneRuleMore ==
  ASSUME RouterRecordsAssumption, nat \in Seq(NatLines), NEW n \in 1 .. Len(nat),
         NEW t, AsFarAs(n - 1, t)
  PROVE  AsFarAs(n, t \o PartOf(nat[n]))
<1> DEFINE r == nat[n]
           e == PartOf(r)
<1>1. n \in Nat /\ n - 1 \in Nat /\ r \in NatLines /\ Len(nat) \in Nat
  OBVIOUS
<1>2. /\ e \in Seq(NewRules) /\ \A i \in 1 .. Len(e) : e[i].zone \in DOMAIN svis
      /\ \A p : Packet(p) /\ Takes(r, DeadHops, p) =>
              \E j : FirstTakes(e, {}, p, j) /\ e[j].to = Moved(r.to)
      /\ \A p : Packet(p) /\ ~Takes(r, DeadHops, p) => NoneTakes(e, {}, p)
  BY <1>1, PartTakes
<1> HIDE DEF e
<1> DEFINE N == NewRules
<1>3. t \in Seq(N) /\ e \in Seq(N)
  BY <1>2 DEF AsFarAs
<1> HIDE DEF N
<1>4. t \o e \in Seq(N) /\ Len(t \o e) = Len(t) + Len(e) /\ Len(t) \in Nat /\ Len(e) \in Nat
  BY <1>3
<1>5. ASSUME NEW p
      PROVE  /\ \A j : FirstTakes(t, {}, p, j) => FirstTakes(t \o e, {}, p, j) /\ (t \o e)[j] = t[j]
             /\ \A j : NoneTakes(t, {}, p) /\ FirstTakes(e, {}, p, j) =>
                  FirstTakes(t \o e, {}, p, Len(t) + j) /\ (t \o e)[Len(t) + j] = e[j]
             /\ NoneTakes(t, {}, p) /\ NoneTakes(e, {}, p) => NoneTakes(t \o e, {}, p)
  BY <1>3, FirstOfBoth
<1>6. ASSUME NEW i \in 1 .. Len(t \o e) PROVE (t \o e)[i].zone \in DOMAIN svis
  <2>1. CASE i <= Len(t)
    <3>1. i \in 1 .. Len(t) /\ (t \o e)[i] = t[i] BY <1>3, <1>4, <2>1
    <3> QED BY <3>1 DEF AsFarAs
  <2>2. CASE ~(i <= Len(t))
    <3>1. i - Len(t) \in 1 .. Len(e) /\ (t \o e)[i] = e[i - Len(t)] BY <1>3, <1>4, <2>2
    <3> QED BY <1>2, <3>1
  <2> QED BY <2>1, <2>2
<1>7. ASSUME NEW p, Packet(p), \A i \in 1 .. n : ~Takes(nat[i], DeadHops, p)
      PROVE  NoneTakes(t \o e, {}, p)
  <2>1. n \in 1 .. n /\ \A i \in 1 .. n - 1 : i \in 1 .. n
    BY <1>1
  <2>2. NoneTakes(t, {}, p)
    BY <1>7, <2>1 DEF AsFarAs
  <2>3. NoneTakes(e, {}, p)
    BY <1>2, <1>7, <2>1
  <2> QED BY <1>5, <2>2, <2>3
<1>8. ASSUME NEW p, Packet(p), NEW i \in 1 .. n, Takes(nat[i], DeadHops, p),
             \A k \in 1 .. i - 1 : ~Takes(nat[k], DeadHops, p)
      PROVE  \E j : FirstTakes(t \o e, {}, p, j) /\ (t \o e)[j].to = Moved(nat[i].to)
  <2>1. CASE i = n
    <3>1. NoneTakes(t, {}, p)
      BY <1>8, <2>1 DEF AsFarAs
    <3>2. PICK j : FirstTakes(e, {}, p, j) /\ e[j].to = Moved(r.to)
      BY <1>2, <1>8, <2>1
    <3>3. FirstTakes(t \o e, {}, p, Len(t) + j) /\ (t \o e)[Len(t) + j] = e[j]
      BY <1>5, <3>1, <3>2
    <3> QED BY <2>1, <3>2, <3>3
  <2>2. CASE i # n
    <3>1. i \in 1 .. n - 1
      BY <1>1, <2>2
    <3>2. PICK j : FirstTakes(t, {}, p, j) /\ t[j].to = Moved(nat[i].to)
      BY <1>8, <3>1 DEF AsFarAs
    <3>3. FirstTakes(t \o e, {}, p, j) /\ (t \o e)[j] = t[j]
      BY <1>5, <3>2
    <3> QED BY <3>2, <3>3
  <2> QED BY <2>1, <2>2
<1> QED BY <1>4, <1>6, <1>7, <1>8 DEF AsFarAs, N, e

LEMMA NothingYet == ASSUME RouterRecordsAssumption PROVE AsFarAs(0, <<>>)
<1>1. <<>> \in Seq(NewRules) /\ Len(<<>>) = 0
  OBVIOUS
<1>2. \A i : i \notin 1 .. Len(<<>>) /\ i \notin 1 .. 0
  BY <1>1
<1> QED BY <1>1, <1>2 DEF AsFarAs, NoneTakes

\* What the pass writes does what all the rules did, however many they are.
LEMMA AllRules ==
  ASSUME RouterRecordsAssumption, nat \in Seq(NatLines)
  PROVE  AsFarAs(Len(nat), FlattenSeq(Parts))
<1>1. Len(nat) \in Nat /\ DOMAIN Parts = 1 .. Len(nat) /\ \A i \in 1 .. Len(nat) : Parts[i] = PartOf(nat[i])
  BY DEF Parts, PartOf
<1>2. Len(Parts) = Len(nat)
  BY <1>1 DEF Parts
<1>3. CASE Len(nat) = 0
  <2>1. Parts = <<>>
    BY <1>1, <1>3 DEF Parts
  <2>2. FlattenSeq(Parts) = <<>>
    BY <2>1 DEF FlattenSeq
  <2> QED BY <1>3, <2>2, NothingYet
<1>4. CASE Len(nat) # 0
  <2>1. PICK g : Flat(Parts, Len(nat), g) /\ FlattenSeq(Parts) = g[Len(nat)]
    BY <1>1, <1>2, <1>4, FlattenIsFlat
  <2>2. \A i \in 1 .. Len(nat) : g[i] = IF i = 1 THEN PartOf(nat[i]) ELSE g[i-1] \o PartOf(nat[i])
    BY <1>1, <2>1 DEF Flat
  <2> DEFINE Bad == {n \in Nat : n \in 1 .. Len(nat) /\ ~AsFarAs(n, g[n])}
  <2>3. ASSUME Bad # {} PROVE FALSE
    <3>1. PICK n \in Bad : \A m \in Bad : n <= m
      BY <2>3, LeastNat
    <3>2. n \in 1 .. Len(nat) /\ n \in Nat /\ ~AsFarAs(n, g[n])
      BY <3>1
    <3>3. CASE n = 1
      <4>1. g[n] = PartOf(nat[n]) /\ AsFarAs(n - 1, <<>>)
        BY <2>2, <3>2, <3>3, NothingYet
      <4>2. AsFarAs(n, <<>> \o PartOf(nat[n]))
        BY <3>2, <4>1, OneRuleMore
      <4>3. nat[n] \in NatLines BY <3>2
      <4> DEFINE N == NewRules
                 e == PartOf(nat[n])
      <4>4. e \in Seq(N)
        BY <4>3, PartTakes
      <4> HIDE DEF N, e
      <4>5. <<>> \o e = e
        BY <4>4
      <4> QED BY <3>2, <4>1, <4>2, <4>5 DEF e
    <3>4. CASE n # 1
      <4>1. n - 1 \in 1 .. Len(nat) /\ n - 1 \in Nat /\ ~(n <= n - 1)
        BY <1>1, <3>2, <3>4
      <4>2. AsFarAs(n - 1, g[n - 1])
        BY <3>1, <4>1
      <4>3. g[n] = g[n - 1] \o PartOf(nat[n])
        BY <2>2, <3>2, <3>4
      <4> QED BY <3>2, <4>2, <4>3, OneRuleMore
    <3> QED BY <3>3, <3>4
  <2>4. Len(nat) \in 1 .. Len(nat)
    BY <1>1, <1>4
  <2>5. Len(nat) \notin Bad
    BY <2>3
  <2> QED BY <1>1, <2>1, <2>4, <2>5
<1> QED BY <1>3, <1>4

\* The new router redirects a packet as the old one did.
LEMMA RedirectsTheSame ==
  ASSUME RouterRecordsAssumption, nat \in Seq(NatLines), NEW t, AsFarAs(Len(nat), t), NEW p, Packet(p)
  PROVE  Redirected(t, {}, p) = Moved(Redirected(nat, DeadHops, p))
<1>1. Len(nat) \in Nat /\ t \in Seq(NewRules)
  BY DEF AsFarAs
<1>2. /\ NoneTakes(t, {}, p) => Redirected(t, {}, p) = NoAddress
      /\ \A j : FirstTakes(t, {}, p, j) => Redirected(t, {}, p) = t[j].to
  BY <1>1, RedirectedIsFirst
<1>3. /\ NoneTakes(nat, DeadHops, p) => Redirected(nat, DeadHops, p) = NoAddress
      /\ \A j : FirstTakes(nat, DeadHops, p, j) => Redirected(nat, DeadHops, p) = nat[j].to
  BY RedirectedIsFirst
<1>4. CASE NoneTakes(nat, DeadHops, p)
  <2>1. NoneTakes(t, {}, p)
    BY <1>4 DEF AsFarAs, NoneTakes
  <2>2. NoAddress \notin Resolvers
    BY DEF RouterRecordsAssumption
  <2> QED BY <1>2, <1>3, <1>4, <2>1, <2>2 DEF Moved
<1>5. CASE ~NoneTakes(nat, DeadHops, p)
  <2> DEFINE S == {i \in 1 .. Len(nat) : Takes(nat[i], DeadHops, p)}
  <2>1. S \subseteq Nat /\ S # {}
    <3>1. PICK i \in 1 .. Len(nat) : Takes(nat[i], DeadHops, p)
      BY <1>5 DEF NoneTakes
    <3>2. i \in S
      BY <3>1
    <3>3. S \subseteq Nat
      BY <1>1
    <3> QED BY <3>2, <3>3
  <2>2. PICK i \in S : \A m \in S : i <= m
    BY <2>1, LeastNat
  <2>3. i \in 1 .. Len(nat) /\ Takes(nat[i], DeadHops, p)
    BY <2>2
  <2>4. \A k \in 1 .. i - 1 : ~Takes(nat[k], DeadHops, p)
    <3> SUFFICES ASSUME NEW k \in 1 .. i - 1, Takes(nat[k], DeadHops, p) PROVE FALSE
      OBVIOUS
    <3>1. k \in 1 .. Len(nat) /\ ~(i <= k) BY <1>1, <2>3
    <3> QED BY <2>2, <3>1
  <2>5. FirstTakes(nat, DeadHops, p, i)
    BY <2>3, <2>4 DEF FirstTakes
  <2>6. PICK j : FirstTakes(t, {}, p, j) /\ t[j].to = Moved(nat[i].to)
    BY <2>3, <2>4 DEF AsFarAs
  <2> QED BY <1>2, <1>3, <2>5, <2>6
<1> QED BY <1>4, <1>5

-----------------------------------------------------------------------------
(* What the passes make of the DNS records                                     *)

LEMMA NamesAndDrops ==
  ASSUME RouterRecordsAssumption
  PROVE  /\ \A n \in Names : Mark(n) \notin Names
         /\ \A n \in Names : \A S \in SUBSET Names : n \notin Marks(S) /\ (Mark(n) \in Marks(S) <=> n \in S)
<1>1. \A n, S : Mark(n) \in Marks(S) <=> n \in S
  BY DEF Mark, Marks
<1>2. Names \cap Marks(Names) = {}
  BY DEF Marks, RouterRecordsAssumption
<1>3. \A S \in SUBSET Names : Marks(S) \subseteq Marks(Names)
  BY DEF Marks
<1> QED BY <1>1, <1>2, <1>3

\* A drop has no address.
LEMMA DropHasNoAddress ==
  ASSUME RouterRecordsAssumption
  PROVE  (\A zones : ~InNetOf(Drop, zones)) /\ AddressOf(Drop) \notin DOMAIN Retarget
BY DEF RouterRecordsAssumption, InNetOf, AddressOf, Drop

LEMMA DnsTable ==
  ASSUME RouterRecordsAssumption, SourcesTyped, NEW t,
         t = [k \in (DOMAIN blocky) \cup (DOMAIN bind) \cup Marks(dropped) |->
                    IF k \in DOMAIN blocky THEN blocky[k]
                    ELSE IF k \in DOMAIN bind THEN bind[k]
                    ELSE [type |-> "NXDOMAIN", to |-> NoAddress]]
  PROVE  TableIs(t, VyosNames, OldAnswers, dropped)
<1>1. (DOMAIN blocky) \cup (DOMAIN bind) \subseteq Names /\ dropped \subseteq Names
  BY DEF SourcesTyped
<1>2. \A n \in Names : n \in DOMAIN t <=> n \in VyosNames
  BY NamesAndDrops, <1>1 DEF VyosNames
<1>3. \A n \in VyosNames : t[n] = OldAnswers[n]
  BY NamesAndDrops, <1>1 DEF VyosNames, OldAnswers, OldAnswer
<1>4. \A n \in Names : Mark(n) \in DOMAIN t <=> n \in dropped
  BY NamesAndDrops, <1>1
<1>5. \A n \in dropped : t[Mark(n)] = Drop
  BY NamesAndDrops, <1>1 DEF Drop
<1> QED BY <1>2, <1>3, <1>4, <1>5 DEF TableIs

LEMMA LeftTable ==
  ASSUME RouterRecordsAssumption, SourcesTyped, NEW t, TableIs(t, VyosNames, OldAnswers, dropped),
         NEW zones, zones = vlans \cap GoneZones
  PROVE  TableIs(Without(t, {k \in DOMAIN t : InNetOf(t[k], zones)}), LeftNames, OldAnswers, dropped)
<1> DEFINE u == Without(t, {k \in DOMAIN t : InNetOf(t[k], zones)})
<1>1. /\ DOMAIN u = {k \in DOMAIN t : ~InNetOf(t[k], zones)} /\ \A k \in DOMAIN u : u[k] = t[k]
      /\ dropped \subseteq Names
  BY DEF Without, SourcesTyped
<1>2. \A n \in VyosNames : n \in Names /\ OldAnswers[n] = OldAnswer(n)
  BY DEF VyosNames, OldAnswers
<1> HIDE DEF u
<1>3. \A n \in Names : n \in DOMAIN u <=> n \in LeftNames
  BY <1>1, <1>2 DEF TableIs, LeftNames
<1>4. \A n \in LeftNames : u[n] = OldAnswers[n]
  BY <1>1, <1>2, <1>3 DEF TableIs, LeftNames
<1>5. \A n \in Names : Mark(n) \in DOMAIN u <=> n \in dropped
  BY <1>1, DropHasNoAddress DEF TableIs
<1>6. \A n \in dropped : u[Mark(n)] = Drop
  BY <1>1, <1>5 DEF TableIs
<1> QED BY <1>3, <1>4, <1>5, <1>6 DEF TableIs, u

\* What RetargetRecords makes of a table.
Retargeted(t) ==
  LET moved == {k \in DOMAIN t : AddressOf(t[k]) \in DOMAIN Retarget}
      gone == {k \in moved : Retarget[t[k].to] = NoAddress} IN
  [k \in (DOMAIN t) \ gone |-> IF k \in moved THEN A(Retarget[t[k].to]) ELSE t[k]]

LEMMA HomedTable ==
  ASSUME RouterRecordsAssumption, SourcesTyped, NEW t, TableIs(t, LeftNames, OldAnswers, dropped)
  PROVE  TableIs(Retargeted(t), HomedNames, NewAnswers, dropped)
<1> DEFINE u == Retargeted(t)
           moved == {k \in DOMAIN t : AddressOf(t[k]) \in DOMAIN Retarget}
           gone == {k \in moved : Retarget[t[k].to] = NoAddress}
<1>0. u = [k \in (DOMAIN t) \ gone |-> IF k \in moved THEN A(Retarget[t[k].to]) ELSE t[k]]
  BY DEF Retargeted
<1> HIDE DEF u
<1>1. \A n \in LeftNames : n \in Names /\ OldAnswers[n] = OldAnswer(n) /\ NewAnswers[n] = NewAnswer(n)
  BY DEF LeftNames, VyosNames, OldAnswers, NewAnswers
<1>2. \A k \in moved : t[k].to = AddressOf(t[k])
  BY DEF AddressOf, RouterRecordsAssumption
<1>3. \A n \in Names : n \in DOMAIN u <=> n \in HomedNames
  BY <1>0, <1>1, <1>2 DEF TableIs, HomedNames
<1>4. \A n \in HomedNames : u[n] = NewAnswers[n]
  BY <1>0, <1>1, <1>2, <1>3 DEF TableIs, HomedNames, NewAnswer
<1>5. \A n \in dropped : Mark(n) \in DOMAIN t /\ t[Mark(n)] = Drop /\ Mark(n) \notin moved
  BY DropHasNoAddress DEF TableIs, SourcesTyped
<1>6. \A n \in Names : Mark(n) \in DOMAIN u <=> n \in dropped
  BY <1>0, <1>5 DEF TableIs
<1>7. \A n \in dropped : u[Mark(n)] = Drop
  BY <1>0, <1>5
<1> QED BY <1>3, <1>4, <1>6, <1>7 DEF TableIs, u

LEMMA DroppedTable ==
  ASSUME RouterRecordsAssumption, SourcesTyped, NEW t, TableIs(t, HomedNames, NewAnswers, dropped)
  PROVE  TableIs(Without(t, DropNames \cup Marks(DropNames)), HomedNames \ DropNames, NewAnswers,
                 dropped \ DropNames)
<1> DEFINE u == Without(t, DropNames \cup Marks(DropNames))
<1>1. /\ DOMAIN u = (DOMAIN t) \ (DropNames \cup Marks(DropNames))
      /\ \A k \in DOMAIN u : u[k] = t[k]
      /\ HomedNames \subseteq Names /\ dropped \subseteq Names /\ DropNames \subseteq Names
  BY DEF Without, HomedNames, LeftNames, VyosNames, SourcesTyped, RouterRecordsAssumption
<1> HIDE DEF u
<1>2. \A n \in Names : /\ n \in DropNames \cup Marks(DropNames) <=> n \in DropNames
                       /\ Mark(n) \in DropNames \cup Marks(DropNames) <=> n \in DropNames
  BY NamesAndDrops, <1>1
<1>3. \A n \in Names : n \in DOMAIN u <=> n \in HomedNames \ DropNames
  BY <1>1, <1>2 DEF TableIs
<1>4. \A n \in HomedNames \ DropNames : u[n] = NewAnswers[n]
  BY <1>1, <1>3 DEF TableIs
<1>5. \A n \in Names : Mark(n) \in DOMAIN u <=> n \in dropped \ DropNames
  BY <1>1, <1>2 DEF TableIs
<1>6. \A n \in dropped \ DropNames : u[Mark(n)] = Drop
  BY <1>1, <1>5 DEF TableIs
<1> QED BY <1>3, <1>4, <1>5, <1>6 DEF TableIs, u

LEMMA OutlivesIsHomed ==
  ASSUME NEW n \in Names
  PROVE  Outlives(n) <=> n \in HomedNames \ DropNames
BY DEF Outlives, HomedNames, LeftNames, VyosNames

\* What AddRecords makes of a table.
WithExtra(t) ==
  [k \in (DOMAIN t) \cup (DOMAIN ExtraRecords) |->
     IF k \in DOMAIN ExtraRecords THEN A(ExtraRecords[k]) ELSE t[k]]
AnswersOf(u) ==
  \A n \in Names :
    /\ n \in DOMAIN u <=> n \in DOMAIN ExtraRecords \/ Outlives(n)
    /\ n \in DOMAIN u =>
         u[n] = IF n \in DOMAIN ExtraRecords THEN A(ExtraRecords[n]) ELSE NewAnswer(n)
    /\ Mark(n) \in DOMAIN u <=> n \in dropped \ DropNames

LEMMA AnswersAfterExtra ==
  ASSUME RouterRecordsAssumption, NEW t, TableIs(t, HomedNames \ DropNames, NewAnswers, dropped \ DropNames)
  PROVE  AnswersOf(WithExtra(t))
<1> DEFINE u == WithExtra(t)
<1>0. u = [k \in (DOMAIN t) \cup (DOMAIN ExtraRecords) |->
             IF k \in DOMAIN ExtraRecords THEN A(ExtraRecords[k]) ELSE t[k]]
  BY DEF WithExtra
<1> HIDE DEF u
<1> SUFFICES ASSUME NEW n \in Names
             PROVE  /\ n \in DOMAIN u <=> n \in DOMAIN ExtraRecords \/ Outlives(n)
                    /\ n \in DOMAIN u =>
                         u[n] = IF n \in DOMAIN ExtraRecords THEN A(ExtraRecords[n]) ELSE NewAnswer(n)
                    /\ Mark(n) \in DOMAIN u <=> n \in dropped \ DropNames
  BY DEF AnswersOf, u
<1>1. Mark(n) \notin DOMAIN ExtraRecords
  BY NamesAndDrops DEF RouterRecordsAssumption
<1>2. NewAnswers[n] = NewAnswer(n)
  BY DEF NewAnswers
<1>3. /\ n \in DOMAIN t <=> n \in HomedNames \ DropNames
      /\ n \in HomedNames \ DropNames => t[n] = NewAnswer(n)
      /\ Mark(n) \in DOMAIN t <=> n \in dropped \ DropNames
  BY <1>2 DEF TableIs
<1>4. n \in DOMAIN u <=> n \in DOMAIN t \/ n \in DOMAIN ExtraRecords
  BY <1>0
<1>5. Mark(n) \in DOMAIN u <=> Mark(n) \in DOMAIN t
  BY <1>0, <1>1
<1>6. n \in DOMAIN u => u[n] = IF n \in DOMAIN ExtraRecords THEN A(ExtraRecords[n]) ELSE t[n]
  BY <1>0
<1> QED BY <1>3, <1>4, <1>5, <1>6, OutlivesIsHomed

-----------------------------------------------------------------------------
(* The invariant                                                               *)

\* The keys of a table and the kinds of its records.
Kinds(t) ==
  /\ DOMAIN t \subseteq Names \cup Marks(Names)
  /\ \A k \in DOMAIN t : t[k].type \in {"A", "CNAME", "NXDOMAIN"}

LEMMA RecordsInvInit == ASSUME RouterRecordsAssumption, RecordsInit PROVE RecordsInv
<1>1. RecordsTypeOK
  BY DEF RecordsInit, RouterRecordsAssumption, RecordsTypeOK, Passes, NoTable
<1>2. SourcesTyped
  BY DEF RecordsInit, SourcesTyped, NoTable
<1>3. AfterPass
  BY DEF RecordsInit, AfterPass
<1> QED BY <1>1, <1>2, <1>3 DEF RecordsInv

Parsers ==
  ParseInterfaces \/ ParseRules \/ ParseDhcp \/ ParseNat \/ ParseRoutes \/ ParseMapping
    \/ ParseBindZones \/ ParseDrops

LEMMA ParsersType == ASSUME RouterRecordsAssumption, RecordsInv, Parsers PROVE RecordsTypeOK'
<1>1. lines' \in 0 .. MaxLines /\ pass' = pass /\ pass = "read" /\ svis' = svis /\ static' = static
      /\ routes' = routes /\ dstnat' = dstnat
  BY DEF RecordsInv, RecordsTypeOK, RouterRecordsAssumption, Parsers, Line, ParseInterfaces, ParseRules,
         ParseDhcp, ParseNat, ParseRoutes, ParseMapping, ParseBindZones, ParseDrops
<1>2. vlans \subseteq vlans' /\ vlans' \subseteq VlanZones
  BY DEF RecordsInv, RecordsTypeOK, Parsers, ParseInterfaces, ParseRules,
         ParseDhcp, ParseNat, ParseRoutes, ParseMapping, ParseBindZones, ParseDrops
<1>3. pools' \subseteq VlanZones
  BY DEF RecordsInv, RecordsTypeOK, Parsers, ParseInterfaces, ParseRules,
         ParseDhcp, ParseNat, ParseRoutes, ParseMapping, ParseBindZones, ParseDrops
<1>4. live' \subseteq VlanZones
  BY DEF RecordsInv, RecordsTypeOK, Parsers, ParseInterfaces, ParseRules,
         ParseDhcp, ParseNat, ParseRoutes, ParseMapping, ParseBindZones, ParseDrops
<1>5. DOMAIN hops \subseteq DOMAIN hops'
  BY DEF With, Parsers, ParseInterfaces, ParseRules,
         ParseDhcp, ParseNat, ParseRoutes, ParseMapping, ParseBindZones, ParseDrops
<1> QED BY <1>1, <1>2, <1>3, <1>4, <1>5 DEF RecordsInv, RecordsTypeOK

LEMMA ParsersSources == ASSUME RouterRecordsAssumption, RecordsInv, Parsers PROVE SourcesTyped'
<1> USE DEF RecordsInv, SourcesTyped, Parsers, ParseInterfaces, ParseRules,
         ParseDhcp, ParseNat, ParseRoutes, ParseMapping, ParseBindZones, ParseDrops
<1>1. nat' \in Seq(NatLines)
  <2>1. nat \in Seq(NatLines) OBVIOUS
  <2>2. CASE nat' = nat BY <2>1, <2>2
  <2>3. CASE \E r \in NatLines : nat' = Append(nat, r)
    <3> PICK r \in NatLines : nat' = Append(nat, r) BY <2>3
    <3> DEFINE N == NatLines
    <3>1. nat \in Seq(N) /\ r \in N BY <2>1
    <3> HIDE DEF N
    <3>2. Append(nat, r) \in Seq(N) BY <3>1
    <3> QED BY <3>2 DEF N
  <2>4. nat' = nat \/ \E r \in NatLines : nat' = Append(nat, r) OBVIOUS
  <2> QED BY <2>2, <2>3, <2>4
<1>2. dropped' \subseteq Names
  OBVIOUS
<1>3. DOMAIN blocky' \subseteq Names /\ \A n \in DOMAIN blocky' : blocky'[n].type = "A"
  <2>1. CASE UNCHANGED blocky BY <2>1
  <2>2. CASE \E m \in Mappings : blocky' = With(blocky, m.name, A(m.to))
    <3> PICK m \in Mappings : blocky' = With(blocky, m.name, A(m.to)) BY <2>2
    <3>1. m.name \in Names BY DEF RouterRecordsAssumption
    <3> QED BY <3>1 DEF With, A
  <2>3. UNCHANGED blocky \/ \E m \in Mappings : blocky' = With(blocky, m.name, A(m.to))
    OBVIOUS
  <2> QED BY <2>1, <2>2, <2>3
<1>4. DOMAIN bind' \subseteq Names /\ \A n \in DOMAIN bind' : bind'[n].type \in {"A", "CNAME"}
  <2>1. CASE UNCHANGED bind BY <2>1
  <2>2. CASE \E b \in BindLines : bind' = With(bind, b.name, [type |-> b.type, to |-> b.to])
    <3> PICK b \in BindLines : bind' = With(bind, b.name, [type |-> b.type, to |-> b.to]) BY <2>2
    <3>1. b.name \in Names /\ b.type \in {"A", "CNAME"} BY DEF RouterRecordsAssumption
    <3> QED BY <3>1 DEF With
  <2>3. UNCHANGED bind \/ \E b \in BindLines : bind' = With(bind, b.name, [type |-> b.type, to |-> b.to])
    OBVIOUS
  <2> QED BY <2>1, <2>2, <2>3
<1> QED BY <1>1, <1>2, <1>3, <1>4 DEF SourcesTyped

\* A parser leaves the pass at "read".
LEMMA ParsersInv == ASSUME RouterRecordsAssumption, RecordsInv, Parsers PROVE RecordsInv'
<1>1. pass' = "read"
  BY DEF Parsers, Line, ParseInterfaces, ParseRules,
         ParseDhcp, ParseNat, ParseRoutes, ParseMapping, ParseBindZones, ParseDrops
<1>2. AfterPass'
  BY <1>1 DEF AfterPass
<1> QED BY <1>2, ParsersType, ParsersSources DEF RecordsInv

\* The passes leave what was read as it is.
LEMMA SourcesStay ==
  ASSUME UNCHANGED sourceVars
  PROVE  /\ SourcesTyped => SourcesTyped'
         /\ VyosNames' = VyosNames /\ LeftNames' = LeftNames /\ HomedNames' = HomedNames
         /\ OldAnswers' = OldAnswers /\ NewAnswers' = NewAnswers
         /\ lines' = lines /\ vlans' = vlans /\ pools' = pools /\ live' = live /\ hops' = hops
         /\ dropped' = dropped /\ nat' = nat
<1> USE DEF sourceVars
<1>1. SourcesTyped => SourcesTyped'
  BY DEF SourcesTyped
<1>2. VyosNames' = VyosNames
  BY DEF VyosNames
<1>3. LeftNames' = LeftNames
  BY <1>2 DEF LeftNames, OldAnswer
<1>4. HomedNames' = HomedNames
  BY <1>3 DEF HomedNames, OldAnswer
<1>5. OldAnswers' = OldAnswers
  BY DEF OldAnswers, OldAnswer
<1>6. NewAnswers' = NewAnswers
  BY DEF NewAnswers, NewAnswer, OldAnswer
<1> QED BY <1>1, <1>2, <1>3, <1>4, <1>5, <1>6

NamesAlike ==
  \A n \in Names :
    /\ n \in DOMAIN static <=> n \in DOMAIN ExtraRecords \/ Outlives(n)
    /\ n \in DOMAIN static =>
         static[n] = IF n \in DOMAIN ExtraRecords THEN A(ExtraRecords[n]) ELSE NewAnswer(n)
DropsAlike == \A n \in Names : Mark(n) \in DOMAIN static <=> n \in dropped \ DropNames

LEMMA AnswersStay ==
  ASSUME UNCHANGED sourceVars, UNCHANGED static, AnswersAlike PROVE AnswersAlike'
<1>1. static' = static /\ dropped' = dropped
  BY DEF sourceVars
<1>2. \A n \in Names : (Outlives(n)' <=> Outlives(n)) /\ NewAnswer(n)' = NewAnswer(n)
  BY DEF sourceVars, Outlives, NewAnswer, OldAnswer
<1>3. NamesAlike /\ DropsAlike
  BY Zenon DEF AnswersAlike, NamesAlike, DropsAlike, Mark
<1>4. NamesAlike'
  BY <1>1, <1>2, <1>3 DEF NamesAlike
<1>5. DropsAlike'
  BY <1>1, <1>3 DEF DropsAlike
<1> QED BY <1>4, <1>5, Zenon DEF AnswersAlike, NamesAlike, DropsAlike, Mark

LEMMA RoutesStay ==
  ASSUME UNCHANGED sourceVars, UNCHANGED routes, RoutesAlike PROVE RoutesAlike'
BY DEF sourceVars, RoutesAlike

SameRedirects(zones, old, new) ==
  \A z \in zones, src \in Addresses \ RetiredHosts, dst \in Addresses \ Resolvers, proto \in {"tcp", "udp"} :
     LET p == [zone |-> z, src |-> src, dst |-> dst, proto |-> proto]
         to == Redirected(old, DeadHops, p)
     IN  Redirected(new, {}, p) = IF to \in Resolvers THEN Router ELSE to

LEMMA RedirectsStay ==
  ASSUME UNCHANGED sourceVars, UNCHANGED <<svis, dstnat>>, RedirectsAlike PROVE RedirectsAlike'
<1>1. svis' = svis /\ nat' = nat /\ dstnat' = dstnat
  BY DEF sourceVars
<1>2. SameRedirects(DOMAIN svis, nat, dstnat)
  BY DEF RedirectsAlike, SameRedirects
<1>3. SameRedirects(DOMAIN svis', nat', dstnat')
  BY <1>1, <1>2
<1> QED BY <1>3 DEF RedirectsAlike, SameRedirects

\* What a pass has to leave of the types.
LEMMA PassType ==
  ASSUME RecordsInv, UNCHANGED sourceVars, pass' \in Passes, DOMAIN svis' \subseteq vlans,
         DOMAIN routes' \subseteq DOMAIN hops, Kinds(static'),
         dstnat' # <<>> => pass' \in {"peers", "written", "refused"}
  PROVE  RecordsTypeOK' /\ SourcesTyped'
<1>1. RecordsTypeOK'
  BY DEF RecordsInv, RecordsTypeOK, sourceVars, Kinds, Marks
<1> QED BY <1>1, SourcesStay DEF RecordsInv

\* The records keep their kinds when some of them go.
LEMMA WithoutKinds == ASSUME NEW t, Kinds(t), NEW ks PROVE Kinds(Without(t, ks))
BY DEF Kinds, Without

LEMMA ParseDnsInv == ASSUME RouterRecordsAssumption, RecordsInv, ParseDns PROVE RecordsInv'
<1> USE DEF ParseDns
<1>1. static' = [k \in (DOMAIN blocky) \cup (DOMAIN bind) \cup Marks(dropped) |->
                    IF k \in DOMAIN blocky THEN blocky[k]
                    ELSE IF k \in DOMAIN bind THEN bind[k]
                    ELSE [type |-> "NXDOMAIN", to |-> NoAddress]]
  BY DEF Marks
<1>2. SourcesTyped
  BY DEF RecordsInv
<1>3. TableIs(static', VyosNames, OldAnswers, dropped)
  BY <1>1, <1>2, DnsTable
<1>4. Kinds(static')
  <2>1. Marks(dropped) \subseteq Marks(Names) BY <1>2 DEF SourcesTyped, Marks
  <2>2. DOMAIN blocky \subseteq Names /\ DOMAIN bind \subseteq Names
        /\ (\A n \in DOMAIN blocky : blocky[n].type = "A")
        /\ (\A n \in DOMAIN bind : bind[n].type \in {"A", "CNAME"})
    BY <1>2 DEF SourcesTyped
  <2> DEFINE all == (DOMAIN blocky) \cup (DOMAIN bind) \cup Marks(dropped)
  <2>3. DOMAIN static' = all /\ all \subseteq Names \cup Marks(Names)
    BY <1>1, <2>1, <2>2
  <2>4. ASSUME NEW k \in all PROVE static'[k].type \in {"A", "CNAME", "NXDOMAIN"}
    <3>1. CASE k \in DOMAIN blocky BY <1>1, <2>2, <3>1
    <3>2. CASE k \notin DOMAIN blocky /\ k \in DOMAIN bind BY <1>1, <2>2, <3>2
    <3>3. CASE k \notin DOMAIN blocky /\ k \notin DOMAIN bind BY <1>1, <3>3
    <3> QED BY <3>1, <3>2, <3>3
  <2> QED BY <2>3, <2>4 DEF Kinds
<1>5. RecordsTypeOK' /\ SourcesTyped'
  BY <1>4, PassType DEF RecordsInv, RecordsTypeOK, Passes
<1>6. AfterPass'
  BY <1>3, SourcesStay DEF AfterPass
<1> QED BY <1>5, <1>6 DEF RecordsInv

LEMMA AttachDhcpInv == ASSUME RouterRecordsAssumption, RecordsInv, AttachDhcp PROVE RecordsInv'
<1> USE DEF AttachDhcp
<1>1. Kinds(static) /\ DOMAIN svis' = vlans
  BY DEF RecordsInv, RecordsTypeOK, Kinds, Marks
<1>2. RecordsTypeOK' /\ SourcesTyped'
  BY <1>1, PassType DEF RecordsInv, RecordsTypeOK, Passes
<1>3. AfterPass'
  BY <1>1, SourcesStay DEF AfterPass, RecordsInv
<1> QED BY <1>2, <1>3 DEF RecordsInv

LEMMA RefuseLeasesInv == ASSUME RouterRecordsAssumption, RecordsInv, RefuseLeases PROVE RecordsInv'
<1> USE DEF RefuseLeases
<1>1. Kinds(static)
  BY DEF RecordsInv, RecordsTypeOK, Kinds, Marks
<1>2. RecordsTypeOK' /\ SourcesTyped'
  BY <1>1, PassType DEF RecordsInv, RecordsTypeOK, Passes
<1>3. AfterPass'
  BY DEF AfterPass
<1> QED BY <1>2, <1>3 DEF RecordsInv

LEMMA RetireZonesInv == ASSUME RouterRecordsAssumption, RecordsInv, RetireZones PROVE RecordsInv'
<1> USE DEF RetireZones
<1>1. /\ Kinds(static) /\ DOMAIN svis = vlans /\ SourcesTyped
      /\ TableIs(static, VyosNames, OldAnswers, dropped)
  BY DEF RecordsInv, RecordsTypeOK, AfterPass, Kinds, Marks
<1>2. DOMAIN svis' = vlans \ GoneZones
  BY <1>1 DEF Without
<1>3. Kinds(static')
  BY <1>1, WithoutKinds
<1>4. TableIs(static', LeftNames, OldAnswers, dropped)
  BY <1>1, LeftTable
<1>5. RecordsTypeOK' /\ SourcesTyped'
  BY <1>2, <1>3, PassType DEF RecordsInv, RecordsTypeOK, Passes
<1>6. AfterPass'
  BY <1>2, <1>4, SourcesStay DEF AfterPass
<1> QED BY <1>5, <1>6 DEF RecordsInv

LEMMA RetargetRecordsInv == ASSUME RouterRecordsAssumption, RecordsInv, RetargetRecords PROVE RecordsInv'
<1> USE DEF RetargetRecords
<1> DEFINE moved == {k \in DOMAIN static : AddressOf(static[k]) \in DOMAIN Retarget}
           gone == {k \in moved : Retarget[static[k].to] = NoAddress}
<1>1. /\ Kinds(static) /\ DOMAIN svis = vlans \ GoneZones /\ SourcesTyped
      /\ TableIs(static, LeftNames, OldAnswers, dropped)
  BY DEF RecordsInv, RecordsTypeOK, AfterPass, Kinds, Marks
<1>2. static' = [k \in (DOMAIN static) \ gone |->
                    IF k \in moved THEN A(Retarget[static[k].to]) ELSE static[k]]
  OBVIOUS
<1>3. Kinds(static')
  BY <1>1, <1>2 DEF Kinds, A
<1>4. TableIs(static', HomedNames, NewAnswers, dropped)
  <2>1. static' = Retargeted(static)
    BY DEF Retargeted
  <2> QED BY <1>1, <2>1, HomedTable
<1>5. RecordsTypeOK' /\ SourcesTyped'
  BY <1>1, <1>3, PassType DEF RecordsInv, RecordsTypeOK, Passes
<1>6. AfterPass'
  BY <1>1, <1>4, SourcesStay DEF AfterPass
<1> QED BY <1>5, <1>6 DEF RecordsInv

LEMMA DropRecordsInv == ASSUME RouterRecordsAssumption, RecordsInv, DropRecords PROVE RecordsInv'
<1> USE DEF DropRecords
<1>1. /\ Kinds(static) /\ DOMAIN svis = vlans \ GoneZones /\ SourcesTyped
      /\ TableIs(static, HomedNames, NewAnswers, dropped)
  BY DEF RecordsInv, RecordsTypeOK, AfterPass, Kinds, Marks
<1>2. static' = Without(static, DropNames \cup Marks(DropNames))
  BY DEF Marks
<1>3. Kinds(static')
  BY <1>1, <1>2, WithoutKinds
<1>4. TableIs(static', HomedNames \ DropNames, NewAnswers, dropped \ DropNames)
  BY <1>1, <1>2, DroppedTable
<1>5. RecordsTypeOK' /\ SourcesTyped'
  BY <1>1, <1>3, PassType DEF RecordsInv, RecordsTypeOK, Passes
<1>6. AfterPass'
  BY <1>1, <1>4, SourcesStay DEF AfterPass
<1> QED BY <1>5, <1>6 DEF RecordsInv

LEMMA AddRecordsInv == ASSUME RouterRecordsAssumption, RecordsInv, AddRecords PROVE RecordsInv'
<1> USE DEF AddRecords
<1>1. /\ Kinds(static) /\ DOMAIN svis = vlans \ GoneZones /\ SourcesTyped
      /\ TableIs(static, HomedNames \ DropNames, NewAnswers, dropped \ DropNames)
  BY DEF RecordsInv, RecordsTypeOK, AfterPass, Kinds, Marks
<1>2. static' = [k \in (DOMAIN static) \cup (DOMAIN ExtraRecords) |->
                    IF k \in DOMAIN ExtraRecords THEN A(ExtraRecords[k]) ELSE static[k]]
  OBVIOUS
<1>3. Kinds(static')
  BY <1>1, <1>2 DEF Kinds, A, RouterRecordsAssumption
<1>4. AnswersOf(static')
  <2>1. static' = WithExtra(static)
    BY DEF WithExtra
  <2> QED BY <1>1, <2>1, AnswersAfterExtra
<1>5. AnswersAlike'
  <2>1. \A n \in Names : (Outlives(n)' <=> Outlives(n)) /\ NewAnswer(n)' = NewAnswer(n)
    BY DEF sourceVars, Outlives, NewAnswer, OldAnswer
  <2>2. NamesAlike' /\ DropsAlike'
    BY <1>4, <2>1 DEF AnswersOf, NamesAlike, DropsAlike, sourceVars
  <2> QED BY <2>2, Zenon DEF AnswersAlike, NamesAlike, DropsAlike, Mark
<1>6. RecordsTypeOK' /\ SourcesTyped'
  BY <1>1, <1>3, PassType DEF RecordsInv, RecordsTypeOK, Passes
<1>7. AfterPass'
  BY <1>1, <1>5, SourcesStay DEF AfterPass
<1> QED BY <1>6, <1>7 DEF RecordsInv

LEMMA PruneRoutesInv == ASSUME RouterRecordsAssumption, RecordsInv, PruneRoutes PROVE RecordsInv'
<1> USE DEF PruneRoutes
<1>1. Kinds(static) /\ DOMAIN svis = vlans \ GoneZones /\ AnswersAlike
  BY DEF RecordsInv, RecordsTypeOK, AfterPass, Kinds, Marks
<1>2. RoutesAlike' /\ DOMAIN routes' \subseteq DOMAIN hops
  BY DEF RoutesAlike, Without, sourceVars
<1>3. RecordsTypeOK' /\ SourcesTyped'
  BY <1>1, <1>2, PassType DEF RecordsInv, RecordsTypeOK, Passes
<1>4. AnswersAlike'
  BY <1>1, AnswersStay
<1>5. AfterPass'
  BY <1>1, <1>2, <1>4, SourcesStay DEF AfterPass
<1> QED BY <1>3, <1>5 DEF RecordsInv

LEMMA TranslateNatInv == ASSUME RouterRecordsAssumption, RecordsInv, TranslateNat PROVE RecordsInv'
<1> USE DEF TranslateNat
<1>1. /\ Kinds(static) /\ DOMAIN svis = vlans \ GoneZones /\ SourcesTyped /\ AnswersAlike /\ RoutesAlike
      /\ DOMAIN svis \subseteq vlans /\ DOMAIN routes \subseteq DOMAIN hops
  BY DEF RecordsInv, RecordsTypeOK, AfterPass, Kinds, Marks
<1>2. dstnat' = FlattenSeq(Parts)
  BY DEF Parts
<1>3. AsFarAs(Len(nat), dstnat')
  BY <1>1, <1>2, AllRules DEF SourcesTyped
<1>4. \A p : Packet(p) => Redirected(dstnat', {}, p) = Moved(Redirected(nat, DeadHops, p))
  BY <1>1, <1>3, RedirectsTheSame DEF SourcesTyped
<1>5. RedirectsAlike'
  <2>1. svis' = svis /\ nat' = nat BY DEF sourceVars
  <2>2. \A z \in DOMAIN svis, src \in Addresses \ RetiredHosts, dst \in Addresses \ Resolvers,
           proto \in {"tcp", "udp"} : Packet([zone |-> z, src |-> src, dst |-> dst, proto |-> proto])
    BY DEF Packet
  <2> QED BY <1>4, <2>1, <2>2 DEF RedirectsAlike, Moved
<1>6. \A i \in DOMAIN dstnat' : dstnat'[i].zone \in DOMAIN svis
  <2>1. DOMAIN dstnat' = 1 .. Len(dstnat') BY <1>3 DEF AsFarAs
  <2> QED BY <1>3, <2>1 DEF AsFarAs
<1>7. RecordsTypeOK' /\ SourcesTyped'
  BY <1>1, PassType DEF Passes
<1>8. AnswersAlike' /\ RoutesAlike'
  BY <1>1, AnswersStay, RoutesStay
<1>9. AfterPass'
  BY <1>1, <1>5, <1>6, <1>8, SourcesStay DEF AfterPass
<1> QED BY <1>7, <1>9 DEF RecordsInv

LEMMA RekeyPeersInv == ASSUME RouterRecordsAssumption, RecordsInv, RekeyPeers PROVE RecordsInv'
<1> USE DEF RekeyPeers
<1>1. /\ Kinds(static) /\ DOMAIN svis = vlans \ GoneZones /\ AnswersAlike /\ RoutesAlike /\ RedirectsAlike
      /\ DOMAIN svis \subseteq vlans /\ DOMAIN routes \subseteq DOMAIN hops
      /\ \A i \in DOMAIN dstnat : dstnat[i].zone \in DOMAIN svis
  BY DEF RecordsInv, RecordsTypeOK, AfterPass, Kinds, Marks
<1>2. pass' \in {"written", "refused"} /\ svis' = svis /\ dstnat' = dstnat /\ vlans' = vlans
  BY DEF sourceVars
<1>3. RecordsTypeOK' /\ SourcesTyped'
  BY <1>1, <1>2, PassType DEF Passes
<1>4. AnswersAlike' /\ RoutesAlike' /\ RedirectsAlike'
  BY <1>1, AnswersStay, RoutesStay, RedirectsStay
<1>5. AfterPass'
  BY <1>1, <1>2, <1>4 DEF AfterPass
<1> QED BY <1>3, <1>5 DEF RecordsInv

LEMMA RecordsStutter == ASSUME RecordsInv, UNCHANGED recordVars PROVE RecordsInv'
<1> USE DEF recordVars
<1>1. RecordsTypeOK' /\ SourcesTyped'
  BY SourcesStay DEF RecordsInv, RecordsTypeOK, sourceVars
<1>2. pass' = pass /\ static' = static /\ svis' = svis /\ dstnat' = dstnat /\ AfterPass
  BY DEF RecordsInv
<1>3. /\ AnswersAlike => AnswersAlike'
      /\ RoutesAlike => RoutesAlike'
      /\ RedirectsAlike => RedirectsAlike'
  BY AnswersStay, RoutesStay, RedirectsStay
<1>4. AfterPass'
  BY <1>2, <1>3, SourcesStay DEF AfterPass
<1> QED BY <1>1, <1>4 DEF RecordsInv

LEMMA RecordsInvNext == ASSUME RecordsInv, [RecordsNext]_recordVars PROVE RecordsInv'
<1>1. RouterRecordsAssumption
  BY RouterRecordsAssumption
<1> QED
  BY <1>1, ParsersInv, ParseDnsInv, AttachDhcpInv, RefuseLeasesInv, RetireZonesInv, RetargetRecordsInv,
     DropRecordsInv, AddRecordsInv, PruneRoutesInv, TranslateNatInv, RekeyPeersInv, RecordsStutter
     DEF RecordsNext, Parsers, RecordsDone

LEMMA RecordsInvCorrect == RecordsSpec => []RecordsInv
<1>1. RecordsInit => RecordsInv
  BY RecordsInvInit, RouterRecordsAssumption
<1> QED BY <1>1, RecordsInvNext, PTL DEF RecordsSpec

(* Every state has its types (vyos-to-locals.py: what the parsers read and the passes leave). *)
THEOREM RecordsTypeCorrect == RecordsSpec => []RecordsTypeOK
<1>1. RecordsInv => RecordsTypeOK
  BY DEF RecordsInv
<1> QED BY <1>1, RecordsInvCorrect, PTL

(* Whatever VyOS's configuration and the tables of the generator are, the configuration it
   writes keeps every name, redirect and route that isn't retired, and nothing retired
   (vyos-to-locals.py main and the passes it calls). *)
THEOREM KeepsWhatIsLeftCorrect == RecordsSpec => []KeepsWhatIsLeft
<1>1. RecordsInv => KeepsWhatIsLeft
  BY DEF RecordsInv, AfterPass, KeepsWhatIsLeft
<1> QED BY <1>1, RecordsInvCorrect, PTL

=============================================================================
