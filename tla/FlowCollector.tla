--------------------------- MODULE FlowCollector ---------------------------
(***************************************************************************)
(* The flow collector (flow_collector.py): one thread receives NetFlow,    *)
(* IPFIX and sFlow packets over UDP and counts bytes per series, the       *)
(* threads of the HTTP server render the counters and forget series that   *)
(* went quiet.                                                             *)
(*                                                                         *)
(* Packets are lost, delayed, duplicated and overtaken, the pod is         *)
(* replaced; templates and counters are in memory only. A data set says    *)
(* nothing of its layout: the template with its id does, the last one that *)
(* came from any exporter with the same version and observation domain. An *)
(* exporter may change the layout behind an id. sFlow and NetFlow v5 have  *)
(* a fixed layout. Series don't interact, and the model follows one.       *)
(***************************************************************************)
EXTENDS Naturals, Sequences, FiniteSets

CONSTANTS
    Exporters,   \* routers
    Domain,      \* [Exporters -> version and observation domain], shared or not
    TemplateId,  \* [Exporters -> Nat]: the template an exporter uses
    Layouts,     \* [Exporters -> sets of layouts]: those it may use, the first in FirstLayout
    FirstLayout,
    Garbled,     \* what data sets read with another layout may give
    Lan,         \* LAN addresses (LAN_NETS)
    Sets,        \* [Exporters -> data sets, sequences of [src, dst, post, bytes]]
    Sampled, Fixed, \* the contents of sFlow and of NetFlow v5 packets
    Watched,     \* the series: [direction, client, remote]
    Ttl, Gap,    \* SERIES_TTL_SECONDS and the time between Prometheus's scrapes, in ticks
    MaxFlowFaults, \* bound: bad, lost or duplicated packets, failed lookups,
                   \* restarts, changed layouts
    MaxPassing,  \* bound: packets on their way at once, the templates and the data
                 \* of exporters with a key of their own apart
    NoAddress, Unscraped, Scraped, Absent

ASSUME FlowAssumption ==
    /\ TemplateId \in [Exporters -> Nat]
    /\ \A e \in Exporters : FirstLayout[e] \in Layouts[e] /\ Absent \notin Layouts[e]
    /\ MaxPassing \in Nat
    /\ Ttl \in Nat /\ Gap \in Nat /\ Gap < Ttl
    /\ MaxFlowFaults \in Nat
    /\ NoAddress \notin Lan
    /\ Absent # Unscraped /\ Absent # Scraped /\ Unscraped # Scraped

VARIABLES
    net,        \* packets on their way, one of each at most
    layout,     \* the layout each exporter uses now
    templates,  \* TEMPLATES: [domain, id -> layout]
    rx, records,  \* flow_loop: where it is, and the records left of the packet
    series,     \* COUNTERS[Watched]: Absent, or whether Prometheus has seen all of it
    seen,       \* age of its last_seen
    sinceScrape, flowFaults

flowVars == <<net, layout, templates, rx, records, series, seen, sinceScrape, flowFaults>>

Template(e, l) == [kind |-> "template", from |-> e, layout |-> l, flows |-> <<>>]
Data(e, l, fs) == [kind |-> "data", from |-> e, layout |-> l, flows |-> fs]
Plain(k, fs) == [kind |-> k, from |-> NoAddress, layout |-> Absent, flows |-> fs]
Malformed == Plain("malformed", <<>>)
PlainPackets == {Malformed} \cup {Plain("sflow", fs) : fs \in Sampled}
                    \cup {Plain("netflow5", fs) : fs \in Fixed}
FromExporter(e) == {Template(e, l) : l \in Layouts[e]}
                       \cup {Data(e, l, fs) : l \in Layouts[e], fs \in Sets[e]}
Packets == PlainPackets \cup UNION {FromExporter(e) : e \in Exporters}

\* No other exporter has this one's version, domain and template id.
Alone(e) ==
    \A f \in Exporters \ {e} : <<Domain[f], TemplateId[f]>> # <<Domain[e], TemplateId[e]>>
Passing == PlainPackets \cup UNION {FromExporter(e) : e \in {f \in Exporters : ~Alone(f)}}

AllLayouts == UNION {Layouts[e] : e \in Exporters}
TemplateKeys == {Domain[e] : e \in Exporters} \X {TemplateId[e] : e \in Exporters}

\* Mutant: the template's id alone.
KeyOfId(e) == <<Domain[CHOOSE x \in Exporters : TRUE], TemplateId[e]>>

\* The key of TEMPLATES: version, observation domain and id. Who sent the packet
\* is not in it: flow_loop drops the address.
KeyOf(e) == <<Domain[e], TemplateId[e]>>

FlowTypeOK ==
    /\ net \subseteq Packets
    /\ layout \in [Exporters -> AllLayouts] /\ \A e \in Exporters : layout[e] \in Layouts[e]
    /\ templates \in [TemplateKeys -> AllLayouts \cup {Absent}]
    /\ rx \in {"recv", "count"}
    /\ rx = "recv" => records = <<>>
    /\ series \in {Absent, Unscraped, Scraped} /\ seen \in 0 .. Ttl + 1
    /\ sinceScrape \in 0 .. Gap
    /\ flowFaults \in 0 .. MaxFlowFaults

FlowInit ==
    /\ net = {} /\ layout = [e \in Exporters |-> FirstLayout[e]]
    /\ templates = [k \in TemplateKeys |-> Absent]
    /\ rx = "recv" /\ records = <<>>
    /\ series = Absent /\ seen = 0
    /\ sinceScrape = 0 /\ flowFaults = 0

FlowFault == flowFaults < MaxFlowFaults /\ flowFaults' = flowFaults + 1

-----------------------------------------------------------------------------
(* account                                                                 *)

\* The client, the remote end and the direction of a flow with exactly one LAN
\* endpoint; a download seen before NAT is undone has its client in the
\* post-NAT destination. Other flows are ignored.
SeriesOf(f) ==
    LET dst == IF f.src \notin Lan /\ f.dst \notin Lan /\ f.post \in Lan THEN f.post ELSE f.dst
    IN
    IF f.bytes = 0 \/ (f.src \in Lan) = (dst \in Lan) THEN NoAddress
    ELSE IF f.src \in Lan
    THEN [direction |-> "transmit", client |-> f.src, remote |-> dst]
    ELSE [direction |-> "receive", client |-> dst, remote |-> f.src]

\* Mutant: only a new series gets its time.
CountOldTime(f) ==
    IF SeriesOf(f) = Watched
    THEN series' = Unscraped /\ seen' = (IF series = Absent THEN 0 ELSE seen)
    ELSE UNCHANGED <<series, seen>>

\* COUNTERS[key] under LOCK, with the time the packet was received (the same tick).
Count(f) ==
    IF SeriesOf(f) = Watched THEN series' = Unscraped /\ seen' = 0
    ELSE UNCHANGED <<series, seen>>

-----------------------------------------------------------------------------
(* flow_loop and handle_packet                                             *)

\* A packet in hand has left the network, unless it comes once more.
Arrives(p) ==
    /\ rx = "recv" /\ p \in net
    /\ \/ net' = net \ {p} /\ UNCHANGED flowFaults
       \/ net' = net /\ FlowFault

ReceiveTemplate(p) ==
    /\ Arrives(p) /\ p.kind = "template"
    /\ templates' = [templates EXCEPT ![KeyOf(p.from)] = p.layout]
    /\ UNCHANGED <<layout, rx, records, series, seen, sinceScrape>>

\* A data set is read with the layout that is there now; without one it is dropped
\* (missing_template).
ReceiveData(p) ==
    /\ Arrives(p) /\ p.kind = "data"
    /\ LET known == templates[KeyOf(p.from)]
       IN  \/ known = Absent /\ UNCHANGED <<rx, records>>
           \/ known = p.layout /\ rx' = "count" /\ records' = p.flows
           \/ known \notin {Absent, p.layout} /\ rx' = "count" /\ records' \in Garbled
    /\ UNCHANGED <<layout, templates, series, seen, sinceScrape>>

\* handle_sflow: the sampled headers that are IPv4; NAT is not undone in them.
IsIpv4(f) == f.src # NoAddress
ReceiveSflow(p) ==
    /\ Arrives(p) /\ p.kind = "sflow"
    /\ rx' = "count" /\ records' = SelectSeq(p.flows, IsIpv4)
    /\ UNCHANGED <<layout, templates, series, seen, sinceScrape>>

ReceiveNetflow5(p) ==
    /\ Arrives(p) /\ p.kind = "netflow5"
    /\ rx' = "count" /\ records' = p.flows
    /\ UNCHANGED <<layout, templates, series, seen, sinceScrape>>

CountRecord ==
    /\ rx = "count" /\ records # <<>>
    /\ Count(Head(records)) /\ records' = Tail(records)
    /\ UNCHANGED <<net, layout, templates, rx, sinceScrape, flowFaults>>

SetDone ==
    /\ rx = "count" /\ records = <<>> /\ rx' = "recv"
    /\ UNCHANGED <<net, layout, templates, records, series, seen, sinceScrape, flowFaults>>

\* Mutant: the exception ends the thread.
DecodeErrorDies ==
    /\ \/ \E p \in net : rx = "recv" /\ p.kind = "malformed" /\ net' = net \ {p} /\ UNCHANGED flowFaults
       \/ rx = "count" /\ records # <<>> /\ FlowFault /\ UNCHANGED net
    /\ rx' = "dead" /\ records' = <<>>
    /\ UNCHANGED <<layout, templates, series, seen, sinceScrape>>

\* A packet that doesn't decode, or a lookup that raises half way: what was
\* counted stays counted, the rest of the packet is dropped, the loop goes on.
DecodeError ==
    /\ \/ \E p \in net : rx = "recv" /\ p.kind = "malformed" /\ net' = net \ {p} /\ UNCHANGED flowFaults
       \/ rx = "count" /\ records # <<>> /\ FlowFault /\ UNCHANGED net
    /\ rx' = "recv" /\ records' = <<>>
    /\ UNCHANGED <<layout, templates, series, seen, sinceScrape>>

-----------------------------------------------------------------------------
(* render, time, the network and the pod                                   *)

\* Under LOCK: series not seen for the TTL are dropped, then the rest is copied.
\* Prometheus scrapes every Gap, a person may ask at any time.
Expire == seen > Ttl

Render(prometheus) ==
    /\ series' = IF series = Absent \/ Expire THEN Absent
                 ELSE IF prometheus THEN Scraped ELSE series
    /\ seen' = IF series' = Absent THEN 0 ELSE seen
    /\ sinceScrape' = IF prometheus THEN 0 ELSE sinceScrape
    /\ UNCHANGED <<net, layout, templates, rx, records, flowFaults>>

\* A packet in hand is counted within the tick.
FlowTick ==
    /\ sinceScrape < Gap /\ rx # "count"
    /\ sinceScrape' = sinceScrape + 1
    /\ seen' = IF series = Absent \/ seen = Ttl + 1 THEN seen ELSE seen + 1
    /\ UNCHANGED <<net, layout, templates, rx, records, series, flowFaults>>

\* Exporters write their sets with the layout they use now, and send every
\* template again and again.
Send(p) ==
    /\ p \notin net /\ net' = net \cup {p}
    /\ p \in Passing => Cardinality(net \cap Passing) < MaxPassing
    /\ p.from \in Exporters => p.layout = layout[p.from]
    /\ IF p.kind = "malformed" THEN FlowFault ELSE UNCHANGED flowFaults
    /\ UNCHANGED <<layout, templates, rx, records, series, seen, sinceScrape>>

Lose(p) ==
    /\ p \in net /\ FlowFault /\ net' = net \ {p}
    /\ UNCHANGED <<layout, templates, rx, records, series, seen, sinceScrape>>

\* A router is updated or set up anew: the same id, another layout.
Redefine(e) ==
    /\ FlowFault
    /\ \E l \in Layouts[e] \ {layout[e]} : layout' = [layout EXCEPT ![e] = l]
    /\ UNCHANGED <<net, templates, rx, records, series, seen, sinceScrape>>

FlowRestart ==
    /\ FlowFault /\ templates' = [k \in TemplateKeys |-> Absent]
    /\ rx' = "recv" /\ records' = <<>> /\ series' = Absent /\ seen' = 0
    /\ UNCHANGED <<net, layout, sinceScrape>>

FlowNext ==
    \/ \E p \in Packets : \/ ReceiveTemplate(p) \/ ReceiveData(p) \/ ReceiveSflow(p)
                          \/ ReceiveNetflow5(p) \/ Send(p) \/ Lose(p)
    \/ CountRecord \/ SetDone \/ DecodeError
    \/ \E prometheus \in BOOLEAN : Render(prometheus)
    \/ \E e \in Exporters : Redefine(e)
    \/ FlowTick \/ FlowRestart

OnTheirOwn == {e \in Exporters : Alone(e)}

\* Exporters send their templates and their flows again and again, and the thread
\* runs. Nothing is asked of those that share a key.
FlowFair ==
    /\ WF_flowVars((CountRecord \/ SetDone))
    /\ \A e \in OnTheirOwn :
        /\ WF_flowVars(Send(Template(e, layout[e])))
        /\ WF_flowVars((\E fs \in Sets[e] : Send(Data(e, layout[e], fs))))

\* What is sent again and again arrives again and again.
Delivers ==
    \A e \in OnTheirOwn :
        /\ SF_flowVars(ReceiveTemplate(Template(e, layout[e])))
        /\ SF_flowVars((\E fs \in Sets[e] : ReceiveData(Data(e, layout[e], fs))))

FlowSpec == FlowInit /\ [][FlowNext]_flowVars /\ FlowFair

-----------------------------------------------------------------------------
(* Properties                                                              *)

\* An exporter whose version, domain and id no other one has comes to be read with
\* its own layout for good: after stale, lost or duplicated templates, a restart,
\* a changed layout, and beside exporters that overwrite each other's. Those that
\* share a key are misread for good (flow_collector.py:343, :349).
LayoutsSettle ==
    Delivers =>
        <>[][\A p \in net : p.from \in OnTheirOwn /\ p.kind = "data" /\ ReceiveData(p) =>
                templates[KeyOf(p.from)] = p.layout]_flowVars

\* Forgetting quiet series loses no bytes: as long as Prometheus scrapes more
\* often than the TTL, a series is only dropped when all that was counted in it
\* has been scraped, the loss of the pod apart (flow_collector.py:547, :309).
ExpiryLosesNothing ==
    [][series' = Absent => series # Unscraped \/ flowFaults' # flowFaults]_flowVars

\* The collector keeps counting: neither packets that don't decode, nor lookups
\* that raise, nor lost packets, nor a restart that forgets the templates stop
\* it for good, as long as packets arrive (flow_collector.py:527).
KeepsCounting == Delivers => []<><<CountRecord>>_flowVars

=============================================================================
