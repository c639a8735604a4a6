------------------------------ MODULE AsnTable ------------------------------
(***************************************************************************)
(* The flow collector's table of networks (flow_collector.py): the asn     *)
(* thread downloads, loads and swaps it, the receiving thread looks        *)
(* addresses up in it while it handles a packet.  Lookups take no lock.    *)
(***************************************************************************)
EXTENDS Naturals, Sequences, FiniteSets

CONSTANTS
    Dumps,      \* published tables: sequences of [lo, hi, asn], sorted by lo
    Ips,        \* remote addresses
    MaxRecords, \* bound: records in a packet
    MaxAsnFaults, \* bound: failed or truncated downloads, restarts
    NoFile, Truncated

ASSUME AsnAssumption ==
    /\ Ips \subseteq Nat /\ MaxRecords \in Nat /\ MaxAsnFaults \in Nat
    /\ \A d \in Dumps : d # <<>> /\ d \in Seq([lo : Nat, hi : Nat, asn : Nat])
    /\ NoFile # Truncated /\ NoFile \notin Dumps /\ Truncated \notin Dumps

VARIABLES
    asnTable,   \* ASN: the parallel arrays
    file, fresh,    \* the cache file, and whether it is younger than ASN_REFRESH_S
    loop, parsed,   \* asn_loop: where it is, and what load_asn_db gave
    packet,     \* addresses of the packet still to look up
    look,       \* the lookup: its step, the index from starts, the tables it has read
    torn,       \* history: lookups gone wrong since the table was swapped
    asnFaults

asnVars == <<asnTable, file, fresh, loop, parsed, packet, look, torn, asnFaults>>

Arrays(d) == [starts |-> [j \in DOMAIN d |-> d[j].lo],
              ends   |-> [j \in DOMAIN d |-> d[j].hi],
              asns   |-> [j \in DOMAIN d |-> d[j].asn]]
Empty == Arrays(<<>>)
Tables == {Arrays(d) : d \in Dumps} \cup {Empty}
\* bisect_right(starts, ip) - 1, counted from 1 (0: before the first range).
Position(starts, ip) == Cardinality({j \in DOMAIN starts : starts[j] <= ip})

\* What a lookup gives that reads one table: the network that owns the address.
Owner(t, ip) ==
    LET i == Position(t.starts, ip) IN
    IF i > 0 /\ ip <= t.ends[i] THEN t.asns[i] ELSE 0

NoLookup == [step |-> "starts", i |-> 0, read |-> {}]

AsnTypeOK ==
    /\ asnTable \in Tables /\ file \in Dumps \cup {NoFile, Truncated} /\ fresh \in BOOLEAN
    /\ loop \in {"check", "download", "load", "swap", "sleep"}
    /\ parsed \in Tables /\ (loop = "swap" => parsed # Empty)
    /\ packet \in Seq(Ips) /\ Len(packet) <= MaxRecords
    /\ look.step \in {"starts", "ends", "asns"} /\ look.read \subseteq Tables
    /\ look.step # "starts" => packet # <<>>
    /\ torn \in Nat /\ asnFaults \in 0 .. MaxAsnFaults

AsnInit ==
    /\ asnTable = Empty /\ file = NoFile /\ fresh = FALSE
    /\ loop = "check" /\ parsed = Empty
    /\ packet = <<>> /\ look = NoLookup /\ torn = 0 /\ asnFaults = 0

AsnFault == asnFaults < MaxAsnFaults /\ asnFaults' = asnFaults + 1

-----------------------------------------------------------------------------
(* refresh_asn_db                                                          *)

\* Mutant: the file's age isn't looked at.
CheckFileExists ==
    /\ loop = "check" /\ loop' = IF file # NoFile THEN "load" ELSE "download"
    /\ UNCHANGED <<asnTable, file, fresh, parsed, packet, look, torn, asnFaults>>

CheckFile ==
    /\ loop = "check" /\ loop' = IF file # NoFile /\ fresh THEN "load" ELSE "download"
    /\ UNCHANGED <<asnTable, file, fresh, parsed, packet, look, torn, asnFaults>>

\* To a .part file that replaces the cache. A connection closed early ends the
\* loop over the chunks like a complete one: the file is short, and young.
Download ==
    /\ loop = "download" /\ loop' = "load" /\ fresh' = TRUE
    /\ \/ file' \in Dumps /\ UNCHANGED asnFaults
       \/ file' = Truncated /\ AsnFault
    /\ UNCHANGED <<asnTable, parsed, packet, look, torn>>

\* The old file is used, if there is one.
DownloadFails ==
    /\ loop = "download" /\ AsnFault
    /\ loop' = IF file = NoFile THEN "sleep" ELSE "load"
    /\ UNCHANGED <<asnTable, file, fresh, parsed, packet, look, torn>>

Load ==
    /\ loop = "load"
    /\ IF file = Truncated THEN loop' = "sleep" /\ UNCHANGED parsed
       ELSE loop' = "swap" /\ parsed' = Arrays(file)
    /\ UNCHANGED <<asnTable, file, fresh, packet, look, torn, asnFaults>>

\* Mutant: one of the arrays is forgotten.
SwapPart ==
    /\ loop = "swap" /\ loop' = "sleep"
    /\ asnTable' = [parsed EXCEPT !.asns = asnTable.asns] /\ torn' = 0
    /\ UNCHANGED <<file, fresh, parsed, packet, look, asnFaults>>

\* ASN.update under LOCK: all the arrays in one step of the interpreter.
Swap ==
    /\ loop = "swap" /\ loop' = "sleep"
    /\ asnTable' = parsed /\ torn' = 0 /\ parsed' = Empty
    /\ UNCHANGED <<file, fresh, packet, look, asnFaults>>

\* After ASN_REFRESH_S, or an hour after a failure.
Wake ==
    /\ loop = "sleep" /\ loop' = "check"
    /\ UNCHANGED <<asnTable, file, fresh, parsed, packet, look, torn, asnFaults>>

FileAges ==
    /\ fresh /\ fresh' = FALSE
    /\ UNCHANGED <<asnTable, file, loop, parsed, packet, look, torn, asnFaults>>

-----------------------------------------------------------------------------
(* lookup_asn, in the receiving thread                                     *)

TakePacket ==
    /\ packet = <<>> /\ packet' \in UNION {[1 .. n -> Ips] : n \in 1 .. MaxRecords}
    /\ UNCHANGED <<asnTable, file, fresh, loop, parsed, look, torn, asnFaults>>

LookupStarts ==
    /\ packet # <<>> /\ look.step = "starts"
    /\ look' = [step |-> "ends", i |-> Position(asnTable.starts, Head(packet)), read |-> {asnTable}]
    /\ UNCHANGED <<asnTable, file, fresh, loop, parsed, packet, torn, asnFaults>>

\* The record is charged to a network; was it this address's in any of the
\* tables the lookup has read?
Attribute(asn) ==
    /\ torn' = IF \E t \in look.read \cup {asnTable} : Owner(t, Head(packet)) = asn
               THEN torn ELSE torn + 1
    /\ packet' = Tail(packet) /\ look' = NoLookup

\* IndexError: nothing of the rest of the packet is counted.
PacketLost == torn' = torn + 1 /\ packet' = <<>> /\ look' = NoLookup

LookupEnds ==
    /\ look.step = "ends"
    /\ IF look.i = 0 THEN Attribute(0)
       ELSE IF look.i > Len(asnTable.ends) THEN PacketLost
       ELSE IF Head(packet) > asnTable.ends[look.i] THEN Attribute(0)
       ELSE /\ look' = [look EXCEPT !.step = "asns", !.read = @ \cup {asnTable}]
            /\ UNCHANGED <<packet, torn>>
    /\ UNCHANGED <<asnTable, file, fresh, loop, parsed, asnFaults>>

LookupAsns ==
    /\ look.step = "asns"
    /\ IF look.i > Len(asnTable.asns) THEN PacketLost ELSE Attribute(asnTable.asns[look.i])
    /\ UNCHANGED <<asnTable, file, fresh, loop, parsed, asnFaults>>

\* The pod is replaced; the cache file stays.
AsnRestart ==
    /\ AsnFault /\ asnTable' = Empty /\ loop' = "check" /\ parsed' = Empty
    /\ packet' = <<>> /\ look' = NoLookup /\ torn' = 0
    /\ UNCHANGED <<file, fresh>>

AsnLoop == CheckFile \/ Download \/ DownloadFails \/ Load \/ Swap \/ Wake

AsnNext ==
    \/ CheckFile \/ Download \/ DownloadFails \/ Load \/ Swap \/ Wake \/ FileAges
    \/ TakePacket \/ LookupStarts \/ LookupEnds \/ LookupAsns \/ AsnRestart

\* The thread runs, and files get older.
AsnFair == WF_asnVars(AsnLoop) /\ WF_asnVars(FileAges)

AsnSpec == AsnInit /\ [][AsnNext]_asnVars /\ AsnFair

-----------------------------------------------------------------------------
(* Properties                                                              *)

\* Lookups read the table without the lock, array by array, so one that a swap
\* overtakes may find the wrong network or no entry at all (flow_collector.py:
\* 148-152). That is all a swap costs: one record, or the rest of one packet.
SwapTearsOneLookup == torn <= 1

\* A table comes back: whatever downloads failed or were cut short, and
\* whenever the pod was replaced, networks are named again. (A cut-off file is
\* young, so it is only replaced when it has aged: flow_collector.py:112.)
TableReturns == <>[](asnTable # Empty)

=============================================================================
