--------------------------- MODULE CoralDetector ---------------------------
(***************************************************************************)
(* The Coral detector services on the Windows host: one process per Coral  *)
(* (tnwks_detector/server.py with backends/edgetpu.py), restarted by the   *)
(* service manager when it fails, answering the requests of one Frigate    *)
(* detector each.                                                          *)
(*                                                                         *)
(* libedgetpu opens "usb:<n>", the n-th Coral of its list, and the list    *)
(* follows the USB topology. A Coral that gets power comes up in DFU mode; *)
(* the first process that opens it flashes it, and it is gone from the     *)
(* list until it has re-enumerated.                                        *)
(***************************************************************************)
EXTENDS Naturals, FiniteSets

CONSTANTS
    Servers,     \* the detector services
    Corals,      \* the Corals, as numbers in the order of the USB topology
    Selected,    \* [Servers -> Corals]: the path a service is configured with
    MaxErrors,   \* --max-consecutive-errors
    CoralFaults, \* "hang", "loadHang", "error", "unplug", "address", "stop": what happens
    MaxMishaps,  \* bound: how often
    NoCoral, Gone

ASSUME CoralAssumption ==
    /\ Corals \subseteq Nat /\ IsFiniteSet(Corals)
    /\ Selected \in [Servers -> Corals]
    /\ MaxErrors \in Nat \ {0} /\ MaxMishaps \in Nat
    /\ NoCoral \notin Corals /\ Gone \notin Corals /\ NoCoral # Gone

VARIABLES
    plugged, dfu, flashing,    \* Corals attached, not flashed yet, re-enumerating
    address,                   \* the vEthernet (WSL) address exists
    at,          \* at[s]: where the process is
    listed,      \* listed[s]: the Corals _resolve saw
    delegate,    \* delegate[s]: the Coral it holds; Gone once that was unplugged
    model,       \* model[s]: backend.model is set
    errors,      \* errors[s]: consecutive_errors
    busy,        \* busy[s]: the watchdog's busy_since is set
    ready, deviceOk,           \* the gauges of the same names
    client,      \* client[s]: Frigate's detector: "new", "ready", "notReady"
    mishaps,
    disturbed    \* auxiliary, read by no action: the services whose Coral came back while
                 \* a service opened one, until a look at the list with nobody at that

usb == <<plugged, dfu, flashing, disturbed>>
process == <<listed, delegate, model, errors, busy>>
gauges == <<ready, deviceOk>>
coralVars == <<usb, address, at, process, gauges, client, mishaps>>

Looked == {"open", "flash", "check"}    \* between the two looks at the list
Opening == {"list"} \cup Looked
Bound == {"serve", "infer", "hung", "stuck"}

CoralTypeOK ==
    /\ plugged \subseteq Corals /\ dfu \subseteq Corals /\ flashing \subseteq plugged
    /\ disturbed \subseteq Servers /\ address \in BOOLEAN /\ mishaps \in 0 .. MaxMishaps
    /\ at \in [Servers -> {"down", "address", "load", "bind"} \cup Opening \cup Bound]
    /\ listed \in [Servers -> SUBSET Corals]
    /\ delegate \in [Servers -> Corals \cup {NoCoral, Gone}]
    /\ model \in [Servers -> BOOLEAN] /\ busy \in [Servers -> BOOLEAN]
    /\ errors \in [Servers -> 0 .. MaxErrors - 1]
    /\ ready \in [Servers -> BOOLEAN] /\ deviceOk \in [Servers -> BOOLEAN]
    /\ client \in [Servers -> {"new", "ready", "notReady"}]
    /\ \A s \in Servers : at[s] \in {"load", "bind"} \cup Bound => delegate[s] # NoCoral
    /\ \A s \in Servers : at[s] \in Opening => ~model[s]
    /\ \A s \in Servers : (ready[s] \/ deviceOk[s]) => model[s] /\ at[s] \in {"bind"} \cup Bound

CoralInit ==
    /\ plugged = Corals /\ dfu = Corals /\ flashing = {} /\ disturbed = {}
    /\ address = TRUE /\ mishaps = 0
    /\ at = [s \in Servers |-> "down"]
    /\ listed = [s \in Servers |-> {}] /\ delegate = [s \in Servers |-> NoCoral]
    /\ model = [s \in Servers |-> FALSE] /\ errors = [s \in Servers |-> 0]
    /\ busy = [s \in Servers |-> FALSE]
    /\ ready = [s \in Servers |-> FALSE] /\ deviceOk = [s \in Servers |-> FALSE]
    /\ client = [s \in Servers |-> "new"]

Visible == plugged \ flashing
Free(d) == \A s \in Servers : delegate[s] # d

\* paths.index(spec), and the Coral with that index in another list.
Index(d, corals) == Cardinality({c \in corals : c < d})
IsNth(d, n, corals) == d \in corals /\ Index(d, corals) = n

Goes(s, where) == at' = [at EXCEPT ![s] = where]
Set(f, s, v) == [f EXCEPT ![s] = v]

\* The process ends, however it does; the system closes what it held.
Ends(s) ==
    /\ Goes(s, "down")
    /\ listed' = Set(listed, s, {}) /\ delegate' = Set(delegate, s, NoCoral)
    /\ model' = Set(model, s, FALSE) /\ errors' = Set(errors, s, 0) /\ busy' = Set(busy, s, FALSE)
    /\ ready' = Set(ready, s, FALSE) /\ deviceOk' = Set(deviceOk, s, FALSE)

Mishap(kind) == kind \in CoralFaults /\ mishaps < MaxMishaps /\ mishaps' = mishaps + 1

-----------------------------------------------------------------------------
(* Startup                                                                 *)

\* The service manager starts the process, and starts it again after a failure.
ServiceStart(s) ==
    /\ at[s] = "down" /\ Goes(s, "address")
    /\ UNCHANGED <<usb, address, process, gauges, client, mishaps>>

WaitForAddress(s) ==
    /\ at[s] = "address" /\ address /\ Goes(s, "list")
    /\ UNCHANGED <<usb, address, process, gauges, client, mishaps>>

\* _resolve: the path's index in the list. A path that is not there is an
\* error, and open_backend tries again later.
Resolve(s) ==
    /\ at[s] = "list" /\ Selected[s] \in Visible
    /\ listed' = Set(listed, s, Visible) /\ Goes(s, "open")
    /\ disturbed' = IF \E t \in Servers \ {s} : at[t] \in Looked THEN disturbed ELSE disturbed \ {s}
    /\ UNCHANGED <<plugged, dfu, flashing, address, delegate, model, errors, busy, gauges, client, mishaps>>

\* load_delegate takes whatever has that index now, if nobody holds it.
LoadDelegate(s) ==
    LET n == Index(Selected[s], listed[s]) IN
    /\ at[s] = "open"
    /\ \/ \E d \in Visible :
            /\ IsNth(d, n, Visible) /\ Free(d)
            /\ delegate' = Set(delegate, s, d)
            /\ IF d \in dfu
               THEN flashing' = flashing \cup {d} /\ Goes(s, "flash")
               ELSE UNCHANGED flashing /\ Goes(s, "check")
       \/ /\ \A d \in Visible : ~(IsNth(d, n, Visible) /\ Free(d))
          /\ Goes(s, "list") /\ UNCHANGED <<flashing, delegate>>
    /\ UNCHANGED <<plugged, dfu, disturbed, address, listed, model, errors, busy, gauges, client, mishaps>>

Flashed(s) ==
    /\ at[s] = "flash"
    /\ IF delegate[s] = Gone
       THEN delegate' = Set(delegate, s, NoCoral) /\ Goes(s, "list") /\ UNCHANGED <<dfu, flashing>>
       ELSE /\ flashing' = flashing \ {delegate[s]} /\ dfu' = dfu \ {delegate[s]}
            /\ Goes(s, "check") /\ UNCHANGED delegate
    /\ UNCHANGED <<plugged, disturbed, address, listed, model, errors, busy, gauges, client, mishaps>>

\* Mutant: the list is not read again.
CheckListNever(s) ==
    /\ at[s] = "check" /\ Goes(s, "load")
    /\ UNCHANGED <<usb, address, process, gauges, client, mishaps>>

\* The list is read again: if it changed, the index may have meant another
\* Coral, and the delegate is dropped.
CheckList(s) ==
    /\ at[s] = "check"
    /\ IF Visible = listed[s]
       THEN Goes(s, "load") /\ UNCHANGED delegate
       ELSE Goes(s, "list") /\ delegate' = Set(delegate, s, NoCoral)
    /\ UNCHANGED <<usb, address, listed, model, errors, busy, gauges, client, mishaps>>

\* load_model of the configured model; the server goes on without one if it fails.
StartupLoad(s) ==
    /\ at[s] = "load" /\ Goes(s, "bind")
    /\ \/ /\ delegate[s] # Gone /\ UNCHANGED mishaps
          /\ model' = Set(model, s, TRUE) /\ deviceOk' = Set(deviceOk, s, TRUE)
       \/ /\ delegate[s] = Gone \/ "error" \in CoralFaults
          /\ IF delegate[s] = Gone THEN UNCHANGED mishaps ELSE Mishap("error")
          /\ UNCHANGED <<model, deviceOk>>
    /\ UNCHANGED <<usb, address, listed, delegate, errors, busy, ready, client>>

BindSocket(s) ==
    /\ at[s] = "bind"
    /\ IF address THEN /\ Goes(s, "serve") /\ ready' = Set(ready, s, model[s])
                       /\ UNCHANGED <<process, deviceOk>>
       ELSE Ends(s)
    /\ UNCHANGED <<usb, address, client, mishaps>>

-----------------------------------------------------------------------------
(* Requests                                                                *)

\* The model handshake. A loaded model answers at once, otherwise it is loaded.
ModelRequest(s) ==
    /\ client[s] = "new" /\ at[s] = "serve"
    /\ \/ /\ model[s] \/ delegate[s] # Gone
          /\ model' = Set(model, s, TRUE) /\ ready' = Set(ready, s, TRUE)
          /\ deviceOk' = IF model[s] THEN deviceOk ELSE Set(deviceOk, s, TRUE)
          /\ client' = Set(client, s, "ready") /\ UNCHANGED mishaps
       \/ /\ ~model[s] /\ \/ delegate[s] = Gone /\ UNCHANGED mishaps
                          \/ delegate[s] # Gone /\ Mishap("error")
          /\ client' = Set(client, s, "notReady") /\ UNCHANGED <<model, gauges>>
    /\ UNCHANGED <<usb, address, at, listed, delegate, errors, busy>>

\* backend.load never returns, at startup or in a handshake: busy_since is not
\* set around it, so nothing ends the process.
LoadHangs(s) ==
    /\ at[s] = "load" \/ (client[s] = "new" /\ at[s] = "serve" /\ ~model[s])
    /\ Mishap("loadHang") /\ Goes(s, "stuck")
    /\ UNCHANGED <<usb, address, process, gauges, client>>

\* detect: without a model the reply is all zeros and nothing else happens.
DetectWithoutModel(s) ==
    /\ client[s] = "ready" /\ at[s] = "serve" /\ ~model[s]
    /\ ready' = Set(ready, s, FALSE)
    /\ UNCHANGED <<usb, address, at, process, deviceOk, client, mishaps>>

\* Mutant: the watchdog is not told.
DetectUnwatched(s) ==
    /\ client[s] = "ready" /\ at[s] = "serve" /\ model[s] /\ Goes(s, "infer")
    /\ UNCHANGED <<usb, address, process, gauges, client, mishaps>>

Detect(s) ==
    /\ client[s] = "ready" /\ at[s] = "serve" /\ model[s] /\ Goes(s, "infer")
    /\ busy' = Set(busy, s, TRUE)
    /\ UNCHANGED <<usb, address, listed, delegate, model, errors, gauges, client, mishaps>>

Inferred(s) ==
    /\ at[s] = "infer" /\ delegate[s] # Gone /\ Goes(s, "serve")
    /\ busy' = Set(busy, s, FALSE) /\ errors' = Set(errors, s, 0)
    /\ deviceOk' = Set(deviceOk, s, TRUE)
    /\ UNCHANGED <<usb, address, listed, delegate, model, ready, client, mishaps>>

\* Mutant: one error too many.
InferenceFailsLate(s) ==
    /\ at[s] = "infer"
    /\ IF delegate[s] = Gone THEN UNCHANGED mishaps ELSE Mishap("error")
    /\ IF errors[s] = MaxErrors THEN Ends(s)
       ELSE /\ Goes(s, "serve") /\ busy' = Set(busy, s, FALSE)
            /\ errors' = Set(errors, s, errors[s] + 1)
            /\ deviceOk' = Set(deviceOk, s, FALSE)
            /\ UNCHANGED <<listed, delegate, model, ready>>
    /\ UNCHANGED <<usb, address, client>>

\* A failed inference is answered with zeros; too many in a row end the
\* process after the reply (exit 5).
InferenceFails(s) ==
    /\ at[s] = "infer"
    /\ IF delegate[s] = Gone THEN UNCHANGED mishaps ELSE Mishap("error")
    /\ IF errors[s] + 1 = MaxErrors THEN Ends(s)
       ELSE /\ Goes(s, "serve") /\ busy' = Set(busy, s, FALSE)
            /\ errors' = Set(errors, s, errors[s] + 1)
            /\ deviceOk' = Set(deviceOk, s, FALSE)
            /\ UNCHANGED <<listed, delegate, model, ready>>
    /\ UNCHANGED <<usb, address, client>>

InferenceHangs(s) ==
    /\ at[s] = "infer" /\ Mishap("hang") /\ Goes(s, "hung")
    /\ UNCHANGED <<usb, address, process, gauges, client>>

\* The watchdog thread ends the process (exit 3).
WatchdogExit(s) ==
    /\ at[s] \in {"hung", "stuck"} /\ busy[s]
    /\ Ends(s) /\ UNCHANGED <<usb, address, client, mishaps>>

\* SIGTERM from the service manager, seen between two requests or two waits; a
\* process that doesn't see it is killed.
Stopped(s) ==
    /\ \/ at[s] \in {"address", "list", "serve"} /\ Mishap("stop")
       \/ at[s] \in {"hung", "stuck"} /\ UNCHANGED mishaps
    /\ Ends(s) /\ UNCHANGED <<usb, address, client>>

\* The main loop sees that the address is gone (exit 4).
AddressCheck(s) ==
    /\ at[s] = "serve" /\ ~address
    /\ Ends(s) /\ UNCHANGED <<usb, address, client, mishaps>>

-----------------------------------------------------------------------------
(* The host, the USB bus and Frigate                                       *)

AddressChanges ==
    /\ \/ address /\ Mishap("address")
       \/ ~address /\ UNCHANGED mishaps
    /\ address' = ~address
    /\ UNCHANGED <<usb, at, process, gauges, client>>

\* A Coral loses power; what held it holds nothing any more.
Unplug(d) ==
    /\ d \in plugged /\ Mishap("unplug")
    /\ plugged' = plugged \ {d} /\ flashing' = flashing \ {d}
    /\ delegate' = [s \in Servers |-> IF delegate[s] = d THEN Gone ELSE delegate[s]]
    /\ UNCHANGED <<dfu, disturbed, address, at, listed, model, errors, busy, gauges, client>>

\* A Coral gets power, in DFU mode, whatever the services are at.
Plug(d) ==
    /\ d \notin plugged
    /\ plugged' = plugged \cup {d} /\ dfu' = dfu \cup {d}
    /\ disturbed' = IF \E t \in Servers : at[t] \in Looked
                    THEN disturbed \cup {s \in Servers : Selected[s] = d} ELSE disturbed
    /\ UNCHANGED <<flashing, address, at, process, gauges, client, mishaps>>

\* Frigate's handshake fails while nothing serves, and it never asks again.
HandshakeFails(s) ==
    /\ client[s] = "new" /\ at[s] \notin {"serve", "infer"}
    /\ client' = Set(client, s, "notReady")
    /\ UNCHANGED <<usb, address, at, process, gauges, mishaps>>

\* What CoralDetectorNoInferences tells people to do.
FrigateRestarts(s) ==
    /\ at[s] = "serve" /\ (client[s] = "notReady" \/ ~model[s]) /\ client[s] # "new"
    /\ client' = Set(client, s, "new")
    /\ UNCHANGED <<usb, address, at, process, gauges, mishaps>>

ServerStep(s) ==
    \/ ServiceStart(s) \/ WaitForAddress(s) \/ Resolve(s) \/ LoadDelegate(s) \/ Flashed(s)
    \/ CheckList(s) \/ StartupLoad(s) \/ BindSocket(s) \/ ModelRequest(s) \/ LoadHangs(s)
    \/ DetectWithoutModel(s) \/ Detect(s) \/ Inferred(s) \/ InferenceFails(s)
    \/ InferenceHangs(s) \/ WatchdogExit(s) \/ Stopped(s) \/ AddressCheck(s)

CoralNext ==
    \/ \E s \in Servers : ServerStep(s) \/ HandshakeFails(s) \/ FrigateRestarts(s)
    \/ \E d \in Corals : Unplug(d) \/ Plug(d)
    \/ AddressChanges

\* Steps the process or the service manager takes by itself. An inference
\* either comes back or is ended by the watchdog; Frigate keeps asking.
Progress(s) ==
    \/ ServiceStart(s) \/ WaitForAddress(s) \/ Resolve(s) \/ LoadDelegate(s) \/ Flashed(s)
    \/ CheckList(s) \/ StartupLoad(s) \/ BindSocket(s) \/ ModelRequest(s) \/ Detect(s)
    \/ Inferred(s) \/ (delegate[s] = Gone /\ InferenceFails(s)) \/ WatchdogExit(s)

CoralFair ==
    /\ \A s \in Servers : /\ WF_coralVars(Progress(s))
                          /\ WF_coralVars(AddressCheck(s))
                          /\ WF_coralVars(FrigateRestarts(s))
    /\ \A d \in Corals : WF_coralVars(Plug(d))
    /\ WF_coralVars(~address /\ AddressChanges)

CoralSpec == CoralInit /\ [][CoralNext]_coralVars /\ CoralFair

-----------------------------------------------------------------------------
(* Properties                                                              *)

\* A service configured with a USB path works on the Coral at that path,
\* though libedgetpu only opens by index and other services flash their own
\* Corals meanwhile (edgetpu.py:96: "the index may have pointed elsewhere"). Only one
\* whose own Coral came back while services opened theirs may end up with another: the
\* list it then saw twice had changed, and changed back, in between.
RightCoral ==
    \A s \in Servers \ disturbed :
        at[s] \in {"load", "bind"} \cup Bound => delegate[s] \in {Selected[s], Gone}

\* A service that misopened a Coral keeps its owner out.
Taken(s) == \E t \in Servers \ {s} : delegate[t] = Selected[s]

\* No service stays blind without showing it: whatever went wrong - hung and
\* failing inferences, a Coral pulled and plugged in again, the WSL address
\* gone and back, a model that did not load, a handshake Frigate missed - once
\* it stops, the service infers again and again, or its ready gauge stays 0 for
\* the alert: without a model, or in a load that hangs, nothing ends the process
\* (server.py:339, :285), and a Coral "held by another process" can't be opened.
NeverSilentlyBlind ==
    \A s \in Servers : \/ []<><<Inferred(s)>>_coralVars
                       \/ <>[](at[s] \in {"serve", "stuck"} /\ ~ready[s])
                       \/ <>[](at[s] \in Opening /\ ~ready[s] /\ Taken(s))

=============================================================================
