---------------------------- MODULE KitchenInfo ----------------------------
(***************************************************************************)
(* The overlay of the kitchen screensaver (server.py, /api/info): threads  *)
(* ask for the display's day, and InfoService builds the answer from one   *)
(* Home Assistant request after another, under its lock, and keeps the     *)
(* last.  The forecast is a websocket exchange and is kept longer.         *)
(***************************************************************************)
EXTENDS Naturals, Sequences

CONSTANTS
    Displays,      \* requests at the same time
    Days,          \* 1 .. Days
    Sources,       \* the requests after the weather's: calendars, dinner, stars, theme
    MaxInfoFaults, \* bound: failed requests
    NoDisplay

ASSUME KitchenInfoAssumption ==
    /\ Days \in Nat \ {0} /\ MaxInfoFaults \in Nat /\ NoDisplay \notin Displays
    /\ Sources \in Seq(STRING \ {"weather", "forecast"})

VARIABLES
    day,          \* the display's day
    infoLock,     \* who builds
    asked,        \* asked[t]: where the request is, and the window it asks for
    next, missing,  \* the build: requests to go, and what it goes without
    forecast,     \* whether there is one, and whether forecast_ttl has passed
    infoCache,    \* the last answer: its window, what it lacks, whether info_ttl has passed
    shown,        \* shown[t]: the last answer to t
    infoFaults

infoVars == <<day, infoLock, asked, next, missing, forecast, infoCache, shown, infoFaults>>

\* The order _build asks in; the forecast is asked for once the weather is there.
Requests == <<"weather", "forecast">> \o Sources
Parts == {Requests[i] : i \in DOMAIN Requests}
Answers == [day : 0 .. Days, missing : SUBSET Parts]
NoAnswer == [day |-> 0, missing |-> Parts]

InfoTypeOK ==
    /\ day \in 1 .. Days /\ infoLock \in Displays \cup {NoDisplay}
    /\ asked \in [Displays -> [at : {"idle", "wait", "build"}, day : 0 .. Days]]
    /\ \A t \in Displays : asked[t].at = "build" <=> infoLock = t
    /\ next \in 1 .. Len(Requests) + 1 /\ missing \subseteq Parts
    /\ forecast \in [there : BOOLEAN, due : BOOLEAN]
    /\ infoCache \in [answer : Answers, due : BOOLEAN]
    /\ shown \in [Displays -> Answers]
    /\ infoFaults \in 0 .. MaxInfoFaults

InfoInit ==
    /\ day = 1 /\ infoLock = NoDisplay
    /\ asked = [t \in Displays |-> [at |-> "idle", day |-> 0]]
    /\ next = 1 /\ missing = {}
    /\ forecast = [there |-> FALSE, due |-> TRUE]
    /\ infoCache = [answer |-> NoAnswer, due |-> TRUE]
    /\ shown = [t \in Displays |-> NoAnswer] /\ infoFaults = 0

Fault == infoFaults < MaxInfoFaults /\ infoFaults' = infoFaults + 1

NextDay == day < Days /\ day' = day + 1
           /\ UNCHANGED <<infoLock, asked, next, missing, forecast, infoCache, shown, infoFaults>>

InfoAges ==
    /\ ~infoCache.due /\ infoCache' = [infoCache EXCEPT !.due = TRUE]
    /\ UNCHANGED <<day, infoLock, asked, next, missing, forecast, shown, infoFaults>>

\* Sooner after a failure: its time is set back.
ForecastAges ==
    /\ ~forecast.due /\ forecast' = [forecast EXCEPT !.due = TRUE]
    /\ UNCHANGED <<day, infoLock, asked, next, missing, infoCache, shown, infoFaults>>

-----------------------------------------------------------------------------
(* InfoService                                                             *)

AskInfo(t) ==
    /\ asked[t].at = "idle"
    /\ asked' = [asked EXCEPT ![t] = [at |-> "wait", day |-> day]]
    /\ UNCHANGED <<day, infoLock, next, missing, forecast, infoCache, shown, infoFaults>>

Reply(t, answer) ==
    /\ asked' = [asked EXCEPT ![t] = [at |-> "idle", day |-> 0]]
    /\ shown' = [shown EXCEPT ![t] = answer]

\* Mutant: an answer is kept as long as its window is asked for.
CachedAlways(d) == infoCache.answer.day = d

Cached(d) == infoCache.answer.day = d /\ ~infoCache.due

GetCached(t) ==
    /\ asked[t].at = "wait" /\ infoLock = NoDisplay /\ Cached(asked[t].day)
    /\ Reply(t, infoCache.answer)
    /\ UNCHANGED <<day, infoLock, next, missing, forecast, infoCache, infoFaults>>

BuildStarts(t) ==
    /\ asked[t].at = "wait" /\ infoLock = NoDisplay /\ ~Cached(asked[t].day)
    /\ infoLock' = t /\ asked' = [asked EXCEPT ![t].at = "build"]
    /\ next' = 1 /\ missing' = {}
    /\ UNCHANGED <<day, forecast, infoCache, shown, infoFaults>>

Asks(t, part) == infoLock = t /\ next <= Len(Requests) /\ Requests[next] = part

\* _forecast: what is there, an answer without a forecast too, is enough until it
\* is due.
KeepForecast(t) ==
    /\ Asks(t, "forecast") /\ ~forecast.due
    /\ missing' = IF forecast.there THEN missing ELSE missing \cup {"forecast"}
    /\ next' = next + 1
    /\ UNCHANGED <<day, infoLock, asked, forecast, infoCache, shown, infoFaults>>

FetchForecast(t) ==
    /\ Asks(t, "forecast") /\ forecast.due
    /\ forecast' = [there |-> TRUE, due |-> FALSE] /\ next' = next + 1
    /\ UNCHANGED <<day, infoLock, asked, missing, infoCache, shown, infoFaults>>

\* A failure keeps the old forecast, an event without one doesn't.
ForecastFails(t) ==
    /\ Asks(t, "forecast") /\ forecast.due /\ Fault
    /\ forecast' \in [there : {forecast.there, FALSE}, due : {FALSE}]
    /\ missing' = IF forecast'.there THEN missing ELSE missing \cup {"forecast"}
    /\ next' = next + 1
    /\ UNCHANGED <<day, infoLock, asked, infoCache, shown>>

GetPart(t) ==
    /\ \E p \in Parts \ {"forecast"} : Asks(t, p)
    /\ next' = next + 1
    /\ UNCHANGED <<day, infoLock, asked, missing, forecast, infoCache, shown, infoFaults>>

\* guard: the answer goes without this part. Nobody asks for the forecast when
\* there is no weather.
PartFails(t) ==
    /\ \E p \in Parts \ {"forecast"} : Asks(t, p) /\ missing' = missing \cup {p}
    /\ next' = IF Requests[next] = "weather" THEN next + 2 ELSE next + 1
    /\ Fault
    /\ UNCHANGED <<day, infoLock, asked, forecast, infoCache, shown>>

\* An exception guard doesn't know (http.client.HTTPException, an answer of
\* another shape): 500, and nothing is kept.
BuildDies(t) ==
    /\ infoLock = t /\ next <= Len(Requests) /\ Fault
    /\ infoLock' = NoDisplay /\ next' = 1 /\ missing' = {}
    /\ asked' = [asked EXCEPT ![t] = [at |-> "idle", day |-> 0]]
    /\ UNCHANGED <<day, forecast, infoCache, shown>>

\* Only the latest window is kept, complete or not.
BuildEnds(t) ==
    LET answer == [day |-> asked[t].day, missing |-> missing] IN
    /\ infoLock = t /\ next > Len(Requests)
    /\ infoCache' = [answer |-> answer, due |-> FALSE] /\ Reply(t, answer)
    /\ infoLock' = NoDisplay /\ next' = 1 /\ missing' = {}
    /\ UNCHANGED <<day, forecast, infoFaults>>

-----------------------------------------------------------------------------
Asking(t)   == AskInfo(t) \/ GetCached(t) \/ BuildStarts(t)
Building(t) == KeepForecast(t) \/ FetchForecast(t) \/ GetPart(t) \/ BuildEnds(t)
InfoNext ==
    \/ NextDay \/ InfoAges \/ ForecastAges
    \/ \E t \in Displays : Asking(t) \/ Building(t) \/ ForecastFails(t) \/ PartFails(t) \/ BuildDies(t)

\* Displays ask again and again, time passes, and a free lock is taken, by whichever
\* thread: it isn't fair.
InfoFair ==
    /\ WF_infoVars(InfoAges) /\ WF_infoVars(ForecastAges)
    /\ WF_infoVars(\E t \in Displays : GetCached(t) \/ BuildStarts(t))
    /\ \A t \in Displays : WF_infoVars(AskInfo(t)) /\ WF_infoVars(Building(t))

InfoSpec == InfoInit /\ [][InfoNext]_infoVars /\ InfoFair

(* Whatever failed, in whatever order, and whoever else asked, the displays are given
   the whole overlay of the day again, and again: a failure is neither kept for good
   nor another day's answer given (the caches of InfoService, server.py:262-299). *)
InfoRecovers ==
    \/ <>[](day < Days)
    \/ []<>(\E t \in Displays : shown[t] = [day |-> Days, missing |-> {}])

=============================================================================
