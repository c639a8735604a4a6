---------------------------- MODULE LitellmKeys ----------------------------
(***************************************************************************)
(* The sidecar that makes LiteLLM's virtual keys match the keys Secret     *)
(* (ensure_keys.py): entry by entry it asks whether the key exists, then   *)
(* updates or generates it, and goes through the file again after a        *)
(* minute, or after hours when nothing failed.  LiteLLM restarts and fails *)
(* requests, its database is restored from a backup, the Secret changes    *)
(* (which restarts the pod), and some entries LiteLLM always refuses.      *)
(***************************************************************************)
EXTENDS Naturals, Sequences, SequencesExt, Functions

CONSTANTS
    KeysFile,      \* the entries, in the file's order
    Refused,       \* those LiteLLM refuses, whatever else works
    KeySpecs,      \* what an entry can ask for: models, alias
    MaxKeyFaults,  \* bound: failing requests, restarts, restored databases
    MaxKeyEdits,   \* bound: changes of the Secret
    NoKey

ASSUME KeysAssumption ==
    /\ KeysFile \in Seq(Range(KeysFile)) /\ IsInjective(KeysFile)
    /\ Refused \subseteq Range(KeysFile) /\ NoKey \notin KeySpecs
    /\ MaxKeyFaults \in Nat /\ MaxKeyEdits \in Nat

VARIABLES
    secret,     \* secret[e]: what the file asks for
    stored,     \* stored[e]: LiteLLM's key, or NoKey
    up,         \* LiteLLM is ready
    sidecar,    \* "waiting", "looking", "storing", "sleeping"
    entries,    \* the entries this run has yet to see to
    verb,       \* what the lookup decided: "update", "generate"
    keyFaults, keyEdits

keyVars == <<secret, stored, up, sidecar, entries, verb, keyFaults, keyEdits>>

\* The sidecar's place agrees with the entries it has left.
KeysTypeOK ==
    /\ secret \in [Range(KeysFile) -> KeySpecs] /\ stored \in [Range(KeysFile) -> KeySpecs \cup {NoKey}]
    /\ up \in BOOLEAN /\ sidecar \in {"waiting", "looking", "storing", "sleeping"}
    /\ IsSuffix(entries, KeysFile) /\ (sidecar = "storing" => entries # <<>>)
    /\ verb \in {"update", "generate"}
    /\ keyFaults \in 0 .. MaxKeyFaults /\ keyEdits \in 0 .. MaxKeyEdits

KeysInit ==
    /\ secret \in [Range(KeysFile) -> KeySpecs] /\ stored = [e \in Range(KeysFile) |-> NoKey]
    /\ up = TRUE /\ sidecar = "waiting" /\ entries = <<>> /\ verb = "update"
    /\ keyFaults = 0 /\ keyEdits = 0

KeyFault == keyFaults < MaxKeyFaults /\ keyFaults' = keyFaults + 1
Entry == Head(entries)

-----------------------------------------------------------------------------
(* The sidecar                                                             *)

\* wait_ready, and the file is read.
KeysReady ==
    /\ sidecar = "waiting" /\ up /\ sidecar' = "looking" /\ entries' = KeysFile
    /\ UNCHANGED <<secret, stored, up, verb, keyFaults, keyEdits>>

\* Any answer but 200 means: generate.
LookUpKey ==
    /\ sidecar = "looking" /\ entries # <<>> /\ up /\ sidecar' = "storing"
    /\ \/ verb' = (IF stored[Entry] = NoKey THEN "generate" ELSE "update") /\ UNCHANGED keyFaults
       \/ KeyFault /\ verb' = "generate"
    /\ UNCHANGED <<secret, stored, up, entries, keyEdits>>

\* Mutant: the first entry that fails ends the run.
NextEntryWhileOk(ok) ==
    /\ sidecar' = "looking" /\ entries' = IF ok THEN Tail(entries) ELSE <<>>

\* "keep going: one bad entry shouldn't block the rest"
NextEntry(ok) == sidecar' = "looking" /\ entries' = Tail(entries)

\* What an answer of the POST means: generating a key that exists fails.
Accepted == Entry \notin Refused /\ (verb = "update" <=> stored[Entry] # NoKey)

StoreKey ==
    /\ sidecar = "storing" /\ up /\ NextEntry(Accepted)
    /\ stored' = IF Accepted THEN [stored EXCEPT ![Entry] = secret[Entry]] ELSE stored
    /\ UNCHANGED <<secret, up, verb, keyFaults, keyEdits>>

\* No connection, or a request that fails: with the key written, or not.
CallFails ==
    /\ sidecar \in {"looking", "storing"} /\ entries # <<>> /\ NextEntry(FALSE)
    /\ \/ ~up /\ UNCHANGED <<stored, keyFaults>>
       \/ /\ up /\ KeyFault
          /\ \/ UNCHANGED stored
             \/ sidecar = "storing" /\ Accepted /\ stored' = [stored EXCEPT ![Entry] = secret[Entry]]
    /\ UNCHANGED <<secret, up, verb, keyEdits>>

\* 60 s after a failure, six hours otherwise.
KeysSleep ==
    /\ sidecar = "looking" /\ entries = <<>> /\ sidecar' = "sleeping"
    /\ UNCHANGED <<secret, stored, up, entries, verb, keyFaults, keyEdits>>

KeysWake ==
    /\ sidecar = "sleeping" /\ sidecar' = "waiting"
    /\ UNCHANGED <<secret, stored, up, entries, verb, keyFaults, keyEdits>>

-----------------------------------------------------------------------------
(* Around it                                                               *)

SidecarRestarts == sidecar' = "waiting" /\ entries' = <<>> /\ UNCHANGED verb

\* Reloader restarts the pod.
EditSecret ==
    /\ keyEdits < MaxKeyEdits /\ keyEdits' = keyEdits + 1 /\ SidecarRestarts
    /\ \E e \in Range(KeysFile), s \in KeySpecs : secret' = [secret EXCEPT ![e] = s]
    /\ UNCHANGED <<stored, up, keyFaults>>

LitellmStops == up /\ KeyFault /\ up' = FALSE /\ UNCHANGED <<secret, stored, sidecar, entries, verb, keyEdits>>
LitellmStarts == ~up /\ up' = TRUE /\ UNCHANGED <<secret, stored, sidecar, entries, verb, keyFaults, keyEdits>>

\* A database from before some keys were stored, or with what they were.
DatabaseRestored ==
    /\ KeyFault
    /\ \E e \in Range(KeysFile), s \in KeySpecs \cup {NoKey} : stored' = [stored EXCEPT ![e] = s]
    /\ UNCHANGED <<secret, up, sidecar, entries, verb, keyEdits>>

KeyStep == KeysReady \/ LookUpKey \/ StoreKey \/ (~up /\ CallFails) \/ KeysSleep \/ KeysWake
KeysNext == KeyStep \/ CallFails \/ EditSecret \/ LitellmStops \/ LitellmStarts \/ DatabaseRestored

KeysSpec == KeysInit /\ [][KeysNext]_keyVars

\* The loop goes on, and Kubernetes restarts LiteLLM.
KeysFair == WF_keyVars(KeyStep) /\ WF_keyVars(LitellmStarts)

-----------------------------------------------------------------------------
(* "Make LiteLLM's virtual keys match git": whatever failed, was restored or changed
   on the way, every key that LiteLLM accepts comes to be what the file says and stays
   so, also with an entry before it that fails forever (ensure_keys.py:79). *)
KeysConverge == <>[](\A e \in Range(KeysFile) \ Refused : stored[e] = secret[e])
=============================================================================
