---------------------------- MODULE SingleWriter ----------------------------
(***************************************************************************)
(* What a switchover promises for the stores of an app (its PVCs and its   *)
(* Postgres clusters): one site at a time may write a store, writing       *)
(* starts only at a site whose copy has every acknowledged write, and no   *)
(* write is lost: some site always has them all.  multi-site.md: "only one *)
(* site runs a given app", "RPO 0".  Nothing is promised of a store that   *)
(* somebody else than its writer has written, and only a fragile one may   *)
(* be.                                                                     *)
(***************************************************************************)

CONSTANTS
  Sites, Stores,
  Nobody,    \* no site
  Fragile    \* the stores whose writer may outlive the release of its store

VARIABLES
  writer,    \* writer[d]: the site that may write d now, or Nobody
  current,   \* current[d]: the sites whose copy of d has every acknowledged write
  intruded   \* the stores that a former writer has written

TypeOK ==
  /\ intruded \subseteq Fragile
  /\ writer \in [Stores -> Sites \cup {Nobody}]
  /\ current \in [Stores -> SUBSET Sites]

Init == \E s \in Sites :
  /\ writer = [d \in Stores |-> s]
  /\ current = [d \in Stores |-> {s}]
  /\ intruded = {}

Keep(d) == writer'[d] = writer[d] /\ current'[d] = current[d]

Acquire(d) ==
  writer[d] = Nobody /\ writer'[d] \in current[d] /\ current'[d] = current[d]

Release(d) ==
  writer[d] # Nobody /\ writer'[d] = Nobody /\ current'[d] = current[d]

Write(d) ==
  writer[d] # Nobody /\ current'[d] = {writer[d]} /\ writer'[d] = writer[d]

\* A copy catches up with a complete one.
Sync(d) ==
  /\ current[d] # {}
  /\ \E s \in Sites : current'[d] = current[d] \cup {s}
  /\ writer'[d] = writer[d]

\* A copy nobody writes to is overwritten, but never the last complete one.
Spoil(d) ==
  /\ \E s \in Sites \ {writer[d]} : current'[d] = current[d] \ {s}
  /\ current'[d] # {}
  /\ writer'[d] = writer[d]

\* One step of the app's workloads may concern all of its PVCs at once.
Next ==
  /\ intruded \subseteq intruded' /\ intruded' \subseteq Fragile
  /\ \A d \in Stores \ intruded' :
       Keep(d) \/ Acquire(d) \/ Release(d) \/ Write(d) \/ Sync(d) \/ Spoil(d)

Spec == Init /\ [][Next]_<<writer, current, intruded>>

=============================================================================
