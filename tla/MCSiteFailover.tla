--------------------------- MODULE MCSiteFailover ---------------------------
(* SiteFailover for TLC: the symmetry of its safety runs, and the claims of  *)
(* the code and the docs that its violation runs put to the test.            *)
EXTENDS SiteFailoverDataProofs, TLC

Symmetry == Permutations(Clusters) \cup Permutations(Pvcs)

\* "By default a failed PVC copy starts the app again on the old site"
\* (multi-site.md): once the rollback has dropped the old site's override, what
\* is left tells its Flux to run the app.
RollbackRestarts == pc \in {"rollbackKs", "rollbackWait"} => EffReplicas(src) = "1"

=============================================================================
