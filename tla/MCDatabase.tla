----------------------------- MODULE MCDatabase -----------------------------
(* Small instances of StatementCache: the templates protocols have loaded.  *)
EXTENDS StatementCache, TLC

Template(p, n, k, c) == [protocol |-> p, name |-> n, size |-> k, cached |-> c]

\* Two protocols of one database, whose call names differ; one caches.
DistinctNames == {Template("p", "a", 2, TRUE), Template("q", "b", 1, FALSE)}

\* One protocol with one call.
OneTemplate == {Template("p", "a", 1, TRUE)}

Symmetry == Permutations(Users) \cup Permutations(Sessions)
=============================================================================
