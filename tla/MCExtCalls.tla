----------------------------- MODULE MCExtCalls -----------------------------
(* Small instances of ExtCalls: the sets of calls the configurations give   *)
(* the scripts, and the symmetry of threads and scripts.                    *)
EXTENDS ExtCallsProps, TLC

Async(k)  == [mode |-> "async", kind |-> k]
Oneway(k) == [mode |-> "oneway", kind |-> k]
Sync(k)   == [mode |-> "sync", kind |-> k]

\* Calls of a healthy server, in every mode.
HealthyCalls == {Async("answer"), Async("vac"), Async("unknown"), Oneway("answer"), Sync("answer")}

\* Calls that go wrong, next to stored procedures.
FaultyCalls == {Async("throws"), Async("vacShort"), Async("vacPrivate"), Async("answer"),
                Async("procedure"), Oneway("procedure"), Oneway("vac"), Oneway("unknown"),
                Sync("throws"), Sync("vac")}

\* Procedures with outputs, for two workers at once.
ProcedureCalls == {Async("procedure")}

Symmetry == Permutations(Scripts) \cup Permutations(Workers)
=============================================================================
