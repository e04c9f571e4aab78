----------------------------- MODULE MCStartup ------------------------------
(***************************************************************************)
(* Small instances of Startup for TLC: the files of three versions.        *)
(***************************************************************************)
EXTENDS Startup

CONSTANTS p1, p2

MCAdditions == <<"customer_total", "method", "mode">>

\* A database of the version that had the first n of the columns.
OfVersion(n, total) ==
    [tables |-> IF n = 3 THEN SchemaTables ELSE {"users", "projects"},
     columns |-> ToSet(SubSeq(MCAdditions, 1, n)), total |-> total, users |-> TRUE, auto |-> TRUE]

First    == OfVersion(0, p1 :> "none")
Second   == {OfVersion(2, p1 :> t) : t \in {"zero", "other"}}
Unused   == OfVersion(3, EmptyTable)

AllTargets == {First, Missing} \cup Second \cup {Unused, OfVersion(3, p1 :> "other")}
AnyLegacy  == {Missing, OfVersion(0, p2 :> "none")}
=============================================================================
