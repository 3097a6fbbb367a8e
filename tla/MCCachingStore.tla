--------------------------- MODULE MCCachingStore ---------------------------
(* Small instances of CachingStore for TLC.                                 *)
EXTENDS CachingStore, TLC

CONSTANTS k1, f

OneKind == [k \in Keys |-> f]
\* What application threads call: evaluations of a flag ask first whether the
\* store is initialized; LDAllFlagsState reads the collection.
Evaluates == 2 :> {} @@ 3 :> {"get", "initialized"}
ReadsAll == 2 :> {} @@ 3 :> {"all"}
ReadsBoth == 2 :> {"get"} @@ 3 :> {"all"}
\* The network thread writes, application threads read.
Feed ==
    {[calls |-> 1 :> {"upsert", "init"} @@ reads, external |-> FALSE] :
        reads \in {Evaluates, ReadsBoth}}
\* Daemon mode: the process only reads, another one writes.
Daemon ==
    {[calls |-> 1 :> {} @@ reads, external |-> TRUE] : reads \in {Evaluates, ReadsAll}}
FeedOrDaemon == Feed \cup Daemon
NoFalseNo == Operations \ {"initialized"}
=============================================================================
