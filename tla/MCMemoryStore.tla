---------------------------- MODULE MCMemoryStore ----------------------------
(* Small instances of MemoryStore for TLC.                                  *)
EXTENDS MemoryStore, TLC

CONSTANTS k1, k2, k3, f, s

TwoKinds == [k \in Keys |-> IF k = k3 THEN s ELSE f]
WriterAndReaders == 1 :> {"upsert", "init"} @@ 2 :> {"all"} @@ 3 :> {"get", "all"}
WriterAndLister == 1 :> {"upsert"} @@ 2 :> {"all"}
CellSymmetry == Permutations(Cells)
=============================================================================
