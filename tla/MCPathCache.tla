----------------------------- MODULE MCPathCache -----------------------------
(***************************************************************************)
(* PathCache on small instances: names a and b share a chain of the table, *)
(* c has its own, and bad does not parse.                                  *)
(***************************************************************************)
EXTENDS PathCache

CONSTANTS t1, t2, h1, h2, h3

OneThread  == {t1}
TwoThreads == {t1, t2}
TwoHandles   == {h1, h2}
ThreeHandles == {h1, h2, h3}
NamesAB    == {"a", "b"}
NamesABad  == {"a", "bad"}
NameA      == {"a"}
NamesAC    == {"a", "c"}
NamesABBad == {"a", "b", "bad"}
MCBucket   == [n \in {"a", "b", "c", "bad"} |-> IF n \in {"a", "b"} THEN 1 ELSE 2]

\* How a program uses the paths.
SharedReaders == {"ref", "clone", "cache_lock"}
SoleOwner     == {"clone", "mutate"}
AllSequential == {"ref", "clone", "mutate"}
Mutators      == {"mutate"}
Forker        == {"ref", "cache_lock", "hash_add_fails"}
=============================================================================
