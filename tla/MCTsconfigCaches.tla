------------------------- MODULE MCTsconfigCaches --------------------------
(* A small tree of directories for TsconfigCaches.                         *)
EXTENDS TsconfigCaches

CONSTANTS r, p, q

(* /r, /r/p and /r/q.                                                      *)
TreeDirs   == {r, p, q}
TreeAbove  == [d \in TreeDirs |-> {r, d}]
TreeLength == [d \in TreeDirs |-> IF d = r THEN 2 ELSE 4]
TreeRoots  == {p}
TreeConfigs == {r, p}
=============================================================================
