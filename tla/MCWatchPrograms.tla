-------------------------- MODULE MCWatchPrograms --------------------------
(* Small instances of WatchPrograms for TLC. *)
EXTENDS WatchPrograms

CONSTANTS P, Q, a, b

NoImports == [f \in Files |-> {}]

(* Two projects; b is of the second, and a, of the first, imports it. *)
SharedIncludes == [x \in Projects |-> IF x = P THEN {{a}} ELSE {{b}}]
SharedImports  == [f \in Files |-> IF f = a THEN {b} ELSE {}]
SharedWatched  == [x \in Projects |-> IF x = P THEN {a} ELSE {b}]
BothRequest    == {<<P, Q>>}

(* Two projects: P has a, Q has b or nothing and watches the folder of a.   *)
TwoIncludes == [x \in Projects |-> IF x = P THEN {{a}} ELSE {{}, {b}}]
TwoWatched  == [x \in Projects |-> IF x = P THEN {a} ELSE {a, b}]
=============================================================================
