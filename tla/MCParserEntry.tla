--------------------------- MODULE MCParserEntry ---------------------------
(* A few files and two projects for ParserEntry.                           *)
EXTENDS ParserEntry

CONSTANTS plain, own, strange, One, Two

(* A file of a project; two that allowDefaultProject matches, one of them  *)
(* with an extension of its own.                                           *)
ManyFiles    == {plain, own, strange}
OddFiles     == {strange}
AllowedFiles == {own, strange}

TwoOrder     == <<One, Two>>
TwoHolds     == [c \in {One, Two} |-> IF c = One THEN {plain} ELSE {plain, own}]
=============================================================================
