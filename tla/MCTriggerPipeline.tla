------------------------- MODULE MCTriggerPipeline -------------------------
(* Small instances of TriggerPipeline for TLC. *)
EXTENDS TriggerPipeline

S(path, covered, rest, restCovered, errors) ==
    [path   |-> [total |-> path, covered |-> covered],
     rest   |-> [total |-> rest, covered |-> restCovered],
     errors |-> errors]

(* Everything covered; one branch missed; one branch in eleven covered,     *)
(* which verifyPlatformRatios stops, and an ESLint error; no branch at all. *)
FullSubject   == S(4, 4, 1, 1, 0)
MissSubject   == S(4, 3, 0, 0, 0)
LowSubject    == S(10, 1, 1, 0, 1)
NoBranches    == S(0, 0, 0, 0, 0)

(* No branch in the path detection files.                                   *)
RestSubject   == S(0, 0, 4, 4, 0)

(* 99.5%, which is rounded to 100%, and 99.3%, which is not.               *)
EdgeSubject   == S(200, 199, 0, 0, 0)
NearSubject   == S(150, 149, 0, 0, 0)

SequentialSubjects == {FullSubject, EdgeSubject, NearSubject, NoBranches}
OverlapSubjects    == {FullSubject, LowSubject}
BesideSubjects     == {RestSubject, MissSubject}
MissedSubjects     == {FullSubject, MissSubject}
=============================================================================
