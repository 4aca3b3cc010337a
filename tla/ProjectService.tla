--------------------------- MODULE ProjectService ---------------------------
(***************************************************************************)
(* useProgramFromProjectService: a file is opened in TypeScript's project  *)
(* service, which says whether a tsconfig includes it.  The service reads a*)
(* tsconfig once and watches nothing, so a file it does not know may have  *)
(* been included since: outside a single run the projects are reloaded and *)
(* the file is opened again, but not too often.  Files that                *)
(* allowDefaultProject matches are served without a tsconfig, but not too  *)
(* many.                                                                   *)
(***************************************************************************)
EXTENDS Integers, FiniteSets

CONSTANTS Files,      \* absolute paths
          Odd,        \* those whose extension TypeScript does not know
          Allowed,    \* those that allowDefaultProject matches
          Limit,      \* maximumDefaultProjectFileMatchCount
          Throttle,   \* RELOAD_THROTTLE_MS, in steps of the clock
          Nothing

ASSUME ServiceAssumption ==
    /\ IsFiniteSet(Files) /\ Odd \subseteq Files /\ Allowed \subseteq Files
    /\ Limit \in Nat /\ Throttle \in Nat

VARIABLES
    config,    \* the tsconfig on disk: the files it includes, whether it has errors
    service,   \* TSSERVER_PROJECT_SERVICE, Nothing before it is made
    matched    \* defaultProjectMatchedFiles

serviceVars == <<config, service, matched>>

Configs == [files : SUBSET Files, broken : BOOLEAN]

(* The service: the extra file extensions it was told of (only whether Odd *)
(* files' are among them matters), the tsconfig as it was read, and the age*)
(* of lastReloadTimestamp, up to where the throttle is past.               *)
Services == [extra : BOOLEAN, loaded : Configs \cup {Nothing}, age : 0..(Throttle + 1)]

NewService == [extra |-> FALSE, loaded |-> Nothing, age |-> 0]

(* A tsconfig as the service reads it: files of other extensions are in it *)
(* only if the service was told of them.                                   *)
Reading(extra) == [config EXCEPT !.files = IF extra THEN @ ELSE @ \ Odd]

Reloaded(svc) == [svc EXCEPT !.loaded = Nothing]

Opened(svc) == IF svc.loaded = Nothing THEN [svc EXCEPT !.loaded = Reading(svc.extra)] ELSE svc

Includes(svc, f) == f \in svc.loaded.files

WithExtensions(svc, extra) ==
    IF svc.extra = extra THEN svc ELSE Reloaded([svc EXCEPT !.extra = extra])

(* Mutant: the comparison with the throttle is turned round.               *)
MayReloadEarly(svc, f, singleRun) ==
    /\ ~svc.loaded.broken /\ ~Includes(svc, f) /\ ~singleRun /\ f \notin Allowed
    /\ svc.age < Throttle

(* configFileErrors are those of the tsconfig as it was read.              *)
MayReload(svc, f, singleRun) ==
    /\ ~svc.loaded.broken
    /\ ~Includes(svc, f)
    /\ ~singleRun
    /\ f \notin Allowed
    /\ svc.age > Throttle

(* Mutant: the file is not opened again, and the first result stands.      *)
OpenedOnce(svc, f, singleRun) ==
    LET once == Opened(svc)
    IN  IF MayReload(once, f, singleRun) THEN [once EXCEPT !.age = 0] ELSE once

OpenedAndMaybeReloaded(svc, f, singleRun) ==
    LET once == Opened(svc)
    IN  IF MayReload(once, f, singleRun) THEN [Opened(Reloaded(once)) EXCEPT !.age = 0] ELSE once

FoundThough  == "allowed but found"
NonStandard  == "non-standard extension"
Unknown      == "not found"
TooMany      == "too many"
InProject    == "project"
InDefault    == "default project"

(* Mutant: the size is looked at before the file is added.                 *)
OverLimitBefore(f) == Cardinality(matched) > Limit

OverLimit(f) == Cardinality(matched \cup {f}) > Limit

(* What comes of the open.                                                 *)
Outcome(svc, f) ==
    CASE Includes(svc, f) /\ f \in Allowed                     -> FoundThough
      [] Includes(svc, f) /\ f \notin Allowed                  -> InProject
      [] ~Includes(svc, f) /\ f \in Odd /\ ~svc.extra          -> NonStandard
      [] ~Includes(svc, f) /\ (f \in Odd => svc.extra) /\ f \notin Allowed -> Unknown
      [] ~Includes(svc, f) /\ (f \in Odd => svc.extra) /\ f \in Allowed ->
             IF OverLimit(f) THEN TooMany ELSE InDefault

(* Mutant: a file that is refused is taken out of the set again.           *)
MatchedButRefused(svc, f) ==
    IF Outcome(svc, f) = InDefault THEN matched \cup {f} ELSE matched

(* Mutant: a file is added before it is known whether it may be.           *)
MatchedAnyway(svc, f) == IF Includes(svc, f) THEN matched ELSE matched \cup {f}

(* A file over the limit stays in the set.                                 *)
MatchedAfter(svc, f) ==
    IF Outcome(svc, f) \in {InDefault, TooMany} THEN matched \cup {f} ELSE matched

(* The service there is, or the one the first caller makes.                *)
Current == IF service = Nothing THEN NewService ELSE service

(* The service once a call is through with it.                             *)
After(f, extra, singleRun) ==
    OpenedAndMaybeReloaded(WithExtensions(Current, extra), f, singleRun)

ServiceInit ==
    /\ config \in [files : SUBSET Files, broken : {FALSE}]
    /\ service = Nothing
    /\ matched = {}

(* TypeScript drops a project it sees no open file of.                     *)
ServiceForgets ==
    /\ service # Nothing
    /\ service' = Reloaded(service)
    /\ UNCHANGED <<config, matched>>

ClockAdvances ==
    /\ service # Nothing
    /\ service.age <= Throttle
    /\ service' = [service EXCEPT !.age = @ + 1]
    /\ UNCHANGED <<config, matched>>

ServiceCleared ==
    /\ service' = Nothing
    /\ matched' = {}
    /\ UNCHANGED config

ServiceTypeOK ==
    /\ config \in Configs
    /\ service \in Services \cup {Nothing}
    /\ matched \subseteq Allowed
=============================================================================
