---------------------------- MODULE ParserEntry ----------------------------
(***************************************************************************)
(* parseAndGenerateServices of typescript-estree and what it keeps between *)
(* calls: the programs of a single run, how often a file was parsed in one,*)
(* and the project service.  In a single run ESLint reads a file, parses it*)
(* and again after every pass of fixes, and writes it when the passes are  *)
(* over; in an editor it parses what the user types.  clearCaches may come *)
(* between any two calls.                                                  *)
(*                                                                         *)
(* The settings of a session are the same for all its files.  A session    *)
(* with project that is no single run uses the watch programs, which have a*)
(* module of their own.                                                    *)
(***************************************************************************)
EXTENDS ProjectService

CONSTANTS Texts,        \* what a file may say
          Projects,     \* the tsconfigs of parserOptions.project
          Order,        \* the sequence in which they are tried
          Holds         \* Holds[c]: the files of project c

ASSUME EntryAssumption ==
    /\ Order \in [1..Cardinality(Projects) -> Projects]
    /\ \A c \in Projects : \E i \in DOMAIN Order : Order[i] = c
    /\ Holds \in [Projects -> SUBSET Files]
    /\ Nothing \notin Texts

VARIABLES
    mode,        \* which of the parser options the session gives
    singleRun,   \* inferSingleRun
    disk,        \* the text of each file on disk
    linting,     \* ESLint in a single run: the file it lints and the text it has come to
    programs,    \* existingPrograms, or the programs given: the texts they were created from
    calls,       \* parseAndGenerateServicesCalls; not counted where it is never read
    answer,      \* what the last call came back with
    foreign,     \* history: somebody but ESLint has written a file
    served,      \* history: files the default project has served since clearCaches
    refused      \* history: one was refused for the limit since clearCaches

entryVars   == <<mode, singleRun, disk, linting, programs, calls>>
historyVars == <<foreign, served, refused>>
vars        == <<serviceVars, entryVars, answer, historyVars>>

Modes == {"service", "project", "programs", "none"}

Program(c) == [f \in Holds[c] |-> disk[f]]

Init ==
    /\ mode \in Modes
    /\ singleRun \in BOOLEAN
    /\ mode = "project" => singleRun
    /\ mode \in {"programs", "none"} => ~singleRun
    /\ ServiceInit
    /\ mode # "service" => config.files = {}
    /\ disk \in [Files -> Texts]
    /\ mode = "service" => \A f, g \in Files : disk[f] = disk[g]
    /\ linting = Nothing
    /\ programs = [c \in Projects |-> IF mode = "programs" THEN Program(c) ELSE Nothing]
    /\ calls = [f \in Files |-> 0]
    /\ answer = Nothing
    /\ foreign = FALSE /\ served = {} /\ refused = FALSE

----------------------------------------------------------------------------
Counted == singleRun /\ mode # "service"

(* Only whether there was more than one call matters, so 2 stands for more.*)
CallsAfter(f) == [calls EXCEPT ![f] = IF Counted /\ @ < 2 THEN @ + 1 ELSE @]

(* Mutant: the third call is the first that is isolated.                   *)
IsolatedLate(f) == Counted /\ calls[f] > 1

Isolated(f) == Counted /\ CallsAfter(f)[f] > 1

(* The projects the lazy list comes to: those before the first that has the*)
(* file, and that one.                                                     *)
Tried(f) ==
    {Order[i] : i \in {k \in DOMAIN Order : \A j \in 1..(k - 1) : f \notin Holds[Order[j]]}}

(* Programs are created as they are come to, of the disk as it is then.    *)
ProgramsAfter(f) ==
    [c \in Projects |->
        IF c \in Tried(f) /\ programs[c] = Nothing THEN Program(c) ELSE programs[c]]

(* What a call comes back with: whether its AST, if there is one, is of the*)
(* text it was given, and whether a reload was allowed by the throttle.    *)
Answered(f, result, fresh) ==
    answer' = [file |-> f, result |-> result, fresh |-> fresh,
               waited |-> Current.age > Throttle]

ParseIsolated(f) ==
    /\ Isolated(f)
    /\ Answered(f, "isolated", TRUE)
    /\ UNCHANGED <<serviceVars, programs, served, refused>>

(* The language service is told of the text and brings its program up to   *)
(* date with it.                                                           *)
ParseWithService(f) ==
    /\ mode = "service"
    /\ \E extra \in BOOLEAN : \E svc \in {After(f, extra, singleRun)} :
          /\ service' = svc
          /\ matched' = MatchedAfter(svc, f)
          /\ Answered(f, Outcome(svc, f), TRUE)
          /\ served' = IF Outcome(svc, f) = InDefault THEN served \cup {f} ELSE served
          /\ refused' = (refused \/ Outcome(svc, f) = TooMany)
    /\ UNCHANGED <<config, programs>>

(* useProvidedPrograms takes the first program that has the file.          *)
ParseWithPrograms(f, code) ==
    /\ mode \in {"project", "programs"}
    /\ ~Isolated(f)
    /\ programs' = ProgramsAfter(f)
    /\ \/ /\ \A c \in Projects : f \notin Holds[c]
          /\ Answered(f, "not in any program", TRUE)
       \/ \E c \in Tried(f) :
             /\ f \in Holds[c]
             /\ Answered(f, "program", ProgramsAfter(f)[c][f] = code)
    /\ UNCHANGED <<serviceVars, served, refused>>

(* createNoProgram.                                                        *)
ParseAlone(f) ==
    /\ mode = "none"
    /\ Answered(f, "no program", TRUE)
    /\ UNCHANGED <<serviceVars, programs, served, refused>>

ParseAndGenerateServices(f, code) ==
    /\ calls' = CallsAfter(f)
    /\ \/ ParseIsolated(f)
       \/ ParseWithService(f)
       \/ ParseWithPrograms(f, code)
       \/ ParseAlone(f)
    /\ UNCHANGED <<mode, singleRun, disk, foreign>>

(* A single run takes up a file.                                           *)
LintFile(f) ==
    /\ Counted /\ linting = Nothing
    /\ ParseAndGenerateServices(f, disk[f])
    /\ linting' = [file |-> f, code |-> disk[f]]

(* A pass of fixes has made another text of it.                            *)
FixPass ==
    /\ linting # Nothing
    /\ \E code \in Texts \ {linting.code} :
          /\ ParseAndGenerateServices(linting.file, code)
          /\ linting' = [linting EXCEPT !.code = code]

(* The fixed text is written, if it is to be.                              *)
FinishFile ==
    /\ linting # Nothing
    /\ disk' \in {disk, [disk EXCEPT ![linting.file] = linting.code]}
    /\ linting' = Nothing
    /\ UNCHANGED <<serviceVars, mode, singleRun, programs, calls, answer, historyVars>>

(* An editor lints what is being typed.  To the service, which is told of  *)
(* every text, the calls of a single run are like these.                   *)
LintBuffer(f) ==
    /\ ~Counted
    /\ \E code \in Texts : ParseAndGenerateServices(f, code)
    /\ UNCHANGED linting

(* Somebody else writes a file.                                            *)
EditFile ==
    /\ mode # "service"
    /\ \E f \in Files, text \in Texts : text # disk[f] /\ disk' = [disk EXCEPT ![f] = text]
    /\ foreign' = TRUE
    /\ UNCHANGED <<serviceVars, mode, singleRun, linting, programs, calls, answer, served, refused>>

(* Somebody changes the tsconfig the service looks at.                     *)
EditConfig ==
    /\ mode = "service"
    /\ \/ config' = [config EXCEPT !.broken = ~@]
       \/ \E f \in Files : config' = [config EXCEPT !.files = IF f \in @ THEN @ \ {f} ELSE @ \cup {f}]
    /\ answer' = Nothing
    /\ UNCHANGED <<service, matched, entryVars, historyVars>>

(* clearCaches; the number of calls is not among what it clears.           *)
ClearCaches ==
    /\ ServiceCleared
    /\ programs' = IF mode = "programs" THEN programs ELSE [c \in Projects |-> Nothing]
    /\ served' = {} /\ refused' = FALSE
    /\ UNCHANGED <<mode, singleRun, disk, linting, calls, answer, foreign>>

Tick         == ClockAdvances  /\ UNCHANGED <<entryVars, answer, historyVars>>
DropProjects == ServiceForgets /\ UNCHANGED <<entryVars, answer, historyVars>>

Next ==
    \/ \E f \in Files : LintFile(f) \/ LintBuffer(f)
    \/ FixPass \/ FinishFile
    \/ EditFile \/ EditConfig
    \/ ClearCaches \/ Tick \/ DropProjects

Spec == Init /\ [][Next]_vars

(* The editor lints every file again and again, and time goes on.          *)
FairSpec == Spec /\ WF_vars(Tick) /\ \A f \in Files : WF_vars(LintBuffer(f))

----------------------------------------------------------------------------
(* What parser.ts and useProgramFromProjectService.ts keep between calls.  *)
TypeOK ==
    /\ ServiceTypeOK
    /\ mode \in Modes /\ singleRun \in BOOLEAN /\ foreign \in BOOLEAN /\ refused \in BOOLEAN
    /\ disk \in [Files -> Texts]
    /\ linting \in [file : Files, code : Texts] \cup {Nothing}
    /\ DOMAIN programs = Projects
    /\ \A c \in Projects : programs[c] \in [Holds[c] -> Texts] \cup {Nothing}
    /\ calls \in [Files -> 0..2]
    /\ served \subseteq matched

(* While nobody else writes files, every AST is of the text the parser was *)
(* given: in all passes of fixes, for files linted again after their fixes *)
(* were written, and with clearCaches between any two calls, though the    *)
(* programs of a single run are made once and never updated                *)
(* (parser.ts:221-246).  Programs the user gives are the user's business.  *)
TextIsCode ==
    answer # Nothing /\ ~foreign /\ mode # "programs" => answer.fresh

(* A file that is refused as unknown when the last reload is longer ago    *)
(* than the throttle is not included by the tsconfig on disk, whatever the *)
(* service had read (useProgramFromProjectService.ts:159-182).             *)
RefusalIsCurrent ==
    answer # Nothing /\ answer.result = Unknown /\ answer.waited /\ ~singleRun
        /\ service # Nothing /\ service.loaded # Nothing /\ ~service.loaded.broken
    => answer.file \notin Reading(service.extra).files

(* Since clearCaches no more files have been served by the default project *)
(* than its limit allows (useProgramFromProjectService.ts:123-146).        *)
ServedWithinLimit == Cardinality(served) <= Limit

(* Once a file was refused for the limit, no file is served by the default *)
(* project until clearCaches, not even one that was served before: the set *)
(* of matched files only grows (useProgramFromProjectService.ts:124-128).  *)
LimitSticks ==
    [][refused /\ answer' # answer /\ answer' # Nothing => answer'.result # InDefault]_vars

(* In an editor, a file that the tsconfig includes from some time on, and  *)
(* that no other option claims, is served from its project again and again,*)
(* though the service watches nothing and reloads at most once in a while  *)
(* (useProgramFromProjectService.ts:164-182).                              *)
IncludedIsServed ==
    \A f \in Files \ (Odd \cup Allowed) :
        ~singleRun /\ mode = "service" /\ [](~config.broken) /\ <>[](f \in config.files) =>
            []<>(answer # Nothing /\ answer.file = f /\ answer.result = InProject)
=============================================================================
