-------------------------- MODULE ParserEntryProofs --------------------------
(***************************************************************************)
(* Theorems about ParserEntry, for any files, texts, projects, limit and   *)
(* throttle: type correctness, that ASTs are of the text that was parsed,  *)
(* that refusals are of the tsconfig on disk, and what the limit of the    *)
(* default project promises.                                               *)
(***************************************************************************)
EXTENDS ParserEntry, FiniteSetTheorems, TLAPS

----------------------------------------------------------------------------
(* What the service makes of a file.                                       *)

LEMMA ReadingIsConfig ==
    ASSUME config \in Configs, NEW extra
    PROVE  Reading(extra) \in Configs /\ Reading(extra).broken = config.broken
BY DEF Reading, Configs

LEMMA OpenedIsService ==
    ASSUME config \in Configs, NEW svc \in Services
    PROVE  /\ Opened(svc) \in Services
           /\ Opened(svc).extra = svc.extra /\ Opened(svc).age = svc.age
           /\ Opened(svc).loaded = IF svc.loaded = Nothing THEN Reading(svc.extra) ELSE svc.loaded
<1>1. Reading(svc.extra) \in Configs
    BY ReadingIsConfig
<1> QED BY <1>1 DEF Opened, Services

LEMMA ReloadedIsService ==
    ASSUME NEW svc \in Services
    PROVE  /\ Reloaded(svc) \in Services /\ Reloaded(svc).loaded = Nothing
           /\ Reloaded(svc).extra = svc.extra /\ Reloaded(svc).age = svc.age
BY DEF Reloaded, Services

LEMMA CurrentIsService ==
    ASSUME ServiceTypeOK
    PROVE  Current \in Services
<1>1. 0 \in 0..(Throttle + 1)
    BY ServiceAssumption
<1>2. NewService \in Services
    BY <1>1 DEF NewService, Services
<1> QED BY <1>2 DEF Current, ServiceTypeOK

LEMMA WithExtensionsIsService ==
    ASSUME NEW svc \in Services, NEW extra \in BOOLEAN
    PROVE  /\ WithExtensions(svc, extra) \in Services
           /\ WithExtensions(svc, extra).extra = extra
           /\ WithExtensions(svc, extra).age = svc.age
<1>1. [svc EXCEPT !.extra = extra] \in Services
    BY DEF Services
<1>2. [svc EXCEPT !.extra = extra].extra = extra /\ [svc EXCEPT !.extra = extra].age = svc.age
    BY DEF Services
<1> QED BY <1>1, <1>2, ReloadedIsService DEF WithExtensions

(* The throttled reload either was not due, and the tsconfig is the one    *)
(* first opened, or has read the tsconfig on disk.                         *)
LEMMA ReloadCases ==
    ASSUME config \in Configs, NEW svc \in Services, NEW f, NEW singleRun_
    PROVE  LET once  == Opened(svc)
               after == OpenedAndMaybeReloaded(svc, f, singleRun_)
           IN  /\ after \in Services /\ after.extra = svc.extra
               /\ \/ ~ MayReload(once, f, singleRun_) /\ after = once
                  \/ MayReload(once, f, singleRun_) /\ after.loaded = Reading(svc.extra)
<1> DEFINE once == Opened(svc)
           again == Opened(Reloaded(once))
<1>1. once \in Services /\ once.extra = svc.extra
    BY OpenedIsService
<1>2. Reloaded(once) \in Services /\ Reloaded(once).loaded = Nothing
      /\ Reloaded(once).extra = svc.extra
    BY <1>1, ReloadedIsService
<1>3. again \in Services /\ again.extra = svc.extra /\ again.loaded = Reading(svc.extra)
    BY <1>2, OpenedIsService
<1>4. 0 \in 0..(Throttle + 1)
    BY ServiceAssumption
<1> HIDE DEF again, once
<1>5. /\ [again EXCEPT !.age = 0] \in Services
      /\ [again EXCEPT !.age = 0].extra = svc.extra
      /\ [again EXCEPT !.age = 0].loaded = Reading(svc.extra)
    BY <1>3, <1>4 DEF Services
<1> QED BY <1>1, <1>5 DEF OpenedAndMaybeReloaded, once, again

LEMMA AfterIsService ==
    ASSUME ServiceTypeOK, NEW f, NEW extra \in BOOLEAN
    PROVE  After(f, extra, singleRun) \in Services /\ After(f, extra, singleRun).extra = extra
<1>1. WithExtensions(Current, extra) \in Services /\ WithExtensions(Current, extra).extra = extra
    BY CurrentIsService, WithExtensionsIsService
<1> QED BY <1>1, ReloadCases DEF After, ServiceTypeOK

(* Only files that allowDefaultProject matches are put into the set, and   *)
(* none is taken out of it.                                                *)
LEMMA MatchedGrows ==
    ASSUME matched \subseteq Allowed, NEW svc, NEW f \in Files
    PROVE  /\ matched \subseteq MatchedAfter(svc, f) /\ MatchedAfter(svc, f) \subseteq Allowed
           /\ Outcome(svc, f) \in {InDefault, TooMany} => MatchedAfter(svc, f) = matched \cup {f}
<1>1. Outcome(svc, f) \in {InDefault, TooMany} => f \in Allowed
    BY Zenon DEF Outcome, InDefault, TooMany, FoundThough, InProject, NonStandard, Unknown
<1> QED BY <1>1 DEF MatchedAfter

----------------------------------------------------------------------------
(* What the steps leave alone.                                             *)

LEMMA ParsingParts ==
    ASSUME NEW f, NEW code, ParseAndGenerateServices(f, code)
    PROVE  /\ UNCHANGED <<config, mode, singleRun, disk, foreign>>
           /\ calls' = CallsAfter(f)
           /\ \/ UNCHANGED <<service, matched, served, refused>> /\ answer'.result = "isolated"
              \/ UNCHANGED <<service, matched, served, refused>> /\ answer'.result = "not in any program"
              \/ UNCHANGED <<service, matched, served, refused>> /\ answer'.result = "program"
              \/ UNCHANGED <<service, matched, served, refused>> /\ answer'.result = "no program"
              \/ ParseWithService(f)
           /\ programs' = programs \/ programs' = ProgramsAfter(f)
<1>1. UNCHANGED <<config, mode, singleRun, disk, foreign>> /\ calls' = CallsAfter(f)
    BY DEF ParseAndGenerateServices, ParseIsolated, ParseWithService, ParseWithPrograms,
           ParseAlone, serviceVars
<1>2. CASE ParseIsolated(f)
    BY <1>1, <1>2 DEF ParseIsolated, Answered, serviceVars
<1>3. CASE ParseWithService(f)
    BY <1>1, <1>3 DEF ParseWithService
<1>4. CASE ParseWithPrograms(f, code)
    <2>1. UNCHANGED <<config, service, matched, served, refused>> /\ programs' = ProgramsAfter(f)
        BY <1>4 DEF ParseWithPrograms, serviceVars
    <2>2. Answered(f, "not in any program", TRUE)
          \/ \E fresh : Answered(f, "program", fresh)
        BY <1>4, Zenon DEF ParseWithPrograms
    <2>3. ASSUME NEW result, NEW fresh, Answered(f, result, fresh)
          PROVE  answer'.result = result
        BY <2>3 DEF Answered
    <2>4. answer'.result = "not in any program" \/ answer'.result = "program"
        BY <2>2, <2>3, Zenon
    <2> QED BY <1>1, <2>1, <2>4
<1>5. CASE ParseAlone(f)
    BY <1>1, <1>5 DEF ParseAlone, Answered, serviceVars
<1>6. ParseIsolated(f) \/ ParseWithService(f) \/ ParseWithPrograms(f, code) \/ ParseAlone(f)
    BY DEF ParseAndGenerateServices
<1> QED BY <1>2, <1>3, <1>4, <1>5, <1>6, Zenon

(* A step either parses a text of a file or does none of the work of a     *)
(* call.                                                                   *)
LEMMA Steps ==
    ASSUME TypeOK, [Next]_vars
    PROVE  \/ \E f \in Files, code \in Texts : ParseAndGenerateServices(f, code)
           \/ FinishFile \/ EditFile \/ EditConfig \/ ClearCaches \/ Tick \/ DropProjects
           \/ UNCHANGED vars
<1>1. ASSUME NEW f \in Files, LintFile(f)
      PROVE  disk[f] \in Texts /\ ParseAndGenerateServices(f, disk[f])
    BY <1>1 DEF LintFile, TypeOK
<1>2. ASSUME NEW f \in Files, LintBuffer(f)
      PROVE  \E code \in Texts : ParseAndGenerateServices(f, code)
    BY <1>2 DEF LintBuffer
<1>3. ASSUME FixPass
      PROVE  linting.file \in Files
             /\ \E code \in Texts : ParseAndGenerateServices(linting.file, code)
    BY <1>3 DEF FixPass, TypeOK
<1> QED BY <1>1, <1>2, <1>3 DEF Next

(* The text the linter has come to is a text.                              *)
LEMMA LintingStep ==
    ASSUME TypeOK, [Next]_vars
    PROVE  linting' \in [file : Files, code : Texts] \cup {Nothing}
<1>1. ASSUME NEW f \in Files, LintFile(f)
      PROVE  linting' \in [file : Files, code : Texts]
    BY <1>1 DEF LintFile, TypeOK
<1>2. ASSUME FixPass
      PROVE  linting' \in [file : Files, code : Texts]
    BY <1>2 DEF FixPass, TypeOK
<1>3. \/ \E f \in Files : LintBuffer(f)
      \/ EditFile \/ EditConfig \/ ClearCaches \/ Tick \/ DropProjects \/ UNCHANGED vars
      => linting' = linting
    BY DEF LintBuffer, EditFile, EditConfig, ClearCaches, Tick, DropProjects, vars, entryVars
<1>4. FinishFile => linting' = Nothing
    BY DEF FinishFile
<1> QED BY <1>1, <1>2, <1>3, <1>4 DEF Next, TypeOK

----------------------------------------------------------------------------
(* The type invariant, part by part.                                       *)
ProgramsOK ==
    /\ DOMAIN programs = Projects
    /\ \A c \in Projects : programs[c] \in [Holds[c] -> Texts] \cup {Nothing}

EntryOK ==
    /\ mode \in Modes /\ singleRun \in BOOLEAN /\ foreign \in BOOLEAN /\ refused \in BOOLEAN
    /\ disk \in [Files -> Texts]
    /\ linting \in [file : Files, code : Texts] \cup {Nothing}
    /\ calls \in [Files -> 0..2]

Parts == ServiceTypeOK /\ EntryOK /\ ProgramsOK /\ served \subseteq matched

LEMMA TypeParts == (TypeOK <=> Parts) /\ (TypeOK' <=> Parts')
BY DEF TypeOK, Parts, EntryOK, ProgramsOK

LEMMA ProgramIsTexts ==
    ASSUME disk \in [Files -> Texts], NEW c \in Projects
    PROVE  Program(c) \in [Holds[c] -> Texts]
<1>1. Holds[c] \subseteq Files
    BY EntryAssumption
<1> QED BY <1>1 DEF Program

LEMMA ServiceTyped ==
    ASSUME ServiceTypeOK, NEW f \in Files, ParseWithService(f)
    PROVE  ServiceTypeOK' /\ matched \subseteq matched'
<1>1. PICK extra \in BOOLEAN : service' = After(f, extra, singleRun)
                             /\ matched' = MatchedAfter(After(f, extra, singleRun), f)
    BY DEF ParseWithService
<1>2. config' = config
    BY DEF ParseWithService
<1>3. service' \in Services
    BY <1>1, AfterIsService
<1>4. matched' \subseteq Allowed /\ matched \subseteq matched'
    BY <1>1, MatchedGrows DEF ServiceTypeOK
<1> QED BY <1>2, <1>3, <1>4 DEF ServiceTypeOK

LEMMA ServiceStep ==
    ASSUME TypeOK, [Next]_vars
    PROVE  ServiceTypeOK' /\ (matched \subseteq matched' \/ ClearCaches)
<1>0. ServiceTypeOK
    BY DEF TypeOK
<1>1. ASSUME NEW f \in Files, NEW code \in Texts, ParseAndGenerateServices(f, code)
      PROVE  ServiceTypeOK' /\ matched \subseteq matched'
    BY <1>0, <1>1, ParsingParts, ServiceTyped DEF ServiceTypeOK
<1>2. ASSUME FinishFile \/ EditFile \/ UNCHANGED vars
      PROVE  UNCHANGED serviceVars
    BY <1>2 DEF FinishFile, EditFile, vars
<1>3. ASSUME EditConfig
      PROVE  config' \in Configs /\ UNCHANGED <<service, matched>>
    <2>1. config.files \in SUBSET Files /\ config.broken \in BOOLEAN
          /\ config = [files |-> config.files, broken |-> config.broken]
        BY <1>0 DEF Configs, ServiceTypeOK
    <2>2. [config EXCEPT !.broken = ~ config.broken] \in Configs
        BY <2>1 DEF Configs
    <2>3. ASSUME NEW f \in Files
          PROVE  [config EXCEPT !.files = IF f \in config.files THEN config.files \ {f}
                                          ELSE config.files \cup {f}] \in Configs
        BY <2>1 DEF Configs
    <2> QED BY <1>3, <2>2, <2>3 DEF EditConfig
<1>4. ASSUME Tick
      PROVE  service' \in Services /\ UNCHANGED <<config, matched>>
    <2>1. service \in Services /\ service.age + 1 \in 0..(Throttle + 1)
        BY <1>0, <1>4, ServiceAssumption DEF Tick, ClockAdvances, ServiceTypeOK, Services
    <2> QED BY <2>1, <1>4 DEF Tick, ClockAdvances, Services
<1>5. ASSUME DropProjects
      PROVE  service' \in Services /\ UNCHANGED <<config, matched>>
    BY <1>0, <1>5, ReloadedIsService DEF DropProjects, ServiceForgets, ServiceTypeOK
<1>6. ASSUME ClearCaches
      PROVE  ServiceTypeOK'
    BY <1>0, <1>6 DEF ClearCaches, ServiceCleared, ServiceTypeOK
<1> QED BY <1>0, <1>1, <1>2, <1>3, <1>4, <1>5, <1>6, Steps DEF ServiceTypeOK, serviceVars

LEMMA EntryStep ==
    ASSUME TypeOK, [Next]_vars
    PROVE  EntryOK'
<1>0. Parts
    BY TypeParts
<1>1. ASSUME NEW f \in Files, NEW code \in Texts, ParseAndGenerateServices(f, code)
      PROVE  /\ UNCHANGED <<mode, singleRun, foreign, disk>> /\ refused' \in BOOLEAN
             /\ calls' \in [Files -> 0..2]
    <2>1. CallsAfter(f) \in [Files -> 0..2]
        BY <1>0 DEF CallsAfter, Parts, EntryOK
    <2>2. refused' \in BOOLEAN
        BY <1>0, <1>1, ParsingParts, Zenon DEF ParseWithService, Parts, EntryOK
    <2> QED BY <1>1, <2>1, <2>2, ParsingParts
<1>2. ASSUME FinishFile
      PROVE  UNCHANGED <<mode, singleRun, foreign, refused, calls>> /\ disk' \in [Files -> Texts]
    BY <1>0, <1>2 DEF FinishFile, historyVars, Parts, EntryOK
<1>3. ASSUME EditFile
      PROVE  UNCHANGED <<mode, singleRun, refused, calls>> /\ disk' \in [Files -> Texts]
             /\ foreign' \in BOOLEAN
    BY <1>0, <1>3 DEF EditFile, Parts, EntryOK
<1>4. ASSUME EditConfig \/ Tick \/ DropProjects \/ UNCHANGED vars
      PROVE  UNCHANGED <<mode, singleRun, foreign, refused, calls, disk>>
    BY <1>4 DEF EditConfig, Tick, DropProjects, vars, entryVars, historyVars
<1>5. ASSUME ClearCaches
      PROVE  UNCHANGED <<mode, singleRun, foreign, calls, disk>> /\ refused' \in BOOLEAN
    BY <1>5 DEF ClearCaches
<1> QED BY <1>0, <1>1, <1>2, <1>3, <1>4, <1>5, Steps, LintingStep DEF Parts, EntryOK

LEMMA ProgramsStep ==
    ASSUME TypeOK, [Next]_vars
    PROVE  ProgramsOK'
<1>0. Parts
    BY TypeParts
<1>1. ASSUME NEW f \in Files, programs' = ProgramsAfter(f)
      PROVE  ProgramsOK'
    BY <1>0, <1>1, ProgramIsTexts DEF ProgramsAfter, ProgramsOK, Parts, EntryOK
<1>2. FinishFile \/ EditFile \/ EditConfig \/ Tick \/ DropProjects \/ UNCHANGED vars =>
          programs' = programs
    BY DEF FinishFile, EditFile, EditConfig, Tick, DropProjects, vars, entryVars
<1>3. ASSUME ClearCaches
      PROVE  ProgramsOK'
    BY <1>0, <1>3 DEF ClearCaches, ProgramsOK, Parts
<1>4. programs' = programs => ProgramsOK'
    BY <1>0 DEF ProgramsOK, Parts
<1> QED BY <1>1, <1>2, <1>3, <1>4, Steps, ParsingParts

(* What has been served since clearCaches is among the files matched.      *)
LEMMA ServedStep ==
    ASSUME TypeOK, [Next]_vars
    PROVE  served' \subseteq matched'
<1>0. Parts
    BY TypeParts
<1>1. ASSUME NEW f \in Files, ParseWithService(f)
      PROVE  served' \subseteq matched'
    <2>1. PICK svc :
            /\ matched' = MatchedAfter(svc, f)
            /\ served' = IF Outcome(svc, f) = InDefault THEN served \cup {f} ELSE served
        BY <1>1 DEF ParseWithService
    <2>2. matched \subseteq matched'
          /\ (Outcome(svc, f) = InDefault => matched' = matched \cup {f})
        BY <1>0, <2>1, MatchedGrows DEF Parts, ServiceTypeOK
    <2> QED BY <1>0, <2>1, <2>2 DEF Parts
<1>2. FinishFile \/ EditFile \/ EditConfig \/ Tick \/ DropProjects \/ UNCHANGED vars =>
          served' = served
    BY DEF FinishFile, EditFile, EditConfig, Tick, DropProjects, vars, historyVars
<1>3. ClearCaches => served' = {}
    BY DEF ClearCaches
<1>4. served' = served /\ matched \subseteq matched' => served' \subseteq matched'
    BY <1>0 DEF Parts
<1> QED BY <1>1, <1>2, <1>3, <1>4, Steps, ParsingParts, ServiceStep

(* What parser.ts and useProgramFromProjectService.ts keep between calls.  *)
THEOREM TypeCorrect == Spec => []TypeOK
<1>1. ASSUME Init
      PROVE  TypeOK
    <2>1. ServiceTypeOK /\ served \subseteq matched
        BY <1>1 DEF Init, ServiceInit, ServiceTypeOK, Configs
    <2>2. EntryOK
        <3>1. calls \in [Files -> 0..2] /\ disk \in [Files -> Texts]
            BY <1>1 DEF Init
        <3>2. mode \in Modes /\ singleRun \in BOOLEAN /\ foreign = FALSE /\ refused = FALSE
              /\ linting = Nothing
            BY <1>1, Zenon DEF Init
        <3> QED BY <3>1, <3>2 DEF EntryOK
    <2>3. ProgramsOK
        BY <1>1, ProgramIsTexts DEF Init, ProgramsOK
    <2> QED BY <2>1, <2>2, <2>3, TypeParts DEF Parts
<1>2. ASSUME TypeOK, [Next]_vars
      PROVE  TypeOK'
    BY <1>2, ServiceStep, EntryStep, ProgramsStep, ServedStep, TypeParts DEF Parts
<1> QED BY <1>1, <1>2, PTL DEF Spec

----------------------------------------------------------------------------
(* The limit of the default project.                                       *)

LEMMA FiniteMatched ==
    ASSUME NEW S \in SUBSET Allowed, NEW T \in SUBSET S
    PROVE  /\ Cardinality(S) \in Nat /\ Cardinality(T) \in Nat
           /\ Cardinality(T) <= Cardinality(S)
<1>1. S \in SUBSET Files
    BY ServiceAssumption
<1>2. IsFiniteSet(S) /\ IsFiniteSet(T)
    BY <1>1, ServiceAssumption, FS_Subset
<1>3. Cardinality(T) <= Cardinality(S)
    BY <1>2, FS_Subset
<1> QED BY <1>2, <1>3, FS_CardinalityType

(* A file is served if the set is within the limit with it, and refused if *)
(* it is not.                                                              *)
LEMMA LimitCases ==
    ASSUME NEW svc, NEW f
    PROVE  /\ Outcome(svc, f) = InDefault => ~ OverLimit(f)
           /\ Outcome(svc, f) = TooMany => OverLimit(f)
BY Zenon DEF Outcome, InDefault, TooMany, FoundThough, InProject, NonStandard, Unknown

(* The served files are within the limit, and if a file was refused, the   *)
(* matched files are not.                                                  *)
LimitInv ==
    /\ ServedWithinLimit
    /\ refused => Cardinality(matched) > Limit

LEMMA LimitParse ==
    ASSUME TypeOK, LimitInv, NEW f \in Files, ParseWithService(f)
    PROVE  LimitInv' /\ (refused => answer'.result # InDefault)
<1>1. PICK svc :
        /\ matched' = MatchedAfter(svc, f)
        /\ answer'.result = Outcome(svc, f)
        /\ served' = IF Outcome(svc, f) = InDefault THEN served \cup {f} ELSE served
        /\ refused' = (refused \/ Outcome(svc, f) = TooMany)
    BY DEF ParseWithService, Answered
<1>2. /\ matched \subseteq matched' /\ matched' \subseteq Allowed
      /\ Outcome(svc, f) \in {InDefault, TooMany} => matched' = matched \cup {f}
    BY <1>1, MatchedGrows DEF TypeOK, ServiceTypeOK
<1>3. served \subseteq matched
    BY DEF TypeOK
<1>4. Cardinality(matched') \in Nat /\ Cardinality(matched) \in Nat
      /\ Cardinality(matched) <= Cardinality(matched')
    BY <1>2, FiniteMatched
<1>5. Limit \in Nat
    BY ServiceAssumption
<1>6. CASE Outcome(svc, f) = InDefault
    <2>1. ~ (Cardinality(matched') > Limit)
        BY <1>2, <1>6, LimitCases DEF OverLimit
    <2>2. Cardinality(served') \in Nat /\ Cardinality(served') <= Cardinality(matched')
        <3>1. served' \subseteq matched'
            BY <1>1, <1>2, <1>3, <1>6
        <3> QED BY <3>1, <1>2, FiniteMatched
    <2>3. ~ refused
        BY <2>1, <1>4, <1>5 DEF LimitInv
    <2>4. Outcome(svc, f) # TooMany
        BY <1>6 DEF InDefault, TooMany
    <2>5. ~ refused'
        BY <2>3, <2>4, <1>1
    <2>6. ServedWithinLimit'
        BY <2>1, <2>2, <1>4, <1>5 DEF ServedWithinLimit
    <2> QED BY <2>3, <2>5, <2>6 DEF LimitInv
<1>7. CASE Outcome(svc, f) # InDefault
    <2>1. ServedWithinLimit'
        BY <1>1, <1>7 DEF LimitInv, ServedWithinLimit
    <2>2. ASSUME refused'
          PROVE  Cardinality(matched') > Limit
        <3>1. CASE refused
            BY <3>1, <1>4, <1>5 DEF LimitInv
        <3>2. CASE Outcome(svc, f) = TooMany
            BY <3>2, <1>2, LimitCases DEF OverLimit
        <3> QED BY <3>1, <3>2, <2>2, <1>1
    <2> QED BY <2>1, <2>2, <1>1, <1>7 DEF LimitInv
<1> QED BY <1>6, <1>7

LEMMA LimitStep ==
    ASSUME TypeOK, LimitInv, [Next]_vars
    PROVE  /\ LimitInv'
           /\ refused /\ answer' # answer /\ answer' # Nothing => answer'.result # InDefault
<1>1. ASSUME NEW f \in Files, NEW code \in Texts, ParseAndGenerateServices(f, code),
             ~ ParseWithService(f)
      PROVE  UNCHANGED <<matched, served, refused>> /\ answer'.result # InDefault
    BY <1>1, ParsingParts DEF InDefault
<1>2. FinishFile \/ EditFile \/ EditConfig \/ Tick \/ DropProjects \/ UNCHANGED vars =>
          UNCHANGED <<matched, served, refused>> /\ answer' \in {answer, Nothing}
    BY DEF FinishFile, EditFile, EditConfig, Tick, DropProjects, ClockAdvances, ServiceForgets,
           vars, serviceVars, historyVars
<1>3. ASSUME ClearCaches
      PROVE  LimitInv' /\ answer' = answer
    <2>1. served' = {} /\ refused' = FALSE /\ answer' = answer
        BY <1>3 DEF ClearCaches
    <2>2. Cardinality(served') = 0
        BY <2>1, FS_EmptySet
    <2> QED BY <2>1, <2>2, ServiceAssumption DEF LimitInv, ServedWithinLimit
<1>4. UNCHANGED <<matched, served, refused>> => LimitInv'
    BY DEF LimitInv, ServedWithinLimit
<1> QED BY <1>1, <1>2, <1>3, <1>4, LimitParse, Steps

LEMMA LimitHolds == Spec => []LimitInv
<1>1. Init => LimitInv
    <2>1. Cardinality({}) = 0
        BY FS_EmptySet
    <2> QED BY <2>1, ServiceAssumption DEF Init, LimitInv, ServedWithinLimit
<1>2. TypeOK /\ LimitInv /\ [Next]_vars => LimitInv'
    BY LimitStep
<1> QED BY <1>1, <1>2, TypeCorrect, PTL DEF Spec

(* No more files are served by the default project than the limit allows   *)
(* (useProgramFromProjectService.ts:123-146).                              *)
THEOREM ServedIsLimited == Spec => []ServedWithinLimit
<1>1. LimitInv => ServedWithinLimit
    BY DEF LimitInv
<1> QED BY <1>1, LimitHolds, PTL

(* Over the limit, no file is served by the default project any more       *)
(* (useProgramFromProjectService.ts:124-128).                              *)
THEOREM LimitLasts == Spec => LimitSticks
<1>1. TypeOK /\ LimitInv /\ [Next]_vars =>
          [refused /\ answer' # answer /\ answer' # Nothing => answer'.result # InDefault]_vars
    BY LimitStep
<1> QED BY <1>1, LimitHolds, TypeCorrect, PTL DEF Spec, LimitSticks

----------------------------------------------------------------------------
(* Refusals.                                                               *)

LEMMA RefusedByDisk ==
    ASSUME ServiceTypeOK, NEW f \in Files, NEW extra \in BOOLEAN, ~ singleRun,
           Current.age > Throttle,
           NEW svc, svc = After(f, extra, singleRun), Outcome(svc, f) = Unknown,
           ~ svc.loaded.broken
    PROVE  f \notin Reading(svc.extra).files
<1> DEFINE told == WithExtensions(Current, extra)
           once == Opened(told)
<1>1. told \in Services /\ told.extra = extra /\ told.age = Current.age
    BY CurrentIsService, WithExtensionsIsService
<1>2. once.age = Current.age
    BY <1>1, OpenedIsService DEF ServiceTypeOK
<1>3. ~ Includes(svc, f) /\ f \notin Allowed
    BY Zenon DEF Outcome, InDefault, TooMany, FoundThough, InProject, NonStandard, Unknown
<1> HIDE DEF told, once
<1>4. svc.extra = extra
      /\ ((~ MayReload(once, f, singleRun) /\ svc = once) \/ svc.loaded = Reading(extra))
    BY <1>1, ReloadCases DEF After, ServiceTypeOK, told, once
<1>5. CASE ~ MayReload(once, f, singleRun) /\ svc = once
    BY <1>2, <1>3, <1>5 DEF MayReload
<1>6. CASE svc.loaded = Reading(extra)
    BY <1>3, <1>4, <1>6 DEF Includes
<1> QED BY <1>4, <1>5, <1>6

(* A file refused as unknown after the throttle is not in the tsconfig on  *)
(* disk (useProgramFromProjectService.ts:159-182).                         *)
THEOREM RefusalsAreCurrent == Spec => []RefusalIsCurrent
<1>1. Init => RefusalIsCurrent
    BY DEF Init, RefusalIsCurrent
<1>2. ASSUME TypeOK, RefusalIsCurrent, [Next]_vars
      PROVE  RefusalIsCurrent'
    <2>1. ASSUME NEW f \in Files, ParseWithService(f), singleRun' = singleRun
          PROVE  RefusalIsCurrent'
        <3>1. PICK extra \in BOOLEAN :
                /\ service' = After(f, extra, singleRun)
                /\ Answered(f, Outcome(After(f, extra, singleRun), f), TRUE)
            BY <2>1 DEF ParseWithService
        <3>2. /\ answer'.file = f
              /\ answer'.result = Outcome(service', f)
              /\ answer'.waited = (Current.age > Throttle)
            BY <3>1 DEF Answered
        <3>3. config' = config
            BY <2>1 DEF ParseWithService
        <3>4. SUFFICES ASSUME answer'.result = Unknown, answer'.waited, ~ singleRun,
                              ~ service'.loaded.broken
                       PROVE  f \notin Reading(service'.extra).files
            BY <2>1, <3>2, <3>3 DEF RefusalIsCurrent, Reading
        <3> QED BY <1>2, <3>1, <3>2, <3>4, RefusedByDisk DEF TypeOK
    <2>2. ASSUME NEW f \in Files, NEW code \in Texts, ParseAndGenerateServices(f, code)
          PROVE  RefusalIsCurrent'
        <3>1. CASE ParseWithService(f)
            BY <2>1, <2>2, <3>1, ParsingParts
        <3>2. CASE ~ ParseWithService(f)
            BY <2>2, <3>2, ParsingParts DEF RefusalIsCurrent, Unknown
        <3> QED BY <3>1, <3>2
    <2>3. ASSUME FinishFile \/ EditFile \/ UNCHANGED vars
          PROVE  RefusalIsCurrent'
        <3>1. UNCHANGED <<config, service, singleRun, answer>>
            BY <2>3 DEF FinishFile, EditFile, vars, serviceVars, entryVars
        <3> QED BY <1>2, <3>1 DEF RefusalIsCurrent, Reading
    <2>4. ASSUME EditConfig
          PROVE  RefusalIsCurrent'
        BY <2>4 DEF EditConfig, RefusalIsCurrent
    <2>5. ASSUME ClearCaches
          PROVE  RefusalIsCurrent'
        BY <2>5 DEF ClearCaches, ServiceCleared, RefusalIsCurrent
    <2>6. ASSUME Tick
          PROVE  RefusalIsCurrent'
        <3>1. UNCHANGED <<config, singleRun, answer>> /\ service # Nothing
              /\ service' = [service EXCEPT !.age = service.age + 1]
            BY <2>6 DEF Tick, ClockAdvances, entryVars
        <3>2. service \in Services
            BY <1>2, <3>1 DEF TypeOK, ServiceTypeOK
        <3>3. service'.loaded = service.loaded /\ service'.extra = service.extra
            BY <3>1, <3>2 DEF Services
        <3> QED BY <1>2, <3>1, <3>3 DEF RefusalIsCurrent, Reading
    <2>7. ASSUME DropProjects
          PROVE  RefusalIsCurrent'
        <3>1. service # Nothing /\ service' = Reloaded(service)
            BY <2>7 DEF DropProjects, ServiceForgets
        <3>2. service'.loaded = Nothing
            BY <1>2, <3>1, ReloadedIsService DEF TypeOK, ServiceTypeOK
        <3> QED BY <3>2 DEF RefusalIsCurrent
    <2> QED BY <1>2, <2>2, <2>3, <2>4, <2>5, <2>6, <2>7, Steps
<1> QED BY <1>1, <1>2, TypeCorrect, PTL DEF Spec

----------------------------------------------------------------------------
(* Texts.                                                                  *)

(* In a single run with projects, while nobody else writes files: a file   *)
(* that has not been parsed reads in every program as on disk, and the one *)
(* that is being linted has been parsed.  This holds after clearCaches,    *)
(* which leaves the counts of calls as they are.                           *)
UnparsedIsDisk ==
    ~foreign /\ mode = "project" =>
        /\ \A f \in Files : calls[f] = 0 =>
               \A c \in Projects : programs[c] # Nothing /\ f \in Holds[c] => programs[c][f] = disk[f]
        /\ linting # Nothing => calls[linting.file] # 0

(* The combinations of options there are.                                  *)
ModesOK == (mode = "project" => singleRun) /\ (linting # Nothing => Counted)

LEMMA ModesStep ==
    ASSUME TypeOK, ModesOK, [Next]_vars
    PROVE  ModesOK'
<1>1. UNCHANGED <<mode, singleRun>>
    <2>1. ASSUME NEW f, NEW code, ParseAndGenerateServices(f, code)
          PROVE  UNCHANGED <<mode, singleRun>>
        BY <2>1, ParsingParts
    <2>2. FinishFile \/ EditFile \/ EditConfig \/ Tick \/ DropProjects \/ ClearCaches
              \/ UNCHANGED vars => UNCHANGED <<mode, singleRun>>
        BY DEF FinishFile, EditFile, EditConfig, Tick, DropProjects, ClearCaches, vars, entryVars
    <2> QED BY <2>1, <2>2, Steps
<1>2. ASSUME NEW f \in Files, LintFile(f)
      PROVE  Counted
    BY <1>2 DEF LintFile
<1>3. ASSUME NEW f \in Files, LintBuffer(f)
      PROVE  linting' = linting
    BY <1>3 DEF LintBuffer
<1>4. FinishFile => linting' = Nothing
    BY DEF FinishFile
<1>5. FixPass => linting # Nothing
    BY DEF FixPass
<1>6. EditFile \/ EditConfig \/ Tick \/ DropProjects \/ ClearCaches \/ UNCHANGED vars =>
          linting' = linting
    BY DEF EditFile, EditConfig, Tick, DropProjects, ClearCaches, vars, entryVars
<1> QED BY <1>1, <1>2, <1>3, <1>4, <1>5, <1>6 DEF ModesOK, Counted, Next

(* After a call in a single run with projects its file counts as parsed,   *)
(* and the others count as they did.                                       *)
LEMMA CallsCount ==
    ASSUME TypeOK, Counted, NEW f \in Files, NEW g \in Files
    PROVE  /\ CallsAfter(f)[f] # 0
           /\ CallsAfter(f)[g] = 0 => g # f /\ calls[g] = 0
           /\ ~ Isolated(f) => calls[f] = 0
<1>1. calls \in [Files -> 0..2]
    BY DEF TypeOK
<1>2. CallsAfter(f)[f] = IF calls[f] < 2 THEN calls[f] + 1 ELSE calls[f]
    BY <1>1 DEF CallsAfter
<1>3. g # f => CallsAfter(f)[g] = calls[g]
    BY <1>1 DEF CallsAfter
<1>4. calls[f] \in 0..2
    BY <1>1
<1> QED BY <1>2, <1>3, <1>4 DEF Isolated

LEMMA UnparsedParse ==
    ASSUME TypeOK, ModesOK, UnparsedIsDisk, NEW f \in Files, NEW code,
           ParseAndGenerateServices(f, code), ~ foreign, mode = "project",
           NEW g \in Files, calls'[g] = 0, NEW c \in Projects, programs'[c] # Nothing, g \in Holds[c]
    PROVE  programs'[c][g] = disk'[g]
<1>1. Counted
    BY DEF ModesOK, Counted
<1>2. calls' = CallsAfter(f) /\ disk' = disk /\ (programs' = programs \/ programs' = ProgramsAfter(f))
    BY ParsingParts
<1>3. calls[g] = 0
    BY <1>1, <1>2, CallsCount
<1>4. programs[c] # Nothing => programs[c][g] = disk[g]
    BY <1>3 DEF UnparsedIsDisk
<1>5. CASE programs'[c] = programs[c]
    BY <1>2, <1>4, <1>5
<1>6. CASE programs'[c] = Program(c)
    BY <1>2, <1>6 DEF Program
<1>7. programs' = ProgramsAfter(f) => programs'[c] \in {programs[c], Program(c)}
    BY DEF ProgramsAfter
<1> QED BY <1>2, <1>5, <1>6, <1>7

LEMMA UnparsedStep ==
    ASSUME TypeOK, ModesOK, UnparsedIsDisk, [Next]_vars
    PROVE  UnparsedIsDisk'
<1>1. ASSUME NEW f \in Files, NEW code, ParseAndGenerateServices(f, code),
             linting' # Nothing => linting'.file = f \/ linting' = linting
      PROVE  UnparsedIsDisk'
    <2>1. UNCHANGED <<mode, foreign>> /\ calls' = CallsAfter(f)
        BY <1>1, ParsingParts
    <2>2. SUFFICES ASSUME ~ foreign, mode = "project"
                   PROVE  /\ \A g \in Files : calls'[g] = 0 =>
                                \A c \in Projects :
                                    programs'[c] # Nothing /\ g \in Holds[c] => programs'[c][g] = disk'[g]
                          /\ linting' # Nothing => calls'[linting'.file] # 0
        BY <2>1 DEF UnparsedIsDisk
    <2>3. Counted
        BY <2>2 DEF ModesOK, Counted
    <2>4. ASSUME linting' # Nothing
          PROVE  calls'[linting'.file] # 0
        <3>1. CASE linting'.file = f
            BY <2>1, <2>3, <3>1, CallsCount
        <3>2. CASE linting' = linting
            <4>1. linting.file \in Files /\ calls[linting.file] # 0
                BY <2>2, <2>4, <3>2 DEF UnparsedIsDisk, TypeOK
            <4> QED BY <4>1, <2>1, <2>3, <3>2, CallsCount
        <3> QED BY <1>1, <2>4, <3>1, <3>2
    <2> QED BY <1>1, <2>2, <2>4, UnparsedParse
<1>2. ASSUME NEW f \in Files, LintFile(f)
      PROVE  UnparsedIsDisk'
    <2>1. ParseAndGenerateServices(f, disk[f]) /\ linting'.file = f
        BY <1>2 DEF LintFile
    <2> QED BY <1>1, <2>1
<1>3. ASSUME NEW f \in Files, LintBuffer(f)
      PROVE  UnparsedIsDisk'
    BY <1>1, <1>3 DEF LintBuffer
<1>4. ASSUME FixPass
      PROVE  UnparsedIsDisk'
    <2>1. linting \in [file : Files, code : Texts]
        BY <1>4 DEF FixPass, TypeOK
    <2>2. PICK code \in Texts : /\ ParseAndGenerateServices(linting.file, code)
                                /\ linting' = [linting EXCEPT !.code = code]
        BY <1>4 DEF FixPass
    <2>3. linting'.file = linting.file /\ linting.file \in Files
        BY <2>1, <2>2
    <2> QED BY <1>1, <2>2, <2>3
<1>5. ASSUME FinishFile
      PROVE  UnparsedIsDisk'
    <2>1. /\ linting # Nothing /\ linting' = Nothing
          /\ disk' \in {disk, [disk EXCEPT ![linting.file] = linting.code]}
          /\ UNCHANGED <<mode, programs, calls, foreign>>
        BY <1>5 DEF FinishFile, historyVars
    <2>2. SUFFICES ASSUME ~ foreign, mode = "project", NEW f \in Files, calls[f] = 0,
                          NEW c \in Projects, programs[c] # Nothing, f \in Holds[c]
                   PROVE  programs[c][f] = disk'[f]
        BY <2>1 DEF UnparsedIsDisk
    <2>3. calls[linting.file] # 0 /\ programs[c][f] = disk[f]
        BY <2>1, <2>2 DEF UnparsedIsDisk
    <2>4. disk'[f] = disk[f]
        BY <2>1, <2>2, <2>3 DEF TypeOK
    <2> QED BY <2>3, <2>4
<1>6. EditFile => foreign'
    BY DEF EditFile
<1>7. EditConfig => mode' = "service"
    BY DEF EditConfig, entryVars
<1>8. ASSUME ClearCaches
      PROVE  UnparsedIsDisk'
    BY <1>8 DEF ClearCaches, UnparsedIsDisk
<1>9. Tick \/ DropProjects \/ UNCHANGED vars =>
          UNCHANGED <<mode, disk, programs, calls, linting, foreign>>
    BY DEF Tick, DropProjects, vars, entryVars, historyVars
<1> QED BY <1>2, <1>3, <1>4, <1>5, <1>6, <1>7, <1>8, <1>9 DEF Next, UnparsedIsDisk

(* A call whose text is that on disk, or that is not the first of its file,*)
(* gives an AST of its text.                                               *)
LEMMA ParsedFresh ==
    ASSUME TypeOK, ModesOK, UnparsedIsDisk, NEW f \in Files, NEW code,
           ParseAndGenerateServices(f, code), ~ foreign, mode # "programs",
           mode = "project" => code = disk[f] \/ calls[f] # 0
    PROVE  answer'.fresh
<1>1. ASSUME NEW result, Answered(f, result, TRUE)
      PROVE  answer'.fresh = TRUE
    BY <1>1 DEF Answered
<1>2. CASE ParseIsolated(f)
    BY <1>1, <1>2 DEF ParseIsolated
<1>3. CASE ParseWithService(f)
    BY <1>1, <1>3 DEF ParseWithService
<1>4. CASE ParseAlone(f)
    BY <1>1, <1>4 DEF ParseAlone
<1>5. CASE ParseWithPrograms(f, code)
    <2>1. mode = "project" /\ Counted /\ calls[f] = 0 /\ code = disk[f]
        <3>1. mode = "project" /\ ~ Isolated(f)
            BY <1>5 DEF ParseWithPrograms
        <3>2. Counted
            BY <3>1 DEF ModesOK, Counted
        <3> QED BY <3>1, <3>2, CallsCount
    <2>2. CASE Answered(f, "not in any program", TRUE)
        BY <1>1, <2>2
    <2>3. ASSUME NEW c \in Tried(f), f \in Holds[c],
                 Answered(f, "program", ProgramsAfter(f)[c][f] = code)
          PROVE  answer'.fresh
        <3>1. c \in Projects
            BY EntryAssumption DEF Tried
        <3>2. ProgramsAfter(f)[c] = IF programs[c] = Nothing THEN Program(c) ELSE programs[c]
            BY <2>3, <3>1 DEF ProgramsAfter
        <3>3. programs[c] # Nothing => programs[c][f] = disk[f]
            BY <2>1, <2>3, <3>1 DEF UnparsedIsDisk
        <3>4. Program(c)[f] = disk[f]
            BY <2>3 DEF Program
        <3>5. ProgramsAfter(f)[c][f] = code
            BY <2>1, <3>2, <3>3, <3>4
        <3>6. (ProgramsAfter(f)[c][f] = code) = TRUE
            BY <3>5
        <3>7. Answered(f, "program", TRUE)
            BY <2>3, <3>6
        <3> QED BY <1>1, <3>7
    <2> QED BY <1>5, <2>2, <2>3 DEF ParseWithPrograms
<1> QED BY <1>2, <1>3, <1>4, <1>5 DEF ParseAndGenerateServices

LEMMA TextStep ==
    ASSUME TypeOK, ModesOK, UnparsedIsDisk, TextIsCode, [Next]_vars
    PROVE  TextIsCode'
<1>1. ASSUME NEW f \in Files, NEW code, ParseAndGenerateServices(f, code),
             mode = "project" /\ ~ foreign => code = disk[f] \/ calls[f] # 0
      PROVE  TextIsCode'
    <2>1. UNCHANGED <<mode, foreign>>
        BY <1>1, ParsingParts
    <2>2. ~ foreign /\ mode # "programs" => answer'.fresh
        BY <1>1, ParsedFresh
    <2> QED BY <2>1, <2>2 DEF TextIsCode
<1>2. ASSUME NEW f \in Files, LintFile(f)
      PROVE  TextIsCode'
    BY <1>1, <1>2 DEF LintFile
<1>3. ASSUME NEW f \in Files, LintBuffer(f)
      PROVE  TextIsCode'
    <2>1. mode # "project"
        BY <1>3 DEF LintBuffer, ModesOK, Counted
    <2>2. PICK code \in Texts : ParseAndGenerateServices(f, code)
        BY <1>3 DEF LintBuffer
    <2> QED BY <1>1, <2>1, <2>2
<1>4. ASSUME FixPass
      PROVE  TextIsCode'
    <2>1. linting # Nothing /\ linting.file \in Files
        BY <1>4 DEF FixPass, TypeOK
    <2>2. PICK code \in Texts : ParseAndGenerateServices(linting.file, code)
        BY <1>4 DEF FixPass
    <2>3. mode = "project" /\ ~ foreign => calls[linting.file] # 0
        BY <2>1 DEF UnparsedIsDisk
    <2> QED BY <1>1, <2>1, <2>2, <2>3
<1>5. FinishFile \/ ClearCaches \/ Tick \/ DropProjects \/ UNCHANGED vars =>
          UNCHANGED <<mode, foreign, answer>>
    BY DEF FinishFile, ClearCaches, Tick, DropProjects, vars, entryVars, historyVars
<1>6. EditFile => foreign'
    BY DEF EditFile
<1>7. EditConfig => answer' = Nothing
    BY DEF EditConfig
<1> QED BY <1>2, <1>3, <1>4, <1>5, <1>6, <1>7 DEF Next, TextIsCode

(* Every AST is of the text that was parsed, as long as nobody else writes *)
(* files (parser.ts:221-246).                                              *)
THEOREM TextsAreParsed == Spec => []TextIsCode
<1>1. Init => ModesOK /\ UnparsedIsDisk /\ TextIsCode
    BY DEF Init, ModesOK, UnparsedIsDisk, TextIsCode
<1>2. TypeOK /\ ModesOK /\ UnparsedIsDisk /\ TextIsCode /\ [Next]_vars =>
          ModesOK' /\ UnparsedIsDisk' /\ TextIsCode'
    BY ModesStep, UnparsedStep, TextStep
<1> QED BY <1>1, <1>2, TypeCorrect, PTL DEF Spec
=============================================================================
