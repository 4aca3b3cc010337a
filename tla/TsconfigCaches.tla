-------------------------- MODULE TsconfigCaches --------------------------
(***************************************************************************)
(* How typescript-estree finds the tsconfigs of a call: createParseSettings*)
(* with getProjectConfigFiles (project: true climbs to the nearest         *)
(* tsconfig.json), resolveProjectList (patterns are globbed) and the       *)
(* inferred tsconfigRootDir.  What was found is kept in two caches that    *)
(* live as long as the process; each has the lifetime the first caller to  *)
(* reach it asked for.                                                     *)
(*                                                                         *)
(* A call is one step: the code between two awaits, and it has none.       *)
(***************************************************************************)
EXTENDS ExpiringCache, FiniteSets

CONSTANTS Dirs,          \* the directories
          AtOrAbove,     \* AtOrAbove[d]: d and the directories above it
          Length,        \* Length[d]: the length of d as a string
          Cwd,           \* process.cwd()
          Roots,         \* tsconfigRootDirs callers give
          Candidates,    \* directories of the ESLint configs loaded
          Lifetimes,     \* cacheLifetime.glob, the default included
          MaxTime,       \* bound: seconds of the clock
          MaxChanges     \* bound: tsconfigs written or removed

NotFound  == "not found"
ManyRoots == "many roots"

(* A directory's ancestors form a chain on which the strings get shorter.  *)
ASSUME DirsAssumption ==
    /\ Nothing \notin Dirs /\ NotFound \notin Dirs
    /\ Length \in [Dirs -> Nat]
    /\ AtOrAbove \in [Dirs -> SUBSET Dirs]
    /\ \A d \in Dirs : d \in AtOrAbove[d]
    /\ \A d \in Dirs : \A a, b \in AtOrAbove[d] : a # b => Length[a] # Length[b]
    /\ \A d \in Dirs : \A a \in AtOrAbove[d] :
           AtOrAbove[a] = {b \in AtOrAbove[d] : Length[b] <= Length[a]}

ASSUME CallersAssumption ==
    /\ Roots \subseteq Dirs /\ Candidates \subseteq Dirs /\ Cwd \in Dirs
    /\ Lifetimes \subseteq Nat
    /\ MaxTime \in Nat \ {0} /\ MaxChanges \in Nat

VARIABLES
    now,             \* the clock, in seconds
    disk,            \* the directories with a tsconfig.json
    changed,         \* how often the disk has changed
    project,         \* parserOptions.project of the typed files of the session
    cli,             \* TSESTREE_SINGLE_RUN, CI or eslint's own binary
    candidates,      \* candidateTSConfigRootDirs
    matchLifetime,   \* TSCONFIG_MATCH_CACHE's lifetime, Nothing before it is made
    match,           \* TSCONFIG_MATCH_CACHE: directory -> tsconfig's directory
    globLifetime,    \* RESOLUTION_CACHE's lifetime, Nothing before it is made
    glob,            \* RESOLUTION_CACHE: root -> the tsconfigs its pattern matched
    answer,          \* what the call just made came back with
    lastChange,      \* history: when the disk last changed
    lastClimb,       \* history: when a call last climbed
    settled,         \* history: the disk is as it was when the caches were last empty
    climbRoots       \* history: the roots that bounded climbs since then

cacheVars   == <<candidates, matchLifetime, match, globLifetime, glob>>
historyVars == <<lastChange, lastClimb, settled, climbRoots>>
worldVars   == <<now, disk, changed, project, cli>>
vars        == <<worldVars, cacheVars, answer, historyVars>>

(* project: true or project: './**/tsconfig.json'; untyped files have none.*)
Options == {"nearest", "pattern"}

Init ==
    /\ now = 1
    /\ disk \in SUBSET Dirs
    /\ changed = 0
    /\ project \in Options
    /\ cli \in BOOLEAN
    /\ candidates = {}
    /\ matchLifetime = Nothing /\ match = [d \in Dirs |-> Nothing]
    /\ globLifetime = Nothing  /\ glob = [r \in Dirs |-> Nothing]
    /\ answer = Nothing
    /\ lastChange = 0 /\ lastClimb = 0
    /\ settled = TRUE /\ climbRoots = {}

----------------------------------------------------------------------------
(* inferSingleRun: without a project there is no single run.               *)
SingleRun(option) == cli /\ option # "none"

Asked(option, lifetime) == IF SingleRun(option) THEN Infinity ELSE lifetime

(* Created by the first caller, kept for all later ones.                   *)
KeptOr(lifetime, asked) == IF lifetime = Nothing THEN asked ELSE lifetime

(* The directories the loop of getProjectConfigFiles looks at, until it has*)
(* found one: the file's own, then each parent while its path is longer    *)
(* than "/" and no shorter than the root's.                                *)
Climb(dir, root) ==
    {a \in AtOrAbove[dir] : a = dir \/ (Length[a] > 1 /\ Length[a] >= Length[root])}

Longest(dirs) == CHOOSE d \in dirs : \A e \in dirs : Length[e] <= Length[d]

(* Mutant: the directories above what was found are told too.              *)
ToldToTheRoot(dir, root, hit) == Climb(dir, root)

(* checkedDirectories when the loop has come to the directory hit.         *)
Told(dir, root, hit) == {d \in Climb(dir, root) : Length[hit] <= Length[d]}

(* What is at or below root, as globSync sees it with cwd = root.          *)
Matches(on, root) == {d \in on : root \in AtOrAbove[d]}

(* The nearest tsconfig of a directory without any cache.                  *)
Nearest(on, dir, root) ==
    IF Climb(dir, root) \cap on = {} THEN NotFound ELSE Longest(Climb(dir, root) \cap on)

Answered(option, dir, root, result) ==
    answer' = [option |-> option, dir |-> dir, root |-> root, result |-> result,
               idle |-> now - lastClimb]

----------------------------------------------------------------------------
(* No tsconfigRootDir is given and more than one config was loaded.        *)
RootUnknown ==
    /\ Cardinality(candidates) > 1
    /\ Answered(project, Nothing, Nothing, ManyRoots)
    /\ UNCHANGED <<worldVars, cacheVars, historyVars>>

(* Without a project nothing is resolved, but the match cache is created.  *)
NoProject(lifetime) ==
    /\ matchLifetime' = KeptOr(matchLifetime, Asked("none", lifetime))
    /\ answer' = Nothing
    /\ UNCHANGED <<worldVars, candidates, match, globLifetime, glob, historyVars>>

(* Mutant: that nothing was found is remembered too.                       *)
MatchAfterMissNegative(looked, life) == AfterSets(match, looked, NotFound, life, now)

(* A climb that found nothing only drops what has expired.                 *)
MatchAfterMiss(looked, life) == AfterGets(match, looked, life, now)

(* The climb: a directory with a living entry or a tsconfig.json ends it,  *)
(* and every directory on the way is told the answer.  What was found is a *)
(* path without a pattern, which resolveProjectList passes on: its cache   *)
(* could only return the same path and is left out, its creation is not.   *)
Climbed(dir, root, lifetime) ==
    LET life     == KeptOr(matchLifetime, Asked("nearest", lifetime))
        looked   == Climb(dir, root)
        cached(d) == Get(match, d, life, now)
        hits     == {d \in looked : cached(d) # Nothing \/ d \in disk}
        hit      == Longest(hits)
        found    == IF cached(hit) # Nothing THEN cached(hit) ELSE hit
    IN  /\ project = "nearest"
        /\ matchLifetime' = life
        /\ \/ /\ hits # {}
              /\ match' = AfterSets(match, Told(dir, root, hit), found, life, now)
              /\ globLifetime' = KeptOr(globLifetime, Asked("nearest", lifetime))
              /\ Answered("nearest", dir, root, found)
           \/ /\ hits = {}
              /\ match' = MatchAfterMiss(looked, life)
              /\ UNCHANGED globLifetime
              /\ Answered("nearest", dir, root, NotFound)
        /\ lastClimb' = now
        /\ climbRoots' = climbRoots \cup {root}
        /\ UNCHANGED <<worldVars, candidates, glob, lastChange, settled>>

(* Mutant: a list is written again when it is found, as the climb does.    *)
GlobbedAndRenewed(root, lifetime) ==
    LET life   == KeptOr(globLifetime, Asked("pattern", lifetime))
        cached == Get(glob, root, life, now)
        list   == IF cached # Nothing THEN cached ELSE Matches(disk, root)
    IN  /\ project = "pattern"
        /\ matchLifetime' = KeptOr(matchLifetime, Asked("pattern", lifetime))
        /\ globLifetime' = life
        /\ glob' = AfterSets(glob, {root}, list, life, now)
        /\ Answered("pattern", root, root, list)
        /\ UNCHANGED <<worldVars, candidates, match, historyVars>>

(* The caller that creates the cache does not look into it.  An empty list *)
(* is kept like any other.                                                 *)
Globbed(root, lifetime) ==
    LET life   == KeptOr(globLifetime, Asked("pattern", lifetime))
        cached == IF globLifetime = Nothing THEN Nothing ELSE Get(glob, root, life, now)
        fresh  == Matches(disk, root)
    IN  /\ project = "pattern"
        /\ matchLifetime' = KeptOr(matchLifetime, Asked("pattern", lifetime))
        /\ globLifetime' = life
        /\ \/ /\ cached # Nothing
              /\ Answered("pattern", root, root, cached)
              /\ UNCHANGED glob
           \/ /\ cached = Nothing
              /\ Answered("pattern", root, root, fresh)
              /\ glob' = AfterSets(glob, {root}, fresh, life, now)
        /\ UNCHANGED <<worldVars, candidates, match, historyVars>>

Resolve(root, lifetime) ==
    \/ NoProject(lifetime)
    \/ \E dir \in Dirs : Climbed(dir, root, lifetime)
    \/ Globbed(root, lifetime)

InferredRoot == IF candidates = {} THEN Cwd ELSE CHOOSE d \in candidates : TRUE

(* createParseSettings, with a tsconfigRootDir or without.                 *)
CallWithRoot ==
    \E root \in Roots, lifetime \in Lifetimes : Resolve(root, lifetime)

CallInferring ==
    \/ RootUnknown
    \/ /\ Cardinality(candidates) <= 1
       /\ \E lifetime \in Lifetimes : Resolve(InferredRoot, lifetime)

(* An ESLint config built with this package is loaded from a directory.    *)
LoadConfig ==
    \E d \in Candidates \ candidates :
        /\ candidates' = candidates \cup {d}
        /\ answer' = Nothing
        /\ UNCHANGED <<worldVars, matchLifetime, match, globLifetime, glob, historyVars>>

(* clearCaches: the entries go, the caches and their lifetimes stay.       *)
ClearCaches ==
    /\ candidates' = {}
    /\ match' = Cleared(match)
    /\ glob' = Cleared(glob)
    /\ answer' = Nothing
    /\ settled' = TRUE /\ climbRoots' = {}
    /\ UNCHANGED <<worldVars, matchLifetime, globLifetime, lastChange, lastClimb>>

(* clearGlobResolutionCache, for tests: the cache itself goes.             *)
ClearGlobResolutionCache ==
    /\ glob' = Cleared(glob)
    /\ globLifetime' = Nothing
    /\ answer' = Nothing
    /\ UNCHANGED <<worldVars, candidates, matchLifetime, match, historyVars>>

Tick ==
    /\ now < MaxTime
    /\ now' = now + 1
    /\ answer' = Nothing
    /\ UNCHANGED <<disk, changed, project, cli, cacheVars, historyVars>>

(* A tsconfig.json is written or removed.                                  *)
ChangeDisk ==
    \E d \in Dirs :
        /\ changed < MaxChanges
        /\ changed' = changed + 1
        /\ disk' = IF d \in disk THEN disk \ {d} ELSE disk \cup {d}
        /\ lastChange' = now
        /\ settled' = FALSE
        /\ answer' = Nothing
        /\ UNCHANGED <<now, project, cli, cacheVars, lastClimb, climbRoots>>

Next ==
    \/ CallWithRoot \/ CallInferring
    \/ LoadConfig \/ ClearCaches \/ ClearGlobResolutionCache
    \/ Tick \/ ChangeDisk

Spec == Init /\ [][Next]_vars

----------------------------------------------------------------------------
MatchEntries == [lastSeen : 0..now, value : Dirs]
GlobEntries  == [lastSeen : 0..now, value : SUBSET Dirs]
AllLifetimes == Lifetimes \cup {Infinity, Nothing}

(* The caches of createParseSettings.ts and resolveProjectList.ts hold     *)
(* tsconfigs, none from the future, and only after a first caller.         *)
TypeOK ==
    /\ now \in 1..MaxTime /\ lastChange \in 0..now /\ lastClimb \in 0..now
    /\ disk \subseteq Dirs /\ changed \in 0..MaxChanges
    /\ project \in Options /\ cli \in BOOLEAN /\ settled \in BOOLEAN
    /\ candidates \subseteq Candidates /\ climbRoots \subseteq Dirs
    /\ matchLifetime \in AllLifetimes /\ globLifetime \in AllLifetimes
    /\ match \in [Dirs -> MatchEntries \cup {Nothing}]
    /\ glob \in [Dirs -> GlobEntries \cup {Nothing}]
    /\ matchLifetime = Nothing => match = [d \in Dirs |-> Nothing]
    /\ globLifetime = Nothing  => glob = [r \in Dirs |-> Nothing]

Answers(option) == answer # Nothing /\ answer.option = option /\ answer.root # Nothing

(* "Couldn't find any tsconfig.json" is never said from memory: absence is *)
(* not cached, so when the climb fails no directory it passed has one now  *)
(* (getProjectConfigFiles.ts:46-63).                                       *)
NotFoundIsTrue ==
    Answers("nearest") /\ answer.result = NotFound =>
        Climb(answer.dir, answer.root) \cap disk = {}

(* While the disk is as it was when the caches were last empty and one root*)
(* bounds all climbs, the entries that different files' climbs left on the *)
(* directories they share change no answer: it is the nearest tsconfig     *)
(* (getProjectConfigFiles.ts:51-54).                                       *)
StableAnswers ==
    Answers("nearest") /\ settled /\ climbRoots = {answer.root} =>
        answer.result = Nearest(disk, answer.dir, answer.root)

(* A found entry is written again on every hit and so lives on for as long *)
(* as somebody asks; once nobody has climbed for a lifetime, the next      *)
(* answer comes from the disk (ExpiringCache.ts:40, getProjectConfigFiles. *)
(* ts:51-54).                                                              *)
IdleMeansFresh ==
    Answers("nearest") /\ matchLifetime # Infinity /\ answer.idle >= matchLifetime =>
        answer.result = Nearest(disk, answer.dir, answer.root)

(* The list of a pattern is not written again on a hit: once the disk has  *)
(* been left alone for the cache's lifetime, whoever chose that lifetime,  *)
(* every list is what the disk holds, however often it was asked for       *)
(* (resolveProjectList.ts:77-81,120).                                      *)
GlobSettles ==
    Answers("pattern") /\ globLifetime # Infinity /\ now - lastChange >= globLifetime =>
        answer.result = Matches(disk, answer.root)
=============================================================================
