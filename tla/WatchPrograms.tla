--------------------------- MODULE WatchPrograms ---------------------------
(***************************************************************************)
(* getWatchProgramsForProjects: the programs typescript-estree keeps for   *)
(* the life of an editor's ESLint, and the caches it decides with whether  *)
(* TypeScript has to look again.  A call is made for each state of a file  *)
(* the user has typed; its text need not be on disk.  TypeScript notices   *)
(* nothing by itself: a program is brought up to date only when it is      *)
(* asked for, and only in what it has been told has changed.               *)
(*                                                                         *)
(* A call runs by itself, but files and tsconfigs are changed by others at *)
(* any moment, so each of its accesses to the disk is a step.  A hash      *)
(* stands for the text it is of; a program is the text of its files.       *)
(***************************************************************************)
EXTENDS Integers, Sequences

CONSTANTS
    Projects,       \* the tsconfigs
    Files, Texts,
    Includes,       \* Includes[p]: the sets of files p may include
    Imports,        \* Imports[f]: the files f brings in, directly or not
    Watched,        \* Watched[p]: the files in folders p's program watches
    Requests,       \* the projects a call may name, in their order
    MaxEdits,       \* how often a tsconfig is written (a bound)
    NoInvalidation, \* TSESTREE_NO_INVALIDATION
    Absent,         \* no such file, no hash of it
    NotCached,      \* no such entry
    Refused, Threw, Pending     \* a call without a text: see outcome

Never == -1         \* no time of a tsconfig

Configs(p) == [include : Includes[p], ok : BOOLEAN]
Unread     == [include |-> {}, ok |-> TRUE]

ASSUME WatchAssumption ==
    /\ Includes \in [Projects -> SUBSET SUBSET Files]
    /\ Imports \in [Files -> SUBSET Files]
    /\ Watched \in [Projects -> SUBSET Files]
    /\ \A p \in Projects : UNION Includes[p] \subseteq Watched[p]
    /\ Requests \subseteq Seq(Projects)
    /\ \A r \in Requests : \A i, j \in DOMAIN r : r[i] = r[j] => i = j
    /\ MaxEdits \in Nat
    /\ NoInvalidation \in BOOLEAN
    /\ Absent \notin Texts
    /\ \A s \in SUBSET Files : s # NotCached
    /\ {Refused, Threw, Pending} \cap Texts = {}
    /\ Refused # Threw /\ Refused # Pending /\ Threw # Pending

VARIABLES
    disk,       \* disk[f]: the text on disk, or Absent
    config,     \* config[p]: the tsconfig on disk; an error in it is not ok
    mtime,      \* mtime[p]: how often it has been written
    level,      \* level[p]: what TypeScript has been told to look at again
    loaded,     \* loaded[p]: the tsconfig it has read
    roots,      \* roots[p]: the root files of the program
    text,       \* text[p][f]: the program's text of f, or Absent
    stale,      \* stale[p]: the files TypeScript has been told have changed
    early,      \* early[p]: the tsconfig was written after it was read and
                \* before the first look at its time                (history)
    known,      \* knownWatchProgramMap, in the order of its entries
    fileList,   \* programFileListCache
    seenHash,   \* parsedFilesSeenHash
    timestamp,  \* tsconfigLastModifiedTimestampCache
    cur,        \* currentLintOperationState and the call's projects
    pc, at,     \* where the call is, and at which project
    results,    \* its results
    outcome,    \* the text of the file in the program the call found, or
                \* that none has it, that it threw, or that it is going on
    calm        \* nothing has changed on disk since the call began (history)

world  == <<disk, config, mtime, calm>>
program == <<loaded, roots, text, early>>
watch  == <<level, program, stale>>
caches == <<known, fileList, timestamp>>
call   == <<pc, at, results, outcome>>
vars   == <<world, watch, caches, seenHash, cur, call>>

Known == {known[i] : i \in DOMAIN known}

Labels == {"idle", "fast", "visit", "config", "folder", "folderSync",
           "deleted", "deletedSync", "listing"}

TypeOK ==
    /\ disk \in [Files -> Texts \cup {Absent}]
    /\ DOMAIN config = Projects /\ \A p \in Projects : config[p] \in Configs(p)
    /\ mtime \in [Projects -> 0..MaxEdits]
    /\ level \in [Projects -> {"current", "names", "full"}]
    /\ DOMAIN loaded = Projects
    /\ \A p \in Projects : loaded[p] \in Configs(p) \cup {Unread}
    /\ roots \in [Projects -> SUBSET Files]
    /\ text \in [Projects -> [Files -> Texts \cup {Absent}]]
    /\ stale \in [Projects -> SUBSET Files]
    /\ early \in [Projects -> BOOLEAN]
    /\ known \in Seq(Projects)
    /\ \A i, j \in DOMAIN known : known[i] = known[j] => i = j
    /\ fileList \in [Projects -> {NotCached} \cup SUBSET Files]
    /\ seenHash \in [Files -> Texts \cup {Absent}]
    /\ timestamp \in [Projects -> {Never} \cup 0..MaxEdits]
    /\ cur \in [file : Files, code : Texts, projects : Requests]
    /\ pc \in Labels
    /\ at \in Nat \ {0}
    /\ results \in Seq(Projects)
    /\ outcome \in Texts \cup {Refused, Threw, Pending}
    /\ calm \in BOOLEAN

(* No program yet: TypeScript will read everything. *)
Init ==
    /\ disk \in [Files -> Texts \cup {Absent}]
    /\ config \in {g \in [Projects -> UNION {Configs(p) : p \in Projects}] :
                      \A p \in Projects : g[p] \in Configs(p)}
    /\ mtime = [p \in Projects |-> 0]
    /\ level = [p \in Projects |-> "full"]
    /\ loaded = [p \in Projects |-> Unread]
    /\ roots = [p \in Projects |-> {}]
    /\ text = [p \in Projects |-> [f \in Files |-> Absent]]
    /\ stale = [p \in Projects |-> {}]
    /\ early = [p \in Projects |-> FALSE]
    /\ known = <<>>
    /\ fileList = [p \in Projects |-> NotCached]
    /\ seenHash = [f \in Files |-> Absent]
    /\ timestamp = [p \in Projects |-> Never]
    /\ cur \in [file : Files, code : Texts, projects : Requests]
    /\ pc = "idle"
    /\ at = 1
    /\ results = <<>>
    /\ outcome = Pending
    /\ calm = FALSE

-----------------------------------------------------------------------------
(* TypeScript's side of a program (external): what asking for it does.      *)

(* watchCompilerHost.readFile: the code being linted, not the copy on disk. *)
Read(f) == IF f = cur.file THEN cur.code ELSE disk[f]

OutOfDate(p) == level[p] # "current" \/ stale[p] # {}

NewLoaded(p) == IF level[p] = "full" THEN config[p] ELSE loaded[p]

NewRoots(p) == IF level[p] = "current" THEN roots[p]
               ELSE {f \in NewLoaded(p).include : disk[f] # Absent}

(* The root files, and what they import where it is found. *)
Wanted(p) ==
    NewRoots(p) \cup
    {g \in UNION {Imports[f] : f \in NewRoots(p)} :
        disk[g] # Absent \/ text[p][g] # Absent}

Kept(p, f) == text[p][f] # Absent /\ f \notin stale[p]

NewText(p) ==
    IF ~OutOfDate(p) THEN text[p]
    ELSE [f \in Files |-> IF f \notin Wanted(p) THEN Absent
                          ELSE IF Kept(p, f) THEN text[p][f] ELSE Read(f)]

(* Every text that is read is hashed. *)
NewSeenHash(p) ==
    [f \in Files |->
        IF OutOfDate(p) /\ f \in Wanted(p) /\ ~Kept(p, f) /\ Read(f) # Absent
        THEN Read(f) ELSE seenHash[f]]

(* afterProgramCreate: there is a new program, of a tsconfig with an error. *)
NewProgram(p) == \/ level[p] = "full" \/ stale[p] # {}
                 \/ NewRoots(p) # roots[p] \/ NewText(p) # text[p]

Throws(p) == NewProgram(p) /\ ~NewLoaded(p).ok

(* existingWatch.getProgram(); the program is taken though it is thrown. *)
Sync(p) ==
    /\ loaded' = [loaded EXCEPT ![p] = NewLoaded(p)]
    /\ roots' = [roots EXCEPT ![p] = NewRoots(p)]
    /\ text' = [text EXCEPT ![p] = NewText(p)]
    /\ stale' = [stale EXCEPT ![p] = {}]
    /\ level' = [level EXCEPT ![p] = "current"]
    /\ early' = [early EXCEPT ![p] = @ /\ level[p] # "full"]
    /\ seenHash' = NewSeenHash(p)

InProgram(p) == NewText(p)[cur.file] # Absent

(* The programs qs are told: f has changed, or a folder is to be read again. *)
MarkStale(qs, f) ==
    stale' = [q \in Projects |-> IF q \in qs THEN stale[q] \cup {f} ELSE stale[q]]

MarkNames(qs) ==
    level' = [q \in Projects |-> IF q \in qs /\ level[q] = "current"
                                 THEN "names" ELSE level[q]]

(* The programs whose callback for a file makes them read it again. *)
Holders(f) == {q \in Known : text[q][f] # Absent}

-----------------------------------------------------------------------------
Goto(label) == pc' = label /\ UNCHANGED <<at, results, outcome>>

NextIndex == at' = at + 1 /\ UNCHANGED <<pc, outcome>>

Finish(result) == /\ pc' = "idle" /\ at' = 1 /\ results' = <<>>
                  /\ outcome' = result

SetFileList(p, files) == fileList' = [fileList EXCEPT ![p] = files]

(* createProjectProgram: the first of the programs that has the file. *)
FinishWith(programs, texts) ==
    LET having == {i \in DOMAIN programs : texts[programs[i]][cur.file] # Absent}
    IN  \/ having = {} /\ Finish(Refused)
        \/ \E i \in having : /\ \A j \in having : i <= j
                             /\ Finish(texts[programs[i]][cur.file])

NewTexts(p) == [text EXCEPT ![p] = NewText(p)]

-----------------------------------------------------------------------------
(* Mutant: TypeScript is not told of the new text. *)
LintSilently(f, code, projects) ==
    /\ pc = "idle"
    /\ cur' = [file |-> f, code |-> code, projects |-> projects]
    /\ pc' = "fast" /\ at' = 1 /\ results' = <<>> /\ outcome' = Pending
    /\ calm' = TRUE
    /\ UNCHANGED <<disk, config, mtime, watch, caches, seenHash>>

(* A call: the callbacks of the file run when its text is not the one whose *)
(* hash was seen last.                                                      *)
Lint(f, code, projects) ==
    /\ pc = "idle"
    /\ cur' = [file |-> f, code |-> code, projects |-> projects]
    /\ MarkStale(IF seenHash[f] # code THEN Holders(f) ELSE {}, f)
    /\ pc' = "fast" /\ at' = 1 /\ results' = <<>> /\ outcome' = Pending
    /\ calm' = TRUE
    /\ UNCHANGED <<disk, config, mtime, level, program, caches, seenHash>>

(* The first loop, over the programs there are.                             *)
Requested(p) == p \in {cur.projects[i] : i \in DOMAIN cur.projects}

InFast == pc = "fast" /\ at \in DOMAIN known

FastSkip ==
    /\ InFast
    /\ \/ ~Requested(known[at])
       \/ fileList[known[at]] # NotCached /\ cur.file \notin fileList[known[at]]
    /\ NextIndex
    /\ UNCHANGED <<world, watch, caches, seenHash, cur, results>>

FastFill ==
    LET p == known[at]
    IN  /\ InFast
        /\ Requested(p) /\ fileList[p] = NotCached
        /\ Sync(p)
        /\ IF Throws(p) THEN Finish(Threw) /\ UNCHANGED fileList
           ELSE /\ SetFileList(p, NewRoots(p))
                /\ IF cur.file \in NewRoots(p)
                   THEN FinishWith(<<p>>, NewTexts(p))
                   ELSE NextIndex /\ UNCHANGED results
        /\ UNCHANGED <<world, known, timestamp, cur>>

FastHit ==
    LET p == known[at]
    IN  /\ InFast
        /\ Requested(p) /\ fileList[p] # NotCached /\ cur.file \in fileList[p]
        /\ Sync(p)
        /\ IF Throws(p) THEN Finish(Threw) ELSE FinishWith(<<p>>, NewTexts(p))
        /\ UNCHANGED <<world, caches, cur>>

FastMiss ==
    /\ pc = "fast" /\ at \notin DOMAIN known
    /\ pc' = "visit" /\ at' = 1
    /\ UNCHANGED <<world, watch, caches, seenHash, cur, results, outcome>>

-----------------------------------------------------------------------------
(* The second loop, over the call's projects.                               *)
Project == cur.projects[at]

NextProject == pc' = "visit" /\ at' = at + 1 /\ UNCHANGED outcome

Visits(label) == pc = label /\ at \in DOMAIN cur.projects

(* Mutant: whether there is a program already is not looked at. *)
CreateAgain ==
    /\ Visits("visit") /\ ~Throws(Project)
    /\ Sync(Project)
    /\ known' = Append(known, Project)
    /\ SetFileList(Project, NewRoots(Project))
    /\ NextProject /\ results' = Append(results, Project)
    /\ UNCHANGED <<world, timestamp, cur>>

(* createWatchProgram, and the program's first list. *)
Create ==
    /\ Visits("visit") /\ Project \notin Known /\ ~Throws(Project)
    /\ Sync(Project)
    /\ known' = Append(known, Project)
    /\ SetFileList(Project, NewRoots(Project))
    /\ IF cur.file \in NewRoots(Project)
       THEN FinishWith(<<Project>>, NewTexts(Project))
       ELSE NextProject /\ results' = Append(results, Project)
    /\ UNCHANGED <<world, timestamp, cur>>

(* It throws before the program is put into the map. *)
CreateThrows ==
    /\ Visits("visit") /\ Project \notin Known /\ Throws(Project)
    /\ seenHash' = NewSeenHash(Project)
    /\ Finish(Threw)
    /\ UNCHANGED <<world, watch, caches, cur>>

(* maybeInvalidateProgram: the program is asked for. *)
Visit ==
    /\ Visits("visit") /\ Project \in Known
    /\ Sync(Project)
    /\ IF Throws(Project) THEN Finish(Threw)
       ELSE Goto(IF NoInvalidation THEN "listing" ELSE "config")
    /\ UNCHANGED <<world, caches, cur>>

(* hasTSConfigChanged; the first look has nothing to compare with.  Mutant: *)
(* without Math.abs, only a time that is earlier than before is a change.   *)
HasTSConfigGoneBack(p) == timestamp[p] # Never /\ timestamp[p] > mtime[p]

HasTSConfigChanged(p) == timestamp[p] # Never /\ timestamp[p] # mtime[p]

CheckConfig ==
    /\ Visits("config")
    /\ timestamp' = [timestamp EXCEPT ![Project] = mtime[Project]]
    /\ IF HasTSConfigChanged(Project)
       THEN /\ level' = [level EXCEPT ![Project] = "full"]
            /\ SetFileList(Project, NotCached)
       ELSE UNCHANGED <<level, fileList>>
    /\ Goto(IF text[Project][cur.file] # Absent THEN "listing" ELSE "folder")
    /\ UNCHANGED <<world, program, stale, known, seenHash, cur>>

(* The callbacks of the file's folder, and of those above it. *)
Folder ==
    LET watching == {q \in Known : cur.file \in Watched[q]}
    IN  /\ Visits("folder")
        /\ IF watching = {}
           THEN NextProject /\ UNCHANGED <<level, fileList, results>>
           ELSE /\ MarkNames(watching)
                /\ SetFileList(Project, NotCached)
                /\ Goto("folderSync")
        /\ UNCHANGED <<world, program, stale, known, timestamp, seenHash, cur>>

FolderSync ==
    /\ Visits("folderSync")
    /\ Sync(Project)
    /\ IF Throws(Project) THEN Finish(Threw)
       ELSE Goto(IF InProgram(Project) THEN "listing" ELSE "deleted")
    /\ UNCHANGED <<world, caches, cur>>

(* A root file that is not on disk any more is reported as deleted, to those *)
(* that hold it.  A root file always has callbacks, of the missing file at   *)
(* least: that there are none "shouldn't happen", as the code says.          *)
NoneDeleted ==
    /\ Visits("deleted")
    /\ \A d \in roots[Project] : disk[d] # Absent
    /\ NextProject
    /\ UNCHANGED <<world, watch, caches, seenHash, cur, results>>

Deleted(d) ==
    /\ Visits("deleted")
    /\ d \in roots[Project] /\ disk[d] = Absent
    /\ MarkStale(Holders(d), d)
    /\ MarkNames(Holders(d))
    /\ SetFileList(Project, NotCached)
    /\ Goto("deletedSync")
    /\ UNCHANGED <<world, program, known, timestamp, seenHash, cur>>

DeletedSync ==
    /\ Visits("deletedSync")
    /\ Sync(Project)
    /\ IF Throws(Project) THEN Finish(Threw)
       ELSE IF InProgram(Project) THEN Goto("listing")
       ELSE NextProject /\ UNCHANGED results
    /\ UNCHANGED <<world, caches, cur>>

(* The program is a result: its list is cached, and looked at. *)
Listing ==
    /\ Visits("listing")
    /\ SetFileList(Project, roots[Project])
    /\ IF cur.file \in roots[Project] THEN FinishWith(<<Project>>, text)
       ELSE NextProject /\ results' = Append(results, Project)
    /\ UNCHANGED <<world, watch, known, timestamp, seenHash, cur>>

NoMoreProjects ==
    /\ pc = "visit" /\ at \notin DOMAIN cur.projects
    /\ FinishWith(results, text)
    /\ UNCHANGED <<world, watch, caches, seenHash, cur>>

-----------------------------------------------------------------------------
(* clearWatchCaches: the programs are let go of with the maps. *)
ClearWatchCaches ==
    /\ pc = "idle" /\ known # <<>>
    /\ level' = [p \in Projects |-> "full"]
    /\ loaded' = [p \in Projects |-> Unread]
    /\ roots' = [p \in Projects |-> {}]
    /\ text' = [p \in Projects |-> [f \in Files |-> Absent]]
    /\ stale' = [p \in Projects |-> {}]
    /\ early' = [p \in Projects |-> FALSE]
    /\ known' = <<>>
    /\ fileList' = [p \in Projects |-> NotCached]
    /\ seenHash' = [f \in Files |-> Absent]
    /\ timestamp' = [p \in Projects |-> Never]
    /\ UNCHANGED <<world, cur, call>>

(* Others: a file is saved, created or deleted; a tsconfig is written. *)
Save(f, t) ==
    /\ disk[f] # t
    /\ disk' = [disk EXCEPT ![f] = t]
    /\ calm' = FALSE
    /\ UNCHANGED <<config, mtime, watch, caches, seenHash, cur, call>>

WriteConfig(p, c) ==
    /\ mtime[p] < MaxEdits
    /\ config' = [config EXCEPT ![p] = c]
    /\ mtime' = [mtime EXCEPT ![p] = @ + 1]
    /\ calm' = FALSE
    /\ early' = [early EXCEPT ![p] = @ \/ (p \in Known /\ timestamp[p] = Never)]
    /\ UNCHANGED <<disk, level, loaded, roots, text, stale, caches, seenHash, cur, call>>

CallStep ==
    \/ FastSkip \/ FastFill \/ FastHit \/ FastMiss
    \/ Create \/ CreateThrows \/ Visit \/ CheckConfig
    \/ Folder \/ FolderSync
    \/ NoneDeleted \/ (\E d \in Files : Deleted(d)) \/ DeletedSync
    \/ Listing \/ NoMoreProjects

Next ==
    \/ \E f \in Files, code \in Texts, projects \in Requests : Lint(f, code, projects)
    \/ CallStep
    \/ ClearWatchCaches
    \/ \E f \in Files, t \in Texts \cup {Absent} : Save(f, t)
    \/ \E p \in Projects : \E c \in Configs(p) : WriteConfig(p, c)

Spec == Init /\ [][Next]_vars

-----------------------------------------------------------------------------
(* Whatever a program has the file of a call as is the text of the call:    *)
(* the rules run over the code they are shown, typed but not saved.         *)
FreshText == pc = "idle" /\ outcome \in Texts => outcome = cur.code

(* A call that has looked at all its projects and gives the file up is      *)
(* right to, if nothing has changed on disk while it looked: each of the    *)
(* tsconfigs does not include the file, or was written before the first look*)
(* at its time, which that look cannot tell (lines 352-359).                *)
GivesUpRightly ==
    [][NoMoreProjects /\ outcome' = Refused /\ calm /\ ~NoInvalidation =>
          \/ disk[cur.file] = Absent
          \/ \A i \in DOMAIN cur.projects :
                 \/ cur.file \notin config[cur.projects[i]].include
                 \/ early[cur.projects[i]]]_vars
=============================================================================
